-------------------------- MODULE AdapterCallProofs --------------------------
(***************************************************************************)
(* Proofs about InterfaceConfig and AdapterCall, for any inputs, workers,  *)
(* number of attempts, messages and files.                                 *)
(***************************************************************************)
EXTENDS AdapterCall, NumberLemmas

(***************************************************************************)
(* The form.                                                               *)
(***************************************************************************)

\* Every form is one of some protocol.
LEMMA FormFields ==
  ASSUME NEW f \in Form
  PROVE  /\ f.protocol \in Protocol /\ f.filled \subseteq Field(f.protocol)
         /\ f.protocol = "REST" => f.auth \in RestAuthType
<1>1. PICK p \in Protocol :
        f \in [protocol: {p}, op: Operation, endpoint: BOOLEAN, texts: BOOLEAN,
               auth: IF p = "REST" THEN RestAuthType ELSE {""}, filled: SUBSET Field(p)]
  BY DEF Form
<1>2. f.protocol = p /\ f.filled \subseteq Field(p)
  BY <1>1
<1>3. f.auth \in IF p = "REST" THEN RestAuthType ELSE {""}
  BY <1>1
<1> QED
  BY <1>2, <1>3

\* Which fields _build_config writes: no two fields of a protocol share a key.
KeptOf(f) ==
  IF f.protocol = "REST" THEN (f.filled \cap {"rest_timeout_sec"}) \cup (f.filled \cap RestAuthKept(f.auth))
  ELSE f.filled \cup Defaulted[f.protocol]

LEMMA KeysDiffer ==
  \A p \in Protocol : \A x, y \in Field(p) : KeyOf[p][x] = KeyOf[p][y] => x = y
<1>1. \A x, y \in Field("REST") : KeyOf["REST"][x] = KeyOf["REST"][y] => x = y
  BY DEF Field, KeyOf
<1>2. \A x, y \in Field("SOAP") : KeyOf["SOAP"][x] = KeyOf["SOAP"][y] => x = y
  BY DEF Field, KeyOf
<1>3. \A x, y \in Field("MQ") : KeyOf["MQ"][x] = KeyOf["MQ"][y] => x = y
  BY DEF Field, KeyOf
<1>4. \A x, y \in Field("SFTP") : KeyOf["SFTP"][x] = KeyOf["SFTP"][y] => x = y
  BY DEF Field, KeyOf
<1>5. \A x, y \in Field("BATCH") : KeyOf["BATCH"][x] = KeyOf["BATCH"][y] => x = y
  BY DEF Field, KeyOf
<1> QED
  BY <1>1, <1>2, <1>3, <1>4, <1>5 DEF Protocol

LEMMA KeysApart ==
  \A x \in Field("REST") : KeyOf["REST"][x] \notin {"method", "headers", "query_params"}
  BY DEF Field, KeyOf

LEMMA KeptIsField == \A f \in Form : KeptOf(f) \subseteq Field(f.protocol)
<1> SUFFICES ASSUME NEW f \in Form
             PROVE  KeptOf(f) \subseteq Field(f.protocol)
  OBVIOUS
<1>1. f.protocol \in Protocol /\ f.filled \subseteq Field(f.protocol)
  BY FormFields
<1>2. CASE f.protocol = "REST"
  BY <1>1, <1>2 DEF KeptOf
<1>3. CASE f.protocol = "SOAP" \/ f.protocol = "MQ"
  <2>1. Defaulted[f.protocol] = {}
    BY <1>3 DEF Defaulted
  <2> QED
    BY <1>1, <1>3, <2>1 DEF KeptOf
<1>4. CASE f.protocol = "SFTP"
  <2>1. Defaulted[f.protocol] \subseteq Field(f.protocol)
    BY <1>4 DEF Defaulted, Field, KeyOf
  <2> QED
    BY <1>1, <1>4, <2>1 DEF KeptOf
<1>5. CASE f.protocol = "BATCH"
  <2>1. Defaulted[f.protocol] \subseteq Field(f.protocol)
    BY <1>5 DEF Defaulted, Field, KeyOf
  <2> QED
    BY <1>1, <1>5, <2>1 DEF KeptOf
<1> QED
  BY <1>1, <1>2, <1>3, <1>4, <1>5 DEF Protocol

\* The keys of the fields a form keeps.
Given(f) == {KeyOf[f.protocol][x] : x \in KeptOf(f)}

\* The three parts of a configuration the form makes.
AlwaysKeys(p) == IF p = "REST" THEN {"method", "headers", "query_params"} ELSE {}
AuthOf(f) ==
  IF f.protocol = "REST" THEN f.auth
  ELSE IF f.protocol = "SOAP" /\ Given(f) \cap {"auth.user", "auth.pass"} # {}
       THEN "ws-security" ELSE ""

LEMMA ConfigParts ==
  ASSUME NEW f
  PROVE  _build_config(f) =
           [keys |-> Given(f) \cup AlwaysKeys(f.protocol), auth |-> AuthOf(f), live |-> "unset"]
<1>1. CASE f.protocol = "REST"
  BY <1>1 DEF _build_config, KeptOf, Given, AlwaysKeys, AuthOf
<1>2. CASE f.protocol = "SOAP"
  BY <1>2 DEF _build_config, KeptOf, Given, AlwaysKeys, AuthOf
<1>3. CASE f.protocol \notin {"REST", "SOAP"}
  BY <1>3 DEF _build_config, KeptOf, Given, AlwaysKeys, AuthOf
<1> QED
  BY <1>1, <1>2, <1>3

\* The form shows of its own configuration the fields that were kept, no more and no less.
ShowsWhatWasKept(f, g) ==
  /\ g.protocol = f.protocol /\ g.op = f.op /\ g.texts
  /\ g.filled = KeptOf(f)
  /\ f.protocol = "REST" => g.auth = f.auth

LEMMA ShowsKept ==
  ASSUME NEW f \in Form, NEW cfg, cfg = _build_config(f),
         NEW g, g = _hydrate_from_config(f.protocol, f.op, f.endpoint, cfg)
  PROVE  ShowsWhatWasKept(f, g)
<1>1. f.protocol \in Protocol /\ KeptOf(f) \subseteq Field(f.protocol)
  BY KeptIsField, FormFields
<1>2. /\ cfg.keys = Given(f) \cup AlwaysKeys(f.protocol)
      /\ f.protocol = "REST" => cfg.auth = f.auth
  <2>1. cfg = [keys |-> Given(f) \cup AlwaysKeys(f.protocol), auth |-> AuthOf(f), live |-> "unset"]
    BY ConfigParts
  <2>2. cfg.keys = Given(f) \cup AlwaysKeys(f.protocol) /\ cfg.auth = AuthOf(f)
    BY <2>1
  <2> QED
    BY <2>2 DEF AuthOf
<1>3. /\ g.protocol = f.protocol /\ g.op = f.op /\ g.texts
      /\ g.auth = ShownAuth(f.protocol, cfg)
      /\ g.filled = {x \in Field(f.protocol) : KeyOf[f.protocol][x] \in cfg.keys}
  BY DEF _hydrate_from_config
<1>4. f.protocol = "REST" => g.auth = f.auth
  <2>1. f.protocol = "REST" => f.auth \in RestAuthType
    BY FormFields
  <2> QED
    BY <1>2, <1>3, <2>1 DEF ShownAuth
<1>5. ASSUME NEW x \in Field(f.protocol)
      PROVE  KeyOf[f.protocol][x] \in cfg.keys <=> x \in KeptOf(f)
  <2>1. KeyOf[f.protocol][x] \in Given(f) <=> x \in KeptOf(f)
    BY <1>1, KeysDiffer DEF Given
  <2>2. f.protocol = "REST" => KeyOf[f.protocol][x] \notin {"method", "headers", "query_params"}
    BY KeysApart
  <2> QED
    BY <1>2, <2>1, <2>2 DEF AlwaysKeys
<1> QED
  BY <1>1, <1>3, <1>4, <1>5 DEF ShowsWhatWasKept

\* What is kept is kept again.
LEMMA KeptAgain ==
  ASSUME NEW f \in Form, NEW g, g.protocol = f.protocol, g.filled = KeptOf(f),
         f.protocol = "REST" => g.auth = f.auth
  PROVE  KeptOf(g) = KeptOf(f)
<1>1. CASE f.protocol = "REST"
  <2>1. KeptOf(f) = (f.filled \cap {"rest_timeout_sec"}) \cup (f.filled \cap RestAuthKept(f.auth))
    BY <1>1 DEF KeptOf
  <2>2. KeptOf(g) = (KeptOf(f) \cap {"rest_timeout_sec"}) \cup (KeptOf(f) \cap RestAuthKept(f.auth))
    BY <1>1 DEF KeptOf
  <2> QED
    BY <2>1, <2>2
<1>2. CASE f.protocol # "REST"
  BY <1>2 DEF KeptOf
<1> QED
  BY <1>1, <1>2

\* What the form made it shows, accepts again and makes the same of: for every form it accepts.
LEMMA RoundTrip ==
  ASSUME NEW f \in Form, Valid(f), NEW cfg, cfg = _build_config(f),
         NEW g, g = _hydrate_from_config(f.protocol, f.op, f.endpoint, cfg)
  PROVE  Valid(g) /\ _build_config(g) = cfg
<1>1. /\ g.protocol = f.protocol /\ g.op = f.op /\ g.texts /\ g.filled = KeptOf(f)
      /\ f.protocol = "REST" => g.auth = f.auth
      /\ f.protocol \in Protocol
  <2>1. /\ g.protocol = f.protocol /\ g.op = f.op /\ g.texts /\ g.filled = KeptOf(f)
        /\ f.protocol = "REST" => g.auth = f.auth
    BY ShowsKept DEF ShowsWhatWasKept
  <2>2. f.protocol \in Protocol
    BY FormFields
  <2> QED
    BY <2>1, <2>2
<1>2. KeptOf(g) = KeptOf(f) /\ Given(g) = Given(f)
  BY <1>1, KeptAgain DEF Given
<1>3. Valid(g)
  <2>1. Required[f.protocol] \subseteq KeptOf(f)
    <3>1. CASE f.protocol = "REST"
      BY <3>1 DEF Required
    <3>2. CASE f.protocol # "REST"
      BY <3>2 DEF KeptOf, Valid, Buildable
    <3> QED
      BY <3>1, <3>2
  <2> QED
    BY <1>1, <2>1 DEF Valid, Buildable
<1>4. _build_config(g) = _build_config(f)
  <2>1. AuthOf(g) = AuthOf(f)
    BY <1>1, <1>2 DEF AuthOf
  <2>2. _build_config(g) =
          [keys |-> Given(g) \cup AlwaysKeys(g.protocol), auth |-> AuthOf(g), live |-> "unset"]
    BY ConfigParts
  <2>3. _build_config(f) =
          [keys |-> Given(f) \cup AlwaysKeys(f.protocol), auth |-> AuthOf(f), live |-> "unset"]
    BY ConfigParts
  <2> QED
    BY <1>1, <1>2, <2>1, <2>2, <2>3
<1> QED
  BY <1>3, <1>4

(***************************************************************************)
(* The interface: its type, and that the form wrote what it holds.         *)
(***************************************************************************)

\* What the form wrote is what it makes of some form it accepts.
FormInv ==
  itf.byForm => \E f \in Form :
    /\ Valid(f)
    /\ itf.protocol = f.protocol /\ itf.op = f.op /\ itf.endpoint = f.endpoint
    /\ itf.cfg = _build_config(f)

LEMMA FormTypes ==
  ASSUME NEW f \in Form
  PROVE  f.op \in Operation /\ f.endpoint \in BOOLEAN /\ f.auth \in AuthType
<1>1. PICK p \in Protocol :
        f \in [protocol: {p}, op: Operation, endpoint: BOOLEAN, texts: BOOLEAN,
               auth: IF p = "REST" THEN RestAuthType ELSE {""}, filled: SUBSET Field(p)]
  BY DEF Form
<1>2. f.auth \in IF p = "REST" THEN RestAuthType ELSE {""}
  BY <1>1
<1>3. f.auth \in AuthType
  BY <1>2 DEF RestAuthType, AuthType
<1> QED
  BY <1>1, <1>3

\* _build_config writes keys that some protocol has.
LEMMA ConfigTyped ==
  ASSUME NEW f \in Form
  PROVE  _build_config(f) \in [keys: SUBSET Key, auth: AuthType, live: Live]
<1>1. f.protocol \in Protocol /\ KeptOf(f) \subseteq Field(f.protocol)
  BY KeptIsField, FormFields
<1>2. Given(f) \subseteq Key
  BY <1>1 DEF Given, Key
<1>3. AlwaysKeys(f.protocol) \subseteq Key
  BY DEF AlwaysKeys, Key
<1>4. AuthOf(f) \in AuthType
  BY FormTypes DEF AuthOf, AuthType
<1>5. "unset" \in Live
  BY DEF Live
<1> QED
  BY <1>2, <1>3, <1>4, <1>5, ConfigParts

\* The form shows something it could be given.
LEMMA ShownIsForm ==
  ASSUME NEW i \in Interface
  PROVE  Shown(i) \in Form
<1>1. i.protocol \in Protocol /\ i.op \in Operation /\ i.endpoint \in BOOLEAN
  BY DEF Interface
<1>2. ShownAuth(i.protocol, i.cfg) \in IF i.protocol = "REST" THEN RestAuthType ELSE {""}
  BY DEF ShownAuth, RestAuthType
<1>3. Shown(i) \in
        [protocol: {i.protocol}, op: Operation, endpoint: BOOLEAN, texts: BOOLEAN,
         auth: IF i.protocol = "REST" THEN RestAuthType ELSE {""},
         filled: SUBSET Field(i.protocol)]
  BY <1>1, <1>2 DEF Shown, _hydrate_from_config
<1> QED
  BY <1>1, <1>3 DEF Form

\* A saved form is well typed and remembered.
LEMMA SaveKeeps ==
  ASSUME NEW f \in Form, Save(f)
  PROVE  itf' \in Interface /\ FormInv'
<1>1. itf' = [protocol |-> f.protocol, op |-> f.op, endpoint |-> f.endpoint,
              byForm |-> TRUE, cfg |-> _build_config(f)] /\ Valid(f)
  BY DEF Save
<1>2. itf' \in Interface
  BY <1>1, ConfigTyped, FormFields, FormTypes DEF Interface
<1>3. /\ itf'.protocol = f.protocol /\ itf'.op = f.op /\ itf'.endpoint = f.endpoint
      /\ itf'.cfg = _build_config(f)
  BY <1>1
<1> QED
  BY <1>1, <1>2, <1>3 DEF FormInv


(***************************************************************************)
(* The calls.                                                              *)
(***************************************************************************)

\* An attempt waits for the system of its protocol.
Fits(c) ==
  /\ c.pc = "sftp" \/ c.pc = "moving" => c.itf.protocol = "SFTP"
  /\ c.pc = "rest" \/ c.pc = "soap" \/ c.pc = "running" =>
       c.itf.protocol # "SFTP" /\ c.itf.protocol # "MQ"
  /\ c.pc = "mq" => c.itf.protocol = "MQ"
  /\ c.pc = "getting" \/ c.pc = "acking" => Consumes(c.itf)
  /\ c.pc = "closing" => c.itf.protocol = "MQ"

\* Attempts that are over have had at most one effect each.
Over(c) == c.pc = "backoff" \/ c.pc = "closing" \/ c.pc = "logging"
Bounded(c) ==
  \/ c.itf.protocol = "SFTP"
  \/ Consumes(c.itf)
  \/ c.effects <= c.attempt
  \/ Over(c) /\ c.effects <= c.attempt + 1

\* The work of a live attempt is done.
Complete(c) ==
  /\ c.itf.protocol = "SFTP" => c.handled = NFiles
  /\ Consumes(c.itf) /\ c.attempt = 0 => c.effects = c.handled
  /\ Consumes(c.itf) => c.effects >= c.handled

\* What an attempt has received and acknowledged so far.
Progress(c) ==
  /\ c.pc # "getting" /\ c.pc # "acking" /\ c.pc # "closing" => c.held = 0
  /\ (c.pc = "attempt" \/ c.pc = "mq" \/ c.pc = "getting") /\ c.attempt = 0 => c.effects = 0
  /\ c.pc = "mq" => c.handled = 0
  /\ c.pc = "getting" => c.handled = c.held
  /\ c.pc = "acking" => /\ c.effects + c.held >= c.handled
                        /\ c.attempt = 0 => c.effects + c.held = c.handled
  /\ c.pc = "closing" /\ c.ok => Complete(c)
  /\ c.pc = "logging" /\ c.ok /\ c.real => Complete(c)

Good(c) ==
  /\ c \in CallOf(Phase)
  /\ c.pc = "backoff" => c.attempt < RetryMax
  /\ Fits(c) /\ Bounded(c) /\ Progress(c)

CallsGood == \A w \in Worker : call[w] # NoCall => Good(call[w])
EndedWell(c) ==
  /\ c.itf.protocol = "SFTP" \/ Consumes(c.itf) \/ c.effects <= RetryMax + 1
  /\ c.pc = "logged" /\ c.ok /\ c.real => Complete(c)
EndedGood == ended # NoCall => EndedWell(ended)

Typed ==
  /\ DOMAIN call = Worker
  /\ \A w \in Worker : call[w] = NoCall \/ call[w] \in CallOf(Phase)
  /\ ready \in Nat /\ acked \in Nat /\ put \in Nat
  /\ settings \in [live: BOOLEAN, installed: SUBSET Protocol]
  /\ itf \in Interface

\* A call another worker does not see: it takes one step, or it is over.
Goes(w, d) ==
  /\ Good(d) /\ call' = [call EXCEPT ![w] = d]
  /\ ready' \in Nat /\ acked' \in Nat /\ put' \in Nat

LEMMA TypeParts == TypeOK => Typed
  BY DEF TypeOK, Typed

LEMMA CallFields ==
  ASSUME NEW c \in CallOf(Phase)
  PROVE  /\ c.pc \in Phase /\ c.itf \in Interface /\ c.soft \in BOOLEAN
         /\ c.attempt \in 0..RetryMax /\ c.ok \in BOOLEAN /\ c.real \in BOOLEAN
         /\ c.sent \in SUBSET Key /\ c.held \in Nat /\ c.handled \in Nat /\ c.effects \in Nat
         /\ c # NoCall
<1>1. c.pc \in Phase
  BY DEF CallOf
<1>2. c.pc # "idle"
  BY <1>1 DEF Phase, Waiting
<1>3. c # NoCall
  BY <1>2 DEF NoCall
<1> QED
  BY <1>1, <1>3 DEF CallOf

\* A worker that stands at a phase has a call, and a good one.
LEMMA AtPhase ==
  ASSUME Typed, CallsGood, NEW w \in Worker, call[w].pc # "idle"
  PROVE  call[w] # NoCall /\ Good(call[w]) /\ call[w] \in CallOf(Phase)
<1>1. call[w] # NoCall
  BY DEF NoCall
<1> QED
  BY <1>1 DEF Typed, CallsGood

\* After keeps all but the result and the phase.
LEMMA AfterFields ==
  ASSUME NEW c \in CallOf(Phase), NEW ok \in BOOLEAN, NEW d, d = After(c, ok)
  PROVE  /\ d \in CallOf(Phase)
         /\ d.itf = c.itf /\ d.attempt = c.attempt /\ d.ok = ok /\ d.real = c.real
         /\ d.held = c.held /\ d.handled = c.handled /\ d.effects = c.effects
         /\ d.pc = "logging" \/ d.pc = "backoff"
         /\ d.pc = "backoff" => c.attempt # RetryMax /\ ~ ok
<1>1. "logging" \in Phase /\ "backoff" \in Phase
  BY DEF Phase
<1> QED
  BY <1>1 DEF After, CallOf

\* An attempt that is over leaves a good call.
LEMMA AfterGood ==
  ASSUME AdapterAssumption, NEW c \in CallOf(Phase), NEW ok \in BOOLEAN, NEW d, d = After(c, ok),
         c.held = 0,
         c.itf.protocol = "SFTP" \/ Consumes(c.itf) \/ c.effects <= c.attempt + 1,
         ok /\ c.real => Complete(c)
  PROVE  Good(d)
<1>1. /\ d \in CallOf(Phase)
      /\ d.itf = c.itf /\ d.attempt = c.attempt /\ d.ok = ok /\ d.real = c.real
      /\ d.held = c.held /\ d.handled = c.handled /\ d.effects = c.effects
      /\ d.pc = "logging" \/ d.pc = "backoff"
      /\ d.pc = "backoff" => c.attempt # RetryMax /\ ~ ok
  BY AfterFields
<1>2. c.attempt \in 0..RetryMax /\ RetryMax \in Nat
  BY CallFields DEF AdapterAssumption
<1>3. d.pc = "backoff" => d.attempt < RetryMax
  BY <1>1, <1>2
<1>4. Fits(d)
  BY <1>1 DEF Fits
<1>5. Bounded(d)
  BY <1>1 DEF Bounded, Over
<1>6. ok /\ c.real => Complete(d)
  BY <1>1 DEF Complete
<1>7. Progress(d)
  BY <1>1, <1>6 DEF Progress
<1> QED
  BY <1>1, <1>3, <1>4, <1>5, <1>7 DEF Good


LEMMA StartGood ==
  ASSUME AdapterAssumption, Typed, NEW d,
         d = [pc |-> "attempt", itf |-> itf, soft |-> FALSE, attempt |-> 0,
              ok |-> FALSE, real |-> FALSE, sent |-> {}, held |-> 0, handled |-> 0,
              effects |-> 0]
  PROVE  Good(d)
<1>1. d \in CallOf(Phase)
  BY DEF CallOf, Phase, Typed, AdapterAssumption
<1>2. d.pc = "attempt" /\ d.attempt = 0 /\ d.held = 0 /\ d.effects = 0
  OBVIOUS
<1> QED
  BY <1>1, <1>2 DEF Good, Fits, Bounded, Progress

\* What a live call carries, by its protocol.
SentBy(i) == CASE i.protocol = "REST" -> RestAuth(i.cfg)
               [] i.protocol = "SOAP" -> SoapAuth(i.cfg)
               [] i.protocol = "SFTP" -> SftpAuth(i)
               [] OTHER               -> {}

LEMMA SentIsKeys ==
  ASSUME NEW i \in Interface
  PROVE  SentBy(i) \in SUBSET Key
<1>1. {"auth.user", "auth.password", "auth.token", "auth.key", "user", "key_path", "password"}
        \subseteq Key
  <2>1. KeyOf["REST"]["rest_auth_token"] = "auth.token" /\ KeyOf["REST"]["rest_auth_user"] = "auth.user"
        /\ KeyOf["SFTP"]["sftp_user"] = "user"
    BY DEF KeyOf
  <2>2. "rest_auth_token" \in Field("REST") /\ "rest_auth_user" \in Field("REST")
        /\ "sftp_user" \in Field("SFTP")
    BY DEF Field, KeyOf
  <2>3. "REST" \in Protocol /\ "SFTP" \in Protocol
    BY DEF Protocol
  <2> QED
    BY <2>1, <2>2, <2>3 DEF Key
<1>2. BasicAuth(i.cfg) \subseteq Key
  BY <1>1 DEF BasicAuth
<1>3. RestAuth(i.cfg) \subseteq Key
  BY <1>1, <1>2 DEF RestAuth
<1>4. SoapAuth(i.cfg) \subseteq Key
  BY <1>2 DEF SoapAuth
<1>5. SftpAuth(i) \subseteq Key
  BY <1>1 DEF SftpAuth
<1>6. CASE i.protocol = "REST"
  BY <1>3, <1>6 DEF SentBy
<1>7. CASE i.protocol = "SOAP"
  BY <1>4, <1>7 DEF SentBy
<1>8. CASE i.protocol = "SFTP"
  BY <1>5, <1>8 DEF SentBy
<1>9. CASE i.protocol \notin {"REST", "SOAP", "SFTP"}
  BY <1>9 DEF SentBy
<1> QED
  BY <1>6, <1>7, <1>8, <1>9

LEMMA DispatchGoes ==
  ASSUME AdapterAssumption, Typed, CallsGood, NEW w \in Worker, _dispatch_once(w)
  PROVE  \E d : Goes(w, d)
<1> DEFINE c == [call[w] EXCEPT !.real = FALSE, !.sent = {}, !.handled = 0]
<1>1. call[w].pc = "attempt" /\ Good(call[w]) /\ call[w] \in CallOf(Phase)
  BY AtPhase DEF _dispatch_once
<1>2. /\ c \in CallOf(Phase) /\ c.pc = "attempt" /\ c.itf = call[w].itf
      /\ c.attempt = call[w].attempt /\ c.effects = call[w].effects /\ c.held = call[w].held
      /\ ~ c.real /\ c.handled = 0
  BY <1>1 DEF CallOf
<1>3. /\ \/ \E ok \in BOOLEAN : Set(w, After(c, ok))
         \/ Set(w, [c EXCEPT !.pc = FirstWait[c.itf.protocol], !.real = TRUE,
                             !.sent = SentBy(c.itf)])
      /\ UNCHANGED queue
  BY DEF _dispatch_once, SentBy
<1> HIDE DEF c
<1>4. ready' \in Nat /\ acked' \in Nat /\ put' \in Nat
  BY <1>3 DEF queue, Typed
<1>5. /\ c.held = 0
      /\ c.itf.protocol = "SFTP" \/ Consumes(c.itf) \/ c.effects <= c.attempt
      /\ c.attempt = 0 => c.effects = 0
      /\ c.attempt \in 0..RetryMax /\ c.effects \in Nat /\ c.itf \in Interface
  BY <1>1, <1>2, CallFields DEF Good, Bounded, Over, Progress
<1>6. CASE \E ok \in BOOLEAN : Set(w, After(c, ok))
  <2>1. PICK ok \in BOOLEAN : Set(w, After(c, ok))
    BY <1>6
  <2>2. c.itf.protocol = "SFTP" \/ Consumes(c.itf) \/ c.effects <= c.attempt + 1
    BY <1>5
  <2>3. Good(After(c, ok))
    BY <1>2, <1>5, <2>2, AfterGood
  <2> QED
    BY <1>4, <2>1, <2>3 DEF Goes, Set
<1>7. ASSUME NEW d, Set(w, d), NEW a,
             d = [c EXCEPT !.pc = FirstWait[c.itf.protocol], !.real = TRUE, !.sent = a],
             a \in SUBSET Key
      PROVE  \E e : Goes(w, e)
  <2>1. c.itf.protocol \in Protocol
    BY <1>5 DEF Interface
  <2>2. /\ FirstWait[c.itf.protocol] \in {"rest", "soap", "mq", "sftp", "running"}
        /\ FirstWait[c.itf.protocol] = "mq" => c.itf.protocol = "MQ"
        /\ FirstWait[c.itf.protocol] = "sftp" => c.itf.protocol = "SFTP"
        /\ FirstWait[c.itf.protocol] \in {"rest", "soap", "running"} =>
             c.itf.protocol # "SFTP" /\ c.itf.protocol # "MQ"
    BY <2>1 DEF Protocol, FirstWait
  <2>3. FirstWait[c.itf.protocol] \in Phase
    BY <2>2 DEF Phase, Waiting
  <2>4. /\ d.pc = FirstWait[c.itf.protocol] /\ d.itf = c.itf /\ d.attempt = c.attempt
        /\ d.effects = c.effects /\ d.held = c.held /\ d.handled = c.handled
        /\ d \in CallOf(Phase)
    BY <1>2, <1>7, <2>3 DEF CallOf
  <2>5. Fits(d)
    BY <2>2, <2>4 DEF Fits
  <2>6. Bounded(d)
    BY <1>5, <2>4 DEF Bounded
  <2>7. Progress(d)
    BY <1>2, <1>5, <2>2, <2>4 DEF Progress
  <2>8. d.pc # "backoff"
    BY <2>2, <2>4
  <2> QED
    BY <1>4, <1>7, <2>4, <2>5, <2>6, <2>7, <2>8 DEF Good, Goes, Set
<1>8. SentBy(c.itf) \in SUBSET Key
  BY <1>5, SentIsKeys
<1> QED
  BY <1>3, <1>6, <1>7, <1>8

LEMMA AnsweredGoes ==
  ASSUME AdapterAssumption, Typed, CallsGood, NEW w \in Worker, NEW pc \in {"rest", "soap", "running"},
         Answered(w, pc)
  PROVE  \E d : Goes(w, d)
<1>1. call[w].pc = pc /\ Good(call[w]) /\ call[w] \in CallOf(Phase)
  BY AtPhase DEF Answered
<1>2. PICK ok \in BOOLEAN, took \in {0, 1} :
        /\ ok => took = 1
        /\ Set(w, After([call[w] EXCEPT !.effects = @ + took], ok))
  BY DEF Answered
<1> DEFINE c == [call[w] EXCEPT !.effects = @ + took]
<1>3. /\ c \in CallOf(Phase) /\ c.itf = call[w].itf /\ c.attempt = call[w].attempt
      /\ c.held = call[w].held /\ c.effects = call[w].effects + took
  BY <1>1 DEF CallOf
<1> HIDE DEF c
<1>4. /\ c.held = 0 /\ c.itf.protocol # "SFTP" /\ c.itf.protocol # "MQ"
      /\ c.effects <= c.attempt + 1
  BY <1>1, <1>2, <1>3, CallFields DEF Good, Fits, Bounded, Over, Progress, Consumes
<1>5. ok => Complete(c)
  BY <1>4 DEF Complete, Consumes
<1>6. Good(After(c, ok))
  BY <1>3, <1>4, <1>5, AfterGood
<1>7. ready' \in Nat /\ acked' \in Nat /\ put' \in Nat
  BY DEF Answered, queue, Typed
<1> QED
  BY <1>2, <1>6, <1>7 DEF Goes, Set, c


LEMMA MqConnectGoes ==
  ASSUME AdapterAssumption, Typed, CallsGood, NEW w \in Worker, MqConnect(w)
  PROVE  \E d : Goes(w, d)
<1> DEFINE c == call[w]
<1>1. c.pc = "mq" /\ Good(c) /\ c \in CallOf(Phase)
  BY AtPhase DEF MqConnect
<1>2. /\ c.held = 0 /\ c.handled = 0 /\ c.itf.protocol = "MQ"
      /\ c.attempt = 0 => c.effects = 0
      /\ c.attempt \in 0..RetryMax /\ c.effects \in Nat /\ c.itf \in Interface
      /\ Consumes(c.itf) \/ c.effects <= c.attempt
  BY <1>1, CallFields DEF Good, Fits, Bounded, Over, Progress
<1>3. ready' \in Nat /\ acked' \in Nat /\ put' \in Nat
  <2>1. \/ UNCHANGED queue
        \/ \E here \in {0, 1} : ready' = ready + here /\ put' = put + here /\ UNCHANGED acked
    BY DEF MqConnect
  <2> QED
    BY <2>1 DEF queue, Typed
<1>4. CASE Set(w, After(call[w], FALSE))
  <2>1. c.itf.protocol = "SFTP" \/ Consumes(c.itf) \/ c.effects <= c.attempt + 1
    BY <1>2
  <2>2. PICK ok \in BOOLEAN : ok = FALSE
    OBVIOUS
  <2>3. Good(After(c, ok))
    BY <1>1, <1>2, <2>1, <2>2, AfterGood
  <2> QED
    BY <1>3, <1>4, <2>2, <2>3 DEF Goes, Set
<1>5. ASSUME ~ Consumes(c.itf), NEW took \in {0, 1}, NEW n \in Nat, n = c.effects + took,
             NEW d, Set(w, d),
             d = [c EXCEPT !.pc = "closing", !.ok = TRUE, !.effects = n]
      PROVE  \E e : Goes(w, e)
  <2>1. /\ d \in CallOf(Phase) /\ d.pc = "closing" /\ d.itf = c.itf /\ d.effects = c.effects + took
        /\ d.attempt = c.attempt
    BY <1>1, <1>5 DEF CallOf, Phase, Waiting
  <2>2. d.effects <= d.attempt + 1
    BY <1>2, <1>5, <2>1
  <2>3. Fits(d) /\ Bounded(d) /\ Complete(d)
    BY <1>2, <1>5, <2>1, <2>2 DEF Fits, Bounded, Over, Complete
  <2>4. Progress(d)
    BY <2>1, <2>3 DEF Progress
  <2> QED
    BY <1>3, <1>5, <2>1, <2>3, <2>4 DEF Good, Goes, Set
<1>6. ASSUME Consumes(c.itf), NEW d, Set(w, d), d = [c EXCEPT !.pc = "getting"]
      PROVE  \E e : Goes(w, e)
  <2>1. /\ d \in CallOf(Phase) /\ d.pc = "getting" /\ d.itf = c.itf /\ d.effects = c.effects
        /\ d.attempt = c.attempt /\ d.held = c.held /\ d.handled = c.handled
    BY <1>1, <1>6 DEF CallOf, Phase, Waiting
  <2>2. Fits(d) /\ Bounded(d) /\ Progress(d)
    BY <1>2, <1>6, <2>1 DEF Fits, Bounded, Progress, Consumes
  <2> QED
    BY <1>3, <1>6, <2>1, <2>2 DEF Good, Goes, Set
<1>7. \/ Set(w, After(call[w], FALSE))
      \/ \E took \in {0, 1} :
           ~ Consumes(c.itf) /\ Set(w, [c EXCEPT !.pc = "closing", !.ok = TRUE, !.effects = c.effects + took])
      \/ Consumes(c.itf) /\ Set(w, [c EXCEPT !.pc = "getting"])
  BY DEF MqConnect
<1>8. \A took \in {0, 1} : c.effects + took \in Nat
  BY <1>2
<1> QED
  BY <1>4, <1>5, <1>6, <1>7, <1>8

\* The two loops of a consuming call end, or are cut short, by closing the connection.
LEMMA ClosingGood ==
  ASSUME NEW c \in CallOf(Phase), Consumes(c.itf), NEW d, NEW ok \in BOOLEAN,
         d = [c EXCEPT !.pc = "closing", !.ok = ok], ok => Complete(c)
  PROVE  Good(d)
<1>1. /\ d \in CallOf(Phase) /\ d.pc = "closing" /\ d.itf = c.itf /\ d.effects = c.effects
      /\ d.attempt = c.attempt /\ d.handled = c.handled /\ d.ok = ok
  BY DEF CallOf, Phase, Waiting
<1>2. Fits(d) /\ Bounded(d)
  BY <1>1 DEF Fits, Bounded, Consumes
<1>3. ok => Complete(d)
  BY <1>1 DEF Complete
<1>4. Progress(d)
  BY <1>1, <1>3 DEF Progress
<1> QED
  BY <1>1, <1>2, <1>4 DEF Good

LEMMA MqGetGoes ==
  ASSUME AdapterAssumption, Typed, CallsGood, NEW w \in Worker, MqGet(w)
  PROVE  \E d : Goes(w, d)
<1> DEFINE c == call[w]
<1>1. c.pc = "getting" /\ Good(c) /\ c \in CallOf(Phase)
  BY AtPhase DEF MqGet
<1>2. /\ Consumes(c.itf) /\ c.handled = c.held
      /\ c.attempt = 0 => c.effects = 0
      /\ c.attempt \in 0..RetryMax /\ c.effects \in Nat /\ c.held \in Nat
  BY <1>1, CallFields DEF Good, Fits, Progress
<1>3. ready' \in Nat /\ acked' \in Nat /\ put' \in Nat
  BY DEF MqGet, Typed
<1>4. ASSUME NEW n \in Nat, n = c.held + 1, NEW d, Set(w, d),
             d = [c EXCEPT !.held = n, !.handled = n]
      PROVE  \E e : Goes(w, e)
  <2>1. /\ d \in CallOf(Phase) /\ d.pc = "getting" /\ d.itf = c.itf /\ d.effects = c.effects
        /\ d.attempt = c.attempt /\ d.held = n /\ d.handled = n
    BY <1>1, <1>4 DEF CallOf
  <2>2. Fits(d) /\ Bounded(d) /\ Progress(d)
    BY <1>2, <2>1 DEF Fits, Bounded, Progress
  <2> QED
    BY <1>3, <1>4, <2>1, <2>2 DEF Good, Goes, Set
<1>5. ASSUME NEW d, Set(w, d), d = [c EXCEPT !.pc = "acking"]
      PROVE  \E e : Goes(w, e)
  <2>1. /\ d \in CallOf(Phase) /\ d.pc = "acking" /\ d.itf = c.itf /\ d.effects = c.effects
        /\ d.attempt = c.attempt /\ d.held = c.held /\ d.handled = c.handled
    BY <1>1, <1>5 DEF CallOf, Phase, Waiting
  <2>2. Fits(d) /\ Bounded(d) /\ Progress(d)
    BY <1>2, <2>1 DEF Fits, Bounded, Progress
  <2> QED
    BY <1>3, <1>5, <2>1, <2>2 DEF Good, Goes, Set
<1>6. ASSUME Set(w, [c EXCEPT !.pc = "closing", !.ok = FALSE])
      PROVE  \E e : Goes(w, e)
  <2>1. Good([c EXCEPT !.pc = "closing", !.ok = FALSE])
    BY <1>1, <1>2, ClosingGood
  <2> QED
    BY <1>3, <1>6, <2>1 DEF Goes, Set
<1>7. \/ Set(w, [c EXCEPT !.held = c.held + 1, !.handled = c.held + 1])
      \/ Set(w, [c EXCEPT !.pc = "acking"])
      \/ Set(w, [c EXCEPT !.pc = "closing", !.ok = FALSE])
  BY <1>2 DEF MqGet
<1>8. c.held + 1 \in Nat
  BY <1>2
<1> QED
  BY <1>4, <1>5, <1>6, <1>7, <1>8

LEMMA MqAckGoes ==
  ASSUME AdapterAssumption, Typed, CallsGood, NEW w \in Worker, MqAck(w)
  PROVE  \E d : Goes(w, d)
<1> DEFINE c == call[w]
<1>1. c.pc = "acking" /\ Good(c) /\ c \in CallOf(Phase)
  BY AtPhase DEF MqAck
<1>2. /\ Consumes(c.itf) /\ c.effects + c.held >= c.handled
      /\ c.attempt = 0 => c.effects + c.held = c.handled
      /\ c.effects \in Nat /\ c.held \in Nat /\ c.handled \in Nat
  BY <1>1, CallFields DEF Good, Fits, Progress
<1>3. ready' \in Nat /\ acked' \in Nat /\ put' \in Nat
  BY DEF MqAck, Typed
<1>4. ASSUME NEW m \in Nat, c.held = m + 1, NEW n \in Nat, n = c.effects + 1,
             NEW d, Set(w, d), d = [c EXCEPT !.held = m, !.effects = n]
      PROVE  \E e : Goes(w, e)
  <2>1. /\ d \in CallOf(Phase) /\ d.pc = "acking" /\ d.itf = c.itf /\ d.effects = c.effects + 1
        /\ d.attempt = c.attempt /\ d.held = m /\ d.handled = c.handled
    BY <1>1, <1>4 DEF CallOf
  <2>2. Fits(d) /\ Bounded(d) /\ Progress(d)
    BY <1>2, <1>4, <2>1 DEF Fits, Bounded, Progress
  <2> QED
    BY <1>3, <1>4, <2>1, <2>2 DEF Good, Goes, Set
<1>5. ASSUME c.held = 0, Set(w, [c EXCEPT !.pc = "closing", !.ok = TRUE])
      PROVE  \E e : Goes(w, e)
  <2>1. Complete(c)
    BY <1>2, <1>5 DEF Complete, Consumes
  <2>2. Good([c EXCEPT !.pc = "closing", !.ok = TRUE])
    BY <1>1, <1>2, <2>1, ClosingGood
  <2> QED
    BY <1>3, <1>5, <2>2 DEF Goes, Set
<1>6. ASSUME Set(w, [c EXCEPT !.pc = "closing", !.ok = FALSE])
      PROVE  \E e : Goes(w, e)
  <2>1. Good([c EXCEPT !.pc = "closing", !.ok = FALSE])
    BY <1>1, <1>2, ClosingGood
  <2> QED
    BY <1>3, <1>6, <2>1 DEF Goes, Set
<1>7. \/ c.held > 0 /\ Set(w, [c EXCEPT !.held = c.held - 1, !.effects = c.effects + 1])
      \/ c.held = 0 /\ Set(w, [c EXCEPT !.pc = "closing", !.ok = TRUE])
      \/ Set(w, [c EXCEPT !.pc = "closing", !.ok = FALSE])
  BY DEF MqAck
<1>8. c.effects + 1 \in Nat /\ (c.held > 0 => c.held - 1 \in Nat /\ c.held = (c.held - 1) + 1)
  BY <1>2
<1> QED
  BY <1>4, <1>5, <1>6, <1>7, <1>8


LEMMA MqCloseGoes ==
  ASSUME AdapterAssumption, Typed, CallsGood, NEW w \in Worker, MqClose(w)
  PROVE  \E d : Goes(w, d)
<1> DEFINE c == call[w]
<1>1. c.pc = "closing" /\ Good(c) /\ c \in CallOf(Phase)
  BY AtPhase DEF MqClose
<1>2. /\ c.attempt \in 0..RetryMax /\ c.effects \in Nat /\ c.held \in Nat /\ c.ok \in BOOLEAN
      /\ c.itf.protocol = "SFTP" \/ Consumes(c.itf) \/ c.effects <= c.attempt + 1
      /\ c.ok => Complete(c)
  BY <1>1, CallFields DEF Good, Bounded, Progress
<1>3. ready' \in Nat /\ acked' \in Nat /\ put' \in Nat
  BY <1>2 DEF MqClose, Typed
<1>4. PICK raises \in BOOLEAN : Set(w, [After(c, c.ok /\ ~ raises) EXCEPT !.held = 0])
  BY DEF MqClose
<1>5. PICK ok \in BOOLEAN : ok = (c.ok /\ ~ raises)
  OBVIOUS
<1> DEFINE e == [c EXCEPT !.held = 0]
<1>6. /\ e \in CallOf(Phase) /\ e.itf = c.itf /\ e.attempt = c.attempt /\ e.real = c.real
      /\ e.held = 0 /\ e.handled = c.handled /\ e.effects = c.effects
  BY <1>1 DEF CallOf
<1>7. [After(c, ok) EXCEPT !.held = 0] = After(e, ok)
  BY <1>1 DEF After, CallOf
<1> HIDE DEF e
<1>8. ok => Complete(e)
  BY <1>2, <1>5, <1>6 DEF Complete
<1>9. Good(After(e, ok))
  BY <1>2, <1>6, <1>8, AfterGood
<1> QED
  BY <1>3, <1>4, <1>5, <1>7, <1>9 DEF Goes, Set

LEMMA SftpConnectGoes ==
  ASSUME AdapterAssumption, Typed, CallsGood, NEW w \in Worker, SftpConnect(w)
  PROVE  \E d : Goes(w, d)
<1> DEFINE c == call[w]
<1>1. c.pc = "sftp" /\ Good(c) /\ c \in CallOf(Phase)
  BY AtPhase DEF SftpConnect
<1>2. c.itf.protocol = "SFTP" /\ c.held = 0
  BY <1>1 DEF Good, Fits, Progress
<1>3. ready' \in Nat /\ acked' \in Nat /\ put' \in Nat
  BY DEF SftpConnect, queue, Typed
<1>4. PICK no \in BOOLEAN : no = FALSE
  OBVIOUS
<1>5. Good(After(c, no))
  BY <1>1, <1>2, <1>4, AfterGood
<1>6. ASSUME NEW d, Set(w, d), d = [c EXCEPT !.pc = "moving"]
      PROVE  \E e : Goes(w, e)
  <2>1. d \in CallOf(Phase) /\ d.pc = "moving" /\ d.itf = c.itf /\ d.held = c.held
    BY <1>1, <1>6 DEF CallOf, Phase, Waiting
  <2>2. Fits(d) /\ Bounded(d) /\ Progress(d)
    BY <1>2, <2>1 DEF Fits, Bounded, Progress
  <2> QED
    BY <1>3, <1>6, <2>1, <2>2 DEF Good, Goes, Set
<1>7. Set(w, After(c, FALSE)) \/ Set(w, [c EXCEPT !.pc = "moving"])
  BY DEF SftpConnect
<1> QED
  BY <1>3, <1>4, <1>5, <1>6, <1>7 DEF Goes, Set

LEMMA SftpMoveGoes ==
  ASSUME AdapterAssumption, Typed, CallsGood, NEW w \in Worker, SftpMove(w)
  PROVE  \E d : Goes(w, d)
<1> DEFINE c == call[w]
<1>1. c.pc = "moving" /\ Good(c) /\ c \in CallOf(Phase)
  BY AtPhase DEF SftpMove
<1>2. /\ c.itf.protocol = "SFTP" /\ c.held = 0 /\ ~ Consumes(c.itf)
      /\ c.handled \in Nat /\ c.effects \in Nat
  BY <1>1, CallFields DEF Good, Fits, Progress, Consumes
<1>3. ready' \in Nat /\ acked' \in Nat /\ put' \in Nat
  BY DEF SftpMove, queue, Typed
<1>4. ASSUME NEW n \in Nat, NEW m \in Nat, NEW d, Set(w, d),
             d = [c EXCEPT !.handled = n, !.effects = m]
      PROVE  \E e : Goes(w, e)
  <2>1. d \in CallOf(Phase) /\ d.pc = "moving" /\ d.itf = c.itf /\ d.held = c.held
    BY <1>1, <1>4 DEF CallOf
  <2>2. Fits(d) /\ Bounded(d) /\ Progress(d)
    BY <1>2, <2>1 DEF Fits, Bounded, Progress
  <2> QED
    BY <1>3, <1>4, <2>1, <2>2 DEF Good, Goes, Set
<1>5. ASSUME NEW ok \in BOOLEAN, ok => c.handled = NFiles, Set(w, After(c, ok))
      PROVE  \E e : Goes(w, e)
  <2>1. ok => Complete(c)
    BY <1>2, <1>5 DEF Complete
  <2>2. Good(After(c, ok))
    BY <1>1, <1>2, <1>5, <2>1, AfterGood
  <2> QED
    BY <1>3, <1>5, <2>2 DEF Goes, Set
<1>6. \/ Set(w, [c EXCEPT !.handled = c.handled + 1, !.effects = c.effects + 1])
      \/ c.handled = NFiles /\ Set(w, After(c, TRUE))
      \/ Set(w, After(c, FALSE))
  BY DEF SftpMove
<1>7. CASE Set(w, [c EXCEPT !.handled = c.handled + 1, !.effects = c.effects + 1])
  <2>1. c.handled + 1 \in Nat /\ c.effects + 1 \in Nat
    BY <1>2
  <2> QED
    BY <1>4, <1>7, <2>1
<1>8. CASE c.handled = NFiles /\ Set(w, After(c, TRUE))
  BY <1>5, <1>8
<1>9. CASE Set(w, After(c, FALSE))
  BY <1>5, <1>9
<1> QED
  BY <1>6, <1>7, <1>8, <1>9

LEMMA RetryGoes ==
  ASSUME AdapterAssumption, Typed, CallsGood, NEW w \in Worker, Retry(w)
  PROVE  \E d : Goes(w, d)
<1> DEFINE c == call[w]
<1>1. c.pc = "backoff" /\ Good(c) /\ c \in CallOf(Phase)
  BY AtPhase DEF Retry
<1>2. /\ c.attempt \in 0..RetryMax /\ c.attempt < RetryMax /\ c.effects \in Nat /\ c.held = 0
      /\ c.itf.protocol = "SFTP" \/ Consumes(c.itf) \/ c.effects <= c.attempt + 1
  BY <1>1, CallFields DEF Good, Bounded, Progress
<1>3. ready' \in Nat /\ acked' \in Nat /\ put' \in Nat
  BY DEF Retry, queue, Typed
<1>4. ASSUME NEW n \in 0..RetryMax, n = c.attempt + 1, NEW d, Set(w, d),
             d = [c EXCEPT !.pc = "attempt", !.attempt = n]
      PROVE  \E e : Goes(w, e)
  <2>1. /\ d \in CallOf(Phase) /\ d.pc = "attempt" /\ d.itf = c.itf /\ d.attempt = n
        /\ d.effects = c.effects /\ d.held = c.held
    BY <1>1, <1>4 DEF CallOf, Phase
  <2>2. n # 0
    BY <1>2, <1>4
  <2>3. Fits(d) /\ Bounded(d) /\ Progress(d)
    BY <1>2, <1>4, <2>1, <2>2 DEF Fits, Bounded, Progress
  <2> QED
    BY <1>3, <1>4, <2>1, <2>3 DEF Good, Goes, Set
<1>5. c.attempt + 1 \in 0..RetryMax
  BY <1>2 DEF AdapterAssumption
<1>6. Set(w, [c EXCEPT !.pc = "attempt", !.attempt = c.attempt + 1])
  BY DEF Retry
<1> QED
  BY <1>4, <1>5, <1>6


\* At no phase has a call more effects than attempts allowed.
LEMMA EffectsLimited ==
  ASSUME AdapterAssumption, NEW c, Good(c)
  PROVE  c.itf.protocol = "SFTP" \/ Consumes(c.itf) \/ c.effects <= RetryMax + 1
<1>1. c.attempt \in 0..RetryMax /\ RetryMax \in Nat /\ c.effects \in Nat
  BY CallFields DEF Good, AdapterAssumption
<1> QED
  BY <1>1 DEF Good, Bounded

\* The end of a call.
Endings == {"logged", "killed", "escaped"}
Leaves(w) ==
  /\ call' = [call EXCEPT ![w] = NoCall]
  /\ ended' \in CallOf(Endings) /\ EndedWell(ended')
  /\ ready' \in Nat /\ acked' \in Nat /\ put' \in Nat

LEMMA EndLeaves ==
  ASSUME AdapterAssumption, Typed, CallsGood, NEW w \in Worker, call[w] # NoCall,
         NEW how \in Endings, how = "logged" => call[w].pc = "logging", End(w, how)
  PROVE  Leaves(w)
<1> DEFINE c == call[w]
<1>1. Good(c) /\ c \in CallOf(Phase)
  BY DEF Typed, CallsGood
<1>2. ended' = [c EXCEPT !.pc = how, !.held = 0]
  BY DEF End
<1>3. /\ ended' \in CallOf(Endings)
      /\ ended'.pc = how /\ ended'.itf = c.itf /\ ended'.attempt = c.attempt /\ ended'.ok = c.ok
      /\ ended'.real = c.real /\ ended'.handled = c.handled /\ ended'.effects = c.effects
  BY <1>1, <1>2 DEF CallOf
<1>4. c.held \in Nat
  BY <1>1, CallFields
<1>5. ready' \in Nat /\ acked' \in Nat /\ put' \in Nat
  BY <1>4 DEF End, Typed
<1>6. c.itf.protocol = "SFTP" \/ Consumes(c.itf) \/ c.effects <= RetryMax + 1
  BY <1>1, EffectsLimited
<1>7. how = "logged" /\ c.ok /\ c.real => Complete(c)
  BY <1>1 DEF Good, Progress
<1>8. how = "logged" /\ c.ok /\ c.real => Complete(ended')
  BY <1>3, <1>7 DEF Complete
<1>9. EndedWell(ended')
  BY <1>3, <1>6, <1>8 DEF EndedWell
<1>10. call' = [call EXCEPT ![w] = NoCall]
  BY DEF End, Set
<1> QED
  BY <1>3, <1>5, <1>9, <1>10 DEF Leaves

LEMMA SoftLimitMoves ==
  ASSUME AdapterAssumption, Typed, CallsGood, NEW w \in Worker, SoftLimit(w)
  PROVE  Leaves(w) \/ (UNCHANGED ended /\ \E d : Goes(w, d))
<1> DEFINE c == call[w]
<1>1. Good(c) /\ c \in CallOf(Phase) /\ c # NoCall
  BY DEF SoftLimit, Typed, CallsGood
<1>2. /\ c.attempt \in 0..RetryMax /\ c.effects \in Nat /\ c.held \in Nat
  BY <1>1, CallFields
<1>3. CASE /\ c.pc \in {"getting", "acking"}
           /\ Set(w, [c EXCEPT !.soft = TRUE, !.pc = "closing", !.ok = FALSE])
           /\ UNCHANGED <<settings, itf, edits, calls, ended, queue>>
  <2>1. ready' \in Nat /\ acked' \in Nat /\ put' \in Nat
    BY <1>3 DEF queue, Typed
  <2>2. Consumes(c.itf)
    BY <1>1, <1>3 DEF Good, Fits
  <2>3. ASSUME NEW d, d = [c EXCEPT !.soft = TRUE, !.pc = "closing", !.ok = FALSE]
        PROVE  Good(d)
    <3>1. d \in CallOf(Phase) /\ d.pc = "closing" /\ d.itf = c.itf /\ ~ d.ok
      BY <1>1, <2>3 DEF CallOf, Phase, Waiting
    <3>2. Fits(d) /\ Bounded(d) /\ Progress(d)
      BY <2>2, <3>1 DEF Fits, Bounded, Progress, Consumes
    <3> QED
      BY <3>1, <3>2 DEF Good
  <2> QED
    BY <1>3, <2>1, <2>3 DEF Goes, Set
<1>4. CASE /\ c.pc \in Waiting \ {"getting", "acking"}
           /\ \E took \in IF c.pc \in {"rest", "soap", "running"} THEN {0, 1} ELSE {0} :
                Set(w, After([c EXCEPT !.soft = TRUE, !.held = 0, !.effects = c.effects + took], FALSE))
           /\ ready' = ready + c.held
           /\ UNCHANGED <<settings, itf, edits, calls, ended, acked, put>>
  <2>1. PICK took \in IF c.pc \in {"rest", "soap", "running"} THEN {0, 1} ELSE {0} :
          Set(w, After([c EXCEPT !.soft = TRUE, !.held = 0, !.effects = c.effects + took], FALSE))
    BY <1>4
  <2>2. ready' \in Nat /\ acked' \in Nat /\ put' \in Nat
    BY <1>2, <1>4 DEF Typed
  <2>3. took \in {0, 1} /\ (took = 1 => c.pc \in {"rest", "soap", "running"})
    BY <2>1
  <2>4. c.effects + took \in Nat
    BY <1>2, <2>3
  <2>5. c.itf.protocol = "SFTP" \/ Consumes(c.itf) \/ c.effects + took <= c.attempt + 1
    <3>1. CASE took = 1
      BY <1>1, <1>2, <2>3, <3>1 DEF Good, Bounded, Over
    <3>2. CASE took = 0
      BY <1>1, <1>2, <3>2 DEF Good, Bounded
    <3> QED
      BY <2>3, <3>1, <3>2
  <2>6. ASSUME NEW n \in Nat, n = c.effects + took, NEW e,
               e = [c EXCEPT !.soft = TRUE, !.held = 0, !.effects = n],
               NEW no \in BOOLEAN, no = FALSE
        PROVE  Good(After(e, no))
    <3>1. /\ e \in CallOf(Phase) /\ e.itf = c.itf /\ e.attempt = c.attempt /\ e.held = 0
          /\ e.effects = n
      BY <1>1, <2>6 DEF CallOf
    <3> QED
      BY <2>5, <2>6, <3>1, AfterGood
  <2>7. PICK no \in BOOLEAN : no = FALSE
    OBVIOUS
  <2>8. Good(After([c EXCEPT !.soft = TRUE, !.held = 0, !.effects = c.effects + took], no))
    BY <2>4, <2>6, <2>7
  <2> QED
    BY <1>4, <2>1, <2>2, <2>7, <2>8 DEF Goes, Set
<1>5. CASE c.pc \in {"attempt", "backoff", "logging"} /\ End(w, "escaped")
  BY <1>1, <1>5, EndLeaves DEF Endings
<1> QED
  BY <1>3, <1>4, <1>5 DEF SoftLimit

LEMMA HardLimitLeaves ==
  ASSUME AdapterAssumption, Typed, CallsGood, NEW w \in Worker, HardLimit(w) \/ WebTimeout(w)
  PROVE  Leaves(w)
  BY EndLeaves DEF HardLimit, WebTimeout, Endings

LEMMA WriteLogLeaves ==
  ASSUME AdapterAssumption, Typed, CallsGood, NEW w \in Worker, WriteLog(w)
  PROVE  Leaves(w)
<1>1. call[w].pc = "logging" /\ call[w] # NoCall
  BY AtPhase DEF WriteLog
<1> QED
  BY <1>1, EndLeaves DEF WriteLog, Endings

\* A step of a call.
LEMMA StepMoves ==
  ASSUME AdapterAssumption, Typed, CallsGood, NEW w \in Worker, Step(w) \/ Limit(w)
  PROVE  Leaves(w) \/ (UNCHANGED ended /\ \E d : Goes(w, d))
<1>1. CASE _dispatch_once(w)
  BY <1>1, DispatchGoes DEF _dispatch_once
<1>2. CASE RestExecuteLive(w) \/ SoapExecuteLive(w) \/ BatchExecuteLive(w)
  <2>1. PICK pc \in {"rest", "soap", "running"} : Answered(w, pc)
    BY <1>2 DEF RestExecuteLive, SoapExecuteLive, BatchExecuteLive
  <2> QED
    BY <2>1, AnsweredGoes DEF Answered
<1>3. CASE MqConnect(w)
  BY <1>3, MqConnectGoes DEF MqConnect
<1>4. CASE MqGet(w)
  BY <1>4, MqGetGoes DEF MqGet
<1>5. CASE MqAck(w)
  BY <1>5, MqAckGoes DEF MqAck
<1>6. CASE MqClose(w)
  BY <1>6, MqCloseGoes DEF MqClose
<1>7. CASE SftpConnect(w)
  BY <1>7, SftpConnectGoes DEF SftpConnect
<1>8. CASE SftpMove(w)
  BY <1>8, SftpMoveGoes DEF SftpMove
<1>9. CASE Retry(w)
  BY <1>9, RetryGoes DEF Retry
<1>10. CASE WriteLog(w)
  BY <1>10, WriteLogLeaves
<1>11. CASE SoftLimit(w)
  BY <1>11, SoftLimitMoves
<1>12. CASE HardLimit(w) \/ WebTimeout(w)
  BY <1>12, HardLimitLeaves
<1> QED
  BY <1>1, <1>2, <1>3, <1>4, <1>5, <1>6, <1>7, <1>8, <1>9, <1>10, <1>11, <1>12 DEF Step, Limit


(***************************************************************************)
(* The invariant.                                                          *)
(***************************************************************************)

Inv == TypeOK /\ FormInv /\ CallsGood /\ EndedGood

LEMMA InitInv ==
  ASSUME AdapterAssumption, Init
  PROVE  Inv
<1>1. itf \in Interface /\ ~ itf.byForm
  BY DEF Init, AdapterAssumption
<1>2. TypeOK
  BY <1>1 DEF Init, TypeOK, AdapterAssumption
<1>3. FormInv
  BY <1>1 DEF FormInv
<1>4. CallsGood /\ EndedGood
  BY DEF Init, CallsGood, EndedGood
<1> QED
  BY <1>2, <1>3, <1>4 DEF Inv

\* An edit touches the interface only.
LEMMA EditKeeps ==
  ASSUME AdapterAssumption, Inv, SubmitForm \/ Resubmit \/ AdminSave
  PROVE  Inv'
<1>1. /\ edits' = edits + 1 /\ edits < MaxEdits
      /\ UNCHANGED <<settings, calls, call, ended, queue>>
  BY DEF SubmitForm, Resubmit, AdminSave, Save
<1>2. itf' \in Interface /\ FormInv'
  <2>1. CASE SubmitForm
    <3>1. PICK f \in FormInput : Save(f)
      BY <2>1 DEF SubmitForm
    <3> QED
      BY <3>1, SaveKeeps DEF AdapterAssumption
  <2>2. CASE Resubmit
    <3>1. itf \in Interface
      BY DEF Inv, TypeOK
    <3>2. Shown(itf) \in Form
      BY <3>1, ShownIsForm
    <3> QED
      BY <2>2, <3>2, SaveKeeps DEF Resubmit
  <2>3. CASE AdminSave
    <3>1. itf' \in AdminInput
      BY <2>3 DEF AdminSave
    <3> QED
      BY <3>1 DEF AdapterAssumption, FormInv
  <2> QED
    BY <2>1, <2>2, <2>3
<1>3. edits' \in 0..MaxEdits
  BY <1>1 DEF Inv, TypeOK, AdapterAssumption
<1>4. TypeOK'
  BY <1>1, <1>2, <1>3 DEF Inv, TypeOK, queue
<1>5. CallsGood' /\ EndedGood'
  BY <1>1 DEF Inv, CallsGood, EndedGood
<1> QED
  BY <1>2, <1>4, <1>5 DEF Inv

\* A step of one call leaves the others alone.
LEMMA CallKeeps ==
  ASSUME AdapterAssumption, Inv, NEW w \in Worker, NEW d, Good(d) \/ d = NoCall,
         call' = [call EXCEPT ![w] = d]
  PROVE  /\ DOMAIN call' = Worker /\ CallsGood'
         /\ \A x \in Worker : call'[x] = NoCall \/ call'[x] \in CallOf(Phase)
<1>1. DOMAIN call = Worker
  BY DEF Inv, TypeOK
<1>2. DOMAIN call' = Worker /\ \A x \in Worker : call'[x] = IF x = w THEN d ELSE call[x]
  BY <1>1
<1>3. \A x \in Worker : call'[x] = NoCall \/ Good(call'[x])
  BY <1>2 DEF Inv, CallsGood
<1>4. CallsGood'
  BY <1>3 DEF CallsGood
<1> QED
  BY <1>2, <1>3, <1>4 DEF Good

LEMMA StartKeeps ==
  ASSUME AdapterAssumption, Inv, NEW w \in Worker, StartCall(w)
  PROVE  Inv'
<1> DEFINE d == [pc |-> "attempt", itf |-> itf, soft |-> FALSE, attempt |-> 0,
                 ok |-> FALSE, real |-> FALSE, sent |-> {}, held |-> 0, handled |-> 0,
                 effects |-> 0]
<1>1. Good(d)
  BY StartGood, TypeParts DEF Inv
<1>2. /\ call' = [call EXCEPT ![w] = d] /\ ended' = NoCall
      /\ calls' = calls + 1 /\ calls < MaxCalls
      /\ UNCHANGED <<settings, itf, edits, queue>>
  BY DEF StartCall, Set
<1> HIDE DEF d
<1>3. /\ DOMAIN call' = Worker /\ CallsGood'
      /\ \A x \in Worker : call'[x] = NoCall \/ call'[x] \in CallOf(Phase)
  BY <1>1, <1>2, CallKeeps
<1>4. calls' \in 0..MaxCalls
  BY <1>2 DEF Inv, TypeOK, AdapterAssumption
<1>5. TypeOK'
  BY <1>2, <1>3, <1>4 DEF Inv, TypeOK, queue
<1>6. FormInv' /\ EndedGood'
  BY <1>2 DEF Inv, FormInv, EndedGood
<1> QED
  BY <1>3, <1>5, <1>6 DEF Inv

\* What every step of a call leaves as it is.
LEMMA StepFrame ==
  ASSUME NEW w, Step(w) \/ Limit(w)
  PROVE  UNCHANGED <<settings, itf, edits, calls>>
  BY DEF Step, Limit, _dispatch_once, RestExecuteLive, SoapExecuteLive, BatchExecuteLive, Answered,
         MqConnect, MqGet, MqAck, MqClose, SftpConnect, SftpMove, Retry, WriteLog, End,
         SoftLimit, HardLimit, WebTimeout

LEMMA StepKeeps ==
  ASSUME AdapterAssumption, Inv, NEW w \in Worker, Step(w) \/ Limit(w)
  PROVE  Inv'
<1>1. UNCHANGED <<settings, itf, edits, calls>>
  BY StepFrame
<1>2. FormInv'
  BY <1>1 DEF Inv, FormInv
<1>3. Leaves(w) \/ (UNCHANGED ended /\ \E d : Goes(w, d))
  BY StepMoves, TypeParts DEF Inv
<1>4. CASE Leaves(w)
  <2>1. /\ DOMAIN call' = Worker /\ CallsGood'
        /\ \A x \in Worker : call'[x] = NoCall \/ call'[x] \in CallOf(Phase)
    BY <1>4, CallKeeps DEF Leaves
  <2>2. TypeOK'
    BY <1>1, <1>4, <2>1 DEF Inv, TypeOK, Leaves, Endings
  <2>3. EndedGood'
    BY <1>4 DEF Leaves, EndedGood
  <2> QED
    BY <1>2, <2>1, <2>2, <2>3 DEF Inv
<1>5. CASE UNCHANGED ended /\ \E d : Goes(w, d)
  <2>1. PICK d : Goes(w, d)
    BY <1>5
  <2>2. /\ DOMAIN call' = Worker /\ CallsGood'
        /\ \A x \in Worker : call'[x] = NoCall \/ call'[x] \in CallOf(Phase)
    BY <2>1, CallKeeps DEF Goes
  <2>3. TypeOK'
    BY <1>1, <1>5, <2>1, <2>2 DEF Inv, TypeOK, Goes
  <2>4. EndedGood'
    BY <1>5 DEF Inv, EndedGood
  <2> QED
    BY <1>2, <2>2, <2>3, <2>4 DEF Inv
<1> QED
  BY <1>3, <1>4, <1>5

LEMMA InvHolds == Spec => []Inv
<1>1. Init => Inv
  BY AdapterAssumption, InitInv
<1>2. Inv /\ [Next]_vars => Inv'
  <2> SUFFICES ASSUME Inv, [Next]_vars
               PROVE  Inv'
    OBVIOUS
  <2>1. CASE SubmitForm \/ Resubmit \/ AdminSave
    BY <2>1, AdapterAssumption, EditKeeps
  <2>2. ASSUME NEW w \in Worker, StartCall(w)
        PROVE  Inv'
    BY <2>2, AdapterAssumption, StartKeeps
  <2>3. ASSUME NEW w \in Worker, Step(w) \/ Limit(w)
        PROVE  Inv'
    BY <2>3, AdapterAssumption, StepKeeps
  <2>4. CASE UNCHANGED vars
    BY <2>4 DEF vars, queue, Inv, TypeOK, FormInv, CallsGood, EndedGood
  <2> QED
    BY <2>1, <2>2, <2>3, <2>4 DEF Next
<1> QED
  BY <1>1, <1>2, PTL DEF Spec

(***************************************************************************)
(* The theorems.                                                           *)
(***************************************************************************)

\* The variables keep their types: no count of messages becomes negative, no attempt exceeds
\* RetryMax (base.py, the loop of execute).
THEOREM TypeCorrect == Spec => []TypeOK
<1>1. Inv => TypeOK
  BY DEF Inv
<1> QED
  BY <1>1, InvHolds, PTL

\* forms.py, _build_config and _hydrate_from_config: whatever form was submitted, opening the
\* interface and submitting it unchanged is accepted and stores the same configuration.
THEOREM FormKeepsConfig == Spec => []FormRoundTrip
<1>1. Inv => FormRoundTrip
  <2> SUFFICES ASSUME FormInv, itf.byForm
               PROVE  Valid(Shown(itf)) /\ _build_config(Shown(itf)) = itf.cfg
    BY DEF Inv, FormRoundTrip
  <2>1. PICK f \in Form :
          /\ Valid(f)
          /\ itf.protocol = f.protocol /\ itf.op = f.op /\ itf.endpoint = f.endpoint
          /\ itf.cfg = _build_config(f)
    BY DEF FormInv
  <2>2. Shown(itf) = _hydrate_from_config(f.protocol, f.op, f.endpoint, itf.cfg)
    BY <2>1 DEF Shown
  <2> QED
    BY <2>1, <2>2, RoundTrip
<1> QED
  BY <1>1, InvHolds, PTL

\* base.py, execute: with any number of calls, retries and limits, an attempt reported as a
\* failure has had at most one effect, and the attempts are at most RetryMax + 1.
THEOREM RepeatsAreBounded == Spec => []RepeatsBounded
<1>1. Inv => RepeatsBounded
  <2> SUFFICES ASSUME Inv, NEW c \in ({call[w] : w \in Worker} \cup {ended}) \ {NoCall}
               PROVE  \/ c.itf.protocol = "SFTP"
                      \/ Consumes(c.itf)
                      \/ c.effects <= RetryMax + 1
    BY DEF RepeatsBounded
  <2>1. CASE c = ended
    BY <2>1 DEF Inv, EndedGood, EndedWell, Consumes
  <2>2. CASE c \in {call[w] : w \in Worker}
    <3>1. Good(c)
      BY <2>2 DEF Inv, CallsGood
    <3> QED
      BY <3>1, AdapterAssumption, EffectsLimited DEF Consumes
  <2> QED
    BY <2>1, <2>2
<1> QED
  BY <1>1, InvHolds, PTL

\* mq.py and sftp.py against the log that views.py and tasks.py write: a reception or transfer
\* logged as a success is complete, for any number of messages, files, retries and other calls.
THEOREM SuccessesAreComplete == Spec => []SuccessIsComplete
<1>1. Inv => SuccessIsComplete
  <2> SUFFICES ASSUME Inv, ended # NoCall, ended.pc = "logged", ended.ok, ended.real
               PROVE  SuccessIsComplete
    BY DEF SuccessIsComplete
  <2>1. Complete(ended) /\ ended \in CallOf(Endings)
    BY DEF Inv, EndedGood, EndedWell, TypeOK, Endings
  <2> QED
    BY <2>1 DEF SuccessIsComplete, Complete
<1> QED
  BY <1>1, InvHolds, PTL

(***************************************************************************)
(* What the calls hold.                                                    *)
(***************************************************************************)

\* A step of one call, which gives up no message it does not put somewhere.
Moves(w, d) ==
  /\ call' = [call EXCEPT ![w] = d]
  /\ ready' \in Nat /\ acked' \in Nat /\ put' \in Nat /\ Held(d) \in Nat
  /\ ready' + Held(d) + acked' + put = ready + Held(call[w]) + acked + put'

LEMMA HeldIsNat ==
  ASSUME Typed, NEW w \in Worker
  PROVE  Held(call[w]) \in Nat
<1>1. call[w] = NoCall \/ call[w] \in CallOf(Phase)
  BY DEF Typed
<1>2. CASE call[w] \in CallOf(Phase)
  BY <1>2, CallFields DEF Held
<1>. QED
  BY <1>1, <1>2 DEF Held

\* Such a step keeps the balance.
LEMMA MovesConserve ==
  ASSUME AdapterAssumption, Typed, MessagesConserved, NEW w \in Worker, NEW d, Moves(w, d)
  PROVE  MessagesConserved'
<1> DEFINE held == [v \in Worker |-> Held(call[v])]
           after == [v \in Worker |-> Held(call'[v])]
           rest == SumFunctionOnSet(held, Worker \ {w})
<1>1. IsFiniteSet(Worker) /\ IsFiniteSet(Worker \ {w})
  <2>1. IsFiniteSet(WebWorker \cup TaskWorker)
    BY FS_Union DEF AdapterAssumption
  <2>. QED
    BY <2>1, FS_Subset DEF Worker
<1>2. \A v \in Worker : held[v] \in Int
  BY HeldIsNat
<1>3. /\ DOMAIN call = Worker /\ after[w] = Held(d)
      /\ \A v \in Worker \ {w} : after[v] = held[v]
  BY DEF Moves, Typed
<1>4. \A v \in Worker : after[v] \in Int
  <2>1. \A v \in Worker \ {w} : after[v] \in Int
    BY <1>2, <1>3
  <2>2. after[w] \in Int
    BY <1>3 DEF Moves
  <2>. QED
    BY <2>1, <2>2
<1>5. DOMAIN held = Worker /\ DOMAIN after = Worker /\ held[w] = Held(call[w])
  OBVIOUS
<1>6. /\ MessagesConserved <=> ready + SumFunction(held) + acked = put
      /\ MessagesConserved' <=> ready' + SumFunction(after) + acked' = put'
  BY DEF MessagesConserved
<1> HIDE DEF held, after
<1>7. IntOn(held, Worker) /\ IntOn(after, Worker) /\ IntOn(held, Worker \ {w})
  BY <1>2, <1>4 DEF IntOn
<1>8. SumFunctionOnSet(held, Worker) = held[w] + rest
  BY <1>1, <1>7, SumRemove
<1>9. SumFunctionOnSet(after, Worker) = after[w] + SumFunctionOnSet(after, Worker \ {w})
  BY <1>1, <1>7, SumRemove
<1>10. rest = SumFunctionOnSet(after, Worker \ {w})
  BY <1>1, <1>3, <1>7, SumEqual
<1>11. rest \in Int
  BY <1>1, <1>7, SumType
<1> HIDE DEF rest
<1>12. SumFunction(held) = held[w] + rest /\ SumFunction(after) = after[w] + rest
  BY <1>5, <1>8, <1>9, <1>10 DEF SumFunction
<1>13. /\ ready \in Int /\ acked \in Int /\ put \in Int /\ held[w] \in Int
       /\ ready' \in Int /\ acked' \in Int /\ put' \in Int /\ after[w] \in Int
       /\ ready' + after[w] + acked' + put = ready + held[w] + acked + put'
  BY <1>3, <1>5, HeldIsNat DEF Typed, Moves
<1>. QED
  BY <1>6, <1>11, <1>12, <1>13

LEMMA HeldOfCall ==
  ASSUME NEW c \in CallOf(Phase)
  PROVE  Held(c) = c.held /\ c.held \in Nat
BY CallFields DEF Held

\* A step that moves no message.
LEMMA NoneMoved ==
  ASSUME Typed, NEW w \in Worker, call[w] \in CallOf(Phase), NEW d \in CallOf(Phase),
         Set(w, d), d.held = call[w].held, UNCHANGED queue
  PROVE  Moves(w, d)
<1>1. Held(d) = Held(call[w]) /\ Held(d) \in Nat
  BY HeldOfCall
<1>2. ready' = ready /\ acked' = acked /\ put' = put
  BY DEF queue
<1>. QED
  BY <1>1, <1>2 DEF Typed, Moves, Set

\* A worker with a call.
LEMMA Calling ==
  ASSUME Typed, NEW w \in Worker, call[w].pc # "idle"
  PROVE  call[w] # NoCall /\ call[w] \in CallOf(Phase)
<1>1. call[w] # NoCall
  BY DEF NoCall
<1>. QED
  BY <1>1 DEF Typed

\* An attempt ends where it stands.
LEMMA AfterMoves ==
  ASSUME Typed, NEW w \in Worker, call[w] \in CallOf(Phase),
         NEW c \in CallOf(Phase), c.itf = call[w].itf, c.held = call[w].held,
         NEW ok \in BOOLEAN, Set(w, After(c, ok)), UNCHANGED queue
  PROVE  \E d : Moves(w, d)
<1> DEFINE d == After(c, ok)
<1>1. /\ d \in CallOf(Phase) /\ d.itf = c.itf /\ d.held = c.held
      /\ d.pc = "logging" \/ d.pc = "backoff"
  BY AfterFields
<1>2. Set(w, d)
  OBVIOUS
<1> HIDE DEF d
<1>3. Moves(w, d)
  BY <1>1, <1>2, NoneMoved
<1>. QED
  BY <1>3

LEMMA DispatchMoves ==
  ASSUME Typed, NEW w \in Worker, _dispatch_once(w)
  PROVE  \E d : Moves(w, d)
<1> DEFINE c == [call[w] EXCEPT !.real = FALSE, !.sent = {}, !.handled = 0]
           i == c.itf
           d == [c EXCEPT !.pc = FirstWait[i.protocol], !.real = TRUE, !.sent = SentBy(i)]
<1>1. /\ call[w].pc = "attempt" /\ call[w] # NoCall /\ call[w] \in CallOf(Phase)
      /\ UNCHANGED queue
  BY Calling DEF _dispatch_once
<1>2. (\E ok \in BOOLEAN : Set(w, After(c, ok))) \/ Set(w, d)
  BY DEF _dispatch_once, SentBy
<1>3. c \in CallOf(Phase) /\ i = call[w].itf /\ c.held = call[w].held
  BY <1>1 DEF CallOf
<1>4. CASE \E ok \in BOOLEAN : Set(w, After(c, ok))
  <2>1. PICK ok \in BOOLEAN : Set(w, After(c, ok))
    BY <1>4
  <2> HIDE DEF c
  <2>. QED
    BY <1>1, <1>3, <2>1, AfterMoves
<1>5. CASE Set(w, d)
  <2>1. i \in Interface /\ i.protocol \in Protocol
    BY <1>3, CallFields DEF Interface
  <2>2. SentBy(i) \in SUBSET Key
    BY <2>1, SentIsKeys
  <2>3. FirstWait[i.protocol] \in Phase
    BY <2>1 DEF Protocol, FirstWait, Phase, Waiting
  <2>4. d \in CallOf(Phase) /\ d.held = c.held
    <3> HIDE DEF c
    <3>. QED
      BY <1>3, <2>2, <2>3 DEF CallOf
  <2>5. Set(w, d)
    BY <1>5
  <2> HIDE DEF d
  <2>6. Moves(w, d)
    BY <1>1, <1>3, <2>4, <2>5, NoneMoved
  <2>. QED
    BY <2>6
<1>. QED
  BY <1>2, <1>4, <1>5

LEMMA AnsweredMoves ==
  ASSUME Typed, NEW w \in Worker, NEW pc \in {"rest", "soap", "running"},
         Answered(w, pc)
  PROVE  \E d : Moves(w, d)
<1>1. call[w].pc # "idle" /\ UNCHANGED queue
  BY DEF Answered
<1>2. call[w] \in CallOf(Phase)
  BY <1>1, Calling
<1>3. PICK ok \in BOOLEAN, took \in {0, 1} :
        Set(w, After([call[w] EXCEPT !.effects = @ + took], ok))
  BY DEF Answered
<1> DEFINE c == [call[w] EXCEPT !.effects = @ + took]
<1>4. c \in CallOf(Phase) /\ c.itf = call[w].itf /\ c.held = call[w].held
  BY <1>2 DEF CallOf
<1>5. Set(w, After(c, ok))
  BY <1>3
<1> HIDE DEF c
<1>. QED
  BY <1>1, <1>2, <1>4, <1>5, AfterMoves

\* A step that changes what the call holds, and how many messages there are elsewhere.
LEMMA SomeMoved ==
  ASSUME Typed, NEW w \in Worker, call[w] \in CallOf(Phase),
         NEW d \in CallOf(Phase), Set(w, d), d.itf = call[w].itf,
         ready' \in Nat, acked' \in Nat, put' \in Nat,
         ready' + d.held + acked' + put = ready + call[w].held + acked + put'
  PROVE  Moves(w, d)
<1>1. Held(d) = d.held /\ d.held \in Nat /\ Held(call[w]) = call[w].held
  BY HeldOfCall
<1>. QED
  BY <1>1 DEF Moves, Set

LEMMA MqConnectMoves ==
  ASSUME Typed, NEW w \in Worker, MqConnect(w)
  PROVE  \E d : Moves(w, d)
<1> DEFINE c == call[w]
<1>1. c.pc = "mq" /\ c \in CallOf(Phase)
  BY Calling DEF MqConnect
<1>2. c.held \in Nat /\ c.effects \in Nat /\ ready \in Nat /\ acked \in Nat /\ put \in Nat
  BY <1>1, CallFields DEF Typed
<1>3. CASE Set(w, After(c, FALSE)) /\ UNCHANGED queue
  BY <1>1, <1>3, AfterMoves
<1>4. ASSUME NEW took \in {0, 1}, NEW here \in {0, 1},
             NEW d, d = [c EXCEPT !.pc = "closing", !.ok = TRUE, !.effects = @ + took], Set(w, d),
             ready' = ready + here, put' = put + here, acked' = acked
      PROVE  Moves(w, d)
  <2>1. PICK m \in Nat : m = c.effects + took
    BY <1>2
  <2>2. d = [c EXCEPT !.pc = "closing", !.ok = TRUE, !.effects = m]
    BY <1>4, <2>1
  <2>3. d \in CallOf(Phase) /\ d.pc = "closing" /\ d.itf = c.itf /\ d.held = c.held
    BY <1>1, <2>2 DEF CallOf, Phase, Waiting
  <2>4. ready' \in Nat /\ acked' \in Nat /\ put' \in Nat
    BY <1>2, <1>4
  <2>5. ready' + d.held + acked' + put = ready + c.held + acked + put'
    BY <1>2, <1>4, <2>3
  <2>. QED
    BY <1>1, <1>4, <2>3, <2>4, <2>5, SomeMoved
<1>5. ASSUME NEW d, d = [c EXCEPT !.pc = "getting"], Set(w, d), UNCHANGED queue
      PROVE  Moves(w, d)
  <2>1. d \in CallOf(Phase) /\ d.pc = "getting" /\ d.itf = c.itf /\ d.held = c.held
    BY <1>1, <1>5 DEF CallOf, Phase, Waiting
  <2>. QED
    BY <1>1, <1>5, <2>1, NoneMoved
<1>. QED
  BY <1>3, <1>4, <1>5 DEF MqConnect

LEMMA MqGetMoves ==
  ASSUME Typed, NEW w \in Worker, MqGet(w)
  PROVE  \E d : Moves(w, d)
<1> DEFINE c == call[w]
<1>1. c.pc = "getting" /\ c \in CallOf(Phase)
  BY Calling DEF MqGet
<1>2. /\ c.held \in Nat /\ c.handled \in Nat /\ ready \in Nat /\ acked \in Nat /\ put \in Nat
      /\ UNCHANGED <<acked, put>>
  BY <1>1, CallFields DEF Typed, MqGet
<1>3. ASSUME NEW d, d = [c EXCEPT !.held = @ + 1, !.handled = @ + 1], Set(w, d),
             ready > 0, ready' = ready - 1
      PROVE  Moves(w, d)
  <2>1. PICK n \in Nat : n = c.held + 1
    BY <1>2, <1>3
  <2>2. PICK m \in Nat : m = c.handled + 1
    BY <1>2
  <2>3. d = [c EXCEPT !.held = n, !.handled = m]
    BY <1>3, <2>1, <2>2
  <2>4. d \in CallOf(Phase) /\ d.pc = "getting" /\ d.itf = c.itf /\ d.held = c.held + 1
    BY <1>1, <2>1, <2>2, <2>3 DEF CallOf
  <2>5. ready' \in Nat /\ acked' \in Nat /\ put' \in Nat
    BY <1>2, <1>3
  <2>6. ready' + d.held + acked' + put = ready + c.held + acked + put'
    BY <1>2, <1>3, <2>4
  <2>. QED
    BY <1>1, <1>3, <2>4, <2>5, <2>6, SomeMoved
<1>4. ASSUME NEW d, Set(w, d), UNCHANGED ready,
             d = [c EXCEPT !.pc = "acking"] \/ d = [c EXCEPT !.pc = "closing", !.ok = FALSE]
      PROVE  Moves(w, d)
  <2>1. d \in CallOf(Phase) /\ d.pc \in {"acking", "closing"} /\ d.itf = c.itf /\ d.held = c.held
    BY <1>1, <1>4 DEF CallOf, Phase, Waiting
  <2>. QED
    BY <1>1, <1>2, <1>4, <2>1, NoneMoved DEF queue
<1>. QED
  BY <1>3, <1>4 DEF MqGet

LEMMA MqAckMoves ==
  ASSUME Typed, NEW w \in Worker, MqAck(w)
  PROVE  \E d : Moves(w, d)
<1> DEFINE c == call[w]
<1>1. c.pc = "acking" /\ c \in CallOf(Phase)
  BY Calling DEF MqAck
<1>2. /\ c.held \in Nat /\ c.effects \in Nat /\ ready \in Nat /\ acked \in Nat /\ put \in Nat
      /\ UNCHANGED <<ready, put>>
  BY <1>1, CallFields DEF Typed, MqAck
<1>3. ASSUME NEW d, d = [c EXCEPT !.held = @ - 1, !.effects = @ + 1], Set(w, d),
             c.held > 0, acked' = acked + 1
      PROVE  Moves(w, d)
  <2>1. PICK n \in Nat : n = c.held - 1
    BY <1>2, <1>3
  <2>2. PICK m \in Nat : m = c.effects + 1
    BY <1>2
  <2>3. d = [c EXCEPT !.held = n, !.effects = m]
    BY <1>3, <2>1, <2>2
  <2>4. d \in CallOf(Phase) /\ d.pc = "acking" /\ d.itf = c.itf /\ d.held = c.held - 1
    BY <1>1, <2>1, <2>2, <2>3 DEF CallOf
  <2>5. ready' \in Nat /\ acked' \in Nat /\ put' \in Nat
    BY <1>2, <1>3
  <2>6. ready' + d.held + acked' + put = ready + c.held + acked + put'
    BY <1>2, <1>3, <2>4
  <2>. QED
    BY <1>1, <1>3, <2>4, <2>5, <2>6, SomeMoved
<1>4. ASSUME NEW ok \in BOOLEAN, NEW d, Set(w, d), UNCHANGED acked,
             d = [c EXCEPT !.pc = "closing", !.ok = ok]
      PROVE  Moves(w, d)
  <2>1. d \in CallOf(Phase) /\ d.pc = "closing" /\ d.itf = c.itf /\ d.held = c.held
    BY <1>1, <1>4 DEF CallOf, Phase, Waiting
  <2>. QED
    BY <1>1, <1>2, <1>4, <2>1, NoneMoved DEF queue
<1>. QED
  BY <1>3, <1>4 DEF MqAck

LEMMA MqCloseMoves ==
  ASSUME Typed, NEW w \in Worker, MqClose(w)
  PROVE  \E d : Moves(w, d)
<1> DEFINE c == call[w]
<1>1. c.pc = "closing" /\ c \in CallOf(Phase)
  BY Calling DEF MqClose
<1>2. /\ c.held \in Nat /\ ready \in Nat /\ acked \in Nat /\ put \in Nat
      /\ ready' = ready + c.held /\ UNCHANGED <<acked, put>>
  BY <1>1, CallFields DEF Typed, MqClose
<1>3. PICK raises \in BOOLEAN : Set(w, [After(c, c.ok /\ ~ raises) EXCEPT !.held = 0])
  BY DEF MqClose
<1>4. PICK ok \in BOOLEAN : ok = (c.ok /\ ~ raises)
  OBVIOUS
<1> DEFINE e == After(c, ok)
           d == [e EXCEPT !.held = 0]
<1>5. e \in CallOf(Phase) /\ e.itf = c.itf /\ (e.pc = "logging" \/ e.pc = "backoff")
  BY <1>1, AfterFields
<1>6. Set(w, d)
  BY <1>3, <1>4
<1> HIDE DEF e
<1>7. /\ d \in CallOf(Phase) /\ d.itf = c.itf /\ d.held = 0
      /\ d.pc \notin {"rest", "soap", "sftp", "moving"}
  BY <1>5 DEF CallOf
<1> HIDE DEF d
<1>8. ready' \in Nat /\ acked' \in Nat /\ put' \in Nat
  BY <1>2
<1>9. ready' + d.held + acked' + put = ready + c.held + acked + put'
  BY <1>2, <1>7
<1>10. Moves(w, d)
  BY <1>1, <1>6, <1>7, <1>8, <1>9, SomeMoved
<1>. QED
  BY <1>10

LEMMA SftpMoves ==
  ASSUME Typed, NEW w \in Worker, SftpConnect(w) \/ SftpMove(w)
  PROVE  \E d : Moves(w, d)
<1> DEFINE c == call[w]
<1>1. /\ c.pc \in {"sftp", "moving"} /\ c \in CallOf(Phase)
      /\ UNCHANGED queue
  <2>1. c.pc \in {"sftp", "moving"} /\ UNCHANGED queue
    BY DEF SftpConnect, SftpMove
  <2>. QED
    BY <2>1, Calling
<1>2. c.handled \in Nat /\ c.effects \in Nat
  BY <1>1, CallFields
<1>3. ASSUME NEW ok \in BOOLEAN, Set(w, After(c, ok))
      PROVE  \E d : Moves(w, d)
  BY <1>1, <1>3, AfterMoves
<1>4. ASSUME NEW d \in CallOf(Phase), Set(w, d), d.pc = "moving", d.itf = c.itf, d.held = c.held
      PROVE  \E e : Moves(w, e)
  <2>1. Moves(w, d)
    BY <1>1, <1>4, NoneMoved
  <2>. QED
    BY <2>1
<1>5. ASSUME NEW d, d = [c EXCEPT !.pc = "moving"], Set(w, d)
      PROVE  \E e : Moves(w, e)
  <2>1. d \in CallOf(Phase) /\ d.pc = "moving" /\ d.itf = c.itf /\ d.held = c.held
    BY <1>1, <1>5 DEF CallOf, Phase, Waiting
  <2>. QED
    BY <1>4, <1>5, <2>1
<1>6. ASSUME c.pc = "moving",
             NEW d, d = [c EXCEPT !.handled = @ + 1, !.effects = @ + 1], Set(w, d)
      PROVE  \E e : Moves(w, e)
  <2>1. PICK n \in Nat : n = c.handled + 1
    BY <1>2
  <2>2. PICK m \in Nat : m = c.effects + 1
    BY <1>2
  <2>3. d = [c EXCEPT !.handled = n, !.effects = m]
    BY <1>6, <2>1, <2>2
  <2>4. d \in CallOf(Phase) /\ d.pc = "moving" /\ d.itf = c.itf /\ d.held = c.held
    BY <1>1, <1>6, <2>3 DEF CallOf
  <2>. QED
    BY <1>4, <1>6, <2>4
<1>. QED
  BY <1>3, <1>5, <1>6 DEF SftpConnect, SftpMove

LEMMA RetryMoves ==
  ASSUME AdapterAssumption, Typed, CallsGood, NEW w \in Worker, Retry(w)
  PROVE  \E d : Moves(w, d)
<1> DEFINE c == call[w]
<1>1. /\ c.pc = "backoff" /\ c \in CallOf(Phase) /\ Good(c)
      /\ UNCHANGED queue
  BY Calling, AtPhase DEF Retry
<1>2. c.attempt \in 0..RetryMax /\ c.attempt < RetryMax /\ RetryMax \in Nat
  BY <1>1, CallFields DEF Good, AdapterAssumption
<1>3. PICK n \in 0..RetryMax : n = c.attempt + 1
  BY <1>2
<1>4. PICK d : d = [c EXCEPT !.pc = "attempt", !.attempt = n]
  OBVIOUS
<1>5. Set(w, d)
  BY <1>3, <1>4 DEF Retry
<1>6. d \in CallOf(Phase) /\ d.pc = "attempt" /\ d.itf = c.itf /\ d.held = c.held
  BY <1>1, <1>4 DEF CallOf, Phase
<1>7. Moves(w, d)
  BY <1>1, <1>5, <1>6, NoneMoved
<1>. QED
  BY <1>7

\* What a call held when it ends is back in the queue.
LEMMA EndMoves ==
  ASSUME Typed, NEW w \in Worker, call[w] # NoCall, NEW how, End(w, how)
  PROVE  Moves(w, NoCall)
<1>1. call[w] \in CallOf(Phase)
  BY DEF Typed
<1>2. Held(call[w]) = call[w].held /\ call[w].held \in Nat /\ Held(NoCall) = 0
  BY <1>1, HeldOfCall DEF Held
<1>3. ready' = ready + call[w].held /\ acked' = acked /\ put' = put
  BY DEF End
<1>4. ready' \in Nat /\ acked' \in Nat /\ put' \in Nat
  BY <1>2, <1>3 DEF Typed
<1>5. ready' + 0 + acked' + put = ready + call[w].held + acked + put'
  BY <1>2, <1>3 DEF Typed
<1>. QED
  BY <1>2, <1>4, <1>5 DEF Moves, End, Set

LEMMA LimitMoves ==
  ASSUME Typed, NEW w \in Worker, Limit(w)
  PROVE  \E d : Moves(w, d)
<1> DEFINE c == call[w]
<1>1. c # NoCall /\ c \in CallOf(Phase)
  BY DEF Limit, SoftLimit, HardLimit, WebTimeout, Typed
<1>2. /\ c.held \in Nat /\ c.effects \in Nat /\ ready \in Nat /\ acked \in Nat /\ put \in Nat
  BY <1>1, CallFields DEF Typed
<1>3. ASSUME NEW how, End(w, how)
      PROVE  \E d : Moves(w, d)
  BY <1>1, <1>3, EndMoves
<1>4. ASSUME NEW d, d = [c EXCEPT !.soft = TRUE, !.pc = "closing", !.ok = FALSE], Set(w, d),
             UNCHANGED queue
      PROVE  \E e : Moves(w, e)
  <2>1. d \in CallOf(Phase) /\ d.pc = "closing" /\ d.itf = c.itf /\ d.held = c.held
    BY <1>1, <1>4 DEF CallOf, Phase, Waiting
  <2>2. Moves(w, d)
    BY <1>1, <1>4, <2>1, NoneMoved
  <2>. QED
    BY <2>2
<1>5. ASSUME NEW took \in {0, 1}, ready' = ready + c.held, UNCHANGED <<acked, put>>,
             Set(w, After([c EXCEPT !.soft = TRUE, !.held = 0, !.effects = @ + took], FALSE))
      PROVE  \E e : Moves(w, e)
  <2>1. PICK n \in Nat : n = c.effects + took
    BY <1>2
  <2>2. PICK no \in BOOLEAN : no = FALSE
    OBVIOUS
  <2> DEFINE b == [c EXCEPT !.soft = TRUE, !.held = 0, !.effects = n]
             d == After(b, no)
  <2>3. Set(w, d)
    BY <1>5, <2>1, <2>2
  <2>4. b \in CallOf(Phase) /\ b.itf = c.itf /\ b.held = 0
    BY <1>1 DEF CallOf
  <2> HIDE DEF b
  <2>5. /\ d \in CallOf(Phase) /\ d.itf = c.itf /\ d.held = 0
        /\ d.pc \notin {"rest", "soap", "sftp", "moving"}
    BY <2>4, AfterFields
  <2> HIDE DEF d
  <2>6. ready' \in Nat /\ acked' \in Nat /\ put' \in Nat
    BY <1>2, <1>5
  <2>7. ready' + d.held + acked' + put = ready + c.held + acked + put'
    BY <1>2, <1>5, <2>5
  <2>8. Moves(w, d)
    BY <1>1, <2>3, <2>5, <2>6, <2>7, SomeMoved
  <2>. QED
    BY <2>8
<1>6. CASE SoftLimit(w)
  <2>1. CASE \E how : End(w, how)
    BY <1>3, <2>1
  <2>2. CASE ~ \E how : End(w, how)
    <3>1. \/ /\ Set(w, [c EXCEPT !.soft = TRUE, !.pc = "closing", !.ok = FALSE])
             /\ UNCHANGED queue
          \/ /\ \E took \in {0, 1} :
                  Set(w, After([c EXCEPT !.soft = TRUE, !.held = 0, !.effects = @ + took], FALSE))
             /\ ready' = ready + c.held /\ UNCHANGED <<acked, put>>
      BY <1>6, <2>2 DEF SoftLimit
    <3>. QED
      BY <1>4, <1>5, <3>1
  <2>. QED
    BY <2>1, <2>2
<1>. QED
  BY <1>3, <1>6 DEF Limit, HardLimit, WebTimeout

LEMMA StepMovesSomething ==
  ASSUME AdapterAssumption, Typed, CallsGood, NEW w \in Worker, Step(w) \/ Limit(w)
  PROVE  \E d : Moves(w, d)
<1>1. CASE RestExecuteLive(w) \/ SoapExecuteLive(w) \/ BatchExecuteLive(w)
  BY <1>1, AnsweredMoves DEF RestExecuteLive, SoapExecuteLive, BatchExecuteLive
<1>2. CASE WriteLog(w)
  <2>1. call[w] # NoCall /\ End(w, "logged")
    BY <1>2, Calling DEF WriteLog
  <2>. QED
    BY <2>1, EndMoves
<1>. QED
  BY <1>1, <1>2, DispatchMoves, MqConnectMoves, MqGetMoves, MqAckMoves, MqCloseMoves, SftpMoves,
     RetryMoves, LimitMoves DEF Step

LEMMA StartMoves ==
  ASSUME AdapterAssumption, Inv, NEW w \in Worker, StartCall(w)
  PROVE  \E d : Moves(w, d)
<1> DEFINE d == [pc |-> "attempt", itf |-> itf, soft |-> FALSE, attempt |-> 0,
                 ok |-> FALSE, real |-> FALSE, sent |-> {}, held |-> 0, handled |-> 0,
                 effects |-> 0]
<1>1. call[w] = NoCall /\ call' = [call EXCEPT ![w] = d] /\ UNCHANGED queue
  BY DEF StartCall, Set
<1>2. d.pc = "attempt" /\ d.itf = itf /\ d.held = 0 /\ d \in CallOf(Phase)
  BY DEF CallOf, Phase, Inv, TypeOK, AdapterAssumption
<1> HIDE DEF d
<1>3. Held(d) = 0 /\ Held(call[w]) = 0
  BY <1>1, <1>2, HeldOfCall DEF Held
<1>4. Moves(w, d)
  BY <1>1, <1>3 DEF Moves, Inv, TypeOK, queue
<1>. QED
  BY <1>4

MessagesInv == Inv /\ MessagesConserved

LEMMA InitConserves ==
  ASSUME AdapterAssumption, Init
  PROVE  MessagesConserved
<1> DEFINE held == [w \in Worker |-> Held(call[w])]
<1>1. \A w \in Worker : call[w] = NoCall
  BY DEF Init
<1>3. DOMAIN held = Worker /\ \A w \in Worker : held[w] = 0
  BY <1>1 DEF Held
<1>4. MessagesConserved <=> ready + SumFunction(held) + acked = put
  BY DEF MessagesConserved
<1> HIDE DEF held
<1>5. IsFiniteSet(Worker)
  BY FS_Union DEF AdapterAssumption, Worker
<1>6. IntOn(held, Worker)
  BY <1>3 DEF IntOn
<1>7. SumFunctionOnSet(held, Worker) = SumFunctionOnSet(held, {})
  BY <1>3, <1>5, <1>6, SumNonzero
<1>8. SumFunction(held) = 0
  BY <1>3, <1>7, SumEmpty DEF SumFunction
<1>. QED
  BY <1>4, <1>8 DEF Init, AdapterAssumption

LEMMA StepConserves ==
  ASSUME AdapterAssumption, MessagesInv, [Next]_vars
  PROVE  MessagesConserved'
<1>1. Typed /\ CallsGood
  BY TypeParts DEF MessagesInv, Inv
<1>2. ASSUME NEW w \in Worker, NEW d, Moves(w, d)
      PROVE  MessagesConserved'
  BY <1>1, <1>2, MovesConserve DEF MessagesInv
<1>3. ASSUME NEW w \in Worker, StartCall(w) \/ Step(w) \/ Limit(w)
      PROVE  \E d : Moves(w, d)
  BY <1>1, <1>3, StartMoves, StepMovesSomething DEF MessagesInv
<1>4. ASSUME UNCHANGED <<call, queue>>
      PROVE  MessagesConserved'
  BY <1>4 DEF MessagesInv, MessagesConserved, queue
<1>5. SubmitForm \/ Resubmit \/ AdminSave => UNCHANGED <<call, queue>>
  BY DEF SubmitForm, Resubmit, AdminSave, Save
<1>6. UNCHANGED vars => UNCHANGED <<call, queue>>
  BY DEF vars, queue
<1>. QED
  BY <1>2, <1>3, <1>4, <1>5, <1>6 DEF Next

LEMMA MessagesHold == Spec => []MessagesInv
<1>1. Init => MessagesConserved
  BY AdapterAssumption, InitConserves
<1>2. Inv /\ MessagesConserved /\ [Next]_vars => MessagesConserved'
  BY AdapterAssumption, StepConserves DEF MessagesInv
<1>3. Inv /\ MessagesConserved => MessagesInv
  BY DEF MessagesInv
<1>. QED
  BY <1>1, <1>2, <1>3, InvHolds, PTL DEF Spec

\* protocols/mq.py: with any number of workers, calls, retries and limits, every message that
\* was ever put is waiting, held by a call that is going on, or acknowledged, and only one of these.
THEOREM MessagesAreConserved == Spec => []MessagesConserved
<1>1. MessagesInv => MessagesConserved
  BY DEF MessagesInv
<1>. QED
  BY <1>1, MessagesHold, PTL

=============================================================================
