---------------------------- MODULE AdapterCall ----------------------------
(***************************************************************************)
(* One interface, as it is configured by the form or the admin page, and   *)
(* the calls of it (src/apps/interfaces/protocols/): the choice of mock or *)
(* live, the five live adapters against the systems they talk to, retries, *)
(* the log, and the limits under which a call is cut short: the soft and   *)
(* hard limits of a Celery task, the timeout of a web worker.              *)
(***************************************************************************)
EXTENDS InterfaceConfig, Functions

CONSTANTS
  WebWorker,       \* gunicorn workers, which execute a call within a request
  TaskWorker,      \* Celery processes, which execute run_interface
  MaxCalls,        \* bound on the calls started
  MaxEdits,        \* bound on the edits of the interface
  RetryMax,        \* settings.INTERFACE_RETRY_MAX
  MaxMessages,     \* max_messages of an MQ call
  Backlog,         \* messages waiting in the queue at first
  NFiles,          \* files an SFTP call has to transfer
  FormInput,       \* what is submitted to the form
  AdminInput,      \* interfaces as the admin page may write them
  SettingsInput    \* INTERFACE_LIVE_MODE, and the protocols whose library is installed

VARIABLES
  settings,        \* INTERFACE_LIVE_MODE and the installed libraries
  itf,             \* the stored interface
  edits, calls,    \* how many edits and calls there have been
  call,            \* the call each worker executes
  ended,           \* the call that ended last, until the next starts
  ready, acked, put   \* messages in the queue, acknowledged, and ever put

vars == <<settings, itf, edits, calls, call, ended, ready, acked, put>>
queue == <<ready, acked, put>>

Worker == WebWorker \cup TaskWorker

----------------------------------------------------------------------------
(* Types.                                                                  *)

\* An interface: endpoint is whether it has one, byForm whether the form wrote its configuration.
Interface ==
  [protocol: Protocol, op: Operation, endpoint: BOOLEAN, byForm: BOOLEAN,
   cfg: [keys: SUBSET Key, auth: AuthType, live: Live]]

ASSUME AdapterAssumption ==
  /\ RetryMax \in Nat /\ MaxMessages \in Nat /\ Backlog \in Nat /\ NFiles \in Nat
  /\ MaxCalls \in Nat /\ MaxEdits \in Nat
  /\ FormInput \subseteq Form
  /\ \A i \in AdminInput : i \in Interface /\ ~ i.byForm
  /\ SettingsInput \subseteq [live: BOOLEAN, installed: SUBSET Protocol]
  /\ IsFiniteSet(WebWorker) /\ IsFiniteSet(TaskWorker)
  /\ WebWorker \cap TaskWorker = {}

\* Where a call stands: about to try, waiting for one of the systems, between two attempts,
\* about to write its log.
Waiting == {"rest", "soap", "mq", "getting", "acking", "closing", "sftp", "moving", "running"}
Phase == Waiting \cup {"attempt", "backoff", "logging"}

NoCall == [pc |-> "idle"]
CallOf(phases) ==
  [pc: phases, itf: Interface, soft: BOOLEAN, attempt: 0..RetryMax,
   ok: BOOLEAN,       \* the result of the last attempt
   real: BOOLEAN,     \* did the last attempt reach its system
   sent: SUBSET Key,  \* the credentials it carried, by their keys
   held: Nat,         \* messages received and not acknowledged
   handled: Nat,      \* messages received or files transferred by this attempt
   effects: Nat]      \* what the call has brought about outside, over all attempts

TypeOK ==
  /\ settings \in [live: BOOLEAN, installed: SUBSET Protocol]
  /\ itf \in Interface
  /\ edits \in 0..MaxEdits /\ calls \in 0..MaxCalls
  /\ DOMAIN call = Worker
  /\ \A w \in Worker : call[w] = NoCall \/ call[w] \in CallOf(Phase)
  /\ ended = NoCall \/ ended \in CallOf({"logged", "killed", "escaped"})
  /\ ready \in Nat /\ acked \in Nat /\ put \in Nat

----------------------------------------------------------------------------
(* What an adapter reads of a configuration.                               *)

\* live of the configuration overrides the setting.
_is_live(i) == IF i.cfg.live = "unset" THEN settings.live ELSE i.cfg.live = "on"

\* AdapterLibraryMissing is raised: the library is not installed, or the broker is not AMQP.
LibraryMissing(i) ==
  \/ i.protocol \notin settings.installed \cup {"BATCH"}
  \/ i.protocol = "MQ" /\ "broker" \in i.cfg.keys

\* The checks each live adapter makes before it connects.
RestReady(i) == i.endpoint
SoapReady(i) == ("wsdl" \in i.cfg.keys \/ i.endpoint) /\ "operation" \in i.cfg.keys
MqReady(i) == "queue" \in i.cfg.keys
SftpByKey(i) == i.cfg.auth = "key" /\ "key_path" \in i.cfg.keys
SftpReady(i) ==
  /\ {"host", "user"} \subseteq i.cfg.keys
  /\ SftpByKey(i) \/ "password" \in i.cfg.keys
BatchReady(i) == "script" \in i.cfg.keys
Ready(i) == CASE i.protocol = "REST"  -> RestReady(i)
              [] i.protocol = "SOAP"  -> SoapReady(i)
              [] i.protocol = "MQ"    -> MqReady(i)
              [] i.protocol = "SFTP"  -> SftpReady(i)
              [] i.protocol = "BATCH" -> BatchReady(i)

\* The credentials a REST, a SOAP and an SFTP call carry.
BasicAuth(cfg) == {"auth.user"} \cup (cfg.keys \cap {"auth.password"})
RestAuth(cfg) ==
  IF cfg.auth = "bearer" THEN cfg.keys \cap {"auth.token"}
  ELSE IF cfg.auth = "basic" /\ "auth.user" \in cfg.keys THEN BasicAuth(cfg)
  ELSE IF cfg.auth = "api_key" THEN cfg.keys \cap {"auth.key"}
  ELSE {}
SoapAuth(cfg) == IF cfg.auth = "basic" /\ "auth.user" \in cfg.keys THEN BasicAuth(cfg) ELSE {}
SftpAuth(i) == {"user", IF SftpByKey(i) THEN "key_path" ELSE "password"}

\* The operation, where it is left blank.
OpOf(i) == CASE i.op = "" /\ i.protocol = "MQ"   -> "MQ_PUBLISH"
             [] i.op = "" /\ i.protocol = "SFTP" -> "SFTP_DOWNLOAD"
             [] OTHER -> i.op

\* A call that takes messages off the queue.
Consumes(i) == i.protocol = "MQ" /\ OpOf(i) # "MQ_PUBLISH"

FirstWait == [REST |-> "rest", SOAP |-> "soap", MQ |-> "mq", SFTP |-> "sftp", BATCH |-> "running"]

----------------------------------------------------------------------------
(* Editing the interface.                                                  *)

Init ==
  /\ settings \in SettingsInput
  /\ itf \in AdminInput
  /\ edits = 0 /\ calls = 0
  /\ call = [w \in Worker |-> NoCall]
  /\ ended = NoCall
  /\ ready = Backlog /\ acked = 0 /\ put = Backlog

\* InterfaceForm.save: the configuration is replaced by what _build_config made.
Save(f) ==
  /\ edits < MaxEdits /\ Valid(f)
  /\ edits' = edits + 1
  /\ itf' = [protocol |-> f.protocol, op |-> f.op, endpoint |-> f.endpoint,
             byForm |-> TRUE, cfg |-> _build_config(f)]
  /\ UNCHANGED <<settings, calls, call, ended, queue>>

Shown(i) == _hydrate_from_config(i.protocol, i.op, i.endpoint, i.cfg)

\* The form is filled in and submitted.
SubmitForm == \E f \in FormInput : Save(f)

\* The form is opened for the stored interface and submitted as it is shown.
Resubmit == Save(Shown(itf))

\* The admin page writes any configuration.
AdminSave ==
  /\ edits < MaxEdits
  /\ edits' = edits + 1
  /\ itf' \in AdminInput
  /\ UNCHANGED <<settings, calls, call, ended, queue>>

----------------------------------------------------------------------------
(* A call.                                                                 *)

Set(w, c) == call' = [call EXCEPT ![w] = c]

\* For After: one attempt too many.
FaultyAfter(c, ok) ==
  [c EXCEPT !.ok = ok, !.pc = IF ok \/ c.attempt > RetryMax THEN "logging" ELSE "backoff"]

\* The end of an attempt: execute returns, or sleeps and tries again.
After(c, ok) ==
  [c EXCEPT !.ok = ok, !.pc = IF ok \/ c.attempt = RetryMax THEN "logging" ELSE "backoff"]

\* execute_interface: the task or the view has read the interface and calls its adapter.
StartCall(w) ==
  /\ call[w] = NoCall /\ calls < MaxCalls
  /\ calls' = calls + 1
  /\ ended' = NoCall
  /\ Set(w, [pc |-> "attempt", itf |-> itf, soft |-> FALSE, attempt |-> 0,
             ok |-> FALSE, real |-> FALSE, sent |-> {}, held |-> 0, handled |-> 0,
             effects |-> 0])
  /\ UNCHANGED <<settings, itf, edits, queue>>

_dispatch_once(w) ==
  LET c    == [call[w] EXCEPT !.real = FALSE, !.sent = {}, !.handled = 0]
      i    == c.itf
      mock == ~ _is_live(i) \/ LibraryMissing(i)
  IN
  /\ call[w].pc = "attempt"
  /\ \/ mock /\ \E ok \in BOOLEAN : Set(w, After(c, ok))
     \/ ~ mock /\ ~ Ready(i) /\ Set(w, After(c, FALSE))
     \/ ~ mock /\ Ready(i)
        /\ Set(w, [c EXCEPT !.pc = FirstWait[i.protocol], !.real = TRUE,
                            !.sent = CASE i.protocol = "REST" -> RestAuth(i.cfg)
                                       [] i.protocol = "SOAP" -> SoapAuth(i.cfg)
                                       [] i.protocol = "SFTP" -> SftpAuth(i)
                                       [] OTHER               -> {}])
  /\ UNCHANGED <<settings, itf, edits, calls, ended, queue>>

\* One request to a system that answers, refuses, or is given up on: without an answer the
\* caller does not know whether it took effect.  An answer of success is taken at its word.
Answered(w, pc) ==
  /\ call[w].pc = pc
  /\ \E ok \in BOOLEAN, took \in {0, 1} :
       /\ ok => took = 1
       /\ Set(w, After([call[w] EXCEPT !.effects = @ + took], ok))
  /\ UNCHANGED <<settings, itf, edits, calls, ended, queue>>

RestExecuteLive(w)  == Answered(w, "rest")
SoapExecuteLive(w)  == Answered(w, "soap")
BatchExecuteLive(w) == Answered(w, "running")

\* Connect; publish and have the connection closed, or go on to receive.  The broker confirms
\* no publication and returns none it cannot route: one that raised nothing may have reached
\* no queue, or by a configured exchange another one.
MqConnect(w) ==
  /\ call[w].pc = "mq"
  /\ \/ Set(w, After(call[w], FALSE)) /\ UNCHANGED queue
     \/ /\ ~ Consumes(call[w].itf)
        /\ \E took, here \in {0, 1} :
             /\ here <= took
             /\ "exchange" \notin call[w].itf.cfg.keys => here = took
             /\ ready' = ready + here /\ put' = put + here
             /\ Set(w, [call[w] EXCEPT !.pc = "closing", !.ok = TRUE, !.effects = @ + took])
        /\ UNCHANGED acked
     \/ /\ Consumes(call[w].itf)
        /\ Set(w, [call[w] EXCEPT !.pc = "getting"]) /\ UNCHANGED queue
  /\ UNCHANGED <<settings, itf, edits, calls, ended>>

\* basic_get without auto_ack, up to max_messages or until the queue is empty.
MqGet(w) ==
  /\ call[w].pc = "getting"
  /\ \/ /\ call[w].held < MaxMessages /\ ready > 0
        /\ ready' = ready - 1
        /\ Set(w, [call[w] EXCEPT !.held = @ + 1, !.handled = @ + 1])
     \/ /\ call[w].held = MaxMessages \/ ready = 0
        /\ Set(w, [call[w] EXCEPT !.pc = "acking"]) /\ UNCHANGED ready
     \/ Set(w, [call[w] EXCEPT !.pc = "closing", !.ok = FALSE]) /\ UNCHANGED ready
  /\ UNCHANGED <<settings, itf, edits, calls, ended, acked, put>>

\* The messages are acknowledged one by one; both consuming operations then return.
MqAck(w) ==
  /\ call[w].pc = "acking"
  /\ \/ /\ call[w].held > 0
        /\ acked' = acked + 1
        /\ Set(w, [call[w] EXCEPT !.held = @ - 1, !.effects = @ + 1])
     \/ /\ call[w].held = 0
        /\ Set(w, [call[w] EXCEPT !.pc = "closing", !.ok = TRUE]) /\ UNCHANGED acked
     \/ Set(w, [call[w] EXCEPT !.pc = "closing", !.ok = FALSE]) /\ UNCHANGED acked
  /\ UNCHANGED <<settings, itf, edits, calls, ended, ready, put>>

\* For MqClose: the connection is left open.
FaultyMqClose(w) ==
  /\ call[w].pc = "closing"
  /\ \E raises \in BOOLEAN :
       Set(w, [After(call[w], call[w].ok /\ ~ raises) EXCEPT !.held = 0])
  /\ UNCHANGED <<settings, itf, edits, calls, ended, queue>>

\* finally: the connection is closed and the broker takes back what was not acknowledged.
\* Closing may raise, and the result is lost with it.
MqClose(w) ==
  /\ call[w].pc = "closing"
  /\ ready' = ready + call[w].held
  /\ \E raises \in BOOLEAN :
       Set(w, [After(call[w], call[w].ok /\ ~ raises) EXCEPT !.held = 0])
  /\ UNCHANGED <<settings, itf, edits, calls, ended, acked, put>>

\* Connect and change to the remote directory; an upload needs a list of files.  A login by
\* key ends in a TypeError: paramiko's Transport.connect has no argument key_filename.
SftpConnect(w) ==
  /\ call[w].pc = "sftp"
  /\ \/ Set(w, After(call[w], FALSE))
     \/ /\ ~ SftpByKey(call[w].itf)
        /\ \/ OpOf(call[w].itf) = "SFTP_DOWNLOAD"
           \/ "upload_files" \in call[w].itf.cfg.keys
        /\ Set(w, [call[w] EXCEPT !.pc = "moving"])
  /\ UNCHANGED <<settings, itf, edits, calls, ended, queue>>

\* For SftpMove: a file that cannot be transferred is passed over.
FaultySftpMove(w) ==
  /\ call[w].pc = "moving"
  /\ \/ /\ call[w].handled < NFiles
        /\ Set(w, [call[w] EXCEPT !.handled = @ + 1, !.effects = @ + 1])
     \/ Set(w, After(call[w], TRUE))
  /\ UNCHANGED <<settings, itf, edits, calls, ended, queue>>

\* The files are transferred one by one, each over a copy an earlier attempt has left.
SftpMove(w) ==
  /\ call[w].pc = "moving"
  /\ \/ /\ call[w].handled < NFiles
        /\ Set(w, [call[w] EXCEPT !.handled = @ + 1, !.effects = @ + 1])
     \/ call[w].handled = NFiles /\ Set(w, After(call[w], TRUE))
     \/ Set(w, After(call[w], FALSE))
  /\ UNCHANGED <<settings, itf, edits, calls, ended, queue>>

\* For Retry: the count of attempts is not kept.
FaultyRetry(w) ==
  /\ call[w].pc = "backoff"
  /\ Set(w, [call[w] EXCEPT !.pc = "attempt"])
  /\ UNCHANGED <<settings, itf, edits, calls, ended, queue>>

\* The pause is over.
Retry(w) ==
  /\ call[w].pc = "backoff"
  /\ Set(w, [call[w] EXCEPT !.pc = "attempt", !.attempt = @ + 1])
  /\ UNCHANGED <<settings, itf, edits, calls, ended, queue>>

\* The call is over, in one of three ways; what it held goes back to the queue.
End(w, how) ==
  /\ ended' = [call[w] EXCEPT !.pc = how, !.held = 0]
  /\ Set(w, NoCall)
  /\ ready' = ready + call[w].held
  /\ UNCHANGED <<settings, itf, edits, calls, acked, put>>

\* InterfaceLog.objects.create.
WriteLog(w) == call[w].pc = "logging" /\ End(w, "logged")

----------------------------------------------------------------------------
(* Limits (settings.py:213, entrypoint.sh).                                *)

\* The soft limit of a task raises in the worker.  Within an adapter that is one more failure
\* of the attempt; before and after it, in the pause and at the log, nothing catches it.
SoftLimit(w) ==
  /\ w \in TaskWorker /\ call[w] # NoCall /\ ~ call[w].soft
  /\ \/ /\ call[w].pc \in {"getting", "acking"}
        /\ Set(w, [call[w] EXCEPT !.soft = TRUE, !.pc = "closing", !.ok = FALSE])
        /\ UNCHANGED <<settings, itf, edits, calls, ended, queue>>
     \/ /\ call[w].pc \in Waiting \ {"getting", "acking"}
        /\ \E took \in IF call[w].pc \in {"rest", "soap", "running"} THEN {0, 1} ELSE {0} :
             Set(w, After([call[w] EXCEPT !.soft = TRUE, !.held = 0, !.effects = @ + took], FALSE))
        /\ ready' = ready + call[w].held
        /\ UNCHANGED <<settings, itf, edits, calls, ended, acked, put>>
     \/ call[w].pc \in {"attempt", "backoff", "logging"} /\ End(w, "escaped")

\* A process is killed where it stands: a task at the hard limit, which comes after the soft
\* one, a web worker when it has not answered in time.
HardLimit(w) == w \in TaskWorker /\ call[w] # NoCall /\ call[w].soft /\ End(w, "killed")
WebTimeout(w) == w \in WebWorker /\ call[w] # NoCall /\ End(w, "killed")

\* For Limit: no hard limit is set.
FaultyLimit(w) == SoftLimit(w) \/ WebTimeout(w)

Limit(w) == SoftLimit(w) \/ HardLimit(w) \/ WebTimeout(w)

----------------------------------------------------------------------------

Step(w) ==
  \/ _dispatch_once(w) \/ RestExecuteLive(w) \/ SoapExecuteLive(w) \/ BatchExecuteLive(w)
  \/ MqConnect(w) \/ MqGet(w) \/ MqAck(w) \/ MqClose(w)
  \/ SftpConnect(w) \/ SftpMove(w) \/ Retry(w) \/ WriteLog(w)

Next ==
  \/ SubmitForm \/ Resubmit \/ AdminSave
  \/ \E w \in Worker : StartCall(w) \/ Step(w) \/ Limit(w)

Spec == Init /\ [][Next]_vars

\* Time passes.  Nothing is assumed of the systems called, nor of the worker itself.
FairSpec == Spec /\ \A w \in Worker : WF_vars(Limit(w))

----------------------------------------------------------------------------
(* Properties.                                                             *)

\* What the form made the form shows: opened and submitted unchanged, a configuration is
\* accepted again and stored as it was.
FormRoundTrip ==
  itf.byForm => Valid(Shown(itf)) /\ _build_config(Shown(itf)) = itf.cfg

\* Refuted: a REST or SOAP call carries the credentials its interface was given in the form:
\* the token or API key, the user and the password.
CredentialsReach ==
  \A w \in Worker :
    call[w] # NoCall /\ call[w].itf.byForm /\ call[w].pc \in {"rest", "soap"} =>
      LET given == call[w].itf.cfg.keys
          sent  == call[w].sent
      IN
      /\ "auth.token" \in given => {"auth.token", "auth.key"} \cap sent # {}
      /\ "auth.user" \in given => "auth.user" \in sent
      /\ "auth.pass" \in given => "auth.password" \in sent

\* The messages a call holds.
Held(c) == IF c = NoCall THEN 0 ELSE c.held

\* No message is lost or acknowledged twice, whatever fails, is retried or is killed between
\* receiving and acknowledging, with any number of calls on the queue: each is waiting, held
\* by a call still going on, or acknowledged.
MessagesConserved ==
  ready + SumFunction([w \in Worker |-> Held(call[w])]) + acked = put

\* A transfer or reception logged as a success of a live system is complete, though it may be
\* the second attempt after one broken off anywhere: every file was transferred in the attempt
\* that is reported, every message it reports is acknowledged, and on a first attempt no other.
SuccessIsComplete ==
  ended # NoCall /\ ended.pc = "logged" /\ ended.ok /\ ended.real =>
    /\ ended.itf.protocol = "SFTP" => ended.handled = NFiles
    /\ Consumes(ended.itf) =>
         /\ ended.effects >= ended.handled
         /\ ended.attempt = 0 => ended.effects = ended.handled

\* A request, publication or script takes effect at most once per attempt, and at most
\* RetryMax times more than once: also when what was reported as a failure had taken effect.
RepeatsBounded ==
  \A c \in ({call[w] : w \in Worker} \cup {ended}) \ {NoCall} :
    \/ c.itf.protocol = "SFTP"
    \/ Consumes(c.itf)
    \/ c.effects <= RetryMax + 1

\* Every call comes to an end, though a system called may never answer: the SOAP operation
\* and the SFTP session have no timeout of their own, the limits of the process end them.
CallsEnd == \A w \in Worker : call[w] # NoCall ~> call[w] = NoCall

=============================================================================
