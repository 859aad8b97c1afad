-------------------------- MODULE InterfaceConfig --------------------------
(***************************************************************************)
(* The registration form of an interface (src/apps/interfaces/forms.py):   *)
(* what it accepts, the config_json it assembles from its fields, and the  *)
(* fields it fills in again from a stored config_json.                     *)
(*                                                                         *)
(* A config_json is abstracted to the set of its keys, nested ones written *)
(* with a dot, with the two values that steer an adapter, auth.type and    *)
(* live.  A form is abstracted to the set of its fields that are not left  *)
(* blank; a value is carried over unchanged or not at all.                 *)
(***************************************************************************)
EXTENDS Integers, Sequences, FiniteSets

Protocol == {"REST", "SOAP", "MQ", "SFTP", "BATCH"}

PROTOCOL_OPERATIONS ==
  [REST  |-> {"REST_GET_QUERY"},
   SOAP  |-> {"SOAP_QUERY"},
   MQ    |-> {"MQ_PUBLISH", "MQ_CONSUME", "MQ_CONSUME_PROCESS"},
   SFTP  |-> {"SFTP_DOWNLOAD", "SFTP_UPLOAD"},
   BATCH |-> {"BATCH_SCHEDULED"}]
Operation == (UNION {PROTOCOL_OPERATIONS[p] : p \in Protocol}) \cup {""}

----------------------------------------------------------------------------
(* Cron expressions: a sequence of fields.  kind "text" stands for         *)
(* whatever the pattern of a field does not match.                         *)

CronField == [kind: {"any", "at", "every", "text"}, n: Nat]

\* (lo, hi) of minute, hour, day of month, month, day of week
CronRange == <<<<0, 59>>, <<0, 23>>, <<1, 31>>, <<1, 12>>, <<0, 7>>>>

validate_cron(expr) ==
  /\ Len(expr) = 5
  /\ \A i \in 1..5 :
       /\ expr[i].kind # "text"
       /\ expr[i].kind # "any" => expr[i].n \in CronRange[i][1]..CronRange[i][2]

----------------------------------------------------------------------------
(* Fields and keys.                                                        *)

\* The key of config_json each field of a protocol is written under.  The headers and
\* query parameters of REST are always written, be it as empty objects.
KeyOf ==
  [REST  |-> [rest_auth_token |-> "auth.token", rest_auth_user |-> "auth.user",
              rest_auth_pass |-> "auth.pass", rest_timeout_sec |-> "timeout_sec"],
   SOAP  |-> [soap_wsdl |-> "wsdl", soap_operation |-> "operation",
              soap_auth_user |-> "auth.user", soap_auth_pass |-> "auth.pass"],
   MQ    |-> [mq_queue_manager |-> "queue_manager", mq_queue |-> "queue",
              mq_channel |-> "channel", mq_save_to_table |-> "save_to_table"],
   SFTP  |-> [sftp_host |-> "host", sftp_port |-> "port", sftp_user |-> "user",
              sftp_remote_path |-> "remote_path", sftp_file_pattern |-> "file_pattern"],
   BATCH |-> [batch_script |-> "script", batch_args_text |-> "args",
              batch_timeout_sec |-> "timeout_sec"]]
Field(p) == DOMAIN KeyOf[p]

\* Fields without which the configuration of a protocol is refused.
Required ==
  [REST |-> {}, SOAP |-> {}, MQ |-> {"mq_queue_manager", "mq_queue", "mq_channel"},
   SFTP |-> {"sftp_host", "sftp_user", "sftp_remote_path"}, BATCH |-> {"batch_script"}]

\* Fields for which the form substitutes a default when they are blank.
Defaulted ==
  [REST |-> {}, SOAP |-> {}, MQ |-> {}, SFTP |-> {"sftp_port", "sftp_file_pattern"},
   BATCH |-> {"batch_timeout_sec"}]

\* "key" is the value of an SFTP configuration, whose auth is a word and no object.
AuthType == {"", "bearer", "basic", "api_key", "ws-security", "key"}
RestAuthType == {"", "bearer", "basic", "api_key"}

\* Every key a configuration may have: those of the form and those that only the admin page writes.
Key == (UNION {{KeyOf[p][x] : x \in Field(p)} : p \in Protocol})
         \cup {"method", "headers", "query_params", "auth.password", "auth.key", "password",
               "key_path", "upload_files", "broker", "exchange"}
Live == {"unset", "on", "off"}

\* What the form shows, and what is submitted: the protocol, the operation, whether there is an
\* endpoint, whether the two key: value texts are well formed, the authentication chosen, and the fields filled in.
Form ==
  UNION {[protocol: {p}, op: Operation, endpoint: BOOLEAN, texts: BOOLEAN,
          auth: IF p = "REST" THEN RestAuthType ELSE {""}, filled: SUBSET Field(p)] :
           p \in Protocol}

----------------------------------------------------------------------------

\* _build_config accepts: the texts can be split and no required field is blank.
Buildable(f) ==
  /\ f.protocol = "REST" => f.texts
  /\ Required[f.protocol] \subseteq f.filled

\* clean and its _build_config raise nothing.
Valid(f) ==
  /\ f.op # "" => f.op \in PROTOCOL_OPERATIONS[f.protocol]
  /\ Buildable(f)

\* The authentication fields of REST that _build_config keeps, by the type chosen.
RestAuthKept(auth) ==
  CASE auth \in {"bearer", "api_key"} -> {"rest_auth_token"}
    [] auth = "basic"                 -> {"rest_auth_user", "rest_auth_pass"}
    [] OTHER                          -> {}

_build_config(f) ==
  LET p     == f.protocol
      kept  == CASE p = "REST" -> (f.filled \cap {"rest_timeout_sec"})
                                    \cup (f.filled \cap RestAuthKept(f.auth))
                 [] OTHER      -> f.filled \cup Defaulted[p]
      given == {KeyOf[p][x] : x \in kept}
  IN [keys |-> given \cup (IF p = "REST" THEN {"method", "headers", "query_params"} ELSE {}),
      auth |-> CASE p = "REST" -> f.auth
                 [] p = "SOAP" /\ given \cap {"auth.user", "auth.pass"} # {} -> "ws-security"
                 [] OTHER      -> "",
      live |-> "unset"]

\* The authentication the form shows: one it does not offer is shown as none.
ShownAuth(p, cfg) == IF p = "REST" /\ cfg.auth \in RestAuthType THEN cfg.auth ELSE ""

\* For _hydrate_from_config: a bearer token is looked up under the key of an API key.
FaultyHydrateToken(p, op, endpoint, cfg) ==
  [protocol |-> p, op |-> op, endpoint |-> endpoint, texts |-> TRUE, auth |-> ShownAuth(p, cfg),
   filled |-> {x \in Field(p) :
                 (IF x = "rest_auth_token" THEN "auth.key" ELSE KeyOf[p][x]) \in cfg.keys}]

\* The form as it is shown for a stored interface: a field is filled in from its key; the
\* fields of other protocols stay blank.
_hydrate_from_config(p, op, endpoint, cfg) ==
  [protocol |-> p, op |-> op, endpoint |-> endpoint, texts |-> TRUE, auth |-> ShownAuth(p, cfg),
   filled |-> {x \in Field(p) : KeyOf[p][x] \in cfg.keys}]

\* For CleanCron: what the schedule of another protocol leaves is kept.
FaultyCleanCron(p, cron) == cron

\* clean_schedule_cron and clean: only BATCH and SFTP keep a schedule.
CleanCron(p, cron) == IF p \in {"BATCH", "SFTP"} THEN cron ELSE <<>>

=============================================================================
