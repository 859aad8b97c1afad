--------------------------- MODULE MCAdapterCall ---------------------------
(* Inputs for model checking AdapterCall. *)
EXTENDS AdapterCall

F(p, op, auth, filled) ==
  [protocol |-> p, op |-> op, endpoint |-> TRUE, texts |-> TRUE, auth |-> auth, filled |-> filled]

\* Every authentication of REST, with the fields of the others filled in too; the other
\* protocols with what they require; three forms that are refused.
MCForms ==
  {F("REST", "REST_GET_QUERY", a, {"rest_auth_token", "rest_auth_user", "rest_timeout_sec"}) :
     a \in {"bearer", "basic", "api_key"}}
  \cup {[F("REST", "", "bearer", {"rest_auth_token"}) EXCEPT !.texts = FALSE],
        F("REST", "SOAP_QUERY", "", {}),
        F("SOAP", "SOAP_QUERY", "", {"soap_operation", "soap_auth_user"}),
        F("MQ", "", "", {"mq_queue_manager", "mq_queue", "mq_channel"}),
        F("MQ", "MQ_CONSUME", "", {"mq_queue"}),
        F("SFTP", "SFTP_DOWNLOAD", "", {"sftp_host", "sftp_user", "sftp_remote_path"}),
        F("BATCH", "BATCH_SCHEDULED", "", {"batch_script"})}

A(p, op, auth, keys, live) ==
  [protocol |-> p, op |-> op, endpoint |-> TRUE, byForm |-> FALSE,
   cfg |-> [keys |-> keys, auth |-> auth, live |-> live]]

MCAdmin ==
  {A("SOAP", "SOAP_QUERY", "basic", {"operation", "auth.user", "auth.password"}, "unset"),
   A("MQ", "MQ_CONSUME", "", {"queue"}, "on"),
   A("MQ", "MQ_PUBLISH", "", {"queue", "broker"}, "unset"),
   A("MQ", "MQ_PUBLISH", "", {"queue", "exchange"}, "unset"),
   A("SFTP", "SFTP_UPLOAD", "key", {"host", "user", "key_path", "upload_files"}, "on"),
   A("SFTP", "SFTP_UPLOAD", "", {"host", "user", "password", "upload_files"}, "on")}

\* An interface with an API key, one with basic authentication and one with WS-Security.
MCCredentialForms ==
  {F("REST", "REST_GET_QUERY", "api_key", {"rest_auth_token"}),
   F("REST", "REST_GET_QUERY", "basic", {"rest_auth_user", "rest_auth_pass"}),
   F("SOAP", "SOAP_QUERY", "", {"soap_operation", "soap_auth_user", "soap_auth_pass"})}

MCSettings == {[live |-> TRUE, installed |-> Protocol]}
=============================================================================
