----------------------------- MODULE MCStartup -----------------------------
(* Startup for TLC: three of the six tables. *)
EXTENDS Startup

CONSTANTS n1, n2

MCTables == <<"authentication_logs", "config", "totp_secrets">>
MCOldSchemas == {{}, {"authentication_logs", "totp_secrets"}}
=============================================================================
