---------------------------- MODULE MCConnector ----------------------------
(* Instances of Connector for TLC. *)
EXTENDS Connector

CONSTANTS p1, p2, h1, h2

\* A password that is a token, without a username; a token; a password and a certificate, both
\* with a callback; a certificate read from files; a tenant database.
SomeConfigs ==
  {[creds |-> {"password"}, callbacks |-> {}, user |-> FALSE, database |-> FALSE],
   [creds |-> {"token"}, callbacks |-> {"token"}, user |-> TRUE, database |-> FALSE],
   [creds |-> {"password", "cert"}, callbacks |-> {"password", "cert"}, user |-> TRUE,
    database |-> FALSE],
   [creds |-> {"cert"}, callbacks |-> {}, user |-> TRUE, database |-> FALSE],
   [creds |-> {"password"}, callbacks |-> {}, user |-> TRUE, database |-> TRUE]}
============================================================================
