---------------------------- MODULE MCWebhookProcess ----------------------------
(* Bounded instances of WebhookProcess for TLC.                            *)
EXTENDS WebhookProcess, TLC

\* No health check (the defaults); a misspelt flag; the debug image's flags,
\* with the ticker's interval positive and negative.
TlsFlags == {"tlsCertFile", "tlsKeyFile"}
HealthFlags == TlsFlags \cup {"healthCheckInterval", "healthCheckFile"}
MCCommandLines ==
  [flags : {TlsFlags, {"tlsCert"}}, interval : {0}, healthFile : {FALSE}]
    \cup [flags : {HealthFlags}, interval : {-1, 1}, healthFile : {TRUE}]
=============================================================================
