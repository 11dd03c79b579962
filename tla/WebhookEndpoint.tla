---------------------------- MODULE WebhookEndpoint ----------------------------
(***************************************************************************)
(* One run of the webhook process as its callers see it: an HTTPS endpoint *)
(* that may start to answer, once, and that once gone does not come back.  *)
(* It answers only when the process has its configuration, its secret and  *)
(* its certificate and has a populated VaultMap cache.                     *)
(*                                                                         *)
(* WebhookProcess implements this module.                                  *)
(***************************************************************************)
VARIABLES
  endpoint,              \* "starting", "serving" or "gone"
  prepared               \* everything a request may need is in memory

endpointVars == <<endpoint, prepared>>

Init == endpoint = "starting" /\ prepared = FALSE

Prepare == endpoint = "starting" /\ prepared' = TRUE /\ UNCHANGED endpoint
Open == endpoint = "starting" /\ prepared /\ endpoint' = "serving" /\ UNCHANGED prepared
Close == endpoint # "gone" /\ endpoint' = "gone" /\ UNCHANGED prepared

Next == Prepare \/ Open \/ Close

Spec == Init /\ [][Next]_endpointVars
=============================================================================
