---------------------------- MODULE MCWebhookConfig ----------------------------
(* Two patchers of one entry with bundles of their own, beside another entry. *)
EXTENDS WebhookConfig, TLC

CONSTANTS old, new, own, other

MCTargetOf == [p \in {old, new} |-> own]
MCBundleOf == [p \in {old, new} |-> p]
=============================================================================
