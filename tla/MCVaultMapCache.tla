---------------------------- MODULE MCVaultMapCache ----------------------------
(* Two VaultMaps of one namespace and one of another.                      *)
EXTENDS VaultMapCache

MCKeys == {[ns |-> "a", name |-> "m"], [ns |-> "a", name |-> "n"], [ns |-> "b", name |-> "m"]}
MCExisting == <<[ns |-> "a", name |-> "m"], [ns |-> "a", name |-> "n"]>>
MCScopes == {All, "a"}
=============================================================================
