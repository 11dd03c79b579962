---------------------------- MODULE MCFakeClientset ----------------------------
(* Two callers and two VaultMaps of different namespaces and labels.       *)
EXTENDS FakeClientset, TLC

CONSTANTS team, infra

Mine == [ns |-> "a", name |-> "m"]
Theirs == [ns |-> "b", name |-> "m"]
MCKeys == {Mine, Theirs}
MCLabelOf == Mine :> team @@ Theirs :> infra
=============================================================================
