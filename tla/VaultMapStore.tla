----------------------------- MODULE VaultMapStore -----------------------------
(***************************************************************************)
(* What a test may expect of a clientset without a server: a store of      *)
(* VaultMaps that changes through its calls alone, and callers that each   *)
(* have objects of their own.  Nothing one of them does to its objects     *)
(* shows in the store or with the others.                                  *)
(*                                                                         *)
(* FakeClientset implements this module.                                   *)
(***************************************************************************)
CONSTANTS Callers, Keys, Values, None

VARIABLES
  stored,                \* key -> value, None without one
  mine,                  \* per caller: the same of the objects it holds
  answer                 \* how the last call ended

storeVars == <<stored, mine, answer>>

Only(k, v) == [x \in Keys |-> IF x = k THEN v ELSE None]
Nothing == [k \in Keys |-> None]

Init ==
  /\ stored \in [Keys -> Values \cup {None}]
  /\ mine = [c \in Callers |-> Nothing]
  /\ answer = "ok"

Build(c, k, v) ==
  /\ mine' = [mine EXCEPT ![c] = Only(k, v)]
  /\ UNCHANGED <<stored, answer>>

Change(c, k, v) ==
  /\ mine[c][k] # None
  /\ mine' = [mine EXCEPT ![c][k] = v]
  /\ UNCHANGED <<stored, answer>>

\* The caller goes on with its object, or with the one it is answered.
Put(c, k) ==
  /\ stored' = [stored EXCEPT ![k] = mine[c][k]]
  /\ mine' \in {mine, [mine EXCEPT ![c] = Only(k, mine[c][k])]}
  /\ answer' = "ok"
Refuse(how) == answer' = how /\ UNCHANGED <<stored, mine>>

Create(c, k) ==
  /\ mine[c][k] # None
  /\ IF stored[k] = None THEN Put(c, k) ELSE Refuse("exists")
Update(c, k) ==
  /\ mine[c][k] # None
  /\ IF stored[k] # None THEN Put(c, k) ELSE Refuse("notFound")
Delete(k) ==
  IF stored[k] # None
  THEN stored' = [stored EXCEPT ![k] = None] /\ answer' = "ok" /\ UNCHANGED mine
  ELSE Refuse("notFound")
Get(c, k) ==
  /\ mine' = [mine EXCEPT ![c] = Only(k, stored[k])]
  /\ answer' = IF stored[k] # None THEN "ok" ELSE "notFound"
  /\ UNCHANGED stored
List(c, S) ==
  /\ mine' = [mine EXCEPT ![c] = [k \in Keys |-> IF k \in S THEN stored[k] ELSE None]]
  /\ answer' = "ok"
  /\ UNCHANGED stored

\* Some calls are accepted and do nothing.
Ignore == answer' = "ok" /\ UNCHANGED <<stored, mine>>

Next ==
  \/ Ignore
  \/ \E c \in Callers, k \in Keys :
       \/ Create(c, k) \/ Update(c, k) \/ Get(c, k)
       \/ \E v \in Values : Build(c, k, v) \/ Change(c, k, v)
  \/ \E k \in Keys : Delete(k)
  \/ \E c \in Callers, S \in SUBSET Keys : List(c, S)

Spec == Init /\ [][Next]_storeVars
=============================================================================
