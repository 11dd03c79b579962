----------------------------- MODULE FakeClientset -----------------------------
(***************************************************************************)
(* The fake clientset for unit tests (clientset/versioned/fake and typed/  *)
(* vaultinject/v1alpha1/fake): every call becomes an action that client-   *)
(* go's testing.Fake hands to its reactors under a lock, and the reactor   *)
(* is an object tracker, which keeps and hands out deep copies.  Objects   *)
(* live in memory that tests write to: whether the tracker is a store      *)
(* depends on who shares an array with whom.                               *)
(***************************************************************************)
EXTENDS DeepCopy

CONSTANTS
  Keys,                  \* VaultMaps: [ns, name]
  Callers,               \* goroutines of a test
  Tracker,               \* the object tracker
  Contents,              \* what an array may hold
  All,                   \* v1.NamespaceAll
  LabelOf                \* key -> label of the VaultMap

\* Where a VaultMap of some key may be: in the tracker or with a caller.
Row(owner) == Keys \X {owner}
Slots == Keys \X (Callers \cup {Tracker})

ASSUME FakeAssumption == Tracker \notin Callers /\ Addresses = Slots /\ None \notin Contents

VARIABLES
  object,                \* slot -> the VaultMap there
  array,                 \* address in use -> what the array there holds
  answer                 \* how the last call ended

vars == <<object, array, answer>>

Tracked(k) == object[<<k, Tracker>>]
Held(c, k) == object[<<k, c>>]

InUse == {object[s] : s \in Slots} \cap Addresses

\* The new objects are put into their slots, contents into their arrays, which
\* nobody else may refer to; an array nobody refers to any more is collected.
Place(new, contents) ==
  /\ \A a \in DOMAIN contents, s \in Slots \ DOMAIN new : object[s] # a
  /\ object' = [s \in Slots |-> IF s \in DOMAIN new THEN new[s] ELSE object[s]]
  /\ array' = [a \in InUse' |-> IF a \in DOMAIN contents THEN contents[a] ELSE array[a]]

NoContents == [a \in {} |-> Nil]

\* NewSimpleClientset: the tracker starts with copies of the objects given.
Init ==
  /\ \E given \in SUBSET Row(Tracker), nils \in SUBSET Row(Tracker) :
       object = [s \in Slots |-> IF s \notin given THEN None
                                 ELSE IF s \in nils THEN Nil ELSE s]
  /\ array \in [InUse -> Contents]
  /\ answer = "ok"
-----------------------------------------------------------------------------
(* What a test does with its objects: build one, assign an element of one. *)
Own(c, k, o) == [s \in Row(c) |-> IF s[1] = k THEN o ELSE None]

Build(c, k, content) ==
  /\ Place(Own(c, k, <<k, c>>), [a \in {<<k, c>>} |-> content])
  /\ UNCHANGED answer
BuildNil(c, k) == Place(Own(c, k, Nil), NoContents) /\ UNCHANGED answer

Assign(c, k, content) ==
  /\ Held(c, k) \in Addresses
  /\ array' = [array EXCEPT ![Held(c, k)] = content]
  /\ UNCHANGED <<object, answer>>
-----------------------------------------------------------------------------
(* FakeVaultMaps.                                                          *)
Return(err) == answer' = err
Refuse(err) == Return(err) /\ UNCHANGED <<object, array>>

\* Deep copies of the objects new are put into its slots.
PlaceCopies(new) == Place(VaultMapListDeepCopyInto(new), CopiedItems(new, array))

\* The caller gets copies of what the tracker has of the keys in K.
Hand(c, K) == PlaceCopies([s \in Row(c) |-> IF s[1] \in K THEN Tracked(s[1]) ELSE None])

Get(c, k) == Hand(c, {k}) /\ Return(IF Tracked(k) # None THEN "ok" ELSE "notFound")

Matches(ns, selector) == {k \in Keys : ns \in {All, k.ns} /\ LabelOf[k] \in selector}
List(c, ns, selector) == Hand(c, Matches(ns, selector)) /\ Return("ok")

\* The tracker keeps a copy and answers with another; the caller goes on with
\* its own object or with the answer.
Track(c, k) ==
  /\ \/ PlaceCopies([s \in {<<k, Tracker>>} |-> Held(c, k)])
     \/ PlaceCopies([s \in {<<k, Tracker>>} \cup Row(c) |->
                       IF s[1] = k THEN Held(c, k) ELSE None])
  /\ Return("ok")

Create(c, k) ==
  /\ Held(c, k) # None
  /\ IF Tracked(k) = None THEN Track(c, k) ELSE Refuse("exists")

Update(c, k) ==
  /\ Held(c, k) # None
  /\ IF Tracked(k) # None THEN Track(c, k) ELSE Refuse("notFound")

Delete(k) ==
  IF Tracked(k) = None THEN Refuse("notFound")
  ELSE Place([s \in {<<k, Tracker>>} |-> None], NoContents) /\ Return("ok")

\* No reactor handles these actions, so that Invokes answers with the default
\* object and no error.  Patch hands it to the caller, who may go on with it: an
\* empty VaultMap, with no name and so with none of the keys.
Patch(c) == Refuse("ok") \/ (Hand(c, {}) /\ Return("ok"))
DeleteCollection == Refuse("ok")

Next ==
  \/ \E c \in Callers, k \in Keys :
       \/ Create(c, k) \/ Update(c, k) \/ Get(c, k) \/ BuildNil(c, k)
       \/ \E content \in Contents : Build(c, k, content) \/ Assign(c, k, content)
  \/ \E c \in Callers, ns \in {k.ns : k \in Keys} \cup {All}, selector \in SUBSET {LabelOf[k] : k \in Keys} :
       List(c, ns, selector)
  \/ \E k \in Keys : Delete(k)
  \/ \E c \in Callers : Patch(c)
  \/ DeleteCollection

Spec == Init /\ [][Next]_vars
-----------------------------------------------------------------------------
(* Properties.                                                             *)

\* No two VaultMaps share an array, the tracker's included: what the copies of
\* zz_generated.deepcopy.go:44-105 are for.
NothingShared ==
  \A s, t \in Slots : (object[s] = object[t] /\ object[s] \in Addresses) => s = t

\* Through pointers, the tracker behaves like a store of values: it changes by
\* calls alone, and what a caller holds is changed by nobody else.
Value(o) == IF o \in Addresses THEN array[o] ELSE o
StoredNow == [k \in Keys |-> Value(Tracked(k))]
MineNow == [c \in Callers |-> [k \in Keys |-> Value(Held(c, k))]]
Store == INSTANCE VaultMapStore WITH
  Values <- Contents \cup {Nil}, stored <- StoredNow, mine <- MineNow
StoreSpec == Store!Spec
=============================================================================
