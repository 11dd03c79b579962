------------------------- MODULE InformerFactoryProofs -------------------------
(***************************************************************************)
(* Proofs about InformerFactory, for any number of goroutines and types.   *)
(*                                                                         *)
(* The inductive invariant says who may touch the two maps (only the       *)
(* holder of the lock), that startedInformers records exactly what was     *)
(* launched, and what each goroutine's locals mean while it runs.          *)
(***************************************************************************)
EXTENDS InformerFactory, FiniteSetTheorems, TLAPS

\* The lock is held by the goroutine inside a critical section, and by no other.
LockInv == \A th \in Threads : pc[th] \in Critical <=> lock = th

\* startedInformers is true of a type when, and only when, it was launched.
LaunchInv ==
  \A t \in Types : /\ t \in startedInformers => launches[t] = 1 /\ informers[t] # 0
                   /\ t \notin startedInformers => launches[t] = 0

\* Only the informer the map holds was ever handed out.
ReturnedInv == \A t \in Types : \A i \in returned[t] : i = informers[t] /\ i # 0

\* What the locals of a goroutine in InformerFor or Start mean.
LocalInv ==
  \A th \in Threads :
    /\ pc[th] \in {"forLock", "forLookup", "forNew", "startRun"} => typ[th] \in Types
    /\ pc[th] = "forNew" => informers[typ[th]] = 0
    /\ pc[th] = "startRun" => typ[th] \notin startedInformers /\ informers[typ[th]] # 0
    /\ pc[th] \in {"startRange", "startRun"} => todo[th] \subseteq registered

\* No informer registered before Start was called is forgotten on the way.
OwedInv ==
  \A th \in Threads :
    /\ pc[th] = "startLock" => owed[th] \subseteq registered
    /\ pc[th] = "startRange" => owed[th] \subseteq todo[th] \cup startedInformers
    /\ pc[th] = "startRun" =>
         owed[th] \subseteq todo[th] \cup startedInformers \cup {typ[th]}

\* WaitForCacheSync looks only at informers that were launched.
WaitInv ==
  \A th \in Threads :
    /\ pc[th] = "waitEach" => todo[th] \subseteq startedInformers
    /\ \A t \in Types : /\ res[th][t] = "synced" => t \in synced
                        /\ res[th][t] = "notSynced" => stopped

IInv ==
  TypeOK /\ LockInv /\ LaunchInv /\ ReturnedInv /\ LocalInv /\ OwedInv /\ WaitInv
-----------------------------------------------------------------------------
(* The initial states.                                                     *)
LEMMA InitIInv == Init => IInv
<1> SUFFICES ASSUME Init PROVE IInv
  OBVIOUS
<1> USE FactoryAssumption DEF Init
<1>1. TypeOK
  BY DEF TypeOK, Labels
<1>2. LockInv
  BY DEF LockInv, Critical
<1>3. LaunchInv /\ ReturnedInv
  BY DEF LaunchInv, ReturnedInv
<1>4. LocalInv /\ OwedInv
  BY DEF LocalInv, OwedInv
<1>5. WaitInv
  BY DEF WaitInv
<1>6. QED  BY <1>1, <1>2, <1>3, <1>4, <1>5 DEF IInv

(* One lemma per function of the factory: each of its steps preserves IInv. *)
USE DEF factoryVars, envVars, localVars, Goto, Labels, Critical, registered

\* InformerFor keeps the invariant.
LEMMA InformerForPreserves ==
  ASSUME IInv, NEW th \in Threads,
         InformerForStep(th) \/ \E t \in Types : CallInformerFor(th, t)
  PROVE  IInv'
<1> USE FactoryAssumption DEF IInv, Acquire, Release
<1>1. ASSUME NEW t \in Types, CallInformerFor(th, t) PROVE IInv'
  BY <1>1 DEF CallInformerFor, TypeOK, LockInv, LaunchInv, ReturnedInv, LocalInv, OwedInv, WaitInv
<1>2. CASE LockInformerFor(th)
  BY <1>2 DEF LockInformerFor, TypeOK, LockInv, LaunchInv, ReturnedInv, LocalInv, OwedInv, WaitInv
<1>3. CASE LookupInformer(th)
  <2> USE <1>3 DEF LookupInformer
  <2>1. typ[th] \in Types /\ lock = th
    BY DEF TypeOK, LockInv, LocalInv
  <2>2. TypeOK'
    <3>1. CASE informers[typ[th]] # 0
      <4>1. informers[typ[th]] \in Nat /\ returned[typ[th]] \in SUBSET Nat
        BY <2>1 DEF TypeOK
      <4>2. returned' \in [Types -> SUBSET Nat]
        BY <2>1, <3>1, <4>1 DEF TypeOK
      <4>3. QED  BY <2>1, <3>1, <4>2 DEF TypeOK
    <3>2. CASE informers[typ[th]] = 0
      BY <2>1, <3>2 DEF TypeOK
    <3>3. QED  BY <3>1, <3>2
  <2>3. LockInv'
    BY <2>1 DEF TypeOK, LockInv
  <2>4. LaunchInv' /\ ReturnedInv'
    BY <2>1 DEF TypeOK, LaunchInv, ReturnedInv
  <2>5. /\ pc'[th] \in {"idle", "forNew"} /\ (pc'[th] = "forNew" => informers[typ[th]] = 0)
        /\ \A u \in Threads \ {th} : pc'[u] = pc[u]
        /\ UNCHANGED <<factoryVars, envVars, typ, todo, res, owed>>
    BY DEF TypeOK
  <2> HIDE DEF LookupInformer, TypeOK, LockInv, LaunchInv, ReturnedInv
  <2>6. LocalInv'
    BY <2>1, <2>5 DEF LocalInv
  <2>7. OwedInv' /\ WaitInv'
    BY <2>5 DEF OwedInv, WaitInv
  <2>8. QED  BY <2>2, <2>3, <2>4, <2>6, <2>7
<1>4. CASE NewInformer(th)
  <2> USE <1>4 DEF NewInformer
  <2>1. /\ typ[th] \in Types /\ informers[typ[th]] = 0 /\ created + 1 # 0
        /\ \A u \in Threads : u # th => pc[u] \notin Critical
        /\ \A t \in Types : t # typ[th] => informers'[t] = informers[t]
    BY DEF TypeOK, LockInv, LocalInv
  <2>2. TypeOK' /\ LockInv'
    BY <2>1 DEF TypeOK, LockInv
  <2>3. LaunchInv' /\ ReturnedInv'
    BY <2>1 DEF TypeOK, LaunchInv, ReturnedInv
  <2>4. LocalInv'
    BY <2>1 DEF TypeOK, LocalInv
  <2>5. OwedInv' /\ WaitInv'
    BY <2>1 DEF TypeOK, OwedInv, WaitInv
  <2>6. QED  BY <2>2, <2>3, <2>4, <2>5
<1>5. QED  BY <1>1, <1>2, <1>3, <1>4 DEF InformerForStep

\* Start keeps the invariant.
LEMMA StartPreserves ==
  ASSUME IInv, NEW th \in Threads, StartStep(th) \/ CallStart(th)
  PROVE  IInv'
<1> USE FactoryAssumption DEF IInv, Acquire, Release
<1>1. CASE CallStart(th)
  BY <1>1 DEF CallStart, TypeOK, LockInv, LaunchInv, ReturnedInv, LocalInv, OwedInv, WaitInv
<1>2. CASE LockStart(th)
  BY <1>2 DEF LockStart, TypeOK, LockInv, LaunchInv, ReturnedInv, LocalInv, OwedInv, WaitInv
<1>3. ASSUME NEW t \in Types, VisitInformer(th, t) PROVE IInv'
  <2> USE <1>3 DEF VisitInformer, NotStarted
  <2>1. lock = th
    BY DEF LockInv
  <2>2. TypeOK'
    <3>1. pc' \in [Threads -> Labels] /\ typ' \in [Threads -> Types \cup {None}]
      <4>1. CASE t \in startedInformers
        BY <4>1 DEF TypeOK
      <4>2. CASE t \notin startedInformers
        <5>1. pc' = [pc EXCEPT ![th] = "startRun"] /\ typ' = [typ EXCEPT ![th] = t]
          BY <4>2
        <5>2. pc \in [Threads -> Labels] /\ typ \in [Threads -> Types \cup {None}]
          BY DEF TypeOK
        <5> HIDE DEF VisitInformer, IInv
        <5>3. QED  BY <5>1, <5>2
      <4>3. QED  BY <4>1, <4>2
    <3>2. todo' \in [Threads -> SUBSET Types]
      BY DEF TypeOK
    <3>3. UNCHANGED <<lock, informers, startedInformers, launches, created, synced, stopped,
                      res, owed, returned>>
      BY DEF factoryVars, envVars
    <3>4. QED  BY <3>1, <3>2, <3>3 DEF TypeOK
  <2>3. LockInv' /\ LaunchInv' /\ ReturnedInv'
    BY <2>1 DEF TypeOK, LockInv, LaunchInv, ReturnedInv
  <2>4. LocalInv'
    BY DEF TypeOK, LocalInv
  <2>5. OwedInv' /\ WaitInv'
    BY DEF TypeOK, OwedInv, WaitInv
  <2>6. QED  BY <2>2, <2>3, <2>4, <2>5
<1>4. CASE RunInformer(th)
  <2> USE <1>4 DEF RunInformer
  <2>1. /\ typ[th] \in Types /\ typ[th] \notin startedInformers
        /\ informers[typ[th]] # 0 /\ launches[typ[th]] = 0
        /\ \A u \in Threads : u # th => pc[u] \notin Critical
    BY DEF TypeOK, LockInv, LocalInv, LaunchInv
  <2>2. TypeOK' /\ LockInv'
    BY <2>1 DEF TypeOK, LockInv
  <2>3. LaunchInv' /\ ReturnedInv'
    BY <2>1 DEF TypeOK, LaunchInv, ReturnedInv
  <2>4. LocalInv'
    BY <2>1 DEF TypeOK, LocalInv
  <2>5. OwedInv'
    BY <2>1 DEF TypeOK, OwedInv
  <2>6. WaitInv'
    BY DEF TypeOK, WaitInv
  <2>7. QED  BY <2>2, <2>3, <2>4, <2>5, <2>6
<1>5. CASE ReturnStart(th)
  BY <1>5 DEF ReturnStart, TypeOK, LockInv, LaunchInv, ReturnedInv, LocalInv, OwedInv, WaitInv
<1>6. QED  BY <1>1, <1>2, <1>3, <1>4, <1>5 DEF StartStep

\* WaitForCacheSync keeps the invariant.
LEMMA WaitPreserves ==
  ASSUME IInv, NEW th \in Threads, WaitStep(th) \/ CallWaitForCacheSync(th)
  PROVE  IInv'
<1> USE FactoryAssumption DEF IInv
<1>1. CASE CallWaitForCacheSync(th)
  BY <1>1 DEF CallWaitForCacheSync, TypeOK, LockInv, LaunchInv, ReturnedInv, LocalInv, OwedInv, WaitInv
<1>2. CASE SnapshotStarted(th)
  BY <1>2 DEF SnapshotStarted, TypeOK, LockInv, LaunchInv, ReturnedInv, LocalInv, OwedInv, WaitInv
<1>3. ASSUME NEW t \in Types, WaitOne(th, t) PROVE IInv'
  <2> USE <1>3 DEF WaitOne, PollsTrue, PollsStopped
  <2>1. TypeOK'
    <3>1. PICK v \in {"synced", "notSynced"} : res' = [res EXCEPT ![th][t] = v]
      OBVIOUS
    <3>2. res' \in [Threads -> [Types -> {"absent", "synced", "notSynced"}]]
      BY <3>1 DEF TypeOK
    <3>3. QED  BY <3>2 DEF TypeOK
  <2>2. LockInv' /\ LaunchInv' /\ ReturnedInv'
    BY DEF LockInv, LaunchInv, ReturnedInv
  <2>3. LocalInv' /\ OwedInv'
    BY DEF TypeOK, LocalInv, OwedInv
  <2>4. WaitInv'
    BY DEF TypeOK, WaitInv
  <2>5. QED  BY <2>1, <2>2, <2>3, <2>4
<1>4. CASE ReturnWait(th)
  BY <1>4 DEF ReturnWait, TypeOK, LockInv, LaunchInv, ReturnedInv, LocalInv, OwedInv, WaitInv
<1>5. QED  BY <1>1, <1>2, <1>3, <1>4 DEF WaitStep

\* A sync and a stop keep the invariant.
LEMMA EnvironmentPreserves ==
  ASSUME IInv, CloseStop \/ \E t \in Types : InformerSyncs(t)
  PROVE  IInv'
<1> USE DEF CloseStop, InformerSyncs, IInv
<1>1. TypeOK' /\ WaitInv'
  BY DEF TypeOK, WaitInv
<1>2. LockInv' /\ LaunchInv' /\ ReturnedInv' /\ LocalInv' /\ OwedInv'
  BY DEF LockInv, LaunchInv, ReturnedInv, LocalInv, OwedInv
<1>3. QED  BY <1>1, <1>2

\* Every step keeps the invariant.
LEMMA NextIInv == IInv /\ [Next]_vars => IInv'
<1> SUFFICES ASSUME IInv, [Next]_vars PROVE IInv'
  OBVIOUS
<1>1. CASE UNCHANGED vars
  BY <1>1 DEF vars, IInv, TypeOK, LockInv, LaunchInv, ReturnedInv, LocalInv, OwedInv, WaitInv
<1>2. CASE Next
  BY <1>2, InformerForPreserves, StartPreserves, WaitPreserves, EnvironmentPreserves
  DEF Next, Call
<1>3. QED  BY <1>1, <1>2

\* The inductive invariant holds of every behaviour.
LEMMA SpecIInv == Spec => []IInv
BY InitIInv, NextIInv, PTL DEF Spec
-----------------------------------------------------------------------------
(* The theorems.                                                           *)

\* Whatever the goroutines do, every variable keeps its type.
THEOREM TypeCorrect == Spec => []TypeOK
BY SpecIInv, PTL DEF IInv

\* No interleaving of any number of Start calls runs an informer twice.
THEOREM InformersRunOnce == Spec => []LaunchedOnce
<1>1. IInv => LaunchedOnce
  BY DEF IInv, TypeOK, LaunchInv, LaunchedOnce
<1>2. QED  BY <1>1, SpecIInv, PTL

\* All callers of InformerFor share one informer per type.
THEOREM InformersAreShared == Spec => []SharedInformer
<1>1. IInv => SharedInformer
  BY DEF IInv, ReturnedInv, SharedInformer
<1>2. QED  BY <1>1, SpecIInv, PTL

\* WaitForCacheSync waits only for informers that run, and reports a cache as
\* not synced only after stopCh was closed.
THEOREM WaitsAreBounded == Spec => []WaitsForLaunched
<1>1. IInv => WaitsForLaunched
  BY DEF IInv, TypeOK, LaunchInv, WaitInv, WaitsForLaunched
<1>2. QED  BY <1>1, SpecIInv, PTL

\* A Start call leaves nothing behind that was registered before it.
THEOREM StartIsComplete == Spec => StartCoversRegistered
<1> DEFINE Covers ==
      \A th \in Threads :
        (pc[th] = "startRange" /\ pc'[th] = "idle") => owed[th] \subseteq startedInformers
<1>1. ASSUME IInv, [Next]_vars, NEW th \in Threads,
             pc[th] = "startRange", pc'[th] = "idle"
      PROVE  owed[th] \subseteq startedInformers
  <2>1. ReturnStart(th)
    BY <1>1, SMTT(30) DEF IInv, TypeOK, vars, Next, Call, StartStep, InformerForStep, WaitStep,
       CallStart, CallWaitForCacheSync, CallInformerFor, LockStart, VisitInformer,
       RunInformer, ReturnStart, LockInformerFor, LookupInformer, NewInformer,
       SnapshotStarted, WaitOne, ReturnWait, InformerSyncs, CloseStop
  <2>2. QED  BY <1>1, <2>1 DEF IInv, OwedInv, ReturnStart
<1>2. IInv /\ [Next]_vars => [Covers]_vars
  BY <1>1
<1>3. QED  BY <1>2, SpecIInv, PTL DEF Spec, StartCoversRegistered
\* Every behaviour of the factory, lock and loops included, is one of the
\* registry: informers appear on request and are launched once, after it.
THEOREM FactoryImplementsRegistry == Spec => RegistrySpec
<1>1. Init => Registry!Init
  BY DEF Init, Registry!Init
<1>2. IInv /\ [Next]_vars => [Registry!Next]_(Registry!registryVars)
  <2> SUFFICES ASSUME IInv, [Next]_vars
               PROVE  Registry!Next \/ UNCHANGED Registry!registryVars
    OBVIOUS
  <2> USE DEF Registry!registryVars
  <2>1. ASSUME NEW th \in Threads, NewInformer(th) PROVE Registry!Next
    <3>1. typ[th] \in Types /\ created + 1 # 0
      BY <2>1 DEF NewInformer, IInv, TypeOK, LocalInv
    <3>2. registered' = registered \cup {typ[th]} /\ UNCHANGED launches
      BY <2>1, <3>1 DEF NewInformer, IInv, TypeOK
    <3>3. QED  BY <3>1, <3>2 DEF Registry!Next, Registry!Request
  <2>2. ASSUME NEW th \in Threads, RunInformer(th) PROVE Registry!Next
    <3>1. typ[th] \in Types /\ launches[typ[th]] = 0 /\ informers[typ[th]] # 0
      BY <2>2 DEF RunInformer, IInv, TypeOK, LocalInv, LaunchInv
    <3>2. Registry!Launch(typ[th])
      BY <2>2, <3>1 DEF RunInformer, IInv, TypeOK, Registry!Launch
    <3>3. QED  BY <3>1, <3>2 DEF Registry!Next
  <2>3. CASE \E th \in Threads : Call(th) \/ WaitStep(th)
    BY <2>3 DEF Call, WaitStep, CallStart, CallWaitForCacheSync, CallInformerFor,
       SnapshotStarted, WaitOne, ReturnWait
  <2>4. CASE \E th \in Threads :
          \/ LockStart(th) \/ ReturnStart(th) \/ \E t \in Types : VisitInformer(th, t)
          \/ LockInformerFor(th) \/ LookupInformer(th)
    BY <2>4 DEF LockStart, ReturnStart, VisitInformer, LockInformerFor, LookupInformer
  <2>5. CASE CloseStop \/ \E t \in Types : InformerSyncs(t)
    BY <2>5 DEF CloseStop, InformerSyncs
  <2>6. CASE UNCHANGED vars
    BY <2>6 DEF vars
  <2>7. QED  BY <2>1, <2>2, <2>3, <2>4, <2>5, <2>6 DEF Next, StartStep, InformerForStep
<1>3. QED  BY <1>1, <1>2, SpecIInv, PTL DEF Spec, RegistrySpec, Registry!Spec
-----------------------------------------------------------------------------
(* Why calls return: the part of CallsReturn and StopEndsWaits that needs  *)
(* no fairness.  Whoever holds the lock has a bounded number of steps to   *)
(* do, which depends on nobody else, and whoever waits for a cache does    *)
(* not hold it.                                                            *)

Busy == Critical \cup {"waitEach"}

\* The steps a goroutine does at most until it leaves its critical section, or
\* its wait; two for each informer its loop has still to visit.
Ahead(l) ==
  CASE l \in {"forLookup", "startRun"} -> 2
    [] l \in {"forNew", "startRange", "waitEach"} -> 1 [] OTHER -> 0
LoopSteps(th) ==
  IF pc[th] \in {"startRange", "startRun", "waitEach"} THEN 2 * Cardinality(todo[th]) ELSE 0
StepsLeft(th) == Ahead(pc[th]) + LoopSteps(th)

\* A goroutine that is busy comes nearer to its end with each of its steps, and
\* is never set back, although other goroutines register informers meanwhile.
LoopsEnd ==
  [][\A th \in Threads : pc[th] \in Busy =>
       /\ StepsLeft(th)' <= StepsLeft(th)
       /\ (StartStep(th) \/ InformerForStep(th) \/ WaitStep(th)) => StepsLeft(th)' < StepsLeft(th)]_vars

\* A held lock has a goroutine that is about to give it back after finitely
\* many steps, and that does not wait for a cache.
LockIsGivenBack ==
  /\ lock # None => lock \in Threads /\ pc[lock] \in Critical
  /\ \A th \in Threads : pc[th] \in Busy => StepsLeft(th) \in Nat \ {0}
  /\ \A th \in Threads : pc[th] = "waitEach" => lock # th

\* Every type was registered by a call, so that there are finitely many.
FiniteInv == IsFiniteSet(registered) /\ \A th \in Threads : IsFiniteSet(todo[th])

\* The step of a goroutine that is busy, by what it does to its label and to
\* the keys its loop has still to visit.
BusyStep(th) ==
  \/ pc[th] = "forLookup" /\ pc'[th] \in {"forNew", "idle"} /\ UNCHANGED todo
  \/ pc[th] = "forNew" /\ pc'[th] = "idle" /\ UNCHANGED todo
  \/ /\ pc[th] \in {"startRange", "waitEach"}
     /\ pc'[th] = pc[th] \/ (pc[th] = "startRange" /\ pc'[th] = "startRun")
     /\ \E t \in todo[th] : todo' = [todo EXCEPT ![th] = @ \ {t}]
  \/ pc[th] = "startRun" /\ pc'[th] = "startRange" /\ UNCHANGED todo
  \/ pc[th] \in {"startRange", "waitEach"} /\ pc'[th] = "idle" /\ UNCHANGED todo

Steps(th) == StartStep(th) \/ InformerForStep(th) \/ WaitStep(th)

\* A step of a goroutine that is inside a call goes on along its loop or leaves it.
LEMMA BusySteps ==
  ASSUME IInv, NEW th \in Threads, pc[th] \in Busy, Steps(th)
  PROVE  BusyStep(th)
<1> USE DEF BusyStep, Busy, Steps, IInv, TypeOK
<1>1. CASE StartStep(th)
  <2>1. ASSUME NEW t \in Types, VisitInformer(th, t)
        PROVE  BusyStep(th)
    BY <2>1 DEF VisitInformer
  <2>2. CASE LockStart(th)
    BY <2>2 DEF LockStart
  <2>3. CASE RunInformer(th)
    BY <2>3 DEF RunInformer
  <2>4. CASE ReturnStart(th)
    BY <2>4 DEF ReturnStart
  <2> QED
    BY <1>1, <2>1, <2>2, <2>3, <2>4 DEF StartStep
<1>2. CASE InformerForStep(th)
  BY <1>2 DEF InformerForStep, LockInformerFor, LookupInformer, NewInformer
<1>3. CASE WaitStep(th)
  BY <1>3 DEF WaitStep, SnapshotStarted, WaitOne, ReturnWait
<1> QED
  BY <1>1, <1>2, <1>3

\* What any step does to a goroutine that is busy and does not take it.
LEMMA OthersLeaveBusy ==
  ASSUME IInv, [Next]_vars, NEW th \in Threads, pc[th] \in Busy, ~Steps(th)
  PROVE  pc'[th] = pc[th] /\ todo'[th] = todo[th]
<1> USE DEF Busy, IInv, TypeOK
<1>1. ASSUME NEW u \in Threads, u # th, Steps(u)
      PROVE  pc'[th] = pc[th] /\ todo'[th] = todo[th]
  BY <1>1 DEF Steps, StartStep, InformerForStep, WaitStep, LockStart, VisitInformer, RunInformer,
     ReturnStart, LockInformerFor, LookupInformer, NewInformer, SnapshotStarted, WaitOne, ReturnWait
<1>2. ASSUME NEW u \in Threads, Call(u)
      PROVE  pc'[th] = pc[th] /\ todo'[th] = todo[th]
  BY <1>2 DEF Call, CallStart, CallWaitForCacheSync, CallInformerFor
<1>3. CASE CloseStop \/ UNCHANGED vars \/ \E t \in Types : InformerSyncs(t)
  BY <1>3 DEF CloseStop, vars, InformerSyncs
<1> QED
  BY <1>1, <1>2, <1>3 DEF Next, Steps

\* Only finitely many types are registered, or still to be visited, at any time.
LEMMA FiniteAlways == Spec => []FiniteInv
<1>1. Init => FiniteInv
  BY FS_EmptySet DEF Init, FiniteInv
<1>2. ASSUME IInv, FiniteInv, [Next]_vars
      PROVE  FiniteInv'
  <2> USE DEF IInv, TypeOK
  <2>1. IsFiniteSet(registered')
    <3>1. ASSUME NEW th \in Threads, NewInformer(th)
          PROVE  IsFiniteSet(registered')
      <4>1. registered' = registered \cup {typ[th]}
        BY <1>2, <3>1 DEF NewInformer, LocalInv
      <4>2. IsFiniteSet(registered)
        BY <1>2 DEF FiniteInv
      <4> HIDE DEF registered
      <4> QED
        BY <4>1, <4>2, FS_AddElement
    <3>2. CASE \A th \in Threads : ~NewInformer(th)
      <4>1. informers' = informers
        BY <1>2, <3>2 DEF vars, Next, Call, StartStep, InformerForStep, WaitStep, CallStart,
           CallWaitForCacheSync, CallInformerFor, LockStart, VisitInformer, RunInformer, ReturnStart,
           LockInformerFor, LookupInformer, SnapshotStarted, WaitOne, ReturnWait, InformerSyncs,
           CloseStop
      <4> QED
        BY <1>2, <4>1 DEF FiniteInv
    <3> QED
      BY <3>1, <3>2
  <2>2. ASSUME NEW th \in Threads
        PROVE  IsFiniteSet(todo'[th])
    <3>1. IsFiniteSet(registered) /\ IsFiniteSet(todo[th])
      BY <1>2 DEF FiniteInv
    <3>2. \/ todo'[th] = todo[th] \/ todo'[th] \subseteq registered
          \/ \E t \in Types : todo'[th] = todo[th] \ {t}
      <4>1. ASSUME NEW u \in Threads, StartStep(u) \/ WaitStep(u)
            PROVE  \/ todo'[th] = todo[th] \/ todo'[th] \subseteq registered
                   \/ \E t \in Types : todo'[th] = todo[th] \ {t}
        <5>1. \/ todo' = todo
              \/ \E S \in SUBSET registered : todo' = [todo EXCEPT ![u] = S]
              \/ \E t \in Types : todo' = [todo EXCEPT ![u] = @ \ {t}]
          <6>1. ASSUME LockStart(u) \/ SnapshotStarted(u)
                PROVE  \E S \in SUBSET registered : todo' = [todo EXCEPT ![u] = S]
            <7> HIDE DEF registered
            <7> QED
              BY <6>1 DEF LockStart, SnapshotStarted
          <6>2. ASSUME NEW t \in Types, VisitInformer(u, t) \/ WaitOne(u, t)
                PROVE  todo' = [todo EXCEPT ![u] = @ \ {t}]
            BY <6>2 DEF VisitInformer, WaitOne
          <6>3. CASE RunInformer(u) \/ ReturnStart(u) \/ ReturnWait(u)
            BY <6>3 DEF RunInformer, ReturnStart, ReturnWait
          <6> QED
            BY <4>1, <6>1, <6>2, <6>3 DEF StartStep, WaitStep
        <5> HIDE DEF registered
        <5> QED
          BY <1>2, <5>1
      <4>2. CASE \A u \in Threads : ~(StartStep(u) \/ WaitStep(u))
        BY <1>2, <4>2 DEF vars, Next, Call, InformerForStep, CallStart, CallWaitForCacheSync,
           CallInformerFor, LockInformerFor, LookupInformer, NewInformer, InformerSyncs, CloseStop
      <4> QED
        BY <4>1, <4>2
    <3> QED
      BY <3>1, <3>2, FS_Subset, FS_RemoveElement
  <2> QED
    BY <2>1, <2>2 DEF FiniteInv
<1> QED
  BY <1>1, <1>2, SpecIInv, PTL DEF Spec

\* The number of steps left is a number, and none are left only outside a call.
LEMMA StepsLeftType ==
  ASSUME FiniteInv, NEW th \in Threads
  PROVE  StepsLeft(th) \in Nat /\ (pc[th] \in Busy => StepsLeft(th) # 0)
<1>1. LoopSteps(th) \in Nat
  BY FS_CardinalityType DEF FiniteInv, LoopSteps
<1> QED
  BY <1>1 DEF StepsLeft, Ahead, Busy

\* Each step inside a call leaves fewer.
LEMMA BusyStepShrinks ==
  ASSUME IInv, FiniteInv, NEW th \in Threads, BusyStep(th)
  PROVE  StepsLeft(th)' < StepsLeft(th) /\ StepsLeft(th)' <= StepsLeft(th)
<1> DEFINE n == Cardinality(todo[th])
           k == Cardinality(todo'[th])
<1>1. n \in Nat
  BY FS_CardinalityType DEF FiniteInv
<1>2. ASSUME NEW t \in todo[th], todo' = [todo EXCEPT ![th] = @ \ {t}]
      PROVE  k = n - 1
  <2>1. todo'[th] = todo[th] \ {t}
    BY <1>2 DEF IInv, TypeOK
  <2> QED
    BY <1>2, <2>1, FS_RemoveElement DEF FiniteInv
<1> HIDE DEF n, k
<1>3. \/ pc[th] = "forLookup" /\ pc'[th] \in {"forNew", "idle"}
      \/ pc[th] = "forNew" /\ pc'[th] = "idle"
      \/ /\ pc[th] \in {"startRange", "waitEach"} /\ k = n - 1
         /\ pc'[th] = pc[th] \/ (pc[th] = "startRange" /\ pc'[th] = "startRun")
      \/ pc[th] = "startRun" /\ pc'[th] = "startRange" /\ k = n
      \/ pc[th] \in {"startRange", "waitEach"} /\ pc'[th] = "idle"
  BY <1>2 DEF BusyStep, n, k
<1>4. /\ StepsLeft(th) = Ahead(pc[th]) + (IF pc[th] \in {"startRange", "startRun", "waitEach"} THEN 2 * n ELSE 0)
      /\ StepsLeft(th)' = Ahead(pc'[th]) + (IF pc'[th] \in {"startRange", "startRun", "waitEach"} THEN 2 * k ELSE 0)
  BY DEF StepsLeft, LoopSteps, n, k
<1>5. CASE pc[th] \in {"forLookup", "forNew"}
  BY <1>3, <1>4, <1>5 DEF Ahead
<1>6. CASE pc[th] \in {"startRange", "waitEach"} /\ pc'[th] # "idle"
  <2>1. k \in Int /\ 2 * k = 2 * n - 2
    BY <1>1, <1>3, <1>6
  <2> QED
    BY <1>1, <1>3, <1>4, <1>6, <2>1 DEF Ahead
<1>7. CASE pc[th] \in {"startRange", "waitEach"} /\ pc'[th] = "idle"
  BY <1>1, <1>4, <1>7 DEF Ahead
<1>8. CASE pc[th] = "startRun"
  BY <1>1, <1>3, <1>4, <1>8 DEF Ahead
<1> QED
  BY <1>3, <1>5, <1>6, <1>7, <1>8

\* Each loop of the factory ends: a goroutine that is busy gets nearer to
\* giving back the lock, or to the end of its wait, with every step it takes.
THEOREM LoopsComeToAnEnd == Spec => LoopsEnd
<1> DEFINE Ends ==
      \A th \in Threads : pc[th] \in Busy =>
        /\ StepsLeft(th)' <= StepsLeft(th)
        /\ (StartStep(th) \/ InformerForStep(th) \/ WaitStep(th)) => StepsLeft(th)' < StepsLeft(th)
<1>1. ASSUME IInv, FiniteInv, [Next]_vars, NEW th \in Threads, pc[th] \in Busy
      PROVE  /\ StepsLeft(th)' <= StepsLeft(th)
             /\ Steps(th) => StepsLeft(th)' < StepsLeft(th)
  <2>1. CASE Steps(th)
    BY <1>1, <2>1, BusySteps, BusyStepShrinks
  <2>2. CASE ~Steps(th)
    <3>1. pc'[th] = pc[th] /\ todo'[th] = todo[th]
      BY <1>1, <2>2, OthersLeaveBusy
    <3>2. StepsLeft(th)' = StepsLeft(th) /\ StepsLeft(th) \in Nat
      BY <1>1, <3>1, StepsLeftType DEF StepsLeft, LoopSteps
    <3> QED
      BY <2>2, <3>2
  <2> QED
    BY <2>1, <2>2
<1>2. IInv /\ FiniteInv /\ [Next]_vars => [Ends]_vars
  BY <1>1 DEF Steps
<1> QED
  BY <1>2, SpecIInv, FiniteAlways, PTL DEF Spec, LoopsEnd

\* The lock is held only by a goroutine with finitely many steps to do, and
\* never while waiting for a cache.
THEOREM LocksAreGivenBack == Spec => []LockIsGivenBack
<1>1. IInv /\ FiniteInv => LockIsGivenBack
  BY StepsLeftType, FactoryAssumption DEF IInv, TypeOK, LockInv, LockIsGivenBack
<1> QED
  BY <1>1, SpecIInv, FiniteAlways, PTL
=============================================================================
