---------------------------- MODULE InformerFactory ----------------------------
(***************************************************************************)
(* The shared informer factory of pkg/client/informers/externalversions:   *)
(* any number of goroutines call InformerFor, Start and WaitForCacheSync   *)
(* concurrently.  Each step is a piece of code between two points where    *)
(* another goroutine may run; the mutex f.lock is modelled as it is used.  *)
(***************************************************************************)
EXTENDS Naturals

CONSTANTS
  Threads,               \* goroutines that call the factory
  Types,                 \* resource types
  None                   \* no goroutine / no type

ASSUME FactoryAssumption == None \notin Threads /\ None \notin Types

VARIABLES
  lock,                  \* holder of f.lock
  informers,             \* f.informers: the informer of a type, 0 = no entry
  startedInformers,      \* f.startedInformers
  launches,              \* how often "go informer.Run" ran for each type
  created,               \* informers made so far; the last one's identity
  synced,                \* types whose informer's HasSynced answers true
  stopped,               \* stopCh is closed
  pc, typ, todo,         \* per goroutine: where it is, its obj type, the
                         \*   keys its range loop has still to visit
  res,                   \* per goroutine: the map WaitForCacheSync builds
  owed,                  \* history: types registered when Start was called
  returned               \* history: informers InformerFor returned per type

factoryVars == <<informers, startedInformers, launches, created>>
localVars == <<pc, typ, todo, res>>
envVars == <<synced, stopped>>
vars == <<lock, factoryVars, envVars, localVars, owed, returned>>

Labels == {"idle", "forLock", "forLookup", "forNew",
           "startLock", "startRange", "startRun",
           "waitSnapshot", "waitEach"}
Critical == {"forLookup", "forNew", "startRange", "startRun"}

registered == {t \in Types : informers[t] # 0}
Goto(th, l) == pc' = [pc EXCEPT ![th] = l]

TypeOK ==
  /\ lock \in Threads \cup {None}
  /\ informers \in [Types -> Nat]
  /\ startedInformers \subseteq Types
  /\ launches \in [Types -> Nat]
  /\ created \in Nat
  /\ synced \subseteq Types
  /\ stopped \in BOOLEAN
  /\ pc \in [Threads -> Labels]
  /\ typ \in [Threads -> Types \cup {None}]
  /\ todo \in [Threads -> SUBSET Types]
  /\ res \in [Threads -> [Types -> {"absent", "synced", "notSynced"}]]
  /\ owed \in [Threads -> SUBSET Types]
  /\ returned \in [Types -> SUBSET Nat]

Init ==
  /\ lock = None
  /\ informers = [t \in Types |-> 0]
  /\ startedInformers = {}
  /\ launches = [t \in Types |-> 0]
  /\ created = 0
  /\ synced = {} /\ stopped = FALSE
  /\ pc = [th \in Threads |-> "idle"]
  /\ typ = [th \in Threads |-> None]
  /\ todo = [th \in Threads |-> {}]
  /\ res = [th \in Threads |-> [t \in Types |-> "absent"]]
  /\ owed = [th \in Threads |-> {}]
  /\ returned = [t \in Types |-> {}]
-----------------------------------------------------------------------------
(* f.lock.Lock() and the deferred f.lock.Unlock().                         *)
Acquire(th) == lock = None /\ lock' = th
Release(th) == lock = th /\ lock' = None
-----------------------------------------------------------------------------
(* InformerFor                                                             *)
CallInformerFor(th, t) ==
  /\ pc[th] = "idle"
  /\ typ' = [typ EXCEPT ![th] = t]
  /\ Goto(th, "forLock")
  /\ UNCHANGED <<lock, factoryVars, envVars, todo, res, owed, returned>>

LockInformerFor(th) ==
  /\ pc[th] = "forLock"
  /\ Acquire(th)
  /\ Goto(th, "forLookup")
  /\ UNCHANGED <<factoryVars, envVars, typ, todo, res, owed, returned>>

LookupNothing(th) ==
  /\ pc[th] = "forLookup"
  /\ Goto(th, "forNew")
  /\ UNCHANGED <<lock, factoryVars, envVars, typ, todo, res, owed, returned>>
\* informer, exists := f.informers[informerType]; if exists { return informer }
LookupInformer(th) ==
  /\ pc[th] = "forLookup"
  /\ IF informers[typ[th]] # 0
     THEN /\ Release(th)
          /\ Goto(th, "idle")
          /\ returned' = [returned EXCEPT ![typ[th]] = @ \cup {informers[typ[th]]}]
     ELSE Goto(th, "forNew") /\ UNCHANGED <<lock, returned>>
  /\ UNCHANGED <<factoryVars, envVars, typ, todo, res, owed>>

\* newFunc(f.client, f.defaultResync), kept in the map and returned.
StoreNil(th) ==
  /\ pc[th] = "forNew"
  /\ informers' = [informers EXCEPT ![typ[th]] = None]
  /\ Release(th)
  /\ Goto(th, "idle")
  /\ UNCHANGED <<startedInformers, launches, created, envVars, typ, todo, res,
                 owed, returned>>
NewInformer(th) ==
  /\ pc[th] = "forNew"
  /\ created' = created + 1
  /\ informers' = [informers EXCEPT ![typ[th]] = created + 1]
  /\ returned' = [returned EXCEPT ![typ[th]] = @ \cup {created + 1}]
  /\ Release(th)
  /\ Goto(th, "idle")
  /\ UNCHANGED <<startedInformers, launches, envVars, typ, todo, res, owed>>
-----------------------------------------------------------------------------
(* Start                                                                   *)
CallStart(th) ==
  /\ pc[th] = "idle"
  /\ owed' = [owed EXCEPT ![th] = registered]
  /\ Goto(th, "startLock")
  /\ UNCHANGED <<lock, factoryVars, envVars, typ, todo, res, returned>>

LockStart(th) ==
  /\ pc[th] = "startLock"
  /\ Acquire(th)
  /\ todo' = [todo EXCEPT ![th] = registered]
  /\ Goto(th, "startRange")
  /\ UNCHANGED <<factoryVars, envVars, typ, res, owed, returned>>

\* if !f.startedInformers[informerType], in the order Go's map range picks.
NotStarted(t) == t \notin startedInformers
VisitUnchecked(th, t) ==
  /\ pc[th] = "startRange"
  /\ t \in todo[th]
  /\ todo' = [todo EXCEPT ![th] = @ \ {t}]
  /\ typ' = [typ EXCEPT ![th] = t]
  /\ Goto(th, "startRun")
  /\ UNCHANGED <<lock, factoryVars, envVars, res, owed, returned>>
VisitInformer(th, t) ==
  /\ pc[th] = "startRange"
  /\ t \in todo[th]
  /\ todo' = [todo EXCEPT ![th] = @ \ {t}]
  /\ IF NotStarted(t)
     THEN Goto(th, "startRun") /\ typ' = [typ EXCEPT ![th] = t]
     ELSE UNCHANGED <<pc, typ>>
  /\ UNCHANGED <<lock, factoryVars, envVars, res, owed, returned>>

\* go informer.Run(stopCh); f.startedInformers[informerType] = true
RunInformer(th) ==
  /\ pc[th] = "startRun"
  /\ launches' = [launches EXCEPT ![typ[th]] = @ + 1]
  /\ startedInformers' = startedInformers \cup {typ[th]}
  /\ Goto(th, "startRange")
  /\ UNCHANGED <<lock, informers, created, envVars, typ, todo, res, owed, returned>>

ReturnStartEarly(th) ==
  /\ pc[th] = "startRange"
  /\ Release(th)
  /\ Goto(th, "idle")
  /\ UNCHANGED <<factoryVars, envVars, typ, todo, res, owed, returned>>
ReturnStart(th) ==
  /\ pc[th] = "startRange"
  /\ todo[th] = {}
  /\ Release(th)
  /\ Goto(th, "idle")
  /\ UNCHANGED <<factoryVars, envVars, typ, todo, res, owed, returned>>
-----------------------------------------------------------------------------
(* WaitForCacheSync                                                        *)
CallWaitForCacheSync(th) ==
  /\ pc[th] = "idle"
  /\ Goto(th, "waitSnapshot")
  /\ UNCHANGED <<lock, factoryVars, envVars, typ, todo, res, owed, returned>>

SnapshotHoldingLock(th) ==
  /\ pc[th] = "waitSnapshot"
  /\ Acquire(th)
  /\ todo' = [todo EXCEPT ![th] = registered \cap startedInformers]
  /\ res' = [res EXCEPT ![th] = [t \in Types |-> "absent"]]
  /\ Goto(th, "waitEach")
  /\ UNCHANGED <<factoryVars, envVars, typ, owed, returned>>
SnapshotEverything(th) ==
  /\ pc[th] = "waitSnapshot"
  /\ lock = None
  /\ todo' = [todo EXCEPT ![th] = registered]
  /\ res' = [res EXCEPT ![th] = [t \in Types |-> "absent"]]
  /\ Goto(th, "waitEach")
  /\ UNCHANGED <<lock, factoryVars, envVars, typ, owed, returned>>
\* The closure that copies the started informers: it only reads, so that
\* taking and releasing the lock is one step.
SnapshotStarted(th) ==
  /\ pc[th] = "waitSnapshot"
  /\ lock = None
  /\ todo' = [todo EXCEPT ![th] = registered \cap startedInformers]
  /\ res' = [res EXCEPT ![th] = [t \in Types |-> "absent"]]
  /\ Goto(th, "waitEach")
  /\ UNCHANGED <<lock, factoryVars, envVars, typ, owed, returned>>

\* cache.WaitForCacheSync polls HasSynced until it answers true, or until a
\* poll answers false after stopCh was closed.
PollsTrue(t) == t \in synced
NeverStops(t) == FALSE
PollsStopped(t) == t \notin synced /\ stopped
WaitOne(th, t) ==
  /\ pc[th] = "waitEach"
  /\ t \in todo[th]
  /\ \/ PollsTrue(t) /\ res' = [res EXCEPT ![th][t] = "synced"]
     \/ PollsStopped(t) /\ res' = [res EXCEPT ![th][t] = "notSynced"]
  /\ todo' = [todo EXCEPT ![th] = @ \ {t}]
  /\ UNCHANGED <<lock, factoryVars, envVars, pc, typ, owed, returned>>

ReturnWait(th) ==
  /\ pc[th] = "waitEach"
  /\ todo[th] = {}
  /\ Goto(th, "idle")
  /\ UNCHANGED <<lock, factoryVars, envVars, typ, todo, res, owed, returned>>
-----------------------------------------------------------------------------
(* The informers' own goroutines and the owner of stopCh.                  *)
InformerSyncs(t) ==
  /\ launches[t] > 0
  /\ synced' = synced \cup {t}
  /\ UNCHANGED <<lock, factoryVars, stopped, localVars, owed, returned>>

CloseStop ==
  /\ stopped' = TRUE
  /\ UNCHANGED <<lock, factoryVars, synced, localVars, owed, returned>>

StartStep(th) ==
  LockStart(th) \/ RunInformer(th) \/ ReturnStart(th)
    \/ \E t \in Types : VisitInformer(th, t)
InformerForStep(th) == LockInformerFor(th) \/ LookupInformer(th) \/ NewInformer(th)
WaitStep(th) ==
  SnapshotStarted(th) \/ ReturnWait(th) \/ \E t \in Types : WaitOne(th, t)
Call(th) ==
  CallStart(th) \/ CallWaitForCacheSync(th) \/ \E t \in Types : CallInformerFor(th, t)

Next ==
  \/ \E th \in Threads :
       Call(th) \/ StartStep(th) \/ InformerForStep(th) \/ WaitStep(th)
  \/ \E t \in Types : InformerSyncs(t)
  \/ CloseStop

Spec == Init /\ [][Next]_vars
\* The scheduler runs every goroutine, and sync.Mutex (starvation mode, Go 1.9)
\* hands the lock to every waiter.  Nobody is obliged to call the factory, and
\* neither the cluster nor the operator is obliged to do anything.
Fairness ==
  \A th \in Threads : /\ SF_vars(StartStep(th))
                      /\ SF_vars(InformerForStep(th))
                      /\ SF_vars(WaitStep(th))
FairSpec == Spec /\ Fairness
-----------------------------------------------------------------------------
(* Properties.                                                             *)

\* However many goroutines call Start, at most one "go informer.Run" happens
\* per type: what lets Start "be called multiple times safely"
\* (factory.go:43-45).
LaunchedOnce == \A t \in Types : launches[t] <= 1

\* Everyone who asks for a type gets one and the same informer, so that the
\* lister, HasSynced and the event handlers all refer to the cache that runs.
SharedInformer ==
  \A t \in Types : \A i, j \in returned[t] : i = j /\ i = informers[t]

\* When Start's loop ends, every type that was registered before Start was
\* called has been started, by this call or by another.
StartCoversRegistered ==
  [][\A th \in Threads :
       (pc[th] = "startRange" /\ pc'[th] = "idle") => owed[th] \subseteq startedInformers]_vars

\* WaitForCacheSync never waits for an informer that nobody launched, and
\* reports "not synced" only to a caller whose stop channel is closed.
WaitsForLaunched ==
  \A th \in Threads :
    /\ pc[th] = "waitEach" => \A t \in todo[th] : launches[t] = 1
    /\ \A t \in Types : /\ res[th][t] = "synced" => t \in synced
                        /\ res[th][t] = "notSynced" => stopped

\* A goroutine that calls Start or InformerFor gets out again, even while
\* others wait for a cache that never syncs.
CallsReturn ==
  \A th \in Threads :
    (pc[th] \in {"startLock", "startRange", "forLock", "forLookup"}) ~> (pc[th] = "idle")

\* Closing stopCh ends every wait, whether or not the caches synced.
StopEndsWaits ==
  \A th \in Threads : (stopped /\ pc[th] = "waitEach") ~> (pc[th] = "idle")

\* The factory implements the registry.
Registry == INSTANCE InformerRegistry
RegistrySpec == Registry!Spec
=============================================================================
