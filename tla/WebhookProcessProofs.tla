-------------------------- MODULE WebhookProcessProofs --------------------------
(***************************************************************************)
(* Proofs about WebhookProcess: for every set of command lines and every   *)
(* number of signals, what may be true at each point of the start-up.      *)
(*                                                                         *)
(* The inductive invariant ties every goroutine's state to the program     *)
(* counter of main: what main has already loaded, requested and spawned.   *)
(***************************************************************************)
EXTENDS WebhookProcess, TLAPS

Running == {"ticker", "select", "again"}
AfterSync == {"serve"} \cup Running
AfterStart == {"waitSync"} \cup AfterSync
AfterRegister == {"start"} \cup AfterStart
AfterLoad == {"register"} \cup AfterRegister

\* What NewWebhook has read when main is at a given point.
LoadInv ==
  /\ main \in {"flags", "signals", "clients", "config"} => loaded = {}
  /\ main = "secret" => loaded = {"config"}
  /\ main = "cert" => loaded = {"config", "secret"}
  /\ main \in AfterLoad => loaded = Resources

\* The signal goroutine: stop is closed by the first signal it receives, and
\* it receives a second one only to end the process.
SignalInv ==
  /\ sig = "none" <=> main \in {"flags", "signals"}
  /\ sig = "second" <=> stopClosed
  /\ sig # "second" => caught = 0
  /\ sig = "second" /\ status # "exit1" => caught = 1
  /\ sig = "none" => chan = 0

\* Who requested, launched and filled the VaultMap cache.
InformerInv ==
  /\ main \in AfterRegister => VaultMaps \in registered
  /\ starter # "none" <=> main \in AfterStart
  /\ starter = "done" <=> launches[VaultMaps] = 1
  /\ synced => starter = "done"
  /\ main \in AfterSync => synced

\* The server and the ticker exist only once main got that far.
ServerInv ==
  /\ server # "none" => main \in Running
  /\ server = "none" => main \notin Running
  /\ server = "closed" => status = "panic"
  /\ ticker => HealthChecked
  /\ healthWritten \/ tick => ticker
  /\ ticker => main \in {"select", "again"}

EndInv ==
  /\ status = "exit1" => caught = 2 /\ stopClosed
  /\ status = "killed" => sig = "none"
  /\ status = "usage" => main = "flags"
  /\ status = "fatal" => server = "none"
  /\ status = "panic" => server = "closed" /\ cmdline.interval < 0 /\ main = "ticker"

IInv == TypeOK /\ LoadInv /\ SignalInv /\ InformerInv /\ ServerInv /\ EndInv

USE DEF Running, AfterSync, AfterStart, AfterRegister, AfterLoad, Resources,
        MainLabels, Ends, Up, At, Continue, Exit, HealthChecked,
        informerVars, signalVars, serverVars
-----------------------------------------------------------------------------
\* The invariant holds when the process starts.
LEMMA InitIInv == Init => IInv
<1> SUFFICES ASSUME Init PROVE IInv
  OBVIOUS
<1> USE DEF Init, Factory!Init
<1>1. TypeOK
  <2>1. MaxSignals \in Nat
    BY ProcessAssumption
  <2>2. launches \in [{VaultMaps} -> 0..1]
    OBVIOUS
  <2>3. /\ status \in {"up"} \cup Ends /\ main \in MainLabels
        /\ loaded \subseteq Resources /\ registered \subseteq {VaultMaps}
        /\ sent \in 0..MaxSignals /\ chan \in 0..2 /\ caught \in 0..2
    BY <2>1
  <2>4. /\ sig \in {"none", "first", "second"} /\ starter \in {"none", "spawned", "done"}
        /\ server \in {"none", "spawned", "listening", "failed", "closed"}
        /\ stopClosed \in BOOLEAN /\ synced \in BOOLEAN
        /\ ticker \in BOOLEAN /\ tick \in BOOLEAN /\ healthWritten \in BOOLEAN
    BY Zenon
  <2>5. QED  BY <2>2, <2>3, <2>4, Zenon DEF TypeOK, Init
<1>2. LoadInv /\ SignalInv
  BY DEF LoadInv, SignalInv
<1>3. InformerInv /\ ServerInv /\ EndInv
  BY DEF InformerInv, ServerInv, EndInv
<1>4. QED  BY <1>1, <1>2, <1>3 DEF IInv

\* From the start of main to NewWebhook's last read.
LEMMA StartUpPreserves ==
  ASSUME IInv,
         \/ ParseFlags \/ SetupSignalHandler \/ BuildClients
         \/ GetInitializerConfig \/ GetInitializerSecret \/ LoadX509KeyPair
  PROVE  IInv'
<1> USE DEF ParseFlags, SetupSignalHandler, BuildClients, NewForConfig, GetInitializerConfig,
            GetInitializerSecret, LoadX509KeyPair, Load, IInv
<1>1. TypeOK'
  <2>1. CASE ParseFlags
    BY <2>1 DEF TypeOK
  <2>2. CASE SetupSignalHandler
    BY <2>2 DEF TypeOK
  <2>3. CASE BuildClients
    BY <2>3 DEF TypeOK
  <2>4. CASE GetInitializerConfig
    <3>1. loaded' \subseteq Resources
      BY <2>4 DEF TypeOK
    <3>2. QED  BY <2>4, <3>1, SMTT(20) DEF TypeOK
  <2>5. CASE GetInitializerSecret
    <3>1. loaded' \subseteq Resources
      BY <2>5 DEF TypeOK
    <3>2. QED  BY <2>5, <3>1, SMTT(20) DEF TypeOK
  <2>6. CASE LoadX509KeyPair
    <3>1. loaded' \subseteq Resources
      BY <2>6 DEF TypeOK
    <3>2. QED  BY <2>6, <3>1, SMTT(20) DEF TypeOK
  <2>7. QED  BY <2>1, <2>2, <2>3, <2>4, <2>5, <2>6
<1>2. LoadInv'
  BY DEF LoadInv
<1>3. SignalInv'
  BY DEF SignalInv, EndInv
<1>4. InformerInv'
  BY DEF InformerInv
<1>5. ServerInv'
  BY DEF ServerInv
<1>6. EndInv'
  BY DEF EndInv, ServerInv
<1>7. QED  BY <1>1, <1>2, <1>3, <1>4, <1>5, <1>6

\* The informer is requested, started and waited for.
LEMMA InformerPreserves ==
  ASSUME IInv,
         RequestInformer \/ GoStart \/ StartInformers \/ InformerSyncs \/ WaitForCacheSync
  PROVE  IInv'
<1> USE DEF RequestInformer, GoStart, StartInformers, InformerSyncs, WaitForCacheSync,
            GiveUp, Factory!Request, Factory!Launch, IInv
<1>1. TypeOK'
  <2>1. CASE RequestInformer
    BY <2>1 DEF TypeOK
  <2>2. CASE GoStart
    BY <2>2 DEF TypeOK
  <2>3. CASE StartInformers
    BY <2>3 DEF TypeOK
  <2>4. CASE InformerSyncs
    BY <2>4 DEF TypeOK
  <2>5. CASE WaitForCacheSync
    BY <2>5 DEF TypeOK
  <2>6. QED  BY <2>1, <2>2, <2>3, <2>4, <2>5
<1>2. LoadInv'
  BY DEF LoadInv
<1>3. SignalInv'
  BY DEF SignalInv, EndInv
<1>4. InformerInv'
  BY DEF InformerInv, TypeOK
<1>5. ServerInv'
  BY DEF ServerInv
<1>6. EndInv'
  BY DEF EndInv, ServerInv
<1>7. QED  BY <1>1, <1>2, <1>3, <1>4, <1>5, <1>6

\* Run, once the caches synced.
LEMMA RunPreserves ==
  ASSUME IInv,
         \/ GoServe \/ ListenAndServeTLS \/ StartTicker \/ Tick
         \/ SelectHealth \/ SelectStop \/ LoopAgain
  PROVE  IInv'
<1> USE DEF GoServe, ListenAndServeTLS, StartTicker, Tick, SelectHealth, SelectStop,
            LoopAgain, IInv
<1>1. TypeOK'
  <2>1. CASE GoServe
    BY <2>1 DEF TypeOK
  <2>2. CASE ListenAndServeTLS
    BY <2>2 DEF TypeOK
  <2>3. CASE StartTicker
    <3>1. ticker' \in BOOLEAN
      BY <2>3 DEF TypeOK
    <3>2. server' \in {"none", "spawned", "listening", "failed", "closed"}
      BY <2>3 DEF TypeOK
    <3>3. status' \in {"up"} \cup Ends /\ main' \in MainLabels
      BY <2>3 DEF TypeOK
    <3>4. QED  BY <2>3, <3>1, <3>2, <3>3, SMTT(20) DEF TypeOK
  <2>4. CASE Tick
    BY <2>4 DEF TypeOK
  <2>5. CASE SelectHealth
    <3>1. healthWritten' \in BOOLEAN
      BY <2>5 DEF TypeOK
    <3>2. QED  BY <2>5, <3>1, ZenonT(40) DEF TypeOK
  <2>6. CASE SelectStop
    BY <2>6 DEF TypeOK
  <2>7. CASE LoopAgain
    BY <2>7 DEF TypeOK
  <2>8. QED  BY <2>1, <2>2, <2>3, <2>4, <2>5, <2>6, <2>7
<1>2. LoadInv'
  BY DEF LoadInv
<1>3. SignalInv'
  <2>1. CASE GoServe
    BY <2>1 DEF SignalInv, EndInv
  <2>2. CASE ListenAndServeTLS
    BY <2>2 DEF SignalInv, EndInv
  <2>3. CASE StartTicker
    BY <2>3 DEF SignalInv, EndInv
  <2>4. CASE Tick
    BY <2>4 DEF SignalInv, EndInv
  <2>5. CASE SelectHealth
    BY <2>5 DEF SignalInv, EndInv
  <2>6. CASE SelectStop
    BY <2>6 DEF SignalInv, EndInv
  <2>7. CASE LoopAgain
    BY <2>7 DEF SignalInv, EndInv
  <2>8. QED  BY <2>1, <2>2, <2>3, <2>4, <2>5, <2>6, <2>7
<1>4. InformerInv'
  <2>1. CASE GoServe
    BY <2>1 DEF InformerInv
  <2>2. CASE ListenAndServeTLS
    BY <2>2 DEF InformerInv
  <2>3. CASE StartTicker
    BY <2>3 DEF InformerInv
  <2>4. CASE Tick
    BY <2>4 DEF InformerInv
  <2>5. CASE SelectHealth
    BY <2>5 DEF InformerInv
  <2>6. CASE SelectStop
    BY <2>6 DEF InformerInv
  <2>7. CASE LoopAgain
    BY <2>7 DEF InformerInv
  <2>8. QED  BY <2>1, <2>2, <2>3, <2>4, <2>5, <2>6, <2>7
<1>5. ServerInv'
  <2>1. CASE GoServe
    BY <2>1 DEF ServerInv
  <2>2. CASE ListenAndServeTLS
    BY <2>2 DEF ServerInv
  <2>3. CASE StartTicker
    BY <2>3 DEF ServerInv
  <2>4. CASE Tick
    BY <2>4 DEF ServerInv
  <2>5. CASE SelectHealth
    BY <2>5 DEF ServerInv
  <2>6. CASE SelectStop
    BY <2>6 DEF ServerInv
  <2>7. CASE LoopAgain
    BY <2>7 DEF ServerInv
  <2>8. QED  BY <2>1, <2>2, <2>3, <2>4, <2>5, <2>6, <2>7
<1>6. EndInv'
  BY DEF EndInv, ServerInv
<1>7. QED  BY <1>1, <1>2, <1>3, <1>4, <1>5, <1>6

\* Signals and their goroutine keep the invariant.
LEMMA SignalsPreserve ==
  ASSUME IInv, DeliverSignal \/ SignalStep
  PROVE  IInv'
<1> USE ProcessAssumption
    DEF DeliverSignal, Queued, SignalStep, FirstSignal, SecondSignal, Receive, IInv
<1>1. TypeOK'
  <2>1. CASE DeliverSignal
    BY <2>1 DEF TypeOK, SignalInv
  <2>2. CASE FirstSignal
    BY <2>2 DEF TypeOK, SignalInv
  <2>3. CASE SecondSignal
    BY <2>3 DEF TypeOK, SignalInv
  <2>4. QED  BY <2>1, <2>2, <2>3
<1>2. SignalInv'
  BY DEF SignalInv, TypeOK
<1>3. LoadInv' /\ InformerInv'
  BY DEF LoadInv, InformerInv
<1>4. ServerInv'
  BY DEF ServerInv
<1>5. EndInv'
  BY DEF EndInv, SignalInv
<1>6. QED  BY <1>1, <1>2, <1>3, <1>4, <1>5

\* Every step keeps the invariant.
LEMMA NextIInv == IInv /\ [Next]_vars => IInv'
<1> SUFFICES ASSUME IInv, [Next]_vars PROVE IInv'
  OBVIOUS
<1>1. CASE UNCHANGED vars
  BY <1>1 DEF vars, IInv, TypeOK, LoadInv, SignalInv, InformerInv, ServerInv, EndInv
<1>2. CASE Next
  BY <1>2, StartUpPreserves, InformerPreserves, RunPreserves, SignalsPreserve
  DEF Next, MainStep
<1>3. QED  BY <1>1, <1>2

\* The inductive invariant holds of every behaviour.
LEMMA SpecIInv == Spec => []IInv
BY InitIInv, NextIInv, PTL DEF Spec
-----------------------------------------------------------------------------
\* The variables keep their types; the two signals the channel can hold are
\* never exceeded, however many the operator sends.
THEOREM TypeCorrect == Spec => []TypeOK
BY SpecIInv, PTL DEF IInv

\* No interleaving of main, the starter and the server serves unprepared.
THEOREM ServingIsPrepared == Spec => []ServesOnlyWhenReady
<1>1. IInv => ServesOnlyWhenReady
  BY DEF IInv, LoadInv, InformerInv, ServerInv, ServesOnlyWhenReady
<1>2. QED  BY <1>1, SpecIInv, PTL

\* Every way the process can end has the cause the code gives it.
THEOREM EndsHaveCauses == Spec => []EndsAsDocumented
<1>1. IInv => EndsAsDocumented
  BY DEF IInv, LoadInv, SignalInv, InformerInv, EndInv, EndsAsDocumented
<1>2. QED  BY <1>1, SpecIInv, PTL

\* The health file is written only by a process that synced and launched its server.
THEOREM HealthIsLate == Spec => []HealthAfterLaunch
<1>1. IInv => HealthAfterLaunch
  BY DEF IInv, InformerInv, ServerInv, HealthAfterLaunch
<1>2. QED  BY <1>1, SpecIInv, PTL

\* Start finds the informer that Run waits for.
THEOREM StartFindsInformer == Spec => []NothingLeftUnstarted
<1>1. IInv => NothingLeftUnstarted
  BY DEF IInv, InformerInv, NothingLeftUnstarted
<1>2. QED  BY <1>1, SpecIInv, PTL
-----------------------------------------------------------------------------
(* Why the process ends, and start-up comes to its end: the parts of        *)
(* TwoSignalsEnd, StopEndsStartUp and CacheWaitEnds that need no fairness.  *)

\* While the process is up no signal is lost that it needs: a second one waits in
\* the channel, whose two places are enough, for a goroutine that receives.
SecondSignalWaits == Up /\ sent >= 2 => chan > 0 /\ sig # "none"

\* Of the first two signals each is in the channel or was received.
SignalsCounted ==
  Up => /\ sent < 2 => caught + chan = sent
        /\ sent >= 2 => caught + chan >= 2

\* Run waits only for what comes by itself: the goroutine of Start is there, and
\* once it is through, the informer runs.
SyncIsUnderWay ==
  Up /\ main = "waitSync" => starter = "spawned" \/ launches[VaultMaps] = 1

\* How many labels of the start-up main has before it, the loop's being the last.
LabelsLeft(l) ==
  CASE l = "flags" -> 11 [] l = "signals" -> 10 [] l = "clients" -> 9
    [] l = "config" -> 8 [] l = "secret" -> 7 [] l = "cert" -> 6
    [] l = "register" -> 5 [] l = "start" -> 4 [] l = "waitSync" -> 3
    [] l = "serve" -> 2 [] l = "ticker" -> 1 [] OTHER -> 0

\* Each step of main before its loop brings it nearer to the loop or ends the
\* process; no other goroutine moves main; from the loop nothing leads back; a
\* closed stop is never opened again, a process that ended never goes on.
StartUpAdvances ==
  [][/\ MainStep /\ LabelsLeft(main) > 0 => ~Up' \/ LabelsLeft(main') < LabelsLeft(main)
     /\ ~MainStep => UNCHANGED main
     /\ LabelsLeft(main') <= LabelsLeft(main)
     /\ stopClosed => stopClosed'
     /\ Up]_vars

\* No step loses one of the first two signals.
LEMMA CountedStep ==
  ASSUME IInv, SignalsCounted, [Next]_vars
  PROVE  SignalsCounted'
<1>1. /\ sent \in Nat /\ caught \in 0..2 /\ chan \in 0..2 /\ MaxSignals \in Nat
      /\ sig = "none" => chan = 0
  BY ProcessAssumption DEF IInv, TypeOK, SignalInv
<1>2. CASE DeliverSignal
  <2>1. CASE sig = "none"
    BY <1>2, <2>1 DEF DeliverSignal, SignalsCounted
  <2>2. CASE sig # "none"
    BY <1>1, <1>2, <2>2 DEF DeliverSignal, Queued, SignalsCounted
  <2> QED  BY <2>1, <2>2
<1>3. CASE FirstSignal \/ SecondSignal
  BY <1>1, <1>3 DEF FirstSignal, SecondSignal, Receive, SignalsCounted
<1>4. ASSUME UNCHANGED <<sent, caught, chan>>, Up' => Up
      PROVE  SignalsCounted'
  BY <1>4 DEF SignalsCounted
<1>5. CASE MainStep
  BY <1>4, <1>5
  DEF MainStep, ParseFlags, SetupSignalHandler, BuildClients, NewForConfig, GetInitializerConfig,
      GetInitializerSecret, LoadX509KeyPair, Load, RequestInformer, GoStart, WaitForCacheSync,
      GiveUp, GoServe, StartTicker, SelectHealth, SelectStop, LoopAgain
<1>6. CASE StartInformers \/ InformerSyncs \/ ListenAndServeTLS \/ Tick \/ UNCHANGED vars
  BY <1>4, <1>6 DEF StartInformers, InformerSyncs, ListenAndServeTLS, Tick, vars
<1> QED
  BY <1>2, <1>3, <1>5, <1>6 DEF Next, SignalStep

\* The channel's two places are enough for the signals that end the process.
THEOREM SignalsAreKept == Spec => []SecondSignalWaits
<1>1. Init => SignalsCounted
  BY DEF Init, SignalsCounted
<1>2. IInv /\ SignalsCounted /\ [Next]_vars => SignalsCounted'
  BY CountedStep
<1>3. IInv /\ SignalsCounted => SecondSignalWaits
  <2>1. SUFFICES ASSUME IInv, SignalsCounted, Up, sent >= 2 PROVE chan > 0 /\ sig # "none"
    BY DEF SecondSignalWaits
  <2>2. /\ caught \in 0..1 /\ chan \in Nat
        /\ sig = "none" => chan = 0
    BY <2>1 DEF IInv, TypeOK, SignalInv
  <2>3. caught + chan >= 2
    BY <2>1 DEF SignalsCounted
  <2> QED  BY <2>2, <2>3
<1> QED  BY <1>1, <1>2, <1>3, SpecIInv, PTL DEF Spec

\* Nothing has to happen for the cache to fill but what Start set going.
THEOREM WaitIsForSomething == Spec => []SyncIsUnderWay
<1>1. IInv => SyncIsUnderWay
  BY DEF IInv, TypeOK, InformerInv, SyncIsUnderWay
<1>2. QED  BY <1>1, SpecIInv, PTL

\* The start-up never goes back, and what has ended has ended.
THEOREM MainGoesForward == Spec => StartUpAdvances
<1>1. ASSUME IInv, Next
      PROVE  /\ MainStep /\ LabelsLeft(main) > 0 => ~Up' \/ LabelsLeft(main') < LabelsLeft(main)
             /\ ~MainStep => UNCHANGED main
             /\ LabelsLeft(main') <= LabelsLeft(main)
             /\ stopClosed => stopClosed'
             /\ Up
  <2>1. CASE MainStep
    <3>1. main \in MainLabels /\ LabelsLeft(main) \in Nat
      BY <1>1 DEF IInv, TypeOK, LabelsLeft
    <3>2. CASE ParseFlags \/ SetupSignalHandler \/ BuildClients
      BY <2>1, <3>2 DEF ParseFlags, SetupSignalHandler, BuildClients, NewForConfig, LabelsLeft
    <3>3. CASE GetInitializerConfig \/ GetInitializerSecret \/ LoadX509KeyPair
      BY <2>1, <3>3 DEF GetInitializerConfig, GetInitializerSecret, LoadX509KeyPair, Load, LabelsLeft
    <3>4. CASE RequestInformer \/ GoStart
      BY <2>1, <3>4 DEF RequestInformer, GoStart, LabelsLeft
    <3>5. CASE WaitForCacheSync \/ GoServe \/ StartTicker
      BY <2>1, <3>5 DEF WaitForCacheSync, GiveUp, GoServe, StartTicker, LabelsLeft
    <3>6. CASE SelectHealth \/ SelectStop \/ LoopAgain
      <4>1. main \in {"select", "again"} /\ main' \in {"select", "again"} /\ UNCHANGED stopClosed /\ Up
        BY <3>6 DEF SelectHealth, SelectStop, LoopAgain
      <4>2. LabelsLeft(main) = 0 /\ LabelsLeft(main') = 0
        BY <4>1 DEF LabelsLeft
      <4> QED  BY <2>1, <4>1, <4>2
    <3> QED  BY <2>1, <3>2, <3>3, <3>4, <3>5, <3>6 DEF MainStep
  <2>2. CASE ~MainStep
    <3>1. UNCHANGED main /\ (stopClosed => stopClosed') /\ Up
      BY <1>1, <2>2 DEF Next, SignalStep, FirstSignal, SecondSignal, StartInformers, InformerSyncs,
                        ListenAndServeTLS, Tick, DeliverSignal
    <3>2. LabelsLeft(main) \in Nat
      BY DEF LabelsLeft
    <3> QED  BY <2>2, <3>1, <3>2
  <2> QED  BY <2>1, <2>2
<1>2. IInv /\ [Next]_vars =>
        [/\ MainStep /\ LabelsLeft(main) > 0 => ~Up' \/ LabelsLeft(main') < LabelsLeft(main)
         /\ ~MainStep => UNCHANGED main
         /\ LabelsLeft(main') <= LabelsLeft(main)
         /\ stopClosed => stopClosed'
         /\ Up]_vars
  BY <1>1
<1> QED  BY <1>2, SpecIInv, PTL DEF Spec, StartUpAdvances
-----------------------------------------------------------------------------
(* The process implements the endpoint.                                    *)
Gone == ~Up \/ server \in {"failed", "closed"}
EndpointState ==
  IF Gone THEN "gone" ELSE IF server = "listening" THEN "serving" ELSE "starting"
ReadyToServe == loaded = Resources /\ synced

\* A step that leaves the server and what it needs alone does nothing to the
\* endpoint, unless it ends the process.
LEMMA QuietStep ==
  ASSUME UNCHANGED <<loaded, synced, server>>, UNCHANGED status \/ (Up /\ ~Up')
  PROVE  Endpoint!Close \/ UNCHANGED Endpoint!endpointVars
BY DEF Endpoint!Close, Endpoint!endpointVars

\* Seen from outside, the process opens at most once, prepared, and never
\* comes back: every step is one of the endpoint's, or none.
THEOREM ProcessImplementsEndpoint == Spec => EndpointSpec
<1>1. Init => Endpoint!Init
  BY DEF Init, Endpoint!Init
<1>2. IInv /\ [Next]_vars => [Endpoint!Next]_(Endpoint!endpointVars)
  <2> SUFFICES ASSUME IInv, [Next]_vars
               PROVE  Endpoint!Next \/ UNCHANGED Endpoint!endpointVars
    OBVIOUS
  <2>1. CASE GetInitializerConfig \/ GetInitializerSecret \/ LoadX509KeyPair
    <3>1. server = "none" /\ UNCHANGED <<server, synced>>
      BY <2>1 DEF GetInitializerConfig, GetInitializerSecret, LoadX509KeyPair, Load,
         IInv, ServerInv
    <3>2. CASE status' # "up"
      BY <2>1, <3>1, <3>2, QuietStep DEF GetInitializerConfig, GetInitializerSecret,
         LoadX509KeyPair, Load, Endpoint!Next
    <3>3. CASE status' = "up"
      <4>1. loaded # Resources
        BY <2>1 DEF GetInitializerConfig, GetInitializerSecret, LoadX509KeyPair, Load,
           IInv, LoadInv
      <4>2. Up /\ UNCHANGED status
        BY <2>1, <3>3 DEF GetInitializerConfig, GetInitializerSecret, LoadX509KeyPair, Load
      <4>3. CASE ReadyToServe'
        BY <3>1, <4>1, <4>2, <4>3 DEF ReadyToServe, Endpoint!Next, Endpoint!Prepare
      <4>4. CASE ~ReadyToServe'
        BY <3>1, <4>1, <4>2, <4>4 DEF ReadyToServe, Endpoint!endpointVars
      <4>5. QED  BY <4>3, <4>4
    <3>4. QED  BY <3>2, <3>3
  <2>2. CASE InformerSyncs
    <3>1. CASE synced
      BY <2>2, <3>1 DEF InformerSyncs, IInv, TypeOK, Endpoint!endpointVars
    <3>2. CASE ~synced
      <4>1. server = "none"
        BY <3>2 DEF IInv, InformerInv, ServerInv
      <4>2. QED
        BY <2>2, <3>2, <4>1 DEF InformerSyncs, Endpoint!Next, Endpoint!Prepare,
           Endpoint!endpointVars
    <3>3. QED  BY <3>1, <3>2
  <2>3. CASE ListenAndServeTLS
    <3>1. loaded = Resources /\ synced
      BY <2>3 DEF ListenAndServeTLS, IInv, ServerInv, LoadInv, InformerInv
    <3>2. QED
      BY <2>3, <3>1 DEF ListenAndServeTLS, Endpoint!Next, Endpoint!Open, Endpoint!Close
  <2>4. CASE GoServe
    BY <2>4 DEF GoServe, IInv, ServerInv, Endpoint!endpointVars
  <2>5. CASE StartTicker
    <3>1. CASE status' = "up"
      BY <2>5, <3>1, QuietStep DEF StartTicker, Endpoint!Next
    <3>2. CASE status' # "up"
      BY <2>5, <3>2 DEF StartTicker, Endpoint!Next, Endpoint!Close, Endpoint!endpointVars
    <3>3. QED  BY <3>1, <3>2
  <2>6. CASE ParseFlags \/ SetupSignalHandler \/ BuildClients \/ RequestInformer \/ GoStart
             \/ WaitForCacheSync \/ StartInformers
    BY <2>6, QuietStep DEF ParseFlags, SetupSignalHandler, BuildClients, NewForConfig, RequestInformer,
       GoStart, WaitForCacheSync, GiveUp, StartInformers, Endpoint!Next
  <2>7. CASE SelectHealth \/ SelectStop \/ LoopAgain \/ Tick
    BY <2>7, QuietStep DEF SelectHealth, SelectStop, LoopAgain, Tick, Endpoint!Next
  <2>8. CASE DeliverSignal \/ FirstSignal \/ SecondSignal
    BY <2>8, QuietStep DEF DeliverSignal, FirstSignal, SecondSignal, Endpoint!Next
  <2>9. CASE UNCHANGED vars
    BY <2>9 DEF vars, Endpoint!endpointVars
  <2>10. QED
    BY <2>1, <2>2, <2>3, <2>4, <2>5, <2>6, <2>7, <2>8, <2>9 DEF Next, MainStep, SignalStep
<1>3. QED  BY <1>1, <1>2, SpecIInv, PTL DEF Spec, EndpointSpec, Endpoint!Spec
=============================================================================
