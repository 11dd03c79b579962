---------------------------- MODULE WebhookProcess ----------------------------
(***************************************************************************)
(* The vault-admission process: main (cmd/vault-admission/main.go), the    *)
(* signal goroutine (pkg/signals), NewWebhook and Run (pkg/webhook), the   *)
(* goroutine that starts the informers and the one that serves HTTPS.      *)
(* Each goroutine has a program counter; the operating system delivers     *)
(* signals and timer ticks, the cluster answers or fails API calls.        *)
(***************************************************************************)
EXTENDS Naturals, Integers

CONSTANTS
  CommandLines,          \* the command lines the process may be started with:
                         \*   [flags, interval (its sign), healthFile]
  MaxSignals,            \* bound on the signals the operator sends
  VaultMaps              \* the one resource type an informer is requested for

ASSUME ProcessAssumption ==
  /\ MaxSignals \in Nat
  /\ CommandLines \subseteq [flags : SUBSET STRING, interval : -1..1, healthFile : BOOLEAN]

VARIABLES
  cmdline,               \* the command line
  status,                \* "up", or how the process ended
  main,                  \* program counter of the main goroutine
  loaded,                \* what NewWebhook read: config, secret, cert
  sig, chan, stopClosed, \* signal goroutine, its buffered channel c, stop
  sent, caught,          \* history: signals delivered / received from c
  starter,               \* goroutine running mapInformerFactory.Start
  registered, launches,  \* the informer factory, see InformerRegistry
  synced,                \* mapsSynced() answers true
  server,                \* goroutine running ListenAndServeTLS
  ticker, tick,          \* the health ticker and its channel (capacity 1)
  healthWritten          \* the health check file was written

informerVars == <<starter, registered, launches, synced>>
signalVars == <<sig, chan, stopClosed, sent, caught>>
serverVars == <<server, ticker, tick, healthWritten>>
vars == <<cmdline, status, main, loaded, informerVars, signalVars, serverVars>>

Factory == INSTANCE InformerRegistry WITH Types <- {VaultMaps}

MainLabels == {"flags", "signals", "clients", "config", "secret", "cert",
               "register", "start", "waitSync", "serve", "ticker",
               "select", "again"}
Ends == {"usage", "fatal", "exit1", "panic", "killed"}
Resources == {"config", "secret", "cert"}

TypeOK ==
  /\ cmdline \in CommandLines
  /\ status \in {"up"} \cup Ends
  /\ main \in MainLabels
  /\ loaded \subseteq Resources
  /\ sig \in {"none", "first", "second"}
  /\ chan \in 0..2 /\ sent \in 0..MaxSignals /\ caught \in 0..2
  /\ stopClosed \in BOOLEAN
  /\ starter \in {"none", "spawned", "done"}
  /\ registered \subseteq {VaultMaps}
  /\ launches \in [{VaultMaps} -> 0..1]
  /\ synced \in BOOLEAN
  /\ server \in {"none", "spawned", "listening", "failed", "closed"}
  /\ ticker \in BOOLEAN /\ tick \in BOOLEAN /\ healthWritten \in BOOLEAN

Init ==
  /\ cmdline \in CommandLines
  /\ status = "up" /\ main = "flags"
  /\ loaded = {}
  /\ sig = "none" /\ chan = 0 /\ stopClosed = FALSE
  /\ sent = 0 /\ caught = 0
  /\ starter = "none" /\ synced = FALSE
  /\ Factory!Init
  /\ server = "none"
  /\ ticker = FALSE /\ tick = FALSE /\ healthWritten = FALSE

Up == status = "up"
At(l) == Up /\ main = l
Continue(l) == main' = l /\ UNCHANGED status
Exit(how) == status' = how /\ UNCHANGED main
-----------------------------------------------------------------------------
(* main: command line, signal handler, clients.                            *)

\* The flags main's init registers, and those glog registers for itself.
DefinedFlags ==
  {"webhookname", "namespace", "configmap", "secret", "kubeconfig", "master",
   "tlsCertFile", "tlsKeyFile", "port", "healthCheckInterval",
   "healthCheckFile", "webhookConfigName"}
GlogFlags == {"logtostderr", "alsologtostderr", "v", "stderrthreshold",
              "vmodule", "log_backtrace_at", "log_dir"}

\* flag.Parse ends the process on a flag nobody defined.
ParseFlags ==
  /\ At("flags")
  /\ IF cmdline.flags \subseteq DefinedFlags \cup GlogFlags
     THEN Continue("signals")
     ELSE Exit("usage")
  /\ UNCHANGED <<cmdline, loaded, informerVars, signalVars, serverVars>>

SetupSignalHandler ==
  /\ At("signals")
  /\ sig' = "first"
  /\ Continue("clients")
  /\ UNCHANGED <<cmdline, loaded, chan, stopClosed, sent, caught, informerVars, serverVars>>

\* The kubeconfig, the two clientsets and the clients inside: each is there or
\* is an error, which is glog.Fatal.
NewForConfig == Continue("config") \/ Exit("fatal")
BuildClients ==
  /\ At("clients")
  /\ NewForConfig
  /\ UNCHANGED <<cmdline, loaded, informerVars, signalVars, serverVars>>
-----------------------------------------------------------------------------
(* NewWebhook: each read either succeeds or ends the process.              *)
Load(what, next) ==
  /\ At(what)
  /\ \/ Continue(next) /\ loaded' = loaded \cup {what}
     \/ Exit("fatal") /\ UNCHANGED loaded
  /\ UNCHANGED <<cmdline, informerVars, signalVars, serverVars>>

LoadIgnoringError(what, next) ==
  /\ At(what)
  /\ Continue(next)
  /\ loaded' \in {loaded, loaded \cup {what}}
  /\ UNCHANGED <<cmdline, informerVars, signalVars, serverVars>>
SkipSecret == LoadIgnoringError("secret", "cert")
GetInitializerConfig == Load("config", "secret")
GetInitializerSecret == Load("secret", "cert")
LoadX509KeyPair == Load("cert", "register")

\* mapsInformer.Lister(), .Informer().HasSynced and .Informer().AddEventHandler
\* all ask the factory for the VaultMap informer.
RegisterLater ==
  /\ At("register")
  /\ Continue("start")
  /\ UNCHANGED <<cmdline, loaded, informerVars, signalVars, serverVars>>
RequestInformer ==
  /\ At("register")
  /\ Factory!Request(VaultMaps)
  /\ Continue("start")
  /\ UNCHANGED <<cmdline, loaded, starter, synced, signalVars, serverVars>>
-----------------------------------------------------------------------------
(* main starts the informers in a goroutine and calls Run.                 *)
GoStart ==
  /\ At("start")
  /\ starter' = "spawned"
  /\ Continue("waitSync")
  /\ UNCHANGED <<cmdline, loaded, registered, launches, synced, signalVars, serverVars>>

StartInformers ==
  /\ Up
  /\ starter = "spawned"
  /\ starter' = "done"
  /\ IF VaultMaps \in registered
     THEN Factory!Launch(VaultMaps)
     ELSE UNCHANGED <<registered, launches>>
  /\ UNCHANGED <<cmdline, status, main, loaded, synced, signalVars, serverVars>>

\* The informer's goroutine delivers its first list.
InformerSyncs ==
  /\ Up
  /\ launches[VaultMaps] = 1
  /\ synced' = TRUE
  /\ UNCHANGED <<cmdline, status, main, loaded, starter, registered, launches,
                 signalVars, serverVars>>

\* cache.WaitForCacheSync; Run returns its error to main's glog.Fatalf.
NeverStop == FALSE
GiveUp == stopClosed /\ ~synced /\ Exit("fatal")
NoWait ==
  /\ At("waitSync")
  /\ Continue("serve")
  /\ UNCHANGED <<cmdline, loaded, informerVars, signalVars, serverVars>>
WaitForCacheSync ==
  /\ At("waitSync")
  /\ (synced /\ Continue("serve")) \/ GiveUp
  /\ UNCHANGED <<cmdline, loaded, informerVars, signalVars, serverVars>>
-----------------------------------------------------------------------------
(* Run: server goroutine, health ticker, select loop.                      *)
GoServe ==
  /\ At("serve")
  /\ server' = "spawned"
  /\ Continue("ticker")
  /\ UNCHANGED <<cmdline, loaded, informerVars, signalVars, ticker, tick, healthWritten>>

\* An error, at once or later, is logged and ends this goroutine only.
ListenFatal ==
  /\ Up
  /\ server = "spawned"
  /\ \/ server' = "listening" /\ UNCHANGED status
     \/ server' = "failed" /\ status' = "fatal"
  /\ UNCHANGED <<cmdline, main, loaded, informerVars, signalVars, ticker, tick, healthWritten>>
ListenAndServeTLS ==
  /\ Up
  /\ \/ server = "spawned" /\ server' \in {"listening", "failed"}
     \/ server = "listening" /\ server' = "failed"
  /\ UNCHANGED <<cmdline, status, main, loaded, informerVars, signalVars,
                 ticker, tick, healthWritten>>

\* time.NewTicker panics on a negative interval; the deferred server.Close and
\* HandleCrash run, and HandleCrash panics again.
HealthChecked == cmdline.interval # 0 /\ cmdline.healthFile
StartTicker ==
  /\ At("ticker")
  /\ IF HealthChecked /\ cmdline.interval < 0
     THEN Exit("panic") /\ server' = "closed" /\ UNCHANGED ticker
     ELSE Continue("select") /\ ticker' = HealthChecked /\ UNCHANGED server
  /\ UNCHANGED <<cmdline, loaded, informerVars, signalVars, tick, healthWritten>>

\* The runtime drops a tick nobody has taken yet.
Tick ==
  /\ Up
  /\ ticker
  /\ tick' = TRUE
  /\ UNCHANGED <<cmdline, status, main, loaded, informerVars, signalVars,
                 server, ticker, healthWritten>>

\* case <-healthC: a failed write is logged.
SelectHealthUnlessStopped ==
  /\ At("select")
  /\ tick /\ ~stopClosed
  /\ tick' = FALSE
  /\ healthWritten' \in {healthWritten, TRUE}
  /\ Continue("again")
  /\ UNCHANGED <<cmdline, loaded, informerVars, signalVars, server, ticker>>
SelectHealth ==
  /\ At("select")
  /\ tick
  /\ tick' = FALSE
  /\ healthWritten' \in {healthWritten, TRUE}
  /\ Continue("again")
  /\ UNCHANGED <<cmdline, loaded, informerVars, signalVars, server, ticker>>

\* case <-stopCh: break leaves the select statement, not the for loop.
SelectStop ==
  /\ At("select")
  /\ stopClosed
  /\ Continue("again")
  /\ UNCHANGED <<cmdline, loaded, informerVars, signalVars, serverVars>>

\* The end of the loop body.  The loop has no condition: nothing after it runs.
LoopAgain ==
  /\ At("again")
  /\ Continue("select")
  /\ UNCHANGED <<cmdline, loaded, informerVars, signalVars, serverVars>>
-----------------------------------------------------------------------------
(* Signals.  Before signal.Notify one kills the process; after it, one is  *)
(* dropped when the channel's two places are taken.  Signals the operating *)
(* system or the runtime merges while pending count as one here.           *)
QueuedUnbounded == chan + 1
QueuedInOne == IF chan < 1 THEN chan + 1 ELSE chan
Queued == IF chan < 2 THEN chan + 1 ELSE chan
DeliverSignal ==
  /\ Up
  /\ sent < MaxSignals
  /\ sent' = sent + 1
  /\ IF sig = "none"
     THEN status' = "killed" /\ UNCHANGED chan
     ELSE chan' = Queued /\ UNCHANGED status
  /\ UNCHANGED <<cmdline, main, loaded, sig, stopClosed, caught, informerVars, serverVars>>

Receive == chan > 0 /\ chan' = chan - 1 /\ caught' = caught + 1

ExitOnFirst ==
  /\ Up
  /\ sig = "first"
  /\ Receive
  /\ stopClosed' = TRUE
  /\ sig' = "second"
  /\ status' = "exit1"
  /\ UNCHANGED <<cmdline, main, loaded, sent, informerVars, serverVars>>
FirstSignal ==
  /\ Up
  /\ sig = "first"
  /\ Receive
  /\ stopClosed' = TRUE
  /\ sig' = "second"
  /\ UNCHANGED <<cmdline, status, main, loaded, sent, informerVars, serverVars>>

SecondSignal ==
  /\ Up
  /\ sig = "second"
  /\ Receive
  /\ status' = "exit1"
  /\ UNCHANGED <<cmdline, main, loaded, sig, stopClosed, sent, informerVars, serverVars>>
-----------------------------------------------------------------------------
MainStep ==
  \/ ParseFlags \/ SetupSignalHandler \/ BuildClients
  \/ GetInitializerConfig \/ GetInitializerSecret \/ LoadX509KeyPair
  \/ RequestInformer \/ GoStart \/ WaitForCacheSync
  \/ GoServe \/ StartTicker \/ SelectHealth \/ SelectStop \/ LoopAgain
SignalStep == FirstSignal \/ SecondSignal
Next ==
  \/ MainStep \/ SignalStep
  \/ StartInformers \/ InformerSyncs \/ ListenAndServeTLS
  \/ Tick \/ DeliverSignal

Spec == Init /\ [][Next]_vars

\* The scheduler runs every goroutine; select picks among its ready cases at
\* random, so that a case that keeps being ready is taken in the end.
Fairness ==
  /\ WF_vars(MainStep) /\ SF_vars(SelectHealth)
  /\ WF_vars(SignalStep)
  /\ WF_vars(StartInformers)
  /\ WF_vars(server = "spawned" /\ ListenAndServeTLS)
FairSpec == Spec /\ Fairness
-----------------------------------------------------------------------------
(* Properties.                                                             *)

\* No admission request is answered before the configuration, the vault
\* token secret and the certificate are read and the VaultMap cache is full
\* (webhook.go:114-144, 205-210): four goroutines have to get the order right.
ServesOnlyWhenReady == server = "listening" => loaded = Resources /\ synced

\* How the process may end: exit code 1 takes two caught signals, the first of
\* which closed stop; a signal kills outright only before the handler is set
\* up; glog.Fatal never takes down a process whose server was launched; a
\* negative health check interval ends one that was ready to serve.
EndsAsDocumented ==
  /\ status = "usage" => sig = "none"
  /\ status = "exit1" => caught = 2 /\ stopClosed
  /\ status = "killed" => sig = "none" /\ loaded = {}
  /\ status = "fatal" => server = "none"
  /\ status = "panic" => server = "closed" /\ cmdline.interval < 0 /\ synced

\* The health check file appears only after the caches synced and the server
\* goroutine exists.  (It says nothing about the listener: see the README.)
HealthAfterLaunch == healthWritten => synced /\ server # "none" /\ HealthChecked

\* Start leaves no informer behind that Run waits for: it was requested before
\* main called Start.
NothingLeftUnstarted == starter = "done" => launches[VaultMaps] = 1

\* Two signals end the process wherever it is: in start-up, waiting for a
\* cache that never syncs, or serving (signal.go:10-12).
TwoSignalsEnd == (sent >= 2) ~> ~Up

\* A stop requested while the caches sync does not leave Run waiting.
StopEndsStartUp == stopClosed ~> (~Up \/ main \in {"select", "again"})

\* The select loop takes every tick in the end, whatever else is ready.
TicksAreTaken == tick ~> (~tick \/ ~Up)

\* If the reflector's list succeeds in the end (it is retried for ever), Run
\* gets past WaitForCacheSync: it waits for an informer that Start found.
CacheWaitEnds ==
  WF_vars(InformerSyncs) => ((main = "waitSync") ~> (main # "waitSync" \/ ~Up))

\* Seen from outside the process is an endpoint that opens at most once, when
\* it has everything it needs, and never comes back once gone.
Endpoint == INSTANCE WebhookEndpoint WITH
  endpoint <- IF ~Up \/ server \in {"failed", "closed"} THEN "gone"
              ELSE IF server = "listening" THEN "serving" ELSE "starting",
  prepared <- loaded = Resources /\ synced
EndpointSpec == Endpoint!Spec

\* What the code after the loop expects: once stopCh is closed Run returns,
\* the server is closed and the process ends (webhook.go:218, 255-261).
StopShutsDown == stopClosed ~> ~Up
=============================================================================
