# Specifications of vault-inject

TLA+ models of the vault-inject admission webhook, the TLC runs that check them
and TLAPS proofs about all of them. Paths are relative to `src/`.

## 1. The system and its parts

`vault-admission` is one Go process in a Kubernetes cluster. It reads a
ConfigMap, a Secret and a TLS key pair, keeps a cache of `VaultMap` resources
and serves HTTPS: the API server sends it an `AdmissionReview` for every pod
that is created in a namespace labelled for injection. Two *publishers* put
secrets that were read from Vault into a deployment; at this commit the code
that calls them (`webhook.go:270-403`) is commented out.

| Component | State | Operations | Talks to |
|---|---|---|---|
| Process (`cmd/vault-admission/main.go`, `pkg/webhook`: `NewWebhook`, `Run`; `pkg/signals`; `pkg/inject/config.go`, `secret.go`) | command line, what is loaded, goroutines for main, signals, informers, server; `stopCh`, health ticker | parse, load, start informers, wait for caches, serve, health check, stop | operating system, API server, informer factory |
| Informer factory (`pkg/client/informers/externalversions/factory.go`) | mutex, `informers`, `startedInformers` | `InformerFor`, `Start`, `WaitForCacheSync` | every goroutine that wants an informer |
| VaultMap client, informer, lister (`pkg/client/...`) | objects at the server; client-go's reflector, queue and indexer | `Create`, `Update`, `Patch`, `Delete`, `DeleteCollection`, `Get`, `List`, `Watch`; `ListFunc`, `WatchFunc`; lister `List`, `Get` | API server, client-go |
| Admission handler (`webhook.go`: `serveInject`, `inject`) | nothing but the request in progress | one goroutine per request | API server, other HTTP clients |
| Annotation patch (`webhook.go`: `createPatch`, `updateAnnotation`, `escapeJSONPointerValue`) | the patch being built | one range over a map | the API server, which applies the patch |
| Publishers (`pkg/inject/publisher`, `pkg/inject/template`) | the caller's deployment object; the cluster's secrets | `CreatePublisher`, two `PublishSecrets`, `ResolveTemplate` | secrets API, other publishers |
| CA bundle patch (`pkg/util/webhookpatch.go`) | the registration's entry | get, change, patch; its only call is commented out | API server, editors of the registration |
| VaultMap types and deep copies (`pkg/apis/vaultinject/v1alpha1`) | objects whose slices live in memory others may share | `DeepCopy`, `DeepCopyInto` | every holder of an object |
| Fake clientset (`pkg/client/clientset/versioned/fake`, `typed/.../fake`) | client-go's tracker: objects by namespace and name | `Create`, `Update`, `Get`, `List`, `Delete`, `Patch`, `DeleteCollection`, `Watch` | unit tests, which write to what it hands out |
| Version output, manifests | data | | |

What is hard, and what makes each part right:

* **Process.** Four goroutines, an operating system that sends signals at any
  moment and a cluster that may never answer. It must not serve before it has
  everything, must end for the right reasons only, and a stop must not hang.
* **Factory.** Concurrent `Start` and `InformerFor` must neither launch an
  informer twice nor forget one, and waiting for a cache must not hold the lock.
* **Cache.** A list and a watch are two calls, a watch breaks at any time, lists
  may be late. The lister must show states the server had, and catch up.
* **Admission.** The process may end during a review, the API server may give up
  first, a handler may panic. A pod is stored only if it was allowed in time.
* **Patch.** Go visits maps in any order; keys need escaping in the right order.
* **Publishers.** `List` then `Create` is no atomic step, answers get lost, two
  deployments may resolve to one secret name, failed attempts are retried on the
  same object. In whatever order a map is visited, the environment must end up
  complete.
* **CA bundle patch.** Read, change and patch are three steps, and the registration
  belongs to others too. The patch must undo nobody's edit, and `nil` must mean
  that the bundle was there.
* **Fake clientset.** A copy that forgets a slice makes the tracker and the tests
  write to each other's objects, and no test notices until two of them do.

PROJECT.json lists the hazards with their source lines and properties.

## 2. Modules

| Module | Models | Used by |
|---|---|---|
| `InformerRegistry` | what the factory promises: created on request, launched once | implemented by `InformerFactory`; its actions are used by `WebhookProcess` |
| `InformerFactory` | `factory.go` with its mutex, step by step | |
| `InformerFactoryProofs` | proofs | |
| `WebhookEndpoint` | what a client sees of one process: starting, serving, gone | implemented by `WebhookProcess`; part of `Admission` |
| `WebhookProcess` | main, `NewWebhook`, `Run`, the signal, starter and server goroutines | |
| `WebhookProcessProofs` | proofs | |
| `Admission` | `serveInject`, `inject`, the API server's call, other clients; the process is `WebhookEndpoint` | |
| `AdmissionProofs` | proofs | |
| `AnnotationPatch` | `updateAnnotation` and the application of its patch | |
| `AnnotationPatchProofs` | proofs | |
| `SecretPublication` | what publishing promises a caller | implemented by `Publisher` |
| `Publisher` | both publishers, templates, secrets API | |
| `PublisherProofs` | proofs | |
| `VaultMapCache` | typed client, informer, reflector and queue, lister | |
| `VaultMapCacheProofs` | proofs | |
| `WebhookConfig` | `PatchMutatingWebhookConfig`, any number of calls at once, with editors of the registration | |
| `WebhookConfigProofs` | proofs | |
| `DeepCopy` | the generated copies, down to the memory they share | `FakeClientset` |
| `VaultMapStore` | what a test may expect of a clientset: a store of values | implemented by `FakeClientset` |
| `FakeClientset` | the fake calls, client-go's tracker, tests that write to their objects | |
| `FakeClientsetProofs` | proofs | |
| `MC...` | the constants of the instances below | |

How state and actions correspond to the code:

* `InformerFactory`: `lock`, `informers`, `startedInformers` are the fields of
  the struct. An action is the code between two points where another goroutine
  can run: acquiring the lock, one loop iteration, the deferred unlock. The map
  range visits types in any order. `owed`, `returned`, `launches` are history.
* `WebhookProcess`: `main`, `sig`, `starter`, `server` are the program counters
  of the goroutines; `chan` is the number of signals in `make(chan os.Signal, 2)`;
  `tick` is the ticker's channel. Each `glog.Fatal`, `os.Exit` and panic is a
  value of `status`. A negative interval makes `time.NewTicker` panic.
  `GetInitializerConfig` and the other two reads succeed or end the process.
  `kubeInformerFactory` has no informers, so its `Start` does nothing and has no
  action. The `break` of `webhook.go:256` leaves the select only: `SelectStop`
  goes on with the loop.
* `Admission`: a handler is a program counter per request; what it reads, its
  `AdmissionResponse` and HTTP status are per-request state. `createPatch(&pod,
  nil)` gives an empty patch (`NoPatch`). `inject` dereferences `ar.Request`
  before anything checks it; the handler's panic breaks the connection. A body
  whose decoding fails may have had its UID filled in by then; writing the answer
  may fail. A listener that fails (`Close`) leaves the handlers running, the end
  of the process (`Exit`) breaks them off, at once or later. The failure policy is
  that of `artifacts/admission/registration.yaml`.
* `AnnotationPatch`: keys are sequences of characters because escaping is about
  them; everything else is data. One action per iteration of the range, one per
  operation the API server applies (RFC 6902, decoding segments as in RFC 6901).
* `Publisher`: a pattern is the set of fields its template names, a resolved
  name the values of these fields, so that two deployments collide exactly when
  the fields they share do. `html/template` escapes, which is the identity on
  the characters of Kubernetes names. The deployment object is the caller's and
  keeps what a failed attempt did to it. `Create` may be carried out although
  the caller sees an error. `Publish` is the caller, from the retired controller
  (`webhook.go:270-403`), and external therefore.
* `VaultMapCache`: the server is the log of its writes; a resource version is a
  place in the log. A list is answered from the watch cache, hence perhaps late,
  though never from before what this client was told (one API server; several
  with caches of their own could answer earlier). The reflector's periodic
  resync puts cached objects back into an idle queue and changes nothing here.
  The queue's detection of deletions is modelled as client-go documents it.
  `copy` is the object a client read last and may send back with `Update`. That
  the server refuses a copy out of date is the server's own check, so no property
  is about it.
  `tweakListOptions` is nil in main.
* `WebhookConfig`: an entry is its CA bundle and the rest of its fields; entries
  are known by their names, as the strategic merge key says, so that their order
  is left out. `Get` is everything from the request to the patch (`lines 32-59`),
  `Patch` the request that applies it. The difference of the two copies is taken
  field by field. A patch for an entry that is gone would bring back an entry
  with a bundle and no client configuration, which the API server's validation
  refuses. `seen` is history: the entry had the bundle at some time of the call.
* `DeepCopy`, `FakeClientset`: of a `VaultMap` only `PodsWithSecrets` refers to
  memory that could be shared, so an object is the address of that array, or a
  nil slice. An address is named after the slot it was made for, since a new
  array is unlike any in use; an array nobody refers to is collected. A test
  builds objects, assigns elements, and passes what it holds to the calls. The
  tracker keeps a copy of what it is given and answers with copies. `List`
  filters by namespace at the tracker and by label in `FakeVaultMaps.List`, item
  by item. The tracker has no reactor for patches and deletions of collections:
  both calls return no error and change nothing, unlike their comments
  (`fake_vaultmap.go:111`, `119`) say. What `Patch` returns is an empty `VaultMap`
  that the test may go on with. `VaultMapStore` takes both calls as they are, so
  `StoreSpec` says nothing against them.

## 3. Runs

| Run | Instance | Question and answer |
|---|---|---|
| `factory_safety` | 2 goroutines, 2 types, symmetric | Are informers shared, launched once, none forgotten, and does the factory implement the registry? Yes. |
| `factory_live` | 2 goroutines, 1 type, fair | Do calls return when a cache never syncs, and does a stop end the waits? Yes: the lock is not held while waiting. |
| `process` | 3 signals, command lines with every sign of the interval, fair | Does the process serve only when ready, end only for its reasons, implement `WebhookEndpoint`, end on two signals, leave the cache wait on a stop, take its ticks? Yes. |
| `process_stop` | the same | Does one signal shut the webhook down? **No**, see below. |
| `admission` | a pod tried twice, a pod in an unlabelled namespace, one foreign request of any kind, fair | Is a pod stored only if it was allowed in time, by a process that was ready, are only decodable pods allowed, does every review end? Yes. |
| `annotations` | all maps over 3 keys (one with `/`, one with `~`, overlapping when escaped wrongly) and values with the empty string | Is every patch accepted, and are exactly the added annotations set? Yes. |
| `publisher_race` | 2 callers with colliding names, 2 attempts each, old and foreign secrets | Is nothing overwritten, and does `Publisher` implement `SecretPublication`? Yes. |
| `publisher_object` | all publisher types, a bad template, a deployment without containers, a Vault that may hold nothing, fair | Does a failed attempt leave the deployment as it was and a successful one exactly its volume and mount, is the environment complete, does only a deployment without containers panic, do attempts end? Yes. |
| `publisher_stale` | as `publisher_race` | Does a mounted secret hold Vault's values? **No**: whatever has the name is mounted. |
| `cache` | 3 VaultMaps in 2 namespaces, 2 of them there before, 2 more writes, an informer of all namespaces and of one, fair | Does the lister show one state of the server when nothing is queued, all of the first list once synced, never an older version of a VaultMap after a newer, and catch up? Yes. |
| `webhook_config` | 2 patchers of one entry with bundles of their own, a second entry, an editor who may do anything | Does a patch change one bundle and nothing else, and does `nil` mean the entry had the bundle at some time of the call? Yes. |
| `fake_clientset` | 2 goroutines of a test, 2 VaultMaps that differ in namespace and label, 2 contents | Does nobody share an array, and is the fake a store of values whatever tests write to their objects? Yes. |

Two runs end in a violation, of what the repository says about itself:

* `StopShutsDown`: `break` in `case <-stopCh` leaves the `select`; the loop spins
  until a second signal calls `os.Exit(1)`. `defer wh.server.Close()` and the
  last log line of `Run` are never reached.
* `MountedFileHasSecrets`: `volume/publisher.go:59` takes an existing secret of
  the resolved name as it is, another deployment's or an outdated one.

Three more disagreements need no run, since a look at the code settles them:

* `docs/local_development.md:5` starts the webhook with `--outside`,
  `hack/start-admission-local.sh:17` with `-caCertFile` and
  `artifacts/admission/deployment.yaml:24` with `--caFile`; main defines none of
  them (`main.go:149-164`), so that `flag.Parse` ends the process.
* `README.md:3` says that secrets are injected; `inject` calls no publisher.
* the two comments of `fake_vaultmap.go` named above.

**Bounds.** In the factory a goroutine calls again and again, so two of them
reach every state of the lock and of the maps that two can reach; the proofs
cover any number. `MaxSignals` is 3, one more than the channel holds. One secret
name shared by two callers, with old contents and lost answers, is the smallest
race; the second attempt is the retry. Three keys give two that escape to
similar text and one plain one. In `cache` two free writes suffice to change an
object twice, so that a version can be lost or shown again, to delete and create
again across a broken watch and to delete a collection; `MaxWrites` is 4. `MaxPosts` is 1: handlers share no
state. In `webhook_config` two bundles of callers and one of an editor tell every
outcome of a race apart, and nothing is bounded: calls and edits go on for ever.
The same holds of `fake_clientset`, where two contents show any write that
reaches another's array, and one key per namespace and label tells the filters of
`List` apart. `MaxAttempts` in both publisher runs is 2, as the second attempt
starts where any later one does. `CHECK_DEADLOCK FALSE` stands where the system may come to an end: a
process that exited, callers or reviews that are through, an applied patch.

**Fairness.** The Go scheduler runs every goroutine (weak fairness per
goroutine). Strong fairness stands for `sync.Mutex`, which hands a starving
waiter the lock, and for `select`, which picks among ready cases at random. An
API call returns, with an answer or an error. Operators, clients, foreign
requests, failures and the cluster's answers have none: signals need not come,
caches need not sync, watches may break for ever. `CacheWaitEnds` takes the
success of the reflector's endless retries as a hypothesis. In `cache` a list is
answered in the end, a watch requested again and again is granted and delivers
in the end.

`webhook_config` and `fake_clientset` check safety alone and need none.

## 4. Proofs

The proofs hold for every value of the constants under the named `ASSUME` of each
module, which TLC evaluates in the runs. The properties are seldom inductive
as they stand; each module proves an invariant `IInv` first, with a lemma for
every action or group of actions.

`InformerFactoryProofs`, for every set of goroutines and types (assumption:
`None` is neither):

* `TypeCorrect`, `InformersRunOnce` (`LaunchedOnce`), `InformersAreShared`
  (`SharedInformer`), `WaitsAreBounded` (`WaitsForLaunched`), `StartIsComplete`
  (`StartCoversRegistered`), `FactoryImplementsRegistry` (`RegistrySpec`).
* `IInv` adds who holds the lock where (`LockInv`), that `startedInformers`
  records exactly the launches (`LaunchInv`), that only the map's informers were
  handed out (`ReturnedInv`), what a goroutine's locals mean at each point
  (`LocalInv`: the check `!started` still holds when `go informer.Run` runs,
  since the lock is held in between), which registered types `Start` still has to
  visit (`OwedInv`) and what a wait looks at (`WaitInv`).
* `LoopsComeToAnEnd`, `LocksAreGivenBack`: the part of `CallsReturn` and
  `StopEndsWaits` that needs no fairness. `StepsLeft` bounds the steps a goroutine
  has before it inside its call, two for each informer it still has to visit. Each
  of its steps lowers the bound, no step of another raises it, and it is zero
  only outside. It is a number because `registered` is finite at any time, though
  the set of types need not be (`FiniteInv`).

`WebhookProcessProofs`, for every set of command lines and number of signals:

* `TypeCorrect`, `ServingIsPrepared` (`ServesOnlyWhenReady`), `EndsHaveCauses`
  (`EndsAsDocumented`), `HealthIsLate` (`HealthAfterLaunch`),
  `StartFindsInformer` (`NothingLeftUnstarted`), `ProcessImplementsEndpoint`
  (`EndpointSpec`).
* `IInv` ties every goroutine to main's program counter: what is loaded there
  (`LoadInv`), how many signals were caught (`SignalInv`), who requested and
  launched the informer (`InformerInv`), which goroutines exist (`ServerInv`),
  what each end leaves behind (`EndInv`).
* `SignalsAreKept`, `WaitIsForSomething`, `MainGoesForward`: the part of
  `TwoSignalsEnd`, `CacheWaitEnds` and `StopEndsStartUp` that needs no fairness.
  The signals that were sent are counted against those received and those in the
  channel, whose two places are just enough; main's labels are numbered.
* For the refinement each action is shown to be a step of `WebhookEndpoint` or
  none: those that leave the server, the loaded resources and the cache alone by
  one lemma, the others one by one.

`PublisherProofs`, for any callers, deployments, VaultMaps and other secrets
(assumptions: a deployment has the four fields and containers without mounts of
ours; a map of secrets is finite, as Go's maps are; the cluster starts with one
secret per name):

* `TypeCorrect`, `RetriesAreSafe` (`RetrySafe`), `NothingOverwritten`
  (`NoOverwrite`), `EnvironmentGetsAll` (`EnvironmentComplete`),
  `PublisherImplementsPublication` (`PublicationSpec`).
* `CallerInv` says that the deployment is the original one until the last step
  of a volume attempt. Hence the names that were resolved before the API calls are
  those that are mounted after them, although the object has changed by then,
  and a failed attempt leaves no trace. A volume attempt that succeeds has added
  one volume and one mount and nothing else, and both publishers panic at
  `Containers[0]` only where there is none: the environment publisher touches it
  for each secret, so that with no secret it succeeds without containers. `EnvInvariant` says what the environment
  publisher has added after some iterations: behind the old variables one for
  every key that is done, each once, so that the last definition of a name is the
  secret's or an old one.
* For the refinement each API call is shown to be `Ensure`, `Fail`, `Publish` or
  a stutter of `SecretPublication`.
* `AttemptsTakeBoundedSteps`, `AttemptsHaveWork`: the part of `AttemptsEnd` that
  needs no fairness. An attempt is at most five steps and one for each secret.

`AnnotationPatchProofs`, for all annotations and any keys (assumption: a key is a
sequence of characters, `Nil` is no map):

* `PatchIsAccepted` (`PatchAccepted`), `PatchSetsTheAnnotations`
  (`PatchSetsAnnotations`), `EscapeRoundTrip`: of no key, however many `~` and `/`
  it has and in whatever order, does escaping and decoding make another.
* The round trip is an induction over sequences, stated with the set of those
  that have the property. The lemmas say what the replacements do to a text with
  one more character. Decoding finds only the `~1` that escaping made of a `/`, since
  every other `~` is followed by `0` by then.
* `IInv`: every operation is about a key that is done, and every such key has one;
  the first creates the map exactly if the pod had none. The annotations at the
  API server are the original ones overlaid with the keys applied so far.

`AdmissionProofs`, for any pods, reviews and foreign requests (assumptions: no
foreign request is a review, `None` is neither call nor answer nor body):

* `TypeCorrect`, `StoredPodsAllowed` (`StoredOnlyIfAllowed`), `AllowedArePods`
  (`AllowsOnlyPods`).
* `CallInv` attaches to every program counter of a handler what it has checked by
  then, and to a status 200 the answer it stands for; a handler runs only in a
  process that was ready; what was answered does not change when the process
  ends, which is why a pod may be stored after that.
* `HandlersComeToAnEnd`, `WaitsHaveHandlers`: the part of `ReviewsEnd` that needs
  no fairness. `VerdictsStay`: what was decided, answered or stored is final.

`VaultMapCacheProofs`, for any finite set of VaultMaps, any scopes and number of
writes:

* `TypeCorrect`, `ListerShowsOneState` (`ListerIsSnapshot`), `SyncShowsFirstList`
  (`SyncedMeansListed`), `ListerGoesForward` (`ListerNeverGoesBack`).
* The heart is `Shows`: the indexer overlaid with the deltas that are queued is
  the server's state at the reflector's resource version, whichever list or watch
  brought it there. With an empty queue the indexer alone is. `AtPosition` says
  where a watch stands, `FirstListed` which keys of the first list are still
  among the queue's first `initial` ones, that HasSynced counts. The state after n
  writes is characterised by the last write of each key (`StateIs`), so that
  it stays what it was when the log grows (`StatePast`).
* `ReflectorGoesForward`, `IdleListerIsCurrent`, `CurrentListerStays`: the part of
  `ListerCatchesUp` that needs no fairness. The reflector only goes forward along
  the log and the queue gets shorter; where neither can go on, the lister shows
  the present state; from there broken watches and late lists do not take it
  back.
* `ListerGoesForward` rests on `VersionInv`: what the lister shows was written to
  its own object, no later than the reflector's resource version. A queued delta
  is, by `Shows`, the last write of its object up to there, hence no older.

`WebhookConfigProofs`, for any patchers, entries and bundles:

* `TypeCorrect`, `OkCallsPatched` (`OkMeansPatched`), `PatchesAreLocal`
  (`OnlyBundleChanges`).
* `PatchInv`: a patch in flight sets the bundle of its target, or nothing when the
  entry had it already (`PatchIsBundle` computes the two-way difference);
  `SeenInv`: a call in progress has seen the bundle if it is there now.

`FakeClientsetProofs`, for any VaultMaps, goroutines and contents:

* `CopiesAreSeparate` (`NothingShared`), `FakeImplementsStore` (`StoreSpec`).
* `OwnArrays`: a slot refers to the array made for it, to none, or is empty. From
  it `Places` derives what each step does to the values behind the pointers,
  which is what `VaultMapStore` does with values.

Only model-checked: the liveness properties, as TLAPS does not prove fairness
arguments here. What is proved of them is the other half: the bounds that every
step lowers, and that whoever waits, waits for somebody who has something to do.
TLC adds that the scheduler lets them do it. For `TicksAreTaken`, which is about
the choice of `select` alone, there is no such half. The invariants and action
properties of these halves are stated in the proof modules, where they are
proved, and are in no run; the instances of section 3 satisfy them as well.

## 5. Not modelled

* The retired controller (`webhook.go:270-403`), the reload of certificates and
  configuration (`231-243`) and main's `patchCert`: commented out.
* `getCert`: the mutex it takes is taken by nobody else, the pointer is written
  once.
* `/ping`, event recorder, logging, JSON and YAML layout, version output.
* Of the fake clientset: `Watch`, discovery, the recorded actions. `Watch` hands
  on the tracker's watcher; whether its events are copies is decided in
  client-go, which is not in the repository, and nothing here settles it.
* Scheme registration; `ForResource` of the informer factory (`generic.go`), a
  lookup that calls `InformerFor`, which is modelled.
* Vault itself: the publishers get a map of secrets from their caller.
* The health file outlives a listener that failed: `Run` only logs the error.
  `HealthAfterLaunch` bounds the file from below; no document says more.
* Signals the operating system merges while one is pending count as one.

## 6. Plan

Done, in this order: factory (with abstract registry and proofs), process (with
endpoint and proofs), publishers, annotation patch, admission, VaultMap cache, CA
bundle patch, fake clientset with the deep copies; then the proofs about
publishers, admission, cache, CA bundle patch, fake clientset and annotation patch,
and those of the halves of the liveness properties.

Left:

1. `Cluster`: the process, restarted by its deployment, and the admission of its
   own pods. When the webhook's own namespace is labelled, the failure policy
   keeps its pod out until a process serves: which labellings can start?
2. `Watch` of the fake clientset, once the vendored client-go is fixed: a watcher
   that is handed the tracker's own object would break `NothingShared`.
3. The publishers' caller, once the controller's successor is in the code: today
   nothing decides which deployment is published when.
