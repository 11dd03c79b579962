----------------------------- MODULE WebhookConfig -----------------------------
(***************************************************************************)
(* PatchMutatingWebhookConfig (pkg/util/webhookpatch.go): put a CA bundle  *)
(* into one entry of a MutatingWebhookConfiguration.  The call reads the   *)
(* configuration, changes its copy and sends the difference as a strategic *)
(* merge patch, so that patchers race with each other and with editors.    *)
(* The order of the entries is left out: entries are known by their names. *)
(***************************************************************************)
CONSTANTS
  Patchers,              \* goroutines that call PatchMutatingWebhookConfig
  Names,                 \* names of webhook entries
  Bundles,               \* what the caBundle of an entry may be
  Rests,                 \* what the other fields of an entry may be
  TargetOf, BundleOf,    \* patcher -> arguments webhookName and caBundle
  None,                  \* no configuration, no entry
  Same                   \* a field the patch leaves alone

Entries == [bundle : Bundles, rest : Rests]
Fields == [bundle : Bundles \cup {Same}, rest : Rests \cup {Same}]
Unchanged == [bundle |-> Same, rest |-> Same]
Configs == [Names -> Entries \cup {None}]

ASSUME ConfigAssumption ==
  /\ TargetOf \in [Patchers -> Names] /\ BundleOf \in [Patchers -> Bundles]
  /\ Same \notin Bundles \cup Rests
  /\ None \notin Entries \cup Configs

VARIABLES
  config,                \* the configuration at the API server, None without
  pc,                    \* per patcher: where its call is, or how it ended
  patch,                 \* per patcher: what it is about to send
  seen                   \* history: the target had the bundle during the call

vars == <<config, pc, patch, seen>>

NoPatch == [n \in Names |-> Unchanged]

TypeOK ==
  /\ config \in Configs \cup {None}
  /\ pc \in [Patchers -> {"idle", "get", "patch", "ok", "failed"}]
  /\ patch \in [Patchers -> [Names -> Fields]]
  /\ seen \in [Patchers -> BOOLEAN]

Init ==
  /\ config \in Configs \cup {None}
  /\ pc = [p \in Patchers |-> "idle"]
  /\ patch = [p \in Patchers |-> NoPatch]
  /\ seen = [p \in Patchers |-> FALSE]

Goto(p, l) == pc' = [pc EXCEPT ![p] = l]

HasBundle(conf, p) ==
  conf # None /\ conf[TargetOf[p]] # None /\ conf[TargetOf[p]].bundle = BundleOf[p]
\* The server has a new configuration, which calls in progress may refer to.
Save(conf) ==
  /\ config' = conf
  /\ seen' = [p \in Patchers |->
                seen[p] \/ (pc[p] \in {"get", "patch"} /\ HasBundle(conf, p))]
-----------------------------------------------------------------------------
(* PatchMutatingWebhookConfig.                                             *)
Call(p) ==
  /\ pc[p] \in {"idle", "ok", "failed"}
  /\ Goto(p, "get")
  /\ seen' = [seen EXCEPT ![p] = HasBundle(config, p)]
  /\ UNCHANGED <<config, patch>>

\* The loop over config.Webhooks, which works on the copy.
FoundAnything(conf, name) == TRUE
Found(conf, name) == conf[name] # None
SetBundle(conf, p) ==
  IF conf[TargetOf[p]] = None THEN conf
  ELSE [conf EXCEPT ![TargetOf[p]].bundle = BundleOf[p]]

\* CreateTwoWayMergePatch: per entry, the fields in which the two differ.
DifferenceOrNull(old, new) == IF old = new THEN Same ELSE None
Difference(old, new) == IF old = new THEN Same ELSE new
WholeCopy(prev, curr) == [n \in Names |-> IF curr[n] = None THEN Unchanged ELSE curr[n]]
CreateTwoWayMergePatch(prev, curr) ==
  [n \in Names |->
     IF prev[n] = None THEN Unchanged
     ELSE [bundle |-> Difference(prev[n].bundle, curr[n].bundle),
           rest |-> Difference(prev[n].rest, curr[n].rest)]]

\* Get, and everything up to the next request; what it reads may be changed by
\* others from here on.
Get(p) ==
  /\ pc[p] = "get"
  /\ \/ /\ config # None /\ Found(config, TargetOf[p])
        /\ patch' = [patch EXCEPT ![p] = CreateTwoWayMergePatch(config, SetBundle(config, p))]
        /\ Goto(p, "patch")
     \/ Goto(p, "failed") /\ UNCHANGED patch
  /\ UNCHANGED <<config, seen>>

\* The server merges the patch into what it has by then.  An entry that is gone
\* would come back as a stub without a URL or a service, which is invalid.
Merge(entry, change) ==
  [bundle |-> IF change.bundle = Same THEN entry.bundle ELSE change.bundle,
   rest |-> IF change.rest = Same THEN entry.rest ELSE change.rest]
Accepts(change) ==
  config # None /\ \A n \in Names : config[n] = None => change[n] = Unchanged
Apply(change) ==
  [n \in Names |-> IF config[n] = None THEN None ELSE Merge(config[n], change[n])]

\* The request may fail, and its answer may be lost after it was carried out.
Patch(p) ==
  /\ pc[p] = "patch"
  /\ \/ /\ Accepts(patch[p])
        /\ Save(Apply(patch[p]))
        /\ Goto(p, "ok") \/ Goto(p, "failed")
     \/ Goto(p, "failed") /\ UNCHANGED <<config, seen>>
  /\ patch' = [patch EXCEPT ![p] = NoPatch]
-----------------------------------------------------------------------------
\* Anybody else may edit, create or delete the configuration.
Edit(conf) ==
  /\ Save(conf)
  /\ UNCHANGED <<pc, patch>>

Next ==
  \/ \E p \in Patchers : Call(p) \/ Get(p) \/ Patch(p)
  \/ \E conf \in Configs \cup {None} : Edit(conf)

Spec == Init /\ [][Next]_vars
-----------------------------------------------------------------------------
(* Properties.                                                             *)

\* Whatever happened since it read the configuration, a patcher's request
\* undoes nobody's change: it changes the bundle of an entry that is there, and
\* nothing else (webhookpatch.go:56-60).
OnlyBundleChanges ==
  [][\A p \in Patchers : (pc[p] = "patch" /\ pc'[p] # "patch" /\ config' # config) =>
       /\ config[TargetOf[p]] # None
       /\ config' = [config EXCEPT ![TargetOf[p]].bundle = BundleOf[p]]]_vars

\* A call returns nil only if the entry had the bundle at some moment of the
\* call, were it the editor who put it there (webhookpatch.go:49-52).
OkMeansPatched == \A p \in Patchers : pc[p] = "ok" => seen[p]
=============================================================================
