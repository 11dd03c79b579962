-------------------------- MODULE WebhookConfigProofs --------------------------
(***************************************************************************)
(* Proofs about WebhookConfig, for any number of patchers, entries and     *)
(* bundles: what a patch in flight may change is fixed when it is built,   *)
(* whatever the editors do until the server applies it.                    *)
(***************************************************************************)
EXTENDS WebhookConfig, TLAPS

\* A patch in flight sets the bundle of its target, or nothing; in the second
\* case the target had the bundle when it was read.
PatchInv ==
  \A p \in Patchers :
    pc[p] = "patch" =>
      \/ patch[p] = NoPatch /\ seen[p]
      \/ patch[p] = [NoPatch EXCEPT ![TargetOf[p]] = [bundle |-> BundleOf[p], rest |-> Same]]

\* A call in progress has seen the bundle if it is there now.
SeenInv ==
  \A p \in Patchers : (pc[p] \in {"get", "patch"} /\ HasBundle(config, p)) => seen[p]

IInv == TypeOK /\ PatchInv /\ SeenInv /\ OkMeansPatched

\* CreateTwoWayMergePatch of a configuration and of itself with a new bundle has
\* that bundle in it, or nothing when it was there already.
LEMMA PatchIsBundle ==
  ASSUME NEW conf \in Configs, NEW p \in Patchers, conf[TargetOf[p]] # None
  PROVE  LET change == CreateTwoWayMergePatch(conf, SetBundle(conf, p))
         IN  IF conf[TargetOf[p]].bundle = BundleOf[p] THEN change = NoPatch
             ELSE change = [NoPatch EXCEPT ![TargetOf[p]] = [bundle |-> BundleOf[p], rest |-> Same]]
<1> DEFINE t == TargetOf[p]
           b == BundleOf[p]
           curr == SetBundle(conf, p)
           change == CreateTwoWayMergePatch(conf, curr)
<1>1. t \in Names /\ b \in Bundles /\ conf[t] \in Entries
  BY ConfigAssumption DEF Configs
<1>2. curr = [conf EXCEPT ![t] = [bundle |-> b, rest |-> conf[t].rest]]
  <2>1. [conf[t] EXCEPT !.bundle = b] = [bundle |-> b, rest |-> conf[t].rest]
    BY <1>1 DEF Entries
  <2> QED
    BY <2>1, <1>1 DEF SetBundle, Configs
<1>3. ASSUME NEW n \in Names, n # t
      PROVE  change[n] = Unchanged
  BY <1>1, <1>2, <1>3 DEF CreateTwoWayMergePatch, Difference, Unchanged, Configs
<1>4. change[t] = [bundle |-> IF conf[t].bundle = b THEN Same ELSE b, rest |-> Same]
  BY <1>1, <1>2 DEF CreateTwoWayMergePatch, Difference, Configs, Entries
<1>5. change = [n \in Names |-> IF n = t THEN [bundle |-> IF conf[t].bundle = b THEN Same ELSE b,
                                               rest |-> Same]
                                ELSE Unchanged]
  BY <1>3, <1>4, <1>1 DEF CreateTwoWayMergePatch
<1>6. CASE conf[t].bundle = b
  <2>1. change = NoPatch
    BY <1>5, <1>6 DEF NoPatch, Unchanged
  <2> QED
    BY <2>1, <1>6
<1>7. CASE conf[t].bundle # b
  <2>1. change = [NoPatch EXCEPT ![t] = [bundle |-> b, rest |-> Same]]
    BY <1>5, <1>7, <1>1 DEF NoPatch
  <2> QED
    BY <2>1, <1>7
<1> QED
  BY <1>6, <1>7

\* Applied to a configuration that still has the target, such a patch changes
\* the bundle alone; an empty one changes nothing.
LEMMA ApplyChangesBundle ==
  ASSUME config \in Configs, NEW p \in Patchers
  PROVE  /\ Apply(NoPatch) = config
         /\ LET change == [NoPatch EXCEPT ![TargetOf[p]] = [bundle |-> BundleOf[p], rest |-> Same]]
            IN  Accepts(change) =>
                  /\ config[TargetOf[p]] # None
                  /\ Apply(change) = [config EXCEPT ![TargetOf[p]].bundle = BundleOf[p]]
<1> DEFINE t == TargetOf[p]
           b == BundleOf[p]
           change == [NoPatch EXCEPT ![t] = [bundle |-> b, rest |-> Same]]
<1>1. t \in Names /\ b \in Bundles /\ b # Same
  BY ConfigAssumption
<1>2. ASSUME NEW n \in Names
      PROVE  config[n] # None => Merge(config[n], Unchanged) = config[n]
  BY DEF Merge, Unchanged, Configs, Entries
<1>3. Apply(NoPatch) = config
  BY <1>2 DEF Apply, NoPatch, Configs
<1>4. ASSUME Accepts(change)
      PROVE  config[t] # None
  BY <1>1, <1>4 DEF Accepts, NoPatch, Unchanged
<1>5. ASSUME Accepts(change)
      PROVE  Apply(change) = [config EXCEPT ![t].bundle = b]
  <2>1. config[t] \in Entries
    BY <1>1, <1>4, <1>5 DEF Configs
  <2>2. Merge(config[t], [bundle |-> b, rest |-> Same]) = [config[t] EXCEPT !.bundle = b]
    BY <1>1, <2>1 DEF Merge, Entries
  <2>3. Apply(change) = [n \in Names |-> IF n = t THEN [config[t] EXCEPT !.bundle = b]
                                         ELSE config[n]]
    BY <1>1, <1>2, <1>4, <1>5, <2>2 DEF Apply, NoPatch
  <2> QED
    BY <2>3, <1>1 DEF Configs
<1> QED
  BY <1>3, <1>4, <1>5

\* Whatever is saved, calls in progress that saw their bundle have seen it.
LEMMA SaveKeepsSeen ==
  ASSUME TypeOK, NEW conf \in Configs \cup {None}, Save(conf), NEW p \in Patchers
  PROVE  /\ config' = conf /\ seen' \in [Patchers -> BOOLEAN]
         /\ seen[p] => seen'[p]
         /\ (pc[p] \in {"get", "patch"} /\ HasBundle(conf, p)) => seen'[p]
  BY DEF Save, TypeOK, HasBundle

\* What OnlyBundleChanges says of one step.
StepChangesBundle(p) ==
  (pc[p] = "patch" /\ pc'[p] # "patch" /\ config' # config) =>
    /\ config[TargetOf[p]] # None
    /\ config' = [config EXCEPT ![TargetOf[p]].bundle = BundleOf[p]]

\* Every step keeps the invariant and changes bundles only.
LEMMA InvStep ==
  ASSUME IInv, [Next]_vars
  PROVE  IInv' /\ \A p \in Patchers : StepChangesBundle(p)
<1> USE DEF IInv
<1>1. ASSUME NEW p \in Patchers, Call(p)
      PROVE  IInv' /\ config' = config
  <2>1. HasBundle(config, p) \in BOOLEAN
    BY DEF HasBundle
  <2> QED
    BY <1>1, <2>1 DEF Call, Goto, TypeOK, PatchInv, SeenInv, OkMeansPatched
<1>2. ASSUME NEW p \in Patchers, Get(p)
      PROVE  IInv' /\ config' = config
  <2>1. CASE Goto(p, "failed") /\ UNCHANGED patch
    BY <1>2, <2>1 DEF Get, Goto, TypeOK, PatchInv, SeenInv, OkMeansPatched
  <2>2. CASE config # None /\ Found(config, TargetOf[p]) /\ Goto(p, "patch")
             /\ patch' = [patch EXCEPT ![p] = CreateTwoWayMergePatch(config, SetBundle(config, p))]
    <3> DEFINE change == CreateTwoWayMergePatch(config, SetBundle(config, p))
               set == [NoPatch EXCEPT ![TargetOf[p]] = [bundle |-> BundleOf[p], rest |-> Same]]
    <3>1. config \in Configs /\ config[TargetOf[p]] # None
      BY <2>2 DEF TypeOK, Found
    <3>2. \/ change = NoPatch /\ HasBundle(config, p)
          \/ change = set
      BY <3>1, PatchIsBundle, <2>2 DEF HasBundle
    <3>3. NoPatch \in [Names -> Fields] /\ set \in [Names -> Fields]
      BY ConfigAssumption DEF NoPatch, Unchanged, Fields
    <3>4. pc[p] = "get" /\ UNCHANGED <<config, seen>>
      BY <1>2 DEF Get
    <3>5. HasBundle(config, p) => seen[p]
      BY <3>4 DEF SeenInv
    <3> QED
      BY <2>2, <3>2, <3>3, <3>4, <3>5 DEF Goto, TypeOK, PatchInv, SeenInv, OkMeansPatched
  <2> QED
    BY <1>2, <2>1, <2>2 DEF Get
<1>3. ASSUME NEW p \in Patchers, Patch(p)
      PROVE  IInv' /\ \A q \in Patchers : StepChangesBundle(q)
  <2> DEFINE set == [NoPatch EXCEPT ![TargetOf[p]] = [bundle |-> BundleOf[p], rest |-> Same]]
  <2>1. NoPatch \in [Names -> Fields] /\ pc[p] = "patch" /\ patch' = [patch EXCEPT ![p] = NoPatch]
    BY <1>3 DEF Patch, NoPatch, Unchanged, Fields
  <2>2. \/ patch[p] = NoPatch /\ seen[p]
        \/ patch[p] = set
    BY <2>1 DEF PatchInv
  <2>3. CASE Goto(p, "failed") /\ UNCHANGED <<config, seen>>
    BY <2>1, <2>3 DEF Goto, TypeOK, PatchInv, SeenInv, OkMeansPatched, StepChangesBundle
  <2>4. CASE /\ Accepts(patch[p])
             /\ Save(Apply(patch[p]))
             /\ Goto(p, "ok") \/ Goto(p, "failed")
    <3> DEFINE conf == Apply(patch[p])
    <3>1. config \in Configs
      BY <2>4 DEF Accepts, TypeOK
    <3>2. /\ conf \in Configs
          /\ seen[p] \/ HasBundle(conf, p)
          /\ conf # config => /\ config[TargetOf[p]] # None
                              /\ conf = [config EXCEPT ![TargetOf[p]].bundle = BundleOf[p]]
      <4>1. CASE patch[p] = NoPatch
        <5>1. set[TargetOf[p]].bundle # NoPatch[TargetOf[p]].bundle
          BY ConfigAssumption DEF NoPatch, Unchanged
        <5> QED
          BY <2>2, <3>1, <4>1, <5>1, ApplyChangesBundle
      <4>2. CASE patch[p] = set
        <5>1. /\ config[TargetOf[p]] # None
              /\ conf = [config EXCEPT ![TargetOf[p]].bundle = BundleOf[p]]
          BY <2>4, <3>1, <4>2, ApplyChangesBundle
        <5>2. config[TargetOf[p]] \in Entries
          BY <3>1, <5>1, ConfigAssumption DEF Configs
        <5>3. conf[TargetOf[p]] = [config[TargetOf[p]] EXCEPT !.bundle = BundleOf[p]]
          BY <3>1, <5>1, ConfigAssumption DEF Configs
        <5>4. conf \in Configs
          BY <3>1, <5>1, <5>2, ConfigAssumption DEF Configs, Entries
        <5>5. HasBundle(conf, p)
          BY <5>2, <5>3, <5>4, ConfigAssumption DEF HasBundle, Configs, Entries
        <5> QED
          BY <5>1, <5>4, <5>5
      <4> QED
        BY <2>2, <4>1, <4>2
    <3>3. /\ config' = conf /\ seen' \in [Patchers -> BOOLEAN]
          /\ \A q \in Patchers : seen[q] => seen'[q]
          /\ \A q \in Patchers :
               (pc[q] \in {"get", "patch"} /\ HasBundle(conf, q)) => seen'[q]
      BY <2>4, <3>2, SaveKeepsSeen
    <3>4. \A q \in Patchers : IF q = p THEN pc'[q] \in {"ok", "failed"} ELSE pc'[q] = pc[q]
      BY <2>4 DEF Goto, TypeOK
    <3>5. TypeOK'
      BY <2>1, <2>4, <3>2, <3>3 DEF Goto, TypeOK
    <3>6. PatchInv'
      BY <2>1, <3>3, <3>4 DEF PatchInv, TypeOK
    <3>7. SeenInv'
      BY <3>3, <3>4 DEF SeenInv, HasBundle
    <3>8. seen'[p]
      BY <2>1, <3>2, <3>3
    <3>9. OkMeansPatched'
      BY <3>3, <3>4, <3>8 DEF OkMeansPatched
    <3>10. \A q \in Patchers : StepChangesBundle(q)
      BY <3>2, <3>3, <3>4 DEF StepChangesBundle
    <3> QED
      BY <3>5, <3>6, <3>7, <3>9, <3>10
  <2> QED
    BY <1>3, <2>3, <2>4 DEF Patch
<1>4. ASSUME NEW conf \in Configs \cup {None}, Edit(conf)
      PROVE  IInv' /\ UNCHANGED pc
  <2>1. \A p \in Patchers : /\ config' = conf /\ seen' \in [Patchers -> BOOLEAN]
                            /\ seen[p] => seen'[p]
                            /\ (pc[p] \in {"get", "patch"} /\ HasBundle(conf, p)) => seen'[p]
    BY <1>4, SaveKeepsSeen DEF Edit
  <2> QED
    BY <1>4, <2>1 DEF Edit, Save, TypeOK, PatchInv, SeenInv, OkMeansPatched
<1>5. ASSUME UNCHANGED vars
      PROVE  IInv'
  BY <1>5 DEF vars, TypeOK, PatchInv, SeenInv, OkMeansPatched, HasBundle
<1>6. ASSUME IInv', UNCHANGED pc \/ config' = config
      PROVE  \A p \in Patchers : StepChangesBundle(p)
  BY <1>6 DEF StepChangesBundle
<1>7. CASE UNCHANGED vars
  BY <1>5, <1>6, <1>7 DEF vars
<1> QED
  <2>1. CASE \E p \in Patchers : Call(p) \/ Get(p) \/ Patch(p)
    BY <2>1, <1>1, <1>2, <1>3, <1>6
  <2>2. CASE \E conf \in Configs \cup {None} : Edit(conf)
    BY <2>2, <1>4, <1>6
  <2> QED
    BY <2>1, <2>2, <1>7 DEF Next

\* The variables keep their types, and no call answers nil in vain.
THEOREM InvAlways == Spec => []IInv
<1>1. Init => IInv
  <2>1. NoPatch \in [Names -> Fields]
    BY DEF NoPatch, Unchanged, Fields
  <2> QED
    BY <2>1 DEF Init, IInv, TypeOK, PatchInv, SeenInv, OkMeansPatched
<1> QED
  BY <1>1, InvStep, PTL DEF Spec

\* The registration, the calls and their patches keep their types.
THEOREM TypeCorrect == Spec => []TypeOK
BY InvAlways, PTL DEF IInv

\* A call that returns nil has seen the bundle in the entry, for any number of
\* patchers and editors (OkMeansPatched).
THEOREM OkCallsPatched == Spec => []OkMeansPatched
BY InvAlways, PTL DEF IInv

\* No patch undoes an edit, however old the copy it was built from
\* (OnlyBundleChanges).
THEOREM PatchesAreLocal == Spec => OnlyBundleChanges
<1>1. IInv /\ [Next]_vars =>
        [\A p \in Patchers : (pc[p] = "patch" /\ pc'[p] # "patch" /\ config' # config) =>
           /\ config[TargetOf[p]] # None
           /\ config' = [config EXCEPT ![TargetOf[p]].bundle = BundleOf[p]]]_vars
  BY InvStep DEF StepChangesBundle
<1> QED
  BY <1>1, InvAlways, PTL DEF Spec, OnlyBundleChanges
=============================================================================
