----------------------------- MODULE VaultMapCache -----------------------------
(***************************************************************************)
(* VaultMaps from the API server to the lister: clients write them through *)
(* the typed client (clientset/versioned/typed), the informer's ListFunc   *)
(* and WatchFunc (informers/.../vaultmap.go) feed client-go's reflector    *)
(* and queue, and the lister (listers/.../vaultmap.go) answers from the    *)
(* indexer.  The server is the log of its writes: the resource version of  *)
(* an object is the place of its last write in the log.                    *)
(***************************************************************************)
EXTENDS SequencesExt

CONSTANTS
  Keys,                  \* VaultMaps that may exist: [ns, name]
  Scopes,                \* namespaces the informer may be made for, or All
  Existing,              \* those created before the process started, in order
  All,                   \* v1.NamespaceAll
  MaxWrites              \* bound on the length of the log

Namespaces == {k.ns : k \in Keys}

ASSUME CacheAssumption ==
  /\ IsFiniteSet(Keys) /\ Keys # {} /\ \A k \in Keys : k = [ns |-> k.ns, name |-> k.name]
  /\ Existing \in Seq(Keys) /\ IsInjective(Existing)
  /\ MaxWrites \in Nat /\ Len(Existing) <= MaxWrites
  /\ All \notin Namespaces /\ Scopes \subseteq Namespaces \cup {All}

VARIABLES
  scope,                 \* namespace of the informer, or All
  log,                   \* writes: [key, kind]
  copy,                  \* an editor's copy of a VaultMap: [key, version]
  reflector, rv,         \* reflector's state, its last resource version
  position,              \* of the open watch in the log
  queue, pending,        \* keys with deltas, and the last delta of each
  populated, initial,    \* HasSynced: first list queued, items left of it
  first,                 \* history: resource version of the first list
  indexer                \* key -> version in the cache, Absent without one

serverVars == <<log, copy>>
queueVars == <<queue, pending, populated, initial, first>>
vars == <<scope, serverVars, reflector, rv, position, queueVars, indexer>>

Absent == 0
Versions == 0..MaxWrites

\* What a request addresses that names namespace ns.
InNamespace(ns) == {k \in Keys : ns \in {All, k.ns}}

\* The server's objects after its first n writes.
StateAt(n) ==
  [k \in Keys |->
    LET writes == {i \in 1..n : log[i].key = k}
    IN  IF writes = {} \/ log[Max(writes)].kind = "deleted" THEN Absent ELSE Max(writes)]
Now == Len(log)
Stored(k) == StateAt(Now)[k]

TypeOK ==
  /\ scope \in Scopes
  /\ log \in Seq([key : Keys, kind : {"added", "modified", "deleted"}])
  /\ Now \in Versions
  /\ copy \in [key : Keys, version : Versions]
  /\ reflector \in {"list", "watch", "watching"}
  /\ rv \in 0..Now /\ position \in 0..Now
  /\ queue \in Seq(InNamespace(scope)) /\ IsInjective(queue)
  /\ pending \in [Keys -> Versions]
  /\ \A k \in Keys : pending[k] # Absent => k \in ToSet(queue)
  /\ populated \in BOOLEAN /\ initial \in 0..Len(queue) /\ first \in 0..rv
  /\ indexer \in [Keys -> Versions]

Init ==
  /\ scope \in Scopes
  /\ log = [i \in DOMAIN Existing |-> [key |-> Existing[i], kind |-> "added"]]
  /\ copy = [key |-> CHOOSE k \in Keys : TRUE, version |-> Absent]
  /\ reflector = "list" /\ rv = 0 /\ position = 0
  /\ queue = <<>> /\ pending = [k \in Keys |-> Absent]
  /\ populated = FALSE /\ initial = 0 /\ first = 0
  /\ indexer = [k \in Keys |-> Absent]
-----------------------------------------------------------------------------
(* The typed client.  A call that fails at the server changes nothing.     *)
Write(key, kind) ==
  /\ Now < MaxWrites
  /\ log' = Append(log, [key |-> key, kind |-> kind])
  /\ UNCHANGED <<scope, reflector, rv, position, queueVars, indexer>>

Create(k) == Stored(k) = Absent /\ Write(k, "added") /\ UNCHANGED copy

\* The body carries the resource version of the copy; the server refuses a
\* copy that is not the object it has, and answers with the new one.
Update ==
  /\ copy.version # Absent /\ Stored(copy.key) = copy.version
  /\ Write(copy.key, "modified")
  /\ copy' = [copy EXCEPT !.version = Now + 1]

\* A patch without a resource version applies to what is there.
Patch(k) == Stored(k) # Absent /\ Write(k, "modified") /\ UNCHANGED copy

Delete(k) == Stored(k) # Absent /\ Write(k, "deleted") /\ UNCHANGED copy

\* The server deletes the objects of the namespace in some order, and may fail
\* on the way.  (Writes of others in between are steps between two Deletes.)
DeleteCollection(ns) ==
  \E S \in SUBSET {k \in InNamespace(ns) : Stored(k) # Absent}, n \in 2..Cardinality(Keys) :
    /\ Cardinality(S) = n /\ Now + n <= MaxWrites
    /\ \E order \in SetToSeqs(S) :
         log' = log \o [i \in 1..n |-> [key |-> order[i], kind |-> "deleted"]]
    /\ UNCHANGED <<scope, copy, reflector, rv, position, queueVars, indexer>>

Get(k) ==
  /\ Stored(k) # Absent
  /\ copy' = [key |-> k, version |-> Stored(k)]
  /\ UNCHANGED <<scope, log, reflector, rv, position, queueVars, indexer>>

\* What a list of ns shows that is answered from version n.
List(ns, n) == {k \in InNamespace(ns) : StateAt(n)[k] # Absent}
\* The writes a watch of ns from version n has still to report.
Watch(ns, n) == {i \in n + 1..Now : log[i].key \in InNamespace(ns)}
-----------------------------------------------------------------------------
(* The lister answers from the indexer.                                    *)
ListAll == {k \in Keys : indexer[k] # Absent}
ListEverywhere(ns) == ListAll
ListInNamespace(ns) == ListAll \cap InNamespace(ns)
GetByKey(ns, name) == indexer[[ns |-> ns, name |-> name]]

\* An editor may take its copy from the lister as well; it may be stale.
GetFromLister(k) ==
  /\ GetByKey(k.ns, k.name) # Absent
  /\ copy' = [key |-> k, version |-> GetByKey(k.ns, k.name)]
  /\ UNCHANGED <<scope, log, reflector, rv, position, queueVars, indexer>>
-----------------------------------------------------------------------------
(* The informer: ListFunc, WatchFunc, and the reflector that calls them.   *)
ListOneNamespace(n) == List(CHOOSE ns \in Namespaces : TRUE, n)
ListFunc(n) == List(scope, n)
WatchFromNow == Now
WatchFromStart == 0
WatchFrom == rv
WatchEverywhere == All
WatchScope == scope

\* The reflector lists with resource version 0, which the server answers from
\* its watch cache: late, but not before what it told this client already.
\* Queue.Replace: what was listed, and deletions of what is known otherwise.
Replace == \E n \in rv..Now :
  /\ reflector = "list"
  /\ LET listed == ListFunc(n)
         gone == {k \in Keys \ listed : indexer[k] # Absent \/ k \in ToSet(queue)}
     IN  /\ pending' = [k \in Keys |-> IF k \in listed THEN StateAt(n)[k]
                                       ELSE IF k \in gone THEN Absent ELSE pending[k]]
         /\ \E order \in SetToSeqs((listed \cup gone) \ ToSet(queue)) : queue' = queue \o order
         /\ IF populated THEN UNCHANGED <<initial, first>>
            ELSE initial' = Cardinality(listed) /\ first' = n
  /\ populated' = TRUE
  /\ rv' = n /\ reflector' = "watch"
  /\ UNCHANGED <<scope, serverVars, position, indexer>>

OpenWatch ==
  /\ reflector = "watch"
  /\ reflector' = "watching" /\ position' = WatchFrom
  /\ UNCHANGED <<scope, serverVars, rv, queueVars, indexer>>

\* A refused watch makes the reflector list again.
RefuseWatch ==
  /\ reflector = "watch"
  /\ reflector' = "list"
  /\ UNCHANGED <<scope, serverVars, rv, position, queueVars, indexer>>

WatchFunc == Watch(WatchScope, position)
Deliver ==
  /\ reflector = "watching" /\ WatchFunc # {}
  /\ LET i == Min(WatchFunc)
         key == log[i].key
     IN  /\ pending' = [pending EXCEPT ![key] = IF log[i].kind = "deleted" THEN Absent ELSE i]
         /\ queue' = IF key \in ToSet(queue) THEN queue ELSE Append(queue, key)
         /\ rv' = i /\ position' = i
  /\ UNCHANGED <<scope, serverVars, reflector, populated, initial, first, indexer>>

\* A watch that times out is opened again, a broken one ends in a list.
CloseWatch ==
  /\ reflector = "watching"
  /\ reflector' \in {"watch", "list"}
  /\ position' = 0
  /\ UNCHANGED <<scope, serverVars, rv, queueVars, indexer>>

\* The informer's goroutine takes one key with all its deltas.
Pop ==
  /\ queue # <<>>
  /\ indexer' = [indexer EXCEPT ![Head(queue)] = pending[Head(queue)]]
  /\ pending' = [pending EXCEPT ![Head(queue)] = Absent]
  /\ queue' = Tail(queue)
  /\ initial' = IF initial > 0 THEN initial - 1 ELSE 0
  /\ UNCHANGED <<scope, serverVars, reflector, rv, position, populated, first>>

HasSynced == populated /\ initial = 0
-----------------------------------------------------------------------------
Client ==
  \/ Update
  \/ \E k \in Keys : Create(k) \/ Patch(k) \/ Delete(k) \/ Get(k) \/ GetFromLister(k)
  \/ \E ns \in Namespaces \cup {All} : DeleteCollection(ns)
Next == Client \/ Replace \/ OpenWatch \/ RefuseWatch \/ Deliver \/ CloseWatch \/ Pop

Spec == Init /\ [][Next]_vars

\* The reflector retries failed lists and watches for ever and the informer's
\* goroutine runs; a server asked again and again for a watch grants one in the
\* end, and one that is opened again and again delivers.  Nobody has to write,
\* any watch may break, and any list may be late.
FairSpec ==
  /\ Spec
  /\ WF_vars(Replace) /\ WF_vars(Pop)
  /\ SF_vars(OpenWatch) /\ SF_vars(Deliver)
-----------------------------------------------------------------------------
(* Properties.                                                             *)

\* Does the lister answer with the objects in state, and only for the
\* namespace it is asked for?
ListerAnswers(state) ==
  LET shown == {k \in InNamespace(scope) : state[k] # Absent}
  IN  /\ \A k \in Keys : GetByKey(k.ns, k.name) = IF k \in shown THEN state[k] ELSE Absent
      /\ \A ns \in Namespaces \cup {All} : ListInNamespace(ns) = shown \cap InNamespace(ns)

\* With nothing queued, the lister answers with one state the server really
\* had, that of the reflector's resource version: between the list and the
\* watch, and from one watch to the next, no write is lost or mixed in.
ListerIsSnapshot == (populated /\ queue = <<>>) => ListerAnswers(StateAt(rv))

\* Once HasSynced answers true, which Run waits for (webhook.go:208), whatever
\* the first list had is in the lister, unless it was deleted since.
SyncedMeansListed ==
  HasSynced => \A k \in InNamespace(scope) : StateAt(first)[k] # Absent =>
    \/ GetByKey(k.ns, k.name) >= StateAt(first)[k]
    \/ \E i \in first + 1..Now : log[i].key = k /\ log[i].kind = "deleted"

\* A VaultMap that the lister shows is never replaced by an older version of it,
\* whichever watches break and are opened again: a new watch goes on where the
\* last one ended (informers/.../vaultmap.go:70).  That a list is not older than
\* what was told before is taken from the server.
ListerNeverGoesBack ==
  [][\A k \in Keys : indexer'[k] # Absent => indexer[k] <= indexer'[k]]_vars

\* Once the clients stop writing, the lister ends up with the server's objects
\* and keeps them, whichever watches break.
ListerCatchesUp == <>[]ListerAnswers(StateAt(Now))
=============================================================================
