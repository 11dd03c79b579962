-------------------------- MODULE VaultMapCacheProofs --------------------------
(***************************************************************************)
(* Proofs about VaultMapCache, for any VaultMaps, scopes and number of     *)
(* writes.  What the server's state is after n writes is characterised     *)
(* without Max, by the last write of a key; from then on the invariant is  *)
(* about what the queue and the indexer show together.                     *)
(***************************************************************************)
EXTENDS VaultMapCache, FiniteSetTheorems, SequenceTheorems, WellFoundedInduction, TLAPS

-----------------------------------------------------------------------------
(* The first and the last of a set of numbers.                             *)

\* A set of numbers that is not empty has a smallest one,
LEMMA SmallestExists ==
  ASSUME NEW S \in SUBSET Nat, S # {}
  PROVE  \E x \in S : \A y \in S : x <= y
<1>1. PICK x \in S : \A y \in S : ~(<<y, x>> \in OpToRel(<, Nat))
  BY NatLessThanWellFounded, WFMin
<1>2. \A y \in S : ~(y < x)
  BY <1>1, Zenon DEF OpToRel
<1> QED
  BY <1>2

\* and a largest one when it is bounded.
LEMMA LargestExists ==
  ASSUME NEW n \in Nat, NEW S \in SUBSET (0..n), S # {}
  PROVE  \E x \in S : \A y \in S : y <= x
<1> DEFINE T == {m \in Nat : n - m \in S}
<1>1. T # {}
  <2>1. PICK y \in S : TRUE
    OBVIOUS
  <2>2. n - y \in Nat /\ n - (n - y) = y
    BY <2>1
  <2> QED
    BY <2>1, <2>2
<1>2. PICK m \in T : \A y \in T : m <= y
  BY <1>1, SmallestExists
<1>3. n - m \in S
  BY <1>2
<1>4. ASSUME NEW y \in S
      PROVE  y <= n - m
  <2>1. n - y \in Nat /\ n - (n - y) = y
    OBVIOUS
  <2>2. n - y \in T
    BY <2>1
  <2>3. m <= n - y /\ m \in Nat
    BY <1>2, <2>2
  <2> QED
    BY <2>1, <2>3
<1> QED
  BY <1>3, <1>4

\* What the library's Min is.
LEMMA MinOf ==
  ASSUME NEW S \in SUBSET Nat, S # {}
  PROVE  Min(S) \in S /\ \A y \in S : Min(S) <= y
BY SmallestExists DEF Min

\* What the library's Max is.
LEMMA MaxOf ==
  ASSUME NEW n \in Nat, NEW S \in SUBSET (0..n), S # {}
  PROVE  Max(S) \in S /\ \A y \in S : y <= Max(S)
<1>1. PICK x \in S : \A y \in S : x >= y
  BY LargestExists
<1> QED
  BY <1>1 DEF Max
-----------------------------------------------------------------------------
(* The server's state after n writes.                                      *)

Writes == [key : Keys, kind : {"added", "modified", "deleted"}]
LogType == log \in Seq(Writes)

\* The log is a sequence; Now is its length.
LEMMA LogFacts ==
  ASSUME LogType
  PROVE  /\ Now \in Nat
         /\ \A i \in 1..Now : log[i].key \in Keys /\ log[i].kind \in {"added", "modified", "deleted"}
<1>1. Now \in Nat /\ \A i \in 1..Now : log[i] \in Writes
  BY DEF LogType, Now
<1> QED
  BY <1>1 DEF Writes

\* The last of the first n writes of k is write i.
LastWrite(n, k, i) ==
  /\ i \in 1..n /\ log[i].key = k
  /\ \A j \in i + 1..n : log[j].key # k

\* An object's state is what its last write made of it.
LEMMA StateIs ==
  ASSUME LogType, NEW n \in 0..Now, NEW k \in Keys
  PROVE  \/ (\A i \in 1..n : log[i].key # k) /\ StateAt(n)[k] = Absent
         \/ \E i \in 1..n : /\ LastWrite(n, k, i)
                            /\ StateAt(n)[k] = IF log[i].kind = "deleted" THEN Absent ELSE i
<1> DEFINE writes == {i \in 1..n : log[i].key = k}
<1>1. StateAt(n)[k] = IF writes = {} \/ log[Max(writes)].kind = "deleted" THEN Absent ELSE Max(writes)
  BY DEF StateAt
<1>2. CASE writes = {}
  BY <1>1, <1>2
<1>3. CASE writes # {}
  <2>1. n \in Nat /\ writes \in SUBSET (0..n)
    BY LogFacts
  <2>2. Max(writes) \in writes /\ \A y \in writes : y <= Max(writes)
    BY <1>3, <2>1, MaxOf
  <2>3. LastWrite(n, k, Max(writes))
    <3>1. \A j \in Max(writes) + 1..n : j \in 1..n /\ ~(j <= Max(writes))
      BY <2>1, <2>2
    <3>2. \A j \in Max(writes) + 1..n : log[j].key # k
      BY <2>2, <3>1
    <3> QED
      BY <2>2, <3>2 DEF LastWrite
  <2> QED
    BY <1>1, <1>3, <2>2, <2>3
<1> QED
  BY <1>2, <1>3

\* The last write alone says what the state is.
LEMMA StateByLast ==
  ASSUME LogType, NEW n \in 0..Now, NEW k \in Keys, NEW i, LastWrite(n, k, i)
  PROVE  StateAt(n)[k] = IF log[i].kind = "deleted" THEN Absent ELSE i
<1>1. n \in Nat /\ i \in 1..n /\ log[i].key = k
  BY LogFacts DEF LastWrite
<1>2. \A j \in 1..n : LastWrite(n, k, j) => j = i
  BY <1>1 DEF LastWrite
<1> QED
  BY <1>1, <1>2, StateIs

\* States are versions that were written by then.
LEMMA StateType ==
  ASSUME LogType, NEW n \in 0..Now, NEW k \in Keys
  PROVE  StateAt(n)[k] \in 0..n
BY StateIs, LogFacts DEF Absent

\* Writes of others change nothing.
LEMMA StateKept ==
  ASSUME LogType, NEW n \in 0..Now, NEW m \in n..Now, NEW k \in Keys,
         \A j \in n + 1..m : log[j].key # k
  PROVE  StateAt(m)[k] = StateAt(n)[k]
<1>1. n \in Nat /\ m \in 0..Now /\ m \in Nat
  BY LogFacts
<1>2. CASE \A i \in 1..n : log[i].key # k
  BY <1>1, <1>2, StateIs DEF LastWrite
<1>3. CASE \E i \in 1..n : /\ LastWrite(n, k, i)
                           /\ StateAt(n)[k] = IF log[i].kind = "deleted" THEN Absent ELSE i
  <2>1. PICK i \in 1..n : /\ LastWrite(n, k, i)
                          /\ StateAt(n)[k] = IF log[i].kind = "deleted" THEN Absent ELSE i
    BY <1>3
  <2>2. LastWrite(m, k, i)
    BY <1>1, <2>1 DEF LastWrite
  <2> QED
    BY <1>1, <2>1, <2>2, StateByLast
<1> QED
  BY <1>2, <1>3, StateIs

\* An object that was there is there in its version or a later one, unless it
\* has been deleted since.
DeletedSince(n, k) == \E i \in n + 1..Now : log[i].key = k /\ log[i].kind = "deleted"
\* Versions of an object only grow while it is not deleted.
LEMMA StateGrows ==
  ASSUME LogType, NEW n \in 0..Now, NEW m \in n..Now, NEW k \in Keys, StateAt(n)[k] # Absent
  PROVE  StateAt(m)[k] >= StateAt(n)[k] \/ DeletedSince(n, k)
<1>1. n \in Nat /\ m \in 0..Now /\ m \in Nat /\ Now \in Nat
  BY LogFacts
<1>2. PICK i \in 1..n : LastWrite(n, k, i) /\ StateAt(n)[k] = i
  BY StateIs
<1>3. PICK j \in 1..m : /\ LastWrite(m, k, j)
                        /\ StateAt(m)[k] = IF log[j].kind = "deleted" THEN Absent ELSE j
  BY <1>1, <1>2, StateIs DEF LastWrite
<1>4. j >= i
  BY <1>1, <1>2, <1>3 DEF LastWrite
<1>5. CASE log[j].kind = "deleted"
  <2>1. j # i
    BY <1>2, <1>5, StateByLast DEF Absent
  <2>2. j \notin 1..n
    BY <1>1, <1>2, <1>3, <1>4, <2>1 DEF LastWrite
  <2> QED
    BY <1>1, <1>3, <1>5, <2>2 DEF DeletedSince, LastWrite
<1> QED
  BY <1>1, <1>2, <1>3, <1>4, <1>5

\* Writing does not change what was.
Extends == /\ LogType /\ LogType' /\ Now <= Now'
           /\ \A i \in 1..Now : log'[i] = log[i]
\* What the log gets later changes no past state.
LEMMA StatePast ==
  ASSUME Extends, NEW n \in 0..Now
  PROVE  StateAt(n)' = StateAt(n)
<1>1. \A k \in Keys : {i \in 1..n : log'[i].key = k} = {i \in 1..n : log[i].key = k}
  BY LogFacts DEF Extends
<1>2. \A k \in Keys : LET writes == {i \in 1..n : log[i].key = k}
                      IN  writes # {} => log'[Max(writes)] = log[Max(writes)]
  <2>1. TAKE k \in Keys
  <2> DEFINE writes == {i \in 1..n : log[i].key = k}
  <2>2. n \in Nat /\ writes \in SUBSET (0..n)
    BY LogFacts DEF Extends
  <2>3. writes # {} => Max(writes) \in writes
    BY <2>2, MaxOf
  <2> QED
    BY <2>3, LogFacts DEF Extends
<1> QED
  BY <1>1, <1>2 DEF StateAt
-----------------------------------------------------------------------------
(* Sequences without repetition.                                           *)

\* The elements of a queue by their places.
LEMMA ToSetOf ==
  ASSUME NEW S, NEW q \in Seq(S)
  PROVE  /\ DOMAIN q = 1..Len(q) /\ Len(q) \in Nat
         /\ ToSet(q) = {q[i] : i \in 1..Len(q)}
BY DEF ToSet

\* Two queues without duplicates and without common elements, one behind the other.
LEMMA ConcatNew ==
  ASSUME NEW S, NEW q \in Seq(S), NEW o \in Seq(S), IsInjective(q), IsInjective(o),
         ToSet(q) \cap ToSet(o) = {}
  PROVE  /\ q \o o \in Seq(S) /\ IsInjective(q \o o)
         /\ ToSet(q \o o) = ToSet(q) \cup ToSet(o)
         /\ Len(q \o o) = Len(q) + Len(o)
         /\ \A j \in 1..Len(q) : (q \o o)[j] = q[j]
<1> DEFINE c == q \o o
<1>1. /\ c \in Seq(S) /\ Len(c) = Len(q) + Len(o) /\ Len(q) \in Nat /\ Len(o) \in Nat
      /\ \A i \in 1..Len(c) : c[i] = IF i <= Len(q) THEN q[i] ELSE o[i - Len(q)]
  BY ConcatProperties
<1> HIDE DEF c
<1>2. \A i \in 1..Len(q) : i \in 1..Len(c) /\ c[i] = q[i]
  BY <1>1
<1>3. \A i \in 1..Len(o) : Len(q) + i \in 1..Len(c) /\ c[Len(q) + i] = o[i]
  BY <1>1
<1>4. \A i \in 1..Len(c) : i \in 1..Len(q) \/ (i - Len(q) \in 1..Len(o) /\ c[i] = o[i - Len(q)])
  BY <1>1
<1>5. ToSet(c) = ToSet(q) \cup ToSet(o)
  <2>1. /\ ToSet(c) = {c[i] : i \in 1..Len(c)} /\ ToSet(q) = {q[i] : i \in 1..Len(q)}
        /\ ToSet(o) = {o[i] : i \in 1..Len(o)}
    BY <1>1, ToSetOf
  <2>2. \A i \in 1..Len(c) : c[i] \in ToSet(q) \cup ToSet(o)
    BY <1>2, <1>4, <2>1
  <2>3. (\A i \in 1..Len(q) : q[i] \in ToSet(c)) /\ (\A i \in 1..Len(o) : o[i] \in ToSet(c))
    <3>1. \A i \in 1..Len(c) : c[i] \in ToSet(c)
      BY <2>1
    <3> QED
      BY <1>2, <1>3, <3>1
  <2>4. ToSet(c) \subseteq ToSet(q) \cup ToSet(o)
    BY <2>1, <2>2
  <2>5. ToSet(q) \cup ToSet(o) \subseteq ToSet(c)
    BY <2>1, <2>3
  <2> QED
    BY <2>4, <2>5
<1>6. \A i \in 1..Len(q), j \in 1..Len(o) : q[i] # o[j]
  <2>1. \A i \in 1..Len(q) : q[i] \in ToSet(q)
    BY ToSetOf
  <2>2. \A j \in 1..Len(o) : o[j] \in ToSet(o)
    BY ToSetOf
  <2> QED
    BY <2>1, <2>2
<1>7. IsInjective(c)
  <2>1. SUFFICES ASSUME NEW a \in 1..Len(c), NEW b \in 1..Len(c), c[a] = c[b]
                 PROVE  a = b
    BY <1>1 DEF IsInjective
  <2>2. /\ \A i, j \in 1..Len(q) : q[i] = q[j] => i = j
        /\ \A i, j \in 1..Len(o) : o[i] = o[j] => i = j
    BY DEF IsInjective
  <2>3. CASE a \in 1..Len(q) /\ b \in 1..Len(q)
    BY <1>2, <2>1, <2>2, <2>3
  <2>4. CASE a \notin 1..Len(q) /\ b \notin 1..Len(q)
    <3>1. /\ a - Len(q) \in 1..Len(o) /\ c[a] = o[a - Len(q)]
          /\ b - Len(q) \in 1..Len(o) /\ c[b] = o[b - Len(q)]
      BY <1>4, <2>4
    <3>2. a - Len(q) = b - Len(q)
      BY <2>1, <2>2, <3>1
    <3> QED
      BY <1>1, <3>2
  <2>5. CASE (a \in 1..Len(q)) # (b \in 1..Len(q))
    <3>1. CASE a \in 1..Len(q) /\ b \notin 1..Len(q)
      <4>1. c[a] = q[a] /\ b - Len(q) \in 1..Len(o) /\ c[b] = o[b - Len(q)]
        BY <1>2, <1>4, <3>1
      <4> QED
        BY <1>6, <2>1, <3>1, <4>1
    <3>2. CASE a \notin 1..Len(q) /\ b \in 1..Len(q)
      <4>1. c[b] = q[b] /\ a - Len(q) \in 1..Len(o) /\ c[a] = o[a - Len(q)]
        BY <1>2, <1>4, <3>2
      <4> QED
        BY <1>6, <2>1, <3>2, <4>1
    <3> QED
      BY <2>5, <3>1, <3>2
  <2> QED
    BY <2>3, <2>4, <2>5
<1> QED
  BY <1>1, <1>2, <1>5, <1>7 DEF c

\* A new element behind a queue.
LEMMA AppendNew ==
  ASSUME NEW S, NEW q \in Seq(S), IsInjective(q), NEW x \in S, x \notin ToSet(q)
  PROVE  /\ Append(q, x) \in Seq(S) /\ IsInjective(Append(q, x))
         /\ ToSet(Append(q, x)) = ToSet(q) \cup {x}
         /\ Len(Append(q, x)) = Len(q) + 1
         /\ \A j \in 1..Len(q) : Append(q, x)[j] = q[j]
<1>1. Append(q, x) = q \o <<x>>
  BY AppendIsConcat
<1>2. <<x>> \in Seq(S) /\ Len(<<x>>) = 1 /\ ToSet(<<x>>) = {x} /\ IsInjective(<<x>>)
  BY DEF ToSet, IsInjective
<1> DEFINE o == <<x>>
<1>3. ToSet(q) \cap ToSet(o) = {}
  BY <1>2
<1> HIDE DEF o
<1>4. /\ q \o o \in Seq(S) /\ IsInjective(q \o o)
      /\ ToSet(q \o o) = ToSet(q) \cup ToSet(o)
      /\ Len(q \o o) = Len(q) + Len(o)
      /\ \A j \in 1..Len(q) : (q \o o)[j] = q[j]
  <2>1. o \in Seq(S) /\ IsInjective(o)
    BY <1>2 DEF o
  <2> QED
    BY <1>3, <2>1, ConcatNew
<1>5. ToSet(o) = {x} /\ Len(o) = 1 /\ Append(q, x) = q \o o
  BY <1>1, <1>2 DEF o
<1> QED
  BY <1>4, <1>5

\* What Pop takes from a queue and what it leaves.
LEMMA TailOf ==
  ASSUME NEW S, NEW q \in Seq(S), IsInjective(q), q # <<>>
  PROVE  /\ Head(q) \in ToSet(q) /\ Head(q) = q[1]
         /\ Tail(q) \in Seq(S) /\ IsInjective(Tail(q)) /\ Len(q) \in Nat /\ Len(q) > 0
         /\ ToSet(Tail(q)) = ToSet(q) \ {Head(q)}
         /\ Len(Tail(q)) = Len(q) - 1
         /\ \A j \in 1..Len(q) - 1 : Tail(q)[j] = q[j + 1]
<1> DEFINE t == Tail(q)
<1>1. /\ t \in Seq(S) /\ Len(t) = Len(q) - 1 /\ Len(q) \in Nat /\ Len(q) > 0
      /\ \A j \in 1..Len(q) - 1 : t[j] = q[j + 1]
      /\ Head(q) = q[1]
  <2>1. Len(q) \in Nat /\ Len(q) > 0 /\ Head(q) = q[1]
    OBVIOUS
  <2>2. /\ t \in Seq(S) /\ Len(t) = Len(q) - 1
        /\ \A j \in 1..Len(t) : t[j] = q[j + 1]
    BY HeadTailProperties
  <2> QED
    BY <2>1, <2>2
<1> HIDE DEF t
<1>2. \A i, j \in 1..Len(q) : q[i] = q[j] => i = j
  BY DEF IsInjective
<1>3. ToSet(t) = {t[i] : i \in 1..Len(q) - 1} /\ ToSet(q) = {q[i] : i \in 1..Len(q)}
  BY <1>1, ToSetOf
<1>4. IsInjective(t)
  <2>1. SUFFICES ASSUME NEW a \in 1..Len(q) - 1, NEW b \in 1..Len(q) - 1, t[a] = t[b]
                 PROVE  a = b
    BY <1>1 DEF IsInjective
  <2>2. a + 1 \in 1..Len(q) /\ b + 1 \in 1..Len(q) /\ q[a + 1] = q[b + 1]
    BY <1>1, <2>1
  <2>3. a + 1 = b + 1
    BY <1>2, <2>2
  <2> QED
    BY <2>3
<1>5. \A i \in 1..Len(q) : i = 1 \/ (i - 1 \in 1..Len(q) - 1 /\ t[i - 1] = q[i])
  BY <1>1
<1>6. \A j \in 1..Len(q) - 1 : j + 1 \in 1..Len(q) /\ q[j + 1] # q[1] /\ t[j] = q[j + 1]
  BY <1>1, <1>2
<1>7. ToSet(t) = ToSet(q) \ {q[1]}
  BY <1>3, <1>5, <1>6
<1> QED
  BY <1>1, <1>3, <1>4, <1>7 DEF t

\* The orders a set may be visited in.
LEMMA OrderOf ==
  ASSUME NEW S, IsFiniteSet(S), NEW o \in SetToSeqs(S)
  PROVE  o \in Seq(S) /\ IsInjective(o) /\ ToSet(o) = S /\ Len(o) = Cardinality(S)
<1> DEFINE n == Cardinality(S)
<1>1. n \in Nat
  BY FS_CardinalityType
<1>2. o \in [1..n -> S] /\ \A i, j \in 1..n : i # j => o[i] # o[j]
  BY DEF SetToSeqs
<1> HIDE DEF n
<1>3. o \in Seq(S) /\ Len(o) = n /\ DOMAIN o = 1..n
  BY <1>1, <1>2
<1>4. IsInjective(o)
  BY <1>2, <1>3 DEF IsInjective
<1>5. o \in Injection(1..n, S)
  BY <1>2, <1>4 DEF Injection
<1>6. Cardinality(1..n) = Cardinality(S)
  BY <1>1, FS_Interval DEF n
<1>7. o \in Surjection(1..n, S)
  BY <1>5, <1>6, FS_Injection
<1>8. ToSet(o) = S
  BY <1>2, <1>3, <1>7 DEF Surjection, ToSet
<1> QED
  BY <1>3, <1>4, <1>8 DEF n
-----------------------------------------------------------------------------
(* The invariant.                                                          *)

\* What the lister will show of k once what is queued is popped.
View(k) == IF k \in ToSet(queue) THEN pending[k] ELSE indexer[k]

AtPosition == reflector = "watching" => position = rv

BeforeFirstList ==
  ~populated => reflector = "list" /\ queue = <<>> /\ \A k \in Keys : indexer[k] = Absent

\* Queue and indexer together show the state at the resource version.
Shows ==
  populated => \A n \in 0..Now, k \in Keys : n = rv =>
    View(k) = IF k \in InNamespace(scope) THEN StateAt(n)[k] ELSE Absent

\* What the first list had is still among the initial items, or was popped.
FirstListed ==
  populated => \A n \in 0..Now, k \in InNamespace(scope) :
    (n = first /\ StateAt(n)[k] # Absent) =>
      \/ \E j \in 1..initial : queue[j] = k
      \/ indexer[k] >= StateAt(n)[k]
      \/ DeletedSince(n, k)

IInv == TypeOK /\ AtPosition /\ BeforeFirstList /\ Shows /\ FirstListed

\* The facts that the type invariant states, in the form the proofs need them.
LEMMA Types ==
  ASSUME TypeOK
  PROVE  /\ LogType /\ Now \in Nat /\ Now <= MaxWrites /\ MaxWrites \in Nat
         /\ rv \in Nat /\ rv <= Now /\ first \in Nat /\ first <= rv /\ position \in Nat /\ position <= Now
         /\ InNamespace(scope) \subseteq Keys
         /\ DOMAIN queue = 1..Len(queue) /\ Len(queue) \in Nat
         /\ ToSet(queue) \subseteq InNamespace(scope)
         /\ ToSet(queue) = {queue[i] : i \in 1..Len(queue)}
<1>1. LogType
  BY DEF TypeOK, LogType, Writes
<1>2. Now \in Nat
  BY <1>1, LogFacts
<1>3. queue \in Seq(InNamespace(scope))
  BY DEF TypeOK
<1>4. ToSet(queue) = {queue[i] : i \in 1..Len(queue)} /\ Len(queue) \in Nat /\ DOMAIN queue = 1..Len(queue)
  BY <1>3, ToSetOf
<1>5. ToSet(queue) \subseteq InNamespace(scope)
  BY <1>3, <1>4
<1>6. rv \in 0..Now /\ first \in 0..rv /\ position \in 0..Now /\ Now \in 0..MaxWrites
  BY DEF TypeOK, Versions
<1> QED
  BY <1>1, <1>2, <1>4, <1>5, <1>6, CacheAssumption DEF InNamespace

\* A write, be it one or several.
LEMMA WritesKeep ==
  ASSUME IInv, Extends, UNCHANGED <<scope, reflector, rv, position, queueVars, indexer>>,
         copy' \in [key : Keys, version : Versions], Now' <= MaxWrites
  PROVE  IInv'
<1>1. /\ LogType /\ LogType' /\ Now \in Nat /\ Now' \in Nat /\ Now <= Now'
      /\ \A i \in 1..Now : log'[i] = log[i]
  <2>1. Now' \in Nat
    BY DEF Extends, LogType, Now
  <2> QED
    BY <2>1, LogFacts DEF Extends
<1>2. \A n \in 0..Now : StateAt(n)' = StateAt(n)
  BY StatePast
<1>3. UNCHANGED <<scope, reflector, rv, position, queue, pending, populated, initial, first, indexer>>
  BY DEF queueVars
<1>4. InNamespace(scope)' = InNamespace(scope)
  BY <1>3 DEF InNamespace
<1>5. TypeOK'
  <2>1. rv \in 0..Now' /\ position \in 0..Now' /\ Now' \in 0..MaxWrites
    BY <1>1, Types DEF IInv
  <2>2. log' \in Seq([key : Keys, kind : {"added", "modified", "deleted"}])
    BY <1>1 DEF LogType, Writes
  <2> QED
    BY <1>3, <1>4, <2>1, <2>2 DEF IInv, TypeOK, Versions
<1>6. AtPosition' /\ BeforeFirstList'
  BY <1>3 DEF IInv, AtPosition, BeforeFirstList
<1>7. Shows'
  <2>1. SUFFICES ASSUME populated, NEW n \in 0..Now', NEW k \in Keys, n = rv
                 PROVE  View(k)' = IF k \in InNamespace(scope) THEN StateAt(n)'[k] ELSE Absent
    BY <1>3, <1>4 DEF Shows
  <2>2. n \in 0..Now
    BY <2>1, Types DEF IInv
  <2>3. View(k)' = View(k)
    BY <1>3 DEF View
  <2> QED
    BY <1>2, <2>1, <2>2, <2>3 DEF IInv, Shows
<1>8. FirstListed'
  <2>1. SUFFICES ASSUME populated, NEW n \in 0..Now', NEW k \in InNamespace(scope),
                        n = first, StateAt(n)'[k] # Absent
                 PROVE  \/ \E j \in 1..initial : queue[j] = k
                        \/ indexer[k] >= StateAt(n)'[k]
                        \/ DeletedSince(n, k)'
    BY <1>3, <1>4 DEF FirstListed
  <2>2. n \in 0..Now
    BY <2>1, Types DEF IInv
  <2>3. DeletedSince(n, k) => DeletedSince(n, k)'
    BY <1>1, <2>2 DEF DeletedSince
  <2> QED
    BY <1>2, <2>1, <2>2, <2>3 DEF IInv, FirstListed
<1> QED
  BY <1>5, <1>6, <1>7, <1>8 DEF IInv

\* Create, Update, Patch and Delete keep the invariant.
LEMMA WriteKeeps ==
  ASSUME IInv, NEW k \in Keys, NEW kind \in {"added", "modified", "deleted"},
         Write(k, kind), copy' \in [key : Keys, version : Versions]
  PROVE  IInv' /\ Extends /\ UNCHANGED <<scope, reflector, rv, position, queueVars, indexer>>
<1> DEFINE w == [key |-> k, kind |-> kind]
<1>1. /\ log' = Append(log, w) /\ Now < MaxWrites /\ Now \in Nat /\ MaxWrites \in Nat
      /\ UNCHANGED <<scope, reflector, rv, position, queueVars, indexer>>
  BY Types DEF Write, IInv
<1>2. w \in Writes /\ log \in Seq(Writes)
  BY Types DEF Writes, IInv, LogType
<1> HIDE DEF w
<1>3. /\ log' \in Seq(Writes) /\ Now' = Now + 1 /\ log'[Now + 1] = w
      /\ \A i \in 1..Now : log'[i] = log[i]
  <2>1. /\ Append(log, w) \in Seq(Writes) /\ Len(Append(log, w)) = Len(log) + 1
        /\ \A i \in 1..Len(log) : Append(log, w)[i] = log[i]
        /\ Append(log, w)[Len(log) + 1] = w
    BY <1>2, AppendProperties
  <2>2. Now' = Len(log') /\ Now = Len(log)
    BY DEF Now
  <2>3. /\ log' \in Seq(Writes) /\ Len(log') = Len(log) + 1 /\ log'[Len(log) + 1] = w
        /\ \A i \in 1..Len(log) : log'[i] = log[i]
    BY <1>1, <2>1
  <2> QED
    BY <2>2, <2>3
<1>4. Extends
  <2>1. LogType /\ LogType'
    BY <1>2, <1>3 DEF LogType
  <2>2. Now <= Now'
    BY <1>1, <1>3
  <2>3. \A i \in 1..Now : log'[i] = log[i]
    BY <1>3
  <2> QED
    BY <2>1, <2>2, <2>3 DEF Extends
<1>5. Now' <= MaxWrites
  BY <1>1, <1>3
<1> QED
  BY <1>1, <1>4, <1>5, WritesKeep

\* DeleteCollection keeps the invariant.
LEMMA DeleteCollectionKeeps ==
  ASSUME IInv, NEW ns, DeleteCollection(ns)
  PROVE  IInv' /\ Extends /\ UNCHANGED <<scope, reflector, rv, position, queueVars, indexer>>
<1>1. PICK S \in SUBSET {k \in InNamespace(ns) : Stored(k) # Absent}, n \in 2..Cardinality(Keys) :
        /\ Cardinality(S) = n /\ Now + n <= MaxWrites
        /\ \E order \in SetToSeqs(S) :
             log' = log \o [i \in 1..n |-> [key |-> order[i], kind |-> "deleted"]]
        /\ UNCHANGED <<scope, copy, reflector, rv, position, queueVars, indexer>>
  BY DEF DeleteCollection
<1>2. PICK order \in SetToSeqs(S) :
        log' = log \o [i \in 1..n |-> [key |-> order[i], kind |-> "deleted"]]
  BY <1>1
<1> DEFINE new == [i \in 1..n |-> [key |-> order[i], kind |-> "deleted"]]
<1>3. S \subseteq Keys /\ IsFiniteSet(S) /\ n \in Nat
  <2>1. S \subseteq Keys
    BY DEF InNamespace
  <2> QED
    BY <2>1, FS_Subset, CacheAssumption
<1>4. \A i \in 1..n : order[i] \in Keys
  <2>1. order \in [1..n -> S]
    BY <1>1 DEF SetToSeqs
  <2> QED
    BY <1>3, <2>1
<1>5. LogType /\ Now \in Nat /\ MaxWrites \in Nat /\ Now <= MaxWrites
  BY Types DEF IInv
<1>6. \A i \in 1..n : new[i] \in Writes
  BY <1>4 DEF Writes
<1>7. new \in Seq(Writes) /\ Len(new) = n
  BY <1>3, <1>6
<1> HIDE DEF new
<1>8. /\ log' \in Seq(Writes) /\ Now' = Now + n
      /\ \A i \in 1..Now : log'[i] = log[i]
      /\ \A i \in Now + 1..Now + n : log'[i] = new[i - Now] /\ i - Now \in 1..n
  <2>1. log \in Seq(Writes) /\ log' = log \o new
    BY <1>2, <1>5 DEF LogType, new
  <2>2. /\ log' \in Seq(Writes) /\ Len(log') = Len(log) + n
        /\ \A i \in 1..Len(log) + n : log'[i] = IF i <= Len(log) THEN log[i] ELSE new[i - Len(log)]
    BY <1>7, <2>1, ConcatProperties
  <2>3. Now' = Len(log') /\ Now = Len(log)
    BY DEF Now
  <2>4. /\ log' \in Seq(Writes) /\ Now' = Now + n
        /\ \A i \in 1..Now + n : log'[i] = IF i <= Now THEN log[i] ELSE new[i - Now]
    BY <2>2, <2>3
  <2>5. \A i \in 1..Now : i \in 1..Now + n /\ i <= Now
    BY <1>3, <1>5
  <2>6. \A i \in Now + 1..Now + n : i \in 1..Now + n /\ ~(i <= Now) /\ i - Now \in 1..n
    BY <1>3, <1>5
  <2> QED
    BY <2>4, <2>5, <2>6
<1>9. Extends
  BY <1>3, <1>5, <1>8 DEF Extends, LogType
<1>10. copy' \in [key : Keys, version : Versions]
  BY <1>1 DEF IInv, TypeOK
<1>11. UNCHANGED <<scope, reflector, rv, position, queueVars, indexer>> /\ Now' <= MaxWrites
  BY <1>1, <1>8
<1> QED
  BY <1>9, <1>10, <1>11, WritesKeep

\* Everything a client does keeps the invariant.
LEMMA ClientKeeps ==
  ASSUME IInv, Client
  PROVE  IInv' /\ Extends /\ UNCHANGED <<scope, reflector, rv, position, queueVars, indexer>>
<1>1. Now \in Nat /\ MaxWrites \in Nat /\ LogType /\ copy \in [key : Keys, version : Versions]
  BY Types DEF IInv, TypeOK
<1>2. ASSUME NEW k \in Keys
      PROVE  Stored(k) \in 0..Now /\ Stored(k) \in Versions
  <2>1. Stored(k) \in 0..Now
    BY <1>1, StateType DEF Stored
  <2> QED
    BY <1>1, <2>1, Types DEF IInv, Versions
<1>3. CASE Update
  <2>1. /\ copy.key \in Keys /\ Write(copy.key, "modified")
        /\ copy' = [copy EXCEPT !.version = Now + 1] /\ Now < MaxWrites
    BY <1>1, <1>3 DEF Update, Write
  <2>2. copy' \in [key : Keys, version : Versions]
    BY <1>1, <2>1 DEF Versions
  <2> QED
    BY <2>1, <2>2, WriteKeeps
<1>4. ASSUME NEW k \in Keys, Create(k) \/ Patch(k) \/ Delete(k)
      PROVE  IInv' /\ Extends /\ UNCHANGED <<scope, reflector, rv, position, queueVars, indexer>>
  <2>1. copy' \in [key : Keys, version : Versions]
    BY <1>1, <1>4 DEF Create, Patch, Delete
  <2>2. CASE Create(k)
    BY <2>1, <2>2, WriteKeeps DEF Create
  <2>3. CASE Patch(k)
    BY <2>1, <2>3, WriteKeeps DEF Patch
  <2>4. CASE Delete(k)
    BY <2>1, <2>4, WriteKeeps DEF Delete
  <2> QED
    BY <1>4, <2>2, <2>3, <2>4
<1>5. ASSUME NEW k \in Keys, Get(k) \/ GetFromLister(k)
      PROVE  IInv' /\ Extends /\ UNCHANGED <<scope, reflector, rv, position, queueVars, indexer>>
  <2>1. \E v \in Versions : copy' = [key |-> k, version |-> v]
    <3>1. GetByKey(k.ns, k.name) = indexer[k]
      BY CacheAssumption DEF GetByKey
    <3> QED
      BY <1>2, <1>5, <3>1 DEF Get, GetFromLister, IInv, TypeOK
  <2>2. copy' \in [key : Keys, version : Versions]
    BY <2>1
  <2>3. UNCHANGED <<scope, log, reflector, rv, position, queueVars, indexer>>
    BY <1>5 DEF Get, GetFromLister
  <2>4. Extends /\ Now' = Now /\ UNCHANGED <<scope, reflector, rv, position, queueVars, indexer>>
    BY <1>1, <2>3 DEF Extends, LogType, Now
  <2> QED
    BY <1>1, <2>2, <2>4, Types, WritesKeep DEF IInv
<1> QED
  BY <1>3, <1>4, <1>5, DeleteCollectionKeeps DEF Client
-----------------------------------------------------------------------------
(* The steps of the reflector and of the informer.                         *)

\* Without a write the states stay.
LEMMA SameLog ==
  ASSUME UNCHANGED <<scope, log, copy>>
  PROVE  /\ Now' = Now /\ InNamespace(scope)' = InNamespace(scope)
         /\ \A n : StateAt(n)' = StateAt(n)
         /\ \A n, k : DeletedSince(n, k)' = DeletedSince(n, k)
BY DEF Now, InNamespace, StateAt, DeletedSince

\* Opening, refusing and closing a watch keep the invariant.
LEMMA ReflectorKeeps ==
  ASSUME IInv, UNCHANGED <<scope, serverVars, rv, queueVars, indexer>>,
         reflector' \in {"list", "watch", "watching"}, reflector' = "list" \/ populated,
         position' \in 0..Now, reflector' = "watching" => position' = rv
  PROVE  IInv'
<1>1. UNCHANGED <<scope, log, copy, rv, queue, pending, populated, initial, first, indexer>>
  BY DEF serverVars, queueVars
<1>2. TypeOK'
  BY <1>1, SameLog DEF IInv, TypeOK
<1>3. AtPosition' /\ BeforeFirstList'
  BY <1>1 DEF IInv, AtPosition, BeforeFirstList
<1>4. \A k \in Keys : View(k)' = View(k)
  BY <1>1 DEF View
<1>5. Shows'
  BY <1>1, <1>4, SameLog DEF IInv, Shows
<1>6. FirstListed'
  BY <1>1, SameLog DEF IInv, FirstListed
<1> QED
  BY <1>1, <1>2, <1>3, <1>5, <1>6, SameLog DEF IInv

\* The delivery of an event keeps the invariant.
LEMMA DeliverKeeps ==
  ASSUME IInv, Deliver
  PROVE  IInv'
<1> DEFINE rest == {j \in rv + 1..Now : log[j].key \in InNamespace(scope)}
<1>1. populated /\ position = rv
  BY DEF Deliver, IInv, AtPosition, BeforeFirstList
<1>2. WatchFunc = rest /\ rest # {}
  BY <1>1 DEF Deliver, WatchFunc, WatchScope, Watch
<1>3. PICK i : i = Min(rest)
  OBVIOUS
<1>4. i \in rest /\ \A j \in rest : i <= j
  <2>1. rest \in SUBSET Nat
    BY Types DEF IInv
  <2> QED
    BY <1>2, <1>3, <2>1, MinOf
<1>5. PICK key : key = log[i].key
  OBVIOUS
<1>6. /\ pending' = [pending EXCEPT ![key] = IF log[i].kind = "deleted" THEN Absent ELSE i]
      /\ queue' = IF key \in ToSet(queue) THEN queue ELSE Append(queue, key)
      /\ rv' = i /\ position' = i
      /\ UNCHANGED <<scope, log, copy, reflector, populated, initial, first, indexer>>
  BY <1>2, <1>3, <1>5 DEF Deliver, serverVars
<1>7. /\ i \in Nat /\ rv \in Nat /\ Now \in Nat /\ rv < i /\ i <= Now /\ MaxWrites \in Nat
      /\ Now <= MaxWrites /\ LogType
  BY <1>4, Types DEF IInv
<1>8. key \in InNamespace(scope) /\ key \in Keys
  BY <1>4, <1>5, Types DEF IInv
<1>9. \A j \in rv + 1..i - 1 : log[j].key \notin InNamespace(scope)
  <2>1. \A j \in rv + 1..i - 1 : j \in rv + 1..Now /\ ~(i <= j)
    BY <1>7
  <2> QED
    BY <1>4, <2>1
<1> HIDE DEF rest
<1>10. /\ queue \in Seq(InNamespace(scope)) /\ IsInjective(queue) /\ initial \in 0..Len(queue)
       /\ Len(queue) \in Nat /\ pending \in [Keys -> Versions]
       /\ \A k \in Keys : pending[k] # Absent => k \in ToSet(queue)
  BY Types DEF IInv, TypeOK
<1>11. /\ queue' \in Seq(InNamespace(scope)) /\ IsInjective(queue') /\ initial \in 0..Len(queue')
       /\ ToSet(queue') = ToSet(queue) \cup {key}
       /\ \A j \in 1..initial : queue'[j] = queue[j]
  <2>1. CASE key \in ToSet(queue)
    BY <1>6, <1>10, <2>1
  <2>2. CASE key \notin ToSet(queue)
    <3>1. /\ queue' \in Seq(InNamespace(scope)) /\ IsInjective(queue')
          /\ ToSet(queue') = ToSet(queue) \cup {key} /\ Len(queue') = Len(queue) + 1
          /\ \A j \in 1..Len(queue) : queue'[j] = queue[j]
      BY <1>6, <1>8, <1>10, <2>2, AppendNew
    <3> QED
      BY <1>10, <3>1
  <2> QED
    BY <2>1, <2>2
<1>12. TypeOK'
  <2>1. i \in 0..Now /\ first \in 0..i
    BY <1>7, Types DEF IInv
  <2>2. pending' \in [Keys -> Versions]
    <3>1. (IF log[i].kind = "deleted" THEN Absent ELSE i) \in Versions
      BY <1>7 DEF Versions, Absent
    <3> QED
      BY <1>6, <1>10, <3>1
  <2>3. \A k \in Keys : pending'[k] # Absent => k \in ToSet(queue')
    BY <1>6, <1>10, <1>11
  <2>4. ToSet(queue)' = ToSet(queue')
    BY DEF ToSet
  <2> QED
    BY <1>6, <1>11, <2>1, <2>2, <2>3, <2>4, SameLog DEF IInv, TypeOK
<1>13. AtPosition' /\ BeforeFirstList'
  BY <1>1, <1>6 DEF AtPosition, BeforeFirstList
<1>14. Shows'
  <2>1. SUFFICES ASSUME NEW n \in 0..Now, NEW k \in Keys, n = i
                 PROVE  View(k)' = IF k \in InNamespace(scope) THEN StateAt(n)[k] ELSE Absent
    BY <1>6, SameLog DEF Shows
  <2>2. View(k)' = IF k \in ToSet(queue') THEN pending'[k] ELSE indexer[k]
    BY <1>6 DEF View, ToSet
  <2>3. CASE k = key
    <3>1. LastWrite(n, k, i)
      BY <1>5, <1>7, <2>1, <2>3 DEF LastWrite
    <3>2. StateAt(n)[k] = IF log[i].kind = "deleted" THEN Absent ELSE i
      BY <1>7, <3>1, StateByLast
    <3> QED
      BY <1>6, <1>8, <1>10, <1>11, <2>2, <2>3, <3>2
  <2>4. CASE k # key
    <3>1. PICK m \in 0..Now : m = rv
      BY <1>7
    <3>2. View(k)' = View(k)
      BY <1>6, <1>10, <1>11, <2>2, <2>4 DEF View
    <3>3. View(k) = IF k \in InNamespace(scope) THEN StateAt(m)[k] ELSE Absent
      BY <1>1, <3>1 DEF IInv, Shows
    <3>4. k \in InNamespace(scope) => \A j \in m + 1..n : log[j].key # k
      BY <1>5, <1>7, <1>9, <2>1, <2>4, <3>1
    <3>5. k \in InNamespace(scope) => StateAt(n)[k] = StateAt(m)[k]
      BY <1>7, <2>1, <3>1, <3>4, StateKept
    <3> QED
      BY <3>2, <3>3, <3>5
  <2> QED
    BY <2>3, <2>4
<1>15. FirstListed'
  BY <1>6, <1>11, SameLog DEF IInv, FirstListed
<1> QED
  BY <1>6, <1>12, <1>13, <1>14, <1>15, SameLog DEF IInv

\* Pop keeps the invariant.
LEMMA PopKeeps ==
  ASSUME IInv, Pop
  PROVE  IInv'
<1>1. populated
  BY DEF Pop, IInv, BeforeFirstList
<1>2. PICK h : h = Head(queue)
  OBVIOUS
<1>3. /\ queue # <<>>
      /\ indexer' = [indexer EXCEPT ![h] = pending[h]]
      /\ pending' = [pending EXCEPT ![h] = Absent]
      /\ queue' = Tail(queue) /\ initial' = IF initial > 0 THEN initial - 1 ELSE 0
      /\ UNCHANGED <<scope, log, copy, reflector, rv, position, populated, first>>
  BY <1>2 DEF Pop, serverVars
<1>4. /\ queue \in Seq(InNamespace(scope)) /\ IsInjective(queue) /\ initial \in 0..Len(queue)
      /\ pending \in [Keys -> Versions] /\ indexer \in [Keys -> Versions]
      /\ \A k \in Keys : pending[k] # Absent => k \in ToSet(queue)
      /\ ToSet(queue) \subseteq Keys /\ LogType /\ Now \in Nat /\ rv \in Nat /\ rv <= Now
      /\ first \in Nat /\ first <= rv /\ MaxWrites \in Nat
  BY Types DEF IInv, TypeOK
<1>5. /\ h \in ToSet(queue) /\ h = queue[1] /\ Len(queue) \in Nat /\ Len(queue) > 0
      /\ queue' \in Seq(InNamespace(scope)) /\ IsInjective(queue')
      /\ ToSet(queue') = ToSet(queue) \ {h} /\ Len(queue') = Len(queue) - 1
      /\ \A j \in 1..Len(queue) - 1 : queue'[j] = queue[j + 1]
  BY <1>2, <1>3, <1>4, TailOf
<1>6. h \in Keys
  BY <1>4, <1>5
<1>7. TypeOK'
  <2>1. pending' \in [Keys -> Versions] /\ indexer' \in [Keys -> Versions]
    BY <1>3, <1>4, <1>6 DEF Versions, Absent
  <2>2. \A k \in Keys : pending'[k] # Absent => k \in ToSet(queue')
    BY <1>3, <1>4, <1>5
  <2>3. initial' \in 0..Len(queue')
    BY <1>3, <1>4, <1>5
  <2>4. ToSet(queue)' = ToSet(queue')
    BY DEF ToSet
  <2> QED
    BY <1>3, <1>5, <2>1, <2>2, <2>3, <2>4, SameLog DEF IInv, TypeOK
<1>8. AtPosition' /\ BeforeFirstList'
  BY <1>1, <1>3 DEF IInv, AtPosition, BeforeFirstList
<1>9. ASSUME NEW k \in Keys
      PROVE  View(k)' = View(k)
  <2>1. View(k)' = IF k \in ToSet(queue') THEN pending'[k] ELSE indexer'[k]
    BY DEF View, ToSet
  <2> QED
    BY <1>3, <1>4, <1>5, <1>6, <2>1 DEF View
<1>10. Shows'
  BY <1>1, <1>3, <1>9, SameLog DEF IInv, Shows
<1>11. FirstListed'
  <2>1. SUFFICES ASSUME NEW n \in 0..Now, NEW k \in InNamespace(scope), n = first,
                        StateAt(n)[k] # Absent
                 PROVE  \/ \E j \in 1..initial' : queue'[j] = k
                        \/ indexer'[k] >= StateAt(n)[k]
                        \/ DeletedSince(n, k)
    <3>1. /\ Now' = Now /\ InNamespace(scope)' = InNamespace(scope) /\ first' = first
          /\ \A n, k : StateAt(n)' = StateAt(n) /\ DeletedSince(n, k)' = DeletedSince(n, k)
      BY <1>3, SameLog
    <3> QED
      BY <2>1, <3>1 DEF FirstListed
  <2>2. k \in Keys
    BY DEF InNamespace
  <2>3. k = h => indexer'[k] >= StateAt(n)[k] \/ DeletedSince(n, k)
    <3>1. PICK m \in n..Now : m = rv
      BY <1>4, <2>1
    <3>2. StateAt(m)[k] >= StateAt(n)[k] \/ DeletedSince(n, k)
      BY <1>4, <2>1, <2>2, StateGrows
    <3>3. View(k) = StateAt(m)[k]
      BY <1>1, <1>4, <2>1, <2>2, <3>1 DEF IInv, Shows
    <3>4. k = h => indexer'[k] = View(k)
      BY <1>3, <1>4, <1>5, <2>2 DEF View
    <3> QED
      BY <3>2, <3>3, <3>4
  <2>4. \/ \E j \in 1..initial : queue[j] = k
        \/ indexer[k] >= StateAt(n)[k]
        \/ DeletedSince(n, k)
    BY <1>1, <2>1 DEF IInv, FirstListed
  <2>5. ASSUME NEW j \in 1..initial, queue[j] = k, k # h
        PROVE  \E x \in 1..initial' : queue'[x] = k
    <3>1. j # 1 /\ j - 1 \in 1..initial - 1 /\ j - 1 \in 1..Len(queue) - 1 /\ initial' = initial - 1
      BY <1>3, <1>4, <1>5, <2>5
    <3>2. queue'[j - 1] = queue[j]
      BY <1>4, <1>5, <3>1
    <3> QED
      BY <2>5, <3>1, <3>2
  <2>6. k # h => indexer'[k] = indexer[k]
    BY <1>3, <1>4, <2>2
  <2> QED
    BY <2>3, <2>4, <2>5, <2>6
<1> QED
  BY <1>3, <1>7, <1>8, <1>10, <1>11, SameLog DEF IInv

\* A list, late or not, keeps the invariant.
LEMMA ReplaceKeeps ==
  ASSUME IInv, Replace
  PROVE  IInv'
<1>1. PICK n \in rv..Now :
        /\ reflector = "list"
        /\ LET listed == ListFunc(n)
               gone == {k \in Keys \ listed : indexer[k] # Absent \/ k \in ToSet(queue)}
           IN  /\ pending' = [k \in Keys |-> IF k \in listed THEN StateAt(n)[k]
                                             ELSE IF k \in gone THEN Absent ELSE pending[k]]
               /\ \E order \in SetToSeqs((listed \cup gone) \ ToSet(queue)) : queue' = queue \o order
               /\ IF populated THEN UNCHANGED <<initial, first>>
                  ELSE initial' = Cardinality(listed) /\ first' = n
        /\ populated' = TRUE /\ rv' = n /\ reflector' = "watch"
        /\ UNCHANGED <<scope, log, copy, position, indexer>>
  BY DEF Replace, serverVars
<1>2. PICK listed : listed = {k \in InNamespace(scope) : StateAt(n)[k] # Absent}
  OBVIOUS
<1>3. PICK gone : gone = {k \in Keys \ listed : indexer[k] # Absent \/ k \in ToSet(queue)}
  OBVIOUS
<1>4. ListFunc(n) = listed
  BY <1>2 DEF ListFunc, List
<1>5. PICK order \in SetToSeqs((listed \cup gone) \ ToSet(queue)) : queue' = queue \o order
  BY <1>1, <1>3, <1>4
<1>6. /\ pending' = [k \in Keys |-> IF k \in listed THEN StateAt(n)[k]
                                    ELSE IF k \in gone THEN Absent ELSE pending[k]]
      /\ IF populated THEN UNCHANGED <<initial, first>>
         ELSE initial' = Cardinality(listed) /\ first' = n
      /\ populated' /\ rv' = n /\ reflector' = "watch"
      /\ UNCHANGED <<scope, log, copy, position, indexer>>
  BY <1>1, <1>3, <1>4
<1>7. /\ queue \in Seq(InNamespace(scope)) /\ IsInjective(queue) /\ initial \in 0..Len(queue)
      /\ pending \in [Keys -> Versions] /\ indexer \in [Keys -> Versions]
      /\ \A k \in Keys : pending[k] # Absent => k \in ToSet(queue)
      /\ ToSet(queue) \subseteq InNamespace(scope) /\ Len(queue) \in Nat
      /\ InNamespace(scope) \subseteq Keys
  BY Types DEF IInv, TypeOK
<1>8. /\ LogType /\ Now \in Nat /\ rv \in Nat /\ rv <= Now /\ MaxWrites \in Nat /\ Now <= MaxWrites
      /\ first \in Nat /\ first <= rv /\ n \in Nat /\ n \in 0..Now /\ rv <= n
  BY Types DEF IInv
<1>9. listed \cup gone \subseteq InNamespace(scope)
  <2>1. ASSUME NEW k \in gone, k \notin ToSet(queue)
        PROVE  k \in InNamespace(scope)
    <3>1. k \in Keys /\ indexer[k] # Absent
      BY <1>3, <2>1
    <3>2. populated
      BY <3>1 DEF IInv, BeforeFirstList
    <3>3. View(k) = indexer[k]
      BY <2>1 DEF View
    <3> QED
      BY <1>8, <3>1, <3>2, <3>3 DEF IInv, Shows
  <2> QED
    BY <1>2, <1>7, <2>1
<1>10. /\ order \in Seq(InNamespace(scope)) /\ IsInjective(order)
       /\ ToSet(order) = (listed \cup gone) \ ToSet(queue)
       /\ Len(order) = Cardinality((listed \cup gone) \ ToSet(queue))
  <2> DEFINE S == (listed \cup gone) \ ToSet(queue)
  <2>1. S \subseteq InNamespace(scope) /\ S \subseteq Keys
    BY <1>7, <1>9
  <2>2. IsFiniteSet(S)
    BY <2>1, CacheAssumption, FS_Subset
  <2> HIDE DEF S
  <2>3. order \in Seq(S) /\ IsInjective(order) /\ ToSet(order) = S /\ Len(order) = Cardinality(S)
    BY <2>2, OrderOf DEF S
  <2>4. order \in Seq(InNamespace(scope))
    BY <2>1, <2>3
  <2> QED
    BY <2>3, <2>4 DEF S
<1>11. /\ queue' \in Seq(InNamespace(scope)) /\ IsInjective(queue')
       /\ ToSet(queue') = ToSet(queue) \cup listed \cup gone
       /\ Len(queue') = Len(queue) + Len(order) /\ Len(order) \in Nat
       /\ \A j \in 1..Len(queue) : queue'[j] = queue[j]
  <2>1. ToSet(queue) \cap ToSet(order) = {}
    BY <1>10
  <2>2. /\ queue \o order \in Seq(InNamespace(scope)) /\ IsInjective(queue \o order)
        /\ ToSet(queue \o order) = ToSet(queue) \cup ToSet(order)
        /\ Len(queue \o order) = Len(queue) + Len(order)
        /\ \A j \in 1..Len(queue) : (queue \o order)[j] = queue[j]
    <3>1. /\ queue \in Seq(InNamespace(scope)) /\ order \in Seq(InNamespace(scope))
          /\ IsInjective(queue) /\ IsInjective(order)
      BY <1>7, <1>10
    <3> QED
      BY <2>1, <3>1, ConcatNew
  <2>3. Len(order) \in Nat
    BY <1>10
  <2> QED
    BY <1>5, <1>10, <2>2, <2>3
<1>12. ~populated => initial' = Len(queue') /\ first' = n
  <2>1. SUFFICES ASSUME ~populated
                 PROVE  initial' = Len(queue') /\ first' = n
    OBVIOUS
  <2>2. queue = <<>> /\ \A k \in Keys : indexer[k] = Absent
    BY <2>1 DEF IInv, BeforeFirstList
  <2>3. Len(queue) = 0 /\ ToSet(queue) = {}
    BY <2>2, Types DEF IInv
  <2>4. gone = {}
    BY <1>3, <2>2, <2>3
  <2>5. Len(queue') = Cardinality(listed)
    BY <1>10, <1>11, <2>3, <2>4
  <2> QED
    BY <1>6, <2>1, <2>5
<1>13. TypeOK'
  <2>1. \A k \in Keys : StateAt(n)[k] \in Versions
    BY <1>8, StateType DEF Versions
  <2>2. pending' \in [Keys -> Versions]
    BY <1>6, <1>7, <1>8, <2>1 DEF Versions, Absent
  <2>3. \A k \in Keys : pending'[k] # Absent => k \in ToSet(queue')
    BY <1>6, <1>7, <1>11
  <2>4. initial' \in 0..Len(queue') /\ first' \in 0..n
    BY <1>6, <1>7, <1>8, <1>11, <1>12
  <2>5. ToSet(queue)' = ToSet(queue')
    BY DEF ToSet
  <2>6. populated' \in BOOLEAN /\ reflector' \in {"list", "watch", "watching"} /\ rv' \in 0..Now
    BY <1>1, <1>6, <1>8
  <2> QED
    BY <1>6, <1>11, <2>2, <2>3, <2>4, <2>5, <2>6, SameLog DEF IInv, TypeOK
<1>14. AtPosition' /\ BeforeFirstList'
  BY <1>6 DEF AtPosition, BeforeFirstList
<1>15. Shows'
  <2>1. SUFFICES ASSUME NEW k \in Keys
                 PROVE  View(k)' = IF k \in InNamespace(scope) THEN StateAt(n)[k] ELSE Absent
    BY <1>6, SameLog DEF Shows
  <2>2. View(k)' = IF k \in ToSet(queue') THEN pending'[k] ELSE indexer[k]
    BY <1>6 DEF View, ToSet
  <2>3. CASE k \in listed
    BY <1>2, <1>6, <1>11, <2>2, <2>3
  <2>4. CASE k \notin listed
    <3>1. k \in InNamespace(scope) => StateAt(n)[k] = Absent
      BY <1>2, <2>4
    <3>2. View(k)' = Absent
      BY <1>3, <1>6, <1>11, <2>2, <2>4
    <3> QED
      BY <3>1, <3>2
  <2> QED
    BY <2>3, <2>4
<1>16. FirstListed'
  <2>1. SUFFICES ASSUME NEW m \in 0..Now, NEW k \in InNamespace(scope), m = first',
                        StateAt(m)[k] # Absent
                 PROVE  \/ \E j \in 1..initial' : queue'[j] = k
                        \/ indexer[k] >= StateAt(m)[k]
                        \/ DeletedSince(m, k)
    <3>1. /\ Now' = Now /\ InNamespace(scope)' = InNamespace(scope) /\ indexer' = indexer
          /\ \A x, y : StateAt(x)' = StateAt(x) /\ DeletedSince(x, y)' = DeletedSince(x, y)
      BY <1>6, SameLog
    <3> QED
      BY <2>1, <3>1 DEF FirstListed
  <2>2. CASE populated
    <3>1. initial' = initial /\ first' = first /\ \A j \in 1..initial : queue'[j] = queue[j]
      BY <1>6, <1>7, <1>11, <2>2
    <3> QED
      BY <2>1, <2>2, <3>1 DEF IInv, FirstListed
  <2>3. CASE ~populated
    <3>1. initial' = Len(queue') /\ m = n
      BY <1>12, <2>1, <2>3
    <3>2. k \in ToSet(queue')
      BY <1>2, <1>11, <2>1, <3>1
    <3>3. ToSet(queue') = {queue'[j] : j \in 1..Len(queue')}
      BY <1>11, ToSetOf
    <3> QED
      BY <3>1, <3>2, <3>3
  <2> QED
    BY <2>2, <2>3
<1> QED
  BY <1>6, <1>13, <1>14, <1>15, <1>16, SameLog DEF IInv
-----------------------------------------------------------------------------
\* The invariant holds before the first list.
LEMMA InitInv == Init => IInv
<1> SUFFICES ASSUME Init PROVE IInv
  OBVIOUS
<1>1. /\ scope \in Scopes /\ reflector = "list" /\ rv = 0 /\ position = 0 /\ queue = <<>>
      /\ pending = [k \in Keys |-> Absent] /\ populated = FALSE /\ initial = 0 /\ first = 0
      /\ indexer = [k \in Keys |-> Absent]
      /\ log = [i \in DOMAIN Existing |-> [key |-> Existing[i], kind |-> "added"]]
  BY DEF Init
<1>2. Existing \in Seq(Keys) /\ Len(Existing) <= MaxWrites /\ MaxWrites \in Nat
  BY CacheAssumption
<1>3. /\ DOMAIN Existing = 1..Len(Existing) /\ Len(Existing) \in Nat
      /\ \A i \in 1..Len(Existing) : Existing[i] \in Keys
  BY <1>2
<1>4. \A i \in 1..Len(Existing) : log[i] \in Writes /\ log[i].kind = "added"
  BY <1>1, <1>2, <1>3 DEF Writes, Versions, Absent
<1>5. log \in Seq(Writes) /\ Len(log) = Len(Existing)
  BY <1>1, <1>3, <1>4
<1>6. copy \in [key : Keys, version : Versions]
  <2>1. Absent \in Versions
    BY <1>2 DEF Versions, Absent
  <2>2. (CHOOSE k \in Keys : TRUE) \in Keys
    BY CacheAssumption
  <2> QED
    BY <2>1, <2>2 DEF Init
<1>7. TypeOK
  <2>1. /\ Now \in Versions /\ rv \in 0..Now /\ position \in 0..Now /\ first \in 0..rv
        /\ initial \in 0..Len(queue)
    BY <1>1, <1>2, <1>3, <1>5 DEF Now, Versions
  <2>2. queue \in Seq(InNamespace(scope)) /\ IsInjective(queue)
    BY <1>1 DEF IsInjective
  <2>3. pending \in [Keys -> Versions] /\ indexer \in [Keys -> Versions]
    BY <1>1, <1>2 DEF Versions, Absent
  <2>4. \A k \in Keys : pending[k] # Absent => k \in ToSet(queue)
    BY <1>1
  <2>5. log \in Seq([key : Keys, kind : {"added", "modified", "deleted"}])
    BY <1>5 DEF Writes
  <2> QED
    BY <1>1, <1>6, <2>1, <2>2, <2>3, <2>4, <2>5 DEF TypeOK
<1>8. AtPosition /\ BeforeFirstList /\ Shows /\ FirstListed
  BY <1>1 DEF AtPosition, BeforeFirstList, Shows, FirstListed
<1> QED
  BY <1>7, <1>8 DEF IInv

\* Every step keeps the invariant.
LEMMA StepInv == IInv /\ [Next]_vars => IInv'
<1> SUFFICES ASSUME IInv, [Next]_vars PROVE IInv'
  OBVIOUS
<1>1. rv \in 0..Now
  BY DEF IInv, TypeOK
<1>2. CASE OpenWatch \/ RefuseWatch \/ CloseWatch
  <2>1. /\ UNCHANGED <<scope, serverVars, rv, queueVars, indexer>>
        /\ reflector' \in {"list", "watch", "watching"} /\ populated
    BY <1>2 DEF OpenWatch, RefuseWatch, CloseWatch, IInv, BeforeFirstList
  <2>2. position' \in 0..Now /\ (reflector' = "watching" => position' = rv)
    BY <1>1, <1>2, Types DEF OpenWatch, RefuseWatch, CloseWatch, WatchFrom, IInv
  <2> QED
    BY <2>1, <2>2, ReflectorKeeps
<1>3. CASE UNCHANGED vars
  <2>1. UNCHANGED <<scope, serverVars, reflector, rv, position, queueVars, indexer>>
    BY <1>3 DEF vars
  <2> QED
    BY <1>1, <2>1, ReflectorKeeps DEF IInv, TypeOK, AtPosition, BeforeFirstList
<1> QED
  BY <1>2, <1>3, ClientKeeps, ReplaceKeeps, DeliverKeeps, PopKeeps DEF Next

\* The inductive invariant holds of every behaviour.
LEMMA InvAlways == Spec => []IInv
BY InitInv, StepInv, PTL DEF Spec

\* Every variable of the cache keeps its type.
THEOREM TypeCorrect == Spec => []TypeOK
<1>1. IInv => TypeOK
  BY DEF IInv
<1> QED
  BY <1>1, InvAlways, PTL

\* With nothing queued, the lister answers with one state the server had.
THEOREM ListerShowsOneState == Spec => []ListerIsSnapshot
<1>1. IInv => ListerIsSnapshot
  <2>1. SUFFICES ASSUME IInv, populated, queue = <<>>
                 PROVE  ListerAnswers(StateAt(rv))
    BY DEF ListerIsSnapshot
  <2> DEFINE shown == {k \in InNamespace(scope) : StateAt(rv)[k] # Absent}
  <2>2. PICK n \in 0..Now : n = rv
    BY <2>1 DEF IInv, TypeOK
  <2>3. \A k \in Keys : indexer[k] = IF k \in InNamespace(scope) THEN StateAt(rv)[k] ELSE Absent
    <3>1. \A k \in Keys : View(k) = indexer[k]
      BY <2>1 DEF View, ToSet
    <3> QED
      BY <2>1, <2>2, <3>1 DEF IInv, Shows
  <2>4. InNamespace(scope) \subseteq Keys
    BY DEF InNamespace
  <2>5. \A k \in Keys : GetByKey(k.ns, k.name) = IF k \in shown THEN StateAt(rv)[k] ELSE Absent
    <3>1. \A k \in Keys : GetByKey(k.ns, k.name) = indexer[k]
      BY CacheAssumption DEF GetByKey
    <3> QED
      BY <2>3, <3>1
  <2>6. ListAll = shown
    BY <2>3, <2>4 DEF ListAll
  <2> QED
    BY <2>5, <2>6 DEF ListerAnswers, ListInNamespace
<1> QED
  BY <1>1, InvAlways, PTL

\* Whatever the first list had is in the lister once HasSynced answers true,
\* unless it was deleted since.
THEOREM SyncShowsFirstList == Spec => []SyncedMeansListed
<1>1. IInv => SyncedMeansListed
  <2>1. SUFFICES ASSUME IInv, HasSynced, NEW k \in InNamespace(scope), StateAt(first)[k] # Absent
                 PROVE  \/ GetByKey(k.ns, k.name) >= StateAt(first)[k]
                        \/ \E i \in first + 1..Now : log[i].key = k /\ log[i].kind = "deleted"
    BY DEF SyncedMeansListed
  <2>2. PICK n \in 0..Now : n = first
    BY <2>1, Types DEF IInv
  <2>3. k \in Keys
    BY DEF InNamespace
  <2>4. indexer[k] >= StateAt(n)[k] \/ DeletedSince(n, k)
    BY <2>1, <2>2 DEF IInv, FirstListed, HasSynced
  <2>5. GetByKey(k.ns, k.name) = indexer[k]
    BY <2>3, CacheAssumption DEF GetByKey
  <2> QED
    BY <2>2, <2>4, <2>5 DEF DeletedSince
<1> QED
  BY <1>1, InvAlways, PTL

-----------------------------------------------------------------------------
(* Why the lister catches up and stays so: the part of ListerCatchesUp that *)
(* needs no fairness, and what a user of the lister may rely on meanwhile. *)

\* When the server has nothing to report to a watch of the informer's scope and
\* nothing is queued, the lister answers with the server's present objects.
IdleMeansCurrent ==
  (populated /\ queue = <<>> /\ Watch(scope, rv) = {}) => ListerAnswers(StateAt(Now))

\* A lister that is up to date stays so until somebody writes, although watches
\* break, the reflector lists again and everything is queued once more.
CurrentStays ==
  [][(/\ populated /\ Watch(scope, rv) = {}
      /\ ListerAnswers(StateAt(Now)) /\ UNCHANGED log)
       => (ListerAnswers(StateAt(Now)) /\ Watch(scope, rv) = {})']_vars

\* While nobody writes, the reflector gets nearer to the end of the log with
\* each delivery and is never set back, and each Pop shortens the queue.
ReflectorAdvances ==
  [][/\ rv <= rv'
     /\ Deliver => rv < rv'
     /\ Pop => Len(queue') < Len(queue)]_vars

\* The versions that the lister shows are writes of the objects they stand for,
\* and the reflector has heard of them.
VersionInv ==
  \A k \in Keys : indexer[k] # Absent => indexer[k] \in 1..rv /\ log[indexer[k]].key = k

\* What a watch delivers is newer than what the reflector had.
LEMMA DeliverAdvances ==
  ASSUME IInv, Deliver
  PROVE  rv' \in Nat /\ rv < rv'
<1>1. position = rv /\ rv \in Nat /\ Now \in Nat
  BY Types DEF Deliver, IInv, AtPosition
<1>2. WatchFunc \in SUBSET Nat /\ \A i \in WatchFunc : rv < i
  BY <1>1 DEF WatchFunc, Watch
<1>3. Min(WatchFunc) \in WatchFunc
  BY <1>2, MinOf DEF Deliver
<1>4. rv' = Min(WatchFunc)
  BY DEF Deliver
<1> QED
  BY <1>2, <1>3, <1>4

\* Nobody but the reflector touches what it has, and it only appends.
LEMMA StepCases ==
  ASSUME IInv, [Next]_vars
  PROVE  /\ \A i \in 1..Now : log'[i] = log[i]
         /\ rv \in Nat /\ rv' \in Nat /\ rv <= rv'
         /\ scope' = scope /\ (populated => populated')
         /\ Pop \/ UNCHANGED indexer
<1>1. rv \in Nat /\ Now \in Nat /\ rv <= Now
  BY Types DEF IInv
<1>2. CASE Client
  BY <1>1, <1>2, ClientKeeps DEF Extends, queueVars
<1>3. CASE Replace
  BY <1>1, <1>3 DEF Replace, serverVars
<1>4. CASE Deliver
  BY <1>1, <1>4, DeliverAdvances DEF Deliver, serverVars, queueVars
<1>5. CASE OpenWatch \/ RefuseWatch \/ CloseWatch \/ Pop \/ UNCHANGED vars
  BY <1>1, <1>5 DEF OpenWatch, RefuseWatch, CloseWatch, Pop, vars, serverVars, queueVars
<1> QED
  BY <1>2, <1>3, <1>4, <1>5 DEF Next

\* What Pop puts into the indexer is the object's state at the resource version.
LEMMA PopShows ==
  ASSUME IInv, Pop
  PROVE  \E h \in Keys : /\ h \in InNamespace(scope)
                         /\ \A k \in Keys \ {h} : indexer'[k] = indexer[k]
                         /\ \A n \in 0..Now : n = rv => indexer'[h] = StateAt(n)[h]
                         /\ Len(queue') < Len(queue)
<1>1. populated
  BY DEF Pop, IInv, BeforeFirstList
<1>2. /\ queue \in Seq(InNamespace(scope)) /\ IsInjective(queue) /\ indexer \in [Keys -> Versions]
      /\ ToSet(queue) \subseteq InNamespace(scope) /\ InNamespace(scope) \subseteq Keys
  BY Types DEF IInv, TypeOK
<1>3. PICK h : h = Head(queue)
  OBVIOUS
<1>4. /\ queue # <<>> /\ indexer' = [indexer EXCEPT ![h] = pending[h]] /\ queue' = Tail(queue)
  BY <1>3 DEF Pop
<1>5. h \in ToSet(queue) /\ Len(Tail(queue)) = Len(queue) - 1 /\ Len(queue) \in Nat
  BY <1>2, <1>3, <1>4, TailOf
<1>6. h \in Keys /\ h \in InNamespace(scope)
  BY <1>2, <1>5
<1>7. indexer'[h] = View(h)
  BY <1>2, <1>4, <1>5, <1>6 DEF View
<1>8. \A n \in 0..Now : n = rv => View(h) = StateAt(n)[h]
  BY <1>1, <1>6 DEF IInv, Shows
<1> QED
  BY <1>2, <1>4, <1>5, <1>6, <1>7, <1>8

\* What is shown stays a version of its object, and no older one than before.
LEMMA VersionStep ==
  ASSUME IInv, VersionInv, [Next]_vars
  PROVE  /\ VersionInv'
         /\ \A k \in Keys : indexer'[k] # Absent => indexer[k] <= indexer'[k]
<1>1. /\ LogType /\ rv \in 0..Now /\ rv \in Nat /\ Now \in Nat /\ rv <= Now
      /\ indexer \in [Keys -> Nat]
  BY Types DEF IInv, TypeOK, Versions
<1>2. /\ \A i \in 1..Now : log'[i] = log[i]
      /\ rv' \in Nat /\ rv <= rv' /\ (Pop \/ UNCHANGED indexer)
  BY StepCases
<1>3. ASSUME NEW k \in Keys, indexer'[k] = indexer[k]
      PROVE  /\ indexer'[k] # Absent => indexer'[k] \in 1..rv' /\ log'[indexer'[k]].key = k
             /\ indexer[k] <= indexer'[k]
  <2>1. indexer[k] \in Nat
    BY <1>1
  <2>2. indexer'[k] # Absent => indexer[k] \in 1..rv /\ log[indexer[k]].key = k
    BY <1>3 DEF VersionInv
  <2>3. indexer[k] \in 1..rv => indexer[k] \in 1..Now /\ indexer[k] \in 1..rv'
    BY <1>1, <1>2, <2>1
  <2>4. indexer[k] \in 1..Now => log'[indexer[k]] = log[indexer[k]]
    BY <1>2
  <2> QED
    BY <1>3, <2>1, <2>2, <2>3, <2>4
<1>4. ASSUME Pop, NEW h \in Keys, indexer'[h] # Absent,
             \A n \in 0..Now : n = rv => indexer'[h] = StateAt(n)[h]
      PROVE  /\ indexer'[h] \in 1..rv' /\ log'[indexer'[h]].key = h
             /\ indexer[h] <= indexer'[h]
  <2>1. PICK n \in 0..Now : n = rv
    BY <1>1
  <2>2. StateAt(n)[h] # Absent /\ indexer'[h] = StateAt(n)[h]
    BY <1>4, <2>1
  <2>3. PICK i \in 1..n : LastWrite(n, h, i) /\ StateAt(n)[h] = i
    BY <1>1, <2>1, <2>2, StateIs
  <2>4. indexer'[h] = i /\ i \in 1..rv /\ i \in 1..Now /\ log[i].key = h
    BY <1>1, <2>1, <2>2, <2>3 DEF LastWrite
  <2>5. indexer[h] <= i
    <3>1. CASE indexer[h] = Absent
      BY <2>4, <3>1 DEF Absent
    <3>2. CASE indexer[h] # Absent
      <4>1. indexer[h] \in 1..rv /\ log[indexer[h]].key = h
        BY <3>2 DEF VersionInv
      <4>2. indexer[h] \notin i + 1..n
        BY <2>3, <4>1 DEF LastWrite
      <4> QED
        BY <1>1, <2>1, <2>4, <4>1, <4>2
    <3> QED
      BY <3>1, <3>2
  <2>6. i \in 1..rv' /\ log'[i] = log[i]
    BY <1>1, <1>2, <2>4
  <2> QED
    BY <2>4, <2>5, <2>6
<1>5. CASE UNCHANGED indexer
  BY <1>3, <1>5 DEF VersionInv
<1>6. CASE Pop
  <2>1. PICK h \in Keys : /\ \A k \in Keys \ {h} : indexer'[k] = indexer[k]
                          /\ \A n \in 0..Now : n = rv => indexer'[h] = StateAt(n)[h]
    BY <1>6, PopShows
  <2>2. \A k \in Keys \ {h} :
          /\ indexer'[k] # Absent => indexer'[k] \in 1..rv' /\ log'[indexer'[k]].key = k
          /\ indexer[k] <= indexer'[k]
    BY <1>3, <2>1
  <2>3. indexer'[h] # Absent =>
          /\ indexer'[h] \in 1..rv' /\ log'[indexer'[h]].key = h
          /\ indexer[h] <= indexer'[h]
    BY <1>4, <1>6, <2>1
  <2> QED
    BY <2>2, <2>3 DEF VersionInv
<1> QED
  BY <1>2, <1>5, <1>6

\* What is shown is always a version of its object.
LEMMA VersionAlways == Spec => []VersionInv
<1>1. Init => VersionInv
  BY DEF Init, VersionInv
<1> QED
  BY <1>1, VersionStep, InvAlways, PTL DEF Spec

\* The lister never answers with an older version of an object after a newer.
THEOREM ListerGoesForward == Spec => ListerNeverGoesBack
<1>1. IInv /\ VersionInv /\ [Next]_vars =>
        \A k \in Keys : indexer'[k] # Absent => indexer[k] <= indexer'[k]
  BY VersionStep
<1> QED
  BY <1>1, InvAlways, VersionAlways, PTL DEF Spec, ListerNeverGoesBack

\* With nothing to report, the state at the resource version is the present one.
LEMMA NothingToReport ==
  ASSUME IInv, Watch(scope, rv) = {}, NEW k \in InNamespace(scope), NEW n \in 0..Now, n = rv
  PROVE  StateAt(n)[k] = StateAt(Now)[k]
<1>1. LogType /\ Now \in Nat /\ k \in Keys
  BY Types DEF IInv
<1>2. \A j \in n + 1..Now : log[j].key # k
  BY DEF Watch
<1>3. PICK m \in n..Now : m = Now
  BY <1>1
<1> QED
  BY <1>1, <1>2, <1>3, StateKept

\* The lister's answers by the indexer alone.
LEMMA AnswersOf ==
  ASSUME NEW state
  PROVE  ListerAnswers(state) <=>
           \A k \in Keys : indexer[k] = IF k \in InNamespace(scope) THEN state[k] ELSE Absent
<1>1. \A k \in Keys : GetByKey(k.ns, k.name) = indexer[k]
  BY CacheAssumption DEF GetByKey
<1>2. InNamespace(scope) \subseteq Keys
  BY DEF InNamespace
<1> QED
  BY <1>1, <1>2 DEF ListerAnswers, ListInNamespace, ListAll

\* The same of the next state.
LEMMA AnswersNext ==
  ASSUME NEW state,
         \A k \in Keys : indexer'[k] = IF k \in InNamespace(scope)' THEN state[k] ELSE Absent
  PROVE  ListerAnswers(state)'
<1>1. \A k \in Keys : GetByKey(k.ns, k.name)' = indexer'[k]
  BY CacheAssumption DEF GetByKey
<1>2. InNamespace(scope)' \subseteq Keys
  BY DEF InNamespace
<1> QED
  BY <1>1, <1>2 DEF ListerAnswers, ListInNamespace, ListAll

\* An idle informer is up to date.
THEOREM IdleListerIsCurrent == Spec => []IdleMeansCurrent
<1>1. IInv /\ ListerIsSnapshot => IdleMeansCurrent
  <2>1. SUFFICES ASSUME IInv, ListerIsSnapshot, populated, queue = <<>>, Watch(scope, rv) = {}
                 PROVE  ListerAnswers(StateAt(Now))
    BY DEF IdleMeansCurrent
  <2>2. PICK n \in 0..Now : n = rv
    BY <2>1 DEF IInv, TypeOK
  <2>3. ListerAnswers(StateAt(n))
    BY <2>1, <2>2 DEF ListerIsSnapshot
  <2>4. \A k \in InNamespace(scope) : StateAt(n)[k] = StateAt(Now)[k]
    BY <2>1, <2>2, NothingToReport
  <2>5. PICK s : s = StateAt(n)
    OBVIOUS
  <2>6. PICK t : t = StateAt(Now)
    OBVIOUS
  <2>7. \A k \in Keys : indexer[k] = IF k \in InNamespace(scope) THEN t[k] ELSE Absent
    BY <2>3, <2>4, <2>5, <2>6, AnswersOf
  <2> QED
    BY <2>6, <2>7, AnswersOf
<1> QED
  BY <1>1, InvAlways, ListerShowsOneState, PTL

\* Breaking watches and late lists do not take an up-to-date lister back.
THEOREM CurrentListerStays == Spec => CurrentStays
<1>1. ASSUME IInv, [Next]_vars, populated, Watch(scope, rv) = {}, ListerAnswers(StateAt(Now)),
             UNCHANGED log
      PROVE  ListerAnswers(StateAt(Now))' /\ Watch(scope, rv)' = {}
  <2>1. /\ rv \in Nat /\ rv' \in Nat /\ rv <= rv' /\ scope' = scope /\ (Pop \/ UNCHANGED indexer)
    BY <1>1, StepCases
  <2>2. Now \in Nat /\ Now' = Now /\ InNamespace(scope)' = InNamespace(scope)
    <3>1. Now \in Nat
      BY <1>1, Types DEF IInv
    <3>2. Now' = Now
      BY <1>1 DEF Now
    <3> QED
      BY <2>1, <3>1, <3>2 DEF InNamespace
  <2>3. Watch(scope, rv)' = {}
    <3>1. \A a, b, c \in Nat : a <= b => \A i \in b + 1..c : i \in a + 1..c
      OBVIOUS
    <3>2. PICK a \in Nat, b \in Nat : a = rv /\ b = rv' /\ a <= b
      BY <2>1
    <3>3. \A i \in rv' + 1..Now : i \in rv + 1..Now
      BY <2>2, <3>1, <3>2
    <3> QED
      BY <1>1, <2>1, <2>2, <3>3 DEF Watch
  <2>4. PICK t : t = StateAt(Now)
    OBVIOUS
  <2>5. StateAt(Now)' = t
    BY <1>1, <2>2, <2>4 DEF StateAt
  <2>6. \A k \in Keys : indexer[k] = IF k \in InNamespace(scope) THEN t[k] ELSE Absent
    BY <1>1, <2>4, AnswersOf
  <2>7. \A k \in Keys : indexer'[k] = IF k \in InNamespace(scope) THEN t[k] ELSE Absent
    <3>1. CASE UNCHANGED indexer
      BY <2>6, <3>1
    <3>2. CASE Pop
      <4>1. PICK n \in 0..Now : n = rv
        BY <1>1 DEF IInv, TypeOK
      <4>2. PICK h \in Keys : /\ h \in InNamespace(scope)
                              /\ \A k \in Keys \ {h} : indexer'[k] = indexer[k]
                              /\ \A m \in 0..Now : m = rv => indexer'[h] = StateAt(m)[h]
        BY <1>1, <3>2, PopShows
      <4>3. indexer'[h] = t[h]
        BY <1>1, <2>4, <4>1, <4>2, NothingToReport
      <4> QED
        BY <2>6, <4>2, <4>3
    <3> QED
      BY <2>1, <3>1, <3>2
  <2>8. \A k \in Keys : indexer'[k] = IF k \in InNamespace(scope)' THEN t[k] ELSE Absent
    BY <2>2, <2>7
  <2>9. ListerAnswers(t)'
    BY <2>8, AnswersNext
  <2>10. ListerAnswers(StateAt(Now))'
    BY <2>5, <2>9 DEF ListerAnswers
  <2> QED
    BY <2>3, <2>10
<1>2. IInv /\ [Next]_vars =>
        ((/\ populated /\ Watch(scope, rv) = {}
          /\ ListerAnswers(StateAt(Now)) /\ UNCHANGED log)
           => (ListerAnswers(StateAt(Now)) /\ Watch(scope, rv) = {})')
  BY <1>1
<1> QED
  BY <1>2, InvAlways, PTL DEF Spec, CurrentStays

\* The resource version only grows, with each delivery at least by one, and a
\* Pop shortens the queue.
THEOREM ReflectorGoesForward == Spec => ReflectorAdvances
<1>1. IInv /\ [Next]_vars =>
        (/\ rv <= rv'
         /\ Deliver => rv < rv'
         /\ Pop => Len(queue') < Len(queue))
  BY StepCases, DeliverAdvances, PopShows
<1> QED
  BY <1>1, InvAlways, PTL DEF Spec, ReflectorAdvances
=============================================================================
