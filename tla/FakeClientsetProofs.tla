-------------------------- MODULE FakeClientsetProofs --------------------------
(***************************************************************************)
(* Proofs about FakeClientset, for any VaultMaps, callers and contents.    *)
(* The invariant says where arrays are: a slot has the array made for it,  *)
(* a nil slice or nothing.  From it follows what every step does to the    *)
(* values behind the pointers, and that is what VaultMapStore does.        *)
(***************************************************************************)
EXTENDS FakeClientset, TLAPS

\* Every variable of the clientset has its type.
TypeOK ==
  /\ object \in [Slots -> Objects \cup {None}]
  /\ array \in [InUse -> Contents]
  /\ answer \in {"ok", "exists", "notFound"}

OwnArrays == \A s \in Slots : object[s] \in {s, Nil, None}

IInv == TypeOK /\ OwnArrays

\* What a test sees in a slot.
Seen(s) == Value(object[s])
-----------------------------------------------------------------------------
(* What Place does.                                                        *)

\* Nil and None are no addresses.
LEMMA NotAddresses == Nil \notin Slots /\ None \notin Slots /\ Nil # None /\ Addresses = Slots
BY CopyAssumption, FakeAssumption

\* The arrays in use are those of the slots that refer to their own.
LEMMA UsedSlots == OwnArrays => InUse = {s \in Slots : object[s] = s}
BY NotAddresses DEF OwnArrays, InUse

\* What is behind a slot: its array's content, or that there is none.
LEMMA SeenCases ==
  ASSUME OwnArrays, NEW s \in Slots
  PROVE  Seen(s) = IF object[s] = s THEN array[s] ELSE object[s]
BY NotAddresses DEF OwnArrays, Seen, Value

\* New objects with arrays of their own keep the invariant, and the other
\* slots show what they showed.
LEMMA Places ==
  ASSUME IInv, NEW new, NEW contents,
         DOMAIN new \subseteq Slots, \A s \in DOMAIN new : new[s] \in {s, Nil, None},
         DOMAIN contents = {s \in DOMAIN new : new[s] = s},
         \A a \in DOMAIN contents : contents[a] \in Contents,
         answer' \in {"ok", "exists", "notFound"}, Place(new, contents)
  PROVE  /\ IInv'
         /\ \A s \in Slots :
              Seen(s)' = IF s \in DOMAIN new THEN IF new[s] = s THEN contents[s] ELSE new[s]
                         ELSE Seen(s)
<1>1. /\ object' = [s \in Slots |-> IF s \in DOMAIN new THEN new[s] ELSE object[s]]
      /\ array' = [a \in InUse' |-> IF a \in DOMAIN contents THEN contents[a] ELSE array[a]]
  BY DEF Place
<1>2. OwnArrays'
  BY <1>1 DEF IInv, OwnArrays
<1>3. InUse' = {s \in Slots : object'[s] = s}
  BY <1>2, NotAddresses DEF OwnArrays, InUse
<1>4. ASSUME NEW a \in InUse', a \notin DOMAIN contents
      PROVE  a \in InUse /\ a \in Slots \ DOMAIN new
  BY <1>1, <1>3, <1>4, UsedSlots DEF IInv
<1>5. array' \in [InUse' -> Contents]
  <2>1. \A a \in InUse' : array'[a] \in Contents
    BY <1>1, <1>4 DEF IInv, TypeOK
  <2> QED
    BY <1>1, <2>1
<1>6. object' \in [Slots -> Objects \cup {None}]
  BY <1>1, NotAddresses DEF IInv, TypeOK, Objects
<1>7. IInv'
  BY <1>2, <1>5, <1>6 DEF IInv, TypeOK
<1>8. ASSUME NEW s \in Slots
      PROVE  Seen(s)' = IF s \in DOMAIN new THEN IF new[s] = s THEN contents[s] ELSE new[s]
                        ELSE Seen(s)
  <2>1. Seen(s)' = IF object'[s] = s THEN array'[s] ELSE object'[s]
    BY <1>2, NotAddresses DEF OwnArrays, Seen, Value
  <2>2. CASE s \in DOMAIN new
    BY <1>1, <1>3, <2>1, <2>2
  <2>3. CASE s \notin DOMAIN new
    BY <1>1, <1>3, <2>1, <2>3, SeenCases DEF IInv
  <2> QED
    BY <2>2, <2>3
<1> QED
  BY <1>7, <1>8

\* A deep copy shows what the object shows that it was made from.
LEMMA Copies ==
  ASSUME IInv, NEW new, DOMAIN new \subseteq Slots,
         \A s \in DOMAIN new : new[s] = None \/ \E t \in Slots : new[s] = object[t],
         answer' \in {"ok", "exists", "notFound"}, PlaceCopies(new)
  PROVE  /\ IInv'
         /\ \A s \in Slots : Seen(s)' = IF s \in DOMAIN new THEN Value(new[s]) ELSE Seen(s)
<1> DEFINE copies == VaultMapListDeepCopyInto(new)
           contents == CopiedItems(new, array)
<1>1. /\ DOMAIN copies = DOMAIN new
      /\ \A s \in DOMAIN new :
           copies[s] = IF new[s] = None THEN None ELSE IF new[s] = Nil THEN Nil ELSE s
  BY DEF VaultMapListDeepCopyInto, VaultMapDeepCopy, VaultMapDeepCopyInto, MapStatusDeepCopyInto
<1>2. /\ DOMAIN contents = {b \in DOMAIN new : new[b] \in Slots}
      /\ \A b \in DOMAIN contents : contents[b] = array[new[b]]
  BY NotAddresses DEF CopiedItems
<1>3. Place(copies, contents)
  BY DEF PlaceCopies
<1> HIDE DEF copies, contents
<1>4. \A s \in DOMAIN new : new[s] \in {None, Nil} \/ (new[s] \in Slots /\ new[s] \in InUse)
  BY NotAddresses DEF IInv, OwnArrays, InUse
<1>5. /\ \A s \in DOMAIN copies : copies[s] \in {s, Nil, None}
      /\ DOMAIN contents = {s \in DOMAIN copies : copies[s] = s}
  BY <1>1, <1>2, <1>4, NotAddresses
<1>6. \A b \in DOMAIN contents : contents[b] \in Contents
  BY <1>2, <1>4, NotAddresses DEF IInv, TypeOK
<1>7. /\ IInv'
      /\ \A s \in Slots :
           Seen(s)' = IF s \in DOMAIN copies THEN IF copies[s] = s THEN contents[s] ELSE copies[s]
                      ELSE Seen(s)
  BY <1>1, <1>3, <1>5, <1>6, Places
<1>8. \A s \in DOMAIN new : (IF copies[s] = s THEN contents[s] ELSE copies[s]) = Value(new[s])
  BY <1>1, <1>2, <1>4, NotAddresses DEF Value
<1> QED
  BY <1>1, <1>7, <1>8
-----------------------------------------------------------------------------
(* What the actions do to what is seen.                                    *)

\* The answer may be anything, the rows of the others stay as they are.
LEMMA MineChanges ==
  ASSUME NEW c \in Callers, NEW f, f = [k \in Keys |-> f[k]],
         \A k \in Keys : Seen(<<k, c>>)' = f[k],
         \A s \in Slots \ Row(c) : Seen(s)' = Seen(s)
  PROVE  StoredNow' = StoredNow /\ MineNow' = [MineNow EXCEPT ![c] = f]
<1>1. \A k \in Keys : <<k, Tracker>> \in Slots \ Row(c)
  BY FakeAssumption DEF Slots, Row
<1>2. \A d \in Callers \ {c}, k \in Keys : <<k, d>> \in Slots \ Row(c)
  BY DEF Slots, Row
<1>3. StoredNow' = StoredNow
  BY <1>1 DEF StoredNow, Tracked, Seen
<1>4. \A d \in Callers :
        [k \in Keys |-> Seen(<<k, d>>)'] = IF d = c THEN f ELSE [k \in Keys |-> Seen(<<k, d>>)]
  <2>1. TAKE d \in Callers
  <2>2. CASE d = c
    BY <2>2
  <2>3. CASE d # c
    BY <1>2, <2>3
  <2> QED
    BY <2>2, <2>3
<1>5. MineNow' = [d \in Callers |-> IF d = c THEN f ELSE [k \in Keys |-> Seen(<<k, d>>)]]
  BY <1>4 DEF MineNow, Held, Seen
<1> QED
  BY <1>3, <1>5 DEF MineNow, Held, Seen

\* What a goroutine holds, slot by slot.
LEMMA MineOf ==
  ASSUME NEW c \in Callers, NEW k \in Keys
  PROVE  MineNow[c][k] = Seen(<<k, c>>) /\ <<k, c>> \in Slots
BY DEF MineNow, Slots, Held, Seen

\* What the tracker holds, slot by slot.
LEMMA StoredOf ==
  ASSUME NEW k \in Keys
  PROVE  StoredNow[k] = Seen(<<k, Tracker>>) /\ <<k, Tracker>> \in Slots
BY DEF StoredNow, Slots, Tracked, Seen

\* A slot is empty when nothing is seen in it.
LEMMA NothingSeen ==
  ASSUME IInv, NEW s \in Slots
  PROVE  Seen(s) = None <=> object[s] = None
<1>1. object[s] = s => array[s] \in Contents
  BY UsedSlots DEF IInv, TypeOK
<1> QED
  BY <1>1, SeenCases, NotAddresses, FakeAssumption DEF IInv, OwnArrays
-----------------------------------------------------------------------------
(* Each action, as VaultMapStore has it.                                   *)

\* The slots of one goroutine, apart from the tracker's.
LEMMA RowOf ==
  ASSUME NEW c \in Callers
  PROVE  /\ Row(c) \subseteq Slots /\ \A k \in Keys : <<k, c>> \in Row(c)
         /\ \A s \in Row(c) : s[1] \in Keys /\ s = <<s[1], c>>
         /\ \A k \in Keys : <<k, Tracker>> \in Slots \ Row(c)
BY FakeAssumption DEF Row, Slots

\* A new object has an array of its own.
LEMMA BuildStep ==
  ASSUME IInv, NEW c \in Callers, NEW k \in Keys, NEW content \in Contents, Build(c, k, content)
  PROVE  IInv' /\ Store!Build(c, k, content)
<1> DEFINE new == Own(c, k, <<k, c>>)
           contents == [a \in {<<k, c>>} |-> content]
<1>1. Place(new, contents) /\ answer' = answer
  BY DEF Build
<1>2. /\ DOMAIN new = Row(c) /\ DOMAIN contents = {<<k, c>>} /\ contents[<<k, c>>] = content
      /\ \A s \in Row(c) : new[s] = IF s[1] = k THEN <<k, c>> ELSE None
  BY DEF Own
<1> HIDE DEF new, contents
<1>3. \A s \in Row(c) : new[s] = IF s = <<k, c>> THEN s ELSE None
  BY <1>2, RowOf
<1>4. <<k, c>> \in Row(c) /\ Row(c) \subseteq Slots
  BY RowOf
<1>5. DOMAIN contents = {s \in DOMAIN new : new[s] = s}
  BY <1>2, <1>3, <1>4, NotAddresses
<1>6. /\ IInv'
      /\ \A s \in Slots :
           Seen(s)' = IF s \in DOMAIN new THEN IF new[s] = s THEN contents[s] ELSE new[s]
                      ELSE Seen(s)
  BY <1>1, <1>2, <1>3, <1>4, <1>5, Places DEF IInv, TypeOK
<1>7. /\ \A s \in Slots \ Row(c) : Seen(s)' = Seen(s)
      /\ \A x \in Keys : Seen(<<x, c>>)' = IF x = k THEN content ELSE None
  BY <1>2, <1>3, <1>4, <1>6, RowOf, NotAddresses
<1>8. Store!Only(k, content) = [x \in Keys |-> IF x = k THEN content ELSE None]
  BY DEF Store!Only
<1>9. StoredNow' = StoredNow /\ MineNow' = [MineNow EXCEPT ![c] = Store!Only(k, content)]
  BY <1>7, <1>8, MineChanges
<1> QED
  BY <1>1, <1>6, <1>9 DEF Store!Build

\* An object with a nil slice has none.
LEMMA BuildNilStep ==
  ASSUME IInv, NEW c \in Callers, NEW k \in Keys, BuildNil(c, k)
  PROVE  IInv' /\ Store!Build(c, k, Nil)
<1> DEFINE new == Own(c, k, Nil)
<1>1. Place(new, NoContents) /\ answer' = answer
  BY DEF BuildNil
<1>2. /\ DOMAIN new = Row(c) /\ DOMAIN NoContents = {}
      /\ \A s \in Row(c) : new[s] = IF s[1] = k THEN Nil ELSE None
  BY DEF Own, NoContents
<1> HIDE DEF new
<1>3. Row(c) \subseteq Slots /\ {s \in DOMAIN new : new[s] = s} = {}
  BY <1>2, RowOf, NotAddresses
<1>4. /\ IInv'
      /\ \A s \in Slots :
           Seen(s)' = IF s \in DOMAIN new THEN IF new[s] = s THEN NoContents[s] ELSE new[s]
                      ELSE Seen(s)
  BY <1>1, <1>2, <1>3, Places DEF IInv, TypeOK
<1>5. /\ \A s \in Slots \ Row(c) : Seen(s)' = Seen(s)
      /\ \A x \in Keys : Seen(<<x, c>>)' = IF x = k THEN Nil ELSE None
  BY <1>2, <1>3, <1>4, RowOf, NotAddresses
<1>6. Store!Only(k, Nil) = [x \in Keys |-> IF x = k THEN Nil ELSE None]
  BY DEF Store!Only
<1>7. StoredNow' = StoredNow /\ MineNow' = [MineNow EXCEPT ![c] = Store!Only(k, Nil)]
  BY <1>5, <1>6, MineChanges
<1> QED
  BY <1>1, <1>4, <1>7 DEF Store!Build

\* An assignment reaches the value of one slot only.
LEMMA AssignStep ==
  ASSUME IInv, NEW c \in Callers, NEW k \in Keys, NEW content \in Contents, Assign(c, k, content)
  PROVE  IInv' /\ Store!Change(c, k, content)
<1> DEFINE s == <<k, c>>
<1>1. s \in Slots /\ object[s] = s /\ s \in InUse
  BY NotAddresses, UsedSlots DEF Assign, Held, Slots, IInv, OwnArrays
<1>2. array' = [array EXCEPT ![s] = content] /\ UNCHANGED <<object, answer>>
  BY <1>1 DEF Assign, Held
<1>3. IInv'
  BY <1>1, <1>2 DEF IInv, TypeOK, OwnArrays, InUse
<1>4. \A t \in Slots : Seen(t)' = IF t = s THEN content ELSE Seen(t)
  <2>1. TAKE t \in Slots
  <2>2. Seen(t)' = IF object[t] = t THEN array'[t] ELSE object[t]
    BY <1>2, NotAddresses DEF IInv, OwnArrays, Seen, Value
  <2>3. object[t] = t => array'[t] = IF t = s THEN content ELSE array[t]
    BY <1>2, UsedSlots DEF IInv, TypeOK
  <2> QED
    BY <1>1, <2>2, <2>3, SeenCases DEF IInv
<1> DEFINE f == [x \in Keys |-> IF x = k THEN content ELSE MineNow[c][x]]
<1>5. \A x \in Keys : Seen(<<x, c>>)' = f[x]
  BY <1>4, MineOf
<1>6. \A t \in Slots \ Row(c) : Seen(t)' = Seen(t)
  BY <1>4, RowOf
<1>7. StoredNow' = StoredNow /\ MineNow' = [MineNow EXCEPT ![c] = f]
  BY <1>5, <1>6, MineChanges
<1>8. f = [MineNow[c] EXCEPT ![k] = content] /\ MineNow[c][k] # None
  <2>1. Seen(s) # None
    BY <1>1, NothingSeen, NotAddresses
  <2> QED
    BY <2>1, MineOf DEF MineNow
<1> HIDE DEF f
<1>9. MineNow' = [MineNow EXCEPT ![c][k] = content]
  BY <1>7, <1>8
<1> QED
  BY <1>2, <1>3, <1>7, <1>8, <1>9 DEF Store!Change

\* Get and List: the caller is handed copies.
LEMMA HandStep ==
  ASSUME IInv, NEW c \in Callers, NEW K, Hand(c, K), answer' \in {"ok", "exists", "notFound"}
  PROVE  /\ IInv' /\ StoredNow' = StoredNow
         /\ MineNow' = [MineNow EXCEPT ![c] = [k \in Keys |-> IF k \in K THEN StoredNow[k] ELSE None]]
<1> DEFINE new == [s \in Row(c) |-> IF s[1] \in K THEN Tracked(s[1]) ELSE None]
           f == [k \in Keys |-> IF k \in K THEN StoredNow[k] ELSE None]
<1>1. PlaceCopies(new)
  BY DEF Hand
<1>2. /\ DOMAIN new = Row(c)
      /\ \A k \in Keys : new[<<k, c>>] = IF k \in K THEN object[<<k, Tracker>>] ELSE None
  BY RowOf DEF Tracked
<1> HIDE DEF new
<1>3. \A s \in DOMAIN new : new[s] = None \/ \E t \in Slots : new[s] = object[t]
  <2>1. TAKE s \in DOMAIN new
  <2>2. s[1] \in Keys /\ new[s] = new[<<s[1], c>>] /\ <<s[1], Tracker>> \in Slots
    BY <1>2, RowOf
  <2> QED
    BY <1>2, <2>2
<1>4. IInv' /\ \A s \in Slots : Seen(s)' = IF s \in DOMAIN new THEN Value(new[s]) ELSE Seen(s)
  BY <1>1, <1>2, <1>3, RowOf, Copies
<1>5. \A k \in Keys : Seen(<<k, c>>)' = f[k]
  <2>1. TAKE k \in Keys
  <2>2. Seen(<<k, c>>)' = Value(new[<<k, c>>])
    BY <1>2, <1>4, RowOf
  <2>3. Value(None) = None
    BY NotAddresses DEF Value
  <2> QED
    BY <1>2, <2>2, <2>3, StoredOf DEF Seen
<1>6. \A s \in Slots \ Row(c) : Seen(s)' = Seen(s)
  BY <1>2, <1>4
<1>7. StoredNow' = StoredNow /\ MineNow' = [MineNow EXCEPT ![c] = f]
  BY <1>5, <1>6, MineChanges
<1> QED
  BY <1>4, <1>7

\* Create and Update when they are not refused.
LEMMA TrackStep ==
  ASSUME IInv, NEW c \in Callers, NEW k \in Keys, Track(c, k)
  PROVE  IInv' /\ Store!Put(c, k)
<1> DEFINE t == <<k, Tracker>>
           kept == [s \in {t} |-> Held(c, k)]
           both == [s \in {t} \cup Row(c) |-> IF s[1] = k THEN Held(c, k) ELSE None]
           f == [x \in Keys |-> IF x = k THEN MineNow[c][k] ELSE None]
<1>1. /\ t \in Slots \ Row(c) /\ Row(c) \subseteq Slots /\ <<k, c>> \in Slots
      /\ \A s \in Slots : s # t => s[1] # k \/ s[2] # Tracker
  BY RowOf DEF Slots
<1>2. Held(c, k) = object[<<k, c>>] /\ Value(Held(c, k)) = MineNow[c][k] /\ Value(None) = None
  BY NotAddresses DEF Held, MineNow, Value
<1>3. answer' = "ok" /\ (PlaceCopies(kept) \/ PlaceCopies(both))
  BY DEF Track, Return
<1>4. /\ Store!Only(k, MineNow[c][k]) = f
      /\ \A new : (DOMAIN new = {t} \/ DOMAIN new = {t} \cup Row(c)) => DOMAIN new \subseteq Slots
  BY <1>1 DEF Store!Only
<1>5. ASSUME NEW v, \A x \in Keys : Seen(<<x, Tracker>>)' = IF x = k THEN v ELSE Seen(<<x, Tracker>>)
      PROVE  StoredNow' = [StoredNow EXCEPT ![k] = v]
  BY <1>5 DEF StoredNow, Tracked, Seen
<1>6. CASE PlaceCopies(kept)
  <2>1. DOMAIN kept = {t} /\ kept[t] = object[<<k, c>>]
    BY <1>2
  <2> HIDE DEF kept
  <2>2. IInv' /\ \A s \in Slots : Seen(s)' = IF s \in DOMAIN kept THEN Value(kept[s]) ELSE Seen(s)
    BY <1>1, <1>3, <1>6, <2>1, Copies
  <2>3. \A s \in Slots : Seen(s)' = IF s = t THEN MineNow[c][k] ELSE Seen(s)
    BY <1>2, <2>1, <2>2
  <2>4. StoredNow' = [StoredNow EXCEPT ![k] = MineNow[c][k]]
    BY <1>5, <2>3, RowOf
  <2>5. \A d \in Callers, x \in Keys : Seen(<<x, d>>)' = Seen(<<x, d>>)
    BY <2>3, FakeAssumption DEF Slots
  <2>6. MineNow' = MineNow
    BY <2>5 DEF MineNow, Held, Seen
  <2> QED
    BY <1>3, <2>2, <2>4, <2>6 DEF Store!Put
<1>7. CASE PlaceCopies(both)
  <2>1. /\ DOMAIN both = {t} \cup Row(c)
        /\ \A x \in Keys : both[<<x, c>>] = IF x = k THEN object[<<k, c>>] ELSE None
        /\ both[t] = object[<<k, c>>]
    BY <1>2, RowOf
  <2> HIDE DEF both
  <2>2. \A s \in DOMAIN both : both[s] = None \/ \E u \in Slots : both[s] = object[u]
    <3>1. TAKE s \in DOMAIN both
    <3>2. CASE s = t
      BY <1>1, <2>1, <3>2
    <3>3. CASE s \in Row(c)
      <4>1. s[1] \in Keys /\ both[s] = both[<<s[1], c>>]
        BY <3>3, RowOf
      <4> QED
        BY <1>1, <2>1, <4>1
    <3> QED
      BY <2>1, <3>2, <3>3
  <2>3. IInv' /\ \A s \in Slots : Seen(s)' = IF s \in DOMAIN both THEN Value(both[s]) ELSE Seen(s)
    BY <1>1, <1>3, <1>7, <2>1, <2>2, Copies
  <2>4. \A x \in Keys : Seen(<<x, c>>)' = f[x]
    <3>1. TAKE x \in Keys
    <3>2. Seen(<<x, c>>)' = Value(both[<<x, c>>])
      BY <2>1, <2>3, RowOf
    <3> QED
      BY <1>2, <2>1, <3>2
  <2>5. \A s \in Slots \ ({t} \cup Row(c)) : Seen(s)' = Seen(s)
    BY <2>1, <2>3
  <2>6. Seen(t)' = MineNow[c][k]
    BY <1>1, <1>2, <2>1, <2>3
  <2>7. StoredNow' = [StoredNow EXCEPT ![k] = MineNow[c][k]]
    <3>1. \A x \in Keys \ {k} : <<x, Tracker>> \in Slots \ ({t} \cup Row(c))
      BY RowOf
    <3> QED
      BY <1>5, <2>5, <2>6, <3>1
  <2>8. MineNow' = [MineNow EXCEPT ![c] = f]
    <3>1. \A d \in Callers \ {c}, x \in Keys : <<x, d>> \in Slots \ ({t} \cup Row(c))
      BY FakeAssumption DEF Slots, Row
    <3>2. \A d \in Callers :
            [x \in Keys |-> Seen(<<x, d>>)'] = IF d = c THEN f ELSE MineNow[d]
      <4>1. TAKE d \in Callers
      <4>2. CASE d = c
        BY <2>4, <4>2
      <4>3. CASE d # c
        BY <2>5, <3>1, <4>3 DEF MineNow, Held, Seen
      <4> QED
        BY <4>2, <4>3
    <3>3. MineNow' = [d \in Callers |-> IF d = c THEN f ELSE MineNow[d]]
      BY <3>2 DEF MineNow, Held, Seen
    <3> HIDE DEF f
    <3> QED
      BY <3>3 DEF MineNow
  <2> HIDE DEF f
  <2> QED
    BY <1>3, <1>4, <2>3, <2>7, <2>8 DEF Store!Put
<1> QED
  BY <1>3, <1>6, <1>7

\* Delete takes one value out of the store.
LEMMA DeleteStep ==
  ASSUME IInv, NEW k \in Keys, Tracked(k) # None, answer' = "ok",
         Place([s \in {<<k, Tracker>>} |-> None], NoContents)
  PROVE  IInv' /\ Store!Delete(k)
<1> DEFINE t == <<k, Tracker>>
           new == [s \in {t} |-> None]
<1>1. DOMAIN new = {t} /\ new[t] = None /\ DOMAIN NoContents = {} /\ t \in Slots
  BY DEF NoContents, Slots
<1> HIDE DEF new
<1>2. {s \in DOMAIN new : new[s] = s} = {}
  BY <1>1, NotAddresses
<1>3. Place(new, NoContents)
  BY DEF new
<1>4. /\ IInv'
      /\ \A s \in Slots :
           Seen(s)' = IF s \in DOMAIN new THEN IF new[s] = s THEN NoContents[s] ELSE new[s]
                      ELSE Seen(s)
  BY <1>1, <1>2, <1>3, Places
<1>5. \A s \in Slots : Seen(s)' = IF s = t THEN None ELSE Seen(s)
  BY <1>1, <1>4, NotAddresses
<1>6. \A x \in Keys : Seen(<<x, Tracker>>)' = IF x = k THEN None ELSE Seen(<<x, Tracker>>)
  BY <1>5 DEF Slots
<1>7. StoredNow' = [StoredNow EXCEPT ![k] = None]
  BY <1>6 DEF StoredNow, Tracked, Seen
<1>8. \A d \in Callers, x \in Keys : Seen(<<x, d>>)' = Seen(<<x, d>>)
  BY <1>5, FakeAssumption DEF Slots
<1>9. MineNow' = MineNow
  BY <1>8 DEF MineNow, Held, Seen
<1>10. StoredNow[k] # None
  BY <1>1, NothingSeen, StoredOf DEF Tracked
<1> QED
  BY <1>4, <1>7, <1>9, <1>10 DEF Store!Delete

\* A call that is refused or ignored.
LEMMA RefuseStep ==
  ASSUME IInv, NEW how \in {"ok", "exists", "notFound"}, Refuse(how)
  PROVE  IInv' /\ Store!Refuse(how)
<1>1. UNCHANGED <<object, array>> /\ answer' = how
  BY DEF Refuse, Return
<1>2. IInv'
  BY <1>1 DEF IInv, TypeOK, OwnArrays, InUse
<1>3. StoredNow' = StoredNow /\ MineNow' = MineNow
  BY <1>1 DEF StoredNow, MineNow, Tracked, Held, Value
<1> QED
  BY <1>1, <1>2, <1>3 DEF Store!Refuse

\* The guards of Create, Update, Get and Delete are the store's.
LEMMA SameGuards ==
  ASSUME IInv, NEW k \in Keys
  PROVE  /\ Tracked(k) = None <=> StoredNow[k] = None
         /\ \A c \in Callers : Held(c, k) = None <=> MineNow[c][k] = None
BY StoredOf, MineOf, NothingSeen DEF Tracked, Held
-----------------------------------------------------------------------------
\* Every step keeps the invariant and is one of the store's, or none.
LEMMA StepInv == IInv /\ [Next]_vars => IInv' /\ [Store!Next]_(Store!storeVars)
<1> SUFFICES ASSUME IInv, [Next]_vars
             PROVE  IInv' /\ (Store!Next \/ UNCHANGED Store!storeVars)
  OBVIOUS
<1> DEFINE Goal == IInv' /\ (Store!Next \/ UNCHANGED Store!storeVars)
<1>1. ASSUME NEW c \in Callers, NEW k \in Keys, Create(c, k)
      PROVE  Goal
  <2>1. MineNow[c][k] # None
    BY <1>1, SameGuards DEF Create
  <2>2. CASE Tracked(k) = None
    BY <1>1, <2>1, <2>2, TrackStep, SameGuards DEF Create, Store!Create, Store!Next
  <2>3. CASE Tracked(k) # None
    BY <1>1, <2>1, <2>3, RefuseStep, SameGuards DEF Create, Store!Create, Store!Next
  <2> QED
    BY <2>2, <2>3
<1>2. ASSUME NEW c \in Callers, NEW k \in Keys, Update(c, k)
      PROVE  Goal
  <2>1. MineNow[c][k] # None
    BY <1>2, SameGuards DEF Update
  <2>2. CASE Tracked(k) # None
    BY <1>2, <2>1, <2>2, TrackStep, SameGuards DEF Update, Store!Update, Store!Next
  <2>3. CASE Tracked(k) = None
    BY <1>2, <2>1, <2>3, RefuseStep, SameGuards DEF Update, Store!Update, Store!Next
  <2> QED
    BY <2>2, <2>3
<1>3. ASSUME NEW c \in Callers, NEW k \in Keys, Get(c, k)
      PROVE  Goal
  <2>1. Hand(c, {k}) /\ answer' = IF StoredNow[k] # None THEN "ok" ELSE "notFound"
    BY <1>3, SameGuards DEF Get, Return
  <2>2. /\ IInv' /\ StoredNow' = StoredNow
        /\ MineNow' = [MineNow EXCEPT ![c] =
             [x \in Keys |-> IF x \in {k} THEN StoredNow[x] ELSE None]]
    BY <2>1, HandStep
  <2>3. Store!Only(k, StoredNow[k]) = [x \in Keys |-> IF x \in {k} THEN StoredNow[x] ELSE None]
    BY DEF Store!Only
  <2>4. Store!Get(c, k)
    BY <2>1, <2>2, <2>3 DEF Store!Get
  <2> QED
    BY <2>2, <2>4 DEF Store!Next
<1>4. ASSUME NEW c \in Callers, NEW ns, NEW selector, List(c, ns, selector)
      PROVE  Goal
  <2> DEFINE K == Matches(ns, selector)
  <2>1. Hand(c, K) /\ answer' = "ok" /\ K \in SUBSET Keys
    BY <1>4 DEF List, Return, Matches
  <2> HIDE DEF K
  <2>2. /\ IInv' /\ StoredNow' = StoredNow
        /\ MineNow' = [MineNow EXCEPT ![c] =
             [x \in Keys |-> IF x \in K THEN StoredNow[x] ELSE None]]
    BY <2>1, HandStep
  <2>3. Store!List(c, K)
    BY <2>1, <2>2 DEF Store!List
  <2> QED
    BY <2>1, <2>2, <2>3 DEF Store!Next
<1>5. ASSUME NEW c \in Callers, NEW k \in Keys, NEW content \in Contents,
             Build(c, k, content) \/ Assign(c, k, content)
      PROVE  Goal
  BY <1>5, BuildStep, AssignStep DEF Store!Next
<1>6. ASSUME NEW c \in Callers, NEW k \in Keys, BuildNil(c, k)
      PROVE  Goal
  BY <1>6, BuildNilStep DEF Store!Next
<1>7. ASSUME NEW k \in Keys, Delete(k)
      PROVE  Goal
  <2>1. CASE Tracked(k) # None
    BY <1>7, <2>1, DeleteStep DEF Delete, Return, Store!Next
  <2>2. CASE Tracked(k) = None
    BY <1>7, <2>2, RefuseStep, SameGuards DEF Delete, Store!Delete, Store!Next
  <2> QED
    BY <2>1, <2>2
<1>8. ASSUME NEW c \in Callers, Hand(c, {}), Return("ok")
      PROVE  Goal
  <2>1. Hand(c, {}) /\ answer' = "ok"
    BY <1>8 DEF Return
  <2>2. /\ IInv' /\ StoredNow' = StoredNow
        /\ MineNow' = [MineNow EXCEPT ![c] =
             [x \in Keys |-> IF x \in {} THEN StoredNow[x] ELSE None]]
    BY <2>1, HandStep
  <2>3. Store!List(c, {})
    BY <2>1, <2>2 DEF Store!List
  <2> QED
    BY <2>2, <2>3 DEF Store!Next
<1>9. ASSUME NEW c \in Callers, Patch(c)
      PROVE  Goal
  <2>1. CASE Refuse("ok")
    BY <2>1, RefuseStep DEF Store!Refuse, Store!Ignore, Store!Next
  <2>2. CASE Hand(c, {}) /\ Return("ok")
    BY <1>8, <2>2
  <2> QED
    BY <1>9, <2>1, <2>2 DEF Patch
<1>10. ASSUME DeleteCollection
      PROVE  Goal
  BY <1>10, RefuseStep DEF DeleteCollection, Store!Refuse, Store!Ignore, Store!Next
<1>11. ASSUME UNCHANGED vars
      PROVE  Goal
  <2>1. UNCHANGED <<object, array, answer>>
    BY <1>11 DEF vars
  <2>2. IInv'
    BY <2>1 DEF IInv, TypeOK, OwnArrays, InUse
  <2>3. StoredNow' = StoredNow /\ MineNow' = MineNow
    BY <2>1 DEF StoredNow, MineNow, Tracked, Held, Value
  <2> QED
    BY <2>1, <2>2, <2>3 DEF Store!storeVars
<1> HIDE DEF Goal
<1>12. ASSUME Next
       PROVE  Goal
  BY <1>1, <1>2, <1>3, <1>4, <1>5, <1>6, <1>7, <1>9, <1>10, <1>12 DEF Next
<1>13. Goal
  BY <1>11, <1>12
<1> QED
  BY <1>13 DEF Goal

\* At first every slot is empty.
LEMMA InitInv == Init => IInv /\ Store!Init
<1> SUFFICES ASSUME Init PROVE IInv /\ Store!Init
  OBVIOUS
<1>1. PICK given \in SUBSET Row(Tracker), nils \in SUBSET Row(Tracker) :
        object = [s \in Slots |-> IF s \notin given THEN None ELSE IF s \in nils THEN Nil ELSE s]
  BY DEF Init
<1>2. IInv
  BY <1>1, NotAddresses DEF Init, IInv, TypeOK, OwnArrays, Objects
<1>3. \A s \in Slots : Seen(s) \in Contents \cup {Nil, None}
  BY <1>2, UsedSlots, SeenCases DEF IInv, TypeOK, OwnArrays
<1>4. StoredNow \in [Keys -> (Contents \cup {Nil}) \cup {None}]
  BY <1>3, StoredOf DEF StoredNow
<1>5. \A c \in Callers, k \in Keys : Seen(<<k, c>>) = None
  <2>1. TAKE c \in Callers, k \in Keys
  <2>2. <<k, c>> \in Slots /\ <<k, c>> \notin given
    BY FakeAssumption DEF Slots, Row
  <2> QED
    BY <1>1, <1>2, <2>2, NothingSeen
<1>6. MineNow = [c \in Callers |-> Store!Nothing]
  BY <1>5 DEF MineNow, Held, Seen, Store!Nothing
<1> QED
  BY <1>2, <1>4, <1>6 DEF Init, Store!Init

\* The invariant, and with it the type of every variable, holds always.
LEMMA InvAlways == Spec => []IInv
BY InitInv, StepInv, PTL DEF Spec

\* No call of the clientset, and nothing a test does with what it has, makes
\* two VaultMaps share an array.
THEOREM CopiesAreSeparate == Spec => []NothingShared
<1>1. IInv => NothingShared
  BY NotAddresses DEF IInv, OwnArrays, NothingShared
<1> QED
  BY <1>1, InvAlways, PTL

\* The tracker of the fake clientset implements a store of values.
THEOREM FakeImplementsStore == Spec => StoreSpec
BY InitInv, StepInv, InvAlways, PTL DEF Spec, StoreSpec, Store!Spec
=============================================================================
