--------------------------- MODULE ARCValueProofs ---------------------------
(***************************************************************************)
(* Proofs about the values in ARCCache, for every size, every set of keys  *)
(* and of values: what each operation of a list does to the values of its  *)
(* keys, then what each operation of the cache keeps and forgets. It       *)
(* follows that the cache implements LossyCache and forgets an entry on a  *)
(* lookup or an insertion only when it is full.                            *)
(***************************************************************************)
EXTENDS ARCProofs, ARCRefinement, FiniteSetTheorems

(* The value of a key is that of its only entry.                               *)
LEMMA PeekIs ==
  ASSUME NEW l, Linked(l), NEW i \in 1 .. Len(l.evictList)
  PROVE  /\ l.evictList[i].key \in l.items
         /\ LRUPeek(l, l.evictList[i].key) = l.evictList[i].value
<1> DEFINE k == l.evictList[i].key
<1>1. k \in l.items
  BY DEF Linked, KeysIn
<1>2. i = ElementOf(l, k)
  <2> HIDE DEF k
  <2>1. \A j \in 1 .. Len(l.evictList) : l.evictList[j].key = k => j = ElementOf(l, k)
    BY <1>1, ElementFacts
  <2>2. l.evictList[i].key = k
    BY DEF k
  <2> QED
    BY <2>1, <2>2
<1>3. LRUPeek(l, k) = l.evictList[ElementOf(l, k)].value
  BY <1>1 DEF LRUPeek, LRUContains
<1> QED
  BY <1>1, <1>2, <1>3

(* Outside the keys in s, m has the keys of l and their values. *)
Keeps(l, m, s) ==
  \A x \in Keys \ s : (x \in m.items <=> x \in l.items) /\ LRUPeek(m, x) = LRUPeek(l, x)

(* The keys one operation may forget, another may forget too.                  *)
LEMMA KeepsMore ==
  ASSUME NEW l, NEW m, NEW s, Keeps(l, m, s), NEW u, s \subseteq u
  PROVE  Keeps(l, m, u)
  BY DEF Keeps

(* Two operations forget what each of them forgets.                            *)
LEMMA KeepsThen ==
  ASSUME NEW l, NEW m, NEW o, NEW s, NEW u, Keeps(l, m, s), Keeps(m, o, u)
  PROVE  Keeps(l, o, s \cup u)
  BY DEF Keeps

(* A list that has the keys of another, but for s, and the other's entries for *)
(* them, has the same values.                                                  *)
LEMMA SameEntries ==
  ASSUME NEW l, Linked(l), NEW m, Linked(m), NEW s,
         \A x \in Keys \ s : x \in m.items <=> x \in l.items,
         \A i \in 1 .. Len(m.evictList) :
           m.evictList[i].key \in s
             \/ \E j \in 1 .. Len(l.evictList) : m.evictList[i] = l.evictList[j]
  PROVE  Keeps(l, m, s)
<1> SUFFICES ASSUME NEW x \in Keys, x \notin s PROVE LRUPeek(m, x) = LRUPeek(l, x)
  BY DEF Keeps
<1>1. CASE x \notin l.items
  BY <1>1 DEF LRUPeek, LRUContains
<1>2. CASE x \in l.items
  <2>1. x \in m.items
    BY <1>2
  <2>2. \E i \in 1 .. Len(m.evictList) : m.evictList[i].key = x
    BY <2>1, ElementFacts
  <2>3. PICK i \in 1 .. Len(m.evictList) : m.evictList[i].key = x
    BY <2>2
  <2>4. PICK j \in 1 .. Len(l.evictList) : m.evictList[i] = l.evictList[j]
    BY <2>3
  <2>5. LRUPeek(m, x) = m.evictList[i].value
    BY <2>3, PeekIs
  <2>6. LRUPeek(l, x) = l.evictList[j].value
    BY <2>3, <2>4, PeekIs
  <2> QED
    BY <2>4, <2>5, <2>6
<1> QED
  BY <1>1, <1>2

(* What is left when an entry is taken out was there before.                   *)
LEMMA WithoutIsPart ==
  ASSUME NEW l, Linked(l), NEW k \in l.items
  PROVE  \A i \in 1 .. Len(Without(l, k)) :
           \E j \in 1 .. Len(l.evictList) : Without(l, k)[i] = l.evictList[j]
<1> DEFINE s == l.evictList
           n == ElementOf(l, k)
           w == Without(l, k)
<1>1. s \in Seq(Entry) /\ n \in 1 .. Len(s) /\ Len(s) \in Nat
  BY ElementFacts DEF Linked
<1>2. w = Ext!RemoveAt(s, n)
  BY DEF Without
<1> HIDE DEF s, n, w
<1>3. /\ Len(w) = Len(s) - 1
      /\ \A j \in 1 .. Len(s) - 1 : j < n => w[j] = s[j]
      /\ \A j \in 1 .. Len(s) - 1 : ~(j < n) => w[j] = s[j + 1]
  BY <1>1, <1>2, RemoveAtFacts
<1>4. ASSUME NEW i \in 1 .. Len(w) PROVE \E j \in 1 .. Len(s) : w[i] = s[j]
  <2>1. i \in 1 .. Len(s) - 1 /\ i \in 1 .. Len(s) /\ i + 1 \in 1 .. Len(s)
    BY <1>1, <1>3
  <2> QED
    BY <1>3, <2>1
<1> QED
  BY <1>4 DEF s, w

(* Remove forgets the value of its key and no other.                           *)
LEMMA RemoveValues ==
  ASSUME NEW l, LRUOK(l), NEW k \in Keys
  PROVE  Keeps(l, LRURemove(l, k), {k}) /\ LRUPeek(LRURemove(l, k), k) = Nil
<1> DEFINE m == LRURemove(l, k)
<1>1. Linked(l) /\ Linked(m) /\ m.items = l.items \ {k}
  BY RemoveKeeps DEF LRUOK
<1>2. \A i \in 1 .. Len(m.evictList) :
        \E j \in 1 .. Len(l.evictList) : m.evictList[i] = l.evictList[j]
  <2>1. CASE k \in l.items
    <3>1. m.evictList = Without(l, k)
      BY <2>1 DEF LRURemove, LRUContains
    <3>2. \A i \in 1 .. Len(Without(l, k)) :
            \E j \in 1 .. Len(l.evictList) : Without(l, k)[i] = l.evictList[j]
      BY <1>1, <2>1, WithoutIsPart
    <3> HIDE DEF m
    <3> QED
      BY <3>1, <3>2
  <2>2. CASE k \notin l.items
    BY <2>2 DEF LRURemove, LRUContains
  <2> QED
    BY <2>1, <2>2
<1> HIDE DEF m
<1>3. Keeps(l, m, {k})
  BY <1>1, <1>2, SameEntries
<1>4. LRUPeek(m, k) = Nil
  BY <1>1 DEF LRUPeek, LRUContains
<1> QED
  BY <1>3, <1>4 DEF m

(* RemoveOldest forgets the value of the oldest key and no other.              *)
LEMMA OldestValues ==
  ASSUME NEW l, Linked(l), LRULen(l) > 0
  PROVE  Keeps(l, LRURemoveOldest(l), {Oldest(l)})
<1> DEFINE m == LRURemoveOldest(l)
           s == l.evictList
<1>1. Linked(m) /\ m.items = l.items \ {Oldest(l)}
  BY OldestFacts
<1>2. s \in Seq(Entry) /\ Len(s) > 0 /\ Len(s) \in Nat
  BY DEF Linked, LRULen
<1>3. m.evictList = Ext!Front(s)
  BY DEF LRURemoveOldest
<1> HIDE DEF m, s
<1>4. Len(m.evictList) = Len(s) - 1 /\ \A j \in 1 .. Len(s) - 1 : m.evictList[j] = s[j]
  BY <1>2, <1>3, FrontFacts
<1>5. ASSUME NEW i \in 1 .. Len(m.evictList)
      PROVE  \E j \in 1 .. Len(s) : m.evictList[i] = s[j]
  <2>1. i \in 1 .. Len(s) - 1 /\ i \in 1 .. Len(s)
    BY <1>2, <1>4
  <2> QED
    BY <1>4, <2>1
<1> QED
  BY <1>1, <1>5, SameEntries DEF m, s

(* An entry in front of elements of another sequence.                          *)
LEMMA InFront ==
  ASSUME NEW w \in Seq(Entry), NEW e \in Entry, NEW s, s = <<e>> \o w, NEW t,
         \A i \in 1 .. Len(w) : \E j \in 1 .. Len(t) : w[i] = t[j]
  PROVE  /\ 1 \in 1 .. Len(s) /\ s[1] = e
         /\ \A i \in 1 .. Len(s) : s[i] = e \/ \E j \in 1 .. Len(t) : s[i] = t[j]
<1>1. /\ Len(s) = Len(w) + 1 /\ Len(w) \in Nat
      /\ \A i \in 1 .. Len(w) + 1 : s[i] = IF i = 1 THEN e ELSE w[i - 1]
  BY PushFacts
<1>2. ASSUME NEW i \in 1 .. Len(s) PROVE s[i] = e \/ \E j \in 1 .. Len(t) : s[i] = t[j]
  <2>1. CASE i = 1
    BY <1>1, <2>1
  <2>2. CASE i # 1
    <3>1. i - 1 \in 1 .. Len(w) /\ s[i] = w[i - 1]
      BY <1>1, <2>2
    <3> QED
      BY <3>1
  <2> QED
    BY <2>1, <2>2
<1>3. 1 \in 1 .. Len(s) /\ s[1] = e
  BY <1>1
<1> QED
  BY <1>2, <1>3

(* Get keeps every key and every value.                                        *)
LEMMA GetValues ==
  ASSUME NEW l, LRUOK(l), NEW k \in l.items
  PROVE  Keeps(l, LRUGet(l, k), {})
<1> DEFINE w == Without(l, k)
           e == l.evictList[ElementOf(l, k)]
           m == LRUGet(l, k)
<1>1. Linked(l) /\ Linked(m) /\ m.items = l.items
  BY GetKeeps DEF LRUOK
<1>2. l.evictList \in Seq(Entry) /\ ElementOf(l, k) \in 1 .. Len(l.evictList)
  BY <1>1, ElementFacts DEF Linked
<1>3. m.evictList = <<e>> \o w
  BY <1>1, NewList DEF LRUGet
<1>4. /\ w \in Seq(Entry)
      /\ \A i \in 1 .. Len(w) : \E j \in 1 .. Len(l.evictList) : w[i] = l.evictList[j]
  BY <1>1, WithoutFacts, WithoutIsPart
<1>5. e \in Entry /\ \E j \in 1 .. Len(l.evictList) : e = l.evictList[j]
  BY <1>2
<1> HIDE DEF w, e, m
<1>6. \A i \in 1 .. Len(m.evictList) :
        \E j \in 1 .. Len(l.evictList) : m.evictList[i] = l.evictList[j]
  <2>1. \A i \in 1 .. Len(m.evictList) : m.evictList[i] = e \/
          \E j \in 1 .. Len(l.evictList) : m.evictList[i] = l.evictList[j]
    BY <1>3, <1>4, <1>5, InFront, SMTT(30)
  <2> QED
    BY <1>5, <2>1
<1> QED
  BY <1>1, <1>6, SameEntries DEF m

(* Besides k, only the keys in s are forgotten when Add makes m of l: none, or *)
(* one of a list that is as long as it may be.                                 *)
AddForgets(l, m, k, s) ==
  /\ Keeps(l, m, s \cup {k})
  /\ \/ s = {}
     \/ LRULen(l) >= Size /\ \E g \in l.items \ {k} : s = {g} /\ g \notin m.items

(* Add gives its key its value, and forgets at most one other, the oldest of a *)
(* list that is as long as it may be.                                          *)
LEMMA AddValues ==
  ASSUME NEW l, LRUOK(l), NEW k \in Keys, NEW v \in Values \cup {Nil}
  PROVE  /\ k \in LRUAdd(l, k, v).items
         /\ LRUPeek(LRUAdd(l, k, v), k) = v
         /\ \E s \in SUBSET Keys : AddForgets(l, LRUAdd(l, k, v), k, s)
<1> DEFINE e == [key |-> k, value |-> v]
<1>0. e \in Entry /\ e.key = k /\ e.value = v
  BY DEF Entry
<1>1. Linked(l) /\ LRULen(l) \in Nat /\ l.items \subseteq Keys /\ l.evictList \in Seq(Entry)
  BY DEF LRUOK, Linked, LRULen
<1>2. CASE k \in l.items
  <2> DEFINE w == Without(l, k)
             m == LRUAdd(l, k, v)
  <2>1. m = [evictList |-> <<e>> \o w, items |-> l.items]
    BY <1>1, <1>2 DEF LRUAdd, LRUContains, Linked
  <2>2. /\ w \in Seq(Entry)
        /\ \A i \in 1 .. Len(w) : \E j \in 1 .. Len(l.evictList) : w[i] = l.evictList[j]
    BY <1>1, <1>2, WithoutFacts, WithoutIsPart
  <2>3. Linked(m)
    BY AddFacts DEF LRUOK
  <2>4. m.evictList = <<e>> \o w /\ m.items = l.items
    BY <2>1
  <2> HIDE DEF w, m
  <2>5. /\ 1 \in 1 .. Len(m.evictList) /\ m.evictList[1] = e
        /\ \A i \in 1 .. Len(m.evictList) : m.evictList[i] = e \/
             \E j \in 1 .. Len(l.evictList) : m.evictList[i] = l.evictList[j]
    BY <1>0, <2>2, <2>4, InFront, SMTT(30)
  <2>8. Keeps(l, m, {k}) /\ LRUPeek(m, k) = v
    <3> DEFINE s == {k}
    <3>1. \A x \in Keys \ s : x \in m.items <=> x \in l.items
      BY <2>4
    <3> HIDE DEF e
    <3>2. s = {k}
      OBVIOUS
    <3> HIDE DEF s
    <3>3. \A i \in 1 .. Len(m.evictList) :
            m.evictList[i].key \in s \/ \E j \in 1 .. Len(l.evictList) : m.evictList[i] = l.evictList[j]
      BY <1>0, <2>5, <3>2
    <3>4. Keeps(l, m, s)
      BY <1>1, <2>3, <3>1, <3>3, SameEntries
    <3>5. LRUPeek(m, k) = e.value
      BY <1>0, <2>3, <2>5, PeekIs
    <3> QED
      BY <1>0, <3>2, <3>4, <3>5
  <2>6. Keeps(l, m, {} \cup {k}) /\ LRUPeek(m, k) = v /\ k \in m.items
    BY <1>2, <2>4, <2>8
  <2>7. {} \in SUBSET Keys
    OBVIOUS
  <2> QED
    BY <2>6, <2>7 DEF m, AddForgets
<1>3. CASE k \notin l.items
  <2> DEFINE m == LRUPush(l, k, v)
  <2>1. Linked(m) /\ m.items = l.items \cup {k} /\ LRULen(m) = LRULen(l) + 1
    BY <1>1, <1>3, PushedFacts
  <2>2. m = [evictList |-> <<e>> \o l.evictList, items |-> l.items \cup {k}]
    BY DEF LRUPush
  <2>3. LRUAdd(l, k, v) = IF LRULen(l) < Size THEN m ELSE LRURemoveOldest(m)
    BY <1>3 DEF LRUAdd, LRUContains
  <2>4. LRULen(l) > 0 => Oldest(m) # k
    <3> SUFFICES ASSUME LRULen(l) > 0 PROVE Oldest(m) # k
      OBVIOUS
    <3> DEFINE s == <<e>> \o l.evictList
    <3>1. /\ s \in Seq(Entry) /\ Len(s) = Len(l.evictList) + 1 /\ Len(l.evictList) > 0
          /\ \A j \in 1 .. Len(l.evictList) + 1 : s[j] = IF j = 1 THEN e ELSE l.evictList[j - 1]
      BY <1>0, <1>1, PushFacts DEF LRULen
    <3>2. m.evictList = s
      BY <2>2
    <3> HIDE DEF s, m, e
    <3>3. Oldest(m) = s[Len(s)].key
      BY <1>1, <3>1, <3>2, FrontFacts DEF Oldest, LRULen
    <3>4. /\ Len(l.evictList) \in 1 .. Len(l.evictList)
          /\ s[Len(s)] = l.evictList[Len(l.evictList)]
      BY <1>1, <3>1 DEF LRULen
    <3>5. l.evictList[Len(l.evictList)].key \in l.items
      BY <1>1, <3>4, PeekIs
    <3> QED
      BY <1>3, <3>3, <3>4, <3>5
  <2> HIDE DEF m
  <2>5. /\ 1 \in 1 .. Len(m.evictList) /\ m.evictList[1] = e
        /\ \A i \in 1 .. Len(m.evictList) : m.evictList[i] = e \/
             \E j \in 1 .. Len(l.evictList) : m.evictList[i] = l.evictList[j]
    <3> DEFINE w == l.evictList
               s == m.evictList
    <3>1. s = <<e>> \o w /\ w \in Seq(Entry) /\ e \in Entry
      BY <1>0, <1>1, <2>2
    <3> HIDE DEF e, w, s
    <3>2. \A i \in 1 .. Len(w) : \E j \in 1 .. Len(w) : w[i] = w[j]
      OBVIOUS
    <3>3. /\ 1 \in 1 .. Len(s) /\ s[1] = e
          /\ \A i \in 1 .. Len(s) : s[i] = e \/ \E j \in 1 .. Len(w) : s[i] = w[j]
      BY <3>1, <3>2, InFront
    <3> QED
      BY <3>3 DEF w, s
  <2>6. Keeps(l, m, {k}) /\ LRUPeek(m, k) = v
    <3> DEFINE s == {k}
    <3>1. \A x \in Keys \ s : x \in m.items <=> x \in l.items
      BY <2>1
    <3> HIDE DEF e
    <3>2. s = {k}
      OBVIOUS
    <3> HIDE DEF s
    <3>3. \A i \in 1 .. Len(m.evictList) :
            m.evictList[i].key \in s \/ \E j \in 1 .. Len(l.evictList) : m.evictList[i] = l.evictList[j]
      BY <1>0, <2>5, <3>2
    <3>4. Keeps(l, m, s)
      BY <1>1, <2>1, <3>1, <3>3, SameEntries
    <3>5. LRUPeek(m, k) = e.value
      BY <1>0, <2>1, <2>5, PeekIs
    <3> QED
      BY <1>0, <3>2, <3>4, <3>5
  <2>7. CASE LRULen(l) < Size
    <3>1. LRUAdd(l, k, v) = m /\ {} \in SUBSET Keys /\ {} \cup {k} = {k} /\ k \in m.items
      BY <2>1, <2>3, <2>7
    <3> QED
      BY <2>6, <3>1 DEF AddForgets
  <2>8. CASE ~(LRULen(l) < Size)
    <3> DEFINE g == Oldest(m)
               o == LRURemoveOldest(m)
    <3>1. LRULen(l) > 0 /\ LRULen(m) > 0 /\ LRULen(l) >= Size
      BY <1>1, <2>1, <2>8, SizeAssumption
    <3>2. g \in m.items /\ o.items = m.items \ {g} /\ g # k
      BY <2>1, <2>4, <3>1, OldestFacts
    <3>3. Keeps(m, o, {g})
      BY <2>1, <3>1, OldestValues
    <3>4. LRUAdd(l, k, v) = o
      BY <2>3, <2>8
    <3> HIDE DEF g, o
    <3>5. Keeps(l, o, {g} \cup {k})
      BY <2>6, <3>3 DEF Keeps
    <3>6. LRUPeek(o, k) = v
      BY <2>6, <3>2, <3>3 DEF Keeps
    <3>7. g \in l.items \ {k} /\ g \notin o.items /\ k \in o.items /\ {g} \in SUBSET Keys
      BY <1>1, <2>1, <3>2
    <3> QED
      BY <3>1, <3>4, <3>5, <3>6, <3>7 DEF AddForgets
  <2> QED
    BY <2>7, <2>8
<1> QED
  BY <1>2, <1>3

(* Making room forgets at most one key, and none unless the cache is full.     *)
LEMMA RoomValues ==
  ASSUME CacheOK, NEW q \in 0 .. Size, NEW f \in BOOLEAN, NEW r, r = Room(q, f)
  PROVE  \E s \in SUBSET Keys :
           /\ Keeps(t1, r.t1, s) /\ Keeps(t2, r.t2, s)
           /\ \/ s = {}
              \/ /\ CacheLen >= Size
                 /\ \E g \in Keys : s = {g} /\ g \notin r.t1.items /\ g \notin r.t2.items
           /\ CacheLen >= Size \/ (r.t1 = t1 /\ r.t2 = t2)
<1> DEFINE fromT1 == EvictsT1(q, f)
           fromT2 == ~fromT1 /\ LRULen(t2) > 0
<1>1. t1.items \cap t2.items = {}
  BY DEF CacheOK, OneListPerKey
<1>2. \A l : Keeps(l, l, {})
  BY DEF Keeps
<1>3. {} \in SUBSET Keys /\ \A g \in Keys : {g} \in SUBSET Keys
  OBVIOUS
<1>4. \A l, g : Keeps(l, l, {g})
  BY DEF Keeps
<1>5. CASE Full /\ fromT1
  <2>1. LRULen(t1) > 0 /\ CacheLen >= Size
    BY <1>5 DEF EvictsT1, Full
  <2>2. Oldest(t1) \in t1.items /\ LRURemoveOldest(t1).items = t1.items \ {Oldest(t1)}
    BY <2>1, Lists, OldestKeeps
  <2>3. Keeps(t1, LRURemoveOldest(t1), {Oldest(t1)})
    BY <2>1, Lists, OldestValues DEF LRUOK
  <2>4. r.t1 = LRURemoveOldest(t1) /\ r.t2 = t2
    BY <1>5 DEF Room, Replaced
  <2>5. Oldest(t1) \in Keys /\ Oldest(t1) \notin r.t1.items /\ Oldest(t1) \notin r.t2.items
    BY <1>1, <2>2, <2>4, Lists
  <2> QED
    BY <1>3, <1>4, <2>1, <2>3, <2>4, <2>5
<1>6. CASE Full /\ fromT2
  <2>1. LRULen(t2) > 0 /\ CacheLen >= Size
    BY <1>6 DEF Full
  <2>2. Oldest(t2) \in t2.items /\ LRURemoveOldest(t2).items = t2.items \ {Oldest(t2)}
    BY <2>1, Lists, OldestKeeps
  <2>3. Keeps(t2, LRURemoveOldest(t2), {Oldest(t2)})
    BY <2>1, Lists, OldestValues DEF LRUOK
  <2>4. r.t1 = t1 /\ r.t2 = LRURemoveOldest(t2)
    BY <1>6 DEF Room, Replaced
  <2>5. Oldest(t2) \in Keys /\ Oldest(t2) \notin r.t1.items /\ Oldest(t2) \notin r.t2.items
    BY <1>1, <2>2, <2>4, Lists
  <2> QED
    BY <1>3, <1>4, <2>1, <2>3, <2>4, <2>5
<1>7. CASE ~Full \/ (~fromT1 /\ ~fromT2)
  <2>1. r.t1 = t1 /\ r.t2 = t2
    BY <1>7 DEF Room, Replaced
  <2> QED
    BY <1>2, <1>3, <2>1
<1> QED
  BY <1>5, <1>6, <1>7

-----------------------------------------------------------------------------
(* An operation on key k leaves it with the value v. Of the other keys it      *)
(* keeps the values, but for those of s, which it forgets: none of them unless *)
(* the cache is full.                                                          *)
Leaves(k, v, s) ==
  /\ Peek(k)' = v
  /\ \A x \in Keys \ {k} :
       \/ (Contains(x)' <=> Contains(x)) /\ Peek(x)' = Peek(x)
       \/ x \in s /\ ~Contains(x)' /\ CacheLen >= Size

(* Lists that keep what they have, except k and the keys in s, which none of   *)
(* them has, leave every key but k with its value.                             *)
LEMMA KeepsLeaves ==
  ASSUME NEW k \in Keys, NEW v, NEW s,
         Keeps(t1, t1', s \cup {k}), Keeps(t2, t2', s \cup {k}), Peek(k)' = v,
         \A x \in s \ {k} : x \notin t1'.items /\ x \notin t2'.items /\ CacheLen >= Size
  PROVE  Leaves(k, v, s)
<1> SUFFICES ASSUME NEW x \in Keys \ {k}
             PROVE  \/ (Contains(x)' <=> Contains(x)) /\ Peek(x)' = Peek(x)
                    \/ x \in s /\ ~Contains(x)' /\ CacheLen >= Size
  BY DEF Leaves
<1>1. CASE x \in s
  BY <1>1 DEF Contains, LRUContains
<1>2. CASE x \notin s
  <2>1. /\ x \in t1'.items <=> x \in t1.items
        /\ x \in t2'.items <=> x \in t2.items
        /\ LRUPeek(t1', x) = LRUPeek(t1, x) /\ LRUPeek(t2', x) = LRUPeek(t2, x)
    BY <1>2 DEF Keeps
  <2> QED
    BY <2>1 DEF Peek, Contains, LRUContains, LRUPeek
<1> QED
  BY <1>1, <1>2

(* The entry of k goes to t2 with the value v: the key that leaves t2 when     *)
(* that list is as long as it may be is the only one forgotten.                *)
LEMMA MoveLeaves ==
  ASSUME CacheOK, NEW k \in Keys, NEW v \in Values \cup {Nil},
         t1' = LRURemove(t1, k), t2' = LRUAdd(t2, k, v)
  PROVE  Contains(k)' /\ \E a \in Keys : \E s \in SUBSET {a} : Leaves(k, v, s)
<1>1. Keeps(t1, t1', {k}) /\ t1'.items = t1.items \ {k}
  BY Lists, RemoveKeeps, RemoveValues
<1>2. k \in t2'.items /\ LRUPeek(t2', k) = v
  BY Lists, AddValues
<1>3. PICK s \in SUBSET Keys : AddForgets(t2, t2', k, s)
  BY Lists, AddValues
<1>4. Peek(k)' = v /\ Contains(k)'
  BY <1>1, <1>2 DEF Peek, Contains, LRUContains
<1>5. \A x \in s \ {k} : x \notin t1'.items /\ x \notin t2'.items /\ CacheLen >= Size
  <2>1. LRULen(t2) >= Size => CacheLen >= Size
    BY Lists DEF CacheLen
  <2>2. t1.items \cap t2.items = {}
    BY DEF CacheOK, OneListPerKey
  <2> QED
    BY <1>1, <1>3, <2>1, <2>2 DEF AddForgets
<1>6. Keeps(t1, t1', s \cup {k})
  BY <1>1, KeepsMore
<1>7. Leaves(k, v, s)
  BY <1>3, <1>4, <1>5, <1>6, KeepsLeaves DEF AddForgets
<1>8. \E a \in Keys : s \in SUBSET {a}
  BY <1>3, Lists DEF AddForgets
<1> QED
  BY <1>4, <1>7, <1>8

(* Get returns the value of its key and keeps it.                              *)
LEMMA GetLeaves ==
  ASSUME CacheOK, NEW k \in Keys, Get(k)
  PROVE  /\ Contains(k) => Contains(k)'
         /\ \E a \in Keys : \E s \in SUBSET {a} : Leaves(k, Peek(k), s)
<1>0. \A l, u : Keeps(l, l, u)
  BY DEF Keeps
<1>1. CASE LRUContains(t1, k)
  <2> DEFINE v == LRUPeek(t1, k)
  <2>1. t1' = LRURemove(t1, k) /\ t2' = LRUAdd(t2, k, v) /\ Peek(k) = v
    BY <1>1 DEF Get, Contains, Peek
  <2>2. v \in Values \cup {Nil}
    BY Lists, LRUTyped
  <2> HIDE DEF v
  <2> QED
    BY <2>1, <2>2, MoveLeaves
<1>2. CASE ~LRUContains(t1, k)
  <2>1. t1' = t1 /\ Keeps(t2, t2', {}) /\ (k \in t2'.items <=> k \in t2.items)
    <3>1. CASE LRUContains(t2, k)
      <4>1. t1' = t1 /\ t2' = LRUGet(t2, k) /\ k \in t2.items
        BY <1>2, <3>1 DEF Get, Contains, LRUContains
      <4> QED
        BY <4>1, Lists, GetKeeps, GetValues
    <3>2. CASE ~LRUContains(t2, k)
      BY <1>0, <1>2, <3>2 DEF Get, Contains
    <3> QED
      BY <3>1, <3>2
  <2>2. Keeps(t1, t1', {} \cup {k}) /\ Keeps(t2, t2', {} \cup {k})
    BY <1>0, <2>1, KeepsMore
  <2>3. LRUPeek(t2', k) = LRUPeek(t2, k)
    BY <2>1 DEF Keeps
  <2>4. Peek(k)' = Peek(k)
    BY <1>2, <2>1, <2>3 DEF Peek
  <2>5. Leaves(k, Peek(k), {})
    BY <2>2, <2>4, KeepsLeaves
  <2>6. Contains(k) => Contains(k)'
    BY <2>1 DEF Contains, LRUContains
  <2>7. {} \in SUBSET {k}
    OBVIOUS
  <2> QED
    BY <2>5, <2>6, <2>7
<1> QED
  BY <1>1, <1>2

(* Once there is room, the new value goes to t1 or to t2: two keys at most are *)
(* forgotten.                                                                  *)
LEMMA RoomLeaves ==
  ASSUME CacheOK, NEW k \in Keys, ~Contains(k), NEW v \in Values,
         NEW q \in 0 .. Size, NEW f \in BOOLEAN, NEW r, r = Room(q, f),
         \/ t1' = r.t1 /\ t2' = LRUAdd(r.t2, k, v)
         \/ t1' = LRUAdd(r.t1, k, v) /\ t2' = r.t2
  PROVE  Contains(k)' /\ \E a, b \in Keys : \E s \in SUBSET {a, b} : Leaves(k, v, s)
<1>1. /\ LRUOK(r.t1) /\ LRUOK(r.t2)
      /\ r.t1.items \subseteq t1.items /\ r.t2.items \subseteq t2.items
  BY RoomFacts
<1>2. PICK s \in SUBSET Keys :
        /\ Keeps(t1, r.t1, s) /\ Keeps(t2, r.t2, s)
        /\ \/ s = {}
           \/ /\ CacheLen >= Size
              /\ \E g \in Keys : s = {g} /\ g \notin r.t1.items /\ g \notin r.t2.items
        /\ CacheLen >= Size \/ (r.t1 = t1 /\ r.t2 = t2)
  BY RoomValues
<1>3. /\ k \notin t1.items /\ k \notin t2.items /\ t1.items \cap t2.items = {}
      /\ t1.items \subseteq Keys /\ t2.items \subseteq Keys
  BY Lists DEF Contains, LRUContains, CacheOK, OneListPerKey
<1>4. /\ r.t1 = t1 /\ LRULen(r.t1) >= Size => CacheLen >= Size
      /\ r.t2 = t2 /\ LRULen(r.t2) >= Size => CacheLen >= Size
  BY Lists DEF CacheLen
<1>5. CASE t1' = r.t1 /\ t2' = LRUAdd(r.t2, k, v)
  <2>1. /\ k \in t2'.items /\ LRUPeek(t2', k) = v
        /\ \E u \in SUBSET Keys : AddForgets(r.t2, t2', k, u)
    BY <1>1, <1>5, AddValues
  <2>2. PICK u \in SUBSET Keys : AddForgets(r.t2, t2', k, u)
    BY <2>1
  <2>3. t2'.items \subseteq r.t2.items \cup {k}
    BY <1>1, <1>5, AddFacts
  <2>4. Keeps(t1, t1', (s \cup u) \cup {k})
    BY <1>2, <1>5, KeepsMore
  <2>5. Keeps(t2, t2', (s \cup u) \cup {k})
    <3>1. Keeps(t2, t2', s \cup (u \cup {k}))
      BY <1>2, <2>2, KeepsThen DEF AddForgets
    <3>2. s \cup (u \cup {k}) = (s \cup u) \cup {k}
      OBVIOUS
    <3> QED
      BY <3>1, <3>2
  <2>6. Peek(k)' = v /\ Contains(k)'
    BY <1>1, <1>3, <1>5, <2>1 DEF Peek, Contains, LRUContains
  <2>7. ASSUME NEW x \in (s \cup u) \ {k}
        PROVE  x \notin t1'.items /\ x \notin t2'.items /\ CacheLen >= Size
    <3>1. CASE x \in s
      BY <1>2, <1>5, <2>3, <2>7, <3>1
    <3>2. CASE x \in u
      BY <1>1, <1>2, <1>3, <1>4, <1>5, <2>2, <3>2 DEF AddForgets
    <3> QED
      BY <2>7, <3>1, <3>2
  <2>8. Leaves(k, v, s \cup u)
    BY <2>4, <2>5, <2>6, <2>7, KeepsLeaves
  <2>9. \E a, b \in Keys : s \cup u \in SUBSET {a, b}
    <3>1. (\E a \in Keys : s \in SUBSET {a}) /\ (\E b \in Keys : u \in SUBSET {b})
      BY <1>1, <1>2, <1>3, <2>2 DEF AddForgets
    <3> QED
      BY <3>1
  <2> QED
    BY <2>6, <2>8, <2>9
<1>6. CASE t1' = LRUAdd(r.t1, k, v) /\ t2' = r.t2
  <2>1. /\ k \in t1'.items /\ LRUPeek(t1', k) = v
        /\ \E u \in SUBSET Keys : AddForgets(r.t1, t1', k, u)
    BY <1>1, <1>6, AddValues
  <2>2. PICK u \in SUBSET Keys : AddForgets(r.t1, t1', k, u)
    BY <2>1
  <2>3. t1'.items \subseteq r.t1.items \cup {k}
    BY <1>1, <1>6, AddFacts
  <2>4. Keeps(t2, t2', (s \cup u) \cup {k})
    BY <1>2, <1>6, KeepsMore
  <2>5. Keeps(t1, t1', (s \cup u) \cup {k})
    <3>1. Keeps(t1, t1', s \cup (u \cup {k}))
      BY <1>2, <2>2, KeepsThen DEF AddForgets
    <3>2. s \cup (u \cup {k}) = (s \cup u) \cup {k}
      OBVIOUS
    <3> QED
      BY <3>1, <3>2
  <2>6. Peek(k)' = v /\ Contains(k)'
    BY <2>1 DEF Peek, Contains, LRUContains
  <2>7. ASSUME NEW x \in (s \cup u) \ {k}
        PROVE  x \notin t1'.items /\ x \notin t2'.items /\ CacheLen >= Size
    <3>1. CASE x \in s
      BY <1>2, <1>6, <2>3, <2>7, <3>1
    <3>2. CASE x \in u
      BY <1>1, <1>2, <1>3, <1>4, <1>6, <2>2, <3>2 DEF AddForgets
    <3> QED
      BY <2>7, <3>1, <3>2
  <2>8. Leaves(k, v, s \cup u)
    BY <2>4, <2>5, <2>6, <2>7, KeepsLeaves
  <2>9. \E a, b \in Keys : s \cup u \in SUBSET {a, b}
    <3>1. (\E a \in Keys : s \in SUBSET {a}) /\ (\E b \in Keys : u \in SUBSET {b})
      BY <1>1, <1>2, <1>3, <2>2 DEF AddForgets
    <3> QED
      BY <3>1
  <2> QED
    BY <2>6, <2>8, <2>9
<1> QED
  BY <1>5, <1>6

(* Add leaves its key with the new value.                                      *)
LEMMA AddLeaves ==
  ASSUME CacheOK, NEW k \in Keys, NEW v \in Values, Add(k, v)
  PROVE  Contains(k)' /\ \E a, b \in Keys : \E s \in SUBSET {a, b} : Leaves(k, v, s)
<1>1. CASE AddCached(k, v)
  <2>1. Contains(k)' /\ \E a \in Keys : \E s \in SUBSET {a} : Leaves(k, v, s)
    BY <1>1, MoveLeaves DEF AddCached
  <2>2. PICK a \in Keys : \E s \in SUBSET {a} : Leaves(k, v, s)
    BY <2>1
  <2>3. SUBSET {a} = SUBSET {a, a}
    OBVIOUS
  <2> QED
    BY <2>1, <2>2, <2>3
<1>2. CASE AddFromB1(k, v)
  <2> DEFINE r == Room(Raised, FALSE)
  <2>1. Raised \in 0 .. Size /\ ~Contains(k) /\ t1' = r.t1 /\ t2' = LRUAdd(r.t2, k, v)
    BY <1>2, RaisedTyped DEF AddFromB1
  <2>2. r = Room(Raised, FALSE) /\ FALSE \in BOOLEAN
    OBVIOUS
  <2> HIDE DEF r
  <2> QED
    BY <2>1, <2>2, RoomLeaves
<1>3. CASE AddFromB2(k, v)
  <2> DEFINE r == Room(Lowered, TRUE)
  <2>1. Lowered \in 0 .. Size /\ ~Contains(k) /\ t1' = r.t1 /\ t2' = LRUAdd(r.t2, k, v)
    BY <1>3, LoweredTyped DEF AddFromB2
  <2>2. r = Room(Lowered, TRUE) /\ TRUE \in BOOLEAN
    OBVIOUS
  <2> HIDE DEF r
  <2> QED
    BY <2>1, <2>2, RoomLeaves
<1>4. CASE AddNew(k, v)
  <2> DEFINE r == Room(p, FALSE)
  <2>1. p \in 0 .. Size /\ ~Contains(k) /\ t1' = LRUAdd(r.t1, k, v) /\ t2' = r.t2
    BY <1>4, Lists DEF AddNew
  <2>2. r = Room(p, FALSE) /\ FALSE \in BOOLEAN
    OBVIOUS
  <2> HIDE DEF r
  <2> QED
    BY <2>1, <2>2, RoomLeaves
<1> QED
  BY <1>1, <1>2, <1>3, <1>4 DEF Add

-----------------------------------------------------------------------------
(* The cache as LossyCache sees it. *)
View == [k \in Keys |-> Peek(k)]

(* A set of keys that are among two has no more than two elements.             *)
LEMMA FewLost ==
  ASSUME NEW a, NEW b, NEW s \in SUBSET {a, b}
  PROVE  Cardinality(s) <= 2 /\ (a = b => Cardinality(s) <= 1)
<1>1. IsFiniteSet({a}) /\ Cardinality({a}) = 1
  BY FS_Singleton
<1>2. IsFiniteSet({a} \cup {b}) /\ Cardinality({a} \cup {b}) \in {1, 2}
  BY <1>1, FS_AddElement
<1>3. {a} \cup {b} = {a, b}
  OBVIOUS
<1>4. IsFiniteSet({a, b}) /\ Cardinality({a, b}) <= 2
  BY <1>2, <1>3
<1>5. Cardinality(s) <= Cardinality({a, b}) /\ IsFiniteSet(s)
  BY <1>4, FS_Subset
<1>6. Cardinality(s) \in Nat /\ Cardinality({a, b}) \in Nat
  BY <1>4, <1>5, FS_CardinalityType
<1>7. ASSUME a = b PROVE Cardinality({a, b}) = 1
  <2>1. {a, b} = {a}
    BY <1>7
  <2> QED
    BY <1>1, <2>1
<1> QED
  BY <1>4, <1>5, <1>6, <1>7

(* The keys an operation forgets, as LossyCache counts them.                   *)
LEMMA LeavesIsForgetting ==
  ASSUME NEW k \in Keys, NEW v, NEW a \in Keys, NEW b \in Keys, NEW s \in SUBSET {a, b}, Leaves(k, v, s)
  PROVE  \E lost \in SUBSET ({x \in Keys : View[x] # Nil} \ {k}) :
           /\ Cardinality(lost) <= 2 /\ (a = b => Cardinality(lost) <= 1)
           /\ View' = [x \in Keys |-> IF x \in lost THEN Nil ELSE [View EXCEPT ![k] = v][x]]
<1> DEFINE lost == {x \in Keys \ {k} : x \in s /\ View[x] # Nil /\ View'[x] = Nil}
<1>1. lost \in SUBSET {a, b} /\ lost \in SUBSET ({x \in Keys : View[x] # Nil} \ {k})
  OBVIOUS
<1>2. Cardinality(lost) <= 2 /\ (a = b => Cardinality(lost) <= 1)
  BY <1>1, FewLost
<1>3. View' = [x \in Keys |-> Peek(x)']
  BY DEF View
<1>4. ASSUME NEW x \in Keys
      PROVE  Peek(x)' = IF x \in lost THEN Nil ELSE [View EXCEPT ![k] = v][x]
  <2>1. View[x] = Peek(x) /\ View'[x] = Peek(x)'
    BY <1>3 DEF View
  <2>2. CASE x = k
    <3>1. [View EXCEPT ![k] = v][k] = v
      BY DEF View
    <3> QED
      BY <2>2, <3>1 DEF Leaves
  <2>3. CASE x # k
    <3>1. [View EXCEPT ![k] = v][x] = Peek(x)
      BY <2>3 DEF View
    <3>2. CASE Peek(x)' = Peek(x)
      BY <2>1, <3>1, <3>2
    <3>3. CASE x \in s /\ ~Contains(x)'
      <4>1. Peek(x)' = Nil
        BY <3>3 DEF Peek, Contains, LRUPeek
      <4> QED
        BY <2>1, <2>3, <3>1, <3>3, <4>1
    <3> QED
      BY <2>3, <3>2, <3>3 DEF Leaves
  <2> QED
    BY <2>2, <2>3
<1> HIDE DEF lost
<1> QED
  BY <1>1, <1>2, <1>3, <1>4

(* Remove takes its key out of the one list that has it.                       *)
LEMMA RemoveForgets ==
  ASSUME CacheOK, NEW k \in Keys, Remove(k)
  PROVE  View' = [x \in Keys |-> IF x = k THEN Nil ELSE View[x]]
<1>1. /\ k \in t1.items => k \notin t2.items
      /\ t1' = LRURemove(t1, k)
      /\ t2' = IF k \in t1.items THEN t2 ELSE LRURemove(t2, k)
  BY DEF Remove, LRUContains, CacheOK, OneListPerKey
<1>2. /\ Keeps(t1, t1', {k}) /\ t1'.items = t1.items \ {k}
      /\ Keeps(t2, t2', {k}) /\ k \notin t2'.items
  <2>1. Keeps(t2, t2, {k})
    BY DEF Keeps
  <2>2. /\ Keeps(t1, LRURemove(t1, k), {k}) /\ LRURemove(t1, k).items = t1.items \ {k}
        /\ Keeps(t2, LRURemove(t2, k), {k}) /\ LRURemove(t2, k).items = t2.items \ {k}
    BY Lists, RemoveKeeps, RemoveValues
  <2> QED
    BY <1>1, <2>1, <2>2
<1>3. Peek(k)' = Nil
  BY <1>2 DEF Peek, LRUPeek, LRUContains
<1>4. ASSUME NEW x \in Keys \ {k} PROVE Peek(x)' = Peek(x)
  BY <1>2 DEF Keeps, Peek, LRUContains
<1> QED
  BY <1>3, <1>4 DEF View

(* Both modules count with the Cardinality of FiniteSets.                      *)
LEMMA SameCardinality == \A s : Abstract!Cardinality(s) = Cardinality(s)
  BY DEF Abstract!Cardinality, Cardinality

(* An empty cache has no value for any key.                                    *)
LEMMA EmptyView ==
  ASSUME NEW l, NEW m, l = NewLRU, m = NewLRU, NEW k
  PROVE  (IF LRUContains(l, k) THEN LRUPeek(l, k) ELSE LRUPeek(m, k)) = Nil
  BY DEF NewLRU, LRUPeek, LRUContains

(* A new cache is an empty one.                                                *)
LEMMA LossyInit == Init => Abstract!Init
<1> SUFFICES ASSUME Init PROVE Abstract!Init
  OBVIOUS
<1>1. \A k \in Keys : Peek(k) = Nil
  BY EmptyView DEF Init, Peek
<1> QED
  BY <1>1 DEF Init, Call, Abstract!Init, Abstract!Call

(* Every operation on the four lists is the same operation of LossyCache.      *)
LEMMA LossyNext ==
  CacheOK /\ [Next]_vars => [Abstract!Next]_<<[k \in Keys |-> Peek(k)], call>>
<1> SUFFICES ASSUME CacheOK, [Next]_vars
             PROVE  Abstract!Next \/ UNCHANGED <<[k \in Keys |-> Peek(k)], call>>
  OBVIOUS
<1>1. ASSUME NEW k \in Keys, Get(k) PROVE Abstract!Get(k)
  <2>1. PICK a \in Keys : \E s \in SUBSET {a} : Leaves(k, Peek(k), s)
    BY <1>1, GetLeaves
  <2>2. PICK s \in SUBSET {a, a} : Leaves(k, Peek(k), s)
    BY <2>1
  <2>3. PICK lost \in SUBSET ({x \in Keys : View[x] # Nil} \ {k}) :
          /\ Cardinality(lost) <= 1
          /\ View' = [x \in Keys |-> IF x \in lost THEN Nil ELSE [View EXCEPT ![k] = Peek(k)][x]]
    BY <2>2, LeavesIsForgetting
  <2>4. [View EXCEPT ![k] = Peek(k)] = View
    BY DEF View
  <2>5. View' = [x \in Keys |-> IF x \in lost THEN Nil ELSE View[x]]
    BY <2>3, <2>4
  <2>6. call' = Call("get", k, View[k])
    BY <1>1 DEF Get, View
  <2>7. lost \in SUBSET (Abstract!Cached \ {k})
    BY DEF Abstract!Cached, View
  <2>8. [x \in Keys |-> Peek(x)]' = Abstract!Forgetting([x \in Keys |-> Peek(x)], lost)
    BY <2>5 DEF Abstract!Forgetting, View
  <2>9. call' = Abstract!Call("get", k, [x \in Keys |-> Peek(x)][k])
    BY <2>6 DEF Abstract!Call, Call, View
  <2> QED
    BY <2>3, <2>7, <2>8, <2>9, SameCardinality DEF Abstract!Get
<1>2. ASSUME NEW k \in Keys, NEW v \in Values, Add(k, v) PROVE Abstract!Add(k, v)
  <2>1. PICK a \in Keys, b \in Keys : \E s \in SUBSET {a, b} : Leaves(k, v, s)
    BY <1>2, AddLeaves
  <2>2. PICK s \in SUBSET {a, b} : Leaves(k, v, s)
    BY <2>1
  <2>3. PICK lost \in SUBSET ({x \in Keys : View[x] # Nil} \ {k}) :
          /\ Cardinality(lost) <= 2
          /\ View' = [x \in Keys |-> IF x \in lost THEN Nil ELSE [View EXCEPT ![k] = v][x]]
    BY <2>2, LeavesIsForgetting
  <2>4. call' = Call("add", k, v)
    BY <1>2 DEF Add
  <2>5. lost \in SUBSET (Abstract!Cached \ {k})
    BY DEF Abstract!Cached, View
  <2>6. [x \in Keys |-> Peek(x)]'
          = Abstract!Forgetting([[x \in Keys |-> Peek(x)] EXCEPT ![k] = v], lost)
    BY <2>3 DEF Abstract!Forgetting, View
  <2>7. call' = Abstract!Call("add", k, v)
    BY <2>4 DEF Abstract!Call, Call
  <2> QED
    BY <2>3, <2>5, <2>6, <2>7, SameCardinality DEF Abstract!Add
<1>3. ASSUME NEW k \in Keys, Remove(k) PROVE Abstract!Remove(k)
  <2>1. View' = [x \in Keys |-> IF x \in {k} THEN Nil ELSE View[x]]
    BY <1>3, RemoveForgets
  <2>2. call' = Call("remove", k, Nil)
    BY <1>3 DEF Remove
  <2> QED
    BY <2>1, <2>2 DEF Abstract!Remove, Abstract!Forgetting, Abstract!Call, Call, View
<1>4. ASSUME Purge PROVE Abstract!Purge
  <2>1. \A k \in Keys : Peek(k)' = Nil
    BY <1>4, EmptyView DEF Purge, Peek
  <2>2. [k \in Keys |-> Peek(k)]' = [k \in Keys |-> IF k \in Keys THEN Nil ELSE [x \in Keys |-> Peek(x)][k]]
    BY <2>1
  <2>3. call' = Call("purge", Nil, Nil)
    BY <1>4 DEF Purge
  <2> QED
    BY <2>2, <2>3 DEF Abstract!Purge, Abstract!Forgetting, Abstract!Call, Call
<1>5. ASSUME UNCHANGED vars PROVE UNCHANGED <<[k \in Keys |-> Peek(k)], call>>
  BY <1>5 DEF vars, Peek
<1> QED
  BY <1>1, <1>2, <1>3, <1>4, <1>5 DEF Next, Abstract!Next

(* The cache of four lists implements LossyCache: no caller is given another   *)
(* value than the one added last, and no operation forgets more than it may    *)
(* (Get, Add, Remove, Purge of lru/arc.go).                                    *)
THEOREM LossyCacheIsImplemented == Spec => ImplementsLossyCache
<1>1. Init => Abstract!Init
  BY LossyInit
<1>2. CacheOK /\ [Next]_vars => [Abstract!Next]_<<[k \in Keys |-> Peek(k)], call>>
  BY LossyNext
<1> QED
  BY <1>1, <1>2, CacheInvariant, PTL DEF Spec, ImplementsLossyCache, Abstract!Spec

(* A lookup or an insertion forgets an entry only when the cache is full       *)
(* (replace, Get and Add of lru/arc.go).                                       *)
THEOREM OnlyAFullCacheForgets == Spec => EvictsOnlyWhenFull
<1> DEFINE A == call'.name \in {"get", "add"} /\ (\E k \in Keys : Contains(k) /\ ~Contains(k)')
                  => CacheLen >= Size
<1>1. CacheOK /\ [Next]_vars => [A]_vars
  <2> SUFFICES ASSUME CacheOK, Next, call'.name \in {"get", "add"},
                      NEW x \in Keys, Contains(x), ~Contains(x)'
               PROVE  CacheLen >= Size
    OBVIOUS
  <2>1. ASSUME NEW k \in Keys, NEW v, NEW s, Leaves(k, v, s), Contains(k) => Contains(k)'
        PROVE  CacheLen >= Size
    <3>1. x \in Keys \ {k}
      BY <2>1
    <3> QED
      BY <2>1, <3>1 DEF Leaves
  <2>2. ASSUME NEW k \in Keys, Get(k) PROVE CacheLen >= Size
    <3>1. (Contains(k) => Contains(k)') /\ \E s : Leaves(k, Peek(k), s)
      BY <2>2, GetLeaves
    <3> QED
      BY <2>1, <3>1
  <2>3. ASSUME NEW k \in Keys, NEW v \in Values, Add(k, v) PROVE CacheLen >= Size
    <3>1. Contains(k)' /\ \E s : Leaves(k, v, s)
      BY <2>3, AddLeaves
    <3> QED
      BY <2>1, <3>1
  <2>4. ~Purge /\ \A k \in Keys : ~Remove(k)
    BY DEF Purge, Remove, Call
  <2> QED
    BY <2>2, <2>3, <2>4 DEF Next
<1> QED
  BY <1>1, CacheInvariant, PTL DEF Spec, EvictsOnlyWhenFull
=============================================================================
