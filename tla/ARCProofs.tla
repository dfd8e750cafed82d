----------------------------- MODULE ARCProofs -----------------------------
(***************************************************************************)
(* Proofs about ARCCache for every size, every set of keys and of values.  *)
(* The operations of one list come first, each with what it does to the    *)
(* length and to the keys of the list; the invariant of the cache then     *)
(* follows from these facts alone.                                         *)
(***************************************************************************)
EXTENDS ARCCache, SequenceTheorems, TLAPS

(* What becomes of a sequence of entries when one element is taken out, when   *)
(* the last one is, and when one is put in front.                              *)
LEMMA RemoveAtFacts ==
  ASSUME NEW s \in Seq(Entry), NEW i \in 1 .. Len(s)
  PROVE  /\ Ext!RemoveAt(s, i) \in Seq(Entry)
         /\ Len(Ext!RemoveAt(s, i)) = Len(s) - 1
         /\ \A j \in 1 .. Len(s) - 1 : j < i => Ext!RemoveAt(s, i)[j] = s[j]
         /\ \A j \in 1 .. Len(s) - 1 : ~(j < i) => Ext!RemoveAt(s, i)[j] = s[j + 1]
<1> DEFINE a == SubSeq(s, 1, i - 1)
           b == SubSeq(s, i + 1, Len(s))
<1>1. /\ a \in Seq(Entry) /\ Len(a) = i - 1
      /\ \A j \in 1 .. i - 1 : a[j] = s[j]
  <2>1. \A j \in 1 .. i - 1 : s[j] \in Entry
    OBVIOUS
  <2> QED
    BY <2>1, SubSeqProperties
<1>2. /\ b \in Seq(Entry) /\ Len(b) = Len(s) - i
      /\ \A j \in 1 .. Len(s) - i : b[j] = s[i + j]
  <2>1. \A j \in i + 1 .. Len(s) : s[j] \in Entry
    OBVIOUS
  <2>2. /\ b \in Seq(Entry) /\ Len(b) = IF i + 1 <= Len(s) THEN Len(s) - (i + 1) + 1 ELSE 0
        /\ \A j \in 1 .. Len(s) - (i + 1) + 1 : b[j] = s[i + 1 + j - 1]
    BY <2>1, SubSeqProperties
  <2> QED
    BY <2>2
<1> HIDE DEF a, b
<1>3. /\ a \o b \in Seq(Entry) /\ Len(a \o b) = Len(a) + Len(b)
      /\ \A j \in 1 .. Len(a) + Len(b) : (a \o b)[j] = IF j <= Len(a) THEN a[j] ELSE b[j - Len(a)]
  BY <1>1, <1>2, ConcatProperties
<1>4. Ext!RemoveAt(s, i) = a \o b
  BY DEF Ext!RemoveAt, a, b
<1>5. Len(a) + Len(b) = Len(s) - 1
  BY <1>1, <1>2
<1>6. ASSUME NEW j \in 1 .. Len(s) - 1, j < i PROVE (a \o b)[j] = s[j]
  <2>1. j \in 1 .. Len(a) + Len(b) /\ j <= Len(a) /\ j \in 1 .. i - 1
    BY <1>1, <1>5, <1>6
  <2> QED
    BY <1>1, <1>3, <2>1
<1>7. ASSUME NEW j \in 1 .. Len(s) - 1, ~(j < i) PROVE (a \o b)[j] = s[j + 1]
  <2>1. j \in 1 .. Len(a) + Len(b) /\ ~(j <= Len(a))
    BY <1>1, <1>5, <1>7
  <2>2. j - Len(a) \in 1 .. Len(s) - i /\ i + (j - Len(a)) = j + 1
    BY <1>1, <1>7
  <2>3. (a \o b)[j] = b[j - Len(a)]
    BY <1>3, <2>1
  <2>4. b[j - Len(a)] = s[i + (j - Len(a))]
    BY <1>2, <2>2
  <2> QED
    BY <2>2, <2>3, <2>4
<1> QED
  BY <1>3, <1>4, <1>5, <1>6, <1>7

(* Front drops the last element of a sequence, and only that one.              *)
LEMMA FrontFacts ==
  ASSUME NEW s \in Seq(Entry), Len(s) > 0
  PROVE  /\ Ext!Front(s) \in Seq(Entry)
         /\ Len(Ext!Front(s)) = Len(s) - 1
         /\ \A j \in 1 .. Len(s) - 1 : Ext!Front(s)[j] = s[j]
         /\ Ext!Last(s) = s[Len(s)]
<1>1. \A j \in 1 .. Len(s) - 1 : s[j] \in Entry
  OBVIOUS
<1>2. /\ SubSeq(s, 1, Len(s) - 1) \in Seq(Entry)
      /\ Len(SubSeq(s, 1, Len(s) - 1)) = IF 1 <= Len(s) - 1 THEN Len(s) - 1 - 1 + 1 ELSE 0
      /\ \A j \in 1 .. Len(s) - 1 - 1 + 1 : SubSeq(s, 1, Len(s) - 1)[j] = s[1 + j - 1]
  BY <1>1, SubSeqProperties
<1> DEFINE t == SubSeq(s, 1, Len(s) - 1)
<1>3. Len(s) \in Nat
  OBVIOUS
<1>4. Ext!Front(s) = t /\ Ext!Last(s) = s[Len(s)]
  BY DEF Ext!Front, Ext!Last
<1> HIDE DEF t
<1>5. /\ t \in Seq(Entry)
      /\ Len(t) = IF 1 <= Len(s) - 1 THEN Len(s) - 1 - 1 + 1 ELSE 0
      /\ \A j \in 1 .. Len(s) - 1 - 1 + 1 : t[j] = s[1 + j - 1]
  BY <1>2 DEF t
<1>6. Len(t) = Len(s) - 1
  <2>1. CASE 1 <= Len(s) - 1
    BY <1>3, <1>5, <2>1
  <2>2. CASE ~(1 <= Len(s) - 1)
    <3>1. \A n \in Nat : n > 0 => n - 1 = 0 \/ 1 <= n - 1
      OBVIOUS
    <3> QED
      BY <1>3, <1>5, <2>2, <3>1
  <2> QED
    BY <2>1, <2>2
<1>7. ASSUME NEW j \in 1 .. Len(s) - 1 PROVE t[j] = s[j]
  <2>1. j \in 1 .. Len(s) - 1 - 1 + 1 /\ 1 + j - 1 = j
    BY <1>3
  <2> QED
    BY <1>5, <2>1
<1> QED
  BY <1>4, <1>5, <1>6, <1>7

(* An element put in front of a sequence shifts the others by one.             *)
LEMMA PushFacts ==
  ASSUME NEW s \in Seq(Entry), NEW e \in Entry
  PROVE  /\ <<e>> \o s \in Seq(Entry)
         /\ Len(<<e>> \o s) = Len(s) + 1
         /\ \A j \in 1 .. Len(s) + 1 : (<<e>> \o s)[j] = IF j = 1 THEN e ELSE s[j - 1]
  OBVIOUS

-----------------------------------------------------------------------------
(* The list and the map of an LRU point at each other: ElementOf is the only   *)
(* element with its key.                                                       *)
LEMMA ElementFacts ==
  ASSUME NEW l, Linked(l), NEW k \in l.items
  PROVE  /\ ElementOf(l, k) \in 1 .. Len(l.evictList)
         /\ l.evictList[ElementOf(l, k)].key = k
         /\ \A i \in 1 .. Len(l.evictList) : l.evictList[i].key = k => i = ElementOf(l, k)
         /\ LRULen(l) > 0
<1>1. l.evictList \in Seq(Entry) /\ DOMAIN l.evictList = 1 .. Len(l.evictList)
  BY DEF Linked
<1>2. \E i \in DOMAIN l.evictList : l.evictList[i].key = k
  BY DEF Linked, KeysIn
<1>3. ElementOf(l, k) \in DOMAIN l.evictList /\ l.evictList[ElementOf(l, k)].key = k
  BY <1>2 DEF ElementOf
<1> QED
  BY <1>1, <1>3 DEF Linked, LRULen

(* A list that is built from s, the keys of which are the set of keys c.       *)
LEMMA MakesLinked ==
  ASSUME NEW s \in Seq(Entry), NEW c \in SUBSET Keys,
         \A k \in c : \E i \in 1 .. Len(s) : s[i].key = k,
         \A i \in 1 .. Len(s) : s[i].key \in c,
         \A i, j \in 1 .. Len(s) : s[i].key = s[j].key => i = j
  PROVE  Linked([evictList |-> s, items |-> c])
<1>1. DOMAIN s = 1 .. Len(s)
  OBVIOUS
<1> QED
  BY <1>1 DEF Linked, KeysIn

(* A new list is empty, and so is its map.                                     *)
LEMMA NewFacts == Linked(NewLRU) /\ LRULen(NewLRU) = 0 /\ NewLRU.items = {}
<1>1. <<>> \in Seq(Entry) /\ Len(<<>>) = 0
  OBVIOUS
<1>2. Linked(NewLRU)
  BY <1>1 DEF NewLRU, Linked, KeysIn
<1> QED
  BY <1>1, <1>2 DEF NewLRU, LRULen

(* The elements of a list without the one of key k. *)
LEMMA WithoutFacts ==
  ASSUME NEW l, Linked(l), NEW k \in l.items
  PROVE  /\ Without(l, k) \in Seq(Entry)
         /\ Len(Without(l, k)) = Len(l.evictList) - 1
         /\ \A i \in 1 .. Len(Without(l, k)) : Without(l, k)[i].key \in l.items \ {k}
         /\ \A j \in l.items \ {k} : \E i \in 1 .. Len(Without(l, k)) : Without(l, k)[i].key = j
         /\ \A i, j \in 1 .. Len(Without(l, k)) :
              Without(l, k)[i].key = Without(l, k)[j].key => i = j
<1> DEFINE s == l.evictList
           n == ElementOf(l, k)
           w == Without(l, k)
<1>1. /\ s \in Seq(Entry) /\ DOMAIN s = 1 .. Len(s)
      /\ \A i, j \in 1 .. Len(s) : s[i].key = s[j].key => i = j
      /\ \A i \in 1 .. Len(s) : s[i].key \in l.items
      /\ \A j \in l.items : \E i \in 1 .. Len(s) : s[i].key = j
  BY DEF Linked, KeysIn
<1>2. n \in 1 .. Len(s) /\ s[n].key = k /\ Len(s) \in Nat
  BY <1>1, ElementFacts
<1>3. /\ w \in Seq(Entry) /\ Len(w) = Len(s) - 1
      /\ \A j \in 1 .. Len(s) - 1 : j < n => w[j] = s[j]
      /\ \A j \in 1 .. Len(s) - 1 : ~(j < n) => w[j] = s[j + 1]
  <2>1. w = Ext!RemoveAt(s, n)
    BY DEF Without
  <2>2. s \in Seq(Entry) /\ n \in 1 .. Len(s)
    BY <1>1, <1>2
  <2> HIDE DEF s, n, w
  <2>3. /\ Ext!RemoveAt(s, n) \in Seq(Entry)
        /\ Len(Ext!RemoveAt(s, n)) = Len(s) - 1
        /\ \A j \in 1 .. Len(s) - 1 : j < n => Ext!RemoveAt(s, n)[j] = s[j]
        /\ \A j \in 1 .. Len(s) - 1 : ~(j < n) => Ext!RemoveAt(s, n)[j] = s[j + 1]
    BY <2>2, RemoveAtFacts
  <2> QED
    BY <2>1, <2>3, Zenon
<1> HIDE DEF s, n, w
<1>4. \A i \in 1 .. Len(w) : w[i].key \in l.items \ {k}
  <2> SUFFICES ASSUME NEW i \in 1 .. Len(w) PROVE w[i].key \in l.items \ {k}
    OBVIOUS
  <2> DEFINE m == IF i < n THEN i ELSE i + 1
  <2>1. m \in 1 .. Len(s) /\ m # n /\ w[i] = s[m]
    <3>1. CASE i < n
      BY <1>2, <1>3, <3>1
    <3>2. CASE ~(i < n)
      BY <1>2, <1>3, <3>2
    <3> QED
      BY <3>1, <3>2
  <2> HIDE DEF m
  <2>2. s[m].key \in l.items /\ s[m].key # k
    BY <1>1, <1>2, <2>1
  <2> QED
    BY <2>1, <2>2
<1>5. \A j \in l.items \ {k} : \E i \in 1 .. Len(w) : w[i].key = j
  <2> SUFFICES ASSUME NEW j \in l.items, j # k PROVE \E i \in 1 .. Len(w) : w[i].key = j
    OBVIOUS
  <2> PICK i \in 1 .. Len(s) : s[i].key = j
    BY <1>1
  <2>1. i # n
    BY <1>2
  <2>2. CASE i < n
    BY <1>2, <1>3, <2>2
  <2>3. CASE i > n
    <3>1. i - 1 \in 1 .. Len(w) /\ ~(i - 1 < n) /\ (i - 1) + 1 = i
      BY <1>2, <1>3, <2>3
    <3>2. w[i - 1] = s[i]
      BY <1>3, <3>1
    <3> QED
      BY <3>1, <3>2
  <2> QED
    BY <1>2, <2>1, <2>2, <2>3
<1>6. \A i, j \in 1 .. Len(w) : w[i].key = w[j].key => i = j
  <2> SUFFICES ASSUME NEW i \in 1 .. Len(w), NEW j \in 1 .. Len(w), w[i].key = w[j].key PROVE i = j
    OBVIOUS
  <2> DEFINE at(x) == IF x < n THEN x ELSE x + 1
  <2>1. ASSUME NEW x \in 1 .. Len(w) PROVE at(x) \in 1 .. Len(s) /\ w[x] = s[at(x)]
    <3>1. CASE x < n
      BY <1>2, <1>3, <3>1
    <3>2. CASE ~(x < n)
      BY <1>2, <1>3, <3>2
    <3> QED
      BY <3>1, <3>2
  <2>2. at(i) = at(j)
    <3> HIDE DEF at
    <3>1. s[at(i)].key = s[at(j)].key
      BY <2>1
    <3> QED
      BY <1>1, <2>1, <3>1
  <2> QED
    BY <1>2, <2>2
<1> QED
  BY <1>3, <1>4, <1>5, <1>6 DEF s, w

-----------------------------------------------------------------------------
(* What each operation of a list does to its length and to its keys. *)
LEMMA RemoveFacts ==
  ASSUME NEW l, Linked(l), NEW k \in Keys
  PROVE  /\ Linked(LRURemove(l, k))
         /\ LRURemove(l, k).items = l.items \ {k}
         /\ LRUContains(l, k) => LRULen(LRURemove(l, k)) = LRULen(l) - 1
         /\ ~LRUContains(l, k) => LRURemove(l, k) = l
<1>1. CASE k \in l.items
  <2> DEFINE w == Without(l, k)
  <2>1. /\ w \in Seq(Entry) /\ Len(w) = Len(l.evictList) - 1
        /\ \A i \in 1 .. Len(w) : w[i].key \in l.items \ {k}
        /\ \A j \in l.items \ {k} : \E i \in 1 .. Len(w) : w[i].key = j
        /\ \A i, j \in 1 .. Len(w) : w[i].key = w[j].key => i = j
    BY <1>1, WithoutFacts
  <2> DEFINE c == l.items \ {k}
  <2>2. LRURemove(l, k) = [evictList |-> w, items |-> c]
    BY <1>1 DEF LRURemove, LRUContains
  <2> HIDE DEF w
  <2>3. c \in SUBSET Keys
    BY DEF Linked
  <2>4. Linked(LRURemove(l, k))
    <3> HIDE DEF c
    <3>1. Linked([evictList |-> w, items |-> c])
      BY <2>1, <2>3, MakesLinked DEF c
    <3> QED
      BY <2>2, <3>1
  <2> QED
    BY <1>1, <2>1, <2>2, <2>4 DEF LRULen, LRUContains
<1>2. CASE k \notin l.items
  BY <1>2 DEF LRURemove, LRUContains
<1> QED
  BY <1>1, <1>2

(* RemoveOldest takes the key of the last entry out of the list and the map.   *)
LEMMA OldestFacts ==
  ASSUME NEW l, Linked(l), LRULen(l) > 0
  PROVE  /\ Linked(LRURemoveOldest(l))
         /\ Oldest(l) \in l.items
         /\ LRURemoveOldest(l).items = l.items \ {Oldest(l)}
         /\ LRULen(LRURemoveOldest(l)) = LRULen(l) - 1
<1> DEFINE s == l.evictList
           w == Ext!Front(s)
<1>1. /\ s \in Seq(Entry) /\ DOMAIN s = 1 .. Len(s) /\ Len(s) > 0 /\ Len(s) \in Nat
      /\ \A i, j \in 1 .. Len(s) : s[i].key = s[j].key => i = j
      /\ \A i \in 1 .. Len(s) : s[i].key \in l.items
      /\ \A j \in l.items : \E i \in 1 .. Len(s) : s[i].key = j
      /\ l.items \in SUBSET Keys
  BY DEF Linked, KeysIn, LRULen
<1>2. Oldest(l) = s[Len(s)].key
  BY <1>1, FrontFacts DEF Oldest
<1>3. /\ w \in Seq(Entry) /\ Len(w) = Len(s) - 1
      /\ \A j \in 1 .. Len(s) - 1 : w[j] = s[j]
  BY <1>1, FrontFacts
<1>4. LRURemoveOldest(l) = [evictList |-> w, items |-> l.items \ {Oldest(l)}]
  BY DEF LRURemoveOldest
<1>5. LRULen(l) = Len(s)
  BY DEF LRULen
<1> DEFINE n == Len(s)
           c == l.items \ {Oldest(l)}
<1>6. n \in Nat /\ n > 0 /\ LRULen(l) = n
  BY <1>1, <1>5
<1>7. /\ \A i, j \in 1 .. n : s[i].key = s[j].key => i = j
      /\ \A i \in 1 .. n : s[i].key \in l.items
      /\ \A j \in l.items : \E i \in 1 .. n : s[i].key = j
      /\ Len(w) = n - 1
      /\ \A j \in 1 .. n - 1 : w[j] = s[j]
      /\ Oldest(l) = s[n].key
  BY <1>1, <1>2, <1>3
<1> HIDE DEF s, w, n
<1>8. Oldest(l) \in l.items
  BY <1>6, <1>7
<1>9. \A i \in 1 .. n - 1 : w[i].key \in c
  <2> SUFFICES ASSUME NEW i \in 1 .. n - 1 PROVE w[i].key \in c
    OBVIOUS
  <2>1. i \in 1 .. n /\ n \in 1 .. n /\ i # n
    BY <1>6
  <2>2. s[i].key \in l.items /\ s[i].key # s[n].key
    BY <1>7, <2>1
  <2> QED
    BY <1>7, <2>2
<1>10. \A j \in c : \E i \in 1 .. n - 1 : w[i].key = j
  <2> SUFFICES ASSUME NEW j \in c PROVE \E i \in 1 .. n - 1 : w[i].key = j
    OBVIOUS
  <2> PICK i \in 1 .. n : s[i].key = j
    BY <1>7
  <2>1. i \in 1 .. n - 1
    BY <1>6, <1>7
  <2> QED
    BY <1>7, <2>1
<1>11. \A i, j \in 1 .. n - 1 : w[i].key = w[j].key => i = j
  BY <1>6, <1>7
<1>12. Linked(LRURemoveOldest(l))
  <2>1. c \in SUBSET Keys
    BY <1>1
  <2> HIDE DEF c
  <2>2. Linked([evictList |-> w, items |-> c])
    BY <1>3, <1>7, <1>9, <1>10, <1>11, <2>1, MakesLinked
  <2> QED
    BY <1>4, <2>2 DEF c
<1> QED
  BY <1>4, <1>6, <1>7, <1>8, <1>12 DEF LRULen

(* An entry in front of the elements w, none of which has its key: the keys    *)
(* are those of w and the one of the entry.                                    *)
LEMMA FrontLinked ==
  ASSUME NEW w \in Seq(Entry), NEW c \in SUBSET Keys, NEW e \in Entry,
         \A i \in 1 .. Len(w) : w[i].key \in c,
         \A j \in c : \E i \in 1 .. Len(w) : w[i].key = j,
         \A i, j \in 1 .. Len(w) : w[i].key = w[j].key => i = j,
         e.key \notin c
  PROVE  /\ Linked([evictList |-> <<e>> \o w, items |-> c \cup {e.key}])
         /\ Len(<<e>> \o w) = Len(w) + 1
<1> DEFINE s == <<e>> \o w
           n == Len(w)
<1>1. /\ s \in Seq(Entry) /\ Len(s) = n + 1 /\ n \in Nat
      /\ s[1] = e /\ \A i \in 2 .. n + 1 : s[i] = w[i - 1]
  BY PushFacts
<1>2. /\ \A i \in 1 .. n : w[i].key \in c
      /\ \A j \in c : \E i \in 1 .. n : w[i].key = j
      /\ \A i, j \in 1 .. n : w[i].key = w[j].key => i = j
  OBVIOUS
<1> HIDE DEF s, n
<1>3. \A i \in 1 .. n + 1 : s[i].key \in c \cup {e.key}
  <2> SUFFICES ASSUME NEW i \in 2 .. n + 1 PROVE s[i].key \in c
    BY <1>1
  <2>1. i - 1 \in 1 .. n
    BY <1>1
  <2> QED
    BY <1>1, <1>2, <2>1
<1>4. \A j \in c \cup {e.key} : \E i \in 1 .. n + 1 : s[i].key = j
  <2> SUFFICES ASSUME NEW j \in c PROVE \E i \in 1 .. n + 1 : s[i].key = j
    BY <1>1
  <2> PICK i \in 1 .. n : w[i].key = j
    BY <1>2
  <2>1. i + 1 \in 2 .. n + 1 /\ (i + 1) - 1 = i
    BY <1>1
  <2>2. s[i + 1] = w[i]
    BY <1>1, <2>1
  <2> QED
    BY <1>1, <2>1, <2>2
<1>5. \A i, j \in 1 .. n + 1 : s[i].key = s[j].key => i = j
  <2>1. ASSUME NEW i \in 2 .. n + 1 PROVE i - 1 \in 1 .. n /\ s[i].key = w[i - 1].key
    BY <1>1, <2>1
  <2>2. \A i \in 2 .. n + 1 : s[i].key # s[1].key
    <3> SUFFICES ASSUME NEW i \in 2 .. n + 1 PROVE s[i].key # e.key
      BY <1>1
    <3>1. s[i].key \in c
      BY <1>2, <2>1
    <3> QED
      BY <3>1
  <2>3. ASSUME NEW i \in 2 .. n + 1, NEW j \in 2 .. n + 1, s[i].key = s[j].key PROVE i = j
    <3>1. i - 1 = j - 1
      BY <1>2, <2>1, <2>3
    <3> QED
      BY <1>1, <2>3, <3>1
  <2>4. ASSUME NEW i \in 1 .. n + 1 PROVE i = 1 \/ i \in 2 .. n + 1
    BY <1>1
  <2> QED
    BY <2>2, <2>3, <2>4
<1> DEFINE d == c \cup {e.key}
<1>6. d \in SUBSET Keys
  BY DEF Entry
<1>7. \A i \in 1 .. Len(s) : s[i].key \in d
  BY <1>1, <1>3
<1>8. \A j \in d : \E i \in 1 .. Len(s) : s[i].key = j
  BY <1>1, <1>4
<1>9. \A i, j \in 1 .. Len(s) : s[i].key = s[j].key => i = j
  BY <1>1, <1>5
<1> HIDE DEF d
<1>10. Linked([evictList |-> s, items |-> d])
  BY <1>1, <1>6, <1>7, <1>8, <1>9, MakesLinked
<1> QED
  BY <1>1, <1>10 DEF s, n, d

(* The length of a list built from a sequence is that of the sequence.         *)
LEMMA ListOf ==
  ASSUME NEW s, NEW c
  PROVE  LRULen([evictList |-> s, items |-> c]) = Len(s)
  BY DEF LRULen

(* Only the sequence of entries changes, the map does not.                     *)
LEMMA NewList ==
  ASSUME NEW l, Linked(l), NEW s
  PROVE  [l EXCEPT !.evictList = s] = [evictList |-> s, items |-> l.items]
  BY DEF Linked

(* Get moves an entry to the front: same keys, same length.                    *)
LEMMA GetFacts ==
  ASSUME NEW l, Linked(l), NEW k \in l.items
  PROVE  /\ Linked(LRUGet(l, k))
         /\ LRUGet(l, k).items = l.items
         /\ LRULen(LRUGet(l, k)) = LRULen(l)
<1> DEFINE w == Without(l, k)
           c == l.items \ {k}
           n == ElementOf(l, k)
           e == l.evictList[n]
<1>1. l \in [evictList : Seq(Entry), items : SUBSET Keys] /\ Len(l.evictList) \in Nat
  BY DEF Linked
<1>2. n \in 1 .. Len(l.evictList) /\ e.key = k
  BY ElementFacts
<1>3. e \in Entry
  <2> HIDE DEF n
  <2> QED
    BY <1>1, <1>2
<1>4. LRUGet(l, k) = [evictList |-> <<e>> \o w, items |-> l.items]
  BY NewList DEF LRUGet
<1>5. /\ w \in Seq(Entry) /\ Len(w) = Len(l.evictList) - 1
      /\ \A i \in 1 .. Len(w) : w[i].key \in c
      /\ \A j \in c : \E i \in 1 .. Len(w) : w[i].key = j
      /\ \A i, j \in 1 .. Len(w) : w[i].key = w[j].key => i = j
  <2> HIDE DEF n, e
  <2> QED
    BY WithoutFacts, SMTT(60)
<1>6. c \in SUBSET Keys /\ e.key \notin c /\ c \cup {e.key} = l.items
  BY <1>1, <1>2
<1> HIDE DEF w, c, e
<1>7. Linked([evictList |-> <<e>> \o w, items |-> c \cup {e.key}]) /\ Len(<<e>> \o w) = Len(w) + 1
  BY <1>3, <1>5, <1>6, FrontLinked, ZenonT(40)
<1>8. LRUGet(l, k) = [evictList |-> <<e>> \o w, items |-> c \cup {e.key}]
  BY <1>4, <1>6
<1>9. LRULen(LRUGet(l, k)) = Len(w) + 1 /\ LRULen(l) = Len(l.evictList)
  BY <1>7, <1>8, ListOf DEF LRULen
<1>10. LRULen(LRUGet(l, k)) = LRULen(l)
  <2>1. \A m \in Nat : (m - 1) + 1 = m
    OBVIOUS
  <2> QED
    BY <1>1, <1>5, <1>9, <2>1
<1>11. LRUGet(l, k).items = l.items
  BY <1>4
<1>12. Linked(LRUGet(l, k))
  BY <1>7, <1>8
<1> QED
  BY <1>10, <1>11, <1>12

(* A key that is not there is pushed in front. *)
LEMMA PushedFacts ==
  ASSUME NEW l, Linked(l), NEW k \in Keys \ l.items, NEW v \in Values \cup {Nil}
  PROVE  /\ Linked(LRUPush(l, k, v))
         /\ LRUPush(l, k, v).items = l.items \cup {k}
         /\ LRULen(LRUPush(l, k, v)) = LRULen(l) + 1
<1> DEFINE e == [key |-> k, value |-> v]
           w == l.evictList
           c == l.items
<1>1. e \in Entry /\ e.key = k
  BY DEF Entry
<1>2. w \in Seq(Entry) /\ c \in SUBSET Keys
  BY DEF Linked
<1>3. DOMAIN w = 1 .. Len(w)
  BY <1>2
<1>4. /\ \A i \in 1 .. Len(w) : w[i].key \in c
      /\ \A j \in c : \E i \in 1 .. Len(w) : w[i].key = j
      /\ \A i, j \in 1 .. Len(w) : w[i].key = w[j].key => i = j
  BY <1>3 DEF Linked, KeysIn
<1>5. LRUPush(l, k, v) = [evictList |-> <<e>> \o w, items |-> c \cup {e.key}]
  BY DEF LRUPush
<1>6. e.key \notin c
  BY <1>1
<1> HIDE DEF e, w, c
<1>7. Linked([evictList |-> <<e>> \o w, items |-> c \cup {e.key}]) /\ Len(<<e>> \o w) = Len(w) + 1
  BY <1>1, <1>2, <1>4, <1>6, FrontLinked
<1> QED
  BY <1>1, <1>5, <1>7 DEF LRULen, w, c

(* Add keeps a list within its bound, adds at most its key, and makes the list *)
(* longer by one at most, by none when the key is there already.               *)
LEMMA AddFacts ==
  ASSUME NEW l, LRUOK(l), NEW k \in Keys, NEW v \in Values \cup {Nil}
  PROVE  /\ LRUOK(LRUAdd(l, k, v))
         /\ LRUAdd(l, k, v).items \subseteq l.items \cup {k}
         /\ LRULen(LRUAdd(l, k, v)) <= LRULen(l) + 1
         /\ LRUContains(l, k) => LRULen(LRUAdd(l, k, v)) = LRULen(l)
<1>1. Linked(l) /\ LRULen(l) \in Nat /\ LRULen(l) <= Size
  BY DEF LRUOK, Linked, LRULen
<1>2. CASE k \in l.items
  <2> DEFINE w == Without(l, k)
             c == l.items \ {k}
             e == [key |-> k, value |-> v]
  <2>1. LRUAdd(l, k, v) = [evictList |-> <<e>> \o w, items |-> l.items]
    BY <1>1, <1>2 DEF LRUAdd, LRUContains, Linked
  <2>2. /\ w \in Seq(Entry) /\ Len(w) = LRULen(l) - 1
        /\ \A i \in 1 .. Len(w) : w[i].key \in c
        /\ \A j \in c : \E i \in 1 .. Len(w) : w[i].key = j
        /\ \A i, j \in 1 .. Len(w) : w[i].key = w[j].key => i = j
    BY <1>1, <1>2, WithoutFacts DEF LRULen
  <2>3. /\ c \in SUBSET Keys /\ c \cup {k} = l.items
        /\ e \in Entry /\ e.key = k /\ e.key \notin c
    BY <1>1, <1>2 DEF Linked, Entry
  <2> HIDE DEF w, c, e
  <2>4. Linked([evictList |-> <<e>> \o w, items |-> c \cup {e.key}]) /\ Len(<<e>> \o w) = Len(w) + 1
    BY <2>2, <2>3, FrontLinked, ZenonT(40)
  <2>5. Linked(LRUAdd(l, k, v)) /\ LRULen(LRUAdd(l, k, v)) = Len(w) + 1
    <3>1. LRUAdd(l, k, v) = [evictList |-> <<e>> \o w, items |-> c \cup {e.key}]
      BY <2>1, <2>3
    <3> QED
      BY <2>4, <3>1, ListOf
  <2>6. LRULen(LRUAdd(l, k, v)) = LRULen(l)
    BY <1>1, <2>2, <2>5
  <2> QED
    BY <1>1, <1>2, <2>1, <2>5, <2>6 DEF LRUOK
<1>3. CASE k \notin l.items
  <2> DEFINE m == LRUPush(l, k, v)
  <2>1. Linked(m) /\ m.items = l.items \cup {k} /\ LRULen(m) = LRULen(l) + 1
    BY <1>1, <1>3, PushedFacts
  <2>2. LRUAdd(l, k, v) = IF LRULen(l) < Size THEN m ELSE LRURemoveOldest(m)
    BY <1>3 DEF LRUAdd, LRUContains
  <2> HIDE DEF m
  <2>3. CASE LRULen(l) < Size
    BY <1>1, <1>3, <2>1, <2>2, <2>3, SizeAssumption DEF LRUOK, LRUContains
  <2>4. CASE ~(LRULen(l) < Size)
    <3>1. /\ Linked(LRURemoveOldest(m))
          /\ LRURemoveOldest(m).items \subseteq m.items
          /\ LRULen(LRURemoveOldest(m)) = LRULen(m) - 1
      BY <1>1, <2>1, OldestFacts
    <3>2. LRULen(LRURemoveOldest(m)) = LRULen(l)
      BY <1>1, <2>1, <3>1
    <3> QED
      BY <1>1, <1>3, <2>1, <2>2, <2>4, <3>1, <3>2 DEF LRUOK, LRUContains
  <2> QED
    BY <2>3, <2>4
<1> QED
  BY <1>2, <1>3

(* The facts about lists that the cache needs, for lists within their bound. *)
LEMMA RemoveKeeps ==
  ASSUME NEW l, LRUOK(l), NEW k \in Keys
  PROVE  /\ LRUOK(LRURemove(l, k))
         /\ LRURemove(l, k).items = l.items \ {k}
         /\ LRUContains(l, k) => LRULen(LRURemove(l, k)) = LRULen(l) - 1
         /\ ~LRUContains(l, k) => LRURemove(l, k) = l
<1>1. LRULen(l) \in Nat
  BY DEF LRUOK, Linked, LRULen
<1> QED
  BY <1>1, RemoveFacts, SizeAssumption DEF LRUOK

(* RemoveOldest keeps a list within its bound.                                 *)
LEMMA OldestKeeps ==
  ASSUME NEW l, LRUOK(l), LRULen(l) > 0
  PROVE  /\ LRUOK(LRURemoveOldest(l))
         /\ Oldest(l) \in l.items
         /\ LRURemoveOldest(l).items = l.items \ {Oldest(l)}
         /\ LRULen(LRURemoveOldest(l)) = LRULen(l) - 1
<1>1. LRULen(l) \in Nat
  BY DEF LRUOK, Linked, LRULen
<1> QED
  BY <1>1, OldestFacts, SizeAssumption DEF LRUOK

(* Get keeps a list within its bound.                                          *)
LEMMA GetKeeps ==
  ASSUME NEW l, LRUOK(l), NEW k \in l.items
  PROVE  /\ LRUOK(LRUGet(l, k))
         /\ LRUGet(l, k).items = l.items
         /\ LRULen(LRUGet(l, k)) = LRULen(l)
  BY GetFacts DEF LRUOK

(* A new list is within its bound.                                             *)
LEMMA NewKeeps == LRUOK(NewLRU) /\ LRULen(NewLRU) = 0 /\ NewLRU.items = {}
  BY NewFacts, SizeAssumption DEF LRUOK

(* The length of a list is within its bound, its keys and values are what clients *)
(* added, and a list that has a key is not empty.                              *)
LEMMA LRUTyped ==
  ASSUME NEW l, LRUOK(l)
  PROVE  /\ LRULen(l) \in 0 .. Size
         /\ l.items \subseteq Keys
         /\ \A k \in Keys : LRUContains(l, k) => LRULen(l) > 0
         /\ \A k \in Keys : LRUPeek(l, k) \in Values \cup {Nil}
<1>1. Linked(l) /\ l.evictList \in Seq(Entry) /\ LRULen(l) \in Nat /\ LRULen(l) <= Size
  BY DEF LRUOK, Linked, LRULen
<1>2. ASSUME NEW k \in Keys, LRUContains(l, k)
      PROVE  LRULen(l) > 0 /\ LRUPeek(l, k) \in Values \cup {Nil}
  <2> DEFINE n == ElementOf(l, k)
  <2>1. LRULen(l) > 0 /\ n \in 1 .. Len(l.evictList)
    BY <1>1, <1>2, ElementFacts DEF LRUContains
  <2>2. LRUPeek(l, k) = l.evictList[n].value
    BY <1>2 DEF LRUPeek
  <2> HIDE DEF n
  <2>3. l.evictList[n] \in Entry
    BY <1>1, <2>1
  <2> QED
    BY <2>1, <2>2, <2>3 DEF Entry
<1>3. ASSUME NEW k \in Keys, ~LRUContains(l, k) PROVE LRUPeek(l, k) \in Values \cup {Nil}
  BY <1>3 DEF LRUPeek
<1>4. l.items \subseteq Keys
  BY <1>1 DEF Linked
<1> QED
  BY <1>1, <1>2, <1>3, <1>4, SizeAssumption

-----------------------------------------------------------------------------
(* The invariant of the cache. The bound on the cache as a whole depends on    *)
(* the others: replace finds nothing to evict only when t2 is empty and t1     *)
(* fills the cache, and then one entry more than Size fits in.                 *)
CacheOK == TypeOK /\ OneListPerKey /\ AtMostOneOver

(* What CacheOK says of the four lists, in the terms of the list lemmas.       *)
LEMMA Lists ==
  ASSUME CacheOK
  PROVE  /\ LRUOK(t1) /\ LRUOK(b1) /\ LRUOK(t2) /\ LRUOK(b2)
         /\ LRULen(t1) \in Nat /\ LRULen(t1) <= Size
         /\ LRULen(t2) \in Nat /\ LRULen(t2) <= Size
         /\ LRULen(t1) + LRULen(t2) <= Size + 1
         /\ p \in 0 .. Size /\ Size \in Nat
         /\ t1.items \subseteq Keys /\ b1.items \subseteq Keys
         /\ t2.items \subseteq Keys /\ b2.items \subseteq Keys
  BY LRUTyped, SizeAssumption DEF CacheOK, TypeOK, AtMostOneOver, CacheLen

(* replace moves one key to the ghosts, and Room leaves room for one entry.    *)
LEMMA RoomFacts ==
  ASSUME CacheOK, NEW q \in 0 .. Size, NEW f \in BOOLEAN, NEW r, r = Room(q, f)
  PROVE  /\ LRUOK(r.t1) /\ LRUOK(r.b1) /\ LRUOK(r.t2) /\ LRUOK(r.b2)
         /\ r.t1.items \subseteq t1.items /\ r.t2.items \subseteq t2.items
         /\ r.b1.items \subseteq b1.items \cup (t1.items \ r.t1.items)
         /\ r.b2.items \subseteq b2.items \cup (t2.items \ r.t2.items)
         /\ LRULen(r.t1) + LRULen(r.t2) <= Size
<1> DEFINE fromT1 == EvictsT1(q, f)
           fromT2 == ~fromT1 /\ LRULen(t2) > 0
<1>1. CASE ~Full
  BY <1>1, Lists DEF Room, Full, CacheLen
<1>2. CASE Full /\ fromT1
  <2>1. LRULen(t1) > 0
    BY <1>2 DEF EvictsT1
  <2>2. /\ LRUOK(LRURemoveOldest(t1)) /\ Oldest(t1) \in t1.items
        /\ LRURemoveOldest(t1).items = t1.items \ {Oldest(t1)}
        /\ LRULen(LRURemoveOldest(t1)) = LRULen(t1) - 1
    BY <2>1, Lists, OldestKeeps
  <2>3. /\ LRUOK(LRUAdd(b1, Oldest(t1), Nil))
        /\ LRUAdd(b1, Oldest(t1), Nil).items \subseteq b1.items \cup {Oldest(t1)}
    BY <2>2, Lists, AddFacts
  <2>4. r = [t1 |-> LRURemoveOldest(t1), b1 |-> LRUAdd(b1, Oldest(t1), Nil), t2 |-> t2, b2 |-> b2]
    BY <1>2 DEF Room, Replaced
  <2> QED
    BY <2>2, <2>3, <2>4, Lists
<1>3. CASE Full /\ fromT2
  <2>1. LRULen(t2) > 0
    BY <1>3
  <2>2. /\ LRUOK(LRURemoveOldest(t2)) /\ Oldest(t2) \in t2.items
        /\ LRURemoveOldest(t2).items = t2.items \ {Oldest(t2)}
        /\ LRULen(LRURemoveOldest(t2)) = LRULen(t2) - 1
    BY <2>1, Lists, OldestKeeps
  <2>3. /\ LRUOK(LRUAdd(b2, Oldest(t2), Nil))
        /\ LRUAdd(b2, Oldest(t2), Nil).items \subseteq b2.items \cup {Oldest(t2)}
    BY <2>2, Lists, AddFacts
  <2>4. r = [t1 |-> t1, b1 |-> b1, t2 |-> LRURemoveOldest(t2), b2 |-> LRUAdd(b2, Oldest(t2), Nil)]
    BY <1>3 DEF Room, Replaced
  <2> QED
    BY <2>2, <2>3, <2>4, Lists
<1>4. CASE Full /\ ~fromT1 /\ ~fromT2
  <2>1. r = [t1 |-> t1, b1 |-> b1, t2 |-> t2, b2 |-> b2]
    BY <1>4 DEF Room, Replaced
  <2>2. LRULen(t2) = 0
    BY <1>4, Lists
  <2> QED
    BY <2>1, <2>2, Lists
<1> QED
  BY <1>1, <1>2, <1>3, <1>4

(* p stays within the size of the cache, however far a ghost hit moves it.     *)
LEMMA DeltaFacts ==
  ASSUME NEW l, NEW m, LRUOK(l), LRUOK(m), LRULen(m) > 0
  PROVE  Delta(l, m) \in Nat
<1>1. LRULen(l) \in Nat /\ LRULen(m) \in Nat
  BY LRUTyped
<1>2. \A x, y \in Nat : y > 0 => x \div y \in Nat
  OBVIOUS
<1> QED
  BY <1>1, <1>2 DEF Delta

(* A hit in b1 leaves p within the size.                                       *)
LEMMA RaisedTyped ==
  ASSUME CacheOK, NEW k \in Keys, LRUContains(b1, k)
  PROVE  Raised \in 0 .. Size
<1>1. Delta(b2, b1) \in Nat
  BY Lists, LRUTyped, DeltaFacts
<1> QED
  BY <1>1, Lists DEF Raised

(* A hit in b2 leaves p within the size.                                       *)
LEMMA LoweredTyped ==
  ASSUME CacheOK, NEW k \in Keys, LRUContains(b2, k)
  PROVE  Lowered \in 0 .. Size
<1>1. Delta(b1, b2) \in Nat
  BY Lists, LRUTyped, DeltaFacts
<1> QED
  BY <1>1, Lists DEF Lowered

(* An empty cache satisfies the invariant.                                     *)
LEMMA InitCache == Init => CacheOK
<1> SUFFICES ASSUME Init PROVE CacheOK
  OBVIOUS
<1>1. p \in 0 .. Size /\ Size \in Nat
  BY SizeAssumption DEF Init
<1>2. TypeOK
  BY <1>1, NewKeeps DEF Init, TypeOK, Call
<1>3. OneListPerKey
  BY NewKeeps DEF Init, OneListPerKey
<1>4. AtMostOneOver
  BY <1>1, NewKeeps DEF Init, AtMostOneOver, CacheLen
<1> QED
  BY <1>2, <1>3, <1>4 DEF CacheOK

(* The lists of the next state decide whether the invariant holds there. *)
LEMMA Rebuilt ==
  ASSUME p' \in 0 .. Size,
         LRUOK(t1'), LRUOK(b1'), LRUOK(t2'), LRUOK(b2'),
         call' \in [name : {"new", "get", "add", "remove", "purge"},
                    key : Keys \cup {Nil}, value : Values \cup {Nil}],
         t1'.items \cap t2'.items = {}, b1'.items \cap b2'.items = {},
         (t1'.items \cup t2'.items) \cap (b1'.items \cup b2'.items) = {},
         LRULen(t1') + LRULen(t2') <= Size + 1
  PROVE  CacheOK'
  BY DEF CacheOK, TypeOK, OneListPerKey, AtMostOneOver, CacheLen, LRUOK, Linked, LRULen, KeysIn

(* Every operation preserves the invariant of the cache.                       *)
LEMMA StepCache == CacheOK /\ [Next]_vars => CacheOK'
<1> SUFFICES ASSUME CacheOK, [Next]_vars PROVE CacheOK'
  OBVIOUS
<1> DEFINE Calls == [name : {"new", "get", "add", "remove", "purge"},
                     key : Keys \cup {Nil}, value : Values \cup {Nil}]
<1>0. \A k \in Keys : LRUContains(t1, k) => k \in t1.items
  BY DEF LRUContains
<1>lists. /\ t1.items \cap t2.items = {} /\ b1.items \cap b2.items = {}
      /\ (t1.items \cup t2.items) \cap (b1.items \cup b2.items) = {}
  BY DEF CacheOK, OneListPerKey
<1>1. ASSUME NEW k \in Keys, Get(k) PROVE CacheOK'
  <2>1. call' \in Calls
    <3>1. Peek(k) \in Values \cup {Nil}
      BY Lists, LRUTyped DEF Peek
    <3> QED
      BY <1>1, <3>1 DEF Get, Call
  <2>2. p' = p /\ b1' = b1 /\ b2' = b2
    BY <1>1 DEF Get
  <2>3. CASE LRUContains(t1, k)
    <3> DEFINE v == LRUPeek(t1, k)
    <3>1. t1' = LRURemove(t1, k) /\ t2' = LRUAdd(t2, k, v)
      BY <1>1, <2>3 DEF Get, Contains
    <3>2. v \in Values \cup {Nil}
      BY Lists, LRUTyped
    <3> HIDE DEF v
    <3>3. /\ LRUOK(t1') /\ t1'.items = t1.items \ {k} /\ LRULen(t1') = LRULen(t1) - 1
      BY <2>3, <3>1, Lists, RemoveKeeps
    <3>4. /\ LRUOK(t2') /\ t2'.items \subseteq t2.items \cup {k} /\ LRULen(t2') <= LRULen(t2) + 1
      BY <3>1, <3>2, Lists, AddFacts
    <3>5. LRULen(t1') + LRULen(t2') <= Size + 1
      BY <3>3, <3>4, Lists, LRUTyped
    <3>6. k \in t1.items
      BY <2>3, <1>0
    <3> QED
      BY <1>lists, <2>1, <2>2, <3>3, <3>4, <3>5, <3>6, Lists, Rebuilt
  <2>4. CASE ~LRUContains(t1, k) /\ LRUContains(t2, k)
    <3>1. t1' = t1 /\ t2' = LRUGet(t2, k)
      BY <1>1, <2>4 DEF Get, Contains
    <3>2. LRUOK(t2') /\ t2'.items = t2.items /\ LRULen(t2') = LRULen(t2)
      BY <2>4, <3>1, Lists, GetKeeps DEF LRUContains
    <3> QED
      BY <1>lists, <2>1, <2>2, <3>1, <3>2, Lists, Rebuilt
  <2>5. CASE ~Contains(k)
    <3>1. t1' = t1 /\ t2' = t2
      BY <1>1, <2>5 DEF Get, Contains
    <3> QED
      BY <1>lists, <2>1, <2>2, <3>1, Lists, Rebuilt
  <2> QED
    BY <2>3, <2>4, <2>5 DEF Contains
<1>2. ASSUME NEW k \in Keys, Remove(k) PROVE CacheOK'
  <2>1. call' \in Calls /\ p' = p
    BY <1>2 DEF Remove, Call
  <2>2. /\ LRUOK(LRURemove(t1, k)) /\ LRURemove(t1, k).items \subseteq t1.items
        /\ LRULen(LRURemove(t1, k)) <= LRULen(t1)
    BY Lists, RemoveKeeps
  <2>3. /\ LRUOK(LRURemove(t2, k)) /\ LRURemove(t2, k).items \subseteq t2.items
        /\ LRULen(LRURemove(t2, k)) <= LRULen(t2)
    BY Lists, RemoveKeeps
  <2>4. LRUOK(LRURemove(b1, k)) /\ LRURemove(b1, k).items \subseteq b1.items
    BY Lists, RemoveKeeps
  <2>5. LRUOK(LRURemove(b2, k)) /\ LRURemove(b2, k).items \subseteq b2.items
    BY Lists, RemoveKeeps
  <2>6. /\ LRUOK(t1') /\ t1'.items \subseteq t1.items /\ LRULen(t1') <= LRULen(t1)
        /\ LRUOK(t2') /\ t2'.items \subseteq t2.items /\ LRULen(t2') <= LRULen(t2)
        /\ LRUOK(b1') /\ b1'.items \subseteq b1.items
        /\ LRUOK(b2') /\ b2'.items \subseteq b2.items
    BY <1>2, <2>2, <2>3, <2>4, <2>5, Lists DEF Remove
  <2>7. LRULen(t1') + LRULen(t2') <= Size + 1
    BY <2>6, Lists, LRUTyped
  <2> QED
    BY <1>lists, <2>1, <2>6, <2>7, Lists, Rebuilt
<1>3. ASSUME NEW k \in Keys, NEW v \in Values, AddCached(k, v), call' \in Calls PROVE CacheOK'
  <2>1. t1' = LRURemove(t1, k) /\ t2' = LRUAdd(t2, k, v) /\ p' = p /\ b1' = b1 /\ b2' = b2
    BY <1>3 DEF AddCached
  <2>2. k \in t1.items \/ k \in t2.items
    BY <1>3 DEF AddCached, Contains, LRUContains
  <2>3. /\ LRUOK(t1') /\ t1'.items = t1.items \ {k}
        /\ LRUContains(t1, k) => LRULen(t1') = LRULen(t1) - 1
        /\ ~LRUContains(t1, k) => t1' = t1
    BY <2>1, Lists, RemoveKeeps
  <2>4. /\ LRUOK(t2') /\ t2'.items \subseteq t2.items \cup {k} /\ LRULen(t2') <= LRULen(t2) + 1
        /\ LRUContains(t2, k) => LRULen(t2') = LRULen(t2)
    BY <2>1, Lists, AddFacts
  <2>5. LRULen(t1') + LRULen(t2') <= Size + 1
    <3>1. CASE LRUContains(t1, k)
      BY <2>3, <2>4, <3>1, Lists, LRUTyped
    <3>2. CASE ~LRUContains(t1, k)
      BY <2>2, <2>3, <2>4, <3>2, Lists, LRUTyped DEF LRUContains
    <3> QED
      BY <3>1, <3>2
  <2> QED
    BY <1>lists, <1>3, <2>1, <2>2, <2>3, <2>4, <2>5, Lists, Rebuilt
<1>4. ASSUME NEW k \in Keys, NEW v \in Values, AddFromB1(k, v), call' \in Calls PROVE CacheOK'
  <2> DEFINE r == Room(Raised, FALSE)
  <2>1. /\ p' = Raised /\ t1' = r.t1 /\ b1' = LRURemove(r.b1, k)
        /\ t2' = LRUAdd(r.t2, k, v) /\ b2' = r.b2
        /\ k \in b1.items /\ k \notin t1.items /\ k \notin t2.items
    BY <1>4 DEF AddFromB1, Contains, LRUContains
  <2>2. Raised \in 0 .. Size
    BY <1>4, RaisedTyped DEF AddFromB1
  <2>3. /\ LRUOK(r.t1) /\ LRUOK(r.b1) /\ LRUOK(r.t2) /\ LRUOK(r.b2)
        /\ r.t1.items \subseteq t1.items /\ r.t2.items \subseteq t2.items
        /\ r.b1.items \subseteq b1.items \cup (t1.items \ r.t1.items)
        /\ r.b2.items \subseteq b2.items \cup (t2.items \ r.t2.items)
        /\ LRULen(r.t1) + LRULen(r.t2) <= Size
    BY <2>2, RoomFacts
  <2> HIDE DEF r
  <2>4. LRUOK(b1') /\ b1'.items = r.b1.items \ {k}
    BY <2>1, <2>3, RemoveKeeps
  <2>5. LRUOK(t2') /\ t2'.items \subseteq r.t2.items \cup {k} /\ LRULen(t2') <= LRULen(r.t2) + 1
    BY <2>1, <2>3, AddFacts
  <2>6. LRULen(t1') + LRULen(t2') <= Size + 1
    BY <2>1, <2>3, <2>5, LRUTyped, SizeAssumption
  <2>7. /\ t1'.items \cap t2'.items = {} /\ b1'.items \cap b2'.items = {}
        /\ (t1'.items \cup t2'.items) \cap (b1'.items \cup b2'.items) = {}
    BY <1>lists, <2>1, <2>3, <2>4, <2>5
  <2> QED
    BY <1>4, <2>1, <2>2, <2>3, <2>4, <2>5, <2>6, <2>7, Rebuilt
<1>5. ASSUME NEW k \in Keys, NEW v \in Values, AddFromB2(k, v), call' \in Calls PROVE CacheOK'
  <2> DEFINE r == Room(Lowered, TRUE)
  <2>1. /\ p' = Lowered /\ t1' = r.t1 /\ b1' = r.b1
        /\ t2' = LRUAdd(r.t2, k, v) /\ b2' = LRURemove(r.b2, k)
        /\ k \in b2.items /\ k \notin t1.items /\ k \notin t2.items
    BY <1>5 DEF AddFromB2, Contains, LRUContains
  <2>2. Lowered \in 0 .. Size
    BY <1>5, LoweredTyped DEF AddFromB2
  <2>3. /\ LRUOK(r.t1) /\ LRUOK(r.b1) /\ LRUOK(r.t2) /\ LRUOK(r.b2)
        /\ r.t1.items \subseteq t1.items /\ r.t2.items \subseteq t2.items
        /\ r.b1.items \subseteq b1.items \cup (t1.items \ r.t1.items)
        /\ r.b2.items \subseteq b2.items \cup (t2.items \ r.t2.items)
        /\ LRULen(r.t1) + LRULen(r.t2) <= Size
    BY <2>2, RoomFacts
  <2> HIDE DEF r
  <2>4. LRUOK(b2') /\ b2'.items = r.b2.items \ {k}
    BY <2>1, <2>3, RemoveKeeps
  <2>5. LRUOK(t2') /\ t2'.items \subseteq r.t2.items \cup {k} /\ LRULen(t2') <= LRULen(r.t2) + 1
    BY <2>1, <2>3, AddFacts
  <2>6. LRULen(t1') + LRULen(t2') <= Size + 1
    BY <2>1, <2>3, <2>5, LRUTyped, SizeAssumption
  <2>7. /\ t1'.items \cap t2'.items = {} /\ b1'.items \cap b2'.items = {}
        /\ (t1'.items \cup t2'.items) \cap (b1'.items \cup b2'.items) = {}
    BY <1>lists, <2>1, <2>3, <2>4, <2>5
  <2> QED
    BY <1>5, <2>1, <2>2, <2>3, <2>4, <2>5, <2>6, <2>7, Rebuilt
<1>6. ASSUME NEW k \in Keys, NEW v \in Values, AddNew(k, v), call' \in Calls PROVE CacheOK'
  <2> DEFINE r == Room(p, FALSE)
  <2>1. /\ p' = p /\ t1' = LRUAdd(r.t1, k, v) /\ b1' = Trimmed(r.b1, Size - p)
        /\ t2' = r.t2 /\ b2' = Trimmed(r.b2, p)
        /\ k \notin t1.items /\ k \notin t2.items /\ k \notin b1.items /\ k \notin b2.items
    BY <1>6 DEF AddNew, Contains, LRUContains
  <2>2. p \in 0 .. Size
    BY Lists
  <2>3. /\ LRUOK(r.t1) /\ LRUOK(r.b1) /\ LRUOK(r.t2) /\ LRUOK(r.b2)
        /\ r.t1.items \subseteq t1.items /\ r.t2.items \subseteq t2.items
        /\ r.b1.items \subseteq b1.items \cup (t1.items \ r.t1.items)
        /\ r.b2.items \subseteq b2.items \cup (t2.items \ r.t2.items)
        /\ LRULen(r.t1) + LRULen(r.t2) <= Size
    BY <2>2, RoomFacts
  <2> HIDE DEF r
  <2>4. ASSUME NEW l, LRUOK(l), NEW n \in Nat
        PROVE  LRUOK(Trimmed(l, n)) /\ Trimmed(l, n).items \subseteq l.items
    BY <2>4, LRUTyped, OldestKeeps DEF Trimmed
  <2>5. Size - p \in Nat /\ p \in Nat
    BY <2>2, SizeAssumption
  <2>6. /\ LRUOK(b1') /\ b1'.items \subseteq r.b1.items
        /\ LRUOK(b2') /\ b2'.items \subseteq r.b2.items
    BY <2>1, <2>3, <2>4, <2>5
  <2>7. LRUOK(t1') /\ t1'.items \subseteq r.t1.items \cup {k} /\ LRULen(t1') <= LRULen(r.t1) + 1
    BY <2>1, <2>3, AddFacts
  <2>8. LRULen(t1') + LRULen(t2') <= Size + 1
    BY <2>1, <2>3, <2>7, LRUTyped, SizeAssumption
  <2>9. /\ t1'.items \cap t2'.items = {} /\ b1'.items \cap b2'.items = {}
        /\ (t1'.items \cup t2'.items) \cap (b1'.items \cup b2'.items) = {}
    BY <1>lists, <2>1, <2>3, <2>6, <2>7
  <2> QED
    BY <1>6, <2>1, <2>2, <2>3, <2>6, <2>7, <2>8, <2>9, Rebuilt
<1>7. ASSUME NEW k \in Keys, NEW v \in Values, Add(k, v) PROVE CacheOK'
  <2>1. call' \in Calls
    BY <1>7 DEF Add, Call
  <2> HIDE DEF Calls
  <2> QED
    BY <1>3, <1>4, <1>5, <1>6, <1>7, <2>1 DEF Add
<1>8. ASSUME Purge PROVE CacheOK'
  <2>1. call' \in Calls /\ p' = p
    BY <1>8 DEF Purge, Call
  <2>2. t1' = NewLRU /\ b1' = NewLRU /\ t2' = NewLRU /\ b2' = NewLRU
    BY <1>8 DEF Purge
  <2> QED
    BY <2>1, <2>2, NewKeeps, Lists, Rebuilt
<1>9. ASSUME UNCHANGED vars PROVE CacheOK'
  <2>1. call' \in Calls
    BY <1>9 DEF vars, CacheOK, TypeOK
  <2>2. p' = p /\ t1' = t1 /\ b1' = b1 /\ t2' = t2 /\ b2' = b2
    BY <1>9 DEF vars
  <2> QED
    BY <1>lists, <2>1, <2>2, Lists, Rebuilt
<1> QED
  BY <1>1, <1>2, <1>7, <1>8, <1>9 DEF Next

(* The invariant holds in every reachable state.                               *)
LEMMA CacheInvariant == Spec => []CacheOK
  BY InitCache, StepCache, PTL DEF Spec

(* For every size and every set of keys, in each of the four lists the list    *)
(* and the map agree, and p stays within the size (lru.go, Add of arc.go).     *)
THEOREM CacheTypeCorrect == Spec => []TypeOK
<1>1. CacheOK => TypeOK
  BY DEF CacheOK
<1> QED
  BY <1>1, CacheInvariant, PTL

(* No key is ever in two of the four lists (Get, Add and replace of arc.go).   *)
THEOREM CacheDisjoint == Spec => []OneListPerKey
<1>1. CacheOK => OneListPerKey
  BY DEF CacheOK
<1> QED
  BY <1>1, CacheInvariant, PTL

(* The cache never holds more than Size + 1 entries (replace and Add).         *)
THEOREM CacheBounded == Spec => []AtMostOneOver
<1>1. CacheOK => AtMostOneOver
  BY DEF CacheOK
<1> QED
  BY <1>1, CacheInvariant, PTL
=============================================================================
