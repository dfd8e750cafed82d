------------------------------ MODULE ARCCache ------------------------------
(***************************************************************************)
(* The adaptive replacement cache of lru/arc.go, in which She-Ra keeps the *)
(* configurations of its jobs: t1 and t2 hold the entries seen once and    *)
(* seen again, b1 and b2 the keys lately evicted from them, and p is the   *)
(* share of the cache that t1 aims for. One lock makes each operation      *)
(* atomic. Len, Keys, Contains and Peek change nothing.                    *)
(***************************************************************************)
EXTENDS SimpleLRU

VARIABLES
  p,    \* the preference towards t1
  t1,   \* entries seen once
  b1,   \* keys evicted from t1
  t2,   \* entries seen again
  b2,   \* keys evicted from t2
  call  \* the last operation, its key, and the value it was given or returned

vars == <<p, t1, b1, t2, b2, call>>

Call(n, k, v) == [name |-> n, key |-> k, value |-> v]

Contains(k) == LRUContains(t1, k) \/ LRUContains(t2, k)
Peek(k)     == IF LRUContains(t1, k) THEN LRUPeek(t1, k) ELSE LRUPeek(t2, k)
CacheLen    == LRULen(t1) + LRULen(t2)

Init ==
  /\ p = 0
  /\ t1 = NewLRU /\ b1 = NewLRU /\ t2 = NewLRU /\ b2 = NewLRU
  /\ call = Call("new", Nil, Nil)

(* Get: a hit in t1 moves the entry to t2, a hit in t2 moves it to the front. *)
Get(k) ==
  /\ call' = Call("get", k, Peek(k))
  /\ \/ /\ LRUContains(t1, k)
        /\ t1' = LRURemove(t1, k)
        /\ t2' = LRUAdd(t2, k, LRUPeek(t1, k))
     \/ /\ ~LRUContains(t1, k) /\ LRUContains(t2, k)
        /\ t2' = LRUGet(t2, k)
        /\ UNCHANGED t1
     \/ ~Contains(k) /\ UNCHANGED <<t1, t2>>
  /\ UNCHANGED <<p, b1, b2>>

-----------------------------------------------------------------------------
(* replace evicts from t1 or t2 into b1 or b2, according to p. *)
EvictsT1(q, inB2) ==
  LRULen(t1) > 0 /\ (LRULen(t1) > q \/ (LRULen(t1) = q /\ inB2))

Replaced(q, inB2) ==
  LET fromT1 == EvictsT1(q, inB2)
      fromT2 == ~fromT1 /\ LRULen(t2) > 0
  IN [t1 |-> IF fromT1 THEN LRURemoveOldest(t1) ELSE t1,
      b1 |-> IF fromT1 THEN LRUAdd(b1, Oldest(t1), Nil) ELSE b1,
      t2 |-> IF fromT2 THEN LRURemoveOldest(t2) ELSE t2,
      b2 |-> IF fromT2 THEN LRUAdd(b2, Oldest(t2), Nil) ELSE b2]

(* Mutant: room is made one entry early. *)
FullEarly == CacheLen >= Size - 1

Full == CacheLen >= Size

(* The four lists once there is room for an entry. *)
Room(q, inB2) ==
  IF Full THEN Replaced(q, inB2) ELSE [t1 |-> t1, b1 |-> b1, t2 |-> t2, b2 |-> b2]

(* How far a hit in b1 or b2 moves p: integer division, 1 at least. *)
Delta(other, own) == IF LRULen(other) > LRULen(own) THEN LRULen(other) \div LRULen(own) ELSE 1

Raised  == IF p + Delta(b2, b1) >= Size THEN Size ELSE p + Delta(b2, b1)
Lowered == IF Delta(b1, b2) >= p THEN 0 ELSE p - Delta(b1, b2)

(* Add of a key that t1 has, and of one that t2 has. *)
AddCached(k, v) ==
  /\ Contains(k)
  /\ t1' = LRURemove(t1, k)
  /\ t2' = LRUAdd(t2, k, v)
  /\ UNCHANGED <<p, b1, b2>>

(* Mutant: the key goes to t2 and its ghost stays in b1. *)
AddKeepsGhost(k, v) ==
  LET r == Room(Raised, FALSE) IN
  /\ ~Contains(k) /\ LRUContains(b1, k)
  /\ p' = Raised
  /\ t1' = r.t1
  /\ b1' = r.b1
  /\ t2' = LRUAdd(r.t2, k, v)
  /\ b2' = r.b2

(* Add of a key that was evicted from t1: t1 is too small. *)
AddFromB1(k, v) ==
  LET r == Room(Raised, FALSE) IN
  /\ ~Contains(k) /\ LRUContains(b1, k)
  /\ p' = Raised
  /\ t1' = r.t1
  /\ b1' = LRURemove(r.b1, k)
  /\ t2' = LRUAdd(r.t2, k, v)
  /\ b2' = r.b2

(* Add of a key that was evicted from t2: t2 is too small. *)
AddFromB2(k, v) ==
  LET r == Room(Lowered, TRUE) IN
  /\ ~Contains(k) /\ ~LRUContains(b1, k) /\ LRUContains(b2, k)
  /\ p' = Lowered
  /\ t1' = r.t1
  /\ b1' = r.b1
  /\ t2' = LRUAdd(r.t2, k, v)
  /\ b2' = LRURemove(r.b2, k)

Trimmed(l, n) == IF LRULen(l) > n THEN LRURemoveOldest(l) ELSE l

(* Add of a key none of the lists has: the ghost lists are trimmed. *)
AddNew(k, v) ==
  LET r == Room(p, FALSE) IN
  /\ ~Contains(k) /\ ~LRUContains(b1, k) /\ ~LRUContains(b2, k)
  /\ t1' = LRUAdd(r.t1, k, v)
  /\ b1' = Trimmed(r.b1, Size - p)
  /\ t2' = r.t2
  /\ b2' = Trimmed(r.b2, p)
  /\ UNCHANGED p

Add(k, v) ==
  /\ AddCached(k, v) \/ AddFromB1(k, v) \/ AddFromB2(k, v) \/ AddNew(k, v)
  /\ call' = Call("add", k, v)

(* Remove stops at the first list that has the key. *)
Remove(k) ==
  /\ t1' = LRURemove(t1, k)
  /\ t2' = IF LRUContains(t1, k) THEN t2 ELSE LRURemove(t2, k)
  /\ b1' = IF Contains(k) THEN b1 ELSE LRURemove(b1, k)
  /\ b2' = IF Contains(k) \/ LRUContains(b1, k) THEN b2 ELSE LRURemove(b2, k)
  /\ call' = Call("remove", k, Nil)
  /\ UNCHANGED p

(* Purge empties the lists and leaves p alone. *)
Purge ==
  /\ t1' = NewLRU /\ b1' = NewLRU /\ t2' = NewLRU /\ b2' = NewLRU
  /\ call' = Call("purge", Nil, Nil)
  /\ UNCHANGED p

Next ==
  \/ \E k \in Keys : Get(k) \/ Remove(k)
  \/ \E k \in Keys, v \in Values : Add(k, v)
  \/ Purge

Spec == Init /\ [][Next]_vars

-----------------------------------------------------------------------------
(* Type invariant: in each of the four lists the list and the map agree, the   *)
(* bound of a single list holds, and the preference stays within the size.     *)
TypeOK ==
  /\ p \in 0 .. Size
  /\ LRUOK(t1) /\ LRUOK(b1) /\ LRUOK(t2) /\ LRUOK(b2)
  /\ call \in [name : {"new", "get", "add", "remove", "purge"},
               key : Keys \cup {Nil}, value : Values \cup {Nil}]

(* A key is in one of the four lists at most, so that Remove, which stops at   *)
(* the first list that has the key, leaves no trace of it, and a ghost never   *)
(* stands for an entry that is still cached.                                   *)
OneListPerKey ==
  /\ t1.items \cap t2.items = {}
  /\ b1.items \cap b2.items = {}
  /\ (t1.items \cup t2.items) \cap (b1.items \cup b2.items) = {}

(* The cache never holds more entries than the size it was made with ("Size is *)
(* the total capacity of the cache"). Add does not keep to this: a hit in b1   *)
(* raises the target p first, and replace then turns to t2, which is empty.    *)
NeverOverSize == CacheLen <= Size

(* What ARCCache keeps to: one entry more than the size it was given.          *)
AtMostOneOver == CacheLen <= Size + 1

(* A lookup or an insertion takes an entry out only when the cache is full.    *)
EvictsOnlyWhenFull ==
  [][call'.name \in {"get", "add"} /\ (\E k \in Keys : Contains(k) /\ ~Contains(k)')
       => CacheLen >= Size]_vars
=============================================================================
