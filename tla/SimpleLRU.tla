----------------------------- MODULE SimpleLRU -----------------------------
(***************************************************************************)
(* The LRU list of lru/simplelru/lru.go, the building block of ARCCache:   *)
(* a doubly linked list of entries, the most recently used one in front,   *)
(* and a map from keys to the elements of that list. The map is the set of *)
(* its keys: its element of a key is the one that holds the key. No list   *)
(* of ARCCache has an eviction callback.                                   *)
(***************************************************************************)
EXTENDS Naturals, Sequences
Ext == INSTANCE SequencesExt

CONSTANTS
  Keys,    \* the keys of a cache
  Values,  \* the values clients add
  Nil,     \* no value, no key
  Size     \* the size given to NewLRU

ASSUME SizeAssumption == Size \in Nat \ {0}
ASSUME NilAssumption  == Nil \notin Values /\ Nil \notin Keys

Entry == [key : Keys, value : Values \cup {Nil}]

NewLRU == [evictList |-> <<>>, items |-> {}]

LRULen(l)         == Len(l.evictList)
LRUContains(l, k) == k \in l.items

(* The element the map holds for key k, and that element removed. *)
ElementOf(l, k)  == CHOOSE i \in DOMAIN l.evictList : l.evictList[i].key = k
Without(l, k)    == Ext!RemoveAt(l.evictList, ElementOf(l, k))
LRUPeek(l, k)    == IF LRUContains(l, k) THEN l.evictList[ElementOf(l, k)].value ELSE Nil

(* RemoveOldest, when the list is not empty. *)
Oldest(l)          == Ext!Last(l.evictList).key
LRURemoveOldest(l) == [evictList |-> Ext!Front(l.evictList), items |-> l.items \ {Oldest(l)}]

(* Mutant: the element leaves the list, its key stays in the map. *)
RemoveKeepsItem(l, k) ==
  IF LRUContains(l, k) THEN [l EXCEPT !.evictList = Without(l, k)] ELSE l

LRURemove(l, k) ==
  IF LRUContains(l, k) THEN [evictList |-> Without(l, k), items |-> l.items \ {k}] ELSE l

(* Get of a key that is there moves its entry to the front. *)
LRUGet(l, k) ==
  [l EXCEPT !.evictList = <<l.evictList[ElementOf(l, k)]>> \o Without(l, k)]

(* The new entry goes to the front; the oldest goes when there are too many.   *)
LRUPush(l, k, v) ==
  [evictList |-> <<[key |-> k, value |-> v]>> \o l.evictList, items |-> l.items \cup {k}]

(* Mutant: an entry that is there keeps its old value. *)
AddKeepsValue(l, k, v) ==
  IF LRUContains(l, k) THEN LRUGet(l, k)
  ELSE IF LRULen(l) < Size THEN LRUPush(l, k, v)
  ELSE LRURemoveOldest(LRUPush(l, k, v))

LRUAdd(l, k, v) ==
  IF LRUContains(l, k)
  THEN [l EXCEPT !.evictList = <<[key |-> k, value |-> v]>> \o Without(l, k)]
  ELSE IF LRULen(l) < Size THEN LRUPush(l, k, v)
  ELSE LRURemoveOldest(LRUPush(l, k, v))

-----------------------------------------------------------------------------
KeysIn(l) == {l.evictList[i].key : i \in DOMAIN l.evictList}

(* List and map agree: the map has exactly the keys of the list, and no key is *)
(* in the list twice. Keys would index out of range, and Remove free a live    *)
(* element, if they ever differed.                                             *)
Linked(l) ==
  /\ l \in [evictList : Seq(Entry), items : SUBSET Keys]
  /\ l.items = KeysIn(l)
  /\ \A i, j \in DOMAIN l.evictList : l.evictList[i].key = l.evictList[j].key => i = j

LRUOK(l) == Linked(l) /\ LRULen(l) <= Size
=============================================================================
