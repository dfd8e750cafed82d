----------------------------- MODULE LossyCache -----------------------------
(***************************************************************************)
(* What the rest of She-Ra relies on when it uses JobCache (the callers in *)
(* api/jobs/handlers.go): what Get returns is the value added last, or     *)
(* nothing; the cache may forget, but a key just added or just found is    *)
(* there, one operation forgets few others, and Remove forgets one.        *)
(***************************************************************************)
EXTENDS Naturals, FiniteSets

CONSTANTS
  Keys,    \* the keys
  Values,  \* the values clients add
  Nil      \* no value

VARIABLES
  cache,  \* the value of each key, Nil when it is not there
  call    \* the last operation, its key, and the value it was given or returned

(* The cache keeps what is in c, except the keys in lost. *)
Forgetting(c, lost) == [k \in Keys |-> IF k \in lost THEN Nil ELSE c[k]]

Cached == {k \in Keys : cache[k] # Nil}

Call(n, k, v) == [name |-> n, key |-> k, value |-> v]

Init == cache = [k \in Keys |-> Nil] /\ call = Call("new", Nil, Nil)

Get(k) ==
  /\ call' = Call("get", k, cache[k])
  /\ \E lost \in SUBSET (Cached \ {k}) :
       Cardinality(lost) <= 1 /\ cache' = Forgetting(cache, lost)

Add(k, v) ==
  /\ call' = Call("add", k, v)
  /\ \E lost \in SUBSET (Cached \ {k}) :
       Cardinality(lost) <= 2 /\ cache' = Forgetting([cache EXCEPT ![k] = v], lost)

Remove(k) == call' = Call("remove", k, Nil) /\ cache' = Forgetting(cache, {k})

Purge == call' = Call("purge", Nil, Nil) /\ cache' = Forgetting(cache, Keys)

Next ==
  \/ \E k \in Keys : Get(k) \/ Remove(k)
  \/ \E k \in Keys, v \in Values : Add(k, v)
  \/ Purge

Spec == Init /\ [][Next]_<<cache, call>>
=============================================================================
