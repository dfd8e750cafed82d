---------------------------- MODULE ConfigStore ----------------------------
(***************************************************************************)
(* What She-Ra promises about job configurations, whatever caches, files   *)
(* and tables it uses (api/jobs/handlers.go): a key has a configuration or *)
(* none; a change that was answered with success holds from then on, also  *)
(* when the server dies; nothing is promised while a change is under way   *)
(* or after one that failed; a read answers what is known.                 *)
(***************************************************************************)
CONSTANTS
  Keys,     \* a namespace and the name of a job
  Configs,  \* configurations
  Blank,    \* what a read may answer where nothing is promised, apart from Configs
  None,     \* no such job
  Unknown   \* nothing is promised

VARIABLES
  value,   \* value[k]: the configuration of k, None, or Unknown
  change,  \* change[k]: the value k is about to have, or Unknown
  answer   \* what readJob answered last

Answers == Configs \cup Blank \cup {None}

Init ==
  /\ value = [k \in Keys |-> None]
  /\ change = [k \in Keys |-> Unknown]
  /\ answer = None

(* createJob, updateJob, delJob have begun to change something. *)
Begin(k, v) ==
  /\ change[k] = Unknown
  /\ change' = [change EXCEPT ![k] = v]
  /\ value' = [value EXCEPT ![k] = Unknown]
  /\ UNCHANGED answer

(* They answer with success. *)
Succeed(k) ==
  /\ change[k] # Unknown
  /\ change' = [change EXCEPT ![k] = Unknown]
  /\ value' = [value EXCEPT ![k] = change[k]]
  /\ UNCHANGED answer

(* They fail, or the server dies. *)
GiveUp(K) ==
  /\ UNCHANGED <<answer, value>>
  /\ change' = [k \in Keys |-> IF k \in K THEN Unknown ELSE change[k]]

(* readJob answers. *)
Read(k) ==
  /\ answer' \in IF value[k] = Unknown THEN Answers ELSE {value[k]}
  /\ UNCHANGED <<value, change>>

Next ==
  \/ \E K \in SUBSET Keys : GiveUp(K)
  \/ \E k \in Keys : Read(k) \/ Succeed(k) \/ \E v \in Configs \cup {None} : Begin(k, v)

Spec == Init /\ [][Next]_<<value, change, answer>>
=============================================================================
