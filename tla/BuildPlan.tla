----------------------------- MODULE BuildPlan -----------------------------
(***************************************************************************)
(* What runJobExecution (api/jobs/handlers.go) does between its place in   *)
(* ExecChan and COMMON_HANDLING: the stages of a configuration, the        *)
(* commands of each, the counters into the lists of build configurations,  *)
(* the working directory, which belongs to the whole process, and the      *)
(* table of JDKs. Each execution here is of a job of its own: those of one *)
(* job follow each other (JobExec). A command succeeds or fails; kills and *)
(* timeouts are failures, what becomes of the records is in JobExec.       *)
(***************************************************************************)
EXTENDS Integers, Sequences, FiniteSets

CONSTANTS
  Runs,      \* executions
  Configs,   \* configurations: see Config
  Versions,  \* versions of the JDK
  None       \* no version, no command, nobody

(* BuildManager_NONE, ANT, MVN and SHELL, and a number that is none of them. *)
Kinds == {"none", "ant", "mvn", "shell", "other"}

(* git: is there a GitConfig, and has it a Repo? build, image: is there a      *)
(* BuildManager, an ImgManager? SeqNo, with the entries of AntConfig, of       *)
(* MvnConfig and of Cmd: "" is an entry that is nil, or a string that is empty.*)
IsConfig(c) ==
  /\ c.git \in {"no", "yes", "without repo"} /\ c.build \in BOOLEAN /\ c.image \in BOOLEAN
  /\ c.SeqNo \in Seq(Kinds)
  /\ c.ant \in Seq({"", "entry"}) /\ c.mvn \in Seq({"", "entry"}) /\ c.Cmd \in Seq({"", "entry"})
  /\ c.jdk \in Versions \cup {None}

ASSUME ConfigsAssumption == \A c \in Configs : IsConfig(c)
ASSUME NobodyAssumption  == None \notin Versions /\ None \notin Runs

VARIABLES
  server,  \* "up", or "fatal" after a panic ended the process
  cfg,     \* the configurations of the executions
  cwd,     \* the working directory of the process: "start", that of the namespace, or that of a job
  by,      \* history: the execution that chose it last
  jdks,    \* the versions in table jdk
  run,     \* where the executions are
  last     \* history: per execution, how many commands it ran, the last one and where

vars == <<server, cfg, cwd, by, jdks, run, last>>

(* pos 0 is before the stage changes the directory. *)
Place(stage, pos) == [stage |-> stage, pos |-> pos, i |-> 0, j |-> 0, k |-> 0]

(* if codeManager := ...; if buildManager := ...; if imgManager := ..., from   *)
(* the n-th of the three on.                                                   *)
StageFrom(c, n) ==
  IF n <= 1 /\ c.git # "no" THEN "git"
  ELSE IF n <= 2 /\ c.build THEN "build"
  ELSE IF n <= 3 /\ c.image THEN "image"
  ELSE "succeeded"

After(c, stage) == StageFrom(c, CASE stage = "git" -> 2 [] stage = "build" -> 3 [] stage = "image" -> 4)

GitCommands   == <<"git init", "git config", "git pull">>
ImageCommands == <<"docker build", "docker push", "docker rmi">>

Init ==
  /\ server = "up"
  /\ cfg \in [Runs -> Configs]
  /\ cwd = "start" /\ by = None
  /\ jdks = {}
  /\ run = [e \in Runs |-> Place("begin", 0)]
  /\ last = [e \in Runs |-> [count |-> 0, command |-> None, dir |-> None, by |-> None]]

Goes(e, r) == run' = [run EXCEPT ![e] = r]

(* goto COMMON_HANDLING *)
GivesUp(e) == Goes(e, Place("failed", 0))

(* A panic in a goroutine that recovers from none. *)
Panics == server' = "fatal" /\ UNCHANGED run

-----------------------------------------------------------------------------
(* os.Chdir, which may fail. *)
Chdir(e, dir, r) ==
  \/ cwd' = dir /\ by' = e /\ Goes(e, r)
  \/ GivesUp(e) /\ UNCHANGED <<cwd, by>>

Begin(e) ==
  /\ run[e].stage = "begin"
  /\ Chdir(e, "namespace", Place(StageFrom(cfg[e], 1), 0))
  /\ UNCHANGED <<server, cfg, jdks, last>>

(* Mutant: the directory the process is in is taken for that of the job. *)
EnterWithoutChdir(e) ==
  /\ run[e].stage \in {"git", "build", "image"} /\ run[e].pos = 0
  /\ Goes(e, Place(run[e].stage, 1))
  /\ UNCHANGED <<server, cfg, cwd, by, jdks, last>>

(* A stage begins: the stage of git makes the directory anew, which may fail   *)
(* as well.                                                                    *)
Enter(e) ==
  /\ run[e].stage \in {"git", "build", "image"} /\ run[e].pos = 0
  /\ Chdir(e, e, Place(run[e].stage, 1))
  /\ UNCHANGED <<server, cfg, jdks, last>>

(* ExecAsync starts the command in the directory the process has now. *)
Ran(e, command) ==
  last' = [last EXCEPT ![e] = [count |-> @.count + 1, command |-> command, dir |-> cwd, by |-> by]]

(* It succeeds and the execution goes on with r, or it fails. *)
Execute(e, command, r) ==
  /\ Ran(e, command)
  /\ Goes(e, r) \/ GivesUp(e)

NextIn(e, commands) ==
  IF run[e].pos = Len(commands) THEN Place(After(cfg[e], run[e].stage), 0)
  ELSE Place(run[e].stage, run[e].pos + 1)

(* The arguments of git config come from the Repo. *)
GitCommand(e) ==
  /\ run[e].stage = "git" /\ run[e].pos > 0
  /\ IF run[e].pos = 2 /\ cfg[e].git = "without repo" THEN Panics /\ UNCHANGED last
     ELSE /\ Execute(e, GitCommands[run[e].pos], NextIn(e, GitCommands))
          /\ UNCHANGED server
  /\ UNCHANGED <<cfg, cwd, by, jdks>>

ImageCommand(e) ==
  /\ run[e].stage = "image" /\ run[e].pos > 0
  /\ Execute(e, ImageCommands[run[e].pos], NextIn(e, ImageCommands))
  /\ UNCHANGED <<server, cfg, cwd, by, jdks>>

-----------------------------------------------------------------------------
(* The loop over SeqNo: its kind at the present position, the index into the   *)
(* list of that kind, and the length of the list.                              *)
Kind(e) == cfg[e].SeqNo[run[e].pos]

Index(r, kind) == CASE kind = "ant" -> r.i [] kind = "mvn" -> r.j [] kind = "shell" -> r.k

Entries(c, kind) == CASE kind = "ant" -> c.ant [] kind = "mvn" -> c.mvn [] kind = "shell" -> c.Cmd

(* Mutant: one counter for all kinds. *)
CountedTogether(r, kind) == [r EXCEPT !.i = @ + 1, !.j = @ + 1, !.k = @ + 1]

(* i++, j++, k++ *)
Counted(r, kind) ==
  CASE kind = "ant" -> [r EXCEPT !.i = @ + 1]
    [] kind = "mvn" -> [r EXCEPT !.j = @ + 1]
    [] kind = "shell" -> [r EXCEPT !.k = @ + 1]

InLoop(e) == run[e].stage = "build" /\ run[e].pos \in 1 .. Len(cfg[e].SeqNo)

EndOfLoop(e) ==
  /\ run[e].stage = "build" /\ run[e].pos > Len(cfg[e].SeqNo)
  /\ Goes(e, Place(After(cfg[e], "build"), 0))
  /\ UNCHANGED <<server, cfg, cwd, by, jdks, last>>

(* Index out of range. *)
OutOfRange(e) == Index(run[e], Kind(e)) >= Len(Entries(cfg[e], Kind(e)))

(* The entry is nil, or the empty string. *)
BadEntry(e) == Entries(cfg[e], Kind(e))[Index(run[e], Kind(e)) + 1] = ""

(* Bad BuildManager data, or a kind that is none.                              *)
BadData(e) ==
  /\ InLoop(e)
  /\ \/ Kind(e) \in {"none", "other"}
     \/ Kind(e) \in {"ant", "mvn", "shell"} /\ ~OutOfRange(e) /\ BadEntry(e)
  /\ GivesUp(e)
  /\ UNCHANGED <<server, cfg, cwd, by, jdks, last>>

NoSuchEntry(e) ==
  /\ InLoop(e) /\ Kind(e) \in {"ant", "mvn", "shell"}
  /\ OutOfRange(e)
  /\ Panics
  /\ UNCHANGED <<cfg, cwd, by, jdks, last>>

(* A version of the JDK that is asked for and not in the table ends the        *)
(* execution without a word.                                                   *)
BuildCommand(e) ==
  LET kind == Kind(e)
      n    == Index(run[e], kind)
      next == [Counted(run[e], kind) EXCEPT !.pos = @ + 1]
  IN /\ InLoop(e) /\ kind \in {"ant", "mvn", "shell"}
     /\ ~OutOfRange(e)
     /\ ~BadEntry(e)
     /\ IF cfg[e].jdk \in jdks \cup {None} THEN Execute(e, <<kind, n>>, next)
        ELSE GivesUp(e) /\ UNCHANGED last
     /\ UNCHANGED <<server, cfg, cwd, by, jdks>>

-----------------------------------------------------------------------------
(* createJdk; a version that is there already is an error that is only logged. *)
CreateJdk(v) ==
  /\ jdks' = jdks \cup {v}
  /\ UNCHANGED <<server, cfg, cwd, by, run, last>>

DeleteJdk(v) ==
  /\ jdks' = jdks \ {v}
  /\ UNCHANGED <<server, cfg, cwd, by, run, last>>

Step(e) ==
  \/ Begin(e) \/ Enter(e) \/ GitCommand(e) \/ ImageCommand(e)
  \/ EndOfLoop(e) \/ BadData(e) \/ NoSuchEntry(e) \/ BuildCommand(e)

Next ==
  /\ server = "up"
  /\ \/ \E e \in Runs : Step(e)
     \/ \E v \in Versions : CreateJdk(v) \/ DeleteJdk(v)

Spec == Init /\ [][Next]_vars

-----------------------------------------------------------------------------
RunState == [stage : {"begin", "git", "build", "image", "succeeded", "failed"},
             pos : Nat, i : Nat, j : Nat, k : Nat]

(* Type invariant; a counter never runs past the end of its list.              *)
TypeOK ==
  /\ server \in {"up", "fatal"}
  /\ cfg \in [Runs -> Configs]
  /\ cwd \in {"start", "namespace"} \cup Runs /\ by \in Runs \cup {None}
  /\ jdks \subseteq Versions
  /\ run \in [Runs -> RunState]
  /\ \A e \in Runs : /\ run[e].i <= Len(cfg[e].ant)
                     /\ run[e].j <= Len(cfg[e].mvn)
                     /\ run[e].k <= Len(cfg[e].Cmd)
  /\ DOMAIN last = Runs /\ \A e \in Runs : last[e].count \in Nat

(* What a configuration says should be run: the n-th command of a kind is the  *)
(* n-th entry of its list, in the order of SeqNo.                              *)
Earlier(c, p) == Cardinality({q \in 1 .. p - 1 : c.SeqNo[q] = c.SeqNo[p]})

Plan(c) ==
  LET git   == IF c.git = "no" THEN <<>> ELSE GitCommands
      build == IF c.build THEN [p \in 1 .. Len(c.SeqNo) |-> <<c.SeqNo[p], Earlier(c, p)>>] ELSE <<>>
      image == IF c.image THEN ImageCommands ELSE <<>>
  IN git \o build \o image

(* An execution runs the commands its configuration asks for, in that order,   *)
(* each once, and succeeds only after the last of them (runJobExecution).      *)
PlanFollowed ==
  \A e \in Runs :
    LET plan == Plan(cfg[e])
    IN /\ last[e].count <= Len(plan)
       /\ last[e].count > 0 => last[e].command = plan[last[e].count]
       /\ run[e].stage = "succeeded" => last[e].count = Len(plan)

(* The process ends only for a configuration that lists a kind more often than *)
(* it has entries of it, or has a GitConfig without a Repo: the counters of    *)
(* the loop never run past the end of a list that is long enough.              *)
Short(c) ==
  \/ c.git = "without repo"
  \/ \E kind \in {"ant", "mvn", "shell"} :
       Cardinality({p \in DOMAIN c.SeqNo : c.SeqNo[p] = kind}) > Len(Entries(c, kind))

PanicOnlyIfShort == server = "fatal" => \E e \in Runs : Short(cfg[e])

(* A command starts in the directory of its job, unless an execution of        *)
(* another job has changed the directory of the process since this one last    *)
(* did: every stage changes it before it runs a command (runJobExecution).     *)
DirectoryUnlessDisturbed ==
  \A e \in Runs : last[e].count > 0 /\ last[e].by = e => last[e].dir = e

(* Every command starts in the directory of its job.                           *)
RightDirectory ==
  \A e \in Runs : last[e].count > 0 => last[e].dir = e
=============================================================================
