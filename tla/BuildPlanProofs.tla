-------------------------- MODULE BuildPlanProofs --------------------------
(***************************************************************************)
(* Proofs about BuildPlan, for any configurations and any number of        *)
(* executions: the plan of a configuration is followed, only a             *)
(* configuration with too few entries ends the process, and a command      *)
(* starts in its directory unless another execution moved the process.     *)
(***************************************************************************)
EXTENDS BuildPlan, FiniteSetTheorems, TLAPS

(* How many commands the stages of a configuration have. *)
GitLen(c)   == IF c.git = "no" THEN 0 ELSE 3
BuildLen(c) == IF c.build THEN Len(c.SeqNo) ELSE 0
ImageLen(c) == IF c.image THEN 3 ELSE 0
Whole(c)    == GitLen(c) + BuildLen(c) + ImageLen(c)

(* The commands of a stage before position pos. *)
Before(pos) == IF pos = 0 THEN 0 ELSE pos - 1

(* The positions before pos that ask for a kind. *)
Seen(c, kind, pos) == {q \in 1 .. pos - 1 : c.SeqNo[q] = kind}

(* Where an execution can be that has run n commands. *)
AtGit(c, r, n) ==
  /\ c.git # "no" /\ r.pos \in 0 .. 3
  /\ n = Before(r.pos)

AtBuild(c, r, n) ==
  /\ c.build /\ r.pos \in 0 .. Len(c.SeqNo) + 1
  /\ n = GitLen(c) + Before(r.pos)
  /\ r.i = Cardinality(Seen(c, "ant", r.pos))
  /\ r.j = Cardinality(Seen(c, "mvn", r.pos))
  /\ r.k = Cardinality(Seen(c, "shell", r.pos))

AtImage(c, r, n) ==
  /\ c.image /\ r.pos \in 0 .. 3
  /\ n = GitLen(c) + BuildLen(c) + Before(r.pos)

RunOK(c, r, n) ==
  /\ r.stage = "begin" => n = 0
  /\ r.stage = "git" => AtGit(c, r, n)
  /\ r.stage = "build" => AtBuild(c, r, n)
  /\ r.stage = "image" => AtImage(c, r, n)
  /\ r.stage = "succeeded" => n = Whole(c)
  /\ n <= Whole(c)

CommandOK(c, l) == l.count > 0 => l.command = Plan(c)[l.count]

Fits(e) == RunOK(cfg[e], run[e], last[e].count) /\ CommandOK(cfg[e], last[e])

-----------------------------------------------------------------------------
LEMMA Elements ==
  ASSUME NEW S, NEW s \in Seq(S)
  PROVE  Len(s) \in Nat /\ \A p \in 1 .. Len(s) : s[p] \in S
  OBVIOUS

LEMMA ConfigTyped ==
  ASSUME NEW c \in Configs
  PROVE  /\ c.build \in BOOLEAN /\ c.image \in BOOLEAN
         /\ c.SeqNo \in Seq(Kinds) /\ Len(c.SeqNo) \in Nat
         /\ \A p \in 1 .. Len(c.SeqNo) : c.SeqNo[p] \in Kinds
         /\ Len(c.ant) \in Nat /\ Len(c.mvn) \in Nat /\ Len(c.Cmd) \in Nat
         /\ GitLen(c) \in Nat /\ BuildLen(c) \in Nat /\ ImageLen(c) \in Nat /\ Whole(c) \in Nat
<1>1. IsConfig(c)
  BY ConfigsAssumption
<1>2. /\ c.build \in BOOLEAN /\ c.image \in BOOLEAN
      /\ c.SeqNo \in Seq(Kinds)
      /\ c.ant \in Seq({"", "entry"}) /\ c.mvn \in Seq({"", "entry"}) /\ c.Cmd \in Seq({"", "entry"})
  BY <1>1 DEF IsConfig
<1>3. /\ Len(c.SeqNo) \in Nat /\ Len(c.ant) \in Nat /\ Len(c.mvn) \in Nat /\ Len(c.Cmd) \in Nat
      /\ \A p \in 1 .. Len(c.SeqNo) : c.SeqNo[p] \in Kinds
  BY <1>2, Elements
<1>4. GitLen(c) \in Nat /\ BuildLen(c) \in Nat /\ ImageLen(c) \in Nat
  BY <1>3 DEF GitLen, BuildLen, ImageLen
<1>5. Whole(c) \in Nat
  BY <1>4 DEF Whole
<1> QED BY <1>2, <1>3, <1>4, <1>5

LEMMA Three ==
  ASSUME NEW S, NEW x \in S, NEW y \in S, NEW z \in S
  PROVE  <<x, y, z>> \in Seq(S) /\ Len(<<x, y, z>>) = 3
  OBVIOUS

(* The n-th command of a plan lies in the stage that n falls into.             *)
LEMMA PlanAt ==
  ASSUME NEW c \in Configs
  PROVE  /\ Len(Plan(c)) = Whole(c)
         /\ c.git # "no" => \A n \in 1 .. 3 : Plan(c)[n] = GitCommands[n]
         /\ c.build => \A p \in 1 .. Len(c.SeqNo) :
                         Plan(c)[GitLen(c) + p] = <<c.SeqNo[p], Earlier(c, p)>>
         /\ c.image => \A n \in 1 .. 3 : Plan(c)[GitLen(c) + BuildLen(c) + n] = ImageCommands[n]
<1> DEFINE T == {<<c.SeqNo[p], Earlier(c, p)>> : p \in 1 .. Len(c.SeqNo)}
           S == T \cup {"git init", "git config", "git pull", "docker build", "docker push", "docker rmi"}
           g == IF c.git = "no" THEN <<>> ELSE GitCommands
           b == IF c.build THEN [p \in 1 .. Len(c.SeqNo) |-> <<c.SeqNo[p], Earlier(c, p)>>] ELSE <<>>
           i == IF c.image THEN ImageCommands ELSE <<>>
<1>1. g \in Seq(S) /\ Len(g) = GitLen(c) /\ (c.git # "no" => \A n \in 1 .. 3 : g[n] = GitCommands[n])
  <2> HIDE DEF T
  <2>1. "git init" \in S /\ "git config" \in S /\ "git pull" \in S
    OBVIOUS
  <2> HIDE DEF S
  <2>2. GitCommands \in Seq(S) /\ Len(GitCommands) = 3
    BY <2>1, Three DEF GitCommands
  <2>3. CASE c.git = "no"
    <3>1. g = <<>>
      BY <2>3
    <3>2. <<>> \in Seq(S) /\ Len(<<>>) = 0
      OBVIOUS
    <3> QED BY <3>1, <3>2, <2>3 DEF GitLen
  <2>4. CASE c.git # "no"
    <3>1. g = GitCommands
      BY <2>4
    <3> QED BY <3>1, <2>2, <2>4 DEF GitLen
  <2> QED BY <2>3, <2>4
<1>2. i \in Seq(S) /\ Len(i) = ImageLen(c) /\ (c.image => \A n \in 1 .. 3 : i[n] = ImageCommands[n])
  <2> HIDE DEF T
  <2>1. "docker build" \in S /\ "docker push" \in S /\ "docker rmi" \in S
    OBVIOUS
  <2> HIDE DEF S
  <2>2. ImageCommands \in Seq(S) /\ Len(ImageCommands) = 3
    BY <2>1, Three DEF ImageCommands
  <2>3. CASE ~c.image
    <3>1. i = <<>>
      BY <2>3
    <3>2. <<>> \in Seq(S) /\ Len(<<>>) = 0
      OBVIOUS
    <3> QED BY <3>1, <3>2, <2>3 DEF ImageLen
  <2>4. CASE c.image
    <3>1. i = ImageCommands
      BY <2>4
    <3> QED BY <3>1, <2>2, <2>4 DEF ImageLen
  <2> QED BY <2>3, <2>4
<1>3. b \in Seq(S) /\ Len(b) = BuildLen(c)
  <2>1. CASE c.build
    <3> DEFINE f == [p \in 1 .. Len(c.SeqNo) |-> <<c.SeqNo[p], Earlier(c, p)>>]
    <3>1. Len(c.SeqNo) \in Nat /\ f \in [1 .. Len(c.SeqNo) -> S]
      BY ConfigTyped
    <3>2. f \in Seq(S) /\ Len(f) = Len(c.SeqNo)
      <4> HIDE DEF f, S
      <4> QED BY <3>1
    <3> QED BY <2>1, <3>2 DEF BuildLen
  <2>2. CASE ~c.build
    BY <2>2 DEF BuildLen
  <2> QED BY <2>1, <2>2
<1>4. c.build => \A p \in 1 .. Len(c.SeqNo) : b[p] = <<c.SeqNo[p], Earlier(c, p)>>
  OBVIOUS
<1>5. Plan(c) = (g \o b) \o i
  BY DEF Plan
<1>6. GitLen(c) \in Nat /\ BuildLen(c) \in Nat /\ ImageLen(c) \in Nat /\ Whole(c) = GitLen(c) + BuildLen(c) + ImageLen(c)
  BY ConfigTyped DEF Whole
<1>7. (c.git # "no" => GitLen(c) = 3) /\ (c.build => BuildLen(c) = Len(c.SeqNo)) /\ (c.image => ImageLen(c) = 3)
  BY DEF GitLen, BuildLen, ImageLen
<1> HIDE DEF S, g, b, i
<1>8. /\ g \o b \in Seq(S) /\ Len(g \o b) = GitLen(c) + BuildLen(c)
      /\ \A n \in 1 .. GitLen(c) : (g \o b)[n] = g[n]
      /\ \A n \in 1 .. BuildLen(c) : (g \o b)[GitLen(c) + n] = b[n]
  <2>1. /\ g \o b \in Seq(S) /\ Len(g \o b) = Len(g) + Len(b)
        /\ \A n \in 1 .. Len(g) : (g \o b)[n] = g[n]
        /\ \A n \in 1 .. Len(b) : (g \o b)[Len(g) + n] = b[n]
    BY <1>1, <1>3
  <2> QED BY <2>1, <1>1, <1>3
<1>9. /\ Len(Plan(c)) = GitLen(c) + BuildLen(c) + ImageLen(c)
      /\ \A n \in 1 .. GitLen(c) + BuildLen(c) : Plan(c)[n] = (g \o b)[n]
      /\ \A n \in 1 .. ImageLen(c) : Plan(c)[GitLen(c) + BuildLen(c) + n] = i[n]
  <2> DEFINE h == g \o b
  <2>1. h \in Seq(S) /\ Len(h) = GitLen(c) + BuildLen(c)
    BY <1>8
  <2> HIDE DEF h
  <2>2. /\ Len(h \o i) = Len(h) + Len(i)
        /\ \A n \in 1 .. Len(h) : (h \o i)[n] = h[n]
        /\ \A n \in 1 .. Len(i) : (h \o i)[Len(h) + n] = i[n]
    BY <2>1, <1>2, SMTT(20)
  <2>3. Plan(c) = h \o i
    BY <1>5 DEF h
  <2>4. /\ Len(Plan(c)) = GitLen(c) + BuildLen(c) + ImageLen(c)
        /\ \A n \in 1 .. GitLen(c) + BuildLen(c) : Plan(c)[n] = h[n]
        /\ \A n \in 1 .. ImageLen(c) : Plan(c)[GitLen(c) + BuildLen(c) + n] = i[n]
    BY <2>1, <2>2, <2>3, <1>2
  <2> QED BY <2>4 DEF h
<1>10. c.git # "no" => \A n \in 1 .. 3 : Plan(c)[n] = GitCommands[n]
  BY <1>1, <1>6, <1>7, <1>8, <1>9, SMTT(20)
<1>11. c.build => \A p \in 1 .. Len(c.SeqNo) : Plan(c)[GitLen(c) + p] = <<c.SeqNo[p], Earlier(c, p)>>
  <2> SUFFICES ASSUME c.build, NEW p \in 1 .. Len(c.SeqNo)
               PROVE  Plan(c)[GitLen(c) + p] = <<c.SeqNo[p], Earlier(c, p)>>
    OBVIOUS
  <2>1. p \in 1 .. BuildLen(c) /\ GitLen(c) + p \in 1 .. GitLen(c) + BuildLen(c)
    BY <1>6, <1>7
  <2>2. Plan(c)[GitLen(c) + p] = b[p]
    BY <2>1, <1>8, <1>9
  <2> QED BY <2>2, <1>4
<1>12. c.image => \A n \in 1 .. 3 : Plan(c)[GitLen(c) + BuildLen(c) + n] = ImageCommands[n]
  BY <1>2, <1>7, <1>9
<1> QED BY <1>6, <1>9, <1>10, <1>11, <1>12

-----------------------------------------------------------------------------
(* What the positions before the first, and before the next one, ask for.      *)
LEMMA SeenFirst ==
  ASSUME NEW c, NEW kind, NEW pos \in 0 .. 1
  PROVE  Cardinality(Seen(c, kind, pos)) = 0
<1>1. Seen(c, kind, pos) = {}
  BY DEF Seen
<1> QED BY <1>1, FS_EmptySet

LEMMA SeenFinite ==
  ASSUME NEW c, NEW kind, NEW pos \in Nat
  PROVE  IsFiniteSet(Seen(c, kind, pos)) /\ Cardinality(Seen(c, kind, pos)) \in Nat
<1>1. IsFiniteSet(1 .. pos - 1)
  BY FS_Interval
<1>2. Seen(c, kind, pos) \subseteq 1 .. pos - 1
  BY DEF Seen
<1>3. IsFiniteSet(Seen(c, kind, pos))
  BY <1>1, <1>2, FS_Subset
<1> QED BY <1>3, FS_CardinalityType

LEMMA SeenNext ==
  ASSUME NEW c, NEW kind, NEW pos \in Nat \ {0}
  PROVE  /\ c.SeqNo[pos] = kind =>
              Cardinality(Seen(c, kind, pos + 1)) = Cardinality(Seen(c, kind, pos)) + 1
         /\ c.SeqNo[pos] # kind => Seen(c, kind, pos + 1) = Seen(c, kind, pos)
<1>1. CASE c.SeqNo[pos] = kind
  <2>1. Seen(c, kind, pos + 1) = Seen(c, kind, pos) \cup {pos}
    BY <1>1 DEF Seen
  <2>2. pos \notin Seen(c, kind, pos)
    BY DEF Seen
  <2>3. Cardinality(Seen(c, kind, pos) \cup {pos}) = Cardinality(Seen(c, kind, pos)) + 1
    BY <2>2, SeenFinite, FS_AddElement
  <2> QED BY <1>1, <2>1, <2>3
<1>2. CASE c.SeqNo[pos] # kind
  BY <1>2 DEF Seen
<1> QED BY <1>1, <1>2

(* A stage that follows begins with the commands of those before it done.      *)
LEMMA NextStage ==
  ASSUME NEW c \in Configs, NEW n \in Nat, NEW m \in 1 .. 4,
         m = 1 => n = 0,
         m = 2 => n = GitLen(c),
         m = 3 => n = GitLen(c) + BuildLen(c),
         m = 4 => n = Whole(c)
  PROVE  RunOK(c, Place(StageFrom(c, m), 0), n)
<1> DEFINE r == Place(StageFrom(c, m), 0)
<1>1. r.stage = StageFrom(c, m) /\ r.pos = 0 /\ r.i = 0 /\ r.j = 0 /\ r.k = 0
  BY DEF Place
<1>2. /\ GitLen(c) \in Nat /\ BuildLen(c) \in Nat /\ ImageLen(c) \in Nat
      /\ Whole(c) = GitLen(c) + BuildLen(c) + ImageLen(c) /\ Len(c.SeqNo) \in Nat
      /\ c.build \in BOOLEAN /\ c.image \in BOOLEAN
  BY ConfigTyped DEF Whole
<1>3. /\ c.git = "no" => GitLen(c) = 0
      /\ ~c.build => BuildLen(c) = 0
      /\ ~c.image => ImageLen(c) = 0
  BY DEF GitLen, BuildLen, ImageLen
<1>4. n <= Whole(c)
  BY <1>2
<1>5. Before(0) = 0
  BY DEF Before
<1> HIDE DEF r
<1>6. CASE StageFrom(c, m) = "git"
  <2>1. m = 1 /\ c.git # "no"
    BY <1>6 DEF StageFrom
  <2> QED BY <1>1, <1>4, <1>5, <1>6, <2>1 DEF RunOK, AtGit, r
<1>7. CASE StageFrom(c, m) = "build"
  <2>1. m <= 2 /\ c.build /\ (m = 1 => c.git = "no")
    BY <1>7 DEF StageFrom
  <2>2. n = GitLen(c) + Before(r.pos)
    BY <2>1, <1>1, <1>2, <1>3, <1>5
  <2>3. AtBuild(c, r, n)
    BY <2>1, <2>2, <1>1, <1>2, SeenFirst DEF AtBuild
  <2> QED BY <2>3, <1>1, <1>4, <1>7 DEF RunOK, r
<1>8. CASE StageFrom(c, m) = "image"
  <2>1. m <= 3 /\ c.image /\ (m = 1 => c.git = "no") /\ (m <= 2 => ~c.build)
    BY <1>8 DEF StageFrom
  <2>2. n = GitLen(c) + BuildLen(c) + Before(r.pos)
    BY <2>1, <1>1, <1>2, <1>3, <1>5
  <2>3. AtImage(c, r, n)
    BY <2>1, <2>2, <1>1 DEF AtImage
  <2> QED BY <2>3, <1>1, <1>4, <1>8 DEF RunOK, r
<1>9. CASE StageFrom(c, m) = "succeeded"
  <2>1. (m = 1 => c.git = "no") /\ (m <= 2 => ~c.build) /\ (m <= 3 => ~c.image)
    BY <1>9 DEF StageFrom
  <2>2. n = Whole(c)
    BY <2>1, <1>2, <1>3
  <2> QED BY <2>2, <1>1, <1>4, <1>9 DEF RunOK, r
<1> QED BY <1>6, <1>7, <1>8, <1>9 DEF StageFrom

LEMMA PlaceTyped ==
  ASSUME NEW stage \in {"begin", "git", "build", "image", "succeeded", "failed"}, NEW pos \in Nat
  PROVE  /\ Place(stage, pos) \in RunState
         /\ Place(stage, pos).stage = stage /\ Place(stage, pos).pos = pos
         /\ Place(stage, pos).i = 0 /\ Place(stage, pos).j = 0 /\ Place(stage, pos).k = 0
  BY DEF Place, RunState

LEMMA NextTyped ==
  ASSUME NEW c, NEW m
  PROVE  StageFrom(c, m) \in {"git", "build", "image", "succeeded"}
  BY DEF StageFrom

(* Where the stages of git and of the image go on after a command.             *)
Follows(c, r) == IF r.pos = 3 THEN Place(After(c, r.stage), 0) ELSE Place(r.stage, r.pos + 1)

LEMMA GitNth ==
  ASSUME NEW c \in Configs, NEW r \in RunState, NEW n \in Nat, RunOK(c, r, n),
         r.stage = "git", r.pos > 0
  PROVE  /\ r.pos \in 1 .. 3
         /\ n + 1 <= Whole(c) /\ Plan(c)[n + 1] = GitCommands[r.pos]
         /\ Follows(c, r) \in RunState /\ RunOK(c, Follows(c, r), n + 1)
<1>1. c.git # "no" /\ r.pos \in 1 .. 3 /\ n + 1 = r.pos
  BY DEF RunOK, AtGit, Before, RunState
<1>2. GitLen(c) = 3 /\ BuildLen(c) \in Nat /\ ImageLen(c) \in Nat /\ Whole(c) = 3 + BuildLen(c) + ImageLen(c)
  BY <1>1, ConfigTyped DEF GitLen, Whole
<1>3. n + 1 <= Whole(c) /\ Plan(c)[n + 1] = GitCommands[r.pos]
  <2>1. n + 1 <= Whole(c)
    BY <1>1, <1>2
  <2>2. Plan(c)[r.pos] = GitCommands[r.pos]
    BY <1>1, PlanAt
  <2> QED BY <2>1, <2>2, <1>1
<1>4. CASE r.pos = 3
  <2>1. Follows(c, r) = Place(StageFrom(c, 2), 0)
    BY <1>4 DEF Follows, After
  <2>2. RunOK(c, Place(StageFrom(c, 2), 0), n + 1)
    BY <1>1, <1>2, <1>4, NextStage
  <2> QED BY <1>1, <1>3, <2>1, <2>2, PlaceTyped, NextTyped
<1>5. CASE r.pos # 3
  <2> DEFINE s == Place("git", r.pos + 1)
  <2>1. Follows(c, r) = s
    BY <1>5 DEF Follows
  <2>2. s \in RunState /\ s.stage = "git" /\ s.pos = r.pos + 1
    BY <1>1, PlaceTyped
  <2> HIDE DEF s
  <2>3. AtGit(c, s, n + 1)
    BY <1>1, <1>5, <2>2 DEF AtGit, Before
  <2>4. RunOK(c, s, n + 1)
    BY <2>2, <2>3, <1>3 DEF RunOK
  <2> QED BY <1>1, <1>3, <2>1, <2>2, <2>4
<1> QED BY <1>4, <1>5

LEMMA ImageNth ==
  ASSUME NEW c \in Configs, NEW r \in RunState, NEW n \in Nat, RunOK(c, r, n),
         r.stage = "image", r.pos > 0
  PROVE  /\ r.pos \in 1 .. 3
         /\ n + 1 <= Whole(c) /\ Plan(c)[n + 1] = ImageCommands[r.pos]
         /\ Follows(c, r) \in RunState /\ RunOK(c, Follows(c, r), n + 1)
<1>1. c.image /\ r.pos \in 1 .. 3 /\ n = GitLen(c) + BuildLen(c) + r.pos - 1
  <2>1. GitLen(c) \in Nat /\ BuildLen(c) \in Nat
    BY ConfigTyped
  <2> QED BY <2>1 DEF RunOK, AtImage, Before, RunState
<1>2. ImageLen(c) = 3 /\ GitLen(c) \in Nat /\ BuildLen(c) \in Nat /\ Whole(c) = GitLen(c) + BuildLen(c) + 3
  BY <1>1, ConfigTyped DEF ImageLen, Whole
<1>3. n + 1 <= Whole(c)
  BY <1>1, <1>2
<1>4. Plan(c)[n + 1] = ImageCommands[r.pos]
  <2>1. n + 1 = GitLen(c) + BuildLen(c) + r.pos
    BY <1>1, <1>2
  <2> QED BY <2>1, <1>1, PlanAt
<1>5. CASE r.pos = 3
  <2>1. Follows(c, r) = Place(StageFrom(c, 4), 0)
    BY <1>5 DEF Follows, After
  <2>2. n + 1 = Whole(c)
    BY <1>1, <1>2, <1>5
  <2>3. RunOK(c, Place(StageFrom(c, 4), 0), n + 1)
    BY <2>2, NextStage
  <2> QED BY <1>1, <1>3, <1>4, <2>1, <2>3, PlaceTyped, NextTyped
<1>6. CASE r.pos # 3
  <2> DEFINE s == Place("image", r.pos + 1)
  <2>1. Follows(c, r) = s
    BY <1>6 DEF Follows
  <2>2. s \in RunState /\ s.stage = "image" /\ s.pos = r.pos + 1
    BY <1>1, PlaceTyped
  <2> HIDE DEF s
  <2>3. AtImage(c, s, n + 1)
    BY <1>1, <1>2, <1>6, <2>2 DEF AtImage, Before
  <2>4. RunOK(c, s, n + 1)
    BY <2>2, <2>3, <1>3 DEF RunOK
  <2> QED BY <1>1, <1>3, <1>4, <2>1, <2>2, <2>4
<1> QED BY <1>5, <1>6

(* The index into the list of a kind is the number of times the kind was seen, *)
(* and the next command of the loop is the one the plan has.                   *)
LEMMA BuildNth ==
  ASSUME NEW c \in Configs, NEW r \in RunState, NEW n \in Nat, RunOK(c, r, n),
         r.stage = "build", r.pos \in 1 .. Len(c.SeqNo),
         c.SeqNo[r.pos] \in {"ant", "mvn", "shell"}
  PROVE  /\ Index(r, c.SeqNo[r.pos]) = Cardinality(Seen(c, c.SeqNo[r.pos], r.pos))
         /\ n + 1 <= Whole(c)
         /\ Plan(c)[n + 1] = <<c.SeqNo[r.pos], Index(r, c.SeqNo[r.pos])>>
         /\ RunOK(c, [Counted(r, c.SeqNo[r.pos]) EXCEPT !.pos = @ + 1], n + 1)
<1> DEFINE kind == c.SeqNo[r.pos]
           s == [Counted(r, kind) EXCEPT !.pos = @ + 1]
<1>1. AtBuild(c, r, n) /\ n = GitLen(c) + r.pos - 1
  <2>0. GitLen(c) \in Nat /\ Len(c.SeqNo) \in Nat
    BY ConfigTyped
  <2>1. GitLen(c) \in Nat /\ Len(c.SeqNo) \in Nat /\ r.pos \in Nat /\ r.pos # 0
    BY <2>0
  <2>2. AtBuild(c, r, n)
    BY DEF RunOK
  <2>3. n = GitLen(c) + Before(r.pos) /\ Before(r.pos) = r.pos - 1
    BY <2>1, <2>2 DEF AtBuild, Before
  <2> QED BY <2>1, <2>2, <2>3
<1>2. BuildLen(c) = Len(c.SeqNo) /\ GitLen(c) \in Nat /\ Len(c.SeqNo) \in Nat /\ ImageLen(c) \in Nat
  BY <1>1, ConfigTyped DEF AtBuild, BuildLen
<1>3. n + 1 <= Whole(c)
  BY <1>1, <1>2, SMTT(20) DEF Whole
<1>4. Index(r, kind) = Cardinality(Seen(c, kind, r.pos))
  BY <1>1 DEF Index, AtBuild
<1>5. Plan(c)[n + 1] = <<kind, Index(r, kind)>>
  <2>1. n + 1 = GitLen(c) + r.pos
    BY <1>1, <1>2
  <2>2. Plan(c)[n + 1] = <<kind, Earlier(c, r.pos)>>
    BY <2>1, <1>1, PlanAt, SMTT(20) DEF AtBuild
  <2>3. Earlier(c, r.pos) = Cardinality(Seen(c, kind, r.pos))
    BY DEF Earlier, Seen
  <2> QED BY <2>2, <2>3, <1>4
<1>6. /\ s.stage = "build" /\ s.pos = r.pos + 1
      /\ s.i = IF kind = "ant" THEN r.i + 1 ELSE r.i
      /\ s.j = IF kind = "mvn" THEN r.j + 1 ELSE r.j
      /\ s.k = IF kind = "shell" THEN r.k + 1 ELSE r.k
  BY DEF Counted, RunState
<1> HIDE DEF s
<1>7. /\ s.i = Cardinality(Seen(c, "ant", r.pos + 1))
      /\ s.j = Cardinality(Seen(c, "mvn", r.pos + 1))
      /\ s.k = Cardinality(Seen(c, "shell", r.pos + 1))
  <2>1. r.pos \in Nat \ {0}
    BY <1>2
  <2>2. CASE kind = "ant"
    BY <2>1, <2>2, <1>1, <1>6, SeenNext DEF AtBuild
  <2>3. CASE kind = "mvn"
    BY <2>1, <2>3, <1>1, <1>6, SeenNext DEF AtBuild
  <2>4. CASE kind = "shell"
    BY <2>1, <2>4, <1>1, <1>6, SeenNext DEF AtBuild
  <2> QED BY <2>2, <2>3, <2>4
<1>8. AtBuild(c, s, n + 1)
  <2>1. r.pos \in Nat /\ r.pos # 0 /\ r.pos <= Len(c.SeqNo) /\ s.pos = r.pos + 1
    BY <1>2, <1>6
  <2>2. s.pos \in 0 .. Len(c.SeqNo) + 1 /\ Before(s.pos) = r.pos
    BY <2>1, <1>2 DEF Before
  <2>3. c.build
    BY <1>1 DEF AtBuild
  <2>4. n + 1 = GitLen(c) + Before(s.pos)
    BY <2>1, <2>2, <1>1, <1>2
  <2> QED BY <2>2, <2>3, <2>4, <1>6, <1>7 DEF AtBuild
<1>9. RunOK(c, s, n + 1)
  BY <1>3, <1>6, <1>8 DEF RunOK
<1> QED BY <1>3, <1>4, <1>5, <1>9 DEF s

-----------------------------------------------------------------------------
(* The inductive invariant: with the properties themselves, where an execution *)
(* is tells what it has run and what its counters count, and whoever chose the *)
(* directory last, and is in a stage that has entered its own, is there.       *)
Working(r) == r.stage \in {"git", "build", "image"} /\ r.pos > 0

InDir(e) == Working(run[e]) /\ by = e => cwd = e

IInv ==
  /\ TypeOK
  /\ \A e \in Runs : Fits(e) /\ InDir(e)
  /\ DirectoryUnlessDisturbed
  /\ PanicOnlyIfShort

(* What an operation of e has to establish. *)
Counters(c, r) == r.i <= Len(c.ant) /\ r.j <= Len(c.mvn) /\ r.k <= Len(c.Cmd)

Good(e) ==
  /\ Counters(cfg[e], run[e])
  /\ last[e].count \in Nat
  /\ Fits(e) /\ InDir(e)
  /\ last[e].count > 0 /\ last[e].by = e => last[e].dir = e

(* What it leaves alone: the other executions, and the process if it runs on.  *)
Kept(e) ==
  /\ cfg' = cfg /\ run' \in [Runs -> RunState] /\ DOMAIN last' = Runs
  /\ \A f \in Runs : f # e => run'[f] = run[f] /\ last'[f] = last[f]
  /\ \/ cwd' = cwd /\ by' = by
     \/ cwd' \in {"namespace", e} /\ by' = e
  /\ jdks' = jdks

LEMMA GoodFromInv ==
  ASSUME IInv, NEW e \in Runs
  PROVE  /\ Good(e) /\ cfg[e] \in Configs /\ run[e] \in RunState
         /\ run \in [Runs -> RunState] /\ DOMAIN last = Runs
         /\ by \in Runs \cup {None}
  BY DEF IInv, TypeOK, Good, Counters, DirectoryUnlessDisturbed

LEMMA Kept_Inv ==
  ASSUME IInv, NEW e \in Runs, Kept(e), Good(e)',
         server' = server \/ (server' = "fatal" /\ Short(cfg[e]))
  PROVE  IInv'
<1>1. cfg' = cfg /\ cfg \in [Runs -> Configs] /\ server' \in {"up", "fatal"}
  BY DEF Kept, IInv, TypeOK
<1>2. \A f \in Runs : Good(f)'
  <2> SUFFICES ASSUME NEW f \in Runs, f # e PROVE Good(f)'
    OBVIOUS
  <2>1. Good(f)
    BY GoodFromInv
  <2>2. run'[f] = run[f] /\ last'[f] = last[f] /\ cfg'[f] = cfg[f]
    BY DEF Kept
  <2>3. by' = f => by = f /\ cwd' = cwd
    BY DEF Kept
  <2>4. Counters(cfg[f], run[f])' /\ (last[f].count \in Nat)' /\ Fits(f)'
    BY <2>1, <2>2 DEF Good, Fits
  <2>5. InDir(f)'
    BY <2>1, <2>2, <2>3 DEF Good, InDir
  <2>6. (last[f].count > 0 /\ last[f].by = f => last[f].dir = f)'
    BY <2>1, <2>2 DEF Good
  <2> QED BY <2>4, <2>5, <2>6 DEF Good
<1>3. TypeOK'
  <2>1. cwd' \in {"start", "namespace"} \cup Runs /\ by' \in Runs \cup {None} /\ jdks' \subseteq Versions
    BY DEF Kept, IInv, TypeOK
  <2>2. run' \in [Runs -> RunState] /\ DOMAIN last' = Runs
    BY DEF Kept
  <2>3. \A f \in Runs : Counters(cfg'[f], run'[f]) /\ last'[f].count \in Nat
    BY <1>2 DEF Good
  <2> QED BY <1>1, <2>1, <2>2, <2>3 DEF TypeOK, Counters
<1>4. DirectoryUnlessDisturbed' /\ \A f \in Runs : Fits(f)' /\ InDir(f)'
  BY <1>2 DEF Good, DirectoryUnlessDisturbed
<1>5. PanicOnlyIfShort'
  BY <1>1 DEF IInv, PanicOnlyIfShort
<1> QED BY <1>3, <1>4, <1>5 DEF IInv

LEMMA GoesTo ==
  ASSUME NEW e \in Runs, NEW r \in RunState, run \in [Runs -> RunState], Goes(e, r)
  PROVE  run' \in [Runs -> RunState] /\ run'[e] = r /\ \A f \in Runs : f # e => run'[f] = run[f]
  BY DEF Goes

LEMMA RanAs ==
  ASSUME NEW e \in Runs, NEW command, DOMAIN last = Runs, Ran(e, command)
  PROVE  /\ DOMAIN last' = Runs
         /\ last'[e].count = last[e].count + 1 /\ last'[e].command = command
         /\ last'[e].dir = cwd /\ last'[e].by = by
         /\ \A f \in Runs : f # e => last'[f] = last[f]
  BY DEF Ran

-----------------------------------------------------------------------------
(* An execution that moves to r without running a command.                     *)
LEMMA MovesGood ==
  ASSUME IInv, NEW e \in Runs, NEW r \in RunState, Goes(e, r),
         Counters(cfg[e], r), RunOK(cfg[e], r, last[e].count),
         cfg' = cfg, jdks' = jdks, last' = last,
         \/ cwd' = cwd /\ by' = by /\ (Working(r) => Working(run[e]))
         \/ cwd' \in {"namespace", e} /\ by' = e /\ (Working(r) => cwd' = e)
  PROVE  Kept(e) /\ Good(e)'
<1>1. Good(e) /\ run \in [Runs -> RunState] /\ DOMAIN last = Runs
  BY GoodFromInv
<1>2. run' \in [Runs -> RunState] /\ run'[e] = r /\ \A f \in Runs : f # e => run'[f] = run[f]
  BY <1>1, GoesTo
<1>3. Kept(e)
  BY <1>1, <1>2 DEF Kept
<1>4. InDir(e)'
  BY <1>1, <1>2 DEF InDir, Good
<1>5. Counters(cfg[e], run[e])' /\ Fits(e)'
  BY <1>1, <1>2 DEF Good, Fits
<1>6. (last[e].count \in Nat)' /\ (last[e].count > 0 /\ last[e].by = e => last[e].dir = e)'
  BY <1>1 DEF Good
<1> QED BY <1>3, <1>4, <1>5, <1>6 DEF Good

(* One that runs the next command of its plan and moves to r.                  *)
LEMMA RunsGood ==
  ASSUME IInv, NEW e \in Runs, NEW r \in RunState, NEW command, Ran(e, command), Goes(e, r),
         Counters(cfg[e], r), RunOK(cfg[e], r, last[e].count + 1),
         Working(run[e]), command = Plan(cfg[e])[last[e].count + 1],
         cfg' = cfg, jdks' = jdks, cwd' = cwd, by' = by
  PROVE  Kept(e) /\ Good(e)'
<1>1. Good(e) /\ run \in [Runs -> RunState] /\ DOMAIN last = Runs
  BY GoodFromInv
<1>2. run' \in [Runs -> RunState] /\ run'[e] = r /\ \A f \in Runs : f # e => run'[f] = run[f]
  BY <1>1, GoesTo
<1>3. /\ DOMAIN last' = Runs
      /\ last'[e].count = last[e].count + 1 /\ last'[e].command = command
      /\ last'[e].dir = cwd /\ last'[e].by = by
      /\ \A f \in Runs : f # e => last'[f] = last[f]
  BY <1>1, RanAs
<1>4. Kept(e)
  BY <1>2, <1>3 DEF Kept
<1>5. by = e => cwd = e
  BY <1>1 DEF Good, InDir
<1>6. InDir(e)'
  BY <1>5 DEF InDir
<1>7. Counters(cfg[e], run[e])'
  BY <1>2
<1>8. Fits(e)'
  <2>1. RunOK(cfg'[e], run'[e], last'[e].count)
    BY <1>2, <1>3
  <2>2. CommandOK(cfg'[e], last'[e])
    BY <1>3 DEF CommandOK
  <2> QED BY <2>1, <2>2 DEF Fits
<1>9. (last[e].count \in Nat)' /\ (last[e].count > 0 /\ last[e].by = e => last[e].dir = e)'
  <2>1. last'[e].count \in Nat
    BY <1>1, <1>3 DEF Good
  <2>2. last'[e].by = e => last'[e].dir = e
    BY <1>3, <1>5
  <2> QED BY <2>1, <2>2
<1> QED BY <1>4, <1>6, <1>7, <1>8, <1>9 DEF Good

LEMMA FailedPlace ==
  ASSUME NEW c \in Configs, NEW n \in Nat, n <= Whole(c)
  PROVE  LET r == Place("failed", 0) IN r \in RunState /\ Counters(c, r) /\ RunOK(c, r, n) /\ ~Working(r)
<1> DEFINE r == Place("failed", 0)
<1>1. r \in RunState /\ r.stage = "failed" /\ r.pos = 0 /\ r.i = 0 /\ r.j = 0 /\ r.k = 0
  BY PlaceTyped
<1> HIDE DEF r
<1>2. Len(c.ant) \in Nat /\ Len(c.mvn) \in Nat /\ Len(c.Cmd) \in Nat
  BY ConfigTyped
<1>3. Counters(c, r)
  BY <1>1, <1>2 DEF Counters
<1>4. RunOK(c, r, n) /\ ~Working(r)
  BY <1>1 DEF RunOK, Working
<1> QED BY <1>1, <1>3, <1>4 DEF r

(* The beginning of a stage, which has no counters yet.                        *)
LEMMA FreshPlace ==
  ASSUME NEW c \in Configs, NEW stage \in {"begin", "git", "build", "image", "succeeded", "failed"}, NEW pos \in Nat
  PROVE  Counters(c, Place(stage, pos)) /\ (pos = 0 => ~Working(Place(stage, pos)))
<1>1. Len(c.ant) \in Nat /\ Len(c.mvn) \in Nat /\ Len(c.Cmd) \in Nat
  BY ConfigTyped
<1>2. Place(stage, pos).pos = pos /\ Place(stage, pos).i = 0 /\ Place(stage, pos).j = 0 /\ Place(stage, pos).k = 0
  BY PlaceTyped
<1> QED BY <1>1, <1>2 DEF Counters, Working

LEMMA GivesUpGood ==
  ASSUME IInv, NEW e \in Runs, GivesUp(e),
         cfg' = cfg, jdks' = jdks, last' = last, cwd' = cwd, by' = by
  PROVE  Kept(e) /\ Good(e)'
<1> DEFINE r == Place("failed", 0)
<1>1. last[e].count \in Nat /\ last[e].count <= Whole(cfg[e]) /\ cfg[e] \in Configs
  BY GoodFromInv DEF Good, Fits, RunOK
<1>2. r \in RunState /\ Counters(cfg[e], r) /\ RunOK(cfg[e], r, last[e].count) /\ ~Working(r)
  BY <1>1, FailedPlace
<1>3. Goes(e, r)
  BY DEF GivesUp
<1> HIDE DEF r
<1> QED BY <1>2, <1>3, MovesGood

LEMMA ExecuteGood ==
  ASSUME IInv, NEW e \in Runs, NEW r \in RunState, NEW command, Execute(e, command, r),
         Counters(cfg[e], r), RunOK(cfg[e], r, last[e].count + 1),
         Working(run[e]), command = Plan(cfg[e])[last[e].count + 1],
         cfg' = cfg, jdks' = jdks, cwd' = cwd, by' = by
  PROVE  Kept(e) /\ Good(e)'
<1>1. CASE Goes(e, r)
  BY <1>1, RunsGood DEF Execute
<1>2. CASE GivesUp(e)
  <2> DEFINE s == Place("failed", 0)
  <2>1. last[e].count + 1 \in Nat /\ last[e].count + 1 <= Whole(cfg[e]) /\ cfg[e] \in Configs
    BY GoodFromInv DEF Good, RunOK
  <2>2. s \in RunState /\ Counters(cfg[e], s) /\ RunOK(cfg[e], s, last[e].count + 1)
    BY <2>1, FailedPlace
  <2>3. Goes(e, s)
    BY <1>2 DEF GivesUp
  <2> HIDE DEF s
  <2> QED BY <2>2, <2>3, RunsGood DEF Execute
<1> QED BY <1>1, <1>2 DEF Execute

-----------------------------------------------------------------------------
(* The operations. *)
LEMMA Begin_Inv ==
  ASSUME IInv, NEW e \in Runs, Begin(e)
  PROVE  IInv'
<1> DEFINE r == Place(StageFrom(cfg[e], 1), 0)
<1>1. cfg[e] \in Configs /\ last[e].count = 0
  BY GoodFromInv DEF Good, Fits, RunOK, Begin
<1>2. r \in RunState /\ Counters(cfg[e], r) /\ ~Working(r)
  BY <1>1, NextTyped, PlaceTyped, FreshPlace
<1>3. RunOK(cfg[e], r, last[e].count)
  BY <1>1, NextStage
<1>4. CASE cwd' = "namespace" /\ by' = e /\ Goes(e, r)
  <2> HIDE DEF r
  <2>1. Kept(e) /\ Good(e)'
    BY <1>2, <1>3, <1>4, MovesGood DEF Begin
  <2> QED BY <2>1, Kept_Inv DEF Begin
<1>5. CASE GivesUp(e) /\ UNCHANGED <<cwd, by>>
  <2>1. Kept(e) /\ Good(e)'
    BY <1>5, GivesUpGood DEF Begin
  <2> QED BY <2>1, Kept_Inv DEF Begin
<1> QED BY <1>4, <1>5 DEF Begin, Chdir

LEMMA EndOfLoop_Inv ==
  ASSUME IInv, NEW e \in Runs, EndOfLoop(e)
  PROVE  IInv'
<1> DEFINE c == cfg[e]
           r == Place(StageFrom(c, 3), 0)
<1>1. c \in Configs /\ last[e].count \in Nat /\ AtBuild(c, run[e], last[e].count)
  BY GoodFromInv DEF Good, Fits, RunOK, EndOfLoop
<1>2. r \in RunState /\ Counters(c, r) /\ ~Working(r)
  BY <1>1, NextTyped, PlaceTyped, FreshPlace
<1>3. last[e].count = GitLen(c) + BuildLen(c)
  <2>1. Len(c.SeqNo) \in Nat /\ BuildLen(c) = Len(c.SeqNo)
    BY <1>1, ConfigTyped DEF AtBuild, BuildLen
  <2>2. run[e].pos = Len(c.SeqNo) + 1
    BY <1>1, <2>1 DEF AtBuild, EndOfLoop
  <2>3. Before(run[e].pos) = Len(c.SeqNo)
    BY <2>1, <2>2 DEF Before
  <2> QED BY <1>1, <2>1, <2>3 DEF AtBuild
<1>4. RunOK(c, r, last[e].count)
  BY <1>1, <1>3, NextStage
<1>5. Goes(e, r)
  BY DEF EndOfLoop, After
<1> HIDE DEF r
<1>6. Kept(e) /\ Good(e)'
  BY <1>2, <1>4, <1>5, MovesGood DEF EndOfLoop
<1> QED BY <1>6, Kept_Inv DEF EndOfLoop

LEMMA BadData_Inv ==
  ASSUME IInv, NEW e \in Runs, BadData(e)
  PROVE  IInv'
<1>1. Kept(e) /\ Good(e)'
  BY GivesUpGood DEF BadData
<1> QED BY <1>1, Kept_Inv DEF BadData

(* The first position of a stage has the same commands before it as pos 0.     *)
LEMMA EnteredOK ==
  ASSUME NEW c \in Configs, NEW r \in RunState, NEW n \in Nat, RunOK(c, r, n),
         r.stage \in {"git", "build", "image"}, r.pos = 0
  PROVE  RunOK(c, Place(r.stage, 1), n)
<1> DEFINE s == Place(r.stage, 1)
<1>1. s \in RunState /\ s.stage = r.stage /\ s.pos = 1 /\ s.i = 0 /\ s.j = 0 /\ s.k = 0
  BY PlaceTyped
<1>2. Before(0) = 0 /\ Before(1) = 0
  BY DEF Before
<1>3. Len(c.SeqNo) \in Nat
  BY ConfigTyped
<1> HIDE DEF s
<1>4. r.stage = "git" => AtGit(c, s, n)
  BY <1>1, <1>2 DEF AtGit, RunOK
<1>5. r.stage = "build" => AtBuild(c, s, n)
  <2> SUFFICES ASSUME r.stage = "build" PROVE AtBuild(c, s, n)
    OBVIOUS
  <2>1. \A kind : Cardinality(Seen(c, kind, 1)) = 0
    BY SeenFirst
  <2>2. c.build /\ n = GitLen(c) + Before(1) /\ 1 \in 0 .. Len(c.SeqNo) + 1
    BY <1>2, <1>3 DEF AtBuild, RunOK
  <2> QED BY <1>1, <2>1, <2>2 DEF AtBuild
<1>6. r.stage = "image" => AtImage(c, s, n)
  BY <1>1, <1>2 DEF AtImage, RunOK
<1> QED BY <1>1, <1>4, <1>5, <1>6 DEF RunOK, s

LEMMA Enter_Inv ==
  ASSUME IInv, NEW e \in Runs, Enter(e)
  PROVE  IInv'
<1> DEFINE r == Place(run[e].stage, 1)
<1>1. cfg[e] \in Configs /\ run[e] \in RunState /\ last[e].count \in Nat /\ RunOK(cfg[e], run[e], last[e].count)
  BY GoodFromInv DEF Good, Fits
<1>2. run[e].stage \in {"git", "build", "image"} /\ run[e].pos = 0
  BY DEF Enter
<1>3. r \in RunState /\ Counters(cfg[e], r)
  BY <1>1, <1>2, PlaceTyped, FreshPlace
<1>4. RunOK(cfg[e], r, last[e].count)
  BY <1>1, <1>2, EnteredOK
<1>5. CASE cwd' = e /\ by' = e /\ Goes(e, r)
  <2> HIDE DEF r
  <2>1. Kept(e) /\ Good(e)'
    BY <1>3, <1>4, <1>5, MovesGood DEF Enter
  <2> QED BY <2>1, Kept_Inv DEF Enter
<1>6. CASE GivesUp(e) /\ UNCHANGED <<cwd, by>>
  <2>1. Kept(e) /\ Good(e)'
    BY <1>6, GivesUpGood DEF Enter
  <2> QED BY <2>1, Kept_Inv DEF Enter
<1> QED BY <1>5, <1>6 DEF Enter, Chdir

(* A panic changes nothing but the process.                                    *)
LEMMA StaysGood ==
  ASSUME IInv, NEW e \in Runs, UNCHANGED <<cfg, cwd, by, jdks, run, last>>
  PROVE  Kept(e) /\ Good(e)'
<1>1. Good(e) /\ run \in [Runs -> RunState] /\ DOMAIN last = Runs
  BY GoodFromInv
<1>2. Kept(e)
  BY <1>1 DEF Kept
<1>3. Good(e)'
  BY <1>1 DEF Good, Fits, InDir
<1> QED BY <1>2, <1>3

LEMMA FollowsFresh ==
  ASSUME NEW c \in Configs, NEW r \in RunState, r.stage \in {"git", "image"}
  PROVE  Counters(c, Follows(c, r))
<1>1. CASE r.pos = 3
  <2>1. After(c, r.stage) \in {"git", "build", "image", "succeeded"}
    BY NextTyped DEF After
  <2> QED BY <1>1, <2>1, FreshPlace DEF Follows
<1>2. CASE r.pos # 3
  <2>1. r.pos + 1 \in Nat
    BY DEF RunState
  <2> QED BY <1>2, <2>1, FreshPlace DEF Follows
<1> QED BY <1>1, <1>2

LEMMA GitCommand_Inv ==
  ASSUME IInv, NEW e \in Runs, GitCommand(e)
  PROVE  IInv'
<1> DEFINE c == cfg[e]
           r == Follows(c, run[e])
           n == last[e].count
<1>1. c \in Configs /\ run[e] \in RunState /\ n \in Nat /\ RunOK(c, run[e], n)
  BY GoodFromInv DEF Good, Fits
<1>2. run[e].stage = "git" /\ run[e].pos > 0 /\ Working(run[e])
  BY DEF GitCommand, Working
<1>3. CASE Panics /\ UNCHANGED last /\ c.git = "without repo"
  <2>1. Kept(e) /\ Good(e)'
    BY <1>3, StaysGood DEF GitCommand, Panics
  <2>2. server' = "fatal" /\ Short(c)
    BY <1>3 DEF Panics, Short
  <2> QED BY <2>1, <2>2, Kept_Inv
<1>4. CASE Execute(e, GitCommands[run[e].pos], NextIn(e, GitCommands)) /\ UNCHANGED server
  <2>1. NextIn(e, GitCommands) = r
    BY DEF NextIn, Follows, GitCommands
  <2>2. r \in RunState /\ RunOK(c, r, n + 1) /\ Plan(c)[n + 1] = GitCommands[run[e].pos]
    BY <1>1, <1>2, GitNth
  <2>3. Counters(c, r)
    BY <1>1, <1>2, FollowsFresh
  <2> HIDE DEF r
  <2>4. Kept(e) /\ Good(e)'
    BY <1>2, <1>4, <2>1, <2>2, <2>3, ExecuteGood DEF GitCommand
  <2> QED BY <1>4, <2>4, Kept_Inv
<1> QED BY <1>3, <1>4 DEF GitCommand

LEMMA ImageCommand_Inv ==
  ASSUME IInv, NEW e \in Runs, ImageCommand(e)
  PROVE  IInv'
<1> DEFINE c == cfg[e]
           r == Follows(c, run[e])
           n == last[e].count
<1>1. c \in Configs /\ run[e] \in RunState /\ n \in Nat /\ RunOK(c, run[e], n)
  BY GoodFromInv DEF Good, Fits
<1>2. run[e].stage = "image" /\ run[e].pos > 0 /\ Working(run[e])
  BY DEF ImageCommand, Working
<1>3. NextIn(e, ImageCommands) = r
  BY DEF NextIn, Follows, ImageCommands
<1>4. r \in RunState /\ RunOK(c, r, n + 1) /\ Plan(c)[n + 1] = ImageCommands[run[e].pos]
  BY <1>1, <1>2, ImageNth
<1>5. Counters(c, r)
  BY <1>1, <1>2, FollowsFresh
<1> HIDE DEF r
<1>6. Kept(e) /\ Good(e)'
  BY <1>2, <1>3, <1>4, <1>5, ExecuteGood DEF ImageCommand
<1> QED BY <1>6, Kept_Inv DEF ImageCommand

(* An index that is out of range is that of a list with too few entries.       *)
LEMMA NoSuchEntry_Inv ==
  ASSUME IInv, NEW e \in Runs, NoSuchEntry(e)
  PROVE  IInv'
<1> DEFINE c == cfg[e]
           r == run[e]
           kind == c.SeqNo[r.pos]
           all == {p \in DOMAIN c.SeqNo : c.SeqNo[p] = kind}
<1>1. c \in Configs /\ r \in RunState /\ last[e].count \in Nat /\ RunOK(c, r, last[e].count)
  BY GoodFromInv DEF Good, Fits
<1>2. r.stage = "build" /\ r.pos \in 1 .. Len(c.SeqNo) /\ kind \in {"ant", "mvn", "shell"}
      /\ Index(r, kind) >= Len(Entries(c, kind))
  BY DEF NoSuchEntry, InLoop, Kind, OutOfRange
<1>3. Index(r, kind) = Cardinality(Seen(c, kind, r.pos))
  BY <1>1, <1>2, BuildNth
<1>4. Len(c.SeqNo) \in Nat /\ DOMAIN c.SeqNo = 1 .. Len(c.SeqNo) /\ r.pos \in Nat \ {0}
  <2>1. c.SeqNo \in Seq(Kinds) /\ Len(c.SeqNo) \in Nat
    BY <1>1, ConfigTyped
  <2> QED BY <2>1, <1>2
<1>5. Len(Entries(c, kind)) \in Nat
  BY <1>1, <1>2, ConfigTyped DEF Entries
<1>6. IsFiniteSet(all)
  <2> DEFINE m == Len(c.SeqNo)
  <2>1. all \subseteq 1 .. m /\ m \in Int
    BY <1>4
  <2> HIDE DEF m, all
  <2>2. IsFiniteSet(1 .. m)
    BY <2>1, FS_Interval
  <2> QED BY <2>1, <2>2, FS_Subset
<1>7. Seen(c, kind, r.pos + 1) \subseteq all
  BY <1>2, <1>4 DEF Seen
<1>8. Cardinality(Seen(c, kind, r.pos + 1)) <= Cardinality(all) /\ Cardinality(all) \in Nat
  BY <1>6, <1>7, FS_Subset, FS_CardinalityType
<1>9. Cardinality(Seen(c, kind, r.pos + 1)) = Cardinality(Seen(c, kind, r.pos)) + 1
  BY <1>4, SeenNext
<1>10. Cardinality(Seen(c, kind, r.pos)) \in Nat
  BY <1>4, SeenFinite
<1>11. Cardinality(all) > Len(Entries(c, kind))
  <2> DEFINE x == Cardinality(all)
             y == Cardinality(Seen(c, kind, r.pos))
  <2>1. y + 1 <= x /\ y >= Len(Entries(c, kind)) /\ x \in Nat /\ y \in Nat
    BY <1>2, <1>3, <1>8, <1>9, <1>10
  <2> HIDE DEF x, y
  <2>2. x > Len(Entries(c, kind))
    BY <2>1, <1>5
  <2> QED BY <2>2 DEF x
<1>12. Short(c)
  BY <1>2, <1>11 DEF Short
<1>13. Kept(e) /\ Good(e)'
  BY StaysGood DEF NoSuchEntry, Panics
<1> QED BY <1>12, <1>13, Kept_Inv DEF NoSuchEntry, Panics

LEMMA CountedTyped ==
  ASSUME NEW c \in Configs, NEW r \in RunState, NEW kind \in {"ant", "mvn", "shell"},
         Counters(c, r), ~(Index(r, kind) >= Len(Entries(c, kind)))
  PROVE  LET s == [Counted(r, kind) EXCEPT !.pos = @ + 1] IN s \in RunState /\ Counters(c, s)
<1>1. Len(c.ant) \in Nat /\ Len(c.mvn) \in Nat /\ Len(c.Cmd) \in Nat
  BY ConfigTyped
<1>2. CASE kind = "ant"
  <2> DEFINE s == [r EXCEPT !.i = @ + 1, !.pos = @ + 1]
  <2>1. [Counted(r, kind) EXCEPT !.pos = @ + 1] = s
    BY <1>2 DEF Counted, RunState
  <2>2. r.i < Len(c.ant)
    BY <1>1, <1>2 DEF Index, Entries, RunState
  <2>3. s \in RunState
    <3> DEFINE x == r.i + 1
               p == r.pos + 1
    <3>1. x \in Nat /\ p \in Nat
      BY DEF RunState
    <3>2. s = [r EXCEPT !.i = x, !.pos = p]
      BY DEF RunState
    <3> HIDE DEF x, p
    <3>3. [r EXCEPT !.i = x, !.pos = p] \in RunState
      BY <3>1 DEF RunState
    <3> QED BY <3>2, <3>3
  <2>4. Counters(c, s)
    BY <1>1, <2>2 DEF Counters, RunState
  <2> QED BY <2>1, <2>3, <2>4
<1>3. CASE kind = "mvn"
  <2> DEFINE s == [r EXCEPT !.j = @ + 1, !.pos = @ + 1]
  <2>1. [Counted(r, kind) EXCEPT !.pos = @ + 1] = s
    BY <1>3 DEF Counted, RunState
  <2>2. r.j < Len(c.mvn)
    BY <1>1, <1>3 DEF Index, Entries, RunState
  <2>3. s \in RunState
    <3> DEFINE x == r.j + 1
               p == r.pos + 1
    <3>1. x \in Nat /\ p \in Nat
      BY DEF RunState
    <3>2. s = [r EXCEPT !.j = x, !.pos = p]
      BY DEF RunState
    <3> HIDE DEF x, p
    <3>3. [r EXCEPT !.j = x, !.pos = p] \in RunState
      BY <3>1 DEF RunState
    <3> QED BY <3>2, <3>3
  <2>4. Counters(c, s)
    BY <1>1, <2>2 DEF Counters, RunState
  <2> QED BY <2>1, <2>3, <2>4
<1>4. CASE kind = "shell"
  <2> DEFINE s == [r EXCEPT !.k = @ + 1, !.pos = @ + 1]
  <2>1. [Counted(r, kind) EXCEPT !.pos = @ + 1] = s
    BY <1>4 DEF Counted, RunState
  <2>2. r.k < Len(c.Cmd)
    BY <1>1, <1>4 DEF Index, Entries, RunState
  <2>3. s \in RunState
    <3> DEFINE x == r.k + 1
               p == r.pos + 1
    <3>1. x \in Nat /\ p \in Nat
      BY DEF RunState
    <3>2. s = [r EXCEPT !.k = x, !.pos = p]
      BY DEF RunState
    <3> HIDE DEF x, p
    <3>3. [r EXCEPT !.k = x, !.pos = p] \in RunState
      BY <3>1 DEF RunState
    <3> QED BY <3>2, <3>3
  <2>4. Counters(c, s)
    BY <1>1, <2>2 DEF Counters, RunState
  <2> QED BY <2>1, <2>3, <2>4
<1> QED BY <1>2, <1>3, <1>4

LEMMA BuildCommand_Inv ==
  ASSUME IInv, NEW e \in Runs, BuildCommand(e)
  PROVE  IInv'
<1> DEFINE c == cfg[e]
           r == run[e]
           n == last[e].count
           kind == c.SeqNo[r.pos]
           s == [Counted(r, kind) EXCEPT !.pos = @ + 1]
<1>1. c \in Configs /\ r \in RunState /\ n \in Nat /\ RunOK(c, r, n) /\ Counters(c, r)
  BY GoodFromInv DEF Good, Fits
<1>2. r.stage = "build" /\ r.pos \in 1 .. Len(c.SeqNo) /\ kind \in {"ant", "mvn", "shell"}
      /\ ~(Index(r, kind) >= Len(Entries(c, kind)))
  BY DEF BuildCommand, InLoop, Kind, OutOfRange
<1>3. Working(r)
  BY <1>1, <1>2 DEF Working, RunState
<1>4. RunOK(c, s, n + 1) /\ Plan(c)[n + 1] = <<kind, Index(r, kind)>>
  BY <1>1, <1>2, BuildNth
<1>5. s \in RunState /\ Counters(c, s)
  BY <1>1, <1>2, CountedTyped
<1>6. CASE Execute(e, <<kind, Index(r, kind)>>, s)
  <2> DEFINE command == <<kind, Index(r, kind)>>
  <2>1. Execute(e, command, s) /\ command = Plan(c)[n + 1]
    BY <1>4, <1>6
  <2> HIDE DEF s, command
  <2>2. Kept(e) /\ Good(e)'
    BY <1>3, <1>4, <1>5, <2>1, ExecuteGood DEF BuildCommand
  <2> QED BY <2>2, Kept_Inv DEF BuildCommand
<1>7. CASE GivesUp(e) /\ UNCHANGED last
  <2>1. Kept(e) /\ Good(e)'
    BY <1>7, GivesUpGood DEF BuildCommand
  <2> QED BY <2>1, Kept_Inv DEF BuildCommand
<1>8. Execute(e, <<kind, Index(r, kind)>>, s) \/ (GivesUp(e) /\ UNCHANGED last)
  BY DEF BuildCommand, Kind
<1> QED BY <1>6, <1>7, <1>8

(* Versions come and go without an execution of its own.                       *)
LEMMA Jdk_Inv ==
  ASSUME IInv, NEW v \in Versions, CreateJdk(v) \/ DeleteJdk(v)
  PROVE  IInv'
<1>1. UNCHANGED <<server, cfg, cwd, by, run, last>> /\ (jdks \subseteq Versions => jdks' \subseteq Versions)
  BY DEF CreateJdk, DeleteJdk
<1>2. TypeOK'
  BY <1>1 DEF IInv, TypeOK
<1>3. \A e \in Runs : Fits(e)' /\ InDir(e)'
  BY <1>1 DEF IInv, Fits, InDir
<1>4. DirectoryUnlessDisturbed' /\ PanicOnlyIfShort'
  BY <1>1 DEF IInv, DirectoryUnlessDisturbed, PanicOnlyIfShort
<1> QED BY <1>2, <1>3, <1>4 DEF IInv

-----------------------------------------------------------------------------
LEMMA Init_Inv == Init => IInv
<1> SUFFICES ASSUME Init PROVE IInv
  OBVIOUS
<1>1. ASSUME NEW e \in Runs
      PROVE  /\ cfg[e] \in Configs /\ run[e] = Place("begin", 0)
             /\ last[e].count = 0
  BY <1>1 DEF Init
<1>2. Place("begin", 0) \in RunState
  BY PlaceTyped
<1>3. ASSUME NEW e \in Runs
      PROVE  Fits(e) /\ InDir(e) /\ Counters(cfg[e], run[e])
  <2>0. Whole(cfg[e]) \in Nat
    BY <1>1, <1>3, ConfigTyped
  <2>1. 0 <= Whole(cfg[e])
    BY <2>0
  <2>2. Place("begin", 0).stage = "begin" /\ Place("begin", 0).pos = 0
    BY PlaceTyped
  <2>3. Fits(e) /\ InDir(e)
    BY <1>1, <1>3, <2>1, <2>2 DEF Fits, RunOK, CommandOK, InDir, Working
  <2> QED BY <1>1, <1>3, <2>3, FreshPlace
<1>4. TypeOK
  <2>1. run \in [Runs -> RunState] /\ cfg \in [Runs -> Configs] /\ DOMAIN last = Runs
    BY <1>2 DEF Init
  <2>2. \A e \in Runs : last[e].count \in Nat
    BY <1>1
  <2> QED BY <1>3, <2>1, <2>2 DEF Init, TypeOK, Counters
<1>5. DirectoryUnlessDisturbed /\ PanicOnlyIfShort
  BY <1>1 DEF DirectoryUnlessDisturbed, PanicOnlyIfShort, Init
<1> QED BY <1>3, <1>4, <1>5 DEF IInv

LEMMA Next_Inv == IInv /\ [Next]_vars => IInv'
<1> SUFFICES ASSUME IInv, [Next]_vars PROVE IInv'
  OBVIOUS
<1>1. CASE UNCHANGED vars
  BY <1>1 DEF vars, IInv, TypeOK, Fits, InDir, DirectoryUnlessDisturbed, PanicOnlyIfShort
<1>2. ASSUME NEW e \in Runs, Step(e) PROVE IInv'
  BY <1>2, Begin_Inv, Enter_Inv, GitCommand_Inv, ImageCommand_Inv,
     EndOfLoop_Inv, BadData_Inv, NoSuchEntry_Inv, BuildCommand_Inv DEF Step
<1>3. ASSUME NEW v \in Versions, CreateJdk(v) \/ DeleteJdk(v) PROVE IInv'
  BY <1>3, Jdk_Inv
<1> QED BY <1>1, <1>2, <1>3 DEF Next

LEMMA Invariance == Spec => []IInv
  BY Init_Inv, Next_Inv, PTL DEF Spec

(* The variables keep their types, and no counter of the loop over SeqNo       *)
(* passes the end of its list (runJobExecution).                               *)
THEOREM PlanTypeCorrect == Spec => []TypeOK
<1>1. IInv => TypeOK
  BY DEF IInv
<1> QED BY <1>1, Invariance, PTL

(* An execution runs what its configuration asks for, in order, each command   *)
(* once, and succeeds only after the last (runJobExecution).                   *)
THEOREM PlanIsFollowed == Spec => []PlanFollowed
<1>1. IInv => PlanFollowed
  <2> SUFFICES ASSUME IInv, NEW e \in Runs
               PROVE  LET plan == Plan(cfg[e])
                      IN /\ last[e].count <= Len(plan)
                         /\ last[e].count > 0 => last[e].command = plan[last[e].count]
                         /\ run[e].stage = "succeeded" => last[e].count = Len(plan)
    BY DEF PlanFollowed
  <2>1. Fits(e) /\ cfg[e] \in Configs
    BY GoodFromInv DEF Good
  <2>2. Len(Plan(cfg[e])) = Whole(cfg[e])
    BY <2>1, PlanAt
  <2> QED BY <2>1, <2>2 DEF Fits, RunOK, CommandOK
<1> QED BY <1>1, Invariance, PTL

(* The index into a list of build configurations leaves the list only if the   *)
(* configuration names a kind more often than it has entries (runJobExecution).*)
THEOREM OnlyShortPanics == Spec => []PanicOnlyIfShort
<1>1. IInv => PanicOnlyIfShort
  BY DEF IInv
<1> QED BY <1>1, Invariance, PTL

(* As long as no other execution moved the process since an execution did, its *)
(* commands start in the directory of its job (runJobExecution).               *)
THEOREM UndisturbedDirectory == Spec => []DirectoryUnlessDisturbed
<1>1. IInv => DirectoryUnlessDisturbed
  BY DEF IInv
<1> QED BY <1>1, Invariance, PTL
=============================================================================
