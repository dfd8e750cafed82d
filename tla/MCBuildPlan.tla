---------------------------- MODULE MCBuildPlan ----------------------------
(***************************************************************************)
(* BuildPlan for TLC: configurations that differ in what decides the path  *)
(* through runJobExecution.                                                *)
(***************************************************************************)
EXTENDS BuildPlan, TLC

CONSTANT v8  \* a version of the JDK

Nothing == [git |-> "no", build |-> FALSE, image |-> FALSE, SeqNo |-> <<>>,
            ant |-> <<>>, mvn |-> <<>>, Cmd |-> <<>>, jdk |-> None]

Builds(seq, ant, mvn, cmds) ==
  [Nothing EXCEPT !.build = TRUE, !.SeqNo = seq, !.ant = ant, !.mvn = mvn, !.Cmd = cmds]

MCConfigs ==
  { Nothing,
    [Nothing EXCEPT !.git = "yes", !.image = TRUE],
    [Nothing EXCEPT !.git = "without repo"],
    [Builds(<<"mvn", "ant", "mvn", "shell">>, <<"entry", "entry">>, <<"entry", "entry">>, <<"entry">>) EXCEPT !.git = "yes"],
    [Builds(<<"ant", "shell", "ant">>, <<"entry">>, <<>>, <<"entry">>) EXCEPT !.image = TRUE],
    [Builds(<<"shell", "mvn", "shell">>, <<>>, <<"entry">>, <<"entry", "">>) EXCEPT !.jdk = v8],
    Builds(<<"mvn", "none">>, <<>>, <<"entry">>, <<>>),
    Builds(<<"mvn", "ant", "mvn">>, <<"">>, <<"entry", "entry">>, <<>>),
    Builds(<<>>, <<>>, <<>>, <<>>) }

MCVersions == {v8}

Sym == Permutations(Runs)
=============================================================================
