------------------------------ MODULE MCMadpack ------------------------------
(* Instances of Madpack for TLC.                                           *)
EXTENDS MadpackRefines

CONSTANT p1

OneProc == {p1}

TwoRevs == {<<0, 3>>, <<0, 4>>}

TwoModules == <<"linear", "sketch">>

EveryCommand == AllCommands
InstallCommands == {"install", "reinstall", "uninstall"}

None == {}

\* A schema that exists but fails the probe is taken for a missing one: that is
\* what MadpackProbe.cfg shows, and failures at the probe and a death that leaves
\* its table behind are not among those the other runs cause.
SQLLabels == Labels \ {"idle", "confirm", "compare", "ask",
                       "check", "probe", "unprobe"}
Deaths == Labels \ {"idle", "unprobe"}

\* Failures a rollback or an early stop answers, and deaths of the tool before
\* and after the target is rebuilt.
RolledBack == SQLLabels \ {"create", "rollback", "restore"}
AtRest == Deaths \ {"create", "drophist", "createhist", "copyhist", "stamp",
                    "module", "rollback", "restore"}
OnlyUnprobe == {"unprobe"}
=============================================================================
