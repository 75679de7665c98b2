---------------------------- MODULE MadpackAtomic ----------------------------
(***************************************************************************)
(* What madpack promises for a database used by one operator at a time: a  *)
(* command takes effect at once or not at all.  `target` is what the       *)
(* schema named on the command line holds and `backups` what upgrades have *)
(* kept, by version; the history of versions is part of an installation.   *)
(***************************************************************************)
EXTENDS Sequences

CONSTANTS Revs, Modules, Nothing,
          Name(_),      \* the name an installation of a version is kept under
          Stamped(_)    \* the version of an installation, or <<>> for none

VARIABLES target, backups
vars == <<target, backups>>

Installation(h, v) == [hist |-> Append(h, v), objs |-> [m \in Modules |-> v]]

Vacant == Stamped(target) = << >>

Init == Vacant /\ backups = [n \in {Name(v) : v \in Revs} |-> Nothing]

\* A first installation, into a schema without MADlib.
Install(v) ==
  /\ Vacant
  /\ target' = Installation(<< >>, v)
  /\ UNCHANGED backups

\* An upgrade keeps the old installation under its version's name.
Upgrade(v) ==
  LET old == Name(Stamped(target))
  IN /\ ~Vacant
     /\ backups[old] = Nothing
     /\ target' = Installation(target.hist, v)
     /\ backups' = [backups EXCEPT ![old] = target]

\* A first installation into an existing schema may stop half way.
InstallStops ==
  /\ Vacant /\ target # Nothing
  /\ target' # Nothing
  /\ UNCHANGED backups

Uninstall == ~Vacant /\ target' = Nothing /\ UNCHANGED backups

Next == \/ \E v \in Revs : Install(v) \/ Upgrade(v)
        \/ InstallStops \/ Uninstall

Spec == Init /\ [][Next]_vars
=============================================================================
