----------------------------- MODULE MadpackProofs -----------------------------
(***************************************************************************)
(* What madpack promises about the database, for every set of versions,    *)
(* every list of modules and any number of commands, failing statements    *)
(* and deaths of the tool.  The promises are proved for one operator at a  *)
(* time, as the tool takes no lock, and as long as the probe for a         *)
(* writable schema fails only where the schema is missing.  At the end:    *)
(* one operator's madpack implements MadpackAtomic, as long as nothing but *)
(* the module files and the history table fails while the target is        *)
(* rebuilt: a command takes effect at once or not at all.                  *)
(***************************************************************************)
EXTENDS MadpackRefines, SequenceTheorems, TLAPS

USE DEF Target

-----------------------------------------------------------------------------
(* The type invariant, and on the way to it one lemma per statement that   *)
(* says what it does to the database and to the command.                   *)

RunType == [pc: Labels, cmd: AllCommands, rev: Revs \cup {NoRev},
            dbrev: Revs \cup {NoRev}, case: 0..3, k: 1..(Len(ModuleSeq) + 1),
            picked: SUBSET Modules, outcome: Outcomes,
            before: Schema \cup {NoSchema}, dropped: BOOLEAN]
DbType == [Names -> Schema \cup {NoSchema}]
Versions == {TempSchema(v) : v \in Revs}
UsersType == [Versions -> {"none", "bare", "privileged"}]

\* Where __db_install has the target under construction, and where it is on
\* its way to an upgrade or back from one (CASE #1).
Building == {"drophist", "createhist", "copyhist", "stamp", "module"}
Rebuilding == Building \cup {"create", "rollback", "restore"}
UpgradeOnly == {"ask", "rename", "copyhist", "restore"}

\* What the types need to know of a command's position: a run that names a
\* backup schema has read a version to name it after.
Typed(p) ==
  LET r == run[p]
  IN /\ r.pc # "idle" => r.rev # NoRev
     /\ r.pc \in UpgradeOnly => r.case = 1
     /\ r.pc \in Rebuilding \cup UpgradeOnly /\ r.case = 1 => r.dbrev # NoRev
     /\ r.pc = "closetest" => r.k <= Len(ModuleSeq)

TypeInv == TypeOK /\ \A p \in Procs : Typed(p)

-----------------------------------------------------------------------------
(* Facts about the constants and the operators.                            *)

(* The names of the schemas, and the value that is not a version.          *)
LEMMA NamesFacts ==
  /\ Target \in Names
  /\ \A v \in Revs : TempSchema(v) \in Names \ {Target} /\ TempSchema(v) \in Versions
  /\ NoRev \notin Revs
  /\ Absent \notin Revs /\ Broken \notin Revs
  /\ NoSchema \notin Schema
BY MadpackAssumption, NoSchemaAssumption DEF Names, Versions

(* The number of modules in Modules.yml.                                   *)
LEMMA LenModuleSeq == Len(ModuleSeq) \in Nat
BY MadpackAssumption

(* What the catalog must allow, label by label.                            *)
LEMMA PossibleAt ==
  ASSUME NEW p
  PROVE  LET pc == run[p].pc
         IN /\ pc \in {"drop", "drophist", "rollback", "module", "grant"}
                 => (Possible(p) <=> HasSchema(Target))
            /\ pc = "probe"
                 => (Possible(p) <=> HasSchema(Target) /\ ~db[Target].probe)
            /\ pc = "unprobe"
                 => (Possible(p) <=> HasSchema(Target) /\ db[Target].probe)
            /\ pc = "rename" => (Possible(p) <=> CanRename(Target, Backup(p)))
            /\ pc = "restore" => (Possible(p) <=> CanRename(Backup(p), Target))
            /\ pc = "create" => (Possible(p) <=> ~HasSchema(Target))
            /\ pc = "createhist"
                 => (Possible(p) <=> HasSchema(Target) /\ ~db[Target].table)
            /\ pc = "copyhist"
                 => (Possible(p) <=> HasHistory(Target) /\ HasHistory(Backup(p)))
            /\ pc = "stamp" => (Possible(p) <=> HasHistory(Target))
BY DEF Possible

(* __get_madlib_dbver returns a version or None.                           *)
LEMMA DbRevType ==
  ASSUME NEW s \in Schema \cup {NoSchema}
  PROVE  DbRev(s) \in Revs \cup {NoRev}
BY NoSchemaAssumption DEF DbRev, Schema

(* Stamping a version makes it the one __get_madlib_dbver reads.           *)
LEMMA Stamped ==
  ASSUME NEW h \in Seq(Revs), NEW v \in Revs
  PROVE  /\ Append(h, v) \in Seq(Revs) /\ Append(h, v) # << >>
         /\ Append(h, v)[Len(Append(h, v))] = v
BY AppendProperties

(* The module an installation or a check is at is one of Modules.yml.      *)
LEMMA ModuleAt ==
  ASSUME NEW k \in 1..(Len(ModuleSeq) + 1), k <= Len(ModuleSeq)
  PROVE  ModuleSeq[k] \in Modules /\ k \in DOMAIN ModuleSeq
BY MadpackAssumption DEF Modules

(* What CREATE SCHEMA leaves is a schema.                                  *)
LEMMA EmptySchemaType == EmptySchema \in Schema
BY DEF EmptySchema, Schema

-----------------------------------------------------------------------------
(* What an action does to the record of the process that takes it.         *)

\* Only process p's record changes ...
OnlyChanges(p) == /\ run' \in [Procs -> RunType]
                  /\ \A q \in Procs \ {p} : run'[q] = run[q]

\* ... to one with these fields.
Becomes(p, l, o, c, n, v, b) ==
  LET r == run[p]
      s == run'[p]
  IN /\ OnlyChanges(p)
     /\ s.pc = l /\ s.outcome = o /\ s.case = c /\ s.k = n /\ s.dbrev = v
     /\ Owed(s) = b /\ s.cmd = r.cmd /\ s.rev = r.rev /\ s.picked = r.picked

(* A change of one process's record, field by field.                       *)
LEMMA RecordChange ==
  ASSUME run \in [Procs -> RunType], NEW p \in Procs, NEW s \in RunType,
         run' = [run EXCEPT ![p] = s],
         s.cmd = run[p].cmd, s.rev = run[p].rev, s.picked = run[p].picked
  PROVE  Becomes(p, s.pc, s.outcome, s.case, s.k, s.dbrev, Owed(s))
BY DEF Becomes, OnlyChanges

(* The command goes on to another statement or prompt.                     *)
LEMMA GotoRun ==
  ASSUME run \in [Procs -> RunType], NEW p \in Procs,
         NEW l \in Labels, Goto(p, l)
  PROVE  LET r == run[p]
         IN  Becomes(p, l, r.outcome, r.case, r.k, r.dbrev, Owed(r))
<1> DEFINE r == run[p]
           s == [r EXCEPT !.pc = l]
<1>1. run' = [run EXCEPT ![p] = s]
  BY DEF Goto
<1>2. r \in RunType
  OBVIOUS
<1> HIDE DEF r
<1>3. s \in RunType
  BY <1>2 DEF RunType
<1>4. /\ s.cmd = r.cmd /\ s.rev = r.rev /\ s.picked = r.picked
      /\ s.pc = l /\ s.outcome = r.outcome /\ s.case = r.case
      /\ s.dbrev = r.dbrev /\ Owed(s) = Owed(r)
  BY <1>2 DEF RunType, Owed
<1>5. s.k = r.k
  BY <1>2 DEF RunType
<1> HIDE DEF s
<1>6. Becomes(p, s.pc, s.outcome, s.case, s.k, s.dbrev, Owed(s))
  BY <1>1, <1>3, <1>4, RecordChange DEF r
<1> QED
  BY <1>4, <1>5, <1>6 DEF r

(* The command ends.                                                       *)
LEMMA EndRun ==
  ASSUME run \in [Procs -> RunType], NEW p \in Procs,
         NEW o \in Outcomes, End(p, o)
  PROVE  LET r == run[p]
         IN  Becomes(p, "idle", o, r.case, r.k, r.dbrev, Owed(r))
<1> DEFINE r == run[p]
           s == [r EXCEPT !.pc = "idle", !.outcome = o]
<1>1. run' = [run EXCEPT ![p] = s]
  BY DEF End
<1>2. r \in RunType
  OBVIOUS
<1> HIDE DEF r
<1>3. s \in RunType
  BY <1>2 DEF RunType, Labels
<1>4. /\ s.cmd = r.cmd /\ s.rev = r.rev /\ s.picked = r.picked
      /\ s.pc = "idle" /\ s.outcome = o /\ s.case = r.case
      /\ s.dbrev = r.dbrev /\ Owed(s) = Owed(r)
  BY <1>2 DEF RunType, Owed
<1>5. s.k = r.k
  BY <1>2 DEF RunType
<1> HIDE DEF s
<1>6. Becomes(p, s.pc, s.outcome, s.case, s.k, s.dbrev, Owed(s))
  BY <1>1, <1>3, <1>4, RecordChange DEF r
<1> QED
  BY <1>4, <1>5, <1>6 DEF r

(* The command has found which of the three cases it is in.                *)
LEMMA ToCaseRun ==
  ASSUME run \in [Procs -> RunType], NEW p \in Procs,
         NEW c \in 0..3, NEW l \in Labels, ToCase(p, c, l)
  PROVE  LET r == run[p]
         IN  Becomes(p, l, r.outcome, c, r.k, r.dbrev, Owed(r))
<1> DEFINE r == run[p]
           s == [r EXCEPT !.pc = l, !.case = c]
<1>1. run' = [run EXCEPT ![p] = s]
  BY DEF ToCase
<1>2. r \in RunType
  OBVIOUS
<1> HIDE DEF r
<1>3. s \in RunType
  BY <1>2 DEF RunType
<1>4. /\ s.cmd = r.cmd /\ s.rev = r.rev /\ s.picked = r.picked
      /\ s.pc = l /\ s.outcome = r.outcome /\ s.case = c
      /\ s.dbrev = r.dbrev /\ Owed(s) = Owed(r)
  BY <1>2 DEF RunType, Owed
<1>5. s.k = r.k
  BY <1>2 DEF RunType
<1> HIDE DEF s
<1>6. Becomes(p, s.pc, s.outcome, s.case, s.k, s.dbrev, Owed(s))
  BY <1>1, <1>3, <1>4, RecordChange DEF r
<1> QED
  BY <1>4, <1>5, <1>6 DEF r

(* The command goes on to the next module.                                 *)
LEMMA NextModuleRun ==
  ASSUME run \in [Procs -> RunType], NEW p \in Procs,
         run[p].k <= Len(ModuleSeq), run' = [run EXCEPT ![p].k = @ + 1]
  PROVE  LET r == run[p]
         IN  Becomes(p, r.pc, r.outcome, r.case, r.k + 1, r.dbrev, Owed(r))
<1> DEFINE r == run[p]
           s == [r EXCEPT !.k = @ + 1]
<1>1. run' = [run EXCEPT ![p] = s]
  BY DEF RunType
<1>2. r \in RunType /\ r.k + 1 \in 1..(Len(ModuleSeq) + 1)
  BY LenModuleSeq DEF RunType
<1> HIDE DEF r
<1>3. s \in RunType
  BY <1>2 DEF RunType
<1>4. /\ s.cmd = r.cmd /\ s.rev = r.rev /\ s.picked = r.picked
      /\ s.pc = r.pc /\ s.outcome = r.outcome /\ s.case = r.case
      /\ s.dbrev = r.dbrev /\ Owed(s) = Owed(r)
  BY <1>2 DEF RunType, Owed
<1>5. s.k = r.k + 1
  BY <1>2 DEF RunType
<1> HIDE DEF s
<1>6. Becomes(p, s.pc, s.outcome, s.case, s.k, s.dbrev, Owed(s))
  BY <1>1, <1>3, <1>4, RecordChange DEF r
<1> QED
  BY <1>4, <1>5, <1>6 DEF r

(* The check has finished with a module.                                   *)
LEMMA CloseTestRun ==
  ASSUME run \in [Procs -> RunType], NEW p \in Procs,
         NEW l \in Labels, run[p].k <= Len(ModuleSeq),
         run' = [run EXCEPT ![p].pc = l, ![p].k = @ + 1]
  PROVE  LET r == run[p]
         IN  Becomes(p, l, r.outcome, r.case, r.k + 1, r.dbrev, Owed(r))
<1> DEFINE r == run[p]
           s == [r EXCEPT !.pc = l, !.k = @ + 1]
<1>1. run' = [run EXCEPT ![p] = s]
  BY DEF RunType
<1>2. r \in RunType /\ r.k + 1 \in 1..(Len(ModuleSeq) + 1)
  BY LenModuleSeq DEF RunType
<1> HIDE DEF r
<1>3. s \in RunType
  BY <1>2 DEF RunType
<1>4. /\ s.cmd = r.cmd /\ s.rev = r.rev /\ s.picked = r.picked
      /\ s.pc = l /\ s.outcome = r.outcome /\ s.case = r.case
      /\ s.dbrev = r.dbrev /\ Owed(s) = Owed(r)
  BY <1>2 DEF RunType, Owed
<1>5. s.k = r.k + 1
  BY <1>2 DEF RunType
<1> HIDE DEF s
<1>6. Becomes(p, s.pc, s.outcome, s.case, s.k, s.dbrev, Owed(s))
  BY <1>1, <1>3, <1>4, RecordChange DEF r
<1> QED
  BY <1>4, <1>5, <1>6 DEF r

(* What was there before an uninstall or a reinstall is gone.              *)
LEMMA UninstallRun ==
  ASSUME run \in [Procs -> RunType], NEW p \in Procs,
         run' = [run EXCEPT ![p].pc = "idle", ![p].outcome = "uninstalled",
                            ![p].dropped = TRUE]
  PROVE  LET r == run[p]
         IN  Becomes(p, "idle", "uninstalled", r.case, r.k, r.dbrev, NoSchema)
<1> DEFINE r == run[p]
           s == [r EXCEPT !.pc = "idle", !.outcome = "uninstalled", !.dropped = TRUE]
<1>1. run' = [run EXCEPT ![p] = s]
  BY DEF RunType
<1>2. r \in RunType
  OBVIOUS
<1> HIDE DEF r
<1>3. s \in RunType
  BY <1>2 DEF RunType, Labels, Outcomes
<1>4. /\ s.cmd = r.cmd /\ s.rev = r.rev /\ s.picked = r.picked
      /\ s.pc = "idle" /\ s.outcome = "uninstalled" /\ s.case = r.case
      /\ s.dbrev = r.dbrev /\ Owed(s) = NoSchema
  BY <1>2 DEF RunType, Owed
<1>5. s.k = r.k
  BY <1>2 DEF RunType
<1> HIDE DEF s
<1>6. Becomes(p, s.pc, s.outcome, s.case, s.k, s.dbrev, Owed(s))
  BY <1>1, <1>3, <1>4, RecordChange DEF r
<1> QED
  BY <1>4, <1>5, <1>6 DEF r

(* A reinstall goes on after its uninstall to read the version again.      *)
LEMMA ReinstallRun ==
  ASSUME run \in [Procs -> RunType], NEW p \in Procs,
         run' = [run EXCEPT ![p].pc = "reread", ![p].dropped = TRUE]
  PROVE  LET r == run[p]
         IN  Becomes(p, "reread", r.outcome, r.case, r.k, r.dbrev, NoSchema)
<1> DEFINE r == run[p]
           s == [r EXCEPT !.pc = "reread", !.dropped = TRUE]
<1>1. run' = [run EXCEPT ![p] = s]
  BY DEF RunType
<1>2. r \in RunType
  OBVIOUS
<1> HIDE DEF r
<1>3. s \in RunType
  BY <1>2 DEF RunType, Labels, Outcomes
<1>4. /\ s.cmd = r.cmd /\ s.rev = r.rev /\ s.picked = r.picked
      /\ s.pc = "reread" /\ s.outcome = r.outcome /\ s.case = r.case
      /\ s.dbrev = r.dbrev /\ Owed(s) = NoSchema
  BY <1>2 DEF RunType, Owed
<1>5. s.k = r.k
  BY <1>2 DEF RunType
<1> HIDE DEF s
<1>6. Becomes(p, s.pc, s.outcome, s.case, s.k, s.dbrev, Owed(s))
  BY <1>1, <1>3, <1>4, RecordChange DEF r
<1> QED
  BY <1>4, <1>5, <1>6 DEF r

(* The version in the database has been read again.                        *)
LEMMA RereadRun ==
  ASSUME run \in [Procs -> RunType], NEW p \in Procs,
         NEW v \in Revs \cup {NoRev},
         run' = [run EXCEPT ![p].pc = "compare", ![p].dbrev = v]
  PROVE  LET r == run[p]
         IN  Becomes(p, "compare", r.outcome, r.case, r.k, v, Owed(r))
<1> DEFINE r == run[p]
           s == [r EXCEPT !.pc = "compare", !.dbrev = v]
<1>1. run' = [run EXCEPT ![p] = s]
  BY DEF RunType
<1>2. r \in RunType
  OBVIOUS
<1> HIDE DEF r
<1>3. s \in RunType
  BY <1>2 DEF RunType, Labels, Outcomes
<1>4. /\ s.cmd = r.cmd /\ s.rev = r.rev /\ s.picked = r.picked
      /\ s.pc = "compare" /\ s.outcome = r.outcome /\ s.case = r.case
      /\ s.dbrev = v /\ Owed(s) = Owed(r)
  BY <1>2 DEF RunType, Owed
<1>5. s.k = r.k
  BY <1>2 DEF RunType
<1> HIDE DEF s
<1>6. Becomes(p, s.pc, s.outcome, s.case, s.k, s.dbrev, Owed(s))
  BY <1>1, <1>3, <1>4, RecordChange DEF r
<1> QED
  BY <1>4, <1>5, <1>6 DEF r

-----------------------------------------------------------------------------
(* What an action does to the database.                                    *)

\* The target changes to a schema with these contents, and no other does.
TargetIs(b, h, o, x) ==
  LET t == db'[Target]
  IN /\ db' \in DbType /\ \A n \in Names \ {Target} : db'[n] = db[n]
     /\ t \in Schema /\ t.table = b /\ t.hist = h /\ t.objs = o /\ t.probe = x

\* The target is dropped.
TargetGone == /\ db' \in DbType /\ \A n \in Names \ {Target} : db'[n] = db[n]
              /\ db'[Target] = NoSchema

\* The schema `from` is now called `to`.
Moves(from, to) ==
  /\ db' \in DbType /\ \A n \in Names \ {from, to} : db'[n] = db[n]
  /\ db'[to] = db[from] /\ db'[from] = NoSchema

Counters == faults' \in Nat /\ crashes' \in Nat /\ runs' \in Nat
OnlyRunAndDb == users' = users /\ tests' = tests /\ Counters
OnlyRun == db' = db /\ OnlyRunAndDb

(* The parts of the type invariant, for use with RunType and Versions.     *)
LEMMA TypeFacts ==
  ASSUME TypeInv, NEW p \in Procs
  PROVE  /\ db \in DbType
         /\ users \in UsersType /\ tests \subseteq Modules
         /\ run \in [Procs -> RunType] /\ run[p] \in RunType
         /\ faults \in Nat /\ crashes \in Nat /\ runs \in Nat
         /\ Typed(p)
BY DEF TypeInv, TypeOK, RunType, Versions, UsersType, DbType

(* A statement inside the target leaves the other schemas alone.           *)
LEMMA TargetChange ==
  ASSUME db \in DbType, NEW t \in Schema, db' = [db EXCEPT ![Target] = t]
  PROVE  TargetIs(t.table, t.hist, t.objs, t.probe)
BY NamesFacts DEF TargetIs, DbType

(* DROP SCHEMA of the target leaves the other schemas alone.               *)
LEMMA TargetDrop ==
  ASSUME db \in DbType, db' = [db EXCEPT ![Target] = NoSchema]
  PROVE  TargetGone
BY NamesFacts DEF TargetGone, DbType

(* ALTER SCHEMA ... RENAME moves what the schema holds.                    *)
LEMMA Move ==
  ASSUME db \in DbType, NEW from \in Names, NEW to \in Names, from # to,
         db' = Renamed(from, to)
  PROVE  Moves(from, to)
BY DEF Moves, Renamed, DbType

(* Each statement that changes the target, when it succeeds.               *)
LEMMA ProbeDoes ==
  ASSUME TypeInv, NEW p \in Procs, Probe(p)
  PROVE  LET r == run[p]
             t == db[Target]
         IN /\ r.pc = "probe" /\ t \in Schema /\ OnlyRunAndDb
            /\ Becomes(p, "unprobe", r.outcome, r.case, r.k, r.dbrev, Owed(r))
            /\ TargetIs(t.table, t.hist, t.objs, TRUE)
<1> DEFINE r == run[p]
           t == db[Target]
           s == [t EXCEPT !.probe = TRUE]
<1>1. /\ db \in DbType /\ run \in [Procs -> RunType] /\ r \in RunType /\ Typed(p)
      /\ faults \in Nat /\ crashes \in Nat /\ runs \in Nat
  BY TypeFacts
<1>2. r.pc = "probe" /\ Possible(p)
  BY DEF Probe, At, Succeeds
<1>3. t \in Schema
  BY <1>1, <1>2, PossibleAt, NamesFacts
     DEF HasSchema, HasHistory, DbType
<1>4. Becomes(p, "unprobe", r.outcome, r.case, r.k, r.dbrev, Owed(r))
  BY <1>1, <1>2, GotoRun DEF Probe, Labels
<1>5. db' = [db EXCEPT ![Target] = s]
  BY DEF Probe
<1>6. OnlyRunAndDb
  BY <1>1 DEF Probe, Succeeds, OnlyDb, OnlyRunAndDb, Counters
<1> HIDE DEF t, r
<1>7. /\ s \in Schema /\ s.table = t.table /\ s.hist = t.hist
      /\ s.objs = t.objs /\ s.probe = TRUE
  BY <1>3 DEF Schema
<1> HIDE DEF s
<1>8. TargetIs(s.table, s.hist, s.objs, s.probe)
  BY <1>1, <1>5, <1>7, TargetChange
<1> QED
  BY <1>2, <1>3, <1>4, <1>6, <1>7, <1>8 DEF t, r

(* DROP TABLE of the probe, which settles CASE #1 or #2.                   *)
LEMMA UnprobeDoes ==
  ASSUME TypeInv, NEW p \in Procs, Unprobe(p)
  PROVE  LET r == run[p]
             t == db[Target]
         IN /\ r.pc = "unprobe" /\ t \in Schema /\ OnlyRunAndDb
            /\ IF r.dbrev # NoRev
                 THEN Becomes(p, "ask", r.outcome, 1, r.k, r.dbrev, Owed(r))
                 ELSE Becomes(p, "drophist", r.outcome, 2, r.k, r.dbrev, Owed(r))
            /\ TargetIs(t.table, t.hist, t.objs, FALSE)
<1> DEFINE r == run[p]
           t == db[Target]
           s == [t EXCEPT !.probe = FALSE]
<1>1. /\ db \in DbType /\ run \in [Procs -> RunType] /\ r \in RunType /\ Typed(p)
      /\ faults \in Nat /\ crashes \in Nat /\ runs \in Nat
  BY TypeFacts
<1>2. r.pc = "unprobe" /\ Possible(p)
  BY DEF Unprobe, At, Succeeds
<1>3. t \in Schema
  BY <1>1, <1>2, PossibleAt, NamesFacts
     DEF HasSchema, HasHistory, DbType
<1>4. IF r.dbrev # NoRev
       THEN Becomes(p, "ask", r.outcome, 1, r.k, r.dbrev, Owed(r))
       ELSE Becomes(p, "drophist", r.outcome, 2, r.k, r.dbrev, Owed(r))
  <2>1. CASE r.dbrev # NoRev
    BY <1>1, <1>2, <2>1, ToCaseRun DEF Unprobe, Labels
  <2>2. CASE r.dbrev = NoRev
    BY <1>1, <1>2, <2>2, ToCaseRun DEF Unprobe, Labels
  <2> QED
    BY <2>1, <2>2
<1>5. db' = [db EXCEPT ![Target] = s]
  BY DEF Unprobe
<1>6. OnlyRunAndDb
  BY <1>1 DEF Unprobe, Succeeds, OnlyDb, OnlyRunAndDb, Counters
<1> HIDE DEF t, r
<1>7. /\ s \in Schema /\ s.table = t.table /\ s.hist = t.hist
      /\ s.objs = t.objs /\ s.probe = FALSE
  BY <1>3 DEF Schema
<1> HIDE DEF s
<1>8. TargetIs(s.table, s.hist, s.objs, s.probe)
  BY <1>1, <1>5, <1>7, TargetChange
<1> QED
  BY <1>2, <1>3, <1>4, <1>6, <1>7, <1>8 DEF t, r

(* DROP TABLE IF EXISTS migrationhistory.                                  *)
LEMMA DropHistoryDoes ==
  ASSUME TypeInv, NEW p \in Procs, DropHistory(p)
  PROVE  LET r == run[p]
             t == db[Target]
         IN /\ r.pc = "drophist" /\ t \in Schema /\ OnlyRunAndDb
            /\ Becomes(p, "createhist", r.outcome, r.case, r.k, r.dbrev, Owed(r))
            /\ TargetIs(FALSE, << >>, t.objs, t.probe)
<1> DEFINE r == run[p]
           t == db[Target]
           s == [t EXCEPT !.table = FALSE, !.hist = << >>]
<1>1. /\ db \in DbType /\ run \in [Procs -> RunType] /\ r \in RunType /\ Typed(p)
      /\ faults \in Nat /\ crashes \in Nat /\ runs \in Nat
  BY TypeFacts
<1>2. r.pc = "drophist" /\ Possible(p)
  BY DEF DropHistory, At, Succeeds
<1>3. t \in Schema
  BY <1>1, <1>2, PossibleAt, NamesFacts
     DEF HasSchema, HasHistory, DbType
<1>4. Becomes(p, "createhist", r.outcome, r.case, r.k, r.dbrev, Owed(r))
  BY <1>1, <1>2, GotoRun DEF DropHistory, Labels
<1>5. db' = [db EXCEPT ![Target] = s]
  BY DEF DropHistory
<1>6. OnlyRunAndDb
  BY <1>1 DEF DropHistory, Succeeds, OnlyDb, OnlyRunAndDb, Counters
<1> HIDE DEF t, r
<1>7. /\ s \in Schema /\ s.table = FALSE /\ s.hist = << >>
      /\ s.objs = t.objs /\ s.probe = t.probe
  BY <1>3, EmptySeq DEF Schema
<1> HIDE DEF s
<1>8. TargetIs(s.table, s.hist, s.objs, s.probe)
  BY <1>1, <1>5, <1>7, TargetChange
<1> QED
  BY <1>2, <1>3, <1>4, <1>6, <1>7, <1>8 DEF t, r

(* CREATE TABLE migrationhistory.                                          *)
LEMMA CreateHistoryDoes ==
  ASSUME TypeInv, NEW p \in Procs, CreateHistory(p)
  PROVE  LET r == run[p]
             t == db[Target]
         IN /\ r.pc = "createhist" /\ t \in Schema /\ OnlyRunAndDb
            /\ Becomes(p, IF r.case = 1 THEN "copyhist" ELSE "stamp", r.outcome, r.case, r.k, r.dbrev, Owed(r))
            /\ TargetIs(TRUE, t.hist, t.objs, t.probe)
<1> DEFINE r == run[p]
           t == db[Target]
           s == [t EXCEPT !.table = TRUE]
<1>1. /\ db \in DbType /\ run \in [Procs -> RunType] /\ r \in RunType /\ Typed(p)
      /\ faults \in Nat /\ crashes \in Nat /\ runs \in Nat
  BY TypeFacts
<1>2. r.pc = "createhist" /\ Possible(p)
  BY DEF CreateHistory, At, Succeeds
<1>3. t \in Schema
  BY <1>1, <1>2, PossibleAt, NamesFacts
     DEF HasSchema, HasHistory, DbType
<1>4. Becomes(p, IF r.case = 1 THEN "copyhist" ELSE "stamp", r.outcome, r.case, r.k, r.dbrev, Owed(r))
  BY <1>1, <1>2, GotoRun DEF CreateHistory, Labels
<1>5. db' = [db EXCEPT ![Target] = s]
  BY DEF CreateHistory
<1>6. OnlyRunAndDb
  BY <1>1 DEF CreateHistory, Succeeds, OnlyDb, OnlyRunAndDb, Counters
<1> HIDE DEF t, r
<1>7. /\ s \in Schema /\ s.table = TRUE /\ s.hist = t.hist
      /\ s.objs = t.objs /\ s.probe = t.probe
  BY <1>3 DEF Schema
<1> HIDE DEF s
<1>8. TargetIs(s.table, s.hist, s.objs, s.probe)
  BY <1>1, <1>5, <1>7, TargetChange
<1> QED
  BY <1>2, <1>3, <1>4, <1>6, <1>7, <1>8 DEF t, r

(* INSERT INTO migrationhistory ... SELECT from the backup schema.         *)
LEMMA CopyHistoryDoes ==
  ASSUME TypeInv, NEW p \in Procs, CopyHistory(p)
  PROVE  LET r == run[p]
             t == db[Target]
         IN /\ r.pc = "copyhist" /\ t \in Schema
            /\ Backup(p) \in Names \ {Target} /\ db[Backup(p)] \in Schema /\ t.table /\ OnlyRunAndDb
            /\ Becomes(p, "stamp", r.outcome, r.case, r.k, r.dbrev, Owed(r))
            /\ TargetIs(t.table, t.hist \o db[Backup(p)].hist, t.objs, t.probe)
<1> DEFINE r == run[p]
           t == db[Target]
           s == [t EXCEPT !.hist = @ \o db[Backup(p)].hist]
<1>1. /\ db \in DbType /\ run \in [Procs -> RunType] /\ r \in RunType /\ Typed(p)
      /\ faults \in Nat /\ crashes \in Nat /\ runs \in Nat
  BY TypeFacts
<1>2. r.pc = "copyhist" /\ Possible(p)
  BY DEF CopyHistory, At, Succeeds
<1>3. t \in Schema
            /\ Backup(p) \in Names \ {Target} /\ db[Backup(p)] \in Schema /\ t.table
  BY <1>1, <1>2, PossibleAt, NamesFacts 
     DEF HasSchema, HasHistory, DbType, Typed, UpgradeOnly, Backup, RunType
<1>4. Becomes(p, "stamp", r.outcome, r.case, r.k, r.dbrev, Owed(r))
  BY <1>1, <1>2, GotoRun DEF CopyHistory, Labels
<1>5. db' = [db EXCEPT ![Target] = s]
  BY DEF CopyHistory
<1>6. OnlyRunAndDb
  BY <1>1 DEF CopyHistory, Succeeds, OnlyDb, OnlyRunAndDb, Counters
<1> HIDE DEF t, r
<1>7. /\ s \in Schema /\ s.table = t.table /\ s.hist = t.hist \o db[Backup(p)].hist
      /\ s.objs = t.objs /\ s.probe = t.probe
  BY <1>3, ConcatProperties DEF Schema
<1> HIDE DEF s
<1>8. TargetIs(s.table, s.hist, s.objs, s.probe)
  BY <1>1, <1>5, <1>7, TargetChange
<1> QED
  BY <1>2, <1>3, <1>4, <1>6, <1>7, <1>8 DEF t, r

(* INSERT of the tools' version into migrationhistory.                     *)
LEMMA StampDoes ==
  ASSUME TypeInv, NEW p \in Procs, Stamp(p)
  PROVE  LET r == run[p]
             t == db[Target]
         IN /\ r.pc = "stamp" /\ t \in Schema
            /\ t.table /\ r.rev \in Revs /\ OnlyRunAndDb
            /\ Becomes(p, "module", r.outcome, r.case, r.k, r.dbrev, Owed(r))
            /\ TargetIs(t.table, Append(t.hist, r.rev), t.objs, t.probe)
<1> DEFINE r == run[p]
           t == db[Target]
           s == [t EXCEPT !.hist = Append(@, r.rev)]
<1>1. /\ db \in DbType /\ run \in [Procs -> RunType] /\ r \in RunType /\ Typed(p)
      /\ faults \in Nat /\ crashes \in Nat /\ runs \in Nat
  BY TypeFacts
<1>2. r.pc = "stamp" /\ Possible(p)
  BY DEF Stamp, At, Succeeds
<1>3. t \in Schema
            /\ t.table /\ r.rev \in Revs
  BY <1>1, <1>2, PossibleAt, NamesFacts 
     DEF HasSchema, HasHistory, DbType, Typed, UpgradeOnly, Backup, RunType
<1>4. Becomes(p, "module", r.outcome, r.case, r.k, r.dbrev, Owed(r))
  BY <1>1, <1>2, GotoRun DEF Stamp, Labels
<1>5. db' = [db EXCEPT ![Target] = s]
  BY DEF Stamp
<1>6. OnlyRunAndDb
  BY <1>1 DEF Stamp, Succeeds, OnlyDb, OnlyRunAndDb, Counters
<1> HIDE DEF t, r
<1>7. /\ s \in Schema /\ s.table = t.table /\ s.hist = Append(t.hist, r.rev)
      /\ s.objs = t.objs /\ s.probe = t.probe
  BY <1>3, Stamped DEF Schema
<1> HIDE DEF s
<1>8. TargetIs(s.table, s.hist, s.objs, s.probe)
  BY <1>1, <1>5, <1>7, TargetChange
<1> QED
  BY <1>2, <1>3, <1>4, <1>6, <1>7, <1>8 DEF t, r

(* One module's SQL files, all run.                                        *)
LEMMA InstallModuleDoes ==
  ASSUME TypeInv, NEW p \in Procs, InstallModule(p)
  PROVE  LET r == run[p]
             t == db[Target]
         IN /\ r.pc = "module" /\ t \in Schema
            /\ r.rev \in Revs /\ ModuleSeq[r.k] \in Modules /\ r.k <= Len(ModuleSeq) /\ OnlyRunAndDb
            /\ Becomes(p, "module", r.outcome, r.case, r.k + 1, r.dbrev, Owed(r))
            /\ TargetIs(t.table, t.hist, [t.objs EXCEPT ![ModuleSeq[r.k]] = r.rev], t.probe)
<1> DEFINE r == run[p]
           t == db[Target]
           s == [t EXCEPT !.objs[ModuleSeq[r.k]] = r.rev]
<1>1. /\ db \in DbType /\ run \in [Procs -> RunType] /\ r \in RunType /\ Typed(p)
      /\ faults \in Nat /\ crashes \in Nat /\ runs \in Nat
  BY TypeFacts
<1>2. r.pc = "module" /\ Possible(p) /\ r.k <= Len(ModuleSeq)
  BY DEF InstallModule, At, Succeeds
<1>3. t \in Schema
            /\ r.rev \in Revs /\ ModuleSeq[r.k] \in Modules /\ r.k <= Len(ModuleSeq)
  BY <1>1, <1>2, PossibleAt, NamesFacts, ModuleAt
     DEF HasSchema, HasHistory, DbType, Typed, UpgradeOnly, Backup, RunType
<1>4. Becomes(p, "module", r.outcome, r.case, r.k + 1, r.dbrev, Owed(r))
  BY <1>1, <1>2, NextModuleRun DEF InstallModule, Labels
<1>5. db' = [db EXCEPT ![Target] = s]
  BY DEF InstallModule
<1>6. OnlyRunAndDb
  BY <1>1 DEF InstallModule, Succeeds, OnlyDb, OnlyRunAndDb, Counters
<1> HIDE DEF t, r
<1>7. /\ s \in Schema /\ s.table = t.table /\ s.hist = t.hist
      /\ s.objs = [t.objs EXCEPT ![ModuleSeq[r.k]] = r.rev] /\ s.probe = t.probe
  BY <1>3 DEF Schema
<1> HIDE DEF s
<1>8. TargetIs(s.table, s.hist, s.objs, s.probe)
  BY <1>1, <1>5, <1>7, TargetChange
<1> QED
  BY <1>2, <1>3, <1>4, <1>6, <1>7, <1>8 DEF t, r

(* Each statement that drops, creates or renames a schema.                 *)
LEMMA UninstallDropDoes ==
  ASSUME TypeInv, NEW p \in Procs, UninstallDrop(p)
  PROVE  LET r == run[p]
         IN /\ r.pc = "drop" /\ HasSchema(Target) /\ OnlyRunAndDb /\ TargetGone
            /\ IF r.cmd = "uninstall"
                 THEN Becomes(p, "idle", "uninstalled", r.case, r.k, r.dbrev, NoSchema)
                 ELSE Becomes(p, "reread", r.outcome, r.case, r.k, r.dbrev, NoSchema)
<1> DEFINE r == run[p]
<1>1. /\ db \in DbType /\ run \in [Procs -> RunType]
      /\ faults \in Nat /\ crashes \in Nat /\ runs \in Nat
  BY TypeFacts
<1>2. r.pc = "drop" /\ HasSchema(Target)
  BY PossibleAt DEF UninstallDrop, At, Succeeds
<1>3. OnlyRunAndDb /\ TargetGone
  BY <1>1, TargetDrop DEF UninstallDrop, Succeeds, OnlyDb, OnlyRunAndDb, Counters
<1>4. CASE r.cmd = "uninstall"
  BY <1>1, <1>2, <1>3, <1>4, UninstallRun DEF UninstallDrop
<1>5. CASE r.cmd # "uninstall"
  BY <1>1, <1>2, <1>3, <1>5, ReinstallRun DEF UninstallDrop
<1> QED
  BY <1>4, <1>5

(* The rename of the target to its backup name.                            *)
LEMMA RenameDoes ==
  ASSUME TypeInv, NEW p \in Procs, Rename(p)
  PROVE  LET r == run[p]
         IN /\ r.pc = "rename" /\ CanRename(Target, Backup(p)) /\ OnlyRunAndDb
            /\ Backup(p) \in Names \ {Target} /\ Moves(Target, Backup(p))
            /\ Becomes(p, "create", r.outcome, r.case, r.k, r.dbrev, Owed(r))
<1>1. /\ db \in DbType /\ run \in [Procs -> RunType] /\ run[p] \in RunType /\ Typed(p)
      /\ faults \in Nat /\ crashes \in Nat /\ runs \in Nat
  BY TypeFacts
<1>2. run[p].pc = "rename" /\ CanRename(Target, Backup(p))
  BY PossibleAt DEF Rename, At, Succeeds
<1>3. Backup(p) \in Names \ {Target}
  BY <1>1, <1>2, NamesFacts DEF Typed, UpgradeOnly, Backup, RunType
<1>4. OnlyRunAndDb /\ Moves(Target, Backup(p))
  BY <1>1, <1>3, NamesFacts, Move DEF Rename, Succeeds, OnlyDb, OnlyRunAndDb, Counters
<1> QED
  BY <1>1, <1>2, <1>3, <1>4, GotoRun DEF Rename, Labels

(* The rename of the backup to the target, in __db_rollback.               *)
LEMMA RollbackRestoreDoes ==
  ASSUME TypeInv, NEW p \in Procs, RollbackRestore(p)
  PROVE  LET r == run[p]
         IN /\ r.pc = "restore" /\ CanRename(Backup(p), Target) /\ OnlyRunAndDb
            /\ Backup(p) \in Names \ {Target} /\ Moves(Backup(p), Target)
            /\ Becomes(p, "idle", "rolledback", r.case, r.k, r.dbrev, Owed(r))
<1>1. /\ db \in DbType /\ run \in [Procs -> RunType] /\ run[p] \in RunType /\ Typed(p)
      /\ faults \in Nat /\ crashes \in Nat /\ runs \in Nat
  BY TypeFacts
<1>2. run[p].pc = "restore" /\ CanRename(Backup(p), Target)
  BY PossibleAt DEF RollbackRestore, At, Succeeds
<1>3. Backup(p) \in Names \ {Target}
  BY <1>1, <1>2, NamesFacts DEF Typed, UpgradeOnly, Backup, RunType
<1>4. OnlyRunAndDb /\ Moves(Backup(p), Target)
  BY <1>1, <1>3, NamesFacts, Move
     DEF RollbackRestore, Succeeds, OnlyDb, OnlyRunAndDb, Counters
<1> QED
  BY <1>1, <1>2, <1>3, <1>4, EndRun DEF RollbackRestore, Outcomes

(* The drop of the target, in __db_rollback.                               *)
LEMMA RollbackDropDoes ==
  ASSUME TypeInv, NEW p \in Procs, RollbackDrop(p)
  PROVE  LET r == run[p]
         IN /\ r.pc = "rollback" /\ HasSchema(Target) /\ OnlyRunAndDb /\ TargetGone
            /\ IF r.case = 1
                 THEN Becomes(p, "restore", r.outcome, r.case, r.k, r.dbrev, Owed(r))
                 ELSE Becomes(p, "idle", "rolledback", r.case, r.k, r.dbrev, Owed(r))
<1> DEFINE r == run[p]
<1>1. /\ db \in DbType /\ run \in [Procs -> RunType]
      /\ faults \in Nat /\ crashes \in Nat /\ runs \in Nat
  BY TypeFacts
<1>2. r.pc = "rollback" /\ HasSchema(Target)
  BY PossibleAt DEF RollbackDrop, At, Succeeds
<1>3. OnlyRunAndDb /\ TargetGone
  BY <1>1, TargetDrop DEF RollbackDrop, Succeeds, OnlyDb, OnlyRunAndDb, Counters
<1>4. CASE r.case = 1
  BY <1>1, <1>2, <1>3, <1>4, GotoRun DEF RollbackDrop, Labels
<1>5. CASE r.case # 1
  BY <1>1, <1>2, <1>3, <1>5, EndRun DEF RollbackDrop, Outcomes
<1> QED
  BY <1>4, <1>5

(* faults counts one more, or as before.                                   *)
LEMMA FailsCounts ==
  ASSUME TypeInv, NEW p \in Procs, Fails(p)
  PROVE  Counters
BY TypeFacts DEF Fails, Counters

(* __db_create_schema, which returns normally even if it failed.           *)
LEMMA CreateSchemaDoes ==
  ASSUME TypeInv, NEW p \in Procs, CreateSchema(p)
  PROVE  LET r == run[p]
         IN /\ r.pc = "create" /\ OnlyRunAndDb
            /\ \/ /\ db[Target] = NoSchema
                  /\ TargetIs(FALSE, << >>, [m \in Modules |-> Absent], FALSE)
               \/ db' = db
            /\ Becomes(p, "drophist", r.outcome, r.case, r.k, r.dbrev, Owed(r))
<1>1. /\ db \in DbType /\ run \in [Procs -> RunType]
      /\ faults \in Nat /\ crashes \in Nat /\ runs \in Nat
  BY TypeFacts
<1>2. run[p].pc = "create"
  BY DEF CreateSchema, At
<1>3. Becomes(p, "drophist", run[p].outcome, run[p].case, run[p].k, run[p].dbrev,
              Owed(run[p]))
  BY <1>1, GotoRun DEF CreateSchema, Labels
<1>4. OnlyRunAndDb
  BY <1>1, FailsCounts DEF CreateSchema, Succeeds, OnlyDb, OnlyRunAndDb, Counters
<1>5. CASE Succeeds(p) /\ db' = [db EXCEPT ![Target] = EmptySchema]
  <2>1. db[Target] = NoSchema
    BY <1>2, <1>5, PossibleAt DEF Succeeds, HasSchema
  <2>2. TargetIs(EmptySchema.table, EmptySchema.hist, EmptySchema.objs, EmptySchema.probe)
    BY <1>1, <1>5, EmptySchemaType, TargetChange
  <2> QED
    BY <1>2, <1>3, <1>4, <2>1, <2>2 DEF EmptySchema
<1>6. CASE db' = db
  BY <1>2, <1>3, <1>4, <1>6
<1> QED
  BY <1>5, <1>6 DEF CreateSchema

(* What __db_install does when __db_create_objects raises.                 *)
LEMMA ObjectsFailedDoes ==
  ASSUME TypeInv, NEW p \in Procs, ObjectsFailed(p)
  PROVE  LET r == run[p]
         IN IF r.case = 2
              THEN Becomes(p, "idle", "partial", r.case, r.k, r.dbrev, Owed(r))
              ELSE Becomes(p, "rollback", r.outcome, r.case, r.k, r.dbrev, Owed(r))
<1>1. run \in [Procs -> RunType]
  BY TypeFacts
<1>2. CASE run[p].case = 2
  BY <1>1, <1>2, EndRun DEF ObjectsFailed, Outcomes
<1>3. CASE run[p].case # 2
  BY <1>1, <1>3, GotoRun DEF ObjectsFailed, Labels
<1> QED
  BY <1>2, <1>3

(* One module's SQL files, one of which stopped.                           *)
LEMMA ModuleFailsDoes ==
  ASSUME TypeInv, NEW p \in Procs, ModuleFails(p)
  PROVE  LET r == run[p]
             t == db[Target]
         IN /\ r.pc = "module" /\ OnlyRunAndDb /\ ObjectsFailed(p)
            /\ r.k <= Len(ModuleSeq) /\ ModuleSeq[r.k] \in Modules
            /\ \/ db' = db
               \/ /\ t \in Schema
                  /\ TargetIs(t.table, t.hist, [t.objs EXCEPT ![ModuleSeq[r.k]] = Broken],
                              t.probe)
<1> DEFINE r == run[p]
           t == db[Target]
           s == [t EXCEPT !.objs[ModuleSeq[r.k]] = Broken]
<1>1. /\ db \in DbType /\ run \in [Procs -> RunType] /\ r \in RunType
      /\ faults \in Nat /\ crashes \in Nat /\ runs \in Nat
  BY TypeFacts
<1>2. r.pc = "module" /\ r.k <= Len(ModuleSeq) /\ ObjectsFailed(p)
  BY DEF ModuleFails, At
<1>3. ModuleSeq[r.k] \in Modules
  BY <1>1, <1>2, ModuleAt DEF RunType
<1>4. OnlyRunAndDb
  BY <1>1, FailsCounts DEF ModuleFails, Quiet, OnlyDb, OnlyRunAndDb, Counters
<1>5. CASE HasSchema(Target) /\ db' = [db EXCEPT ![Target] = s]
  <2>1. t \in Schema
    BY <1>1, <1>5, NamesFacts DEF HasSchema, DbType
  <2> HIDE DEF t, r
  <2>2. /\ s \in Schema /\ s.table = t.table /\ s.hist = t.hist
        /\ s.objs = [t.objs EXCEPT ![ModuleSeq[r.k]] = Broken] /\ s.probe = t.probe
    BY <1>3, <2>1 DEF Schema
  <2> HIDE DEF s
  <2>3. TargetIs(s.table, s.hist, s.objs, s.probe)
    BY <1>1, <1>5, <2>2, TargetChange
  <2> QED
    BY <1>2, <1>3, <1>4, <2>1, <2>2, <2>3 DEF t, r
<1>6. CASE db' = db
  BY <1>2, <1>3, <1>4, <1>6
<1> QED
  BY <1>5, <1>6 DEF ModuleFails

-----------------------------------------------------------------------------
(* Types.                                                                  *)

\* What a step of process p must show for the types to hold after it.
TypeStep(p) ==
  /\ db' \in DbType /\ users' \in UsersType /\ tests' \subseteq Modules
  /\ Counters /\ OnlyChanges(p) /\ Typed(p)'

(* The types hold after a step that keeps those of p's record.             *)
LEMMA TypeStepSuffices ==
  ASSUME TypeInv, NEW p \in Procs, TypeStep(p)
  PROVE  TypeInv'
<1>1. TypeOK'
  BY DEF TypeStep, TypeOK, RunType, Versions, DbType, UsersType, Counters, OnlyChanges
<1>2. ASSUME NEW q \in Procs PROVE Typed(q)'
  BY DEF TypeStep, TypeInv, Typed, OnlyChanges
<1> QED
  BY <1>1, <1>2 DEF TypeInv

(* A step that changes only p's record, and perhaps the database, to typed *)
(* values.                                                                 *)
LEMMA OnlyRunTypes ==
  ASSUME TypeInv, NEW p \in Procs, OnlyRunAndDb, db' \in DbType,
         OnlyChanges(p), Typed(p)'
  PROVE  TypeStep(p)
BY TypeFacts DEF TypeStep, OnlyRunAndDb

(* At first no command runs and no version is installed.                   *)
LEMMA TypeInit == Init => TypeInv
<1> SUFFICES ASSUME Init PROVE TypeInv
  OBVIOUS
<1>1. Idle \in RunType
  BY MadpackAssumption DEF Idle, RunType, Labels, AllCommands, Outcomes
<1>2. run \in [Procs -> RunType]
  BY <1>1 DEF Init
<1>3. db \in DbType
  BY EmptySchemaType DEF Init, DbType
<1>4. TypeOK
  BY <1>2, <1>3 DEF Init, TypeOK, RunType, DbType
<1>5. ASSUME NEW p \in Procs PROVE Typed(p)
  BY DEF Init, Idle, Typed, UpgradeOnly, Rebuilding, Building
<1> QED
  BY <1>4, <1>5 DEF TypeInv

(* The statements that change the database.                                *)
LEMMA TypeCommit ==
  ASSUME TypeInv, NEW p \in Procs, Commit(p) \/ CreateSchema(p) \/ ModuleFails(p)
  PROVE  TypeStep(p)
<1> USE DEF Typed, UpgradeOnly, Rebuilding, Building
<1>0. Typed(p) /\ run[p] \in RunType /\ db \in DbType
  BY TypeFacts
<1>1. CASE UninstallDrop(p)
  <2>1. OnlyRunAndDb /\ db' \in DbType
    BY <1>0, <1>1, UninstallDropDoes DEF TargetGone
  <2>2. OnlyChanges(p) /\ Typed(p)'
    BY <1>0, <1>1, UninstallDropDoes DEF Becomes
  <2> QED
    BY <2>1, <2>2, OnlyRunTypes
<1>2. CASE Probe(p)
  <2>1. OnlyRunAndDb /\ db' \in DbType
    BY <1>0, <1>2, ProbeDoes DEF TargetIs
  <2>2. OnlyChanges(p) /\ Typed(p)'
    BY <1>0, <1>2, ProbeDoes DEF Becomes
  <2> QED
    BY <2>1, <2>2, OnlyRunTypes
<1>3. CASE Unprobe(p)
  <2>1. OnlyRunAndDb /\ db' \in DbType
    BY <1>0, <1>3, UnprobeDoes DEF TargetIs
  <2>2. CASE run[p].dbrev # NoRev
    <3>1. Becomes(p, "ask", run[p].outcome, 1, run[p].k, run[p].dbrev, Owed(run[p]))
      BY <1>3, <2>2, UnprobeDoes
    <3>2. OnlyChanges(p) /\ Typed(p)'
      BY <1>0, <2>2, <3>1, UnprobeDoes, <1>3 DEF Becomes
    <3> QED
      BY <2>1, <3>2, OnlyRunTypes
  <2>3. CASE run[p].dbrev = NoRev
    <3>1. Becomes(p, "drophist", run[p].outcome, 2, run[p].k, run[p].dbrev, Owed(run[p]))
      BY <1>3, <2>3, UnprobeDoes
    <3>2. run[p].rev # NoRev
      BY <1>0, <1>3, UnprobeDoes
    <3>3. OnlyChanges(p) /\ Typed(p)'
      BY <3>1, <3>2 DEF Becomes
    <3> QED
      BY <2>1, <3>3, OnlyRunTypes
  <2> QED
    BY <2>2, <2>3
<1>4. CASE Rename(p)
  <2>1. OnlyRunAndDb /\ db' \in DbType
    BY <1>0, <1>4, RenameDoes DEF Moves
  <2>2. OnlyChanges(p) /\ Typed(p)'
    BY <1>0, <1>4, RenameDoes DEF Becomes
  <2> QED
    BY <2>1, <2>2, OnlyRunTypes
<1>5. CASE DropHistory(p)
  <2>1. OnlyRunAndDb /\ db' \in DbType
    BY <1>0, <1>5, DropHistoryDoes DEF TargetIs
  <2>2. OnlyChanges(p) /\ Typed(p)'
    BY <1>0, <1>5, DropHistoryDoes DEF Becomes
  <2> QED
    BY <2>1, <2>2, OnlyRunTypes
<1>6. CASE CreateHistory(p)
  <2>1. OnlyRunAndDb /\ db' \in DbType
    BY <1>0, <1>6, CreateHistoryDoes DEF TargetIs
  <2>2. OnlyChanges(p) /\ Typed(p)'
    BY <1>0, <1>6, CreateHistoryDoes DEF Becomes
  <2> QED
    BY <2>1, <2>2, OnlyRunTypes
<1>7. CASE CopyHistory(p)
  <2>1. OnlyRunAndDb /\ db' \in DbType
    BY <1>0, <1>7, CopyHistoryDoes DEF TargetIs
  <2>2. OnlyChanges(p) /\ Typed(p)'
    BY <1>0, <1>7, CopyHistoryDoes DEF Becomes
  <2> QED
    BY <2>1, <2>2, OnlyRunTypes
<1>8. CASE Stamp(p)
  <2>1. OnlyRunAndDb /\ db' \in DbType
    BY <1>0, <1>8, StampDoes DEF TargetIs
  <2>2. OnlyChanges(p) /\ Typed(p)'
    BY <1>0, <1>8, StampDoes DEF Becomes
  <2> QED
    BY <2>1, <2>2, OnlyRunTypes
<1>9. CASE InstallModule(p)
  <2>1. OnlyRunAndDb /\ db' \in DbType
    BY <1>0, <1>9, InstallModuleDoes DEF TargetIs
  <2>2. OnlyChanges(p) /\ Typed(p)'
    BY <1>0, <1>9, InstallModuleDoes DEF Becomes
  <2> QED
    BY <2>1, <2>2, OnlyRunTypes
<1>10. CASE RollbackDrop(p)
  <2>1. OnlyRunAndDb /\ db' \in DbType
    BY <1>0, <1>10, RollbackDropDoes DEF TargetGone
  <2>2. OnlyChanges(p) /\ Typed(p)'
    BY <1>0, <1>10, RollbackDropDoes DEF Becomes
  <2> QED
    BY <2>1, <2>2, OnlyRunTypes
<1>11. CASE RollbackRestore(p)
  <2>1. OnlyRunAndDb /\ db' \in DbType
    BY <1>0, <1>11, RollbackRestoreDoes DEF Moves
  <2>2. OnlyChanges(p) /\ Typed(p)'
    BY <1>0, <1>11, RollbackRestoreDoes DEF Becomes
  <2> QED
    BY <2>1, <2>2, OnlyRunTypes
<1>12. CASE CreateSchema(p)
  <2>1. OnlyRunAndDb /\ db' \in DbType
    BY <1>0, <1>12, CreateSchemaDoes DEF TargetIs
  <2>2. OnlyChanges(p) /\ Typed(p)'
    BY <1>0, <1>12, CreateSchemaDoes DEF Becomes
  <2> QED
    BY <2>1, <2>2, OnlyRunTypes
<1>13. CASE ModuleFails(p)
  <2>1. OnlyRunAndDb /\ db' \in DbType
    BY <1>0, <1>13, ModuleFailsDoes DEF TargetIs
  <2>2. OnlyChanges(p) /\ Typed(p)'
    BY <1>0, <1>13, ModuleFailsDoes, ObjectsFailedDoes DEF Becomes
  <2> QED
    BY <2>1, <2>2, OnlyRunTypes
<1> QED
  BY <1>1, <1>2, <1>3, <1>4, <1>5, <1>6, <1>7, <1>8, <1>9, <1>10, <1>11, <1>12, <1>13 DEF Commit

\* The steps that change no database object: decisions, prompts, failures and
\* the ends of commands.
Elsewhere(p) ==
  \/ Uninstall(p) \/ Confirm(p) \/ Reread(p) \/ Compare(p) \/ PlpyCheck(p)
  \/ Ask(p) \/ Installed(p) \/ UninstallDropFails(p) \/ ProbeFails(p)
  \/ RenameFails(p) \/ HistoryFails(p) \/ RollbackFails(p) \/ Crash(p)
  \/ Check(p) \/ DropUserFails(p) \/ SkipTest(p) \/ CheckFails(p)

\* Where such a step leads from label l, for a command that does not end there.
Leads(p, l, m) ==
  \/ l = "uninstall" /\ m = "confirm" /\ run[p].dbrev # NoRev
  \/ l = "confirm" /\ m = "drop"
  \/ l = "compare" /\ m = "plpy"
  \/ l = "plpy" /\ m = "probe"
  \/ l = "ask" /\ m = "rename"
  \/ l \in {"drophist", "createhist", "copyhist", "stamp"} /\ m = "rollback"
       /\ run[p].case # 2
  \/ l = "check" /\ m = "dropuser"
  \/ l = "dropuser" /\ m = "dropowned"
  \/ l = "opentest" /\ m = "disown" /\ run[p].k > Len(ModuleSeq)

\* The labels at which a command ends with an outcome.
Ends(p, l, o) ==
  \/ l = "uninstall" /\ o = "nothing"
  \/ l \in {"confirm", "ask"} /\ o = "declined"
  \/ l = "compare" /\ o = "uptodate"
  \/ l \in {"plpy", "drop", "rename", "dropowned", "dropuser2", "createuser",
            "grant", "opentest", "closetest", "disown", "cleanuser", "uninstall",
            "reread"} /\ o = "aborted"
  \/ l = "module" /\ o = "success" /\ run[p].k > Len(ModuleSeq)
  \/ l \in {"drophist", "createhist", "copyhist", "stamp"} /\ o = "partial" /\ run[p].case = 2
  \/ l \in {"rollback", "restore"} /\ o = "rollbackstopped" /\ Fails(p)
  \/ l = "check" /\ o = "mismatch"
  \/ l \in CrashPoints /\ o = "killed"

(* What those steps do, by where they lead.                                *)
LEMMA ElsewhereDoes ==
  ASSUME TypeInv, NEW p \in Procs, Elsewhere(p)
  PROVE  LET r == run[p]
         IN /\ OnlyRun
            /\ \/ \E l \in Labels : /\ Leads(p, r.pc, l)
                     /\ Becomes(p, l, r.outcome, r.case, r.k, r.dbrev, Owed(r))
               \/ \E o \in Outcomes : /\ Ends(p, r.pc, o)
                     /\ Becomes(p, "idle", o, r.case, r.k, r.dbrev, Owed(r))
               \/ /\ r.pc = "reread"
                  /\ Becomes(p, "compare", r.outcome, r.case, r.k, DbRev(db[Target]),
                             Owed(r))
               \/ /\ r.pc \in {"probe", "unprobe"} /\ Fails(p)
                  /\ Becomes(p, "create", r.outcome, 3, r.k, r.dbrev, Owed(r))
               \/ /\ r.pc = "opentest" /\ r.k <= Len(ModuleSeq)
                  /\ ModuleSeq[r.k] \notin r.picked
                  /\ Becomes(p, r.pc, r.outcome, r.case, r.k + 1, r.dbrev, Owed(r))
<1> DEFINE r == run[p]
<1>1. /\ db \in DbType /\ run \in [Procs -> RunType] /\ r \in RunType
      /\ faults \in Nat /\ crashes \in Nat /\ runs \in Nat
  BY TypeFacts
<1>2. OnlyRun
  BY <1>1, FailsCounts
     DEF Elsewhere, OnlyRun, OnlyRunAndDb, Counters, Quiet, NoSQL, Uninstall, Confirm,
         Reread, Compare, PlpyCheck, Ask, Installed, UninstallDropFails, ProbeFails,
         RenameFails, HistoryFails, RollbackFails, Crash, Check, DropUserFails,
         SkipTest, CheckFails
<1>3. \/ \E l \in Labels : Leads(p, r.pc, l) /\ Goto(p, l)
      \/ \E o \in Outcomes : Ends(p, r.pc, o) /\ End(p, o)
      \/ /\ r.pc = "reread"
         /\ run' = [run EXCEPT ![p].pc = "compare", ![p].dbrev = DbRev(db[Target])]
      \/ ProbeFails(p)
      \/ /\ r.pc = "opentest" /\ r.k <= Len(ModuleSeq) /\ ModuleSeq[r.k] \notin r.picked
         /\ run' = [run EXCEPT ![p].k = @ + 1]
  <2>1. CASE Uninstall(p)
    BY <2>1 DEF Uninstall, At, Leads, Ends, Labels, Outcomes, RevNum
  <2>2. CASE Confirm(p)
    BY <2>2 DEF Confirm, At, Leads, Ends, Labels, Outcomes
  <2>3. CASE Compare(p)
    BY <2>3 DEF Compare, At, Leads, Ends, Labels, Outcomes
  <2>4. CASE PlpyCheck(p)
    BY <2>4 DEF PlpyCheck, At, Leads, Ends, Labels, Outcomes
  <2>5. CASE Ask(p)
    BY <2>5 DEF Ask, At, Leads, Ends, Labels, Outcomes
  <2>6. CASE Installed(p)
    BY <2>6 DEF Installed, At, Leads, Ends, Labels, Outcomes
  <2>7. CASE UninstallDropFails(p)
    BY <2>7 DEF UninstallDropFails, At, Leads, Ends, Labels, Outcomes
  <2>8. CASE RenameFails(p)
    BY <2>8 DEF RenameFails, At, Leads, Ends, Labels, Outcomes
  <2>9. CASE RollbackFails(p)
    BY <2>9 DEF RollbackFails, At, Leads, Ends, Labels, Outcomes
  <2>10. CASE HistoryFails(p)
    BY <2>10 DEF HistoryFails, At, Leads, Ends, Labels, Outcomes, ObjectsFailed
  <2>11. CASE Crash(p)
    BY <2>11 DEF Crash, At, Leads, Ends, Labels, Outcomes
  <2>12. CASE Check(p)
    BY <2>12 DEF Check, At, Leads, Ends, Labels, Outcomes
  <2>13. CASE DropUserFails(p)
    BY <2>13 DEF DropUserFails, At, Leads, Ends, Labels, Outcomes
  <2>14. CASE CheckFails(p)
    BY <2>14 DEF CheckFails, At, Leads, Ends, Labels, Outcomes
  <2>15. CASE SkipTest(p)
    BY <2>15 DEF SkipTest, At, Leads, Ends, Labels, Outcomes
  <2>16. CASE Reread(p)
    BY <2>16 DEF Reread, At, Ends, Outcomes
  <2> QED
    BY <2>1, <2>2, <2>3, <2>4, <2>5, <2>6, <2>7, <2>8, <2>9, <2>10, <2>11, <2>12, <2>13, <2>14, <2>15, <2>16 DEF Elsewhere
<1>4. CASE \E l \in Labels : Leads(p, r.pc, l) /\ Goto(p, l)
  BY <1>1, <1>2, <1>4, GotoRun
<1>5. CASE \E o \in Outcomes : Ends(p, r.pc, o) /\ End(p, o)
  BY <1>1, <1>2, <1>5, EndRun
<1>6. CASE /\ r.pc = "reread"
           /\ run' = [run EXCEPT ![p].pc = "compare", ![p].dbrev = DbRev(db[Target])]
  BY <1>1, <1>2, <1>6, RereadRun, DbRevType, NamesFacts DEF DbType
<1>7. CASE ProbeFails(p)
  BY <1>1, <1>2, <1>7, ToCaseRun DEF ProbeFails, At, Labels
<1>8. CASE /\ r.pc = "opentest" /\ r.k <= Len(ModuleSeq) /\ ModuleSeq[r.k] \notin r.picked
           /\ run' = [run EXCEPT ![p].k = @ + 1]
  BY <1>1, <1>2, <1>8, NextModuleRun
<1> QED
  BY <1>3, <1>4, <1>5, <1>6, <1>7, <1>8

(* The steps that change no database object keep the types.                *)
LEMMA TypeElsewhere ==
  ASSUME TypeInv, NEW p \in Procs, Elsewhere(p)
  PROVE  TypeStep(p)
<1> DEFINE r == run[p]
<1>1. Typed(p) /\ r \in RunType /\ db \in DbType /\ NoRev \notin Revs
  BY TypeFacts, NamesFacts
<1>2. OnlyRunAndDb /\ db' \in DbType
  BY <1>1, ElsewhereDoes DEF OnlyRun
<1>3. OnlyChanges(p) /\ Typed(p)'
  <2> USE DEF Becomes, Typed, UpgradeOnly, Rebuilding, Building
  <2>1. CASE \E l \in Labels : /\ Leads(p, r.pc, l)
                 /\ Becomes(p, l, r.outcome, r.case, r.k, r.dbrev, Owed(r))
    BY <1>1, <2>1 DEF Leads, RunType
  <2>2. CASE \E o \in Outcomes :
                 Becomes(p, "idle", o, r.case, r.k, r.dbrev, Owed(r))
    BY <2>2
  <2>3. CASE /\ r.pc = "reread"
             /\ Becomes(p, "compare", r.outcome, r.case, r.k, DbRev(db[Target]),
                        Owed(r))
    BY <1>1, <2>3
  <2>4. CASE /\ r.pc \in {"probe", "unprobe"}
             /\ Becomes(p, "create", r.outcome, 3, r.k, r.dbrev, Owed(r))
    BY <1>1, <2>4
  <2>5. CASE /\ r.pc = "opentest"
             /\ Becomes(p, r.pc, r.outcome, r.case, r.k + 1, r.dbrev, Owed(r))
    BY <1>1, <2>5
  <2> QED
    BY ElsewhereDoes, <2>1, <2>2, <2>3, <2>4, <2>5
<1> QED
  BY <1>2, <1>3, OnlyRunTypes

\* The steps of a check that change the users or the test schemas.
UserStep(p) == DropUser(p) \/ DropOwned(p) \/ CreateUser(p) \/ Grant(p)

\* Where a statement about the user leads.
UserLeads(l, m) == \/ l \in {"dropuser", "dropuser2"} /\ m = "createuser"
                   \/ l = "dropowned" /\ m = "dropuser2"
                   \/ l = "disown" /\ m = "cleanuser"
                   \/ l = "createuser" /\ m = "grant"
                   \/ l = "grant" /\ m = "opentest"

(* DROP, CREATE and GRANT of the install-check's user.                     *)
LEMMA UserStepDoes ==
  ASSUME TypeInv, NEW p \in Procs, UserStep(p)
  PROVE  LET r == run[p]
         IN /\ db' = db /\ tests' = tests /\ users' \in UsersType /\ Counters
            /\ \/ \E l \in Labels : /\ UserLeads(r.pc, l)
                     /\ Becomes(p, l, r.outcome, r.case, r.k, r.dbrev, Owed(r))
               \/ /\ r.pc = "cleanuser" /\ users'[User(p)] = "none"
                  /\ Becomes(p, "idle", "checked", r.case, r.k, r.dbrev, Owed(r))
<1> DEFINE r == run[p]
<1>1. /\ db \in DbType /\ run \in [Procs -> RunType] /\ r \in RunType /\ Typed(p)
      /\ users \in UsersType /\ faults \in Nat /\ crashes \in Nat /\ runs \in Nat
  BY TypeFacts
<1>2. db' = db /\ tests' = tests /\ Counters
  BY <1>1 DEF UserStep, DropUser, DropOwned, CreateUser, Grant, SetUser, Succeeds, Counters
<1>3. \E u \in {"none", "bare", "privileged"} : users' = [users EXCEPT ![User(p)] = u]
  BY DEF UserStep, DropUser, DropOwned, CreateUser, Grant, SetUser
<1>4. users' \in UsersType
  BY <1>1, <1>3 DEF UsersType
<1>5. \/ \E l \in Labels : UserLeads(r.pc, l) /\ Goto(p, l)
      \/ /\ r.pc = "cleanuser" /\ End(p, "checked")
         /\ users' = [users EXCEPT ![User(p)] = "none"]
  BY DEF UserStep, DropUser, DropOwned, CreateUser, Grant, SetUser, At, UserLeads, Labels
<1>6. CASE \E l \in Labels : UserLeads(r.pc, l) /\ Goto(p, l)
  BY <1>1, <1>2, <1>4, <1>6, GotoRun
<1>7. CASE /\ r.pc = "cleanuser" /\ End(p, "checked")
           /\ users' = [users EXCEPT ![User(p)] = "none"]
  <2>1. User(p) \in Versions
    BY <1>1, <1>7, NamesFacts DEF Typed, User, RunType
  <2>2. users'[User(p)] = "none"
    BY <1>1, <1>7, <2>1 DEF UsersType
  <2>3. Becomes(p, "idle", "checked", r.case, r.k, r.dbrev, Owed(r))
    BY <1>1, <1>7, EndRun DEF Outcomes
  <2> QED
    BY <1>2, <1>4, <1>7, <2>2, <2>3
<1> QED
  BY <1>5, <1>6, <1>7

(* CREATE SCHEMA for a module's tests.                                     *)
LEMMA OpenTestDoes ==
  ASSUME TypeInv, NEW p \in Procs, OpenTest(p)
  PROVE  LET r == run[p]
         IN /\ r.pc = "opentest" /\ db' = db /\ users' = users /\ Counters
            /\ r.k <= Len(ModuleSeq) /\ ModuleSeq[r.k] \in Modules
            /\ tests' = tests \cup {ModuleSeq[r.k]}
            /\ Becomes(p, "closetest", r.outcome, r.case, r.k, r.dbrev, Owed(r))
<1>1. /\ run \in [Procs -> RunType] /\ run[p] \in RunType
      /\ faults \in Nat /\ crashes \in Nat /\ runs \in Nat
  BY TypeFacts
<1> QED
  BY <1>1, GotoRun, ModuleAt DEF OpenTest, At, Succeeds, Counters, RunType, Labels

(* DROP SCHEMA after a module's tests.                                     *)
LEMMA CloseTestDoes ==
  ASSUME TypeInv, NEW p \in Procs, CloseTest(p)
  PROVE  LET r == run[p]
         IN /\ r.pc = "closetest" /\ db' = db /\ users' = users /\ Counters
            /\ r.k <= Len(ModuleSeq) /\ tests' = tests \ {ModuleSeq[r.k]}
            /\ Becomes(p, "opentest", r.outcome, r.case, r.k + 1, r.dbrev, Owed(r))
<1>1. /\ run \in [Procs -> RunType] /\ run[p] \in RunType /\ Typed(p)
      /\ faults \in Nat /\ crashes \in Nat /\ runs \in Nat
  BY TypeFacts
<1>2. run[p].pc = "closetest" /\ run[p].k <= Len(ModuleSeq)
  BY <1>1 DEF CloseTest, At, Typed
<1> QED
  BY <1>1, <1>2, CloseTestRun DEF CloseTest, Succeeds, Counters, Labels

\* A command is started, from the terminals and with the arguments of Next.
Starts(p) ==
  \E c \in Commands, v \in Revs :
    \E ms \in IF c = "check" THEN SUBSET Modules ELSE {{}} : Start(p, c, v, ms)

(* main() reads the version in the database before any command.            *)
LEMMA StartDoes ==
  ASSUME TypeInv, NEW p \in Procs, Starts(p)
  PROVE  LET r == run[p]
             s == run'[p]
         IN /\ r.pc = "idle" /\ OnlyRun /\ OnlyChanges(p)
            /\ s.pc \in {"uninstall", "compare", "check"} /\ s.rev \in Revs
            /\ s.dbrev = DbRev(db[Target]) /\ Owed(s) = db[Target]
            /\ s.case = 0 /\ s.k = 1 /\ s.outcome = "none" /\ s.picked \subseteq Modules
<1>1. /\ db \in DbType /\ run \in [Procs -> RunType]
      /\ faults \in Nat /\ crashes \in Nat /\ runs \in Nat
  BY TypeFacts
<1>2. PICK c \in Commands, v \in Revs, ms \in SUBSET Modules : Start(p, c, v, ms)
  BY DEF Starts
<1> DEFINE s == [Idle EXCEPT !.pc = FirstLabel(c), !.cmd = c, !.rev = v,
                   !.dbrev = DbRev(db[Target]), !.picked = ms, !.before = db[Target]]
<1>3. run' = [run EXCEPT ![p] = s]
  BY <1>2 DEF Start
<1>4. FirstLabel(c) \in {"uninstall", "compare", "check"} /\ c \in AllCommands
  <2>1. c \in AllCommands
    BY MadpackAssumption
  <2> QED
    BY <2>1 DEF FirstLabel, AllCommands
<1>5. /\ s.pc = FirstLabel(c) /\ s.cmd = c /\ s.rev = v /\ s.dbrev = DbRev(db[Target])
      /\ s.case = 0 /\ s.k = 1 /\ s.picked = ms /\ s.outcome = "none"
      /\ Owed(s) = db[Target]
  BY DEF Idle, Owed
<1>6. s \in RunType
  <2>1. DbRev(db[Target]) \in Revs \cup {NoRev} /\ db[Target] \in Schema \cup {NoSchema}
    BY <1>1, DbRevType, NamesFacts DEF DbType
  <2>2. 1 \in 1..(Len(ModuleSeq) + 1)
    BY LenModuleSeq
  <2>3. Idle \in RunType
    BY <2>2 DEF Idle, RunType, Labels, AllCommands, Outcomes
  <2>4. FirstLabel(c) \in Labels
    BY <1>4 DEF Labels
  <2> QED
    BY <1>4, <2>1, <2>3, <2>4 DEF RunType
<1> HIDE DEF s
<1>7. OnlyChanges(p) /\ run'[p] = s
  BY <1>1, <1>3, <1>6 DEF OnlyChanges
<1>8. run[p].pc = "idle" /\ OnlyRun
  BY <1>1, <1>2 DEF Start, At, OnlyRun, OnlyRunAndDb, NoSQL, Counters
<1> QED
  BY <1>4, <1>5, <1>7, <1>8

(* The steps of an install-check keep the types.                           *)
LEMMA TypeCheck ==
  ASSUME TypeInv, NEW p \in Procs, UserStep(p) \/ OpenTest(p) \/ CloseTest(p)
  PROVE  TypeStep(p)
<1> USE DEF Typed, UpgradeOnly, Rebuilding, Building, Becomes
<1>1. /\ Typed(p) /\ run[p] \in RunType /\ db \in DbType /\ users \in UsersType
      /\ tests \subseteq Modules
  BY TypeFacts
<1>2. CASE UserStep(p)
  BY <1>1, <1>2, UserStepDoes DEF TypeStep, UserLeads
<1>3. CASE OpenTest(p)
  BY <1>1, <1>3, OpenTestDoes DEF TypeStep
<1>4. CASE CloseTest(p)
  BY <1>1, <1>4, CloseTestDoes DEF TypeStep
<1> QED
  BY <1>2, <1>3, <1>4

(* The start of a command keeps the types.                                 *)
LEMMA TypeStart ==
  ASSUME TypeInv, NEW p \in Procs, Starts(p)
  PROVE  TypeStep(p)
<1>1. db \in DbType
  BY TypeFacts
<1>2. OnlyRunAndDb /\ OnlyChanges(p) /\ db' \in DbType
  BY <1>1, StartDoes DEF OnlyRun
<1>3. Typed(p)'
  BY StartDoes, NamesFacts DEF Typed, UpgradeOnly, Rebuilding, Building
<1> QED
  BY <1>2, <1>3, OnlyRunTypes

(* Every step of the specification is one of these.                        *)
LEMMA StepCases ==
  ASSUME Next
  PROVE  \E p \in Procs : \/ Commit(p) \/ CreateSchema(p) \/ ModuleFails(p)
                          \/ Elsewhere(p)
                          \/ UserStep(p) \/ OpenTest(p) \/ CloseTest(p)
                          \/ Starts(p)
BY DEF Next, Step, Decide, Fault, CheckStep, Elsewhere, UserStep, Starts

(* The states are well typed, and a command that names a backup schema     *)
(* knows a version, whatever operators, failures and deaths do.            *)
THEOREM TypeInvariant == Spec => []TypeInv
<1>1. TypeInv /\ [Next]_vars => TypeInv'
  <2> SUFFICES ASSUME TypeInv, [Next]_vars PROVE TypeInv'
    OBVIOUS
  <2>1. CASE Next
    BY <2>1, StepCases, TypeCommit, TypeElsewhere, TypeCheck, TypeStart, TypeStepSuffices
  <2>2. CASE UNCHANGED vars
    BY <2>2 DEF vars, TypeInv, TypeOK, Typed
  <2> QED
    BY <2>1, <2>2
<1> QED
  BY TypeInit, <1>1, PTL DEF Spec

(* In particular TypeOK holds: every schema name madpack uses, every label *)
(* and every value it keeps is one of those the model declares.            *)
THEOREM TypeCorrect == Spec => []TypeOK
<1>1. TypeInv => TypeOK
  BY DEF TypeInv
<1> QED
  BY TypeInvariant, <1>1, PTL

-----------------------------------------------------------------------------
(* The promises, to one operator at a time.                                *)

\* The tool takes no lock: two operators at a time are outside its promises.
OneOperator == \A p, q \in Procs : p = q

\* The two statements of the writability probe succeed where they can, and the
\* tool does not die between them: a schema whose probe fails is taken for a
\* missing one (MadpackProbe.cfg shows what that leads to).
ProbeIsSafe == /\ FaultPoints \cap {"probe", "unprobe"} = {}
               /\ "unprobe" \notin CrashPoints

\* Modules.yml names a module once.
ModulesDiffer ==
  \A i, j \in DOMAIN ModuleSeq : ModuleSeq[i] = ModuleSeq[j] => i = j

Looping == {"opentest", "closetest", "disown", "cleanuser"}
Checking == Looping \cup {"check", "dropuser", "dropowned", "dropuser2",
                          "createuser", "grant"}

\* Until here a command has not touched the target, or has put it back.
Untouched == Checking \cup {"uninstall", "confirm", "drop", "reread", "compare",
                            "plpy", "probe", "ask", "rename"}

\* The history an installation continues: the old one in an upgrade.
Old(p) == IF run[p].case = 1 THEN Owed(run[p]).hist ELSE << >>

Bare(s) == \A m \in Modules : s.objs[m] = Absent

\* What the target schema holds, by the position of the command.
TargetOK(p) ==
  LET r == run[p]
      t == db[Target]
  IN /\ t # NoSchema => t.probe = (r.pc = "unprobe")
     /\ t # NoSchema /\ DbRev(t) = NoRev => Bare(t)
     /\ r.pc \in Untouched => t = Owed(r)
     /\ r.pc = "unprobe" => /\ t # NoSchema /\ Owed(r) # NoSchema
                            /\ t.table = Owed(r).table
                            /\ t.hist = Owed(r).hist /\ t.objs = Owed(r).objs
     /\ r.pc \in {"create", "restore"} => t = NoSchema
     /\ r.pc = "drophist" => IF r.case = 2 THEN t # NoSchema /\ t = Owed(r)
                                           ELSE t \in {NoSchema, EmptySchema}
     /\ r.pc \in {"createhist", "copyhist"} =>
           t # NoSchema /\ t.hist = << >> /\ Bare(t)
     /\ r.pc = "stamp" => t # NoSchema /\ t.table /\ t.hist = Old(p) /\ Bare(t)
     /\ r.pc = "module" =>
           /\ t # NoSchema /\ t.table /\ t.hist = Append(Old(p), r.rev)
           /\ \A i \in DOMAIN ModuleSeq :
                 t.objs[ModuleSeq[i]] = IF i < r.k THEN r.rev ELSE Absent
     /\ r.pc = "rollback" =>
           (Complete(t) => r.case = 1 /\ Content(t) = Content(Owed(r)))

\* What the command knows of where it started, and where the old installation
\* is while an upgrade is under way.
CaseOK(p) ==
  LET r == run[p]
  IN /\ r.pc \notin {"idle", "reread"} => r.dbrev = DbRev(Owed(r))
     /\ r.pc # "idle" /\ Owed(r) # NoSchema => Owed(r).probe = FALSE
     /\ r.pc \in Building => r.case \in {1, 2, 3}
     /\ r.pc \in {"create", "rollback"} => r.case \in {1, 3}
     /\ r.pc \in Rebuilding /\ r.case = 1 => db[Backup(p)] = Owed(r)
     /\ r.pc \in Rebuilding /\ r.case = 2 => r.dbrev = NoRev
     /\ r.pc \in Rebuilding /\ r.case = 3 => Owed(r) = NoSchema
     /\ r.pc \notin Looping \cup {"idle", "module", "rollback", "restore"} => r.k = 1
     /\ r.outcome # "none" => r.pc = "idle"

\* What the check has left of test schemas in the modules it is done with.
TestsOK(p) ==
  LET r == run[p]
  IN /\ r.pc = "opentest" =>
          \A i \in 1..(r.k - 1) : ModuleSeq[i] \notin tests \cap r.picked
     /\ r.pc = "closetest" =>
          \A i \in 1..(r.k - 1) :
             ModuleSeq[i] \notin (tests \ {ModuleSeq[r.k]}) \cap r.picked
     /\ r.pc \in {"disown", "cleanuser"} => tests \cap r.picked = {}

Restored == {"nothing", "declined", "aborted", "uptodate", "rolledback", "mismatch",
             "checked"}

\* FailureRestores, SuccessMeansInstalled and CheckLeavesNoTrace of one command.
OutcomeOK(p) ==
  LET r == run[p]
  IN /\ r.outcome \in Restored => db[Target] = Owed(r)
     /\ r.outcome = "success" =>
          /\ Complete(db[Target]) /\ DbRev(db[Target]) = r.rev
          /\ db[Target].hist =
               Append(IF DbRev(Owed(r)) = NoRev THEN << >> ELSE Owed(r).hist, r.rev)
     /\ r.outcome = "checked" =>
          users[User(p)] = "none" /\ tests \cap r.picked = {}

SafeAt(p) == TargetOK(p) /\ CaseOK(p) /\ TestsOK(p) /\ OutcomeOK(p)

\* The inductive invariant.
SafeInv == TypeInv /\ BackupsAreNamed /\ \A p \in Procs : SafeAt(p)

-----------------------------------------------------------------------------
(* The invariant holds at first and after every step of the one operator.  *)

\* What a step of the one process must show for SafeInv to hold after it.
SafeStep(p) == BackupsAreNamed' /\ SafeAt(p)'

(* Schemas with the same contents are equal.                               *)
LEMMA SameSchema ==
  ASSUME NEW s \in Schema, NEW t \in Schema, s.table = t.table, s.hist = t.hist,
         s.objs = t.objs, s.probe = t.probe
  PROVE  s = t
BY DEF Schema

(* Of a schema, __get_madlib_dbver and a check of what is installed read   *)
(* the history and the objects only.                                       *)
LEMMA SameContent ==
  ASSUME NEW s \in Schema, NEW t \in Schema, s.table = t.table, s.hist = t.hist
  PROVE  /\ DbRev(s) = DbRev(t)
         /\ s.objs = t.objs => (Bare(s) <=> Bare(t)) /\ (Complete(s) <=> Complete(t))
BY NoSchemaAssumption DEF DbRev, Bare, Complete

(* The backups are as they were, and named as they were.                   *)
LEMMA SameBackups ==
  ASSUME BackupsAreNamed, \A n \in Names \ {Target} : db'[n] = db[n]
  PROVE  BackupsAreNamed'
BY DEF BackupsAreNamed, HasSchema

(* In an upgrade the old installation is found under its backup name.      *)
LEMMA BackupName ==
  ASSUME TypeInv, NEW p \in Procs, run[p].dbrev # NoRev
  PROVE  Backup(p) \in Names \ {Target}
BY TypeFacts, NamesFacts DEF Backup, RunType

(* The part of the invariant about a process, and that of its facts every  *)
(* step uses.                                                              *)
LEMMA SafeFacts ==
  ASSUME SafeInv, NEW p \in Procs
  PROVE  /\ TypeInv /\ BackupsAreNamed
         /\ TargetOK(p) /\ CaseOK(p) /\ TestsOK(p) /\ OutcomeOK(p)
         /\ db[Target] \in Schema \cup {NoSchema} /\ run[p] \in RunType
         /\ NoSchema \notin Schema /\ Typed(p)
         /\ Owed(run[p]) \in Schema \cup {NoSchema}
<1>1. /\ TypeInv /\ BackupsAreNamed
         /\ TargetOK(p) /\ CaseOK(p) /\ TestsOK(p) /\ OutcomeOK(p)
  BY DEF SafeInv, SafeAt
<1>2. run[p] \in RunType /\ db \in DbType
  BY <1>1, TypeFacts
<1>3. Owed(run[p]) \in Schema \cup {NoSchema}
  BY <1>2 DEF RunType, Owed
<1> QED
  BY <1>1, <1>2, <1>3, TypeFacts, NamesFacts DEF DbType

(* While a command goes on, only the check's loop has a duty about tests,  *)
(* and there is no outcome yet.                                            *)
LEMMA GoesOn ==
  ASSUME NEW p \in Procs, CaseOK(p), run[p].pc # "idle",
         run'[p].outcome = run[p].outcome,
         run'[p].pc \notin Looping \cup {"idle"}
  PROVE  /\ TestsOK(p)' /\ OutcomeOK(p)'
         /\ run[p].outcome = "none" /\ run'[p].outcome = "none"
BY DEF CaseOK, TestsOK, OutcomeOK, Restored, Looping

(* The two statements of the writability probe: CASE #1 keeps, behind its  *)
(* prompt, the target it found; CASE #2 has found one without a version.   *)
LEMMA SafeProbe ==
  ASSUME SafeInv, NEW p \in Procs, Probe(p)
  PROVE  SafeStep(p)
<1> DEFINE r == run[p]
           t == db[Target]
           s == run'[p]
           u == db'[Target]
<1>1. /\ r.pc = "probe" /\ t \in Schema
      /\ Becomes(p, "unprobe", r.outcome, r.case, r.k, r.dbrev, Owed(r))
      /\ TargetIs(t.table, t.hist, t.objs, TRUE)
  BY SafeFacts, ProbeDoes
<1>2. BackupsAreNamed'
  BY <1>1, SafeFacts, SameBackups DEF TargetIs
<1>3. TargetOK(p)'
  <2>1. /\ u \in Schema /\ u.table = t.table /\ u.hist = t.hist /\ u.objs = t.objs
        /\ u.probe = TRUE /\ s.pc = "unprobe" /\ Owed(s) = Owed(r)
    BY <1>1 DEF TargetIs, Becomes
  <2>2. Owed(r) = t /\ t.probe = FALSE /\ t # NoSchema /\ (DbRev(t) = NoRev => Bare(t))
    BY <1>1, SafeFacts DEF TargetOK, Untouched
  <2>3. DbRev(u) = DbRev(t) /\ (Bare(u) <=> Bare(t))
    BY <1>1, <2>1, SameContent
  <2>4. u # NoSchema
    BY <2>1, NamesFacts
  <2> QED
    BY <2>1, <2>2, <2>3, <2>4 DEF TargetOK, Untouched, Checking, Looping
<1>4. SafeStep(p)
  <2>1. CaseOK(p)
    BY SafeFacts
  <2>2. s.dbrev = DbRev(Owed(s)) /\ s.k = 1 /\ s.outcome = "none" /\ s.pc = "unprobe"
    BY <1>1, <2>1 DEF CaseOK, Becomes, Looping
  <2>3. Owed(s) # NoSchema => Owed(s).probe = FALSE
    BY <1>1, <2>1 DEF CaseOK, Becomes
  <2>4. CaseOK(p)'
    BY <2>2, <2>3 DEF CaseOK, Rebuilding, Building
  <2>5. TestsOK(p)' /\ OutcomeOK(p)'
    BY <1>1, <2>1, <2>2, GoesOn DEF Becomes, Looping
  <2> QED
    BY <1>2, <1>3, <2>4, <2>5 DEF SafeStep, SafeAt
<1> QED
  BY <1>4

(* The probe table is dropped again: the target is as it was found.        *)
LEMMA SafeUnprobe ==
  ASSUME SafeInv, NEW p \in Procs, Unprobe(p)
  PROVE  SafeStep(p)
<1> DEFINE r == run[p]
           t == db[Target]
           s == run'[p]
           u == db'[Target]
<1>1. /\ r.pc = "unprobe" /\ t \in Schema
      /\ s.outcome = r.outcome /\ s.k = r.k /\ s.dbrev = r.dbrev /\ Owed(s) = Owed(r)
      /\ IF r.dbrev # NoRev THEN s.pc = "ask" /\ s.case = 1
                            ELSE s.pc = "drophist" /\ s.case = 2
      /\ TargetIs(t.table, t.hist, t.objs, FALSE)
  BY SafeFacts, UnprobeDoes DEF Becomes
<1>2. BackupsAreNamed'
  BY <1>1, SafeFacts, SameBackups DEF TargetIs
<1>3. /\ CaseOK(p) /\ Owed(r) \in Schema /\ Owed(r).probe = FALSE /\ r.outcome = "none"
      /\ r.dbrev = DbRev(Owed(r)) /\ r.k = 1
      /\ t.table = Owed(r).table /\ t.hist = Owed(r).hist /\ t.objs = Owed(r).objs
      /\ (DbRev(t) = NoRev => Bare(t))
  <2>1. CaseOK(p) /\ TargetOK(p) /\ Owed(r) \in Schema \cup {NoSchema} /\ t # NoSchema
    BY <1>1, SafeFacts
  <2>2. /\ Owed(r) # NoSchema /\ (DbRev(t) = NoRev => Bare(t))
        /\ t.table = Owed(r).table /\ t.hist = Owed(r).hist /\ t.objs = Owed(r).objs
    BY <1>1, <2>1 DEF TargetOK
  <2>3. r.outcome = "none" /\ r.k = 1 /\ Owed(r).probe = FALSE /\ r.dbrev = DbRev(Owed(r))
    BY <1>1, <2>1, <2>2 DEF CaseOK, Looping
  <2> QED
    BY <2>1, <2>2, <2>3
<1>4. /\ u = Owed(r) /\ u # NoSchema /\ u.probe = FALSE /\ (DbRev(u) = NoRev => Bare(u))
  <2>1. /\ u \in Schema /\ u.table = t.table /\ u.hist = t.hist /\ u.objs = t.objs
        /\ u.probe = FALSE
    BY <1>1 DEF TargetIs
  <2>2. u = Owed(r)
    BY <1>3, <2>1, SameSchema DEF Schema
  <2>3. DbRev(u) = DbRev(t) /\ (Bare(u) <=> Bare(t))
    BY <1>1, <2>1, SameContent
  <2> QED
    BY <1>3, <2>1, <2>2, <2>3, NamesFacts
<1>5. TargetOK(p)'
  BY <1>1, <1>4 DEF TargetOK, Untouched, Checking, Looping
<1>6. CaseOK(p)'
  BY <1>1, <1>3 DEF CaseOK, Rebuilding, Building
<1>7. TestsOK(p)' /\ OutcomeOK(p)'
  BY <1>1, <1>3, GoesOn DEF Looping
<1> QED
  BY <1>2, <1>5, <1>6, <1>7 DEF SafeStep, SafeAt

(* A statement of __db_create_objects leaves the case, the version found   *)
(* and the backup as they were.                                            *)
LEMMA CaseStays ==
  ASSUME NEW p \in Procs, SafeInv, run[p].pc \in Building,
         \A n \in Names \ {Target} : db'[n] = db[n],
         run'[p].pc \in Building, run'[p].case = run[p].case,
         run'[p].dbrev = run[p].dbrev, Owed(run'[p]) = Owed(run[p]),
         run'[p].outcome = run[p].outcome,
         run'[p].pc # "module" => run'[p].k = 1
  PROVE  CaseOK(p)'
<1> DEFINE r == run[p]
           s == run'[p]
<1>1. CaseOK(p) /\ Typed(p) /\ TypeInv
  BY SafeFacts
<1>2. /\ r.dbrev = DbRev(Owed(r)) /\ r.case \in {1, 2, 3} /\ r.outcome = "none"
      /\ (Owed(r) # NoSchema => Owed(r).probe = FALSE)
      /\ (r.case = 2 => r.dbrev = NoRev) /\ (r.case = 3 => Owed(r) = NoSchema)
  BY <1>1 DEF CaseOK, Building, Rebuilding
<1>3. CASE r.case = 1
  <2>1. r.dbrev # NoRev /\ db[Backup(p)] = Owed(r)
    BY <1>1, <1>3 DEF CaseOK, Typed, Rebuilding
  <2>2. Backup(p) \in Names \ {Target}
    BY <1>1, <2>1, BackupName
  <2>3. Backup(p)' = Backup(p)
    BY DEF Backup
  <2>4. db'[Backup(p)'] = Owed(s)
    BY <2>1, <2>2, <2>3
  <2> QED
    BY <1>2, <1>3, <2>4 DEF CaseOK, Building, Rebuilding
<1>4. CASE r.case # 1
  BY <1>2, <1>4 DEF CaseOK, Building, Rebuilding
<1> QED
  BY <1>3, <1>4

(* The statements that rebuild the history table.                          *)
LEMMA SafeDropHistory ==
  ASSUME SafeInv, NEW p \in Procs, DropHistory(p)
  PROVE  SafeStep(p)
<1> DEFINE r == run[p]
           t == db[Target]
           s == run'[p]
           u == db'[Target]
<1>1. /\ r.pc = "drophist" /\ s.pc = "createhist" /\ t \in Schema
      /\ s.outcome = r.outcome /\ s.k = r.k /\ s.dbrev = r.dbrev /\ Owed(s) = Owed(r)
      /\ s.case = r.case /\ TargetIs(FALSE, << >>, t.objs, t.probe)
  BY SafeFacts, DropHistoryDoes DEF Becomes
<1>2. CaseOK(p) /\ TargetOK(p) /\ TypeInv /\ BackupsAreNamed /\ t # NoSchema
  BY <1>1, SafeFacts
<1>3. /\ u \in Schema /\ u # NoSchema /\ u.table = FALSE /\ u.hist = << >>
      /\ u.objs = t.objs /\ u.probe = t.probe /\ \A n \in Names \ {Target} : db'[n] = db[n]
  BY <1>1, NamesFacts DEF TargetIs
<1>4. t.probe = FALSE
  BY <1>1, <1>2 DEF TargetOK
<1>5. Bare(t)
  <2>1. CASE r.case = 2
    <3>1. t = Owed(r) /\ r.dbrev = NoRev /\ r.dbrev = DbRev(Owed(r))
      BY <1>1, <1>2, <2>1 DEF TargetOK, CaseOK, Rebuilding, Building
    <3> QED
      BY <1>2, <3>1 DEF TargetOK
  <2>2. CASE r.case # 2
    <3>1. t = EmptySchema
      BY <1>1, <1>2, <2>2 DEF TargetOK
    <3> QED
      BY <3>1 DEF EmptySchema, Bare
  <2> QED
    BY <2>1, <2>2
<1>6. TargetOK(p)'
  BY <1>1, <1>3, <1>4, <1>5 DEF TargetOK, Untouched, Checking, Looping, Bare
<1>7. CaseOK(p)'
  <2>1. r.k = 1
    BY <1>1, <1>2 DEF CaseOK, Looping
  <2> QED
    BY <1>1, <1>3, <2>1, CaseStays DEF Building
<1>8. TestsOK(p)' /\ OutcomeOK(p)'
  BY <1>1, <1>2, GoesOn DEF Looping
<1>9. BackupsAreNamed'
  BY <1>2, <1>3, SameBackups
<1> QED
  BY <1>6, <1>7, <1>8, <1>9 DEF SafeStep, SafeAt

(* CREATE TABLE: the table is empty.                                       *)
LEMMA SafeCreateHistory ==
  ASSUME SafeInv, NEW p \in Procs, CreateHistory(p)
  PROVE  SafeStep(p)
<1> DEFINE r == run[p]
           t == db[Target]
           s == run'[p]
           u == db'[Target]
<1>1. /\ r.pc = "createhist" /\ s.pc = (IF r.case = 1 THEN "copyhist" ELSE "stamp")
      /\ t \in Schema
      /\ s.outcome = r.outcome /\ s.k = r.k /\ s.dbrev = r.dbrev /\ Owed(s) = Owed(r)
      /\ s.case = r.case /\ TargetIs(TRUE, t.hist, t.objs, t.probe)
  BY SafeFacts, CreateHistoryDoes DEF Becomes
<1>2. CaseOK(p) /\ TargetOK(p) /\ TypeInv /\ BackupsAreNamed /\ t # NoSchema
  BY <1>1, SafeFacts
<1>3. /\ u \in Schema /\ u # NoSchema /\ u.table = TRUE /\ u.hist = t.hist
      /\ u.objs = t.objs /\ u.probe = t.probe /\ \A n \in Names \ {Target} : db'[n] = db[n]
  BY <1>1, NamesFacts DEF TargetIs
<1>4. t.probe = FALSE /\ Bare(t) /\ t.hist = << >>
  BY <1>1, <1>2 DEF TargetOK
<1>5. TargetOK(p)'
  <2>1. Bare(u)
    BY <1>3, <1>4 DEF Bare
  <2>2. CASE r.case = 1
    BY <1>1, <1>3, <1>4, <2>1, <2>2 DEF TargetOK, Untouched, Checking, Looping
  <2>3. CASE r.case # 1
    <3>1. Old(p)' = << >>
      BY <1>1, <2>3 DEF Old
    <3> QED
      BY <1>1, <1>3, <1>4, <2>1, <2>3, <3>1 DEF TargetOK, Untouched, Checking, Looping
  <2> QED
    BY <2>2, <2>3
<1>6. s.pc \in {"copyhist", "stamp"}
  BY <1>1
<1>7. CaseOK(p)'
  <2>1. r.k = 1
    BY <1>1, <1>2 DEF CaseOK, Looping
  <2> QED
    BY <1>1, <1>3, <1>6, <2>1, CaseStays DEF Building
<1>8. TestsOK(p)' /\ OutcomeOK(p)'
  BY <1>1, <1>2, <1>6, GoesOn DEF Looping
<1>9. BackupsAreNamed'
  BY <1>2, <1>3, SameBackups
<1> QED
  BY <1>5, <1>7, <1>8, <1>9 DEF SafeStep, SafeAt

(* An upgrade continues the history of the old installation.               *)
LEMMA SafeCopyHistory ==
  ASSUME SafeInv, NEW p \in Procs, CopyHistory(p)
  PROVE  SafeStep(p)
<1> DEFINE r == run[p]
           t == db[Target]
           s == run'[p]
           u == db'[Target]
<1>1. /\ r.pc = "copyhist" /\ s.pc = "stamp" /\ t \in Schema /\ t.table
      /\ s.outcome = r.outcome /\ s.k = r.k /\ s.dbrev = r.dbrev /\ Owed(s) = Owed(r)
      /\ s.case = r.case /\ db[Backup(p)] \in Schema
      /\ TargetIs(t.table, t.hist \o db[Backup(p)].hist, t.objs, t.probe)
  BY SafeFacts, CopyHistoryDoes DEF Becomes
<1>2. CaseOK(p) /\ TargetOK(p) /\ TypeInv /\ BackupsAreNamed /\ t # NoSchema /\ Typed(p)
  BY <1>1, SafeFacts
<1>3. /\ u \in Schema /\ u # NoSchema /\ u.table = t.table
      /\ u.hist = t.hist \o db[Backup(p)].hist
      /\ u.objs = t.objs /\ u.probe = t.probe /\ \A n \in Names \ {Target} : db'[n] = db[n]
  BY <1>1, NamesFacts DEF TargetIs
<1>4. t.probe = FALSE /\ Bare(t) /\ t.hist = << >>
  BY <1>1, <1>2 DEF TargetOK
<1>5. r.case = 1 /\ db[Backup(p)] = Owed(r)
  BY <1>1, <1>2 DEF Typed, UpgradeOnly, CaseOK, Rebuilding, Building
<1>6. u.hist = Owed(r).hist
  <2>1. Owed(r).hist \in Seq(Revs)
    BY <1>1, <1>5 DEF Schema
  <2> QED
    BY <1>3, <1>4, <1>5, <2>1
<1>7. TargetOK(p)'
  <2>1. Bare(u)
    BY <1>3, <1>4 DEF Bare
  <2>2. Old(p)' = Owed(r).hist
    BY <1>1, <1>5 DEF Old
  <2> QED
    BY <1>1, <1>3, <1>4, <1>6, <2>1, <2>2 DEF TargetOK, Untouched, Checking, Looping
<1>8. CaseOK(p)'
  <2>1. r.k = 1
    BY <1>1, <1>2 DEF CaseOK, Looping
  <2> QED
    BY <1>1, <1>3, <2>1, CaseStays DEF Building
<1>9. TestsOK(p)' /\ OutcomeOK(p)'
  BY <1>1, <1>2, GoesOn DEF Looping
<1>10. BackupsAreNamed'
  BY <1>2, <1>3, SameBackups
<1> QED
  BY <1>7, <1>8, <1>9, <1>10 DEF SafeStep, SafeAt

(* The history an installation continues is a list of versions.            *)
LEMMA OldType ==
  ASSUME SafeInv, NEW p \in Procs, run[p].pc \in Building
  PROVE  Old(p) \in Seq(Revs)
<1> DEFINE r == run[p]
<1>1. CaseOK(p) /\ Typed(p) /\ Owed(r) \in Schema \cup {NoSchema}
  BY SafeFacts
<1>2. CASE r.case = 1
  <2>1. r.dbrev # NoRev /\ r.dbrev = DbRev(Owed(r))
    BY <1>1, <1>2 DEF Typed, CaseOK, Rebuilding, Building
  <2>2. Owed(r) \in Schema
    BY <1>1, <2>1 DEF DbRev
  <2> QED
    BY <1>2, <2>2 DEF Old, Schema
<1>3. CASE r.case # 1
  BY <1>3, EmptySeq DEF Old
<1> QED
  BY <1>2, <1>3

(* Stamping: the version of the tools goes on top of the old history.      *)
LEMMA SafeStamp ==
  ASSUME SafeInv, NEW p \in Procs, Stamp(p)
  PROVE  SafeStep(p)
<1> DEFINE r == run[p]
           t == db[Target]
           s == run'[p]
           u == db'[Target]
<1>1. /\ r.pc = "stamp" /\ s.pc = "module" /\ t \in Schema /\ t.table /\ r.rev \in Revs
      /\ s.outcome = r.outcome /\ s.k = r.k /\ s.dbrev = r.dbrev /\ Owed(s) = Owed(r)
      /\ s.case = r.case /\ s.rev = r.rev
      /\ TargetIs(t.table, Append(t.hist, r.rev), t.objs, t.probe)
  BY SafeFacts, StampDoes DEF Becomes
<1>2. CaseOK(p) /\ TargetOK(p) /\ TypeInv /\ BackupsAreNamed /\ t # NoSchema
  BY <1>1, SafeFacts
<1>3. /\ u \in Schema /\ u # NoSchema /\ u.table = t.table
      /\ u.hist = Append(t.hist, r.rev)
      /\ u.objs = t.objs /\ u.probe = t.probe /\ \A n \in Names \ {Target} : db'[n] = db[n]
  BY <1>1, NamesFacts DEF TargetIs
<1>4. t.probe = FALSE /\ Bare(t) /\ t.hist = Old(p) /\ r.k = 1
  BY <1>1, <1>2 DEF TargetOK, CaseOK, Looping
<1>5. DbRev(u) = r.rev /\ r.rev # NoRev
  BY <1>1, <1>3, Stamped, NamesFacts DEF DbRev, Schema
<1>6. \A i \in DOMAIN ModuleSeq :
         u.objs[ModuleSeq[i]] = IF i < s.k THEN s.rev ELSE Absent
  <2> SUFFICES ASSUME NEW i \in DOMAIN ModuleSeq
               PROVE  u.objs[ModuleSeq[i]] = IF i < s.k THEN s.rev ELSE Absent
    OBVIOUS
  <2>1. ModuleSeq[i] \in Modules /\ ~(i < 1)
    BY MadpackAssumption DEF Modules
  <2> QED
    BY <1>1, <1>3, <1>4, <2>1 DEF Bare
<1>7. TargetOK(p)'
  <2>1. Old(p)' = Old(p)
    BY <1>1 DEF Old
  <2> QED
    BY <1>1, <1>3, <1>4, <1>5, <1>6, <2>1 DEF TargetOK, Untouched, Checking, Looping
<1>8. CaseOK(p)'
  BY <1>1, <1>3, <1>4, CaseStays DEF Building
<1>9. TestsOK(p)' /\ OutcomeOK(p)'
  BY <1>1, <1>2, GoesOn DEF Looping
<1>10. BackupsAreNamed'
  BY <1>2, <1>3, SameBackups
<1> QED
  BY <1>7, <1>8, <1>9, <1>10 DEF SafeStep, SafeAt

(* What the target holds while the modules are installed.                  *)
LEMMA AtModule ==
  ASSUME SafeInv, NEW p \in Procs, run[p].pc = "module"
  PROVE  LET r == run[p]
             t == db[Target]
         IN /\ t \in Schema /\ t # NoSchema /\ t.probe = FALSE /\ t.table
            /\ t.hist = Append(Old(p), r.rev) /\ Old(p) \in Seq(Revs)
            /\ r.rev \in Revs /\ DbRev(t) = r.rev /\ r.rev # NoRev
            /\ r.case \in {1, 2, 3} /\ r.outcome = "none"
            /\ \A i \in DOMAIN ModuleSeq :
                  t.objs[ModuleSeq[i]] = IF i < r.k THEN r.rev ELSE Absent
<1> DEFINE r == run[p]
           t == db[Target]
<1>1. /\ CaseOK(p) /\ TargetOK(p) /\ Typed(p) /\ t \in Schema \cup {NoSchema}
      /\ r \in RunType
  BY SafeFacts
<1>2. /\ t # NoSchema /\ t.probe = FALSE /\ t.table /\ t.hist = Append(Old(p), r.rev)
      /\ \A i \in DOMAIN ModuleSeq :
            t.objs[ModuleSeq[i]] = IF i < r.k THEN r.rev ELSE Absent
  BY <1>1 DEF TargetOK
<1>3. Old(p) \in Seq(Revs)
  BY OldType DEF Building
<1>4. r.rev \in Revs /\ r.rev # NoRev
  BY <1>1, NamesFacts DEF Typed, RunType
<1>5. DbRev(t) = r.rev
  BY <1>2, <1>3, <1>4, Stamped DEF DbRev
<1>6. r.case \in {1, 2, 3} /\ r.outcome = "none"
  BY <1>1 DEF CaseOK, Building
<1> QED
  BY <1>1, <1>2, <1>3, <1>4, <1>5, <1>6

(* A module's objects are created: the next one's are still absent.        *)
LEMMA SafeInstallModule ==
  ASSUME SafeInv, ModulesDiffer, NEW p \in Procs, InstallModule(p)
  PROVE  SafeStep(p)
<1> DEFINE r == run[p]
           t == db[Target]
           s == run'[p]
           u == db'[Target]
<1>1. /\ r.pc = "module" /\ s.pc = "module"
      /\ ModuleSeq[r.k] \in Modules /\ r.k <= Len(ModuleSeq)
      /\ s.outcome = r.outcome /\ s.k = r.k + 1 /\ s.dbrev = r.dbrev
      /\ Owed(s) = Owed(r) /\ s.case = r.case /\ s.rev = r.rev
      /\ TargetIs(t.table, t.hist, [t.objs EXCEPT ![ModuleSeq[r.k]] = r.rev], t.probe)
  BY SafeFacts, InstallModuleDoes DEF Becomes
<1>2. CaseOK(p) /\ TypeInv /\ BackupsAreNamed /\ r \in RunType
  BY <1>1, SafeFacts
<1>3. /\ u \in Schema /\ u # NoSchema /\ u.table = t.table /\ u.hist = t.hist
      /\ u.objs = [t.objs EXCEPT ![ModuleSeq[r.k]] = r.rev]
      /\ u.probe = t.probe /\ \A n \in Names \ {Target} : db'[n] = db[n]
  BY <1>1, NamesFacts DEF TargetIs
<1>4. /\ t \in Schema /\ t.probe = FALSE /\ t.table
      /\ t.hist = Append(Old(p), r.rev) /\ DbRev(t) = r.rev /\ r.rev # NoRev
      /\ \A i \in DOMAIN ModuleSeq :
            t.objs[ModuleSeq[i]] = IF i < r.k THEN r.rev ELSE Absent
  BY <1>1, AtModule
<1>5. DbRev(u) = r.rev
  BY <1>3, <1>4, SameContent
<1>6. \A i \in DOMAIN ModuleSeq :
         u.objs[ModuleSeq[i]] = IF i < s.k THEN s.rev ELSE Absent
  <2> SUFFICES ASSUME NEW i \in DOMAIN ModuleSeq
               PROVE  u.objs[ModuleSeq[i]] = IF i < r.k + 1 THEN r.rev ELSE Absent
    BY <1>1
  <2>1. /\ ModuleSeq[i] \in Modules /\ i \in Int /\ r.k \in Int /\ r.k \in DOMAIN ModuleSeq
        /\ t.objs \in [Modules -> Revs \cup {Absent, Broken}]
    <3>1. r.k \in 1..(Len(ModuleSeq) + 1)
      BY <1>2 DEF RunType
    <3>2. r.k \in DOMAIN ModuleSeq
      BY <1>1, <3>1, ModuleAt
    <3>3. ModuleSeq[i] \in Modules /\ i \in Int
      BY MadpackAssumption DEF Modules
    <3> QED
      BY <1>4, <3>1, <3>2, <3>3 DEF Schema
  <2>2. CASE i = r.k
    BY <1>1, <1>3, <2>1, <2>2
  <2>3. CASE i # r.k
    <3>1. ModuleSeq[i] # ModuleSeq[r.k]
      BY <2>1, <2>3 DEF ModulesDiffer
    <3>2. u.objs[ModuleSeq[i]] = t.objs[ModuleSeq[i]]
      BY <1>3, <2>1, <3>1
    <3>3. i < r.k + 1 <=> i < r.k
      BY <2>1, <2>3
    <3> QED
      BY <1>4, <3>2, <3>3
  <2> QED
    BY <2>2, <2>3
<1>7. TargetOK(p)'
  <2>1. Old(p)' = Old(p)
    BY <1>1 DEF Old
  <2> QED
    BY <1>1, <1>3, <1>4, <1>5, <1>6, <2>1 DEF TargetOK, Untouched, Checking, Looping
<1>8. CaseOK(p)'
  BY <1>1, <1>3, CaseStays DEF Building
<1>9. TestsOK(p)' /\ OutcomeOK(p)'
  BY <1>1, <1>2, GoesOn DEF Looping
<1>10. BackupsAreNamed'
  BY <1>2, <1>3, SameBackups
<1> QED
  BY <1>7, <1>8, <1>9, <1>10 DEF SafeStep, SafeAt

(* The uninstall that was asked for, the only one to say so in `before'.   *)
LEMMA SafeUninstallDrop ==
  ASSUME SafeInv, NEW p \in Procs, UninstallDrop(p)
  PROVE  SafeStep(p)
<1> DEFINE r == run[p]
           s == run'[p]
<1>1. /\ r.pc = "drop" /\ TargetGone /\ s.k = r.k /\ Owed(s) = NoSchema
      /\ \/ s.pc = "idle" /\ s.outcome = "uninstalled"
         \/ s.pc = "reread" /\ s.outcome = r.outcome
  BY SafeFacts, UninstallDropDoes DEF Becomes
<1>2. CaseOK(p) /\ BackupsAreNamed
  BY SafeFacts
<1>3. r.k = 1 /\ r.outcome = "none"
  BY <1>1, <1>2 DEF CaseOK, Looping
<1>4. TargetOK(p)'
  BY <1>1 DEF TargetOK, TargetGone, Untouched, Checking, Looping
<1>5. CaseOK(p)'
  BY <1>1, <1>3 DEF CaseOK, Rebuilding, Building
<1>6. TestsOK(p)' /\ OutcomeOK(p)'
  BY <1>1, <1>3 DEF TestsOK, OutcomeOK, Restored
<1>7. BackupsAreNamed'
  BY <1>1, <1>2, SameBackups DEF TargetGone
<1> QED
  BY <1>4, <1>5, <1>6, <1>7 DEF SafeStep, SafeAt

(* The rename of an upgrade: the backup is named for the version found,    *)
(* which is still the one there, however long the prompt took.             *)
LEMMA SafeRename ==
  ASSUME SafeInv, NEW p \in Procs, Rename(p)
  PROVE  SafeStep(p)
<1> DEFINE r == run[p]
           s == run'[p]
<1>1. /\ r.pc = "rename" /\ CanRename(Target, Backup(p)) /\ s.pc = "create"
      /\ Backup(p) \in Names \ {Target} /\ Moves(Target, Backup(p))
      /\ s.outcome = r.outcome /\ s.k = r.k /\ s.dbrev = r.dbrev
      /\ Owed(s) = Owed(r) /\ s.case = r.case
  BY SafeFacts, RenameDoes DEF Becomes
<1>2. CaseOK(p) /\ TargetOK(p) /\ BackupsAreNamed /\ Typed(p)
  BY SafeFacts
<1>3. /\ r.k = 1 /\ r.outcome = "none" /\ r.case = 1 /\ r.dbrev # NoRev
      /\ r.dbrev = DbRev(Owed(r)) /\ (Owed(r) # NoSchema => Owed(r).probe = FALSE)
  BY <1>1, <1>2 DEF CaseOK, Looping, Typed, UpgradeOnly
<1>4. db[Target] = Owed(r)
  BY <1>1, <1>2 DEF TargetOK, Untouched
<1>5. db'[Backup(p)] = Owed(r) /\ db'[Target] = NoSchema
  BY <1>1, <1>4 DEF Moves
<1>6. Backup(p)' = Backup(p)
  BY <1>1 DEF Backup
<1>7. TargetOK(p)'
  BY <1>1, <1>5 DEF TargetOK, Untouched, Checking, Looping
<1>8. CaseOK(p)'
  BY <1>1, <1>3, <1>5, <1>6 DEF CaseOK, Rebuilding, Building
<1>9. TestsOK(p)' /\ OutcomeOK(p)'
  BY <1>1, <1>2, GoesOn DEF Looping
<1>10. BackupsAreNamed'
  <2> SUFFICES ASSUME NEW n \in Names \ {Target}, db'[n] # NoSchema
               PROVE  DbRev(db'[n]) # NoRev /\ TempSchema(DbRev(db'[n])) = n
    BY DEF BackupsAreNamed, HasSchema
  <2>1. CASE n = Backup(p)
    BY <1>3, <1>5, <2>1 DEF Backup
  <2>2. CASE n # Backup(p)
    BY <1>1, <1>2, <2>2 DEF Moves, BackupsAreNamed, HasSchema
  <2> QED
    BY <2>1, <2>2
<1> QED
  BY <1>7, <1>8, <1>9, <1>10 DEF SafeStep, SafeAt

(* Creating the target schema, whether or not that succeeds.               *)
LEMMA SafeCreateSchema ==
  ASSUME SafeInv, NEW p \in Procs, CreateSchema(p)
  PROVE  SafeStep(p)
<1> DEFINE r == run[p]
           s == run'[p]
           u == db'[Target]
<1>1. /\ r.pc = "create" /\ s.pc = "drophist"
      /\ s.outcome = r.outcome /\ s.k = r.k /\ s.dbrev = r.dbrev
      /\ Owed(s) = Owed(r) /\ s.case = r.case
      /\ \/ TargetIs(FALSE, << >>, [m \in Modules |-> Absent], FALSE)
         \/ db' = db
  BY SafeFacts, CreateSchemaDoes DEF Becomes
<1>2. CaseOK(p) /\ TargetOK(p) /\ BackupsAreNamed /\ Typed(p) /\ TypeInv
  BY SafeFacts
<1>3. /\ r.k = 1 /\ r.outcome = "none" /\ r.case \in {1, 3}
      /\ r.dbrev = DbRev(Owed(r)) /\ (Owed(r) # NoSchema => Owed(r).probe = FALSE)
      /\ (r.case = 3 => Owed(r) = NoSchema)
      /\ (r.case = 1 => r.dbrev # NoRev /\ db[Backup(p)] = Owed(r))
  BY <1>1, <1>2 DEF CaseOK, Looping, Typed, Rebuilding
<1>4. /\ u \in {NoSchema, EmptySchema}
      /\ \A n \in Names \ {Target} : db'[n] = db[n]
  <2>1. CASE TargetIs(FALSE, << >>, [m \in Modules |-> Absent], FALSE)
    <3>1. /\ EmptySchema.table = FALSE /\ EmptySchema.hist = << >>
          /\ EmptySchema.objs = [m \in Modules |-> Absent] /\ EmptySchema.probe = FALSE
      BY DEF EmptySchema
    <3>2. u = EmptySchema
      BY <2>1, <3>1, EmptySchemaType, SameSchema DEF TargetIs
    <3> QED
      BY <2>1, <3>2 DEF TargetIs
  <2>2. CASE db' = db
    BY <1>1, <1>2, <2>2 DEF TargetOK
  <2> QED
    BY <1>1, <2>1, <2>2
<1>5. TargetOK(p)'
  <2>1. u # NoSchema => u.probe = FALSE /\ Bare(u)
    BY <1>4 DEF EmptySchema, Bare
  <2>2. u # NoSchema => (u.probe = (s.pc = "unprobe"))
    BY <1>1, <2>1
  <2>3. s.case # 2
    BY <1>1, <1>3
  <2> QED
    BY <1>1, <1>4, <2>1, <2>2, <2>3 DEF TargetOK, Untouched, Checking, Looping
<1>6. CaseOK(p)'
  <2>1. CASE r.case = 1
    <3>1. Backup(p)' = Backup(p) /\ db'[Backup(p)] = Owed(s)
      BY <1>1, <1>2, <1>3, <1>4, <2>1, BackupName DEF Backup
    <3> QED
      BY <1>1, <1>3, <2>1, <3>1 DEF CaseOK, Rebuilding, Building
  <2>2. CASE r.case = 3
    BY <1>1, <1>3, <2>2 DEF CaseOK, Rebuilding, Building
  <2> QED
    BY <1>3, <2>1, <2>2
<1>7. TestsOK(p)' /\ OutcomeOK(p)'
  BY <1>1, <1>2, GoesOn DEF Looping
<1>8. BackupsAreNamed'
  BY <1>2, <1>4, SameBackups
<1> QED
  BY <1>5, <1>6, <1>7, <1>8 DEF SafeStep, SafeAt

(* The end of a rollback: the old installation is back under its name.     *)
LEMMA SafeRollbackRestore ==
  ASSUME SafeInv, NEW p \in Procs, RollbackRestore(p)
  PROVE  SafeStep(p)
<1> DEFINE r == run[p]
           s == run'[p]
<1>1. /\ r.pc = "restore" /\ CanRename(Backup(p), Target) /\ s.pc = "idle"
      /\ Backup(p) \in Names \ {Target} /\ Moves(Backup(p), Target)
      /\ s.outcome = "rolledback" /\ Owed(s) = Owed(r)
  BY SafeFacts, RollbackRestoreDoes DEF Becomes
<1>2. CaseOK(p) /\ BackupsAreNamed /\ Typed(p)
  BY SafeFacts
<1>3. /\ r.case = 1 /\ r.dbrev # NoRev /\ db[Backup(p)] = Owed(r)
      /\ r.dbrev = DbRev(Owed(r)) /\ (Owed(r) # NoSchema => Owed(r).probe = FALSE)
  BY <1>1, <1>2 DEF CaseOK, Typed, UpgradeOnly, Rebuilding
<1>4. db'[Target] = Owed(r)
  BY <1>1, <1>3 DEF Moves
<1>5. TargetOK(p)'
  BY <1>1, <1>3, <1>4 DEF TargetOK, Untouched, Checking, Looping
<1>6. CaseOK(p)'
  BY <1>1 DEF CaseOK, Rebuilding, Building
<1>7. TestsOK(p)' /\ OutcomeOK(p)'
  BY <1>1, <1>4 DEF TestsOK, OutcomeOK
<1>8. BackupsAreNamed'
  BY <1>1, <1>2 DEF Moves, BackupsAreNamed, HasSchema
<1> QED
  BY <1>5, <1>6, <1>7, <1>8 DEF SafeStep, SafeAt

(* While the history table is rebuilt no complete installation is in the   *)
(* target, unless there is no module at all.                               *)
LEMMA NotYetComplete ==
  ASSUME SafeInv, NEW p \in Procs,
         run[p].pc \in {"drophist", "createhist", "copyhist", "stamp"},
         run[p].case # 2, Complete(db[Target])
  PROVE  run[p].case = 1 /\ Content(db[Target]) = Content(Owed(run[p]))
<1> DEFINE r == run[p]
           t == db[Target]
<1>1. /\ TargetOK(p) /\ CaseOK(p) /\ t \in Schema \cup {NoSchema}
      /\ Owed(r) \in Schema \cup {NoSchema} /\ Typed(p)
  BY SafeFacts
<1>2. DbRev(t) # NoRev /\ \A m \in Modules : t.objs[m] = DbRev(t)
  BY DEF Complete
<1>3. t # NoSchema /\ t \in Schema /\ t.hist # << >>
  BY <1>1, <1>2 DEF DbRev
<1>4. r.pc = "stamp"
  BY <1>1, <1>3 DEF TargetOK, EmptySchema
<1>5. t.hist = Old(p) /\ Bare(t)
  BY <1>1, <1>4 DEF TargetOK
<1>6. r.case = 1 /\ t.hist = Owed(r).hist
  BY <1>3, <1>5 DEF Old
<1>7. Owed(r) \in Schema
  BY <1>1, <1>4, <1>6 DEF CaseOK, Typed, Rebuilding, Building, DbRev
<1>8. Modules = {}
  <2>1. DbRev(t) \in Revs
    BY <1>1, <1>2, DbRevType
  <2> QED
    BY <1>2, <1>5, <2>1, NamesFacts DEF Bare
<1>9. t.objs = Owed(r).objs
  BY <1>3, <1>7, <1>8 DEF Schema
<1> QED
  BY <1>6, <1>9 DEF Content

(* A rollback drops what the failed installation made of the target.       *)
LEMMA SafeRollbackDrop ==
  ASSUME SafeInv, NEW p \in Procs, RollbackDrop(p)
  PROVE  SafeStep(p)
<1> DEFINE r == run[p]
           s == run'[p]
<1>1. /\ r.pc = "rollback" /\ TargetGone /\ s.dbrev = r.dbrev
      /\ Owed(s) = Owed(r) /\ s.case = r.case
      /\ IF r.case = 1 THEN s.pc = "restore" /\ s.outcome = r.outcome
                       ELSE s.pc = "idle" /\ s.outcome = "rolledback"
  BY SafeFacts, RollbackDropDoes DEF Becomes
<1>2. CaseOK(p) /\ BackupsAreNamed /\ Typed(p) /\ TypeInv
  BY SafeFacts
<1>3. /\ r.outcome = "none" /\ r.case \in {1, 3}
      /\ r.dbrev = DbRev(Owed(r)) /\ (Owed(r) # NoSchema => Owed(r).probe = FALSE)
      /\ (r.case = 3 => Owed(r) = NoSchema)
      /\ (r.case = 1 => r.dbrev # NoRev /\ db[Backup(p)] = Owed(r))
  BY <1>1, <1>2 DEF CaseOK, Typed, Rebuilding
<1>4. db'[Target] = NoSchema /\ \A n \in Names \ {Target} : db'[n] = db[n]
  BY <1>1 DEF TargetGone
<1>5. TargetOK(p)'
  BY <1>1, <1>4 DEF TargetOK, Untouched, Checking, Looping
<1>6. BackupsAreNamed'
  BY <1>2, <1>4, SameBackups
<1>7. CASE r.case = 1
  <2>1. CaseOK(p)'
    <3>1. Backup(p)' = Backup(p) /\ db'[Backup(p)] = Owed(s)
      BY <1>1, <1>2, <1>3, <1>4, <1>7, BackupName DEF Backup
    <3> QED
      BY <1>1, <1>3, <1>7, <3>1 DEF CaseOK, Rebuilding, Building
  <2>2. TestsOK(p)' /\ OutcomeOK(p)'
    BY <1>1, <1>2, <1>7, GoesOn DEF Looping
  <2> QED
    BY <1>5, <1>6, <2>1, <2>2 DEF SafeStep, SafeAt
<1>8. CASE r.case = 3
  <2>1. CaseOK(p)'
    BY <1>1, <1>8 DEF CaseOK, Rebuilding, Building
  <2>2. TestsOK(p)' /\ OutcomeOK(p)'
    BY <1>1, <1>3, <1>4, <1>8 DEF TestsOK, OutcomeOK
  <2> QED
    BY <1>5, <1>6, <2>1, <2>2 DEF SafeStep, SafeAt
<1> QED
  BY <1>3, <1>7, <1>8

(* After a failure in __db_create_objects: CASE #2 ends there, the others  *)
(* roll back.                                                              *)
LEMMA SafeObjectsFailed ==
  ASSUME SafeInv, NEW p \in Procs, run[p].pc \in Building, ObjectsFailed(p),
         \A n \in Names \ {Target} : db'[n] = db[n],
         db'[Target] # NoSchema => /\ db'[Target].probe = FALSE
                                   /\ DbRev(db'[Target]) = NoRev => Bare(db'[Target]),
         run[p].case # 2 /\ Complete(db'[Target]) =>
           run[p].case = 1 /\ Content(db'[Target]) = Content(Owed(run[p]))
  PROVE  SafeStep(p)
<1> DEFINE r == run[p]
           s == run'[p]
           u == db'[Target]
<1>1. /\ CaseOK(p) /\ BackupsAreNamed /\ Typed(p) /\ TypeInv
  BY SafeFacts
<1>2. /\ s.dbrev = r.dbrev /\ Owed(s) = Owed(r) /\ s.case = r.case
      /\ IF r.case = 2 THEN s.pc = "idle" /\ s.outcome = "partial"
                       ELSE s.pc = "rollback" /\ s.outcome = r.outcome
  BY <1>1, ObjectsFailedDoes DEF Becomes
<1>3. /\ r.outcome = "none" /\ r.case \in {1, 2, 3} /\ r.pc # "idle"
      /\ r.dbrev = DbRev(Owed(r)) /\ (Owed(r) # NoSchema => Owed(r).probe = FALSE)
      /\ (r.case = 3 => Owed(r) = NoSchema)
      /\ (r.case = 1 => r.dbrev # NoRev /\ db[Backup(p)] = Owed(r))
  BY <1>1 DEF CaseOK, Typed, Building, Rebuilding
<1>4. BackupsAreNamed'
  BY <1>1, SameBackups
<1>5. u # NoSchema => (u.probe = (s.pc = "unprobe")) /\ (DbRev(u) = NoRev => Bare(u))
  BY <1>2
<1>6. CASE r.case = 2
  <2>1. TargetOK(p)'
    BY <1>2, <1>5, <1>6 DEF TargetOK, Untouched, Checking, Looping
  <2>2. CaseOK(p)'
    BY <1>2, <1>6 DEF CaseOK, Rebuilding, Building
  <2>3. TestsOK(p)' /\ OutcomeOK(p)'
    BY <1>2, <1>6 DEF TestsOK, OutcomeOK, Restored
  <2> QED
    BY <1>4, <2>1, <2>2, <2>3 DEF SafeStep, SafeAt
<1>7. CASE r.case # 2
  <2>1. TargetOK(p)'
    BY <1>2, <1>5, <1>7 DEF TargetOK, Untouched, Checking, Looping
  <2>2. CaseOK(p)'
    <3>1. r.case = 1 => Backup(p)' = Backup(p) /\ db'[Backup(p)] = Owed(s)
      BY <1>1, <1>2, <1>3, BackupName DEF Backup
    <3> QED
      BY <1>2, <1>3, <1>7, <3>1 DEF CaseOK, Rebuilding, Building
  <2>3. TestsOK(p)' /\ OutcomeOK(p)'
    BY <1>1, <1>2, <1>3, <1>7, GoesOn DEF Looping
  <2> QED
    BY <1>4, <2>1, <2>2, <2>3 DEF SafeStep, SafeAt
<1> QED
  BY <1>6, <1>7

(* The module that fails is not there, or no longer whole.                 *)
LEMMA FailedIsIncomplete ==
  ASSUME SafeInv, NEW p \in Procs, ModuleFails(p)
  PROVE  /\ \A n \in Names \ {Target} : db'[n] = db[n]
         /\ ~Complete(db[Target]) /\ ~Complete(db'[Target])
         /\ db'[Target].probe = FALSE /\ DbRev(db'[Target]) # NoRev
<1> DEFINE r == run[p]
           t == db[Target]
           u == db'[Target]
           m == ModuleSeq[r.k]
<1>1. /\ r.pc = "module" /\ r.k <= Len(ModuleSeq) /\ m \in Modules
      /\ \/ db' = db
         \/ TargetIs(t.table, t.hist, [t.objs EXCEPT ![m] = Broken], t.probe)
  BY SafeFacts, ModuleFailsDoes
<1>2. /\ t \in Schema /\ t.probe = FALSE /\ DbRev(t) = r.rev /\ r.rev \in Revs
      /\ r.rev # NoRev
      /\ \A i \in DOMAIN ModuleSeq :
            t.objs[ModuleSeq[i]] = IF i < r.k THEN r.rev ELSE Absent
  BY <1>1, AtModule
<1>3. r.k \in DOMAIN ModuleSeq /\ ~(r.k < r.k)
  BY <1>1, SafeFacts, ModuleAt DEF RunType
<1>4. ~Complete(t)
  <2>1. t.objs[m] = Absent
    BY <1>2, <1>3
  <2> QED
    BY <1>1, <1>2, <2>1, NamesFacts DEF Complete
<1>5. CASE db' = db
  BY <1>2, <1>4, <1>5
<1>6. CASE TargetIs(t.table, t.hist, [t.objs EXCEPT ![m] = Broken], t.probe)
  <2>1. /\ u \in Schema /\ u.table = t.table /\ u.hist = t.hist /\ u.probe = t.probe
        /\ u.objs = [t.objs EXCEPT ![m] = Broken]
        /\ \A n \in Names \ {Target} : db'[n] = db[n]
    BY <1>6 DEF TargetIs
  <2>2. DbRev(u) = r.rev
    BY <1>2, <2>1, SameContent
  <2>3. u.objs[m] = Broken
    BY <1>1, <1>2, <2>1 DEF Schema
  <2> QED
    BY <1>1, <1>2, <1>4, <2>1, <2>2, <2>3, NamesFacts DEF Complete
<1> QED
  BY <1>1, <1>5, <1>6

(* A module whose files stop half way leads to the rollback.               *)
LEMMA SafeModuleFails ==
  ASSUME SafeInv, NEW p \in Procs, ModuleFails(p)
  PROVE  SafeStep(p)
<1>1. run[p].pc \in Building /\ ObjectsFailed(p)
  BY SafeFacts, ModuleFailsDoes DEF Building
<1> QED
  BY <1>1, FailedIsIncomplete, SafeObjectsFailed

(* A prompt, a comparison, a check: the command goes on and the database   *)
(* is as it was.                                                           *)
LEMMA SafeLeads ==
  ASSUME SafeInv, NEW p \in Procs, NEW l \in Labels, OnlyRun, Leads(p, run[p].pc, l),
         run[p].pc \notin Building,
         Becomes(p, l, run[p].outcome, run[p].case, run[p].k, run[p].dbrev, Owed(run[p]))
  PROVE  SafeStep(p)
<1> DEFINE r == run[p]
           s == run'[p]
<1>1. /\ CaseOK(p) /\ TargetOK(p) /\ TestsOK(p) /\ BackupsAreNamed
  BY SafeFacts
<1>2. /\ s.pc = l /\ s.outcome = r.outcome /\ s.k = r.k /\ s.dbrev = r.dbrev
      /\ Owed(s) = Owed(r) /\ s.picked = r.picked /\ db' = db /\ tests' = tests
  BY DEF Becomes, OnlyRun, OnlyRunAndDb
<1>3. BackupsAreNamed'
  BY <1>1, <1>2, SameBackups
<1>4. CASE r.pc = "opentest"
  <2>1. l = "disown" /\ r.k > Len(ModuleSeq)
    BY <1>4 DEF Leads
  <2>2. TargetOK(p)'
    BY <1>1, <1>2, <1>4, <2>1 DEF TargetOK, Untouched, Checking, Looping
  <2>3. CaseOK(p)'
    BY <1>1, <1>2, <1>4, <2>1 DEF CaseOK, Looping, Rebuilding, Building
  <2>4. TestsOK(p)'
    <3>1. tests \subseteq Modules /\ r.k \in Int
      BY SafeFacts, TypeFacts DEF RunType
    <3>2. \A i \in DOMAIN ModuleSeq : ModuleSeq[i] \notin tests \cap r.picked
      BY <1>1, <1>4, <2>1, <3>1, LenModuleSeq, MadpackAssumption DEF TestsOK
    <3>3. tests \cap r.picked = {}
      BY <3>1, <3>2 DEF Modules
    <3> QED
      BY <1>2, <2>1, <3>3 DEF TestsOK
  <2>5. OutcomeOK(p)'
    BY <1>1, <1>2, <1>4 DEF CaseOK, OutcomeOK, Restored
  <2> QED
    BY <1>3, <2>2, <2>3, <2>4, <2>5 DEF SafeStep, SafeAt
<1>5. CASE r.pc # "opentest"
  <2>1. /\ r.pc \in Untouched \ (Looping \cup {"reread", "probe"})
        /\ l \in Untouched \ (Looping \cup {"reread"})
    BY <1>5 DEF Leads, Building, Untouched, Checking, Looping
  <2>2. TargetOK(p)'
    BY <1>1, <1>2, <2>1 DEF TargetOK, Untouched, Checking, Looping
  <2>3. CaseOK(p)'
    BY <1>1, <1>2, <2>1 DEF CaseOK, Untouched, Checking, Looping, Rebuilding, Building
  <2>4. TestsOK(p)' /\ OutcomeOK(p)'
    BY <1>1, <1>2, <2>1, GoesOn DEF Untouched, Checking, Looping
  <2> QED
    BY <1>3, <2>2, <2>3, <2>4 DEF SafeStep, SafeAt
<1> QED
  BY <1>4, <1>5

(* A success: every module is installed, on top of the old history.        *)
LEMMA InstalledIsComplete ==
  ASSUME SafeInv, NEW p \in Procs, run[p].pc = "module", run[p].k > Len(ModuleSeq)
  PROVE  LET r == run[p]
             t == db[Target]
         IN /\ Complete(t) /\ DbRev(t) = r.rev
            /\ t.hist = Append(IF DbRev(Owed(r)) = NoRev THEN << >> ELSE Owed(r).hist,
                               r.rev)
<1> DEFINE r == run[p]
           t == db[Target]
<1>1. /\ t.hist = Append(Old(p), r.rev) /\ DbRev(t) = r.rev /\ r.rev # NoRev
      /\ r.case \in {1, 2, 3}
      /\ \A i \in DOMAIN ModuleSeq :
            t.objs[ModuleSeq[i]] = IF i < r.k THEN r.rev ELSE Absent
  BY AtModule
<1>2. Complete(t)
  <2>1. ASSUME NEW i \in DOMAIN ModuleSeq PROVE t.objs[ModuleSeq[i]] = r.rev
    <3>1. i < r.k
      BY SafeFacts, LenModuleSeq, MadpackAssumption DEF RunType
    <3> QED
      BY <1>1, <3>1
  <2> QED
    BY <1>1, <2>1 DEF Complete, Modules
<1>3. Old(p) = IF DbRev(Owed(r)) = NoRev THEN << >> ELSE Owed(r).hist
  <2>1. CaseOK(p) /\ Typed(p) /\ r.dbrev = DbRev(Owed(r))
    BY SafeFacts DEF CaseOK
  <2>2. CASE r.case = 1
    BY <2>1, <2>2 DEF Old, Typed, Rebuilding, Building
  <2>3. CASE r.case # 1
    <3>1. DbRev(Owed(r)) = NoRev
      BY <1>1, <2>1, <2>3 DEF CaseOK, Rebuilding, Building, DbRev
    <3> QED
      BY <2>3, <3>1 DEF Old
  <2> QED
    BY <2>2, <2>3
<1> QED
  BY <1>1, <1>2, <1>3

(* A command ends: before it touched the target, in the middle of an       *)
(* installation, or in success.                                            *)
LEMMA SafeEnds ==
  ASSUME SafeInv, ProbeIsSafe, NEW p \in Procs, NEW o \in Outcomes, OnlyRun,
         Ends(p, run[p].pc, o),
         Becomes(p, "idle", o, run[p].case, run[p].k, run[p].dbrev, Owed(run[p]))
  PROVE  SafeStep(p)
<1> DEFINE r == run[p]
           s == run'[p]
<1>1. /\ CaseOK(p) /\ TargetOK(p) /\ TestsOK(p) /\ BackupsAreNamed
  BY SafeFacts
<1>2. /\ s.pc = "idle" /\ s.outcome = o /\ Owed(s) = Owed(r) /\ s.rev = r.rev
      /\ db' = db
  BY DEF Becomes, OnlyRun
<1>3. BackupsAreNamed'
  BY <1>1, <1>2, SameBackups
<1>4. r.pc # "unprobe"
  BY DEF Ends, ProbeIsSafe
<1>5. TargetOK(p)'
  BY <1>1, <1>2, <1>4 DEF TargetOK, Untouched, Checking, Looping
<1>6. CaseOK(p)'
  BY <1>2 DEF CaseOK, Rebuilding, Building
<1>7. TestsOK(p)'
  BY <1>2 DEF TestsOK
<1>8. OutcomeOK(p)'
  <2>1. CASE o = "success"
    <3>1. r.pc = "module" /\ r.k > Len(ModuleSeq)
      BY <2>1 DEF Ends
    <3> QED
      BY <1>2, <2>1, <3>1, InstalledIsComplete DEF OutcomeOK, Restored
  <2>2. CASE o \in {"nothing", "declined", "aborted", "uptodate", "mismatch"}
    <3>1. r.pc \in Untouched
      BY <2>2 DEF Ends, Untouched, Checking, Looping
    <3>2. db[Target] = Owed(r)
      BY <1>1, <3>1 DEF TargetOK
    <3> QED
      BY <1>2, <2>2, <3>2 DEF OutcomeOK, Restored
  <2>3. CASE o \in {"partial", "rollbackstopped", "killed"}
    BY <1>2, <2>3 DEF OutcomeOK, Restored
  <2> QED
    BY <2>1, <2>2, <2>3 DEF Ends
<1> QED
  BY <1>3, <1>5, <1>6, <1>7, <1>8 DEF SafeStep, SafeAt

(* A probe fails for one reason only: the target is missing.               *)
LEMMA SafeProbeFails ==
  ASSUME SafeInv, ProbeIsSafe, NEW p \in Procs, run[p].pc \in {"probe", "unprobe"},
         Fails(p), OnlyRun,
         Becomes(p, "create", run[p].outcome, 3, run[p].k, run[p].dbrev, Owed(run[p]))
  PROVE  SafeStep(p)
<1> DEFINE r == run[p]
           s == run'[p]
           t == db[Target]
<1>1. /\ CaseOK(p) /\ TargetOK(p) /\ BackupsAreNamed
  BY SafeFacts
<1>2. /\ s.pc = "create" /\ s.outcome = r.outcome /\ Owed(s) = Owed(r) /\ s.case = 3
      /\ s.k = r.k /\ s.dbrev = r.dbrev /\ db' = db
  BY DEF Becomes, OnlyRun
<1>3. ~Possible(p)
  BY DEF Fails, ProbeIsSafe
<1>4. r.pc = "probe" /\ t = NoSchema
  BY <1>1, <1>3, PossibleAt DEF TargetOK, HasSchema
<1>5. Owed(r) = NoSchema /\ r.k = 1 /\ r.dbrev = DbRev(Owed(r))
  BY <1>1, <1>4 DEF TargetOK, CaseOK, Untouched, Looping
<1>6. TargetOK(p)'
  BY <1>2, <1>4 DEF TargetOK, Untouched, Checking, Looping
<1>7. CaseOK(p)'
  BY <1>1, <1>2, <1>4, <1>5 DEF CaseOK, Rebuilding, Building
<1>8. TestsOK(p)' /\ OutcomeOK(p)'
  BY <1>1, <1>2, <1>4, GoesOn DEF Looping
<1>9. BackupsAreNamed'
  BY <1>1, <1>2, SameBackups
<1> QED
  BY <1>6, <1>7, <1>8, <1>9 DEF SafeStep, SafeAt

(* Decisions, prompts, failures and deaths keep the invariant.             *)
LEMMA SafeElsewhere ==
  ASSUME SafeInv, ProbeIsSafe, NEW p \in Procs, Elsewhere(p)
  PROVE  SafeStep(p)
<1> DEFINE r == run[p]
           s == run'[p]
           t == db[Target]
<1>1. /\ CaseOK(p) /\ TargetOK(p) /\ TestsOK(p) /\ BackupsAreNamed /\ TypeInv
  BY SafeFacts
<1>2. OnlyRun
  BY <1>1, ElsewhereDoes
<1>3. CASE \E l \in Labels : /\ Leads(p, r.pc, l)
             /\ Becomes(p, l, r.outcome, r.case, r.k, r.dbrev, Owed(r))
  <2>1. PICK l \in Labels : /\ Leads(p, r.pc, l)
             /\ Becomes(p, l, r.outcome, r.case, r.k, r.dbrev, Owed(r))
    BY <1>3
  <2>2. CASE r.pc \notin Building
    BY <1>2, <2>1, <2>2, SafeLeads
  <2>3. CASE r.pc \in Building
    <3>1. /\ r.pc \in {"drophist", "createhist", "copyhist", "stamp"} /\ l = "rollback"
          /\ r.case # 2
      BY <2>1, <2>3 DEF Leads, Building
    <3>2. /\ s.pc = "rollback" /\ s.outcome = r.outcome /\ s.case = r.case
          /\ s.dbrev = r.dbrev /\ Owed(s) = Owed(r) /\ db' = db
      BY <1>2, <2>1, <3>1 DEF Becomes, OnlyRun
    <3>3. t # NoSchema => t.probe = FALSE /\ (DbRev(t) = NoRev => Bare(t))
      BY <1>1, <3>1 DEF TargetOK
    <3>4. Complete(t) => r.case = 1 /\ Content(t) = Content(Owed(r))
      BY <3>1, NotYetComplete
    <3>5. TargetOK(p)'
      BY <3>2, <3>3, <3>4 DEF TargetOK, Untouched, Checking, Looping
    <3>6. CaseOK(p)'
      <4>1. Backup(p)' = Backup(p)
        BY <3>2 DEF Backup
      <4> QED
        BY <1>1, <3>1, <3>2, <4>1 DEF CaseOK, Rebuilding, Building
    <3>7. TestsOK(p)' /\ OutcomeOK(p)'
      BY <1>1, <3>1, <3>2, GoesOn DEF Looping
    <3>8. BackupsAreNamed'
      BY <1>1, <3>2, SameBackups
    <3> QED
      BY <3>5, <3>6, <3>7, <3>8 DEF SafeStep, SafeAt
  <2> QED
    BY <2>2, <2>3
<1>4. CASE \E o \in Outcomes : /\ Ends(p, r.pc, o)
             /\ Becomes(p, "idle", o, r.case, r.k, r.dbrev, Owed(r))
  BY <1>2, <1>4, SafeEnds
<1>5. CASE /\ r.pc = "reread"
           /\ Becomes(p, "compare", r.outcome, r.case, r.k, DbRev(t), Owed(r))
  <2>1. /\ s.pc = "compare" /\ s.outcome = r.outcome /\ Owed(s) = Owed(r)
        /\ s.k = r.k /\ s.dbrev = DbRev(t) /\ db' = db
    BY <1>2, <1>5 DEF Becomes, OnlyRun
  <2>2. t = Owed(r)
    BY <1>1, <1>5 DEF TargetOK, Untouched
  <2>3. TargetOK(p)'
    BY <1>1, <1>5, <2>1, <2>2 DEF TargetOK, Untouched, Checking, Looping
  <2>4. CaseOK(p)'
    BY <1>1, <1>5, <2>1, <2>2 DEF CaseOK, Rebuilding, Building, Looping
  <2>5. TestsOK(p)' /\ OutcomeOK(p)'
    BY <1>1, <1>5, <2>1, GoesOn DEF Looping
  <2>6. BackupsAreNamed'
    BY <1>1, <2>1, SameBackups
  <2> QED
    BY <2>3, <2>4, <2>5, <2>6 DEF SafeStep, SafeAt
<1>6. CASE /\ r.pc \in {"probe", "unprobe"} /\ Fails(p)
           /\ Becomes(p, "create", r.outcome, 3, r.k, r.dbrev, Owed(r))
  BY <1>2, <1>6, SafeProbeFails
<1>7. CASE /\ r.pc = "opentest" /\ r.k <= Len(ModuleSeq) /\ ModuleSeq[r.k] \notin r.picked
           /\ Becomes(p, r.pc, r.outcome, r.case, r.k + 1, r.dbrev, Owed(r))
  <2>1. /\ s.pc = "opentest" /\ s.outcome = r.outcome /\ Owed(s) = Owed(r)
        /\ s.k = r.k + 1 /\ s.dbrev = r.dbrev /\ db' = db /\ tests' = tests
        /\ s.picked = r.picked
    BY <1>2, <1>7 DEF Becomes, OnlyRun, OnlyRunAndDb
  <2>2. TargetOK(p)'
    BY <1>1, <1>7, <2>1 DEF TargetOK, Untouched, Checking, Looping
  <2>3. CaseOK(p)'
    BY <1>1, <1>7, <2>1 DEF CaseOK, Rebuilding, Building, Looping
  <2>4. TestsOK(p)'
    <3>1. \A i \in 1..(r.k - 1) : ModuleSeq[i] \notin tests \cap r.picked
      BY <1>1, <1>7 DEF TestsOK
    <3>2. r.k \in Int
      BY SafeFacts DEF RunType
    <3>3. \A i \in 1..(s.k - 1) : ModuleSeq[i] \notin tests \cap r.picked
      BY <1>7, <2>1, <3>1, <3>2
    <3> QED
      BY <2>1, <3>3 DEF TestsOK
  <2>5. OutcomeOK(p)'
    BY <1>1, <1>7, <2>1 DEF CaseOK, OutcomeOK, Restored
  <2>6. BackupsAreNamed'
    BY <1>1, <2>1, SameBackups
  <2> QED
    BY <2>2, <2>3, <2>4, <2>5, <2>6 DEF SafeStep, SafeAt
<1> QED
  BY <1>1, ElsewhereDoes, <1>3, <1>4, <1>5, <1>6, <1>7

(* The install-check changes users and test schemas, and no installation.  *)
LEMMA SafeUserStep ==
  ASSUME SafeInv, NEW p \in Procs, UserStep(p)
  PROVE  SafeStep(p)
<1> DEFINE r == run[p]
           s == run'[p]
<1>1. /\ CaseOK(p) /\ TargetOK(p) /\ TestsOK(p) /\ BackupsAreNamed /\ TypeInv
  BY SafeFacts
<1>2. /\ db' = db /\ tests' = tests /\ Owed(s) = Owed(r) /\ s.k = r.k
      /\ s.dbrev = r.dbrev /\ s.picked = r.picked /\ s.rev = r.rev
      /\ \/ UserLeads(r.pc, s.pc) /\ s.outcome = r.outcome
         \/ /\ r.pc = "cleanuser" /\ s.pc = "idle" /\ s.outcome = "checked"
            /\ users'[User(p)] = "none"
  BY <1>1, UserStepDoes DEF Becomes
<1>3. BackupsAreNamed'
  BY <1>1, <1>2, SameBackups
<1>4. CASE UserLeads(r.pc, s.pc) /\ s.outcome = r.outcome
  <2>1. TargetOK(p)'
    BY <1>1, <1>2, <1>4 DEF TargetOK, UserLeads, Untouched, Checking, Looping
  <2>2. CaseOK(p)'
    BY <1>1, <1>2, <1>4 DEF CaseOK, UserLeads, Rebuilding, Building, Looping
  <2>3. TestsOK(p)'
    <3>1. CASE r.pc = "grant"
      <4>1. r.k = 1 /\ s.pc = "opentest"
        BY <1>1, <1>4, <3>1 DEF CaseOK, Looping, UserLeads
      <4> QED
        BY <1>2, <4>1 DEF TestsOK
    <3>2. CASE r.pc # "grant"
      BY <1>1, <1>2, <1>4, <3>2 DEF TestsOK, UserLeads
    <3> QED
      BY <3>1, <3>2
  <2>4. OutcomeOK(p)'
    BY <1>1, <1>4 DEF CaseOK, OutcomeOK, UserLeads, Restored
  <2> QED
    BY <1>3, <2>1, <2>2, <2>3, <2>4 DEF SafeStep, SafeAt
<1>5. CASE /\ r.pc = "cleanuser" /\ s.pc = "idle" /\ s.outcome = "checked"
           /\ users'[User(p)] = "none"
  <2>1. db[Target] = Owed(r) /\ tests \cap r.picked = {}
    BY <1>1, <1>5 DEF TargetOK, TestsOK, Untouched, Checking, Looping
  <2>2. TargetOK(p)'
    BY <1>1, <1>2, <1>5 DEF TargetOK, Untouched, Checking, Looping
  <2>3. CaseOK(p)' /\ TestsOK(p)'
    BY <1>5 DEF CaseOK, TestsOK, Rebuilding, Building
  <2>4. User(p)' = User(p)
    BY <1>2 DEF User
  <2>5. OutcomeOK(p)'
    BY <1>2, <1>5, <2>1, <2>4 DEF OutcomeOK
  <2> QED
    BY <1>3, <2>2, <2>3, <2>5 DEF SafeStep, SafeAt
<1> QED
  BY <1>2, <1>4, <1>5

(* The tests of a module are open: only that module's schema is there.     *)
LEMMA SafeOpenTest ==
  ASSUME SafeInv, NEW p \in Procs, OpenTest(p)
  PROVE  SafeStep(p)
<1> DEFINE r == run[p]
           s == run'[p]
<1>1. /\ CaseOK(p) /\ TargetOK(p) /\ TestsOK(p) /\ BackupsAreNamed
  BY SafeFacts
<1>2. /\ r.pc = "opentest" /\ db' = db /\ s.pc = "closetest" /\ Owed(s) = Owed(r)
      /\ s.k = r.k /\ s.dbrev = r.dbrev /\ s.picked = r.picked
      /\ s.outcome = r.outcome /\ tests' = tests \cup {ModuleSeq[r.k]}
  BY SafeFacts, OpenTestDoes DEF Becomes
<1>3. BackupsAreNamed'
  BY <1>1, <1>2, SameBackups
<1>4. TargetOK(p)'
  BY <1>1, <1>2 DEF TargetOK, Untouched, Checking, Looping
<1>5. CaseOK(p)'
  BY <1>1, <1>2 DEF CaseOK, Rebuilding, Building, Looping
<1>6. TestsOK(p)'
  BY <1>1, <1>2 DEF TestsOK
<1>7. OutcomeOK(p)'
  BY <1>1, <1>2 DEF CaseOK, OutcomeOK, Restored
<1> QED
  BY <1>3, <1>4, <1>5, <1>6, <1>7 DEF SafeStep, SafeAt

(* The tests of a module are done, and its schema is dropped.              *)
LEMMA SafeCloseTest ==
  ASSUME SafeInv, NEW p \in Procs, CloseTest(p)
  PROVE  SafeStep(p)
<1> DEFINE r == run[p]
           s == run'[p]
<1>1. /\ CaseOK(p) /\ TargetOK(p) /\ TestsOK(p) /\ BackupsAreNamed
  BY SafeFacts
<1>2. /\ r.pc = "closetest" /\ db' = db /\ s.pc = "opentest" /\ Owed(s) = Owed(r)
      /\ s.k = r.k + 1 /\ s.dbrev = r.dbrev /\ s.picked = r.picked
      /\ s.outcome = r.outcome /\ tests' = tests \ {ModuleSeq[r.k]}
  BY SafeFacts, CloseTestDoes DEF Becomes
<1>3. BackupsAreNamed'
  BY <1>1, <1>2, SameBackups
<1>4. TargetOK(p)'
  BY <1>1, <1>2 DEF TargetOK, Untouched, Checking, Looping
<1>5. CaseOK(p)'
  BY <1>1, <1>2 DEF CaseOK, Rebuilding, Building, Looping
<1>6. TestsOK(p)'
  <2>1. \A i \in 1..(r.k - 1) : ModuleSeq[i] \notin (tests \ {ModuleSeq[r.k]}) \cap r.picked
    BY <1>1, <1>2 DEF TestsOK
  <2>2. r.k \in Int
    BY SafeFacts DEF RunType
  <2>3. \A i \in 1..(s.k - 1) : ModuleSeq[i] \notin (tests \ {ModuleSeq[r.k]}) \cap r.picked
    BY <1>2, <2>1, <2>2
  <2> QED
    BY <1>2, <2>3 DEF TestsOK
<1>7. OutcomeOK(p)'
  BY <1>1, <1>2 DEF CaseOK, OutcomeOK, Restored
<1> QED
  BY <1>3, <1>4, <1>5, <1>6, <1>7 DEF SafeStep, SafeAt

(* A command starts from whatever the last one left.                       *)
LEMMA SafeStarts ==
  ASSUME SafeInv, NEW p \in Procs, Starts(p)
  PROVE  SafeStep(p)
<1> DEFINE r == run[p]
           s == run'[p]
<1>1. /\ TargetOK(p) /\ BackupsAreNamed
  BY SafeFacts
<1>2. /\ r.pc = "idle" /\ db' = db /\ Owed(s) = db[Target] /\ s.k = 1
      /\ s.dbrev = DbRev(db[Target]) /\ s.outcome = "none"
      /\ s.pc \in {"uninstall", "compare", "check"}
  BY SafeFacts, StartDoes DEF OnlyRun
<1>3. BackupsAreNamed'
  BY <1>1, <1>2, SameBackups
<1>4. TargetOK(p)'
  BY <1>1, <1>2 DEF TargetOK, Untouched, Checking, Looping
<1>5. CaseOK(p)'
  <2>1. db[Target] # NoSchema => db[Target].probe = FALSE
    BY <1>1, <1>2 DEF TargetOK
  <2> QED
    BY <1>2, <2>1 DEF CaseOK, Rebuilding, Building
<1>6. TestsOK(p)' /\ OutcomeOK(p)'
  BY <1>2 DEF TestsOK, OutcomeOK, Restored
<1> QED
  BY <1>3, <1>4, <1>5, <1>6 DEF SafeStep, SafeAt

(* The invariant holds at first.                                           *)
LEMMA SafeInit == Init => SafeInv
<1> SUFFICES ASSUME Init PROVE SafeInv
  OBVIOUS
<1>1. TypeInv
  BY TypeInit
<1>2. /\ db[Target] \in {NoSchema, EmptySchema}
      /\ \A n \in Names \ {Target} : db[n] = NoSchema
  BY NamesFacts DEF Init
<1>3. BackupsAreNamed
  BY <1>2 DEF BackupsAreNamed, HasSchema
<1>4. ASSUME NEW p \in Procs PROVE SafeAt(p)
  <2>1. run[p].pc = "idle" /\ run[p].outcome = "none"
    BY DEF Init, Idle
  <2>2. db[Target] # NoSchema => db[Target].probe = FALSE /\ Bare(db[Target])
    BY <1>2 DEF EmptySchema, Bare
  <2>3. TargetOK(p)
    BY <2>1, <2>2 DEF TargetOK, Untouched, Checking, Looping
  <2>4. CaseOK(p) /\ TestsOK(p) /\ OutcomeOK(p)
    BY <2>1 DEF CaseOK, TestsOK, OutcomeOK, Restored, Rebuilding, Building
  <2> QED
    BY <2>3, <2>4 DEF SafeAt
<1> QED
  BY <1>1, <1>3, <1>4 DEF SafeInv

(* The invariant holds after every step.                                   *)
LEMMA SafeNext ==
  ASSUME OneOperator, ProbeIsSafe, ModulesDiffer, SafeInv, Next
  PROVE  SafeInv'
<1>1. TypeInv'
  <2>1. TypeInv
    BY DEF SafeInv
  <2> QED
    BY <2>1, StepCases, TypeCommit, TypeElsewhere, TypeCheck, TypeStart, TypeStepSuffices
<1>2. PICK p \in Procs : \/ Commit(p) \/ CreateSchema(p) \/ ModuleFails(p)
                         \/ Elsewhere(p)
                         \/ UserStep(p) \/ OpenTest(p) \/ CloseTest(p)
                         \/ Starts(p)
  BY StepCases
<1>3. SafeStep(p)
  <2>1. CASE Commit(p)
    BY <2>1, SafeUninstallDrop, SafeProbe, SafeUnprobe, SafeRename, SafeDropHistory,
       SafeCreateHistory, SafeCopyHistory, SafeStamp, SafeInstallModule,
       SafeRollbackDrop, SafeRollbackRestore DEF Commit
  <2> QED
    BY <1>2, <2>1, SafeCreateSchema, SafeModuleFails, SafeElsewhere, SafeUserStep,
       SafeOpenTest, SafeCloseTest, SafeStarts
<1>4. \A q \in Procs : SafeAt(q)'
  BY <1>3 DEF SafeStep, OneOperator
<1> QED
  BY <1>1, <1>3, <1>4 DEF SafeStep, SafeInv

(* One operator's commands keep the invariant, whatever fails and wherever *)
(* the tool dies but between the statements of the probe.                  *)
THEOREM SafeInvariant ==
  ASSUME OneOperator, ProbeIsSafe, ModulesDiffer
  PROVE  Spec => []SafeInv
<1>1. SafeInv /\ [Next]_vars => SafeInv'
  <2> SUFFICES ASSUME SafeInv, [Next]_vars PROVE SafeInv'
    OBVIOUS
  <2>1. CASE UNCHANGED vars
    BY <2>1 DEF vars, SafeInv, SafeAt, TargetOK, CaseOK, TestsOK, OutcomeOK,
       BackupsAreNamed, HasSchema, TypeInv, TypeOK, Typed, Old, Backup, User
  <2> QED
    BY <2>1, SafeNext
<1> QED
  BY SafeInit, <1>1, PTL DEF Spec

(* A backup schema holds the version its name says, although the version   *)
(* is read when madpack starts and the schema renamed after a prompt.      *)
THEOREM BackupsNamed ==
  ASSUME OneOperator, ProbeIsSafe, ModulesDiffer
  PROVE  Spec => []BackupsAreNamed
<1>1. SafeInv => BackupsAreNamed
  BY DEF SafeInv
<1> QED
  BY SafeInvariant, <1>1, PTL

(* When madpack says it stopped, was not needed or rolled back, the target *)
(* schema is what it was when the command started, or, after the confirmed *)
(* drop of a reinstall, missing.                                           *)
THEOREM FailuresRestore ==
  ASSUME OneOperator, ProbeIsSafe, ModulesDiffer
  PROVE  Spec => []FailureRestores
<1>1. SafeInv => FailureRestores
  <2> SUFFICES ASSUME SafeInv, NEW p \in Procs, run[p].outcome \in Restored
               PROVE  IF run[p].dropped THEN ~HasSchema(Target)
                                        ELSE db[Target] = run[p].before
    BY DEF FailureRestores, Restored
  <2>1. db[Target] = Owed(run[p])
    BY DEF SafeInv, SafeAt, OutcomeOK
  <2> QED
    BY <2>1 DEF Owed, HasSchema
<1> QED
  BY SafeInvariant, <1>1, PTL

(* "MADlib installed successfully" is true: every module is there in the   *)
(* tools' version, and the history is the old one, if it was not dropped,   *)
(* with this version added.                                                *)
THEOREM SuccessIsReal ==
  ASSUME OneOperator, ProbeIsSafe, ModulesDiffer
  PROVE  Spec => []SuccessMeansInstalled
<1>1. SafeInv => SuccessMeansInstalled
  BY DEF SafeInv, SafeAt, OutcomeOK, SuccessMeansInstalled
<1> QED
  BY SafeInvariant, <1>1, PTL

(* A finished install-check has dropped its user and the test schemas of   *)
(* the modules it ran, whatever an interrupted earlier check left.         *)
THEOREM ChecksLeaveNoTrace ==
  ASSUME OneOperator, ProbeIsSafe, ModulesDiffer
  PROVE  Spec => []CheckLeavesNoTrace
<1>1. SafeInv => CheckLeavesNoTrace
  BY DEF SafeInv, SafeAt, OutcomeOK, CheckLeavesNoTrace
<1> QED
  BY SafeInvariant, <1>1, PTL

-----------------------------------------------------------------------------
(* Nothing but an uninstall destroys a complete installation.              *)

\* What is complete in schema n is in some schema after the step as well.
Survives(n) ==
  \E n2 \in Names : Complete(db'[n2]) /\ Content(db'[n2]) = Content(db[n])

(* A schema without history is not a complete installation.                *)
LEMMA NoHistoryIncomplete ==
  ASSUME NEW s, DbRev(s) = NoRev
  PROVE  ~Complete(s)
BY DEF Complete

(* In an upgrade a target that is complete already has its like under the  *)
(* backup name, so that what happens to the target destroys nothing.       *)
LEMMA BackupIsLikeIt ==
  ASSUME SafeInv, NEW p \in Procs, run[p].pc \in Rebuilding, run[p].case = 1,
         Complete(db[Target]), Content(db[Target]) = Content(Owed(run[p])),
         \A n \in Names \ {Target} : db'[n] = db[n]
  PROVE  Survives(Target)
<1> DEFINE r == run[p]
           t == db[Target]
           b == Owed(r)
<1>1. /\ CaseOK(p) /\ Typed(p) /\ TypeInv /\ t \in Schema \cup {NoSchema}
      /\ b \in Schema \cup {NoSchema}
  BY SafeFacts
<1>2. db[Backup(p)] = b /\ r.dbrev = DbRev(b) /\ r.dbrev # NoRev
  BY <1>1 DEF CaseOK, Typed, Rebuilding, Building
<1>3. Backup(p) \in Names \ {Target}
  BY <1>1, <1>2, BackupName
<1>4. t.hist = b.hist /\ t.objs = b.objs
  BY DEF Content
<1>5. DbRev(t) = DbRev(b)
  <2>1. DbRev(t) # NoRev
    BY DEF Complete
  <2> QED
    BY <1>2, <1>4, <2>1 DEF DbRev
<1>6. Complete(b)
  BY <1>4, <1>5 DEF Complete
<1> QED
  BY <1>2, <1>3, <1>6 DEF Survives

(* While the history table is rebuilt, in all three cases.                 *)
LEMMA BuildingDestroysNothing ==
  ASSUME SafeInv, NEW p \in Procs,
         run[p].pc \in {"drophist", "createhist", "copyhist", "stamp"},
         Complete(db[Target]), \A n \in Names \ {Target} : db'[n] = db[n]
  PROVE  Survives(Target)
<1> DEFINE r == run[p]
           t == db[Target]
<1>1. CASE r.case = 2
  <2>1. TargetOK(p) /\ CaseOK(p)
    BY SafeFacts
  <2>2. DbRev(t) = NoRev
    <3>1. CASE r.pc = "drophist"
      BY <1>1, <2>1, <3>1 DEF TargetOK, CaseOK, Rebuilding, Building
    <3>2. CASE r.pc # "drophist"
      <4>1. t # NoSchema /\ t.hist = << >>
        BY <1>1, <2>1, <3>2 DEF TargetOK, Old
      <4> QED
        BY <4>1 DEF DbRev
    <3> QED
      BY <3>1, <3>2
  <2> QED
    BY <2>2, NoHistoryIncomplete
<1>2. CASE r.case # 2
  BY <1>2, NotYetComplete, BackupIsLikeIt DEF Rebuilding, Building
<1> QED
  BY <1>1, <1>2

\* What OnlyUninstallDestroys says of schema n and a step.
NotDestroyed(n) == \/ Survives(n)
                   \/ n = Target /\ \E p \in Procs : At(p, "drop") /\ run[p].dbrev = DbRev(db[n])

(* No step but the uninstall destroys, schema by schema.                   *)
LEMMA DestroysNothing ==
  ASSUME SafeInv, OneOperator, ProbeIsSafe, ModulesDiffer, Next,
         NEW n \in Names, Complete(db[n])
  PROVE  NotDestroyed(n)
<1> DEFINE t == db[Target]
           u == db'[Target]
<1>1. PICK p \in Procs : \/ Commit(p) \/ CreateSchema(p) \/ ModuleFails(p)
                         \/ Elsewhere(p)
                         \/ UserStep(p) \/ OpenTest(p) \/ CloseTest(p)
                         \/ Starts(p)
  BY StepCases
<1>2. TargetOK(p) /\ CaseOK(p) /\ TypeInv /\ Typed(p) /\ run[p] \in RunType
  BY SafeFacts
<1>3. DbRev(db[n]) # NoRev
  BY DEF Complete
<1>4. CASE db'[n] = db[n]
  BY <1>4 DEF NotDestroyed, Survives
<1>5. CASE n = Target /\ \A m \in Names \ {Target} : db'[m] = db[m]
  <2>1. CASE UninstallDrop(p)
    <3>1. run[p].pc = "drop"
      BY <2>1 DEF UninstallDrop, At
    <3>2. run[p].dbrev = DbRev(t)
      BY <1>2, <3>1 DEF TargetOK, CaseOK, Untouched
    <3> QED
      BY <1>5, <3>1, <3>2 DEF NotDestroyed, At
  <2>2. ASSUME NEW b, NEW x, t \in Schema, TargetIs(t.table, t.hist, t.objs, x)
        PROVE  Survives(n)
    <3>1. /\ u \in Schema /\ u.table = t.table /\ u.hist = t.hist /\ u.objs = t.objs
      BY <2>2 DEF TargetIs
    <3>2. Complete(u) /\ Content(u) = Content(t)
      BY <1>5, <2>2, <3>1, SameContent DEF Content
    <3> QED
      BY <1>5, <3>2, NamesFacts DEF Survives
  <2>3. CASE Probe(p) \/ Unprobe(p)
    BY <1>2, <2>2, <2>3, ProbeDoes, UnprobeDoes DEF NotDestroyed
  <2>4. CASE DropHistory(p) \/ CreateHistory(p) \/ CopyHistory(p) \/ Stamp(p)
    <3>1. run[p].pc \in {"drophist", "createhist", "copyhist", "stamp"}
      BY <2>4 DEF DropHistory, CreateHistory, CopyHistory, Stamp, At
    <3> QED
      BY <1>5, <3>1, BuildingDestroysNothing DEF NotDestroyed
  <2>5. CASE InstallModule(p)
    <3>1. /\ run[p].pc = "module" /\ ModuleSeq[run[p].k] \in Modules
          /\ run[p].k <= Len(ModuleSeq)
      BY <1>2, <2>5, InstallModuleDoes
    <3>2. run[p].k \in DOMAIN ModuleSeq /\ ~(run[p].k < run[p].k)
      BY <1>2, <3>1, ModuleAt DEF RunType
    <3>3. t.objs[ModuleSeq[run[p].k]] = Absent /\ DbRev(t) \in Revs
      BY <3>1, <3>2, AtModule
    <3> QED
      BY <1>5, <3>1, <3>3, NamesFacts DEF Complete
  <2>6. CASE RollbackDrop(p)
    <3>1. run[p].pc = "rollback"
      BY <2>6 DEF RollbackDrop, At
    <3>2. run[p].case = 1 /\ Content(t) = Content(Owed(run[p]))
      BY <1>2, <1>5, <3>1 DEF TargetOK
    <3> QED
      BY <1>5, <3>1, <3>2, BackupIsLikeIt DEF NotDestroyed, Rebuilding
  <2>7. CASE CreateSchema(p)
    <3>1. t = NoSchema
      BY <1>2, <2>7 DEF CreateSchema, At, TargetOK
    <3> QED
      BY <1>3, <1>5, <3>1 DEF DbRev
  <2>8. CASE ModuleFails(p)
    BY <1>5, <2>8, FailedIsIncomplete
  <2>9. CASE Rename(p)
    BY <1>2, <1>5, <2>9, RenameDoes, NamesFacts DEF Moves, Survives, NotDestroyed
  <2>10. CASE RollbackRestore(p)
    <3>1. t = NoSchema
      BY <1>2, <2>10 DEF RollbackRestore, At, TargetOK
    <3> QED
      BY <1>3, <1>5, <3>1 DEF DbRev
  <2>11. CASE Elsewhere(p) \/ UserStep(p) \/ OpenTest(p) \/ CloseTest(p) \/ Starts(p)
    <3>1. db' = db
      BY <1>2, <2>11, ElsewhereDoes, UserStepDoes, OpenTestDoes, CloseTestDoes, StartDoes
         DEF OnlyRun
    <3> QED
      BY <3>1 DEF NotDestroyed, Survives
  <2> QED
    BY <1>1, <2>1, <2>3, <2>4, <2>5, <2>6, <2>7, <2>8, <2>9, <2>10, <2>11 DEF Commit
<1>6. CASE Rename(p)
  <2>1. CASE n = Target
    BY <1>2, <1>6, <2>1, RenameDoes, NamesFacts DEF Moves, Survives, NotDestroyed
  <2>2. CASE n # Target
    <3>1. n # Backup(p)
      BY <1>2, <1>3, <1>6, RenameDoes DEF CanRename, HasSchema, DbRev
    <3> QED
      BY <1>2, <1>4, <1>6, <2>2, <3>1, RenameDoes DEF Moves
  <2> QED
    BY <2>1, <2>2
<1>7. CASE RollbackRestore(p)
  <2>1. CASE n = Backup(p)
    BY <1>2, <1>7, <2>1, RollbackRestoreDoes, NamesFacts DEF Moves, Survives, NotDestroyed
  <2>2. CASE n # Backup(p)
    <3>1. n # Target
      BY <1>2, <1>3, <1>7, RollbackRestoreDoes DEF CanRename, HasSchema, DbRev
    <3> QED
      BY <1>2, <1>4, <1>7, <2>2, <3>1, RollbackRestoreDoes DEF Moves
  <2> QED
    BY <2>1, <2>2
<1>8. CASE ~Rename(p) /\ ~RollbackRestore(p)
  <2>1. \A m \in Names \ {Target} : db'[m] = db[m]
    <3>1. CASE Commit(p)
      <4>1. TargetGone \/ \E b, h, o, x : TargetIs(b, h, o, x)
        BY <1>2, <1>8, <3>1, UninstallDropDoes, ProbeDoes, UnprobeDoes, DropHistoryDoes,
           CreateHistoryDoes, CopyHistoryDoes, StampDoes, InstallModuleDoes,
           RollbackDropDoes DEF Commit
      <4> QED
        BY <4>1 DEF TargetGone, TargetIs
    <3>2. CASE CreateSchema(p) \/ ModuleFails(p)
      BY <1>2, <3>2, CreateSchemaDoes, ModuleFailsDoes DEF TargetIs
    <3>3. CASE Elsewhere(p) \/ UserStep(p) \/ OpenTest(p) \/ CloseTest(p) \/ Starts(p)
      BY <1>2, <3>3, ElsewhereDoes, UserStepDoes, OpenTestDoes, CloseTestDoes, StartDoes
         DEF OnlyRun
    <3> QED
      BY <1>1, <3>1, <3>2, <3>3
  <2>2. CASE n = Target
    BY <1>5, <2>1, <2>2
  <2>3. CASE n # Target
    BY <1>4, <2>1, <2>3
  <2> QED
    BY <2>2, <2>3
<1> QED
  BY <1>6, <1>7, <1>8

(* A complete installation is only ever destroyed by the uninstall that    *)
(* asked for it: through upgrades, failures, rollbacks and the death of    *)
(* the tool it stays in some schema.                                       *)
THEOREM UninstallAloneDestroys ==
  ASSUME OneOperator, ProbeIsSafe, ModulesDiffer
  PROVE  Spec => OnlyUninstallDestroys
<1> DEFINE Kept ==
      \A n \in Names : Complete(db[n]) =>
        \/ \E n2 \in Names : Complete(db'[n2]) /\ Content(db'[n2]) = Content(db[n])
        \/ n = Target /\ \E p \in Procs : At(p, "drop") /\ run[p].dbrev = DbRev(db[n])
<1>1. SafeInv /\ [Next]_vars => [Kept]_vars
  BY DestroysNothing DEF NotDestroyed, Survives
<1>2. Spec => [][Kept]_vars
  BY SafeInvariant, <1>1, PTL DEF Spec
<1> QED
  BY <1>2 DEF OnlyUninstallDestroys

-----------------------------------------------------------------------------
(* The refinement of MadpackAtomic.                                        *)

\* Nobody's madpack is not a case of anything.
SomeOperator == Procs # {}

\* The statements that put the target up and take it down again succeed where
\* they can, and the tool does not die in between: __db_create_schema hides its
\* failure and nothing answers a failing rollback.
RebuildingIsSafe == /\ FaultPoints \cap {"create", "rollback", "restore"} = {}
                    /\ CrashPoints \cap Rebuilding = {}

-----------------------------------------------------------------------------
(* What the refinement needs to know beyond SafeInv.                       *)

\* A schema has rows of migrationhistory only if it has the table.
Tabled(s) == s # NoSchema /\ s.hist # << >> => s.table

\* An uninstall is asked for where a version is installed, and the target
\* exists from its creation to the end of the installation or its rollback.
Whole(p) ==
  LET r == run[p]
  IN /\ r.pc \in {"confirm", "drop"} => r.dbrev # NoRev
     /\ r.pc \in Building \cup {"rollback"} => db[Target] # NoSchema
     /\ r.pc \in Building /\ r.case = 2 => Owed(r) # NoSchema
     /\ Tabled(Owed(r))

WholeInv == /\ \A n \in Names : Tabled(db[n])
            /\ \A p \in Procs : Whole(p)

(* At first there is nothing, or a schema without history.                 *)
LEMMA WholeInit == Init => WholeInv
<1> SUFFICES ASSUME Init PROVE WholeInv
  OBVIOUS
<1>1. \A n \in Names : Tabled(db[n])
  BY DEF Init, Tabled, EmptySchema
<1>2. \A p \in Procs : Whole(p)
  BY DEF Init, Idle, Whole, Tabled, Building, Owed
<1> QED
  BY <1>1, <1>2 DEF WholeInv

\* What a step of the one process must show for WholeInv to hold after it.
WholeStep(p) == (\A n \in Names : Tabled(db'[n])) /\ Whole(p)'

(* A step that leaves the database and what the command remembers of it.   *)
LEMMA WholeElsewhere ==
  ASSUME SafeInv, WholeInv, RebuildingIsSafe, ProbeIsSafe, NEW p \in Procs,
         Elsewhere(p)
  PROVE  WholeStep(p)
<1> DEFINE r == run[p]
           s == run'[p]
           t == db[Target]
<1>1. /\ CaseOK(p) /\ TargetOK(p) /\ TypeInv /\ Whole(p)
      /\ \A n \in Names : Tabled(db[n])
  BY SafeFacts DEF WholeInv
<1>2. db' = db
  BY <1>1, ElsewhereDoes DEF OnlyRun
<1>3. CASE \E l \in Labels : /\ Leads(p, r.pc, l)
             /\ Becomes(p, l, r.outcome, r.case, r.k, r.dbrev, Owed(r))
  BY <1>1, <1>2, <1>3 DEF Becomes, Leads, WholeStep, Whole, Building
<1>4. CASE \E o \in Outcomes : /\ Ends(p, r.pc, o)
             /\ Becomes(p, "idle", o, r.case, r.k, r.dbrev, Owed(r))
  BY <1>1, <1>2, <1>4 DEF Becomes, WholeStep, Whole, Building
<1>5. CASE /\ r.pc = "reread"
           /\ Becomes(p, "compare", r.outcome, r.case, r.k, DbRev(t), Owed(r))
  BY <1>1, <1>2, <1>5 DEF Becomes, WholeStep, Whole, Building
<1>6. CASE /\ r.pc \in {"probe", "unprobe"}
           /\ Becomes(p, "create", r.outcome, 3, r.k, r.dbrev, Owed(r))
  BY <1>1, <1>2, <1>6 DEF Becomes, WholeStep, Whole, Building
<1>7. CASE /\ r.pc = "opentest"
           /\ Becomes(p, r.pc, r.outcome, r.case, r.k + 1, r.dbrev, Owed(r))
  BY <1>1, <1>2, <1>7 DEF Becomes, WholeStep, Whole, Building
<1> QED
  BY <1>1, <1>3, <1>4, <1>5, <1>6, <1>7, ElsewhereDoes

(* A statement inside the target that leaves a schema with its history in  *)
(* its table.                                                              *)
LEMMA WholeTargetIs ==
  ASSUME \A n \in Names : Tabled(db[n]), NEW b, NEW h, NEW o, NEW x,
         TargetIs(b, h, o, x), h # << >> => b
  PROVE  (\A n \in Names : Tabled(db'[n])) /\ db'[Target] # NoSchema
BY NamesFacts DEF TargetIs, Tabled

(* A schema that moves keeps its history in its table.                     *)
LEMMA WholeMoves ==
  ASSUME \A n \in Names : Tabled(db[n]), NEW from \in Names, NEW to \in Names,
         Moves(from, to)
  PROVE  \A n \in Names : Tabled(db'[n])
BY DEF Moves, Tabled

(* The statements that change the database.                                *)
LEMMA WholeCommit ==
  ASSUME SafeInv, WholeInv, RebuildingIsSafe, ProbeIsSafe, NEW p \in Procs,
         Commit(p) \/ CreateSchema(p) \/ ModuleFails(p)
  PROVE  WholeStep(p)
<1> DEFINE r == run[p]
           s == run'[p]
           t == db[Target]
           u == db'[Target]
<1>1. /\ CaseOK(p) /\ TargetOK(p) /\ TypeInv /\ Whole(p) /\ Typed(p)
      /\ (\A n \in Names : Tabled(db[n])) /\ Target \in Names
      /\ t \in Schema \cup {NoSchema} /\ NoSchema \notin Schema
  BY SafeFacts, NamesFacts DEF WholeInv
<1>2. CASE UninstallDrop(p)
  <2>1. s.pc \in {"idle", "reread"} /\ Owed(s) = NoSchema
    BY <1>1, <1>2, UninstallDropDoes DEF Becomes
  <2>2. \A n \in Names : Tabled(db'[n])
    BY <1>1, <1>2, UninstallDropDoes DEF TargetGone, Tabled
  <2> QED
    BY <2>1, <2>2 DEF WholeStep, Whole, Building, Tabled
<1>3. CASE Probe(p)
  <2>1. s.pc = "unprobe" /\ Owed(s) = Owed(r)
    BY <1>1, <1>3, ProbeDoes DEF Becomes
  <2>2. \A n \in Names : Tabled(db'[n])
    BY <1>1, <1>3, ProbeDoes, WholeTargetIs DEF Tabled
  <2> QED
    BY <1>1, <2>1, <2>2 DEF WholeStep, Whole, Building
<1>4. CASE Unprobe(p)
  <2>1. /\ Owed(s) = Owed(r) /\ r.pc = "unprobe"
        /\ s.pc = "ask" \/ (s.pc = "drophist" /\ s.case = 2)
    BY <1>1, <1>4, UnprobeDoes DEF Becomes
  <2>2. (\A n \in Names : Tabled(db'[n])) /\ u # NoSchema
    BY <1>1, <1>4, UnprobeDoes, WholeTargetIs DEF Tabled
  <2>3. Owed(r) # NoSchema
    BY <1>1, <2>1 DEF TargetOK
  <2> QED
    BY <1>1, <2>1, <2>2, <2>3 DEF WholeStep, Whole, Building
<1>5. CASE Rename(p)
  <2>1. s.pc = "create" /\ Owed(s) = Owed(r)
    BY <1>1, <1>5, RenameDoes DEF Becomes
  <2>2. \A n \in Names : Tabled(db'[n])
    BY <1>1, <1>5, RenameDoes, WholeMoves
  <2> QED
    BY <1>1, <2>1, <2>2 DEF WholeStep, Whole, Building
<1>6. ASSUME (\A n \in Names : Tabled(db'[n])) /\ u # NoSchema,
             Owed(s) = Owed(r) /\ s.case = r.case,
             r.pc \in Building, s.pc \in Building
      PROVE  WholeStep(p)
  BY <1>1, <1>6 DEF WholeStep, Whole, Building
<1>7. CASE DropHistory(p)
  <2>1. (\A n \in Names : Tabled(db'[n])) /\ u # NoSchema
    BY <1>1, <1>7, DropHistoryDoes, WholeTargetIs
  <2> QED
    BY <1>1, <1>6, <1>7, <2>1, DropHistoryDoes DEF Becomes, Building
<1>8. CASE CreateHistory(p)
  <2>1. (\A n \in Names : Tabled(db'[n])) /\ u # NoSchema
    BY <1>1, <1>8, CreateHistoryDoes, WholeTargetIs
  <2> QED
    BY <1>1, <1>6, <1>8, <2>1, CreateHistoryDoes DEF Becomes, Building
<1>9. CASE CopyHistory(p)
  <2>1. (\A n \in Names : Tabled(db'[n])) /\ u # NoSchema
    BY <1>1, <1>9, CopyHistoryDoes, WholeTargetIs
  <2> QED
    BY <1>1, <1>6, <1>9, <2>1, CopyHistoryDoes DEF Becomes, Building
<1>10. CASE Stamp(p)
  <2>1. (\A n \in Names : Tabled(db'[n])) /\ u # NoSchema
    BY <1>1, <1>10, StampDoes, WholeTargetIs
  <2> QED
    BY <1>1, <1>6, <1>10, <2>1, StampDoes DEF Becomes, Building
<1>11. CASE InstallModule(p)
  <2>1. t.table
    BY <1>1, <1>11, InstallModuleDoes DEF TargetOK
  <2>2. (\A n \in Names : Tabled(db'[n])) /\ u # NoSchema
    BY <1>1, <1>11, <2>1, InstallModuleDoes, WholeTargetIs
  <2> QED
    BY <1>1, <1>6, <1>11, <2>2, InstallModuleDoes DEF Becomes, Building
<1>12. CASE ModuleFails(p)
  <2>1. r.pc = "module" /\ t.table /\ t # NoSchema
    BY <1>1, <1>12, ModuleFailsDoes DEF TargetOK
  <2>2. (\A n \in Names : Tabled(db'[n])) /\ u # NoSchema
    BY <1>1, <1>12, <2>1, ModuleFailsDoes, WholeTargetIs
  <2>3. s.pc \in {"idle", "rollback"} /\ Owed(s) = Owed(r)
    BY <1>1, <1>12, ModuleFailsDoes, ObjectsFailedDoes DEF Becomes
  <2> QED
    BY <1>1, <2>2, <2>3 DEF WholeStep, Whole, Building
<1>13. CASE RollbackDrop(p)
  <2>1. s.pc \in {"idle", "restore"} /\ Owed(s) = Owed(r)
    BY <1>1, <1>13, RollbackDropDoes DEF Becomes
  <2>2. \A n \in Names : Tabled(db'[n])
    BY <1>1, <1>13, RollbackDropDoes DEF TargetGone, Tabled
  <2> QED
    BY <1>1, <2>1, <2>2 DEF WholeStep, Whole, Building
<1>14. CASE RollbackRestore(p)
  <2>1. s.pc = "idle" /\ Owed(s) = Owed(r)
    BY <1>1, <1>14, RollbackRestoreDoes DEF Becomes
  <2>2. \A n \in Names : Tabled(db'[n])
    BY <1>1, <1>14, RollbackRestoreDoes, WholeMoves
  <2> QED
    BY <1>1, <2>1, <2>2 DEF WholeStep, Whole, Building
<1>15. CASE CreateSchema(p)
  <2>1. /\ s.pc = "drophist" /\ Owed(s) = Owed(r) /\ s.case = r.case /\ r.pc = "create"
    BY <1>1, <1>15, CreateSchemaDoes DEF Becomes
  <2>2. t = NoSchema /\ r.case \in {1, 3}
    BY <1>1, <2>1 DEF TargetOK, CaseOK
  <2>3. ~Fails(p)
    BY <2>1, <2>2, PossibleAt DEF Fails, RebuildingIsSafe, HasSchema
  <2>4. db' = [db EXCEPT ![Target] = EmptySchema]
    BY <1>15, <2>3 DEF CreateSchema
  <2>5. TargetIs(FALSE, << >>, EmptySchema.objs, EmptySchema.probe)
    <3>1. db \in DbType
      BY <1>1, TypeFacts
    <3>2. TargetIs(EmptySchema.table, EmptySchema.hist, EmptySchema.objs, EmptySchema.probe)
      BY <2>4, <3>1, EmptySchemaType, TargetChange
    <3> QED
      BY <3>2 DEF EmptySchema
  <2>6. (\A n \in Names : Tabled(db'[n])) /\ u # NoSchema
    BY <1>1, <2>5, WholeTargetIs
  <2> QED
    BY <1>1, <2>1, <2>2, <2>6 DEF WholeStep, Whole, Building
<1> QED
  BY <1>2, <1>3, <1>4, <1>5, <1>7, <1>8, <1>9, <1>10, <1>11, <1>12, <1>13, <1>14,
     <1>15 DEF Commit

(* The steps of a check, and the start of a command.                       *)
LEMMA WholeOther ==
  ASSUME SafeInv, WholeInv, NEW p \in Procs,
         UserStep(p) \/ OpenTest(p) \/ CloseTest(p) \/ Starts(p)
  PROVE  WholeStep(p)
<1> DEFINE r == run[p]
           s == run'[p]
<1>1. /\ TypeInv /\ Whole(p) /\ (\A n \in Names : Tabled(db[n])) /\ Target \in Names
  BY SafeFacts, NamesFacts DEF WholeInv
<1>2. CASE UserStep(p)
  <2>1. /\ Owed(s) = Owed(r) /\ db' = db
        /\ s.pc \in {"createuser", "dropuser2", "cleanuser", "grant", "opentest", "idle"}
    BY <1>1, <1>2, UserStepDoes DEF Becomes, UserLeads
  <2> QED
    BY <1>1, <2>1 DEF WholeStep, Whole, Building
<1>3. CASE OpenTest(p) \/ CloseTest(p)
  <2>1. Owed(s) = Owed(r) /\ db' = db /\ s.pc \in {"opentest", "closetest"}
    BY <1>1, <1>3, OpenTestDoes, CloseTestDoes DEF Becomes
  <2> QED
    BY <1>1, <2>1 DEF WholeStep, Whole, Building
<1>4. CASE Starts(p)
  <2>1. Owed(s) = db[Target] /\ db' = db /\ s.pc \in {"uninstall", "compare", "check"}
    BY <1>1, <1>4, StartDoes DEF OnlyRun
  <2> QED
    BY <1>1, <2>1 DEF WholeStep, Whole, Building
<1> QED
  BY <1>2, <1>3, <1>4

\* The inductive invariant of the refinement.
AtomInv == SafeInv /\ WholeInv

(* The invariant holds throughout.                                         *)
THEOREM AtomInvariant ==
  ASSUME OneOperator, ProbeIsSafe, ModulesDiffer, RebuildingIsSafe
  PROVE  Spec => []AtomInv
<1>1. SafeInv /\ WholeInv /\ [Next]_vars => WholeInv'
  <2> SUFFICES ASSUME SafeInv, WholeInv, [Next]_vars PROVE WholeInv'
    OBVIOUS
  <2>1. CASE UNCHANGED vars
    BY <2>1 DEF vars, WholeInv, Whole, Tabled
  <2>2. CASE Next
    <3>1. PICK p \in Procs : \/ Commit(p) \/ CreateSchema(p) \/ ModuleFails(p)
                             \/ Elsewhere(p)
                             \/ UserStep(p) \/ OpenTest(p) \/ CloseTest(p)
                             \/ Starts(p)
      BY <2>2, StepCases
    <3>2. WholeStep(p)
      BY <3>1, WholeCommit, WholeElsewhere, WholeOther
    <3>3. \A q \in Procs : q = p
      BY DEF OneOperator
    <3> QED
      BY <3>2, <3>3 DEF WholeStep, WholeInv
  <2> QED
    BY <2>1, <2>2
<1>2. Spec => []SafeInv
  BY SafeInvariant
<1> QED
  BY WholeInit, <1>1, <1>2, PTL DEF Spec, AtomInv

-----------------------------------------------------------------------------
(* The refinement mapping, before and after a step.                        *)

\* The abstract backups when a command of case c, from version v, is rebuilding
\* the target of a database d, and when none is.
BackupsDuring(d, c, v) ==
  [n \in Names \ {Target} |-> IF c = 1 /\ n = TempSchema(v) THEN NoSchema
                                                            ELSE ContentOf(d[n])]
BackupsOf(d) == [n \in Names \ {Target} |-> ContentOf(d[n])]

(* The one operator is the Runner of the mapping.                          *)
LEMMA OnlyRunner ==
  ASSUME OneOperator, NEW p \in Procs
  PROVE  Runner = p
BY DEF OneOperator, Runner

(* While no command rebuilds the target, the abstract state is what the    *)
(* schemas hold.                                                           *)
LEMMA BarsAtRest ==
  ASSUME OneOperator, NEW p \in Procs
  PROVE  /\ run[p].pc \notin Rebuilding =>
              targetBar = ContentOf(db[Target]) /\ backupsBar = BackupsOf(db)
         /\ run'[p].pc \notin Rebuilding =>
              targetBar' = ContentOf(db'[Target]) /\ backupsBar' = BackupsOf(db')
<1>1. Runner = p
  BY OnlyRunner
<1>2. CASE run[p].pc \notin Rebuilding
  BY <1>1, <1>2 DEF targetBar, backupsBar, UnderWay, Job, Rebuilding, Building, BackupsOf
<1>3. CASE run'[p].pc \notin Rebuilding
  BY <1>1, <1>3 DEF targetBar, backupsBar, UnderWay, Job, Rebuilding, Building, BackupsOf
<1> QED
  BY <1>2, <1>3

(* While one does, it is what was there before the command.                *)
LEMMA BarsUnderWay ==
  ASSUME OneOperator, NEW p \in Procs
  PROVE  /\ run[p].pc \in Rebuilding =>
              /\ targetBar = ContentOf(Owed(run[p]))
              /\ backupsBar = BackupsDuring(db, run[p].case, run[p].dbrev)
         /\ run'[p].pc \in Rebuilding =>
              /\ targetBar' = ContentOf(Owed(run'[p]))
              /\ backupsBar' = BackupsDuring(db', run'[p].case, run'[p].dbrev)
<1>1. Runner = p
  BY OnlyRunner
<1>2. CASE run[p].pc \in Rebuilding
  BY <1>1, <1>2 DEF targetBar, backupsBar, UnderWay, Job, Rebuilding, Building,
     BackupsDuring, Backup
<1>3. CASE run'[p].pc \in Rebuilding
  BY <1>1, <1>3 DEF targetBar, backupsBar, UnderWay, Job, Rebuilding, Building,
     BackupsDuring, Backup
<1> QED
  BY <1>2, <1>3

(* The version of a content is the one __get_madlib_dbver reads.           *)
LEMMA StampedIsDbRev ==
  ASSUME NEW s \in Schema \cup {NoSchema}, Tabled(s)
  PROVE  StampedRev(ContentOf(s)) = DbRev(s)
<1>1. CASE s = NoSchema
  BY <1>1 DEF StampedRev, ContentOf, DbRev
<1>2. CASE s # NoSchema
  <2>1. Content(s) \in Contents
    BY <1>2 DEF Content, Contents, Schema
  <2> QED
    BY <1>2, <2>1, NoContentAssumption DEF StampedRev, ContentOf, Content, DbRev, Tabled
<1> QED
  BY <1>1, <1>2

-----------------------------------------------------------------------------
(* Each step is a step of MadpackAtomic or leaves its state alone.         *)

Stutters == targetBar' = targetBar /\ backupsBar' = backupsBar
AtomicStep == Atomic!Next \/ Stutters

(* A step outside the rebuilding that leaves the contents of every schema. *)
LEMMA RestStutters ==
  ASSUME OneOperator, NEW p \in Procs,
         run[p].pc \notin Rebuilding, run'[p].pc \notin Rebuilding,
         \A n \in Names : ContentOf(db'[n]) = ContentOf(db[n])
  PROVE  Stutters
BY BarsAtRest, NamesFacts DEF Stutters, BackupsOf

(* A step of the rebuilding that leaves the other schemas.                 *)
LEMMA RebuildingStutters ==
  ASSUME OneOperator, NEW p \in Procs,
         run[p].pc \in Rebuilding, run'[p].pc \in Rebuilding,
         Owed(run'[p]) = Owed(run[p]), run'[p].case = run[p].case,
         run'[p].dbrev = run[p].dbrev,
         \A n \in Names \ {Target} : db'[n] = db[n]
  PROVE  Stutters
<1>1. BackupsDuring(db', run'[p].case, run'[p].dbrev)
        = BackupsDuring(db, run[p].case, run[p].dbrev)
  BY DEF BackupsDuring
<1> QED
  BY <1>1, BarsUnderWay DEF Stutters

(* __db_install begins to rebuild: the target is what was there before,    *)
(* and in an upgrade the backup's name was free.                           *)
LEMMA BeginningStutters ==
  ASSUME OneOperator, NEW p \in Procs,
         run[p].pc \notin Rebuilding, run'[p].pc \in Rebuilding,
         ContentOf(Owed(run'[p])) = ContentOf(db[Target]),
         \A n \in Names \ {Target} :
            IF run'[p].case = 1 /\ n = TempSchema(run'[p].dbrev)
              THEN db[n] = NoSchema ELSE db'[n] = db[n]
  PROVE  Stutters
<1>1. BackupsDuring(db', run'[p].case, run'[p].dbrev) = BackupsOf(db)
  BY DEF BackupsDuring, BackupsOf, ContentOf
<1> QED
  BY <1>1, BarsAtRest, BarsUnderWay DEF Stutters

(* It ends with the old target back in its place.                          *)
LEMMA RestoringStutters ==
  ASSUME OneOperator, NEW p \in Procs,
         run[p].pc \in Rebuilding, run'[p].pc \notin Rebuilding,
         ContentOf(db'[Target]) = ContentOf(Owed(run[p])),
         \A n \in Names \ {Target} :
            IF run[p].case = 1 /\ n = TempSchema(run[p].dbrev)
              THEN db'[n] = NoSchema ELSE db'[n] = db[n]
  PROVE  Stutters
<1>1. BackupsDuring(db, run[p].case, run[p].dbrev) = BackupsOf(db')
  BY DEF BackupsDuring, BackupsOf, ContentOf
<1> QED
  BY <1>1, BarsAtRest, BarsUnderWay DEF Stutters

(* DROP SCHEMA by an uninstall.                                            *)
LEMMA UninstallIsAtomic ==
  ASSUME AtomInv, OneOperator, NEW p \in Procs, UninstallDrop(p)
  PROVE  Atomic!Next
<1> DEFINE r == run[p]
           t == db[Target]
<1>1. /\ CaseOK(p) /\ TargetOK(p) /\ TypeInv /\ Whole(p) /\ Tabled(t)
      /\ t \in Schema \cup {NoSchema}
  BY SafeFacts, NamesFacts DEF AtomInv, WholeInv
<1>2. r.pc = "drop" /\ TargetGone /\ run'[p].pc \in {"idle", "reread"}
  BY <1>1, UninstallDropDoes DEF Becomes
<1>3. DbRev(t) # NoRev
  BY <1>1, <1>2 DEF Whole, CaseOK, TargetOK, Untouched, Looping
<1>4. targetBar = ContentOf(t) /\ backupsBar = BackupsOf(db)
  BY <1>2, BarsAtRest DEF Rebuilding, Building
<1>5. targetBar' = NoSchema /\ backupsBar' = BackupsOf(db')
  BY <1>2, BarsAtRest DEF Rebuilding, Building, TargetGone, ContentOf
<1>6. BackupsOf(db') = BackupsOf(db)
  BY <1>2 DEF TargetGone, BackupsOf
<1>7. StampedRev(targetBar) # << >>
  BY <1>1, <1>3, <1>4, StampedIsDbRev DEF NoRev
<1> QED
  BY <1>4, <1>5, <1>6, <1>7 DEF Atomic!Next, Atomic!Uninstall, Atomic!Vacant

(* "MADlib installed successfully": the upgrade of CASE #1 and the first   *)
(* installation of the other two cases take effect.                        *)
LEMMA InstalledIsAtomic ==
  ASSUME AtomInv, OneOperator, NEW p \in Procs, run[p].pc = "module",
         run[p].k > Len(ModuleSeq), db' = db, run'[p].pc = "idle"
  PROVE  Atomic!Next
<1> DEFINE r == run[p]
           t == db[Target]
           b == Owed(r)
           new(h) == [hist |-> Append(h, r.rev), objs |-> [m \in Modules |-> r.rev]]
<1>1. /\ SafeInv /\ CaseOK(p) /\ TypeInv /\ Whole(p) /\ Typed(p) /\ Tabled(b)
      /\ b \in Schema \cup {NoSchema} /\ NoSchema \notin Schema
  BY SafeFacts, NamesFacts DEF AtomInv, WholeInv, Whole
<1>2. /\ t \in Schema /\ t # NoSchema /\ t.hist = Append(Old(p), r.rev)
      /\ r.rev \in Revs /\ r.case \in {1, 2, 3} /\ DbRev(t) = r.rev
  BY <1>1, AtModule
<1>3. ContentOf(t) = new(Old(p))
  <2>1. Complete(t)
    BY <1>1, InstalledIsComplete
  <2>2. t.objs = [m \in Modules |-> r.rev]
    BY <1>2, <2>1 DEF Complete, Schema
  <2> QED
    BY <1>2, <2>2 DEF ContentOf, Content
<1>4. targetBar = ContentOf(b) /\ backupsBar = BackupsDuring(db, r.case, r.dbrev)
  BY BarsUnderWay DEF Rebuilding, Building
<1>5. targetBar' = new(Old(p)) /\ backupsBar' = BackupsOf(db)
  BY <1>3, BarsAtRest DEF Rebuilding, Building
<1>6. StampedRev(targetBar) = r.dbrev
  BY <1>1, <1>4, StampedIsDbRev DEF CaseOK
<1>7. CASE r.case = 1
  <2> DEFINE old == TempSchema(r.dbrev)
  <2>1. r.dbrev # NoRev /\ db[old] = b /\ old \in Names \ {Target}
    BY <1>1, <1>7, BackupName DEF CaseOK, Typed, Rebuilding, Building, Backup
  <2>2. b # NoSchema
    BY <1>1, <2>1 DEF CaseOK, DbRev
  <2>3. Old(p) = targetBar.hist
    BY <1>4, <1>7, <2>2 DEF Old, ContentOf, Content
  <2>4. backupsBar[old] = NoSchema
    BY <1>4, <1>7, <2>1 DEF BackupsDuring
  <2>5. BackupsOf(db) = [BackupsDuring(db, 1, r.dbrev) EXCEPT ![old] = ContentOf(b)]
    BY <2>1 DEF BackupsOf, BackupsDuring
  <2>6. Atomic!Upgrade(r.rev)
    BY <1>4, <1>5, <1>6, <1>7, <2>1, <2>3, <2>4, <2>5
       DEF Atomic!Upgrade, Atomic!Vacant, Atomic!Installation, NoRev
  <2> QED
    BY <1>2, <2>6 DEF Atomic!Next
<1>8. CASE r.case # 1
  <2>1. r.dbrev = NoRev
    BY <1>1, <1>2, <1>8 DEF CaseOK, Rebuilding, Building, DbRev
  <2>2. Old(p) = << >>
    BY <1>8 DEF Old
  <2>3. BackupsOf(db) = BackupsDuring(db, r.case, r.dbrev)
    BY <1>8 DEF BackupsOf, BackupsDuring
  <2>4. Atomic!Install(r.rev)
    BY <1>4, <1>5, <1>6, <2>1, <2>2, <2>3
       DEF Atomic!Install, Atomic!Vacant, Atomic!Installation, NoRev
  <2> QED
    BY <1>2, <2>4 DEF Atomic!Next
<1> QED
  BY <1>7, <1>8

(* A first installation into an existing schema stops half way (CASE #2).  *)
LEMMA StoppedIsAtomic ==
  ASSUME AtomInv, OneOperator, NEW p \in Procs, run[p].pc \in Building,
         run[p].case = 2, run'[p].pc = "idle", db'[Target] \in Schema,
         \A n \in Names \ {Target} : db'[n] = db[n]
  PROVE  Atomic!Next
<1> DEFINE r == run[p]
           b == Owed(r)
<1>1. /\ SafeInv /\ CaseOK(p) /\ TypeInv /\ Whole(p) /\ Typed(p) /\ Tabled(b)
      /\ b \in Schema \cup {NoSchema} /\ NoSchema \notin Schema
  BY SafeFacts, NamesFacts DEF AtomInv, WholeInv, Whole
<1>2. b # NoSchema /\ r.dbrev = DbRev(b) /\ r.dbrev = NoRev
  BY <1>1 DEF Whole, CaseOK, Rebuilding, Building
<1>3. targetBar = ContentOf(b) /\ backupsBar = BackupsDuring(db, r.case, r.dbrev)
  BY BarsUnderWay DEF Rebuilding
<1>4. targetBar' = ContentOf(db'[Target]) /\ backupsBar' = BackupsOf(db')
  BY BarsAtRest DEF Rebuilding, Building
<1>5. StampedRev(targetBar) = << >>
  BY <1>1, <1>2, <1>3, StampedIsDbRev DEF NoRev
<1>6. \A s \in Schema : ContentOf(s) # NoSchema
  <2>1. ASSUME NEW s \in Schema PROVE ContentOf(s) \in Contents
    BY <1>1, <2>1 DEF ContentOf, Content, Contents, Schema
  <2> QED
    BY <2>1, NoContentAssumption
<1>7. BackupsOf(db') = BackupsDuring(db, r.case, r.dbrev)
  BY DEF BackupsOf, BackupsDuring
<1> QED
  BY <1>1, <1>2, <1>3, <1>4, <1>5, <1>6, <1>7
     DEF Atomic!Next, Atomic!InstallStops, Atomic!Vacant

(* The statements that change the database.                                *)
LEMMA CommitIsAtomic ==
  ASSUME AtomInv, OneOperator, NEW p \in Procs,
         Commit(p) \/ CreateSchema(p) \/ ModuleFails(p)
  PROVE  AtomicStep
<1> USE DEF AtomicStep
<1> DEFINE r == run[p]
           s == run'[p]
           t == db[Target]
           u == db'[Target]
<1>1. /\ SafeInv /\ CaseOK(p) /\ TargetOK(p) /\ TypeInv /\ Whole(p) /\ Typed(p)
      /\ t \in Schema \cup {NoSchema} /\ NoSchema \notin Schema
  BY SafeFacts, NamesFacts DEF AtomInv, WholeInv
<1>2. CASE UninstallDrop(p)
  BY <1>2, UninstallIsAtomic
<1>3. CASE Probe(p)
  <2>1. r.pc = "probe" /\ s.pc = "unprobe" /\ t \in Schema
    BY <1>1, <1>3, ProbeDoes DEF Becomes
  <2>2. \A n \in Names : ContentOf(db'[n]) = ContentOf(db[n])
    BY <1>1, <1>3, <2>1, ProbeDoes DEF TargetIs, ContentOf, Content
  <2> QED
    BY <2>1, <2>2, RestStutters DEF Rebuilding, Building
<1>4. CASE Unprobe(p)
  <2>1. /\ r.pc = "unprobe" /\ Owed(s) = Owed(r) /\ t \in Schema
        /\ s.pc = "ask" \/ (s.pc = "drophist" /\ s.case = 2)
    BY <1>1, <1>4, UnprobeDoes DEF Becomes
  <2>2. /\ \A n \in Names \ {Target} : db'[n] = db[n]
        /\ ContentOf(u) = ContentOf(t)
    BY <1>1, <1>4, <2>1, UnprobeDoes DEF TargetIs, ContentOf, Content
  <2>3. ContentOf(Owed(r)) = ContentOf(t)
    BY <1>1, <2>1 DEF TargetOK, ContentOf, Content
  <2>4. CASE s.pc = "ask"
    BY <2>1, <2>2, <2>4, RestStutters DEF Rebuilding, Building
  <2>5. CASE s.pc = "drophist" /\ s.case = 2
    BY <2>1, <2>2, <2>3, <2>5, BeginningStutters DEF Rebuilding, Building
  <2> QED
    BY <2>1, <2>4, <2>5
<1>5. CASE Rename(p)
  <2>1. /\ r.pc = "rename" /\ s.pc = "create" /\ Owed(s) = Owed(r) /\ s.dbrev = r.dbrev
        /\ s.case = r.case /\ r.case = 1
    BY <1>1, <1>5, RenameDoes DEF Becomes, Typed, UpgradeOnly
  <2>2. Owed(r) = t
    BY <1>1, <2>1 DEF TargetOK, Untouched
  <2>3. \A n \in Names \ {Target} :
           IF s.case = 1 /\ n = TempSchema(s.dbrev) THEN db[n] = NoSchema
                                                   ELSE db'[n] = db[n]
    BY <1>1, <1>5, <2>1, RenameDoes DEF Moves, CanRename, HasSchema, Backup
  <2>4. r.pc \notin Rebuilding /\ s.pc \in Rebuilding
    BY <2>1 DEF Rebuilding, Building
  <2> QED
    BY <2>1, <2>2, <2>3, <2>4, BeginningStutters
<1>6. CASE DropHistory(p) \/ CreateHistory(p) \/ CopyHistory(p) \/ Stamp(p)
             \/ InstallModule(p) \/ CreateSchema(p)
  <2> DEFINE Stays == /\ r.pc \in Rebuilding /\ s.pc \in Rebuilding
                      /\ Owed(s) = Owed(r) /\ s.case = r.case /\ s.dbrev = r.dbrev
                      /\ \A n \in Names \ {Target} : db'[n] = db[n]
  <2>0. SUFFICES Stays
    BY RebuildingStutters
  <2>1. CASE DropHistory(p)
    BY <1>1, <2>1, DropHistoryDoes DEF Becomes, Rebuilding, Building, TargetIs
  <2>2. CASE CreateHistory(p)
    BY <1>1, <2>2, CreateHistoryDoes DEF Becomes, Rebuilding, Building, TargetIs
  <2>3. CASE CopyHistory(p)
    BY <1>1, <2>3, CopyHistoryDoes DEF Becomes, Rebuilding, Building, TargetIs
  <2>4. CASE Stamp(p)
    BY <1>1, <2>4, StampDoes DEF Becomes, Rebuilding, Building, TargetIs
  <2>5. CASE InstallModule(p)
    BY <1>1, <2>5, InstallModuleDoes DEF Becomes, Rebuilding, Building, TargetIs
  <2>6. CASE CreateSchema(p)
    BY <1>1, <2>6, CreateSchemaDoes DEF Becomes, Rebuilding, Building, TargetIs
  <2> QED
    BY <1>6, <2>1, <2>2, <2>3, <2>4, <2>5, <2>6
<1>7. CASE ModuleFails(p)
  <2>1. /\ r.pc = "module" /\ Owed(s) = Owed(r) /\ s.case = r.case /\ s.dbrev = r.dbrev
        /\ s.pc = IF r.case = 2 THEN "idle" ELSE "rollback"
    BY <1>1, <1>7, ModuleFailsDoes, ObjectsFailedDoes DEF Becomes
  <2>2. \A n \in Names \ {Target} : db'[n] = db[n]
    BY <1>1, <1>7, FailedIsIncomplete
  <2>3. u \in Schema
    <3>1. t \in Schema
      BY <1>1, <2>1 DEF TargetOK
    <3> QED
      BY <1>1, <1>7, <3>1, ModuleFailsDoes DEF TargetIs
  <2>4. CASE r.case = 2
    BY <2>1, <2>2, <2>3, <2>4, StoppedIsAtomic DEF Building
  <2>5. CASE r.case # 2
    BY <2>1, <2>2, <2>5, RebuildingStutters DEF Rebuilding, Building
  <2> QED
    BY <2>4, <2>5
<1>8. CASE RollbackDrop(p)
  <2>1. /\ r.pc = "rollback" /\ Owed(s) = Owed(r) /\ s.case = r.case
        /\ s.dbrev = r.dbrev /\ s.pc = IF r.case = 1 THEN "restore" ELSE "idle"
    BY <1>1, <1>8, RollbackDropDoes DEF Becomes
  <2>2. (\A n \in Names \ {Target} : db'[n] = db[n]) /\ u = NoSchema
    BY <1>1, <1>8, RollbackDropDoes DEF TargetGone
  <2>3. CASE r.case = 1
    BY <2>1, <2>2, <2>3, RebuildingStutters DEF Rebuilding
  <2>4. CASE r.case # 1
    <3>1. Owed(r) = NoSchema
      BY <1>1, <2>1, <2>4 DEF CaseOK, Rebuilding
    <3> QED
      BY <2>1, <2>2, <2>4, <3>1, RestoringStutters DEF Rebuilding, Building
  <2> QED
    BY <2>3, <2>4
<1>9. CASE RollbackRestore(p)
  <2>1. r.pc = "restore" /\ s.pc = "idle" /\ r.case = 1
    BY <1>1, <1>9, RollbackRestoreDoes DEF Becomes, Typed, UpgradeOnly
  <2>2. db[TempSchema(r.dbrev)] = Owed(r)
    BY <1>1, <2>1 DEF CaseOK, Rebuilding, Backup
  <2>3. /\ u = Owed(r)
        /\ \A n \in Names \ {Target} :
             IF n = TempSchema(r.dbrev) THEN db'[n] = NoSchema ELSE db'[n] = db[n]
    BY <1>1, <1>9, <2>2, RollbackRestoreDoes DEF Moves, Backup
  <2> QED
    BY <2>1, <2>3, RestoringStutters DEF Rebuilding, Building
<1> QED
  BY <1>2, <1>3, <1>4, <1>5, <1>6, <1>7, <1>8, <1>9 DEF Commit

(* A rollback that can be done is done.                                    *)
LEMMA RollbackGoesOn ==
  ASSUME AtomInv, RebuildingIsSafe, NEW p \in Procs,
         run[p].pc \in {"rollback", "restore"}
  PROVE  ~Fails(p)
<1> DEFINE r == run[p]
<1>1. CaseOK(p) /\ TargetOK(p) /\ TypeInv /\ Whole(p) /\ Typed(p)
  BY SafeFacts DEF AtomInv, WholeInv
<1>2. CASE r.pc = "rollback"
  BY <1>1, <1>2, PossibleAt DEF Fails, RebuildingIsSafe, Whole, HasSchema
<1>3. CASE r.pc = "restore"
  <2>1. /\ db[Target] = NoSchema /\ r.dbrev # NoRev
        /\ db[Backup(p)] = Owed(r) /\ r.dbrev = DbRev(Owed(r))
    BY <1>1, <1>3 DEF TargetOK, CaseOK, Typed, Rebuilding, UpgradeOnly, Looping
  <2>2. Owed(r) # NoSchema
    BY <2>1 DEF DbRev
  <2> QED
    BY <1>3, <2>1, <2>2, PossibleAt DEF Fails, RebuildingIsSafe, CanRename, HasSchema
<1> QED
  BY <1>2, <1>3

(* Decisions, prompts, failures and the death of the tool.                 *)
LEMMA ElsewhereIsAtomic ==
  ASSUME AtomInv, OneOperator, ProbeIsSafe, RebuildingIsSafe, NEW p \in Procs,
         Elsewhere(p)
  PROVE  AtomicStep
<1> USE DEF AtomicStep
<1> DEFINE r == run[p]
           s == run'[p]
           t == db[Target]
<1>1. /\ SafeInv /\ CaseOK(p) /\ TargetOK(p) /\ TypeInv /\ Whole(p) /\ Typed(p)
      /\ t \in Schema \cup {NoSchema}
  BY SafeFacts DEF AtomInv, WholeInv
<1>2. db' = db
  BY <1>1, ElsewhereDoes DEF OnlyRun
<1>3. CASE \E l \in Labels : /\ Leads(p, r.pc, l)
             /\ Becomes(p, l, r.outcome, r.case, r.k, r.dbrev, Owed(r))
  <2>1. CASE r.pc \in {"drophist", "createhist", "copyhist", "stamp"}
    <3>1. /\ s.pc = "rollback" /\ Owed(s) = Owed(r) /\ s.case = r.case
          /\ s.dbrev = r.dbrev
      BY <1>3, <2>1 DEF Leads, Becomes
    <3> QED
      BY <1>2, <2>1, <3>1, RebuildingStutters DEF Rebuilding, Building
  <2>2. CASE r.pc \notin {"drophist", "createhist", "copyhist", "stamp"}
    <3>1. r.pc \notin Rebuilding /\ s.pc \notin Rebuilding
      BY <1>3, <2>2 DEF Leads, Becomes, Rebuilding, Building
    <3> QED
      BY <1>2, <3>1, RestStutters
  <2> QED
    BY <2>1, <2>2
<1>4. CASE \E o \in Outcomes : /\ Ends(p, r.pc, o)
             /\ Becomes(p, "idle", o, r.case, r.k, r.dbrev, Owed(r))
  <2>1. PICK o \in Outcomes : Ends(p, r.pc, o)
    BY <1>4
  <2>2. s.pc = "idle"
    BY <1>4 DEF Becomes
  <2>3. CASE r.pc \notin Rebuilding
    BY <1>2, <2>2, <2>3, RestStutters DEF Rebuilding, Building
  <2>4. CASE r.pc \in Rebuilding /\ o = "success"
    <3>1. r.pc = "module" /\ r.k > Len(ModuleSeq)
      BY <2>1, <2>4 DEF Ends
    <3> QED
      BY <1>2, <2>2, <3>1, InstalledIsAtomic
  <2>5. CASE r.pc \in Rebuilding /\ o # "success"
    <3>1. r.pc \in Building /\ r.case = 2
      <4>1. r.pc \notin CrashPoints
        BY <2>5 DEF RebuildingIsSafe
      <4>2. ~(r.pc \in {"rollback", "restore"} /\ Fails(p))
        BY RollbackGoesOn
      <4> QED
        BY <2>1, <2>5, <4>1, <4>2 DEF Ends, Rebuilding, Building
    <3>2. db'[Target] \in Schema
      BY <1>1, <1>2, <3>1 DEF Whole
    <3> QED
      BY <1>2, <2>2, <3>1, <3>2, StoppedIsAtomic
  <2> QED
    BY <2>3, <2>4, <2>5
<1>5. CASE /\ r.pc = "reread"
           /\ Becomes(p, "compare", r.outcome, r.case, r.k, DbRev(t), Owed(r))
  BY <1>2, <1>5, RestStutters DEF Becomes, Rebuilding, Building
<1>6. CASE /\ r.pc \in {"probe", "unprobe"} /\ Fails(p)
           /\ Becomes(p, "create", r.outcome, 3, r.k, r.dbrev, Owed(r))
  <2>1. ~Possible(p)
    BY <1>6 DEF Fails, ProbeIsSafe
  <2>2. r.pc = "probe" /\ t = Owed(r)
    BY <1>1, <1>6, <2>1, PossibleAt DEF TargetOK, HasSchema, Untouched
  <2>3. s.pc = "create" /\ Owed(s) = Owed(r) /\ s.case = 3
    BY <1>6 DEF Becomes
  <2> QED
    BY <1>2, <2>2, <2>3, BeginningStutters DEF Rebuilding, Building
<1>7. CASE /\ r.pc = "opentest"
           /\ Becomes(p, r.pc, r.outcome, r.case, r.k + 1, r.dbrev, Owed(r))
  BY <1>2, <1>7, RestStutters DEF Becomes, Rebuilding, Building
<1> QED
  BY <1>1, <1>3, <1>4, <1>5, <1>6, <1>7, ElsewhereDoes

(* The steps of a check, and the start of a command.                       *)
LEMMA OtherIsAtomic ==
  ASSUME AtomInv, OneOperator, NEW p \in Procs,
         UserStep(p) \/ OpenTest(p) \/ CloseTest(p) \/ Starts(p)
  PROVE  AtomicStep
<1>1. TypeInv
  BY SafeFacts DEF AtomInv
<1>2. db' = db
  BY <1>1, UserStepDoes, OpenTestDoes, CloseTestDoes, StartDoes DEF OnlyRun
<1>3. run[p].pc \notin Rebuilding /\ run'[p].pc \notin Rebuilding
  <2>1. CASE UserStep(p)
    BY <1>1, <2>1, UserStepDoes DEF Becomes, UserLeads, Rebuilding, Building
  <2>2. CASE OpenTest(p) \/ CloseTest(p) \/ Starts(p)
    BY <1>1, <2>2, OpenTestDoes, CloseTestDoes, StartDoes DEF Becomes, Rebuilding, Building
  <2> QED
    BY <2>1, <2>2
<1> QED
  BY <1>2, <1>3, RestStutters DEF AtomicStep

-----------------------------------------------------------------------------
(* The refinement.                                                         *)

(* Without a command, and with no version installed, the abstract state is *)
(* an initial one.                                                         *)
LEMMA AtomicInit ==
  ASSUME OneOperator, SomeOperator, Init
  PROVE  Atomic!Init
<1>1. PICK p \in Procs : TRUE
  BY DEF SomeOperator
<1>2. run[p].pc = "idle"
  BY DEF Init, Idle
<1>3. targetBar = ContentOf(db[Target]) /\ backupsBar = BackupsOf(db)
  BY <1>2, BarsAtRest DEF Rebuilding, Building
<1>4. db[Target] \in {NoSchema, EmptySchema}
  BY NamesFacts DEF Init
<1>5. StampedRev(targetBar) = << >>
  <2>1. db[Target] \in Schema \cup {NoSchema} /\ Tabled(db[Target])
    BY <1>4, EmptySchemaType, WholeInit, NamesFacts DEF WholeInv
  <2>2. DbRev(db[Target]) = NoRev
    BY <1>4 DEF DbRev, EmptySchema
  <2> QED
    BY <1>3, <2>1, <2>2, StampedIsDbRev DEF NoRev
<1>6. Names \ {Target} = {TempSchema(v) : v \in Revs}
  BY NamesFacts DEF Names
<1>7. BackupsOf(db) = [n \in {TempSchema(v) : v \in Revs} |-> NoSchema]
  BY <1>6 DEF BackupsOf, ContentOf, Init
<1> QED
  BY <1>3, <1>5, <1>7 DEF Atomic!Init, Atomic!Vacant

(* Each step of madpack is a step of MadpackAtomic or changes none of its  *)
(* state.                                                                  *)
LEMMA AtomicNext ==
  ASSUME OneOperator, ProbeIsSafe, RebuildingIsSafe, AtomInv, [Next]_vars
  PROVE  [Atomic!Next]_(Atomic!vars)
<1>1. CASE UNCHANGED vars
  BY <1>1 DEF vars, Atomic!vars, targetBar, backupsBar, UnderWay, Job, Backup
<1>2. CASE Next
  <2>1. PICK p \in Procs : \/ Commit(p) \/ CreateSchema(p) \/ ModuleFails(p)
                           \/ Elsewhere(p)
                           \/ UserStep(p) \/ OpenTest(p) \/ CloseTest(p)
                           \/ Starts(p)
    BY <1>2, StepCases
  <2>2. AtomicStep
    BY <2>1, CommitIsAtomic, ElsewhereIsAtomic, OtherIsAtomic
  <2> QED
    BY <2>2 DEF AtomicStep, Stutters, Atomic!vars
<1> QED
  BY <1>1, <1>2

(* Each command is atomic: an installation, an upgrade and an uninstall    *)
(* take effect at one step and entirely, and a rollback changes nothing.   *)
THEOREM CommandsAreAtomic ==
  ASSUME OneOperator, ProbeIsSafe, ModulesDiffer, SomeOperator, RebuildingIsSafe
  PROVE  Spec => Atomicity
<1>1. AtomInv /\ [Next]_vars => [Atomic!Next]_(Atomic!vars)
  BY AtomicNext
<1>2. Init => Atomic!Init
  BY AtomicInit
<1>3. Spec => []AtomInv
  BY AtomInvariant
<1>4. Spec => Atomic!Spec
  BY <1>1, <1>2, <1>3, PTL DEF Spec, Atomic!Spec
<1> QED
  BY <1>4 DEF Atomicity
================================================================================
