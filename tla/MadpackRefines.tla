--------------------------- MODULE MadpackRefines ---------------------------
(***************************************************************************)
(* One operator's madpack, with failing statements, implements             *)
(* MadpackAtomic if the tool does not die while it rebuilds the target     *)
(* schema.  While it does, the abstract target is still the one it started *)
(* from, and the schema it has renamed is not a backup yet.                *)
(***************************************************************************)
EXTENDS Madpack

Runner == CHOOSE p \in Procs : TRUE
Job == run[Runner]

UnderWay == Job.pc \in {"create", "drophist", "createhist", "copyhist", "stamp",
                          "module", "rollback", "restore"}

(* What a schema holds, and that no schema is told apart from it.          *)
Contents == [hist: Seq(Revs), objs: [Modules -> Revs \cup {Absent, Broken}]]

ASSUME NoContentAssumption == NoSchema \notin Contents

ContentOf(s) == IF s = NoSchema THEN NoSchema ELSE Content(s)

StampedRev(c) == IF c = NoSchema \/ c.hist = << >> THEN NoRev
                                                  ELSE c.hist[Len(c.hist)]

targetBar == ContentOf(IF UnderWay THEN Owed(Job) ELSE db[Target])

backupsBar == [n \in Names \ {Target} |->
  IF UnderWay /\ Job.case = 1 /\ n = Backup(Runner) THEN NoSchema
                                                     ELSE ContentOf(db[n])]

Atomic == INSTANCE MadpackAtomic WITH
  Nothing <- NoSchema, Name <- TempSchema, Stamped <- StampedRev,
  target <- targetBar, backups <- backupsBar

(* Each command is atomic: installation, upgrade and uninstallation happen *)
(* at one step, and a rollback is a step that changes nothing.             *)
Atomicity == Atomic!Spec
=============================================================================
