------------------------------- MODULE Madpack -------------------------------
(***************************************************************************)
(* madpack, the command-line installer of MADlib (src/madpack/madpack.py). *)
(*                                                                         *)
(* An operator runs `madpack COMMAND` with the tools of some MADlib        *)
(* version against one database.  Each psql call is a transaction of its   *)
(* own and is one step here; the command as a whole is not a transaction,  *)
(* so a failing statement or the death of the tool leaves the database     *)
(* between two of its states.  The catalog is a function from schema names *)
(* to schema contents: the target schema and, for each version, the backup *)
(* schema an upgrade renames it to.                                        *)
(*                                                                         *)
(* A process is one operator's terminal.  Its position in main() is a      *)
(* label `pc`, named for the statement or the prompt it is about to do.    *)
(***************************************************************************)
EXTENDS Integers, Sequences, SequencesExt

CONSTANTS
  Procs,        \* terminals from which madpack is run
  Revs,         \* MADlib versions, <<0, 3>> for "0.3"
  ModuleSeq,    \* the modules of Modules.yml in installation order
  NoSchema,     \* no schema of that name in pg_namespace
  Absent, Broken,   \* a module without objects, one whose file stopped half way
  Commands,     \* the commands operators run
  FaultPoints,  \* labels whose statement may fail for an outside reason
  CrashPoints,  \* labels at which the tool may die
  MaxFaults, MaxCrashes, MaxRuns   \* bounds on such events and on runs

NoRev == << >>   \* Python's None: no version found
Target == << >>  \* the suffix of the schema named on the command line

AllCommands == {"uninstall", "reinstall", "install", "check"}

\* The decimal digits of a number.
Digits[n \in Nat] == IF n < 10 THEN <<n>> ELSE Append(Digits[n \div 10], n % 10)

(* __get_rev_num: re.findall('[0-9]', rev), or ['0'].                      *)
RevNum(v) == IF v = NoRev THEN <<0>>
             ELSE FlattenSeq([i \in DOMAIN v |-> Digits[v[i]]])

(* Python's >= on lists, which main() applies to two __get_rev_num.        *)
ListGE(a, b) ==
  \/ Len(a) >= Len(b) /\ \A i \in 1..Len(b) : a[i] = b[i]
  \/ \E i \in 1..Len(a) \cap 1..Len(b) :
        a[i] > b[i] /\ \A j \in 1..(i-1) : a[j] = b[j]

\* schema + '_v' + ''.join(__get_rev_num(dbrev))
TempSchema(v) == RevNum(v)

Names == {Target} \cup {TempSchema(v) : v \in Revs}
Modules == {ModuleSeq[i] : i \in DOMAIN ModuleSeq}

ASSUME MadpackAssumption ==
  /\ Revs \subseteq Seq(Nat) \ {NoRev}
  /\ \A v \in Revs : TempSchema(v) \in Seq(Nat) \ {Target}
  /\ ModuleSeq \in Seq(STRING)
  /\ Commands \subseteq AllCommands
  /\ {Absent, Broken} \cap Revs = {}
  /\ MaxFaults \in Nat /\ MaxCrashes \in Nat /\ MaxRuns \in Nat

(* What a schema holds: the migrationhistory table and its versions in the *)
(* order applied, the objects of each module, of which version, and the    *)
(* probe table.                                                            *)
Schema == [table: BOOLEAN, hist: Seq(Revs),
           objs: [Modules -> Revs \cup {Absent, Broken}],
           probe: BOOLEAN]

ASSUME NoSchemaAssumption == NoSchema \notin Schema

EmptySchema == [table |-> FALSE, hist |-> << >>,
                objs |-> [m \in Modules |-> Absent], probe |-> FALSE]

VARIABLES
  db,       \* schema name -> contents, or NoSchema
  users,    \* the install-check user of each version: "none", "bare" or
            \* "privileged" (it owns objects or was granted rights)
  tests,    \* the modules whose madlib_installcheck_<module> schema exists
  run,      \* per process, the state of its current (or last) command
  faults, crashes, runs   \* how many of each so far
vars == <<db, users, tests, run, faults, crashes, runs>>

(* __get_madlib_dbver: the row of migrationhistory with the latest stamp.  *)
DbRev(s) == IF s = NoSchema THEN NoRev
            ELSE IF s.table /\ s.hist # << >> THEN s.hist[Len(s.hist)] ELSE NoRev

Idle == [pc |-> "idle", cmd |-> "install", rev |-> NoRev, dbrev |-> NoRev,
         case |-> 0, k |-> 1, picked |-> {}, outcome |-> "none",
         before |-> NoSchema, dropped |-> FALSE]

\* The target schema is missing, or was created beforehand for MADlib.
Init ==
  /\ \E s \in {NoSchema, EmptySchema} :
        db = [n \in Names |-> IF n = Target THEN s ELSE NoSchema]
  /\ users = [n \in {TempSchema(v) : v \in Revs} |-> "none"]
  /\ tests = {}
  /\ run = [p \in Procs |-> Idle]
  /\ faults = 0 /\ crashes = 0 /\ runs = 0

-----------------------------------------------------------------------------
(* Control.                                                                *)

At(p, l) == run[p].pc = l
Goto(p, l) == run' = [run EXCEPT ![p].pc = l]
End(p, o) == run' = [run EXCEPT ![p].pc = "idle", ![p].outcome = o]

HasSchema(n) == db[n] # NoSchema
HasHistory(n) == HasSchema(n) /\ db[n].table
BackupOfNew(p) == TempSchema(run[p].rev)   \* mutant: named for the new version
Backup(p) == TempSchema(run[p].dbrev)
User(p) == TempSchema(run[p].rev)   \* rev.replace('.', '') in the user's name
\* What a command that does not succeed owes: the target it found, until the
\* drop that the operator confirmed.
Owed(r) == IF r.dropped THEN NoSchema ELSE r.before
CanRename(from, to) == HasSchema(from) /\ ~HasSchema(to)
Renamed(from, to) == [db EXCEPT ![to] = db[from], ![from] = NoSchema]

\* Does the catalog allow the statement process p is about to run?
Possible(p) ==
  CASE run[p].pc \in {"drop", "drophist", "rollback", "module", "grant"}
                                  -> HasSchema(Target)
    [] run[p].pc = "probe"        -> HasSchema(Target) /\ ~db[Target].probe
    [] run[p].pc = "unprobe"      -> HasSchema(Target) /\ db[Target].probe
    [] run[p].pc = "rename"       -> CanRename(Target, Backup(p))
    [] run[p].pc = "restore"      -> CanRename(Backup(p), Target)
    [] run[p].pc = "create"       -> ~HasSchema(Target)
    [] run[p].pc = "createhist"   -> HasSchema(Target) /\ ~db[Target].table
    [] run[p].pc = "copyhist"     -> HasHistory(Target) /\ HasHistory(Backup(p))
    [] run[p].pc = "stamp"        -> HasHistory(Target)
    [] run[p].pc \in {"dropuser", "dropuser2"}
                                  -> users[User(p)] # "privileged"
    [] run[p].pc = "cleanuser"    -> users[User(p)] = "bare"
    [] run[p].pc \in {"dropowned", "disown"}
                                  -> users[User(p)] # "none"
    [] run[p].pc = "createuser"   -> users[User(p)] = "none"
    [] OTHER                      -> TRUE

\* Process p's statement takes effect.
Succeeds(p) == Possible(p) /\ UNCHANGED <<faults, crashes, runs>>

\* It fails: because the catalog forbids it, or for a reason outside the
\* model (a lost connection, a full disk, a missing privilege).
Fails(p) ==
  /\ \/ ~Possible(p) /\ UNCHANGED faults
     \/ /\ Possible(p) /\ run[p].pc \in FaultPoints /\ faults < MaxFaults
        /\ faults' = faults + 1
  /\ UNCHANGED <<crashes, runs>>

Quiet == UNCHANGED <<faults, crashes, runs>>
NoSQL == UNCHANGED <<db, users, tests>>
OnlyDb == UNCHANGED <<users, tests>>

FirstLabel(c) == CASE c \in {"uninstall", "reinstall"} -> "uninstall"
                   [] c = "install" -> "compare"
                   [] c = "check" -> "check"

(* main() up to the commands: the version in the database is read once.    *)
Start(p, c, v, ms) ==
  /\ At(p, "idle") /\ runs < MaxRuns
  /\ run' = [run EXCEPT ![p] =
       [Idle EXCEPT !.pc = FirstLabel(c), !.cmd = c, !.rev = v,
                    !.dbrev = DbRev(db[Target]), !.picked = ms,
                    !.before = db[Target]]]
  /\ runs' = runs + 1
  /\ UNCHANGED <<faults, crashes>> /\ NoSQL

(* The tool dies: the statement it waits for either ran or did not.        *)
Crash(p) ==
  /\ run[p].pc \in CrashPoints /\ crashes < MaxCrashes
  /\ crashes' = crashes + 1
  /\ End(p, "killed")
  /\ UNCHANGED <<faults, runs>> /\ NoSQL

-----------------------------------------------------------------------------
(* COMMAND: uninstall/reinstall.                                           *)

\* The query for the tables that use MADlib's types is not guarded.
Uninstall(p) ==
  /\ At(p, "uninstall")
  /\ IF RevNum(run[p].dbrev) = <<0>>
       THEN Quiet /\ End(p, "nothing")
       ELSE \/ Quiet /\ Goto(p, "confirm")
            \/ Fails(p) /\ End(p, "aborted")
  /\ NoSQL

Confirm(p) ==
  /\ At(p, "confirm")
  /\ Goto(p, "drop") \/ End(p, "declined")
  /\ Quiet /\ NoSQL

\* The one place where a complete installation may be destroyed.
UninstallDrop(p) ==
  /\ At(p, "drop")
  /\ Succeeds(p)
  /\ db' = [db EXCEPT ![Target] = NoSchema]
  /\ IF run[p].cmd = "uninstall"
       THEN run' = [run EXCEPT ![p].pc = "idle", ![p].outcome = "uninstalled",
                               ![p].dropped = TRUE]
       ELSE run' = [run EXCEPT ![p].pc = "reread", ![p].dropped = TRUE]
  /\ OnlyDb

UninstallDropFails(p) ==
  /\ At(p, "drop")
  /\ Fails(p)
  /\ End(p, "aborted")
  /\ NoSQL

Reread(p) ==
  /\ At(p, "reread")
  /\ \/ /\ Quiet
        /\ run' = [run EXCEPT ![p].pc = "compare", ![p].dbrev = DbRev(db[Target])]
     \/ Fails(p) /\ End(p, "aborted")
  /\ NoSQL

-----------------------------------------------------------------------------
(* COMMAND: install/update/reinstall.                                      *)

Compare(p) ==
  /\ At(p, "compare")
  /\ IF ListGE(RevNum(run[p].dbrev), RevNum(run[p].rev))
       THEN End(p, "uptodate") ELSE Goto(p, "plpy")
  /\ Quiet /\ NoSQL

\* __plpy_check: PL/Python is there, or can be created, and is new enough.
PlpyCheck(p) ==
  /\ At(p, "plpy")
  /\ \/ Quiet /\ Goto(p, "probe")
     \/ Fails(p) /\ End(p, "aborted")
  /\ NoSQL

(* __db_install: "Test if schema is writable", two statements.             *)
ToCase(p, c, l) == run' = [run EXCEPT ![p].pc = l, ![p].case = c]

Probe(p) ==
  /\ At(p, "probe")
  /\ Succeeds(p)
  /\ db' = [db EXCEPT ![Target].probe = TRUE]
  /\ Goto(p, "unprobe")
  /\ OnlyDb

\* Mutant: a target that can be written to is always taken to be empty.
UnprobeAsCase2(p) ==
  /\ At(p, "unprobe")
  /\ Succeeds(p)
  /\ db' = [db EXCEPT ![Target].probe = FALSE]
  /\ ToCase(p, 2, "drophist")
  /\ OnlyDb

Unprobe(p) ==
  /\ At(p, "unprobe")
  /\ Succeeds(p)
  /\ db' = [db EXCEPT ![Target].probe = FALSE]
  /\ IF run[p].dbrev # NoRev THEN ToCase(p, 1, "ask") ELSE ToCase(p, 2, "drophist")
  /\ OnlyDb

\* schema_writable = False, whatever the reason.
ProbeFails(p) ==
  /\ At(p, "probe") \/ At(p, "unprobe")
  /\ Fails(p)
  /\ ToCase(p, 3, "create")
  /\ NoSQL

\* "Installer will rename it ... Would you like to continue? [Y/N]"
Ask(p) ==
  /\ At(p, "ask")
  /\ Goto(p, "rename") \/ End(p, "declined")
  /\ Quiet /\ NoSQL

Rename(p) ==
  /\ At(p, "rename")
  /\ Succeeds(p)
  /\ db' = Renamed(Target, Backup(p))
  /\ Goto(p, "create")
  /\ OnlyDb

RenameFails(p) ==
  /\ At(p, "rename")
  /\ Fails(p)
  /\ End(p, "aborted")
  /\ NoSQL

(* __db_create_schema catches its own failure and returns normally, so     *)
(* __db_install goes on with __db_create_objects either way.               *)
CreateSchema(p) ==
  /\ At(p, "create")
  /\ \/ /\ Succeeds(p)
        /\ db' = [db EXCEPT ![Target] = EmptySchema]
     \/ /\ Fails(p)
        /\ UNCHANGED db
  /\ Goto(p, "drophist")
  /\ OnlyDb

-----------------------------------------------------------------------------
(* __db_create_objects.                                                    *)

DropHistory(p) ==
  /\ At(p, "drophist")
  /\ Succeeds(p)
  /\ db' = [db EXCEPT ![Target].table = FALSE, ![Target].hist = << >>]
  /\ Goto(p, "createhist")
  /\ OnlyDb

\* Mutant: an upgrade does not copy the old history.
CreateHistoryAfresh(p) ==
  /\ At(p, "createhist")
  /\ Succeeds(p)
  /\ db' = [db EXCEPT ![Target].table = TRUE]
  /\ Goto(p, "stamp")
  /\ OnlyDb

CreateHistory(p) ==
  /\ At(p, "createhist")
  /\ Succeeds(p)
  /\ db' = [db EXCEPT ![Target].table = TRUE]
  /\ Goto(p, IF run[p].case = 1 THEN "copyhist" ELSE "stamp")
  /\ OnlyDb

CopyHistory(p) ==
  /\ At(p, "copyhist")
  /\ Succeeds(p)
  /\ db' = [db EXCEPT ![Target].hist = @ \o db[Backup(p)].hist]
  /\ Goto(p, "stamp")
  /\ OnlyDb

\* Mutant: stamps the version found instead of the one installed.
StampFound(p) ==
  /\ At(p, "stamp")
  /\ Succeeds(p)
  /\ db' = [db EXCEPT ![Target].hist = Append(@, run[p].dbrev)]
  /\ Goto(p, "module")
  /\ OnlyDb

\* "Stamp the DB installation": before the modules, not after them.
Stamp(p) ==
  /\ At(p, "stamp")
  /\ Succeeds(p)
  /\ db' = [db EXCEPT ![Target].hist = Append(@, run[p].rev)]
  /\ Goto(p, "module")
  /\ OnlyDb

\* One module's SQL files, each run by psql -f, all succeeded.
InstallModule(p) ==
  /\ At(p, "module") /\ run[p].k <= Len(ModuleSeq)
  /\ Succeeds(p)
  /\ db' = [db EXCEPT ![Target].objs[ModuleSeq[run[p].k]] = run[p].rev]
  /\ run' = [run EXCEPT ![p].k = @ + 1]
  /\ OnlyDb

Installed(p) ==
  /\ At(p, "module") /\ run[p].k > Len(ModuleSeq)
  /\ End(p, "success")
  /\ Quiet /\ NoSQL

(* What __db_install does when __db_create_objects raises.                 *)
ObjectsFailed(p) ==
  IF run[p].case = 2 THEN End(p, "partial") ELSE Goto(p, "rollback")

HistoryFails(p) ==
  /\ run[p].pc \in {"drophist", "createhist", "copyhist", "stamp"}
  /\ Fails(p)
  /\ ObjectsFailed(p)
  /\ NoSQL

\* A module's file stops at its first error (ON_ERROR_STOP): what it had
\* created stays.  Over objects that are already there it may stop unaided.
ModuleFails(p) ==
  LET m == ModuleSeq[run[p].k]
  IN /\ At(p, "module") /\ run[p].k <= Len(ModuleSeq)
     /\ \/ Fails(p) /\ UNCHANGED db
        \/ /\ HasSchema(Target)
           /\ Fails(p) \/ (db[Target].objs[m] # Absent /\ Quiet)
           /\ db' = [db EXCEPT ![Target].objs[m] = Broken]
     /\ ObjectsFailed(p)
     /\ OnlyDb

\* Mutant: the renamed schema is not put back.
RollbackDropOnly(p) ==
  /\ At(p, "rollback")
  /\ Succeeds(p)
  /\ db' = [db EXCEPT ![Target] = NoSchema]
  /\ End(p, "rolledback")
  /\ OnlyDb

(* __db_rollback: drop the target, put the renamed schema back, and raise. *)
RollbackDrop(p) ==
  /\ At(p, "rollback")
  /\ Succeeds(p)
  /\ db' = [db EXCEPT ![Target] = NoSchema]
  /\ IF run[p].case = 1 THEN Goto(p, "restore") ELSE End(p, "rolledback")
  /\ OnlyDb

RollbackRestore(p) ==
  /\ At(p, "restore")
  /\ Succeeds(p)
  /\ db' = Renamed(Backup(p), Target)
  /\ End(p, "rolledback")
  /\ OnlyDb

\* Mutant: a rollback that fails is tried again.
RollbackRetries(p) ==
  /\ At(p, "rollback") \/ At(p, "restore")
  /\ Fails(p)
  /\ Goto(p, run[p].pc)
  /\ NoSQL

RollbackFails(p) ==
  /\ At(p, "rollback") \/ At(p, "restore")
  /\ Fails(p)
  /\ End(p, "rollbackstopped")
  /\ NoSQL

-----------------------------------------------------------------------------
(* COMMAND: install-check.                                                 *)

Check(p) ==
  /\ At(p, "check")
  /\ IF RevNum(run[p].dbrev) # RevNum(run[p].rev)
       THEN End(p, "mismatch") ELSE Goto(p, "dropuser")
  /\ Quiet /\ NoSQL

SetUser(p, u) == users' = [users EXCEPT ![User(p)] = u] /\ UNCHANGED <<db, tests>>

\* DROP USER IF EXISTS at the start, in its fallback and at the end.
DropUser(p) ==
  /\ run[p].pc \in {"dropuser", "dropuser2", "cleanuser"}
  /\ Succeeds(p)
  /\ SetUser(p, "none")
  /\ \/ run[p].pc \in {"dropuser", "dropuser2"} /\ Goto(p, "createuser")
     \/ At(p, "cleanuser") /\ End(p, "checked")

\* The first DROP USER failed: the user owns something or has rights.
DropUserFails(p) ==
  /\ At(p, "dropuser")
  /\ Fails(p)
  /\ Goto(p, "dropowned")
  /\ NoSQL

\* DROP OWNED BY ... CASCADE takes the user's objects and rights away.
DropOwned(p) ==
  /\ run[p].pc \in {"dropowned", "disown"}
  /\ Succeeds(p)
  /\ SetUser(p, "bare")
  /\ \/ At(p, "dropowned") /\ Goto(p, "dropuser2")
     \/ At(p, "disown") /\ Goto(p, "cleanuser")

CreateUser(p) ==
  /\ At(p, "createuser")
  /\ Succeeds(p)
  /\ SetUser(p, "bare")
  /\ Goto(p, "grant")

Grant(p) ==
  /\ At(p, "grant")
  /\ Succeeds(p)
  /\ SetUser(p, "privileged")
  /\ Goto(p, "opentest")

\* Mutant: the check is over without dropping its user.
SkipTestAndEnd(p) ==
  /\ At(p, "opentest")
  /\ \/ /\ run[p].k <= Len(ModuleSeq)
        /\ ModuleSeq[run[p].k] \notin run[p].picked
        /\ run' = [run EXCEPT ![p].k = @ + 1]
     \/ /\ run[p].k > Len(ModuleSeq)
        /\ End(p, "checked")
  /\ Quiet /\ NoSQL

\* The loop over the modules skips those the operator did not pick.
SkipTest(p) ==
  /\ At(p, "opentest")
  /\ \/ /\ run[p].k <= Len(ModuleSeq)
        /\ ModuleSeq[run[p].k] \notin run[p].picked
        /\ run' = [run EXCEPT ![p].k = @ + 1]
     \/ /\ run[p].k > Len(ModuleSeq)
        /\ Goto(p, "disown")
  /\ Quiet /\ NoSQL

\* DROP SCHEMA IF EXISTS ... CASCADE; CREATE SCHEMA ...  The GRANT that follows
\* changes nothing seen here; a failure of it is one of "closetest".
OpenTest(p) ==
  /\ At(p, "opentest") /\ run[p].k <= Len(ModuleSeq)
  /\ ModuleSeq[run[p].k] \in run[p].picked
  /\ Succeeds(p)
  /\ tests' = tests \cup {ModuleSeq[run[p].k]}
  /\ Goto(p, "closetest")
  /\ UNCHANGED <<db, users>>

\* The test files ran, with whatever result, and their schema is dropped.
CloseTest(p) ==
  /\ At(p, "closetest")
  /\ Succeeds(p)
  /\ tests' = tests \ {ModuleSeq[run[p].k]}
  /\ run' = [run EXCEPT ![p].pc = "opentest", ![p].k = @ + 1]
  /\ UNCHANGED <<db, users>>

\* No other statement of the check is guarded: the tool ends in a traceback.
CheckFails(p) ==
  /\ run[p].pc \in {"dropowned", "dropuser2", "createuser", "grant", "opentest",
                    "closetest", "disown", "cleanuser"}
  /\ Fails(p)
  /\ End(p, "aborted")
  /\ NoSQL

-----------------------------------------------------------------------------
(* The specification.                                                      *)

Commit(p) ==
  \/ UninstallDrop(p) \/ Probe(p) \/ Unprobe(p) \/ Rename(p)
  \/ DropHistory(p) \/ CreateHistory(p) \/ CopyHistory(p) \/ Stamp(p)
  \/ InstallModule(p) \/ RollbackDrop(p) \/ RollbackRestore(p)

Decide(p) ==
  \/ Uninstall(p) \/ Confirm(p) \/ Reread(p) \/ Compare(p) \/ PlpyCheck(p)
  \/ Ask(p) \/ CreateSchema(p) \/ Installed(p)

Fault(p) ==
  \/ UninstallDropFails(p) \/ ProbeFails(p) \/ RenameFails(p)
  \/ HistoryFails(p) \/ ModuleFails(p) \/ RollbackFails(p)

CheckStep(p) ==
  \/ Check(p) \/ DropUser(p) \/ DropUserFails(p) \/ DropOwned(p)
  \/ CreateUser(p) \/ Grant(p) \/ SkipTest(p) \/ OpenTest(p) \/ CloseTest(p)
  \/ CheckFails(p)

\* What the tool does of its own accord once a command has been started.
Step(p) == Commit(p) \/ Decide(p) \/ Fault(p) \/ CheckStep(p)

Next == \E p \in Procs :
  \/ Step(p)
  \/ Crash(p)
  \/ \E c \in Commands, v \in Revs :
       \E ms \in IF c = "check" THEN SUBSET Modules ELSE {{}} : Start(p, c, v, ms)

Spec == Init /\ [][Next]_vars

\* A started command runs on; the operator answers its prompts.
FairSpec == Spec /\ \A p \in Procs : WF_vars(Step(p))

-----------------------------------------------------------------------------
(* Properties.                                                             *)

Labels == {"idle", "uninstall", "confirm", "drop", "reread", "compare", "plpy",
  "probe", "unprobe", "ask", "rename", "create", "drophist", "createhist",
  "copyhist", "stamp", "module", "rollback", "restore", "check", "dropuser",
  "dropowned", "dropuser2", "createuser", "grant", "opentest", "closetest",
  "disown", "cleanuser"}

Outcomes == {"none", "killed", "nothing", "declined", "uninstalled", "aborted",
  "uptodate", "success", "partial", "rolledback", "rollbackstopped",
  "mismatch", "checked"}

\* The state is well typed; a case-1 run knows a version, so its backup
\* schema has one of the names madpack uses.
TypeOK ==
  /\ db \in [Names -> Schema \cup {NoSchema}]
  /\ users \in [{TempSchema(v) : v \in Revs} -> {"none", "bare", "privileged"}]
  /\ tests \subseteq Modules
  /\ run \in [Procs ->
       [pc: Labels, cmd: AllCommands, rev: Revs \cup {NoRev},
        dbrev: Revs \cup {NoRev}, case: 0..3, k: 1..(Len(ModuleSeq) + 1),
        picked: SUBSET Modules, outcome: Outcomes,
        before: Schema \cup {NoSchema}, dropped: BOOLEAN]]
  /\ faults \in Nat /\ crashes \in Nat /\ runs \in Nat

\* A complete installation: stamped, and all objects of the stamped version.
Complete(s) == DbRev(s) # NoRev /\ \A m \in Modules : s.objs[m] = DbRev(s)

Content(s) == [hist |-> s.hist, objs |-> s.objs]

(* A complete installation is only ever destroyed by the uninstall that    *)
(* asked for it: through upgrades, failures, rollbacks and the death of    *)
(* the tool it stays in some schema (DROP SCHEMA in __db_rollback, DROP    *)
(* TABLE in __db_create_objects).                                          *)
OnlyUninstallDestroys == [][
  \A n \in Names : Complete(db[n]) =>
    \/ \E n2 \in Names : Complete(db'[n2]) /\ Content(db'[n2]) = Content(db[n])
    \/ n = Target /\ \E p \in Procs : At(p, "drop") /\ run[p].dbrev = DbRev(db[n])
  ]_vars

(* When madpack says it stopped, was not needed, or rolled back, the       *)
(* target schema is what it was when the command started.  A reinstall is  *)
(* the exception: its drop is not part of what a rollback undoes, so once  *)
(* the operator has confirmed it and it is done, a command that stops      *)
(* leaves no target, and no half-made one in its place.                    *)
FailureRestores == \A p \in Procs :
  run[p].outcome \in {"nothing", "declined", "aborted", "uptodate", "rolledback",
                      "mismatch", "checked"}
    => IF run[p].dropped THEN ~HasSchema(Target) ELSE db[Target] = run[p].before

(* "MADlib installed successfully": every module is there in the tools'    *)
(* version and the history is the old one with this version added; a       *)
(* reinstall has dropped the old one.                                      *)
SuccessMeansInstalled == \A p \in Procs :
  LET old == Owed(run[p])
  IN run[p].outcome = "success" =>
       /\ Complete(db[Target]) /\ DbRev(db[Target]) = run[p].rev
       /\ db[Target].hist = Append(IF DbRev(old) = NoRev THEN << >> ELSE old.hist,
                                   run[p].rev)

(* A backup schema holds the version its name says, although the version   *)
(* is read when the tool starts and the schema renamed after a prompt.     *)
BackupsAreNamed == \A n \in Names \ {Target} :
  HasSchema(n) => DbRev(db[n]) # NoRev /\ TempSchema(DbRev(db[n])) = n

(* A finished install-check leaves no user and no test schema of its       *)
(* modules, whatever an interrupted earlier check left behind.             *)
CheckLeavesNoTrace == \A p \in Procs :
  run[p].outcome = "checked" =>
    users[User(p)] = "none" /\ tests \cap run[p].picked = {}

(* Every command comes to an end: no failure leaves the tool without a     *)
(* way on.                                                                 *)
CommandEnds == \A p \in Procs : run[p].pc # "idle" ~> run[p].pc = "idle"

-----------------------------------------------------------------------------
(* What the source says of itself and a run refutes.                       *)

(* __db_install: "CASE #3: Target schema does not exist".  A complete      *)
(* installation is taken for a missing schema all the same: what follows   *)
(* drops its history, and a rollback would drop it (__db_create_objects,   *)
(* __db_rollback).                                                         *)
Case3TargetIsMissing == \A p \in Procs :
  run[p].pc = "create" /\ run[p].case = 3 => ~Complete(db[Target])
=============================================================================
