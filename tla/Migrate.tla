------------------------------ MODULE Migrate ------------------------------
(***************************************************************************)
(* The migrate commands of the console (internal/console/migrate.go): up,  *)
(* down and down-all over the targets that --plugin selects, tracked in    *)
(* the tables migrations and migration_targets.                            *)
(*                                                                         *)
(* A command has no transaction.  Every statement is a step: a runner may  *)
(* die or fail, or another runner go on, between any two of them.          *)
(***************************************************************************)
EXTENDS Integers, Sequences, SequencesExt, FiniteSetsExt

CONSTANTS
    Targets,        \* what has a migrations directory: the core, if it has
                    \* one, then the plugins in order
    Core,           \* the core's name, the default of --plugin
    All,            \* --plugin all
    Files,          \* listMigrationFiles: the numbers of each target's files
    Runner          \* processes running the command

Target == ToSet(Targets)

ASSUME MigrateAssumption ==
    /\ Targets \in Seq(Target) /\ IsInjective(Targets) /\ Targets # <<>>
    /\ Core \in Target => Core = Targets[1]
    /\ All \notin Target
    /\ \A t \in Target : Files[t] \subseteq Nat \ {0} /\ IsFiniteSet(Files[t])

Command == {"up", "down", "down-all"}
Plugin == {All, Core} \cup Target

\* collectTargets.  Nothing selected is an error, before any statement.
Selected(plugin) ==
    IF plugin = All THEN Targets ELSE IF plugin \in Target THEN <<plugin>> ELSE <<>>

\* What a runner does next on the target it is at.
Stage == {"any", "check", "version", "mark", "exec", "record", "clear"}
Idle == [stage |-> "idle"]
Run == {Idle} \cup [stage : Stage, command : Command, plugin : Plugin,
                      at : 1..Len(Targets), file : Nat]

VARIABLES
    schema,         \* the migrations whose SQL is in effect, per target
    records,        \* table migrations: the versions recorded, per target
    dirty,          \* table migration_targets
    run             \* what each runner is doing

vars == <<schema, records, dirty, run>>

TypeOK ==
    /\ \A t \in Target : schema[t] \cup records[t] \subseteq Files[t]
    /\ dirty \in [Target -> BOOLEAN]
    /\ run \in [Runner -> Run]

Init ==
    /\ schema = [t \in Target |-> {}]
    /\ records = [t \in Target |-> {}]
    /\ dirty = [t \in Target |-> FALSE]
    /\ run = [r \in Runner |-> Idle]

-----------------------------------------------------------------------------
(* Walking over the targets and their files.                               *)

\* (Mutation: a rollback visits the core first.)
CoreFirst(command, plugin) == Selected(plugin)

Order(command, plugin) ==
    IF command = "up" THEN Selected(plugin) ELSE Reverse(Selected(plugin))

At(r) == Order(run[r].command, run[r].plugin)[run[r].at]
Up(r) == run[r].command = "up"

FirstStage(command) == IF command = "down-all" THEN "any" ELSE "check"

Becomes(r, x) == run' = [run EXCEPT ![r] = x]
Stop(r) == Becomes(r, Idle)
Go(r, stage) == Becomes(r, [run[r] EXCEPT !.stage = stage])

\* The target is done: the next one, if there is one.
NextTarget(r) ==
    IF run[r].at = Len(Selected(run[r].plugin))
    THEN Stop(r)
    ELSE Becomes(r, [run[r] EXCEPT !.at = @ + 1, !.stage = FirstStage(run[r].command)])

\* (Mutation: the files are not sorted by number.)
PendingUnsorted(t, current) ==
    LET newer == {f \in Files[t] : f > current} IN
    IF newer = {} THEN 0 ELSE Max(newer)

\* The first file of t after `current`; 0 is none.
Pending(t, current) ==
    LET newer == {f \in Files[t] : f > current} IN
    IF newer = {} THEN 0 ELSE Min(newer)

LastRecorded(t) == IF records[t] = {} THEN 0 ELSE Max(records[t])

\* Goes on with file f, or with what comes after the target's last one.
Take(r, f) == Becomes(r, [run[r] EXCEPT !.file = f, !.stage = "mark"])

-----------------------------------------------------------------------------
(* The statements of a command.                                            *)

Start(r, command, plugin) ==
    /\ run[r] = Idle
    /\ Selected(plugin) # <<>>
    /\ Becomes(r, [stage |-> FirstStage(command), command |-> command, plugin |-> plugin,
                   at |-> 1, file |-> 0])
    /\ UNCHANGED <<schema, records, dirty>>

\* applyDownAll looks whether there is anything left to roll back, before it
\* looks whether the target is dirty.
AnyLeft(r) ==
    /\ run[r].stage = "any"
    /\ IF LastRecorded(At(r)) = 0 THEN NextTarget(r) ELSE Go(r, "check")
    /\ UNCHANGED <<schema, records, dirty>>

\* (Mutation: a dirty target is not refused.)
NoCheck(r) ==
    /\ run[r].stage = "check"
    /\ Go(r, "version")
    /\ UNCHANGED <<schema, records, dirty>>

\* A dirty target is refused, and with it the rest of the command.
IsTargetDirty(r) ==
    /\ run[r].stage = "check"
    /\ IF dirty[At(r)] THEN Stop(r) ELSE Go(r, "version")
    /\ UNCHANGED <<schema, records, dirty>>

\* The version recorded last decides what there is to do.
GetCurrentVersion(r) ==
    LET t == At(r)
        file == IF Up(r) THEN Pending(t, LastRecorded(t)) ELSE LastRecorded(t)
    IN  /\ run[r].stage = "version"
        /\ CASE file # 0                    -> Take(r, file)
             [] run[r].command = "down-all" -> Go(r, "any")
             [] OTHER                       -> NextTarget(r)
        /\ UNCHANGED <<schema, records, dirty>>

SetTargetDirty(r) ==
    /\ run[r].stage = "mark"
    /\ dirty' = [dirty EXCEPT ![At(r)] = TRUE]
    /\ Go(r, "exec")
    /\ UNCHANGED <<schema, records>>

\* The file's SQL: all of it takes effect, or, if a statement of it fails, none
\* (PostgreSQL runs it as one implicit transaction) and the command stops.
ExecSQLFile(r) ==
    LET t == At(r)
        f == run[r].file
    IN  /\ run[r].stage = "exec"
        /\ \/ /\ schema' = [schema EXCEPT ![t] = IF Up(r) THEN @ \cup {f} ELSE @ \ {f}]
              /\ Go(r, "record")
              /\ UNCHANGED dirty
           \/ /\ dirty' = [dirty EXCEPT ![t] = TRUE]
              /\ Stop(r)
              /\ UNCHANGED schema
        /\ UNCHANGED records

\* (Mutation: deleteMigrationRecord deletes nothing.)
RecordUpOnly(r) ==
    /\ run[r].stage = "record"
    /\ records' = IF Up(r) THEN [records EXCEPT ![At(r)] = @ \cup {run[r].file}] ELSE records
    /\ Go(r, "clear")
    /\ UNCHANGED <<schema, dirty>>

\* insertMigrationRecord, deleteMigrationRecord.
Record(r) ==
    LET f == run[r].file IN
    /\ run[r].stage = "record"
    /\ records' = [records EXCEPT ![At(r)] = IF Up(r) THEN @ \cup {f} ELSE @ \ {f}]
    /\ Go(r, "clear")
    /\ UNCHANGED <<schema, dirty>>

\* The file is done: up goes on with the next one (it does not read the table
\* again), down-all starts over, down is done with the target.
ClearTargetDirty(r) ==
    LET t == At(r)
        next == Pending(t, run[r].file)
    IN  /\ run[r].stage = "clear"
        /\ dirty' = [dirty EXCEPT ![t] = FALSE]
        /\ CASE Up(r) /\ next # 0           -> Take(r, next)
             [] run[r].command = "down-all" -> Go(r, "any")
             [] OTHER                       -> NextTarget(r)
        /\ UNCHANGED <<schema, records>>

\* A statement fails or the process is killed.
Crash(r) ==
    /\ run[r] # Idle
    /\ Stop(r)
    /\ UNCHANGED <<schema, records, dirty>>

\* What the README asks of the operator: nothing being run, make the records
\* say what the database is, then clear dirty.
Resolve(t) ==
    /\ dirty[t]
    /\ \A r \in Runner : run[r] = Idle
    /\ records' = [records EXCEPT ![t] = schema[t]]
    /\ dirty' = [dirty EXCEPT ![t] = FALSE]
    /\ UNCHANGED <<schema, run>>

-----------------------------------------------------------------------------
Step(r) ==
    \/ AnyLeft(r)
    \/ IsTargetDirty(r)
    \/ GetCurrentVersion(r)
    \/ SetTargetDirty(r)
    \/ ExecSQLFile(r)
    \/ Record(r)
    \/ ClearTargetDirty(r)

Next ==
    \/ \E r \in Runner :
          \/ Step(r)
          \/ Crash(r)
          \/ \E command \in Command, plugin \in Plugin : Start(r, command, plugin)
    \/ \E t \in Target : Resolve(t)

Spec == Init /\ [][Next]_vars

\* A command runs on until it ends; nobody has to start one or repair anything.
FairSpec == Spec /\ \A r \in Runner : WF_vars(Step(r))

-----------------------------------------------------------------------------
(* Properties.                                                             *)

\* What dirty is for: wherever a single runner fails or is killed, a target that
\* is not dirty has exactly the migrations in effect that are recorded.
CleanIsRecorded == \A t \in Target : ~dirty[t] => schema[t] = records[t]

\* Nothing is applied before, or rolled back after, what it builds on: the
\* migrations in effect, and those recorded, leave no gap.
NoGap(versions, t) == \A f \in versions, g \in Files[t] : g < f => g \in versions
AppliedInOrder == \A t \in Target : NoGap(schema[t], t) /\ NoGap(records[t], t)

\* What --plugin all is for, wherever the commands before it failed, were killed or
\* repaired, and whichever targets they were given: up adds to a plugin only on top of
\* a complete core, and down-all takes from the core only when nothing is recorded of
\* any plugin, nor in effect except where a plugin is dirty.
PluginsOnCore ==
    [][\A r \in Runner, t \in Target \ {Core} :
          Core \in Target /\ run[r] # Idle /\ run[r].plugin = All =>
             /\ Up(r) /\ schema'[t] # schema[t] => schema[Core] = Files[Core]
             /\ run[r].command = "down-all" /\ schema'[Core] # schema[Core] =>
                    records[t] = {} /\ (schema[t] = {} \/ dirty[t])]_vars

\* Every command ends, down-all's loop included.
EveryCommandEnds == \A r \in Runner : run[r] # Idle ~> run[r] = Idle

\* The README says that the CLI refuses to continue when a target is dirty: no
\* command goes on from a dirty target to the next one.
StopsAtDirty ==
    [][\A r \in Runner : run[r] # Idle /\ run'[r] # Idle /\ run'[r].at > run[r].at
                             => ~dirty'[At(r)]]_vars

\* The same sentence, for commands that run at the same time: no file is begun
\* while another runner has marked the target dirty.
RefusesDirty ==
    [][\A r \in Runner : run[r].stage = "mark" /\ run'[r].stage = "exec"
                             => ~dirty[At(r)]]_vars

\* The README says that down-all rolls back all migrations, the plugins first, then
\* the core: no down-all takes from the core while a clean plugin has migrations.
DownAllPluginsFirst ==
    [][\A r \in Runner, t \in Target \ {Core} :
          run[r] # Idle /\ run[r].command = "down-all" /\ schema'[Core] # schema[Core] =>
              schema[t] = {} \/ dirty[t]]_vars

=============================================================================
