--------------------------- MODULE MigrateProofs ---------------------------
(***************************************************************************)
(* What dirty is for (Migrate.tla), for any targets, files and commands,   *)
(* and failures and kills anywhere, of a runner that runs alone.           *)
(*                                                                         *)
(* CleanIsRecorded is not inductive: a target that is dirty now is cleared *)
(* later.  IInv adds what a runner knows of its target at each stage: from *)
(* "mark" on the records are the schema, until the SQL has run and one is  *)
(* a file behind the other.                                                *)
(*                                                                         *)
(* Three more layers stand on it.  Typed holds for any number of runners.  *)
(* Ordered adds to AppliedInOrder that a file begun is the next one        *)
(* (Ready).  Walked is what up and down-all over all targets have left     *)
(* behind them on their way (LeftBehind), and with it every step of theirs *)
(* is one that PluginsOnCore allows.                                       *)
(***************************************************************************)
EXTENDS Migrate, FiniteSetTheorems, TLAPS

\* The commands are run one after the other.  (With two at a time a target can
\* be clean and wrong: the run of RefusesDirty.)
OneRunner == \A r, s \in Runner : r = s

\* The records with these fields, of which there is one.
Running(stage, command, plugin, at, file) ==
    [stage : {stage}, command : {command}, plugin : {plugin}, at : {at}, file : {file}]

Shape ==
    /\ DOMAIN schema = Target /\ DOMAIN records = Target /\ DOMAIN dirty = Target
    /\ DOMAIN run = Runner
    /\ \A r \in Runner :
          \/ run[r] = Idle
          \/ run[r] \in Running(run[r].stage, run[r].command, run[r].plugin, run[r].at, run[r].file)

\* What the records become when the file that runner r is at has been recorded.
Recorded(r) == IF Up(r) THEN records[At(r)] \cup {run[r].file}
                        ELSE records[At(r)] \ {run[r].file}

Knows(r) ==
    At(r) \in Target =>
        /\ run[r].stage \in {"version", "mark"} => ~dirty[At(r)]
        /\ run[r].stage \in {"exec", "record"} => dirty[At(r)]
        /\ run[r].stage \in {"exec", "clear"} => schema[At(r)] = records[At(r)]
        /\ run[r].stage = "record" => schema[At(r)] = Recorded(r)

IInv == Shape /\ CleanIsRecorded /\ \A r \in Runner : Knows(r)

-----------------------------------------------------------------------------
(* What a step does to the run of its runner.                              *)

LEMMA Fields ==
    ASSUME NEW s, NEW c, NEW p, NEW a, NEW f, NEW x \in Running(s, c, p, a, f)
    PROVE  /\ x.stage = s /\ x.command = c /\ x.plugin = p /\ x.at = a /\ x.file = f
           /\ x \in Running(x.stage, x.command, x.plugin, x.at, x.file)
BY DEF Running

LEMMA Becoming ==
    ASSUME Shape, NEW r \in Runner, NEW x, Becomes(r, x)
    PROVE  DOMAIN run' = Runner /\ run'[r] = x
BY DEF Shape, Becomes

LEMMA Stopping ==
    ASSUME Shape, OneRunner, NEW r \in Runner, Stop(r)
    PROVE  /\ DOMAIN run' = Runner
           /\ \A s \in Runner : run'[s] = Idle
BY Becoming DEF Stop, OneRunner

LEMMA Going ==
    ASSUME Shape, OneRunner, NEW r \in Runner, run[r] # Idle, NEW stage, Go(r, stage)
    PROVE  /\ DOMAIN run' = Runner
           /\ \A s \in Runner :
                 /\ s = r
                 /\ run'[s] \in Running(stage, run[s].command, run[s].plugin, run[s].at, run[s].file)
<1>1. run[r] \in Running(run[r].stage, run[r].command, run[r].plugin, run[r].at, run[r].file)
  BY DEF Shape
<1>2. [run[r] EXCEPT !.stage = stage] \in Running(stage, run[r].command, run[r].plugin, run[r].at, run[r].file)
  BY <1>1 DEF Running
<1> QED BY <1>2, Becoming DEF Go, OneRunner

LEMMA Taking ==
    ASSUME Shape, OneRunner, NEW r \in Runner, run[r] # Idle, NEW f, Take(r, f)
    PROVE  /\ DOMAIN run' = Runner
           /\ \A s \in Runner :
                 /\ s = r
                 /\ run'[s] \in Running("mark", run[s].command, run[s].plugin, run[s].at, f)
<1>1. run[r] \in Running(run[r].stage, run[r].command, run[r].plugin, run[r].at, run[r].file)
  BY DEF Shape
<1>2. [run[r] EXCEPT !.file = f, !.stage = "mark"] \in Running("mark", run[r].command, run[r].plugin, run[r].at, f)
  BY <1>1 DEF Running
<1> QED BY <1>2, Becoming DEF Take, OneRunner

\* Whatever target comes next, the runner knows nothing of it yet.
LEMMA Moving ==
    ASSUME Shape, OneRunner, NEW r \in Runner, run[r] # Idle, NextTarget(r)
    PROVE  /\ DOMAIN run' = Runner
           /\ \A s \in Runner :
                 \/ run'[s] = Idle
                 \/ \E stage \in {"any", "check"} :
                       run'[s] \in Running(stage, run[s].command, run[s].plugin, run[s].at + 1, run[s].file)
<1> DEFINE stage == FirstStage(run[r].command)
<1>1. CASE run[r].at = Len(Selected(run[r].plugin))
  BY <1>1, Stopping DEF NextTarget
<1>2. CASE run[r].at # Len(Selected(run[r].plugin))
  <2>1. run[r] \in Running(run[r].stage, run[r].command, run[r].plugin, run[r].at, run[r].file)
    BY DEF Shape
  <2>2. stage \in {"any", "check"}
    BY DEF FirstStage
  <2>3. Becomes(r, [run[r] EXCEPT !.at = @ + 1, !.stage = stage])
    BY <1>2 DEF NextTarget
  <2> HIDE DEF stage
  <2>4. [run[r] EXCEPT !.at = @ + 1, !.stage = stage] \in
            Running(stage, run[r].command, run[r].plugin, run[r].at + 1, run[r].file)
    BY <2>1 DEF Running
  <2> QED BY <2>2, <2>3, <2>4, Becoming DEF OneRunner
<1> QED BY <1>1, <1>2

-----------------------------------------------------------------------------
(* Every step keeps the invariant.                                         *)

\* The tables are clean still and the runner has come to a stage of which
\* nothing has to be known.
LEMMA NothingToKnow ==
    ASSUME Shape, CleanIsRecorded',
           DOMAIN schema' = Target, DOMAIN records' = Target, DOMAIN dirty' = Target,
           DOMAIN run' = Runner,
           \A r \in Runner : \/ run'[r] = Idle
                             \/ \E s \in {"any", "check"} : \E c, p, a, f : run'[r] \in Running(s, c, p, a, f)
    PROVE  IInv'
<1>1. \A r \in Runner : \/ run'[r] = Idle
                         \/ run'[r] \in Running(run'[r].stage, run'[r].command, run'[r].plugin, run'[r].at, run'[r].file)
  BY Fields
<1>2. \A r \in Runner : run'[r].stage \in {"idle", "any", "check"}
  BY Fields DEF Idle
<1>3. Shape'
  BY <1>1 DEF Shape
<1>4. \A r \in Runner : Knows(r)'
  BY <1>2 DEF Knows
<1> QED BY <1>3, <1>4 DEF IInv

LEMMA Unchanged ==
    ASSUME IInv, UNCHANGED <<schema, records, dirty>>
    PROVE  /\ DOMAIN schema' = Target /\ DOMAIN records' = Target /\ DOMAIN dirty' = Target
           /\ CleanIsRecorded'
BY DEF IInv, Shape, CleanIsRecorded

\* The runner goes on at the target it is at.
LEMMA Same ==
    ASSUME NEW r \in Runner, NEW s, NEW f, run'[r] \in Running(s, run[r].command, run[r].plugin, run[r].at, f)
    PROVE  /\ run'[r].stage = s /\ run'[r].file = f
           /\ At(r)' = At(r) /\ Up(r)' = Up(r)
           /\ run'[r] \in Running(run'[r].stage, run'[r].command, run'[r].plugin, run'[r].at, run'[r].file)
<1>1. /\ run'[r].stage = s /\ run'[r].file = f
      /\ run'[r].command = run[r].command /\ run'[r].at = run[r].at
      /\ run'[r].plugin = run[r].plugin
      /\ run'[r] \in Running(run'[r].stage, run'[r].command, run'[r].plugin, run'[r].at, run'[r].file)
  BY Fields
<1> QED BY <1>1 DEF At, Up, Order

LEMMA StartKeeps ==
    ASSUME IInv, OneRunner, NEW r \in Runner, NEW command \in Command, NEW plugin \in Plugin,
           Start(r, command, plugin)
    PROVE  IInv'
<1> DEFINE x == [stage |-> FirstStage(command), command |-> command, plugin |-> plugin,
                 at |-> 1, file |-> 0]
<1>1. x \in Running(FirstStage(command), command, plugin, 1, 0) /\ FirstStage(command) \in {"any", "check"}
  BY DEF Running, FirstStage
<1>2. DOMAIN run' = Runner /\ run'[r] = x
  BY Becoming DEF Start, IInv
<1> HIDE DEF x
<1>3. \A s \in Runner : \E z \in {"any", "check"} : \E c, p, a, f : run'[s] \in Running(z, c, p, a, f)
  BY <1>1, <1>2 DEF OneRunner
<1> QED BY <1>2, <1>3, Unchanged, NothingToKnow DEF Start, IInv

LEMMA NotIdle ==
    ASSUME NEW r \in Runner, run[r].stage \in Stage
    PROVE  run[r] # Idle
BY DEF Stage, Idle

LEMMA AnyLeftKeeps ==
    ASSUME IInv, OneRunner, NEW r \in Runner, AnyLeft(r)
    PROVE  IInv'
<1>1. Shape /\ run[r] # Idle
  BY NotIdle DEF AnyLeft, Stage, IInv
<1>2. CASE NextTarget(r)
  BY <1>1, <1>2, Moving, Unchanged, NothingToKnow DEF AnyLeft
<1>3. CASE Go(r, "check")
  BY <1>1, <1>3, Going, Unchanged, NothingToKnow DEF AnyLeft
<1> QED BY <1>2, <1>3 DEF AnyLeft

LEMMA IsTargetDirtyKeeps ==
    ASSUME IInv, OneRunner, NEW r \in Runner, IsTargetDirty(r)
    PROVE  IInv'
<1>1. Shape /\ run[r] # Idle
  BY NotIdle DEF IsTargetDirty, Stage, IInv
<1>2. CASE dirty[At(r)]
  BY <1>1, <1>2, Stopping, Unchanged, NothingToKnow DEF IsTargetDirty
<1>3. CASE ~dirty[At(r)]
  <2>1. Go(r, "version") /\ UNCHANGED <<schema, records, dirty>>
    BY <1>3 DEF IsTargetDirty
  <2>2. /\ DOMAIN run' = Runner
        /\ \A s \in Runner :
              s = r /\ run'[s] \in Running("version", run[s].command, run[s].plugin, run[s].at, run[s].file)
    BY <1>1, <2>1, Going
  <2>3. /\ run'[r].stage = "version" /\ At(r)' = At(r)
        /\ run'[r] \in Running(run'[r].stage, run'[r].command, run'[r].plugin, run'[r].at, run'[r].file)
    BY <2>2, Same
  <2>4. Shape'
    BY <2>1, <2>2, <2>3, Unchanged DEF Shape
  <2>5. Knows(r)'
    BY <1>3, <2>1, <2>3 DEF Knows
  <2> QED BY <2>1, <2>2, <2>4, <2>5, Unchanged DEF IInv
<1> QED BY <1>2, <1>3

\* A file is taken from a target that is not dirty.
LEMMA TakeKeeps ==
    ASSUME OneRunner, Shape, NEW r \in Runner, NEW f, run[r] # Idle, Take(r, f),
           DOMAIN schema' = Target, DOMAIN records' = Target, DOMAIN dirty' = Target,
           CleanIsRecorded', At(r) \in Target => ~dirty'[At(r)]
    PROVE  IInv'
<1>1. /\ DOMAIN run' = Runner
      /\ \A s \in Runner : s = r /\ run'[s] \in Running("mark", run[s].command, run[s].plugin, run[s].at, f)
  BY Taking
<1>2. /\ run'[r].stage = "mark" /\ At(r)' = At(r)
      /\ run'[r] \in Running(run'[r].stage, run'[r].command, run'[r].plugin, run'[r].at, run'[r].file)
  BY <1>1, Same
<1>3. Shape'
  BY <1>1, <1>2 DEF Shape
<1>4. Knows(r)'
  BY <1>2 DEF Knows
<1> QED BY <1>1, <1>3, <1>4 DEF IInv

LEMMA GetCurrentVersionKeeps ==
    ASSUME IInv, OneRunner, NEW r \in Runner, GetCurrentVersion(r)
    PROVE  IInv'
<1> DEFINE t == At(r)
           file == IF Up(r) THEN Pending(t, LastRecorded(t)) ELSE LastRecorded(t)
<1>1. Shape /\ run[r] # Idle
  BY NotIdle DEF GetCurrentVersion, Stage, IInv
<1>2. t \in Target => ~dirty[t]
  BY DEF GetCurrentVersion, IInv, Knows
<1>3. UNCHANGED <<schema, records, dirty>>
  BY DEF GetCurrentVersion
<1>4. \/ Take(r, file) \/ Go(r, "any") \/ NextTarget(r)
  BY DEF GetCurrentVersion
<1> HIDE DEF file
<1>5. CASE Take(r, file)
  BY <1>1, <1>2, <1>3, <1>5, Unchanged, TakeKeeps
<1>6. CASE Go(r, "any")
  BY <1>1, <1>3, <1>6, Going, Unchanged, NothingToKnow
<1>7. CASE NextTarget(r)
  BY <1>1, <1>3, <1>7, Moving, Unchanged, NothingToKnow
<1> QED BY <1>4, <1>5, <1>6, <1>7

LEMMA SetTargetDirtyKeeps ==
    ASSUME IInv, OneRunner, NEW r \in Runner, SetTargetDirty(r)
    PROVE  IInv'
<1>1. Shape /\ run[r] # Idle
  BY NotIdle DEF SetTargetDirty, Stage, IInv
<1>2. /\ dirty' = [dirty EXCEPT ![At(r)] = TRUE] /\ UNCHANGED <<schema, records>>
      /\ Go(r, "exec") /\ run[r].stage = "mark"
  BY DEF SetTargetDirty
<1>3. /\ DOMAIN run' = Runner
      /\ \A s \in Runner :
            s = r /\ run'[s] \in Running("exec", run[s].command, run[s].plugin, run[s].at, run[s].file)
  BY <1>1, <1>2, Going
<1>4. /\ run'[r].stage = "exec" /\ At(r)' = At(r)
      /\ run'[r] \in Running(run'[r].stage, run'[r].command, run'[r].plugin, run'[r].at, run'[r].file)
  BY <1>3, Same
<1>5. Shape'
  BY <1>1, <1>2, <1>3, <1>4 DEF Shape
<1>6. CleanIsRecorded'
  BY <1>1, <1>2 DEF IInv, Shape, CleanIsRecorded
<1>7. At(r) \in Target => dirty'[At(r)] /\ schema[At(r)] = records[At(r)]
  BY <1>1, <1>2 DEF IInv, Shape, CleanIsRecorded, Knows
<1>8. Knows(r)'
  BY <1>2, <1>4, <1>7 DEF Knows
<1> QED BY <1>3, <1>5, <1>6, <1>8 DEF IInv

LEMMA ExecSQLFileKeeps ==
    ASSUME IInv, OneRunner, NEW r \in Runner, ExecSQLFile(r)
    PROVE  IInv'
<1> DEFINE t == At(r)
           f == run[r].file
<1>1. Shape /\ run[r] # Idle /\ run[r].stage = "exec" /\ records' = records
  BY NotIdle DEF ExecSQLFile, Stage, IInv
<1>2. t \in Target => dirty[t] /\ schema[t] = records[t]
  BY <1>1 DEF IInv, Knows
<1>3. CASE /\ schema' = [schema EXCEPT ![t] = IF Up(r) THEN @ \cup {f} ELSE @ \ {f}]
           /\ Go(r, "record") /\ dirty' = dirty
  <2>1. /\ DOMAIN run' = Runner
        /\ \A s \in Runner :
              s = r /\ run'[s] \in Running("record", run[s].command, run[s].plugin, run[s].at, run[s].file)
    BY <1>1, <1>3, Going
  <2>2. /\ run'[r].stage = "record" /\ run'[r].file = f /\ At(r)' = t /\ Up(r)' = Up(r)
        /\ run'[r] \in Running(run'[r].stage, run'[r].command, run'[r].plugin, run'[r].at, run'[r].file)
    BY <2>1, Same
  <2>3. Shape'
    BY <1>1, <1>3, <2>1, <2>2 DEF Shape
  <2>4. \A u \in Target : u # t => schema'[u] = schema[u]
    BY <1>1, <1>3 DEF Shape
  <2>5. CleanIsRecorded'
    BY <1>1, <1>2, <1>3, <2>4 DEF IInv, CleanIsRecorded
  <2>6. t \in Target => schema'[t] = IF Up(r) THEN records[t] \cup {f} ELSE records[t] \ {f}
    BY <1>1, <1>2, <1>3 DEF Shape
  <2>7. Knows(r)'
    BY <1>1, <1>2, <1>3, <2>2, <2>6 DEF Knows, Recorded
  <2> QED BY <2>1, <2>3, <2>5, <2>7 DEF IInv
<1>4. CASE /\ dirty' = [dirty EXCEPT ![t] = TRUE] /\ Stop(r) /\ schema' = schema
  <2>1. CleanIsRecorded'
    BY <1>1, <1>4 DEF IInv, Shape, CleanIsRecorded
  <2>2. DOMAIN schema' = Target /\ DOMAIN records' = Target /\ DOMAIN dirty' = Target
    BY <1>1, <1>4 DEF Shape
  <2> QED BY <1>1, <1>4, <2>1, <2>2, Stopping, NothingToKnow
<1> QED BY <1>3, <1>4 DEF ExecSQLFile

LEMMA RecordKeeps ==
    ASSUME IInv, OneRunner, NEW r \in Runner, Record(r)
    PROVE  IInv'
<1> DEFINE t == At(r)
<1>1. Shape /\ run[r] # Idle /\ run[r].stage = "record" /\ UNCHANGED <<schema, dirty>>
  BY NotIdle DEF Record, Stage, IInv
<1>2. /\ Go(r, "clear")
      /\ records' = [records EXCEPT ![t] = IF Up(r) THEN @ \cup {run[r].file}
                                                     ELSE @ \ {run[r].file}]
  BY DEF Record
<1>3. t \in Target => dirty[t] /\ schema[t] = Recorded(r)
  BY <1>1 DEF IInv, Knows
<1>4. /\ DOMAIN run' = Runner
      /\ \A s \in Runner :
            s = r /\ run'[s] \in Running("clear", run[s].command, run[s].plugin, run[s].at, run[s].file)
  BY <1>1, <1>2, Going
<1>5. /\ run'[r].stage = "clear" /\ At(r)' = t
      /\ run'[r] \in Running(run'[r].stage, run'[r].command, run'[r].plugin, run'[r].at, run'[r].file)
  BY <1>4, Same
<1>6. Shape'
  BY <1>1, <1>2, <1>4, <1>5 DEF Shape
<1>7. \A u \in Target : u # t => records'[u] = records[u]
  BY <1>1, <1>2 DEF Shape
<1>8. CleanIsRecorded'
  BY <1>1, <1>3, <1>7 DEF IInv, CleanIsRecorded
<1>9. t \in Target => schema[t] = records'[t]
  BY <1>1, <1>2, <1>3 DEF Shape, Recorded
<1>10. Knows(r)'
  BY <1>1, <1>5, <1>9 DEF Knows
<1> QED BY <1>4, <1>6, <1>8, <1>10 DEF IInv

LEMMA ClearTargetDirtyKeeps ==
    ASSUME IInv, OneRunner, NEW r \in Runner, ClearTargetDirty(r)
    PROVE  IInv'
<1> DEFINE t == At(r)
           next == Pending(t, run[r].file)
<1>1. Shape /\ run[r] # Idle /\ run[r].stage = "clear" /\ UNCHANGED <<schema, records>>
  BY NotIdle DEF ClearTargetDirty, Stage, IInv
<1>2. dirty' = [dirty EXCEPT ![t] = FALSE] /\ (Take(r, next) \/ Go(r, "any") \/ NextTarget(r))
  BY DEF ClearTargetDirty
<1> HIDE DEF next
<1>3. t \in Target => schema[t] = records[t]
  BY <1>1 DEF IInv, Knows
<1>4. CleanIsRecorded'
  BY <1>1, <1>2, <1>3 DEF IInv, Shape, CleanIsRecorded
<1>5. DOMAIN schema' = Target /\ DOMAIN records' = Target /\ DOMAIN dirty' = Target
  BY <1>1, <1>2 DEF Shape
<1>6. t \in Target => ~dirty'[t]
  BY <1>1, <1>2 DEF Shape
<1>7. CASE Take(r, next)
  BY <1>1, <1>4, <1>5, <1>6, <1>7, TakeKeeps
<1>8. CASE Go(r, "any")
  BY <1>1, <1>4, <1>5, <1>8, Going, NothingToKnow
<1>9. CASE NextTarget(r)
  BY <1>1, <1>4, <1>5, <1>9, Moving, NothingToKnow
<1> QED BY <1>2, <1>7, <1>8, <1>9

LEMMA CrashKeeps ==
    ASSUME IInv, OneRunner, NEW r \in Runner, Crash(r)
    PROVE  IInv'
<1>1. Shape
  BY DEF IInv
<1> QED BY <1>1, Stopping, Unchanged, NothingToKnow DEF Crash

\* What the operator does is done between two commands.
LEMMA ResolveKeeps ==
    ASSUME IInv, NEW t \in Target, Resolve(t)
    PROVE  IInv'
<1>1. Shape /\ \A r \in Runner : run'[r] = Idle
  BY DEF Resolve, IInv
<1>2. /\ records' = [records EXCEPT ![t] = schema[t]] /\ dirty' = [dirty EXCEPT ![t] = FALSE]
      /\ UNCHANGED <<schema, run>>
  BY DEF Resolve
<1>3. CleanIsRecorded'
  BY <1>1, <1>2 DEF IInv, Shape, CleanIsRecorded
<1>4. /\ DOMAIN schema' = Target /\ DOMAIN records' = Target /\ DOMAIN dirty' = Target
      /\ DOMAIN run' = Runner
  BY <1>1, <1>2 DEF Shape
<1> QED BY <1>1, <1>3, <1>4, NothingToKnow

LEMMA StutterKeeps == ASSUME IInv, UNCHANGED vars PROVE IInv'
<1>1. Shape'
  BY DEF IInv, Shape, vars
<1>2. CleanIsRecorded'
  BY DEF IInv, CleanIsRecorded, vars
<1>3. \A r \in Runner : Knows(r)'
  BY DEF IInv, Knows, Recorded, At, Up, Order, vars
<1> QED BY <1>1, <1>2, <1>3 DEF IInv

LEMMA NextKeeps == ASSUME IInv, OneRunner, [Next]_vars PROVE IInv'
<1>1. ASSUME NEW r \in Runner, Step(r)
      PROVE  IInv'
  BY <1>1, AnyLeftKeeps, IsTargetDirtyKeeps, GetCurrentVersionKeeps, SetTargetDirtyKeeps,
     ExecSQLFileKeeps, RecordKeeps, ClearTargetDirtyKeeps DEF Step
<1> QED BY <1>1, StartKeeps, CrashKeeps, ResolveKeeps, StutterKeeps DEF Next

LEMMA InitIInv == Init => IInv
<1> SUFFICES ASSUME Init PROVE IInv
  OBVIOUS
<1>1. Shape
  BY DEF Init, Shape
<1>2. CleanIsRecorded
  BY DEF Init, CleanIsRecorded
<1>3. \A r \in Runner : run[r].stage = "idle"
  BY DEF Init, Idle
<1>4. \A r \in Runner : Knows(r)
  BY <1>3 DEF Knows
<1> QED BY <1>1, <1>2, <1>4 DEF IInv

-----------------------------------------------------------------------------
(* The targets, and the smallest and largest of their files.               *)

LEMMA SubsetInduction ==
    ASSUME NEW D, IsFiniteSet(D), NEW Z,
           \A T \in SUBSET D : (\A U \in SUBSET T : U # T => U \in Z) => T \in Z
    PROVE  \A T \in SUBSET D : T \in Z
<1> SUFFICES ASSUME NEW B \in SUBSET D, B \notin Z PROVE FALSE
  OBVIOUS
<1> DEFINE Bad == {T \in SUBSET D : T \notin Z}
           R == StrictSubsetOrdering(D)
<1>1. FiniteSubsetsOf(D) = SUBSET D
  BY FS_FiniteSubsetsOfFinite
<1>2. IsWellFoundedOn(R, FiniteSubsetsOf(D))
  BY FS_StrictSubsetOrderingWellFounded, Zenon
<1>3. Bad # {} /\ Bad \subseteq FiniteSubsetsOf(D)
  BY <1>1
<1>4. \E T \in Bad : \A U \in Bad : ~(<<U, T>> \in R)
  <2> HIDE DEF R, Bad
  <2> QED BY <1>2, <1>3, WFMin
<1>5. PICK T \in Bad : \A U \in Bad : <<U, T>> \notin R
  BY <1>4
<1>6. ASSUME NEW U \in SUBSET T, U # T PROVE U \in Z
  <2>1. <<U, T>> \in R
    BY <1>6 DEF R, StrictSubsetOrdering
  <2> QED BY <1>5, <2>1
<1> QED BY <1>5, <1>6

\* A finite set of naturals that is not empty has a first and a last member.
LEMMA Bounds ==
    ASSUME NEW D, IsFiniteSet(D), D \subseteq Nat, NEW S \in SUBSET D, S # {}
    PROVE  /\ \E x \in S : \A y \in S : x <= y
           /\ \E x \in S : \A y \in S : x >= y
<1> DEFINE Bounded(T) == T = {} \/ /\ \E x \in T : \A y \in T : x <= y
                                   /\ \E x \in T : \A y \in T : x >= y
           Z == {T \in SUBSET D : Bounded(T)}
<1>1. ASSUME NEW T \in SUBSET D, \A U \in SUBSET T : U # T => U \in Z
      PROVE  T \in Z
  <2>1. CASE T = {}
    BY <2>1
  <2>2. CASE T # {}
    <3>1. PICK e \in T : TRUE
      BY <2>2
    <3>2. Bounded(T \ {e})
      BY <1>1, <3>1
    <3>3. \A y \in T : y \in Nat
      OBVIOUS
    <3>4. CASE T = {e}
      BY <3>3, <3>4
    <3>5. CASE T # {e}
      <4>1. PICK a \in T \ {e} : \A y \in T \ {e} : a <= y
        BY <3>1, <3>2, <3>5
      <4>2. PICK b \in T \ {e} : \A y \in T \ {e} : b >= y
        BY <3>1, <3>2, <3>5
      <4>3. \E x \in T : \A y \in T : x <= y
        <5>1. CASE a <= e
          BY <3>3, <4>1, <5>1
        <5>2. CASE ~(a <= e)
          BY <3>1, <3>3, <4>1, <5>2
        <5> QED BY <5>1, <5>2
      <4>4. \E x \in T : \A y \in T : x >= y
        <5>1. CASE b >= e
          BY <3>3, <4>2, <5>1
        <5>2. CASE ~(b >= e)
          BY <3>1, <3>3, <4>2, <5>2
        <5> QED BY <5>1, <5>2
      <4> QED BY <4>3, <4>4
    <3> QED BY <3>4, <3>5
  <2> QED BY <2>1, <2>2
<1>2. \A T \in SUBSET D : T \in Z
  <2> HIDE DEF Z
  <2> QED BY <1>1, SubsetInduction
<1> QED BY <1>2

LEMMA FilesAre ==
    ASSUME NEW t \in Target
    PROVE  IsFiniteSet(Files[t]) /\ \A f \in Files[t] : f \in Nat /\ f > 0
BY MigrateAssumption

LEMMA LeastAndGreatest ==
    ASSUME NEW t \in Target, NEW S \in SUBSET Files[t], S # {}
    PROVE  /\ Min(S) \in S /\ \A y \in S : Min(S) <= y
           /\ Max(S) \in S /\ \A y \in S : Max(S) >= y
<1>1. IsFiniteSet(Files[t]) /\ Files[t] \subseteq Nat
  BY FilesAre
<1>2. /\ \E x \in S : \A y \in S : x <= y
      /\ \E x \in S : \A y \in S : x >= y
  BY <1>1, Bounds
<1> QED BY <1>2 DEF Min, Max

\* The next file: every file before it is not after `current`.
LEMMA PendingIs ==
    ASSUME NEW t \in Target, NEW current \in Nat
    PROVE  \/ Pending(t, current) = 0 /\ \A g \in Files[t] : g <= current
           \/ /\ Pending(t, current) \in Files[t] /\ Pending(t, current) > 0
              /\ \A g \in Files[t] : g < Pending(t, current) => g <= current
<1> DEFINE newer == {f \in Files[t] : f > current}
<1>1. \A f \in Files[t] : f \in Nat /\ f > 0
  BY FilesAre
<1>2. CASE newer = {}
  BY <1>1, <1>2 DEF Pending
<1>3. CASE newer # {}
  <2>1. Pending(t, current) = Min(newer)
    BY <1>3 DEF Pending
  <2>2. Min(newer) \in newer /\ \A y \in newer : Min(newer) <= y
    BY <1>3, LeastAndGreatest
  <2> QED BY <1>1, <2>1, <2>2
<1> QED BY <1>2, <1>3

LEMMA LastIs ==
    ASSUME NEW t \in Target, records[t] \subseteq Files[t]
    PROVE  /\ LastRecorded(t) \in Nat
           /\ \A g \in records[t] : g <= LastRecorded(t)
           /\ \/ LastRecorded(t) = 0 /\ records[t] = {}
              \/ LastRecorded(t) \in records[t] /\ LastRecorded(t) > 0
<1>1. \A f \in Files[t] : f \in Nat /\ f > 0
  BY FilesAre
<1>2. CASE records[t] = {}
  BY <1>2 DEF LastRecorded
<1>3. CASE records[t] # {}
  <2>1. /\ Max(records[t]) \in records[t]
        /\ \A y \in records[t] : Max(records[t]) >= y
    BY <1>3, LeastAndGreatest
  <2> QED BY <1>1, <1>3, <2>1 DEF LastRecorded
<1> QED BY <1>2, <1>3

LEMMA TargetsAre ==
    /\ Len(Targets) \in Nat /\ Len(Targets) > 0
    /\ \A i \in 1..Len(Targets) : Targets[i] \in Target
    /\ \A t \in Target : \E i \in 1..Len(Targets) : t = Targets[i]
    /\ \A i, j \in 1..Len(Targets) : Targets[i] = Targets[j] => i = j
    /\ Core \in Target => Core = Targets[1]
<1>1. Targets \in Seq(Target) /\ Targets # <<>>
  BY MigrateAssumption
<1>2. /\ Len(Targets) \in Nat /\ DOMAIN Targets = 1..Len(Targets)
      /\ Len(Targets) # 0
  BY <1>1
<1>3. \A i, j \in 1..Len(Targets) : Targets[i] = Targets[j] => i = j
  BY <1>2, MigrateAssumption DEF IsInjective
<1>4. /\ \A i \in 1..Len(Targets) : Targets[i] \in Target
      /\ \A t \in Target : \E i \in 1..Len(Targets) : t = Targets[i]
  BY <1>2 DEF Target, ToSet
<1> QED BY <1>2, <1>3, <1>4, MigrateAssumption

\* A command walks the targets selected, all of them or one.
LEMMA SelectedIs ==
    ASSUME NEW plugin \in Plugin, Selected(plugin) # <<>>
    PROVE  LET L == Selected(plugin) IN
           /\ Len(L) \in 1..Len(Targets)
           /\ \A i \in 1..Len(L) : L[i] \in Target
           /\ plugin = All => L = Targets
<1>1. CASE plugin = All
  BY <1>1, TargetsAre DEF Selected
<1>2. CASE plugin # All /\ plugin \in Target
  <2>1. Selected(plugin) = <<plugin>>
    BY <1>2 DEF Selected
  <2> QED BY <1>2, <2>1, TargetsAre
<1> QED BY <1>1, <1>2 DEF Selected

-----------------------------------------------------------------------------
(* Types, of any number of runners.                                        *)

Working == [stage : Stage, command : Command, plugin : Plugin,
            at : 1..Len(Targets), file : Nat]

\* A runner is at one of the targets it walks, and when it has begun a file, at a
\* file of that target; only down-all asks whether anything is left.
Within(x) == Selected(x.plugin) # <<>> /\ x.at <= Len(Selected(x.plugin))
Placed(r) ==
    /\ run[r] # Idle => Within(run[r])
    /\ run[r].stage \in {"mark", "exec", "record", "clear"} => run[r].file \in Files[At(r)]
    /\ run[r].stage = "any" => run[r].command = "down-all"

Tables ==
    /\ DOMAIN schema = Target /\ DOMAIN records = Target
    /\ \A t \in Target : schema[t] \cup records[t] \subseteq Files[t]
    /\ dirty \in [Target -> BOOLEAN]

Typed == Tables /\ run \in [Runner -> Run] /\ \A r \in Runner : Placed(r)

LEMMA IsWorking ==
    ASSUME Typed, NEW r \in Runner, run[r] # Idle
    PROVE  run[r] \in Working
BY DEF Typed, Run, Working

LEMMA AtIs ==
    ASSUME Typed, NEW r \in Runner, run[r] # Idle
    PROVE  /\ run[r].plugin = All =>
                 /\ Up(r) => At(r) = Targets[run[r].at]
                 /\ ~Up(r) => At(r) = Targets[Len(Targets) - run[r].at + 1]
           /\ At(r) \in Target
<1> DEFINE L == Selected(run[r].plugin)
<1>1. /\ run[r].at \in 1..Len(Targets) /\ run[r].plugin \in Plugin
      /\ L # <<>> /\ run[r].at <= Len(L)
  BY IsWorking DEF Working, Typed, Placed, Within
<1>2. /\ Len(L) \in 1..Len(Targets) /\ \A i \in 1..Len(L) : L[i] \in Target
      /\ run[r].plugin = All => L = Targets
  BY <1>1, SelectedIs
<1>3. run[r].at \in 1..Len(L) /\ Len(L) - run[r].at + 1 \in 1..Len(L)
  BY <1>1, <1>2
<1>4. /\ Up(r) => At(r) = L[run[r].at]
      /\ ~Up(r) => At(r) = L[Len(L) - run[r].at + 1]
  BY <1>3 DEF At, Up, Order, Reverse
<1> HIDE DEF L
<1> QED BY <1>2, <1>3, <1>4

LEMMA BecomesTyped ==
    ASSUME Typed, Tables', NEW r \in Runner, NEW x \in Run, Becomes(r, x),
           x # Idle => Within(x),
           x.stage \in {"mark", "exec", "record", "clear"}
               => x.file \in Files[Order(x.command, x.plugin)[x.at]],
           x.stage = "any" => x.command = "down-all"
    PROVE  Typed'
<1>1. /\ run' \in [Runner -> Run] /\ run'[r] = x
      /\ \A s \in Runner : s # r => run'[s] = run[s]
  BY DEF Typed, Becomes
<1>2. \A s \in Runner : Placed(s)'
  BY <1>1 DEF Typed, Placed, At
<1> QED BY <1>1, <1>2 DEF Typed

LEMMA StopTyped ==
    ASSUME Typed, Tables', NEW r \in Runner, Stop(r)
    PROVE  Typed'
<1>1. Idle \in Run /\ Idle.stage = "idle"
  BY DEF Run, Idle
<1> QED BY <1>1, BecomesTyped DEF Stop

LEMMA GoTyped ==
    ASSUME Typed, Tables', NEW r \in Runner, run[r] # Idle, NEW stage \in Stage, Go(r, stage),
           stage \in {"mark", "exec", "record", "clear"} => run[r].file \in Files[At(r)],
           stage = "any" => run[r].command = "down-all"
    PROVE  Typed'
<1> DEFINE x == [run[r] EXCEPT !.stage = stage]
<1>1. run[r] \in Working
  BY IsWorking
<1>2. /\ x \in Working /\ x.stage = stage /\ x.file = run[r].file
      /\ x.command = run[r].command /\ x.plugin = run[r].plugin /\ x.at = run[r].at
  BY <1>1 DEF Working
<1>3. x \in Run /\ Within(x)
  BY <1>2 DEF Run, Working, Typed, Placed, Within
<1>4. Becomes(r, x)
  BY DEF Go
<1> HIDE DEF x
<1> QED BY <1>2, <1>3, <1>4, BecomesTyped DEF At

LEMMA TakeTyped ==
    ASSUME Typed, Tables', NEW r \in Runner, run[r] # Idle, NEW f \in Files[At(r)], Take(r, f)
    PROVE  Typed'
<1> DEFINE x == [run[r] EXCEPT !.file = f, !.stage = "mark"]
<1>1. run[r] \in Working /\ f \in Nat
  BY IsWorking, AtIs, FilesAre
<1>2. /\ x \in Working /\ x.stage = "mark" /\ x.file = f
      /\ x.command = run[r].command /\ x.plugin = run[r].plugin /\ x.at = run[r].at
  BY <1>1 DEF Working, Stage
<1>3. x \in Run /\ Within(x)
  BY <1>2 DEF Run, Working, Typed, Placed, Within
<1>4. Becomes(r, x)
  BY DEF Take
<1> HIDE DEF x
<1> QED BY <1>2, <1>3, <1>4, BecomesTyped DEF At

LEMMA NextTargetTyped ==
    ASSUME Typed, Tables', NEW r \in Runner, run[r] # Idle, NextTarget(r)
    PROVE  Typed'
<1> DEFINE stage == FirstStage(run[r].command)
           x == [run[r] EXCEPT !.at = @ + 1, !.stage = stage]
<1>1. CASE run[r].at = Len(Selected(run[r].plugin))
  BY <1>1, StopTyped DEF NextTarget
<1>2. CASE run[r].at # Len(Selected(run[r].plugin))
  <2>1. run[r] \in Working
    BY IsWorking
  <2>2. stage \in {"any", "check"} /\ (stage = "any" => run[r].command = "down-all")
    BY DEF FirstStage
  <2>3. Becomes(r, x)
    BY <1>2 DEF NextTarget
  <2> HIDE DEF stage
  <2>4. x \in Working /\ x.stage = stage /\ x.command = run[r].command /\ Within(x)
    <3>1. /\ run[r].at \in 1..Len(Targets) /\ run[r].plugin \in Plugin
          /\ Selected(run[r].plugin) # <<>> /\ run[r].at <= Len(Selected(run[r].plugin))
      BY <2>1 DEF Working, Typed, Placed, Within
    <3>2. Len(Selected(run[r].plugin)) \in 1..Len(Targets) /\ Len(Targets) \in Nat
      BY <3>1, SelectedIs, TargetsAre
    <3>3. run[r].at + 1 \in 1..Len(Targets) /\ run[r].at + 1 <= Len(Selected(run[r].plugin))
      BY <1>2, <3>1, <3>2
    <3>4. /\ x \in Working /\ x.stage = stage /\ x.command = run[r].command
          /\ x.plugin = run[r].plugin /\ x.at = run[r].at + 1
      BY <2>1, <2>2, <3>3 DEF Working, Stage
    <3> QED BY <3>1, <3>3, <3>4 DEF Within
  <2>5. x \in Run
    BY <2>4 DEF Run, Working
  <2> HIDE DEF x
  <2> QED BY <2>2, <2>3, <2>4, <2>5, BecomesTyped
<1> QED BY <1>1, <1>2

LEMMA TablesKept ==
    ASSUME Typed, UNCHANGED <<schema, records>>, dirty' \in [Target -> BOOLEAN]
    PROVE  Tables'
BY DEF Typed, Tables

LEMMA StartTyped ==
    ASSUME Typed, NEW r \in Runner, NEW command \in Command, NEW plugin \in Plugin,
           Start(r, command, plugin)
    PROVE  Typed'
<1> DEFINE x == [stage |-> FirstStage(command), command |-> command, plugin |-> plugin,
                 at |-> 1, file |-> 0]
<1>1. Tables'
  BY TablesKept DEF Start, Typed, Tables
<1>2. /\ x.stage \in {"any", "check"} /\ x.command = command
      /\ x.stage = "any" => command = "down-all"
  BY DEF FirstStage
<1>3. x \in Run /\ Within(x)
  <2>1. Selected(plugin) # <<>> /\ Len(Selected(plugin)) \in 1..Len(Targets)
    BY SelectedIs DEF Start
  <2> QED BY <2>1, TargetsAre DEF Run, Stage, FirstStage, Within
<1>4. Becomes(r, x)
  BY DEF Start
<1> HIDE DEF x
<1> QED BY <1>1, <1>2, <1>3, <1>4, BecomesTyped

LEMMA AnyLeftTyped ==
    ASSUME Typed, NEW r \in Runner, AnyLeft(r)
    PROVE  Typed'
<1>1. run[r] # Idle
  BY NotIdle DEF AnyLeft, Stage
<1>2. Tables'
  BY TablesKept DEF AnyLeft, Typed, Tables
<1> QED BY <1>1, <1>2, NextTargetTyped, GoTyped DEF AnyLeft, Stage

LEMMA IsTargetDirtyTyped ==
    ASSUME Typed, NEW r \in Runner, IsTargetDirty(r)
    PROVE  Typed'
<1>1. run[r] # Idle
  BY NotIdle DEF IsTargetDirty, Stage
<1>2. Tables'
  BY TablesKept DEF IsTargetDirty, Typed, Tables
<1> QED BY <1>1, <1>2, StopTyped, GoTyped DEF IsTargetDirty, Stage

\* The file that up or a rollback turns to is one of the target's.
LEMMA NextFile ==
    ASSUME Typed, NEW r \in Runner, run[r] # Idle
    PROVE  LET t == At(r)
               file == IF Up(r) THEN Pending(t, LastRecorded(t)) ELSE LastRecorded(t)
           IN  file # 0 => file \in Files[t]
<1>1. At(r) \in Target /\ records[At(r)] \subseteq Files[At(r)]
  BY AtIs DEF Typed, Tables
<1>2. LastRecorded(At(r)) \in Nat /\ (LastRecorded(At(r)) # 0 => LastRecorded(At(r)) \in Files[At(r)])
  BY <1>1, LastIs
<1> QED BY <1>1, <1>2, PendingIs

LEMMA GetCurrentVersionTyped ==
    ASSUME Typed, NEW r \in Runner, GetCurrentVersion(r)
    PROVE  Typed'
<1> DEFINE t == At(r)
           file == IF Up(r) THEN Pending(t, LastRecorded(t)) ELSE LastRecorded(t)
<1>1. run[r] # Idle
  BY NotIdle DEF GetCurrentVersion, Stage
<1>2. Tables'
  BY TablesKept DEF GetCurrentVersion, Typed, Tables
<1>3. \/ Take(r, file) /\ file # 0
      \/ Go(r, "any") /\ run[r].command = "down-all"
      \/ NextTarget(r)
  BY DEF GetCurrentVersion
<1>4. file # 0 => file \in Files[t]
  BY <1>1, NextFile
<1> HIDE DEF file
<1> QED BY <1>1, <1>2, <1>3, <1>4, TakeTyped, GoTyped, NextTargetTyped DEF Stage

LEMMA SetTargetDirtyTyped ==
    ASSUME Typed, NEW r \in Runner, SetTargetDirty(r)
    PROVE  Typed'
<1>1. run[r] # Idle
  BY NotIdle DEF SetTargetDirty, Stage
<1>2. Tables'
  BY TablesKept DEF SetTargetDirty, Typed, Tables
<1> QED BY <1>1, <1>2, GoTyped DEF SetTargetDirty, Stage, Typed, Placed

LEMMA ExecSQLFileTyped ==
    ASSUME Typed, NEW r \in Runner, ExecSQLFile(r)
    PROVE  Typed'
<1> DEFINE t == At(r)
           f == run[r].file
<1>1. run[r] # Idle /\ f \in Files[t]
  BY NotIdle DEF ExecSQLFile, Stage, Typed, Placed
<1>2. CASE /\ schema' = [schema EXCEPT ![t] = IF Up(r) THEN @ \cup {f} ELSE @ \ {f}]
           /\ Go(r, "record") /\ UNCHANGED <<records, dirty>>
  <2>1. Tables'
    BY <1>1, <1>2 DEF Typed, Tables
  <2> QED BY <1>1, <1>2, <2>1, GoTyped DEF Stage
<1>3. CASE /\ dirty' = [dirty EXCEPT ![t] = TRUE]
           /\ Stop(r) /\ UNCHANGED <<schema, records>>
  <2>1. Tables'
    BY <1>3, TablesKept DEF Typed, Tables
  <2> QED BY <1>3, <2>1, StopTyped
<1> QED BY <1>2, <1>3 DEF ExecSQLFile

LEMMA RecordTyped ==
    ASSUME Typed, NEW r \in Runner, Record(r)
    PROVE  Typed'
<1> DEFINE t == At(r)
           f == run[r].file
<1>1. run[r] # Idle /\ f \in Files[t]
  BY NotIdle DEF Record, Stage, Typed, Placed
<1>2. records' = [records EXCEPT ![t] = IF Up(r) THEN @ \cup {f} ELSE @ \ {f}]
  BY DEF Record
<1>3. Tables'
  BY <1>1, <1>2 DEF Record, Typed, Tables
<1> QED BY <1>1, <1>3, GoTyped DEF Record, Stage

LEMMA ClearTargetDirtyTyped ==
    ASSUME Typed, NEW r \in Runner, ClearTargetDirty(r)
    PROVE  Typed'
<1> DEFINE t == At(r)
           next == Pending(t, run[r].file)
<1>1. run[r] # Idle
  BY NotIdle DEF ClearTargetDirty, Stage
<1>2. Tables'
  BY TablesKept DEF ClearTargetDirty, Typed, Tables
<1>3. \/ Take(r, next) /\ next # 0
      \/ Go(r, "any") /\ run[r].command = "down-all"
      \/ NextTarget(r)
  BY DEF ClearTargetDirty
<1>4. next # 0 => next \in Files[t]
  <2>1. run[r].file \in Nat /\ t \in Target
    BY <1>1, IsWorking, AtIs DEF Working
  <2> QED BY <2>1, PendingIs
<1> HIDE DEF next
<1> QED BY <1>1, <1>2, <1>3, <1>4, TakeTyped, GoTyped, NextTargetTyped DEF Stage

LEMMA ResolveTyped ==
    ASSUME Typed, NEW t \in Target, Resolve(t)
    PROVE  Typed'
<1>1. Tables'
  BY DEF Resolve, Typed, Tables
<1> QED BY <1>1 DEF Resolve, Typed, Placed, At

LEMMA StutterTyped == ASSUME Typed, UNCHANGED vars PROVE Typed'
BY DEF Typed, Tables, Placed, At, vars

LEMMA NextTyped == ASSUME Typed, [Next]_vars PROVE Typed'
<1>1. ASSUME NEW r \in Runner, Step(r)
      PROVE  Typed'
  BY <1>1, AnyLeftTyped, IsTargetDirtyTyped, GetCurrentVersionTyped, SetTargetDirtyTyped,
     ExecSQLFileTyped, RecordTyped, ClearTargetDirtyTyped DEF Step
<1>2. ASSUME NEW r \in Runner, Crash(r)
      PROVE  Typed'
  BY <1>2, TablesKept, StopTyped DEF Crash, Typed, Tables
<1> QED BY <1>1, <1>2, StartTyped, ResolveTyped, StutterTyped DEF Next

LEMMA InitTyped == Init => Typed
<1> SUFFICES ASSUME Init PROVE Typed
  OBVIOUS
<1>1. Tables
  BY DEF Init, Tables
<1>2. run \in [Runner -> Run] /\ \A r \in Runner : run[r] = Idle
  BY DEF Init, Run
<1>3. \A r \in Runner : Placed(r)
  <2>1. Idle.stage = "idle"
    BY DEF Idle
  <2> QED BY <1>2, <2>1 DEF Placed
<1> QED BY <1>1, <1>2, <1>3 DEF Typed

-----------------------------------------------------------------------------
(* Nothing is applied before, or rolled back after, what it builds on.     *)

\* The file that has been begun is the next one: up has applied every file
\* before it, a rollback has left none after it.
Ready(r) ==
    /\ run[r].stage \in {"mark", "exec", "record"} =>
          IF Up(r) THEN \A g \in Files[At(r)] : g < run[r].file => g \in records[At(r)]
                   ELSE \A g \in records[At(r)] : g <= run[r].file
    /\ run[r].stage = "clear" /\ Up(r) => run[r].file \in records[At(r)]

Ordered == AppliedInOrder /\ \A r \in Runner : Ready(r)

LEMMA AddsInOrder ==
    ASSUME NEW t \in Target, NEW V \in SUBSET Files[t], NoGap(V, t), NEW f \in Files[t],
           \A g \in Files[t] : g < f => g \in V
    PROVE  NoGap(V \cup {f}, t)
BY DEF NoGap

LEMMA RemovesInOrder ==
    ASSUME NEW t \in Target, NEW V \in SUBSET Files[t], NoGap(V, t), NEW f \in Files[t],
           \A g \in V : g <= f
    PROVE  NoGap(V \ {f}, t)
<1>1. \A g \in Files[t] : g \in Nat
  BY FilesAre
<1> QED BY <1>1 DEF NoGap

\* A file that is there, with every file after `current` where there is no gap.
LEMMA AllThere ==
    ASSUME NEW t \in Target, NEW V \in SUBSET Files[t], NoGap(V, t), NEW c \in V,
           NEW g \in Files[t], g <= c
    PROVE  g \in V
<1>1. g \in Nat /\ c \in Nat
  BY FilesAre
<1> QED BY <1>1 DEF NoGap

\* The runner comes to a stage at which no file is begun.
LEMMA NothingBegun ==
    ASSUME OneRunner, AppliedInOrder', NEW r \in Runner,
           run'[r].stage \in {"idle", "any", "check", "version"}
    PROVE  Ordered'
<1>1. Ready(r)'
  BY DEF Ready
<1> QED BY <1>1 DEF Ordered, OneRunner

LEMMA OrderKept ==
    ASSUME Ordered, UNCHANGED <<schema, records>>
    PROVE  AppliedInOrder'
BY DEF Ordered, AppliedInOrder, NoGap

\* Where a runner goes after a target or a file.
LEMMA StageAfter ==
    ASSUME Shape, OneRunner, NEW r \in Runner, run[r] # Idle
    PROVE  /\ Stop(r) => run'[r].stage = "idle"
           /\ NextTarget(r) => run'[r].stage \in {"idle", "any", "check"}
           /\ \A stage : Go(r, stage) =>
                 /\ run'[r].stage = stage /\ run'[r].file = run[r].file
                 /\ At(r)' = At(r) /\ Up(r)' = Up(r)
                 /\ run'[r].command = run[r].command /\ run'[r].at = run[r].at
                 /\ run'[r].plugin = run[r].plugin
           /\ \A f : Take(r, f) =>
                 /\ run'[r].stage = "mark" /\ run'[r].file = f
                 /\ At(r)' = At(r) /\ Up(r)' = Up(r)
                 /\ run'[r].command = run[r].command /\ run'[r].at = run[r].at
                 /\ run'[r].plugin = run[r].plugin
<1>1. Stop(r) => run'[r].stage = "idle"
  BY Stopping DEF Idle
<1>2. NextTarget(r) => run'[r].stage \in {"idle", "any", "check"}
  BY Moving, Fields DEF Idle
<1>3. ASSUME NEW stage, Go(r, stage)
      PROVE  /\ run'[r].stage = stage /\ run'[r].file = run[r].file
             /\ At(r)' = At(r) /\ Up(r)' = Up(r)
             /\ run'[r].command = run[r].command /\ run'[r].at = run[r].at
             /\ run'[r].plugin = run[r].plugin
  <2>1. run'[r] \in Running(stage, run[r].command, run[r].plugin, run[r].at, run[r].file)
    BY <1>3, Going
  <2>2. /\ run'[r].command = run[r].command /\ run'[r].at = run[r].at
        /\ run'[r].plugin = run[r].plugin
    BY <2>1, Fields
  <2> QED BY <2>1, <2>2, Same
<1>4. ASSUME NEW f, Take(r, f)
      PROVE  /\ run'[r].stage = "mark" /\ run'[r].file = f
             /\ At(r)' = At(r) /\ Up(r)' = Up(r)
             /\ run'[r].command = run[r].command /\ run'[r].at = run[r].at
             /\ run'[r].plugin = run[r].plugin
  <2>1. run'[r] \in Running("mark", run[r].command, run[r].plugin, run[r].at, f)
    BY <1>4, Taking
  <2>2. /\ run'[r].command = run[r].command /\ run'[r].at = run[r].at
        /\ run'[r].plugin = run[r].plugin
    BY <2>1, Fields
  <2> QED BY <2>1, <2>2, Same
<1> QED BY <1>1, <1>2, <1>3, <1>4

LEMMA GetCurrentVersionOrdered ==
    ASSUME IInv, Typed, Ordered, OneRunner, NEW r \in Runner, GetCurrentVersion(r)
    PROVE  Ordered'
<1> DEFINE t == At(r)
           last == LastRecorded(t)
           file == IF Up(r) THEN Pending(t, last) ELSE last
<1>1. run[r] # Idle /\ Shape /\ UNCHANGED <<schema, records>>
  BY NotIdle DEF GetCurrentVersion, Stage, IInv
<1>2. t \in Target /\ records[t] \subseteq Files[t] /\ NoGap(records[t], t)
  BY <1>1, AtIs DEF Typed, Tables, Ordered, AppliedInOrder
<1>3. AppliedInOrder'
  BY <1>1, OrderKept
<1>4. \/ Take(r, file) /\ file # 0
      \/ Go(r, "any")
      \/ NextTarget(r)
  BY DEF GetCurrentVersion
<1>5. /\ last \in Nat
      /\ \A g \in records[t] : g <= last
      /\ \/ last = 0 /\ records[t] = {}
         \/ last \in records[t] /\ last > 0
  BY <1>2, LastIs
<1>6. ASSUME Up(r), file # 0, NEW g \in Files[t], g < file
      PROVE  g \in records[t]
  <2>1. g <= last /\ g \in Nat /\ g > 0
    BY <1>2, <1>5, <1>6, PendingIs, FilesAre
  <2>2. last \in records[t]
    BY <1>5, <2>1
  <2> HIDE DEF last
  <2> QED BY <1>2, <2>1, <2>2, AllThere
<1>7. ~Up(r) => \A g \in records[t] : g <= file
  BY <1>5
<1> HIDE DEF file
<1>8. CASE Take(r, file) /\ file # 0
  <2>1. run'[r].stage = "mark" /\ run'[r].file = file /\ At(r)' = t /\ Up(r)' = Up(r)
    BY <1>1, <1>8, StageAfter
  <2>2. Ready(r)'
    BY <1>1, <1>6, <1>7, <1>8, <2>1 DEF Ready
  <2> QED BY <1>3, <2>2 DEF Ordered, OneRunner
<1>9. CASE Go(r, "any") \/ NextTarget(r)
  BY <1>1, <1>3, <1>9, StageAfter, NothingBegun
<1> QED BY <1>4, <1>8, <1>9

LEMMA SetTargetDirtyOrdered ==
    ASSUME IInv, Typed, Ordered, OneRunner, NEW r \in Runner, SetTargetDirty(r)
    PROVE  Ordered'
<1>1. run[r] # Idle /\ Shape /\ UNCHANGED <<schema, records>> /\ run[r].stage = "mark"
  BY NotIdle DEF SetTargetDirty, Stage, IInv
<1>2. run'[r].stage = "exec" /\ run'[r].file = run[r].file /\ At(r)' = At(r) /\ Up(r)' = Up(r)
  BY <1>1, StageAfter DEF SetTargetDirty
<1>3. Ready(r)'
  BY <1>1, <1>2 DEF Ready, Ordered
<1> QED BY <1>1, <1>3, OrderKept DEF Ordered, OneRunner

LEMMA ExecSQLFileOrdered ==
    ASSUME IInv, Typed, Ordered, OneRunner, NEW r \in Runner, ExecSQLFile(r)
    PROVE  Ordered'
<1> DEFINE t == At(r)
           f == run[r].file
<1>1. run[r] # Idle /\ Shape /\ run[r].stage = "exec" /\ records' = records
  BY NotIdle DEF ExecSQLFile, Stage, IInv
<1>2. /\ t \in Target /\ f \in Files[t] /\ schema[t] = records[t]
      /\ records[t] \subseteq Files[t] /\ NoGap(records[t], t)
  BY <1>1, AtIs DEF Typed, Tables, Placed, Ordered, AppliedInOrder, IInv, Knows
<1>3. /\ Up(r) => \A g \in Files[t] : g < f => g \in records[t]
      /\ ~Up(r) => \A g \in records[t] : g <= f
  BY <1>1 DEF Ordered, Ready
<1>4. CASE /\ schema' = [schema EXCEPT ![t] = IF Up(r) THEN @ \cup {f} ELSE @ \ {f}]
           /\ Go(r, "record")
  <2>1. /\ schema'[t] = IF Up(r) THEN schema[t] \cup {f} ELSE schema[t] \ {f}
        /\ \A u \in Target : u # t => schema'[u] = schema[u]
    BY <1>2, <1>4 DEF Typed, Tables
  <2>2. NoGap(schema'[t], t)
    BY <1>2, <1>3, <2>1, AddsInOrder, RemovesInOrder
  <2>3. \A u \in Target : NoGap(schema'[u], u)
    BY <2>1, <2>2 DEF Ordered, AppliedInOrder
  <2>4. AppliedInOrder'
    BY <1>1, <2>3 DEF Ordered, AppliedInOrder, NoGap
  <2>5. run'[r].stage = "record" /\ run'[r].file = f /\ At(r)' = t /\ Up(r)' = Up(r)
    BY <1>1, <1>4, StageAfter
  <2>6. Ready(r)'
    BY <1>1, <1>3, <2>5 DEF Ready
  <2> QED BY <2>4, <2>6 DEF Ordered, OneRunner
<1>5. CASE Stop(r) /\ schema' = schema
  BY <1>1, <1>5, OrderKept, StageAfter, NothingBegun
<1> QED BY <1>4, <1>5 DEF ExecSQLFile

LEMMA RecordOrdered ==
    ASSUME IInv, Typed, Ordered, OneRunner, NEW r \in Runner, Record(r)
    PROVE  Ordered'
<1> DEFINE t == At(r)
           f == run[r].file
<1>1. run[r] # Idle /\ Shape /\ run[r].stage = "record" /\ schema' = schema
  BY NotIdle DEF Record, Stage, IInv
<1>2. t \in Target /\ schema[t] = Recorded(r)
  BY <1>1, AtIs DEF IInv, Knows
<1>3. records' = [records EXCEPT ![t] = IF Up(r) THEN @ \cup {f} ELSE @ \ {f}] /\ Go(r, "clear")
  BY DEF Record
<1>4. /\ records'[t] = schema[t] /\ (Up(r) => f \in records'[t])
      /\ \A u \in Target : u # t => records'[u] = records[u]
  BY <1>2, <1>3 DEF Typed, Tables, Recorded
<1>5. \A u \in Target : NoGap(records'[u], u)
  BY <1>2, <1>4 DEF Ordered, AppliedInOrder
<1>6. AppliedInOrder'
  BY <1>1, <1>5 DEF Ordered, AppliedInOrder, NoGap
<1>7. run'[r].stage = "clear" /\ run'[r].file = f /\ At(r)' = t /\ Up(r)' = Up(r)
  BY <1>1, <1>3, StageAfter
<1>8. Ready(r)'
  BY <1>4, <1>7 DEF Ready
<1> QED BY <1>6, <1>8 DEF Ordered, OneRunner

LEMMA ClearTargetDirtyOrdered ==
    ASSUME IInv, Typed, Ordered, OneRunner, NEW r \in Runner, ClearTargetDirty(r)
    PROVE  Ordered'
<1> DEFINE t == At(r)
           f == run[r].file
           next == Pending(t, f)
<1>1. run[r] # Idle /\ Shape /\ run[r].stage = "clear" /\ UNCHANGED <<schema, records>>
  BY NotIdle DEF ClearTargetDirty, Stage, IInv
<1>2. /\ t \in Target /\ f \in Files[t] /\ f \in Nat
      /\ records[t] \subseteq Files[t] /\ NoGap(records[t], t)
  BY <1>1, AtIs, FilesAre DEF Typed, Tables, Placed, Ordered, AppliedInOrder
<1>3. AppliedInOrder'
  BY <1>1, OrderKept
<1>4. \/ Take(r, next) /\ next # 0 /\ Up(r)
      \/ Go(r, "any")
      \/ NextTarget(r)
  BY DEF ClearTargetDirty
<1>5. ASSUME Up(r), next # 0, NEW g \in Files[t], g < next
      PROVE  g \in records[t]
  <2>1. g <= f
    BY <1>2, <1>5, PendingIs
  <2>2. f \in records[t]
    BY <1>1, <1>5 DEF Ordered, Ready
  <2> QED BY <1>2, <2>1, <2>2, AllThere
<1> HIDE DEF next
<1>6. CASE Take(r, next) /\ next # 0 /\ Up(r)
  <2>1. run'[r].stage = "mark" /\ run'[r].file = next /\ At(r)' = t /\ Up(r)' = Up(r)
    BY <1>1, <1>6, StageAfter
  <2>2. Ready(r)'
    BY <1>1, <1>5, <1>6, <2>1 DEF Ready
  <2> QED BY <1>3, <2>2 DEF Ordered, OneRunner
<1>7. CASE Go(r, "any") \/ NextTarget(r)
  BY <1>1, <1>3, <1>7, StageAfter, NothingBegun
<1> QED BY <1>4, <1>6, <1>7

LEMMA ResolveOrdered ==
    ASSUME Typed, Ordered, NEW t \in Target, Resolve(t)
    PROVE  Ordered'
<1>1. /\ records' = [records EXCEPT ![t] = schema[t]] /\ schema' = schema
      /\ \A r \in Runner : run'[r] = Idle
  BY DEF Resolve
<1>2. \A u \in Target : records'[u] = schema[u] \/ records'[u] = records[u]
  BY <1>1 DEF Typed, Tables
<1>3. \A u \in Target : NoGap(schema'[u], u) /\ NoGap(records'[u], u)
  BY <1>1, <1>2 DEF Ordered, AppliedInOrder
<1>4. AppliedInOrder'
  BY <1>3 DEF AppliedInOrder, NoGap
<1>5. \A r \in Runner : run'[r].stage = "idle"
  BY <1>1 DEF Idle
<1> QED BY <1>4, <1>5 DEF Ordered, Ready

LEMMA NextOrdered ==
    ASSUME IInv, Typed, Ordered, OneRunner, [Next]_vars
    PROVE  Ordered'
<1>1. Shape
  BY DEF IInv
<1>2. ASSUME NEW r \in Runner, NEW command \in Command, NEW plugin \in Plugin,
           Start(r, command, plugin)
      PROVE  Ordered'
  <2>1. run'[r].stage \in {"any", "check"}
    BY <1>1, <1>2, Becoming DEF Start, FirstStage
  <2> QED BY <1>2, <2>1, OrderKept, NothingBegun DEF Start
<1>3. ASSUME NEW r \in Runner, AnyLeft(r)
      PROVE  Ordered'
  <2>1. run[r] # Idle
    BY <1>3, NotIdle DEF AnyLeft, Stage
  <2> QED BY <1>1, <1>3, <2>1, OrderKept, StageAfter, NothingBegun DEF AnyLeft
<1>4. ASSUME NEW r \in Runner, IsTargetDirty(r)
      PROVE  Ordered'
  <2>1. run[r] # Idle
    BY <1>4, NotIdle DEF IsTargetDirty, Stage
  <2> QED BY <1>1, <1>4, <2>1, OrderKept, StageAfter, NothingBegun DEF IsTargetDirty
<1>5. ASSUME NEW r \in Runner, Crash(r)
      PROVE  Ordered'
  BY <1>1, <1>5, OrderKept, StageAfter, NothingBegun DEF Crash
<1>6. ASSUME UNCHANGED vars
      PROVE  Ordered'
  BY <1>6 DEF Ordered, AppliedInOrder, NoGap, Ready, At, Up, Order, vars
<1> QED BY <1>2, <1>3, <1>4, <1>5, <1>6, GetCurrentVersionOrdered, SetTargetDirtyOrdered,
       ExecSQLFileOrdered, RecordOrdered, ClearTargetDirtyOrdered, ResolveOrdered DEF Next, Step

LEMMA InitOrdered == Init => Ordered
<1> SUFFICES ASSUME Init PROVE Ordered
  OBVIOUS
<1>1. AppliedInOrder
  BY DEF Init, AppliedInOrder, NoGap
<1>2. \A r \in Runner : run[r].stage = "idle"
  BY DEF Init, Idle
<1> QED BY <1>1, <1>2 DEF Ordered, Ready

-----------------------------------------------------------------------------
(* Over all targets, a plugin is applied on top of the core.               *)

\* What a command over all targets leaves behind it on its way: up a core that is
\* complete, down-all no record of anything.
LeftBehind(r) ==
    run[r] # Idle /\ run[r].plugin = All =>
        /\ Up(r) /\ run[r].at > 1 /\ Core \in Target => schema[Core] = Files[Core]
        /\ run[r].command = "down-all" =>
              \A i \in 1..Len(Targets) :
                 i > Len(Targets) - run[r].at + 1 => records[Targets[i]] = {}

Walked == \A r \in Runner : LeftBehind(r)

\* The tables as they were, and the runner stays at its target or stops.
LEMMA WalkKept ==
    ASSUME Walked, OneRunner, NEW r \in Runner, UNCHANGED <<schema, records>>,
           \/ run'[r] = Idle
           \/ /\ run[r] # Idle /\ Up(r)' = Up(r)
              /\ run'[r].command = run[r].command /\ run'[r].plugin = run[r].plugin
              /\ run'[r].at = run[r].at
    PROVE  Walked'
<1>1. LeftBehind(r)'
  BY DEF Walked, LeftBehind
<1> QED BY <1>1 DEF Walked, OneRunner

\* The runner goes on to the next target, and so there is one more behind it.
LEMMA WalkMoves ==
    ASSUME Typed, Walked, OneRunner, Shape, NEW r \in Runner, run[r] # Idle, NextTarget(r),
           UNCHANGED <<schema, records>>,
           Up(r) /\ At(r) = Core => schema[Core] = Files[Core],
           run[r].command = "down-all" => records[At(r)] = {}
    PROVE  Walked'
<1>1. CASE run[r].at = Len(Selected(run[r].plugin))
  <2>1. run'[r] = Idle
    BY <1>1, Stopping DEF NextTarget
  <2> QED BY <2>1 DEF Walked, OneRunner, LeftBehind
<1>2. CASE run[r].at # Len(Selected(run[r].plugin))
  <2> DEFINE x == [run[r] EXCEPT !.at = @ + 1, !.stage = FirstStage(run[r].command)]
  <2>1. run[r] \in Working
    BY IsWorking
  <2>2. x.command = run[r].command /\ x.plugin = run[r].plugin /\ x.at = run[r].at + 1
    BY <2>1 DEF Working
  <2>3. run'[r] = x
    BY <1>2, Becoming DEF NextTarget
  <2> HIDE DEF x
  <2>4. /\ run'[r].command = run[r].command /\ run'[r].plugin = run[r].plugin
        /\ run'[r].at = run[r].at + 1 /\ Up(r)' = Up(r)
    BY <2>2, <2>3 DEF Up
  <2>5. run[r].at \in 1..Len(Targets) /\ Len(Targets) \in Nat
    BY <2>1, TargetsAre DEF Working
  <2>6. LeftBehind(r)
    BY DEF Walked
  <2>7. ASSUME run[r].plugin = All, Up(r), Core \in Target
        PROVE  schema[Core] = Files[Core]
    <3>1. CASE run[r].at = 1
      BY <2>7, <3>1, AtIs, TargetsAre
    <3>2. CASE run[r].at > 1
      BY <2>6, <2>7, <3>2 DEF LeftBehind
    <3> QED BY <2>5, <3>1, <3>2
  <2>8. ASSUME run[r].plugin = All, run[r].command = "down-all", NEW i \in 1..Len(Targets),
               i > Len(Targets) - (run[r].at + 1) + 1
        PROVE  records[Targets[i]] = {}
    <3>1. CASE i = Len(Targets) - run[r].at + 1
      BY <2>8, <3>1, AtIs DEF Up
    <3>2. CASE i > Len(Targets) - run[r].at + 1
      BY <2>6, <2>8, <3>2 DEF LeftBehind
    <3> QED BY <2>5, <2>8, <3>1, <3>2
  <2>9. LeftBehind(r)'
    BY <2>4, <2>7, <2>8 DEF LeftBehind
  <2> QED BY <2>9 DEF Walked, OneRunner
<1> QED BY <1>1, <1>2

LEMMA StartWalked ==
    ASSUME IInv, Typed, OneRunner, NEW r \in Runner, NEW command \in Command,
           NEW plugin \in Plugin, Start(r, command, plugin)
    PROVE  Walked'
<1> DEFINE x == [stage |-> FirstStage(command), command |-> command, plugin |-> plugin,
                 at |-> 1, file |-> 0]
<1>1. run'[r] = x
  BY Becoming DEF Start, IInv
<1>2. x.at = 1
  OBVIOUS
<1> HIDE DEF x
<1>3. LeftBehind(r)'
  BY <1>1, <1>2, TargetsAre DEF LeftBehind
<1> QED BY <1>3 DEF Walked, OneRunner

LEMMA AnyLeftWalked ==
    ASSUME IInv, Typed, Walked, OneRunner, NEW r \in Runner, AnyLeft(r)
    PROVE  Walked'
<1> DEFINE t == At(r)
<1>1. /\ run[r] # Idle /\ Shape /\ UNCHANGED <<schema, records>> /\ run[r].stage = "any"
  BY NotIdle DEF AnyLeft, Stage, IInv
<1>2. t \in Target /\ records[t] \subseteq Files[t] /\ ~Up(r)
  BY <1>1, AtIs DEF Typed, Tables, Placed, Up
<1>3. CASE LastRecorded(t) = 0 /\ NextTarget(r)
  <2>1. records[t] = {}
    BY <1>2, <1>3, LastIs
  <2> QED BY <1>1, <1>2, <1>3, <2>1, WalkMoves
<1>4. CASE Go(r, "check")
  BY <1>1, <1>4, StageAfter, WalkKept
<1> QED BY <1>3, <1>4 DEF AnyLeft

LEMMA IsTargetDirtyWalked ==
    ASSUME IInv, Typed, Walked, OneRunner, NEW r \in Runner, IsTargetDirty(r)
    PROVE  Walked'
<1>1. run[r] # Idle /\ Shape /\ UNCHANGED <<schema, records>>
  BY NotIdle DEF IsTargetDirty, Stage, IInv
<1>2. CASE Stop(r)
  BY <1>1, <1>2, Stopping, WalkKept
<1>3. CASE Go(r, "version")
  BY <1>1, <1>3, StageAfter, WalkKept
<1> QED BY <1>2, <1>3 DEF IsTargetDirty

LEMMA GetCurrentVersionWalked ==
    ASSUME IInv, Typed, Ordered, Walked, OneRunner, NEW r \in Runner, GetCurrentVersion(r)
    PROVE  Walked'
<1> DEFINE t == At(r)
           last == LastRecorded(t)
           file == IF Up(r) THEN Pending(t, last) ELSE last
<1>1. /\ run[r] # Idle /\ Shape /\ run[r].stage = "version" /\ UNCHANGED <<schema, records>>
  BY NotIdle DEF GetCurrentVersion, Stage, IInv
<1>2. /\ t \in Target /\ records[t] \subseteq Files[t] /\ NoGap(records[t], t)
      /\ schema[t] = records[t]
  BY <1>1, AtIs DEF Typed, Tables, Ordered, AppliedInOrder, IInv, Knows, CleanIsRecorded
<1>3. /\ last \in Nat
      /\ \/ last = 0 /\ records[t] = {}
         \/ last \in records[t] /\ last > 0
  BY <1>2, LastIs
<1>4. \/ Take(r, file)
      \/ Go(r, "any")
      \/ NextTarget(r) /\ file = 0 /\ run[r].command # "down-all"
  BY DEF GetCurrentVersion
<1>5. Up(r) /\ file = 0 => records[t] = Files[t]
  <2> SUFFICES ASSUME Up(r), file = 0, NEW g \in Files[t] PROVE g \in records[t]
    BY <1>2
  <2>1. g <= last /\ g \in Nat /\ g > 0
    BY <1>2, <1>3, PendingIs, FilesAre
  <2>2. last \in records[t]
    BY <1>3, <2>1
  <2> HIDE DEF last
  <2> QED BY <1>2, <2>1, <2>2, AllThere
<1> HIDE DEF file
<1>6. CASE Take(r, file) \/ Go(r, "any")
  BY <1>1, <1>6, StageAfter, WalkKept
<1>7. CASE NextTarget(r) /\ file = 0 /\ run[r].command # "down-all"
  BY <1>1, <1>2, <1>5, <1>7, WalkMoves
<1> QED BY <1>4, <1>6, <1>7

LEMMA SetTargetDirtyWalked ==
    ASSUME IInv, Typed, Walked, OneRunner, NEW r \in Runner, SetTargetDirty(r)
    PROVE  Walked'
<1>1. run[r] # Idle /\ Shape /\ UNCHANGED <<schema, records>>
  BY NotIdle DEF SetTargetDirty, Stage, IInv
<1> QED BY <1>1, StageAfter, WalkKept DEF SetTargetDirty

\* Where a command over all targets is in the list of the targets.
LEMMA PlaceOf ==
    ASSUME Typed, NEW r \in Runner, run[r] # Idle, run[r].plugin = All
    PROVE  LET here == IF Up(r) THEN run[r].at ELSE Len(Targets) - run[r].at + 1 IN
           /\ Len(Targets) \in Nat /\ run[r].at \in 1..Len(Targets)
           /\ here \in 1..Len(Targets) /\ At(r) = Targets[here]
           /\ \A i \in 1..Len(Targets) : Targets[i] = At(r) => i = here
           /\ Core \in Target => (At(r) = Core <=> here = 1)
<1> DEFINE here == IF Up(r) THEN run[r].at ELSE Len(Targets) - run[r].at + 1
<1>1. Len(Targets) \in Nat /\ Len(Targets) > 0 /\ run[r].at \in 1..Len(Targets)
  BY IsWorking, TargetsAre DEF Working
<1>2. here \in 1..Len(Targets) /\ At(r) = Targets[here]
  BY <1>1, AtIs
<1> HIDE DEF here
<1>3. \A i \in 1..Len(Targets) : Targets[i] = At(r) => i = here
  BY <1>2, TargetsAre
<1>4. Core \in Target => (At(r) = Core <=> here = 1)
  BY <1>1, <1>2, <1>3, TargetsAre
<1> QED BY <1>1, <1>2, <1>3, <1>4 DEF here

\* The SQL of a file touches the target the runner is at, not one it has passed.
LEMMA ExecSQLFileWalked ==
    ASSUME IInv, Typed, Walked, OneRunner, NEW r \in Runner, ExecSQLFile(r)
    PROVE  Walked'
<1> DEFINE t == At(r)
           f == run[r].file
<1>1. run[r] # Idle /\ Shape /\ records' = records
  BY NotIdle DEF ExecSQLFile, Stage, IInv
<1>2. CASE /\ schema' = [schema EXCEPT ![t] = IF Up(r) THEN @ \cup {f} ELSE @ \ {f}]
           /\ Go(r, "record")
  <2>1. /\ run'[r].command = run[r].command /\ run'[r].plugin = run[r].plugin
        /\ run'[r].at = run[r].at /\ Up(r)' = Up(r)
    BY <1>1, <1>2, StageAfter
  <2>2. ASSUME run[r].plugin = All, Up(r), run[r].at > 1, Core \in Target
        PROVE  schema'[Core] = schema[Core]
    <3>1. t # Core
      BY <1>1, <2>2, PlaceOf
    <3> QED BY <1>2, <2>2, <3>1 DEF Typed, Tables
  <2>3. LeftBehind(r)'
    BY <1>1, <2>1, <2>2 DEF Walked, LeftBehind
  <2> QED BY <2>3 DEF Walked, OneRunner
<1>3. CASE Stop(r) /\ schema' = schema
  BY <1>1, <1>3, Stopping, WalkKept
<1> QED BY <1>2, <1>3 DEF ExecSQLFile

\* So does its record.
LEMMA RecordWalked ==
    ASSUME IInv, Typed, Walked, OneRunner, NEW r \in Runner, Record(r)
    PROVE  Walked'
<1> DEFINE t == At(r)
<1>1. run[r] # Idle /\ Shape /\ schema' = schema /\ Go(r, "clear")
  BY NotIdle DEF Record, Stage, IInv
<1>2. /\ run'[r].command = run[r].command /\ run'[r].plugin = run[r].plugin
      /\ run'[r].at = run[r].at /\ Up(r)' = Up(r)
  BY <1>1, StageAfter
<1>3. \A u \in Target : u # t => records'[u] = records[u]
  BY DEF Record, Typed, Tables
<1>4. ASSUME run[r].plugin = All, run[r].command = "down-all", NEW i \in 1..Len(Targets),
             i > Len(Targets) - run[r].at + 1
      PROVE  records'[Targets[i]] = records[Targets[i]]
  <2>1. Targets[i] # t
    BY <1>1, <1>4, PlaceOf DEF Up
  <2> QED BY <1>3, <2>1, TargetsAre
<1>5. LeftBehind(r)'
  BY <1>1, <1>2, <1>4 DEF Walked, LeftBehind
<1> QED BY <1>5 DEF Walked, OneRunner

LEMMA ClearTargetDirtyWalked ==
    ASSUME IInv, Typed, Ordered, Walked, OneRunner, NEW r \in Runner, ClearTargetDirty(r)
    PROVE  Walked'
<1> DEFINE t == At(r)
           f == run[r].file
           next == Pending(t, f)
<1>1. /\ run[r] # Idle /\ Shape /\ run[r].stage = "clear" /\ UNCHANGED <<schema, records>>
  BY NotIdle DEF ClearTargetDirty, Stage, IInv
<1>2. /\ t \in Target /\ f \in Files[t] /\ f \in Nat /\ schema[t] = records[t]
      /\ records[t] \subseteq Files[t] /\ NoGap(records[t], t)
  BY <1>1, AtIs, FilesAre
  DEF Typed, Tables, Placed, Ordered, AppliedInOrder, IInv, Knows
<1>3. \/ Take(r, next)
      \/ Go(r, "any")
      \/ NextTarget(r) /\ (Up(r) => next = 0) /\ run[r].command # "down-all"
  BY DEF ClearTargetDirty
<1>4. Up(r) /\ next = 0 => records[t] = Files[t]
  <2> SUFFICES ASSUME Up(r), next = 0, NEW g \in Files[t] PROVE g \in records[t]
    BY <1>2
  <2>1. g <= f
    BY <1>2, PendingIs
  <2>2. f \in records[t]
    BY <1>1 DEF Ordered, Ready
  <2> QED BY <1>2, <2>1, <2>2, AllThere
<1> HIDE DEF next
<1>5. CASE Take(r, next) \/ Go(r, "any")
  BY <1>1, <1>5, StageAfter, WalkKept
<1>6. CASE NextTarget(r) /\ (Up(r) => next = 0) /\ run[r].command # "down-all"
  BY <1>1, <1>2, <1>4, <1>6, WalkMoves
<1> QED BY <1>3, <1>5, <1>6

LEMMA NextWalked ==
    ASSUME IInv, Typed, Ordered, Walked, OneRunner, [Next]_vars
    PROVE  Walked'
<1>1. ASSUME NEW r \in Runner, Crash(r)
      PROVE  Walked'
  BY <1>1, Stopping, WalkKept DEF Crash, IInv
<1>2. ASSUME NEW t \in Target, Resolve(t)
      PROVE  Walked'
  BY <1>2 DEF Resolve, Walked, LeftBehind
<1>3. ASSUME UNCHANGED vars
      PROVE  Walked'
  BY <1>3 DEF Walked, LeftBehind, Up, vars
<1> QED BY <1>1, <1>2, <1>3, StartWalked, AnyLeftWalked, IsTargetDirtyWalked,
       GetCurrentVersionWalked, SetTargetDirtyWalked, ExecSQLFileWalked, RecordWalked,
       ClearTargetDirtyWalked DEF Next, Step

LEMMA InitWalked == Init => Walked
BY DEF Init, Walked, LeftBehind

\* Only the SQL of a file changes what is in effect, at the target of its runner.
LEMMA SchemaSteps ==
    ASSUME IInv, OneRunner, [Next]_vars, NEW r \in Runner, run[r] # Idle
    PROVE  \/ schema' = schema
           \/ ExecSQLFile(r) /\ \A t \in Target : t # At(r) => schema'[t] = schema[t]
<1>1. CASE ExecSQLFile(r)
  BY <1>1 DEF ExecSQLFile, IInv, Shape
<1>2. CASE ~ExecSQLFile(r)
  BY <1>2 DEF Next, Step, AnyLeft, IsTargetDirty, GetCurrentVersion, SetTargetDirty, Record,
              ClearTargetDirty, Crash, Start, Resolve, OneRunner, vars
<1> QED BY <1>1, <1>2

\* A step of a command over all targets, with what it has left behind.
LEMMA StepsOnCore ==
    ASSUME IInv, Typed, Walked, OneRunner, [Next]_vars,
           NEW r \in Runner, NEW t \in Target \ {Core}, Core \in Target,
           run[r] # Idle, run[r].plugin = All
    PROVE  /\ Up(r) /\ schema'[t] # schema[t] => schema[Core] = Files[Core]
           /\ run[r].command = "down-all" /\ schema'[Core] # schema[Core] =>
                  records[t] = {} /\ (schema[t] = {} \/ dirty[t])
<1>1. LeftBehind(r) /\ CleanIsRecorded
  BY DEF Walked, IInv
<1>2. ASSUME Up(r), schema'[t] # schema[t]
      PROVE  schema[Core] = Files[Core]
  <2>1. At(r) = t /\ At(r) # Core
    BY <1>2, SchemaSteps
  <2>2. run[r].at > 1
    BY <1>2, <2>1, PlaceOf
  <2> QED BY <1>1, <1>2, <2>2 DEF LeftBehind
<1>3. ASSUME run[r].command = "down-all", schema'[Core] # schema[Core]
      PROVE  records[t] = {} /\ (schema[t] = {} \/ dirty[t])
  <2>1. At(r) = Core /\ ~Up(r)
    BY <1>3, SchemaSteps DEF Up
  <2>2. Len(Targets) - run[r].at + 1 = 1
    BY <2>1, PlaceOf
  <2>3. PICK i \in 1..Len(Targets) : t = Targets[i]
    BY TargetsAre
  <2>4. i > 1
    <3>1. i # 1
      BY <2>3, TargetsAre
    <3> QED BY <3>1
  <2>5. records[t] = {}
    BY <1>1, <1>3, <2>2, <2>3, <2>4 DEF LeftBehind
  <2> QED BY <1>1, <2>5 DEF CleanIsRecorded
<1> QED BY <1>2, <1>3

-----------------------------------------------------------------------------
(* The theorems.                                                           *)

\* The parts of the invariant hold in every state, of one runner at a time.
THEOREM Invariance == ASSUME OneRunner PROVE Spec => []IInv
<1>1. Init => IInv
  BY InitIInv
<1>2. IInv /\ [Next]_vars => IInv'
  BY NextKeeps
<1> QED BY <1>1, <1>2, PTL DEF Spec

\* Wherever a runner that runs alone fails or is killed, and whatever is run
\* after it, a target that is not dirty has in effect what is recorded.
THEOREM CleanIsTrue == ASSUME OneRunner PROVE Spec => []CleanIsRecorded
<1>1. IInv => CleanIsRecorded
  BY DEF IInv
<1> QED BY <1>1, Invariance, PTL

\* Every table and every runner has its type, however many commands are run at
\* the same time, and a runner that has begun a file is at a file of its target.
THEOREM TypeCorrect == Spec => [](TypeOK /\ Typed)
<1>1. Init => Typed
  BY InitTyped
<1>2. Typed /\ [Next]_vars => Typed'
  BY NextTyped
<1>3. Typed => TypeOK
  BY DEF Typed, Tables, TypeOK
<1> QED BY <1>1, <1>2, <1>3, PTL DEF Spec

\* The migrations in effect, and those recorded, never leave a gap: no failure
\* of a runner that runs alone, and no repair, lets a later one skip a file.
THEOREM InOrder == ASSUME OneRunner PROVE Spec => [](AppliedInOrder /\ Ordered)
<1>1. Init => Ordered
  BY InitOrdered
<1>2. IInv /\ Typed /\ Ordered /\ [Next]_vars => Ordered'
  BY NextOrdered
<1>3. Ordered => AppliedInOrder
  BY DEF Ordered
<1> QED BY <1>1, <1>2, <1>3, Invariance, TypeCorrect, PTL DEF Spec

\* A command over all targets adds to a plugin only on top of a complete core and
\* takes from the core only when the plugins are gone, dirty ones excepted: whatever
\* has been run before it, over whichever targets, and wherever that has failed.
THEOREM CoreFirstAndLast == ASSUME OneRunner PROVE Spec => PluginsOnCore
<1>1. Init => Walked
  BY InitWalked
<1>2. IInv /\ Typed /\ Ordered /\ Walked /\ [Next]_vars => Walked'
  BY NextWalked
<1>3. IInv /\ Typed /\ Walked /\ [Next]_vars =>
         [\A r \in Runner, t \in Target \ {Core} :
             Core \in Target /\ run[r] # Idle /\ run[r].plugin = All =>
                /\ Up(r) /\ schema'[t] # schema[t] => schema[Core] = Files[Core]
                /\ run[r].command = "down-all" /\ schema'[Core] # schema[Core] =>
                       records[t] = {} /\ (schema[t] = {} \/ dirty[t])]_vars
  BY StepsOnCore
<1> QED BY <1>1, <1>2, <1>3, Invariance, TypeCorrect, InOrder, PTL DEF Spec, PluginsOnCore
=============================================================================
