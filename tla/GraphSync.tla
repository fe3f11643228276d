----------------------------- MODULE GraphSync -----------------------------
(***************************************************************************)
(* Refreshing the code graph: the source is extracted to graph.json by an  *)
(* external program and graph.json is imported into the database, by the   *)
(* server's scheduler, the command line or a SessionEnd hook, each in its  *)
(* own process.  A lock file keeps them apart; one left by a dead process  *)
(* is removed after 30 minutes.  A flag file carries the requests.  The    *)
(* commands `graph import` and `graph extract` go past lock and flag.      *)
(*                                                                         *)
(* A graph is the version of the source it was extracted from, or Empty:   *)
(* no code nodes.  graph.json is "newer" when its mtime is later than the  *)
(* completed_at of the last import.                                        *)
(***************************************************************************)
EXTENDS Naturals, FiniteSets

CONSTANTS
    Scheduler, \* the server's process, which syncs whenever the flag stands
    Others,    \* processes of commands and hooks
    None,
    MaxEdits,  \* bound on the edits of the source
    MaxOps,    \* bound on the operations of Others
    MaxCrashes \* bound on the deaths of processes

Procs == {Scheduler} \cup Others

ASSUME SyncAssumption ==
    /\ Scheduler \notin Others /\ None \notin Procs
    /\ MaxEdits \in Nat \ {0} /\ MaxOps \in Nat /\ MaxCrashes \in Nat

Empty == 0

VARIABLES
    source,  \* version of the source
    edited,  \* an edit whose PostToolUse hook has not run yet
    flag,    \* graph_sync.requested exists
    file,    \* graph.json, Empty also when there is none
    newer,   \* graph_json_newer_than_import
    db,      \* the imported graph
    lock,    \* who created graph_sync.lock, or None
    aged,    \* the lock file is older than STALE_LOCK_SECONDS
    pc, op,  \* each process's step and operation
    seen,    \* the graph it has in hand
    ops, deaths,
    met      \* history: a command without the lock ran beside another process

diskVars == <<file, newer, db>>
lockVars == <<lock, aged>>
envVars == <<source, edited, ops, deaths, met>>
vars == <<envVars, flag, diskVars, lockVars, pc, op, seen>>

\* sync_graph with and without its extract, and the two bare commands.
Syncs == {"sync", "import"}
Commands == {"graph import", "graph extract"}

Init ==
    /\ source = 1 /\ edited = FALSE /\ flag = FALSE
    /\ file = Empty /\ newer = FALSE /\ db = Empty
    /\ lock = None /\ aged = FALSE
    /\ pc = [p \in Procs |-> "idle"] /\ op = [p \in Procs |-> "sync"]
    /\ seen = [p \in Procs |-> Empty]
    /\ ops = 0 /\ deaths = 0 /\ met = FALSE

Goto(p, l) == pc' = [pc EXCEPT ![p] = l]
At(p, l) == pc[p] = l

\* Between the creation of the lock and its removal.
Inside(p) ==
    /\ op[p] \in Syncs
    /\ pc[p] \in {"extract", "extracting", "prepare", "load", "import", "clear", "release"}

\* p begins operation o.
Begins(p, o) ==
    /\ At(p, "idle")
    /\ op' = [op EXCEPT ![p] = o]
    /\ Goto(p, CASE o \in Syncs -> "stale lock"
                 [] o = "graph import" -> "load"
                 [] o = "graph extract" -> "extract")
    /\ met' = (met \/ \E q \in Procs \ {p} : ~At(q, "idle") /\ {o, op[q]} \cap Commands # {})

Continues(p, l) == Goto(p, l) /\ UNCHANGED <<op, seen>>

\* The operation returns or the process dies: what it had in hand is gone.
Ends(p) ==
    /\ Goto(p, "idle")
    /\ op' = [op EXCEPT ![p] = "sync"] /\ seen' = [seen EXCEPT ![p] = Empty]

\* It ends early: sync_graph by way of its `finally`.
GivesUp(p) == IF op[p] \in Syncs THEN Continues(p, "release") ELSE Ends(p)

-----------------------------------------------------------------------------
(* The user and the hooks.                                                 *)

Edit ==
    /\ source < MaxEdits
    /\ source' = source + 1 /\ edited' = TRUE
    /\ UNCHANGED <<flag, diskVars, lockVars, pc, op, seen, ops, deaths, met>>

\* PostToolUse after a Write or an Edit.
Request ==
    /\ edited
    /\ edited' = FALSE /\ flag' = TRUE
    /\ UNCHANGED <<source, diskVars, lockVars, pc, op, seen, ops, deaths, met>>

\* The opt-in watch of the file system: any save of a source file, by the agent
\* or in another editor, whether it changes anything or not.
WatchRequests ==
    /\ flag' = TRUE
    /\ UNCHANGED <<envVars, diskVars, lockVars, pc, op, seen>>

\* The scheduler fires on a standing flag.
SchedulerStarts ==
    /\ flag
    /\ Begins(Scheduler, "sync")
    /\ UNCHANGED <<source, edited, ops, deaths, flag, diskVars, lockVars, seen>>

\* graph sync, with or without its extract, graph import and graph extract.
CommandStarts(p, o) ==
    /\ p \in Others /\ ops < MaxOps
    /\ Begins(p, o)
    /\ ops' = ops + 1
    /\ UNCHANGED <<source, edited, deaths, flag, diskVars, lockVars, seen>>

\* SessionEnd imports what has not been.
SessionEndStarts(p) ==
    /\ p \in Others /\ ops < MaxOps
    /\ flag \/ newer
    /\ Begins(p, "import")
    /\ ops' = ops + 1
    /\ UNCHANGED <<source, edited, deaths, flag, diskVars, lockVars, seen>>

-----------------------------------------------------------------------------
(* The lock.                                                               *)

\* Faulty form: a stale lock is never found stale.
NeverStale(p) ==
    /\ At(p, "stale lock")
    /\ Goto(p, "create lock")
    /\ UNCHANGED <<envVars, flag, diskVars, lockVars, op, seen>>

\* _clear_stale_lock looks at the age of the lock file ...
LookAtLock(p) ==
    /\ At(p, "stale lock")
    /\ Goto(p, IF lock # None /\ aged THEN "unlink lock" ELSE "create lock")
    /\ UNCHANGED <<envVars, flag, diskVars, lockVars, op, seen>>

\* ... and unlinks whatever file is there by then.
UnlinkStaleLock(p) ==
    /\ At(p, "unlink lock")
    /\ lock' = None /\ aged' = FALSE
    /\ Goto(p, "create lock")
    /\ UNCHANGED <<envVars, flag, diskVars, op, seen>>

\* Faulty form: the early return for a lock that is held releases it too.
CreateOrRelease(p) ==
    /\ At(p, "create lock")
    /\ IF lock = None
       THEN /\ lock' = p /\ aged' = FALSE
            /\ Continues(p, IF op[p] = "sync" THEN "extract" ELSE "prepare")
       ELSE /\ lock' = None /\ aged' = FALSE
            /\ Ends(p)
    /\ UNCHANGED <<envVars, flag, diskVars>>

\* Faulty form: without O_EXCL.
CreateAnyway(p) ==
    /\ At(p, "create lock")
    /\ lock' = p /\ aged' = FALSE
    /\ Goto(p, IF op[p] = "sync" THEN "extract" ELSE "prepare")
    /\ UNCHANGED <<envVars, flag, diskVars, op, seen>>

\* os.open(O_CREAT | O_EXCL)
CreateLock(p) ==
    /\ At(p, "create lock")
    /\ IF lock = None
       THEN /\ lock' = p /\ aged' = FALSE
            /\ Continues(p, IF op[p] = "sync" THEN "extract" ELSE "prepare")
       ELSE /\ Ends(p)
            /\ UNCHANGED lockVars
    /\ UNCHANGED <<envVars, flag, diskVars>>

\* _release_lock unlinks the file, whoever created it.
ReleaseLock(p) ==
    /\ At(p, "release")
    /\ lock' = None /\ aged' = FALSE
    /\ Ends(p)
    /\ UNCHANGED <<envVars, flag, diskVars>>

\* 30 minutes pass.  With the shipped extract timeout of 5 minutes a living
\* process does not hold the lock that long.
LockAges ==
    /\ lock # None /\ ~Inside(lock)
    /\ aged' = TRUE
    /\ UNCHANGED <<envVars, flag, diskVars, lock, pc, op, seen>>

-----------------------------------------------------------------------------
(* Extract and import.                                                     *)

\* The extractor reads the source ...
ExtractReads(p) ==
    /\ At(p, "extract")
    /\ seen' = [seen EXCEPT ![p] = source]
    /\ Goto(p, "extracting")
    /\ UNCHANGED <<envVars, flag, diskVars, lockVars, op>>

\* ... and writes what it made of it.
ExtractWrites(p) ==
    /\ At(p, "extracting")
    /\ file' = seen[p] /\ newer' = TRUE
    /\ IF op[p] = "sync" THEN Continues(p, "prepare") ELSE Ends(p)
    /\ UNCHANGED <<envVars, flag, db, lockVars>>

\* It finds no code.
ExtractFindsNothing(p) ==
    /\ At(p, "extracting")
    /\ file' = Empty /\ newer' = TRUE
    /\ IF op[p] = "sync" THEN Continues(p, "prepare") ELSE Ends(p)
    /\ UNCHANGED <<envVars, flag, db, lockVars>>

\* It is missing, fails or times out.
ExtractFails(p) ==
    /\ At(p, "extracting")
    /\ GivesUp(p)
    /\ UNCHANGED <<envVars, flag, diskVars, lockVars>>

\* prepare_force_sync reads graph.json: missing or empty ends the sync.
Prepare(p) ==
    /\ At(p, "prepare")
    /\ Goto(p, IF file = Empty THEN "release" ELSE "load")
    /\ UNCHANGED <<envVars, flag, diskVars, lockVars, op, seen>>

\* import_graph_json reads it again, and refuses an empty graph when there
\* are code nodes.
Load(p) ==
    /\ At(p, "load")
    /\ IF file = Empty /\ db # Empty THEN GivesUp(p)
       ELSE /\ Goto(p, "import")
            /\ seen' = [seen EXCEPT ![p] = file] /\ UNCHANGED op
    /\ UNCHANGED <<envVars, flag, diskVars, lockVars>>

\* _purge_code_graph and _insert_code_graph leave nothing of the graph before.
Imported(p) == seen[p]

\* BEGIN IMMEDIATE, purge, insert, finish the run, COMMIT.
Import(p) ==
    /\ At(p, "import")
    /\ db' = Imported(p) /\ newer' = FALSE
    /\ IF op[p] \in Syncs THEN Continues(p, "clear") ELSE Ends(p)
    /\ UNCHANGED <<envVars, flag, file, lockVars>>

\* Faulty form: a failed run counts as an import when staleness is judged.
ImportFailsCounted(p) ==
    /\ At(p, "import")
    /\ newer' = FALSE
    /\ GivesUp(p)
    /\ UNCHANGED <<envVars, flag, file, db, lockVars>>

\* It fails, the retries spent: rolled back, the run marked failed.
ImportFails(p) ==
    /\ At(p, "import")
    /\ GivesUp(p)
    /\ UNCHANGED <<envVars, flag, diskVars, lockVars>>

\* clear_graph_sync_request
ClearRequest(p) ==
    /\ At(p, "clear")
    /\ flag' = FALSE
    /\ Goto(p, "release")
    /\ UNCHANGED <<envVars, diskVars, lockVars, op, seen>>

\* The process dies.  (A scheduler that dies is started again by the editor.
\* The extractor it was running is taken to write nothing more.)
Crash(p) ==
    /\ ~At(p, "idle") /\ deaths < MaxCrashes
    /\ deaths' = deaths + 1
    /\ Ends(p)
    /\ UNCHANGED <<source, edited, ops, met, flag, diskVars, lockVars>>

-----------------------------------------------------------------------------
Acts(p) ==
    \/ LookAtLock(p) \/ UnlinkStaleLock(p) \/ CreateLock(p) \/ ReleaseLock(p)
    \/ ExtractReads(p) \/ ExtractWrites(p) \/ ExtractFindsNothing(p) \/ ExtractFails(p)
    \/ Prepare(p) \/ Load(p) \/ Import(p) \/ ImportFails(p) \/ ClearRequest(p)

Next ==
    \/ Edit \/ Request \/ WatchRequests \/ SchedulerStarts \/ LockAges
    \/ \E p \in Procs : Acts(p) \/ Crash(p)
    \/ \E p \in Others : \/ \E o \in Syncs \cup Commands : CommandStarts(p, o)
                        \/ SessionEndStarts(p)

Spec == Init /\ [][Next]_vars

\* Hooks run, processes take their steps, an old lock gets old.  An extract
\* or import tried for ever does not fail for ever.  Nothing here makes the
\* scheduler start: whether it does is the question of module SyncScheduler.
FairSpec ==
    /\ Spec
    /\ WF_vars(Request) /\ WF_vars(LockAges)
    /\ \A p \in Procs : /\ WF_vars(Acts(p))
                        /\ SF_vars(ExtractWrites(p)) /\ SF_vars(Import(p))

\* The same with a debounce below the poll: a standing flag starts the scheduler.
PromptSpec == FairSpec /\ WF_vars(SchedulerStarts)

-----------------------------------------------------------------------------
\* Every variable keeps its type; an aged lock is a held one, and
\* while no process has died only the lock's owner is inside sync_graph.
TypeOK ==
    /\ source \in 1..MaxEdits /\ edited \in BOOLEAN /\ flag \in BOOLEAN
    /\ file \in 0..MaxEdits /\ newer \in BOOLEAN /\ db \in 0..MaxEdits
    /\ lock \in Procs \cup {None} /\ aged \in BOOLEAN
    /\ aged => lock # None
    /\ deaths = 0 => \A p \in Procs : Inside(p) => lock = p
    /\ pc \in [Procs -> {"idle", "stale lock", "unlink lock", "create lock", "extract",
                         "extracting", "prepare", "load", "import", "clear", "release"}]
    /\ op \in [Procs -> Syncs \cup Commands]
    /\ seen \in [Procs -> 0..MaxEdits]
    /\ ops \in 0..MaxOps /\ deaths \in 0..MaxCrashes /\ met \in BOOLEAN

\* Until a process dies at it, no two processes sync at the same time.
OneSyncer ==
    deaths = 0 => \A p, q \in Procs : Inside(p) /\ Inside(q) => p = q

\* No process has died at the graph, and no command that takes no lock has run
\* beside another process: without the latter a command may import what a sync
\* has replaced since, and both properties below fail.
Apart == deaths = 0 /\ ~met

\* While the processes keep apart, a file that is not reported newer is the
\* graph in the database: staleness is never hidden, though files are imported
\* that were read before.
StalenessSeen ==
    Apart /\ ~newer => db = file

\* While the processes keep apart, a code graph once imported is never
\* replaced by an empty or an older one.
GraphKept ==
    [][Apart => db' >= db]_vars

\* No lock left by a dead process shuts the scheduler out for good: when it
\* tries again and again, as it does with a debounce below the poll, a request
\* is served in the end, whoever died at the lock.
ServedWhenTried ==
    []<><<SchedulerStarts>>_vars => (flag ~> ~flag)

\* The graph stays current with the edits (refuted: the request of an edit
\* made during an extract is cleared with the request it serves).
EditsArrive ==
    \A v \in 2..MaxEdits : source = v ~> db >= v
=============================================================================
