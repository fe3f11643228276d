-------------------------- MODULE GraphSyncProofs --------------------------
(***************************************************************************)
(* Safety of GraphSync for any number of processes, edits and deaths.      *)
(* Until a death the lock file belongs to the one process inside           *)
(* sync_graph, and never ages; while, besides, no command has gone past    *)
(* the lock beside another process, whoever works at the graph is alone,   *)
(* so that what it has read still holds when it writes.                    *)
(***************************************************************************)
EXTENDS GraphSync, TLAPS

Labels == {"idle", "stale lock", "unlink lock", "create lock", "extract",
           "extracting", "prepare", "load", "import", "clear", "release"}

\* The type invariant, in three parts.
Numbers ==
    /\ source \in 1..MaxEdits /\ file \in 0..MaxEdits /\ db \in 0..MaxEdits
    /\ ops \in 0..MaxOps /\ deaths \in 0..MaxCrashes
    /\ seen \in [Procs -> 0..MaxEdits]

Flags ==
    /\ edited \in BOOLEAN /\ flag \in BOOLEAN /\ newer \in BOOLEAN
    /\ aged \in BOOLEAN /\ met \in BOOLEAN
    /\ lock \in Procs \cup {None} /\ (aged => lock # None)

Locals ==
    /\ pc \in [Procs -> Labels]
    /\ op \in [Procs -> Syncs \cup Commands]

Types == Numbers /\ Flags /\ Locals

\* A bare command is never at the lock, nor at the end of sync_graph, and a
\* sync without its extract never extracts.
BareInv ==
    \A p \in Procs :
        /\ op[p] \in Commands => pc[p] \in {"idle", "extract", "extracting", "load", "import"}
        /\ op[p] = "import" => pc[p] \notin {"extract", "extracting"}

\* Until a death the lock's owner is who is inside, and no lock is stale.
LockInv ==
    deaths = 0 => /\ ~aged
                  /\ \A p \in Procs : pc[p] # "unlink lock" /\ (Inside(p) <=> lock = p)

\* Unless met says otherwise, a bare command runs alone.
AloneInv ==
    ~met => \A p \in Procs : op[p] \in Commands /\ pc[p] # "idle" =>
                \A q \in Procs \ {p} : pc[q] = "idle"

\* What is known of the graphs while the processes keep apart.
GraphInv ==
    Apart => /\ ~newer => db = file
             /\ file # Empty => db <= file
             /\ \A p \in Procs : pc[p] = "extracting" => db <= seen[p]
             /\ \A p \in Procs : pc[p] = "import" => seen[p] = file /\ db <= seen[p]

\* Nothing is ahead of the source.
PastInv ==
    file <= source /\ db <= source /\ \A p \in Procs : seen[p] <= source

IInv == Types /\ BareInv /\ LockInv /\ AloneInv /\ PastInv /\ GraphInv

Works(p) == pc[p] \in {"extract", "extracting", "prepare", "load", "import", "clear", "release"}

\* Apart, only one process works at the graph.
LEMMA OneWorker ==
    ASSUME Types, BareInv, LockInv, AloneInv, Apart,
           NEW p \in Procs, NEW q \in Procs, Works(p), Works(q)
    PROVE  p = q
<1>1. CASE op[p] \in Commands \/ op[q] \in Commands
      BY <1>1 DEF AloneInv, Apart, Works
<1>2. CASE op[p] \in Syncs /\ op[q] \in Syncs
      BY <1>2 DEF LockInv, Apart, Works, Inside
<1>. QED  BY <1>1, <1>2 DEF Types, Locals

\* Every step is one of these.
Step ==
    \/ Edit \/ Request \/ WatchRequests \/ SchedulerStarts \/ LockAges
    \/ \E p \in Procs :
          \/ LookAtLock(p) \/ UnlinkStaleLock(p) \/ CreateLock(p) \/ ReleaseLock(p)
          \/ ExtractReads(p) \/ ExtractWrites(p) \/ ExtractFindsNothing(p) \/ ExtractFails(p)
          \/ Prepare(p) \/ Load(p) \/ Import(p) \/ ImportFails(p) \/ ClearRequest(p)
          \/ Crash(p)
    \/ \E p \in Others : \/ \E o \in Syncs \cup Commands : CommandStarts(p, o)
                        \/ SessionEndStarts(p)

LEMMA NextStep == Next => Step
BY DEF Next, Acts, Step, Procs

LEMMA Bounds ==
    /\ MaxEdits \in Nat /\ 1 \in 1..MaxEdits /\ MaxOps \in Nat /\ MaxCrashes \in Nat
    /\ None \notin Procs
BY SyncAssumption

LEMMA InitInv == Init => IInv
<1> SUFFICES ASSUME Init PROVE IInv
    OBVIOUS
<1>1. Numbers
      BY Bounds DEF Init, Numbers, Empty
<1>6. Flags
      BY Bounds DEF Init, Flags
<1>2. Locals
      BY DEF Init, Locals, Labels, Syncs
<1>3. BareInv /\ AloneInv
      BY DEF Init, BareInv, AloneInv
<1>4. LockInv
      BY Bounds DEF Init, LockInv, Inside
<1>5. GraphInv
      BY DEF Init, GraphInv, Empty
<1>7. PastInv
      BY DEF Init, PastInv, Empty
<1>. QED  BY <1>1, <1>2, <1>3, <1>4, <1>5, <1>6, <1>7 DEF IInv, Types

-----------------------------------------------------------------------------

LEMMA NumbersStep == Types /\ Step => Numbers'
<1> SUFFICES ASSUME Types, Step PROVE Numbers'
    OBVIOUS
<1> USE Bounds DEF Types, Numbers, Procs
<1>1. CASE Edit
      BY <1>1 DEF Edit, diskVars, lockVars
<1>2. CASE Request
      BY <1>2 DEF Request, diskVars, lockVars
<1>3. CASE WatchRequests
      BY <1>3 DEF WatchRequests, envVars, diskVars, lockVars
<1>4. CASE SchedulerStarts
      BY <1>4 DEF SchedulerStarts, diskVars, lockVars
<1>5. CASE LockAges
      BY <1>5 DEF LockAges, Inside, envVars, diskVars
<1>6. ASSUME NEW p \in Procs, LookAtLock(p) PROVE Numbers'
      BY <1>6 DEF LookAtLock, At, Goto, envVars, diskVars, lockVars
<1>7. ASSUME NEW p \in Procs, UnlinkStaleLock(p) PROVE Numbers'
      BY <1>7 DEF UnlinkStaleLock, At, Goto, envVars, diskVars
<1>8. ASSUME NEW p \in Procs, CreateLock(p) PROVE Numbers'
      <2>1. /\ seen' = seen \/ seen' = [seen EXCEPT ![p] = Empty]
            /\ UNCHANGED <<source, file, db, ops, deaths>>
            BY <1>8 DEF CreateLock, Continues, Ends, envVars, diskVars
      <2>. QED  BY <2>1 DEF Empty
<1>9. ASSUME NEW p \in Procs, ReleaseLock(p) PROVE Numbers'
      BY <1>9 DEF ReleaseLock, At, Ends, envVars, diskVars, Goto, Empty
<1>10. ASSUME NEW p \in Procs, ExtractReads(p) PROVE Numbers'
      BY <1>10 DEF ExtractReads, At, Goto, envVars, diskVars, lockVars
<1>11. ASSUME NEW p \in Procs, ExtractWrites(p) PROVE Numbers'
      BY <1>11 DEF ExtractWrites, At, Continues, Ends, envVars, lockVars, Goto, Empty
<1>12. ASSUME NEW p \in Procs, ExtractFindsNothing(p) PROVE Numbers'
      BY <1>12 DEF ExtractFindsNothing, At, Empty, Continues, Ends, envVars, lockVars,
        Goto
<1>13. ASSUME NEW p \in Procs, ExtractFails(p) PROVE Numbers'
      BY <1>13 DEF ExtractFails, At, GivesUp, envVars, diskVars, lockVars, Continues,
        Ends, Goto, Empty
<1>14. ASSUME NEW p \in Procs, Prepare(p) PROVE Numbers'
      BY <1>14 DEF Prepare, At, Goto, Empty, envVars, diskVars, lockVars
<1>15. ASSUME NEW p \in Procs, Load(p) PROVE Numbers'
      BY <1>15 DEF Load, At, Empty, GivesUp, Goto, envVars, diskVars, lockVars,
        Continues, Ends
<1>16. ASSUME NEW p \in Procs, Import(p) PROVE Numbers'
      BY <1>16 DEF Import, At, Imported, Continues, Ends, envVars, lockVars, Goto, Empty
<1>17. ASSUME NEW p \in Procs, ImportFails(p) PROVE Numbers'
      BY <1>17 DEF ImportFails, At, GivesUp, envVars, diskVars, lockVars, Continues,
        Ends, Goto, Empty
<1>18. ASSUME NEW p \in Procs, ClearRequest(p) PROVE Numbers'
      BY <1>18 DEF ClearRequest, At, Goto, envVars, diskVars, lockVars
<1>19. ASSUME NEW p \in Procs, Crash(p) PROVE Numbers'
      BY <1>19 DEF Crash, At, Ends, diskVars, lockVars, Goto, Empty
<1>20. ASSUME NEW p \in Others, NEW o \in Syncs \cup Commands, CommandStarts(p, o)
      PROVE  Numbers'
      BY <1>20 DEF CommandStarts, diskVars, lockVars
<1>21. ASSUME NEW p \in Others, SessionEndStarts(p) PROVE Numbers'
      BY <1>21 DEF SessionEndStarts, diskVars, lockVars
<1>. QED  BY <1>1, <1>2, <1>3, <1>4, <1>5, <1>6, <1>7, <1>8, <1>9, <1>10, <1>11, <1>12,
            <1>13, <1>14, <1>15, <1>16, <1>17, <1>18, <1>19, <1>20, <1>21 DEF Step

LEMMA FlagsStep == Types /\ Step => Flags'
<1> SUFFICES ASSUME Types, Step PROVE Flags'
    OBVIOUS
<1> USE Bounds DEF Types, Flags, Procs
<1>1. CASE Edit
      BY <1>1 DEF Edit, diskVars, lockVars
<1>2. CASE Request
      BY <1>2 DEF Request, diskVars, lockVars
<1>3. CASE WatchRequests
      BY <1>3 DEF WatchRequests, envVars, diskVars, lockVars
<1>4. CASE SchedulerStarts
      BY <1>4 DEF SchedulerStarts, Begins, diskVars, lockVars, At, Goto
<1>5. CASE LockAges
      BY <1>5 DEF LockAges, Inside, envVars, diskVars
<1>6. ASSUME NEW p \in Procs, LookAtLock(p) PROVE Flags'
      BY <1>6 DEF LookAtLock, At, Goto, envVars, diskVars, lockVars
<1>7. ASSUME NEW p \in Procs, UnlinkStaleLock(p) PROVE Flags'
      BY <1>7 DEF UnlinkStaleLock, At, Goto, envVars, diskVars
<1>8. ASSUME NEW p \in Procs, CreateLock(p) PROVE Flags'
      BY <1>8 DEF CreateLock, At, Continues, Ends, lockVars, envVars, diskVars, Goto,
        Empty
<1>9. ASSUME NEW p \in Procs, ReleaseLock(p) PROVE Flags'
      BY <1>9 DEF ReleaseLock, At, Ends, envVars, diskVars, Goto, Empty
<1>10. ASSUME NEW p \in Procs, ExtractReads(p) PROVE Flags'
      BY <1>10 DEF ExtractReads, At, Goto, envVars, diskVars, lockVars
<1>11. ASSUME NEW p \in Procs, ExtractWrites(p) PROVE Flags'
      BY <1>11 DEF ExtractWrites, At, Continues, Ends, envVars, lockVars, Goto, Empty
<1>12. ASSUME NEW p \in Procs, ExtractFindsNothing(p) PROVE Flags'
      BY <1>12 DEF ExtractFindsNothing, At, Empty, Continues, Ends, envVars, lockVars,
        Goto
<1>13. ASSUME NEW p \in Procs, ExtractFails(p) PROVE Flags'
      BY <1>13 DEF ExtractFails, At, GivesUp, envVars, diskVars, lockVars, Continues,
        Ends, Goto, Empty
<1>14. ASSUME NEW p \in Procs, Prepare(p) PROVE Flags'
      BY <1>14 DEF Prepare, At, Goto, Empty, envVars, diskVars, lockVars
<1>15. ASSUME NEW p \in Procs, Load(p) PROVE Flags'
      BY <1>15 DEF Load, At, Empty, GivesUp, Goto, envVars, diskVars, lockVars,
        Continues, Ends
<1>16. ASSUME NEW p \in Procs, Import(p) PROVE Flags'
      BY <1>16 DEF Import, At, Imported, Continues, Ends, envVars, lockVars, Goto, Empty
<1>17. ASSUME NEW p \in Procs, ImportFails(p) PROVE Flags'
      BY <1>17 DEF ImportFails, At, GivesUp, envVars, diskVars, lockVars, Continues,
        Ends, Goto, Empty
<1>18. ASSUME NEW p \in Procs, ClearRequest(p) PROVE Flags'
      BY <1>18 DEF ClearRequest, At, Goto, envVars, diskVars, lockVars
<1>19. ASSUME NEW p \in Procs, Crash(p) PROVE Flags'
      BY <1>19 DEF Crash, At, Ends, diskVars, lockVars, Goto, Empty
<1>20. ASSUME NEW p \in Others, NEW o \in Syncs \cup Commands, CommandStarts(p, o)
      PROVE  Flags'
      BY <1>20 DEF CommandStarts, Begins, diskVars, lockVars, At, Goto
<1>21. ASSUME NEW p \in Others, SessionEndStarts(p) PROVE Flags'
      BY <1>21 DEF SessionEndStarts, Begins, diskVars, lockVars, At, Goto
<1>. QED  BY <1>1, <1>2, <1>3, <1>4, <1>5, <1>6, <1>7, <1>8, <1>9, <1>10, <1>11, <1>12,
            <1>13, <1>14, <1>15, <1>16, <1>17, <1>18, <1>19, <1>20, <1>21 DEF Step

LEMMA LocalsStep == Types /\ Step => Locals'
<1> SUFFICES ASSUME Types, Step PROVE Locals'
    OBVIOUS
<1> USE DEF Types, Locals, Procs
<1>1. CASE Edit
      BY <1>1 DEF Edit, diskVars, lockVars, Labels, Syncs, Commands
<1>2. CASE Request
      BY <1>2 DEF Request, diskVars, lockVars, Labels, Syncs, Commands
<1>3. CASE WatchRequests
      BY <1>3 DEF WatchRequests, envVars, diskVars, lockVars, Labels, Syncs, Commands
<1>4. CASE SchedulerStarts
      BY <1>4 DEF SchedulerStarts, Begins, diskVars, lockVars, At, Goto, Syncs,
        Commands, Labels
<1>5. CASE LockAges
      BY <1>5 DEF LockAges, Inside, envVars, diskVars, Syncs, Labels, Commands
<1>6. ASSUME NEW p \in Procs, LookAtLock(p) PROVE Locals'
      BY <1>6 DEF LookAtLock, At, Goto, envVars, diskVars, lockVars, Labels, Syncs,
        Commands
<1>7. ASSUME NEW p \in Procs, UnlinkStaleLock(p) PROVE Locals'
      BY <1>7 DEF UnlinkStaleLock, At, Goto, envVars, diskVars, Labels, Syncs, Commands
<1>8. ASSUME NEW p \in Procs, CreateLock(p) PROVE Locals'
      BY <1>8 DEF CreateLock, At, Continues, Ends, lockVars, envVars, diskVars, Goto,
        Empty, Labels, Syncs, Commands
<1>9. ASSUME NEW p \in Procs, ReleaseLock(p) PROVE Locals'
      BY <1>9 DEF ReleaseLock, At, Ends, envVars, diskVars, Goto, Empty, Labels, Syncs,
        Commands
<1>10. ASSUME NEW p \in Procs, ExtractReads(p) PROVE Locals'
      BY <1>10 DEF ExtractReads, At, Goto, envVars, diskVars, lockVars, Labels, Syncs,
        Commands
<1>11. ASSUME NEW p \in Procs, ExtractWrites(p) PROVE Locals'
      BY <1>11 DEF ExtractWrites, At, Continues, Ends, envVars, lockVars, Goto, Empty,
        Labels, Syncs, Commands
<1>12. ASSUME NEW p \in Procs, ExtractFindsNothing(p) PROVE Locals'
      BY <1>12 DEF ExtractFindsNothing, At, Empty, Continues, Ends, envVars, lockVars,
        Goto, Labels, Syncs, Commands
<1>13. ASSUME NEW p \in Procs, ExtractFails(p) PROVE Locals'
      BY <1>13 DEF ExtractFails, At, GivesUp, envVars, diskVars, lockVars, Syncs,
        Continues, Ends, Goto, Empty, Labels, Commands
<1>14. ASSUME NEW p \in Procs, Prepare(p) PROVE Locals'
      BY <1>14 DEF Prepare, At, Goto, Empty, envVars, diskVars, lockVars, Labels, Syncs,
        Commands
<1>15. ASSUME NEW p \in Procs, Load(p) PROVE Locals'
      BY <1>15 DEF Load, At, Empty, GivesUp, Goto, envVars, diskVars, lockVars, Syncs,
        Continues, Ends, Labels, Commands
<1>16. ASSUME NEW p \in Procs, Import(p) PROVE Locals'
      BY <1>16 DEF Import, At, Imported, Syncs, Continues, Ends, envVars, lockVars,
        Goto, Empty, Labels, Commands
<1>17. ASSUME NEW p \in Procs, ImportFails(p) PROVE Locals'
      BY <1>17 DEF ImportFails, At, GivesUp, envVars, diskVars, lockVars, Syncs,
        Continues, Ends, Goto, Empty, Labels, Commands
<1>18. ASSUME NEW p \in Procs, ClearRequest(p) PROVE Locals'
      BY <1>18 DEF ClearRequest, At, Goto, envVars, diskVars, lockVars, Labels, Syncs,
        Commands
<1>19. ASSUME NEW p \in Procs, Crash(p) PROVE Locals'
      BY <1>19 DEF Crash, At, Ends, diskVars, lockVars, Goto, Empty, Labels, Syncs,
        Commands
<1>20. ASSUME NEW p \in Others, NEW o \in Syncs \cup Commands, CommandStarts(p, o)
      PROVE  Locals'
      BY <1>20 DEF CommandStarts, Begins, diskVars, lockVars, At, Goto, Syncs, Commands,
        Labels
<1>21. ASSUME NEW p \in Others, SessionEndStarts(p) PROVE Locals'
      BY <1>21 DEF SessionEndStarts, Begins, diskVars, lockVars, At, Goto, Syncs,
        Commands, Labels
<1>. QED  BY <1>1, <1>2, <1>3, <1>4, <1>5, <1>6, <1>7, <1>8, <1>9, <1>10, <1>11, <1>12,
            <1>13, <1>14, <1>15, <1>16, <1>17, <1>18, <1>19, <1>20, <1>21 DEF Step

LEMMA BareStep == Types /\ BareInv /\ Step => BareInv'
<1> SUFFICES ASSUME Types /\ BareInv, Step PROVE BareInv'
    OBVIOUS
<1> USE DEF Types, Locals, BareInv, Procs
<1>1. CASE Edit
      BY <1>1 DEF Edit, diskVars, lockVars, Syncs, Commands
<1>2. CASE Request
      BY <1>2 DEF Request, diskVars, lockVars, Syncs, Commands
<1>3. CASE WatchRequests
      BY <1>3 DEF WatchRequests, envVars, diskVars, lockVars, Syncs, Commands
<1>4. CASE SchedulerStarts
      BY <1>4 DEF SchedulerStarts, Begins, diskVars, lockVars, At, Goto, Syncs, Commands
<1>5. CASE LockAges
      BY <1>5 DEF LockAges, Inside, envVars, diskVars, Syncs, Commands
<1>6. ASSUME NEW p \in Procs, LookAtLock(p) PROVE BareInv'
      BY <1>6 DEF LookAtLock, At, Goto, envVars, diskVars, lockVars, Syncs, Commands
<1>7. ASSUME NEW p \in Procs, UnlinkStaleLock(p) PROVE BareInv'
      BY <1>7 DEF UnlinkStaleLock, At, Goto, envVars, diskVars, Syncs, Commands
<1>8. ASSUME NEW p \in Procs, CreateLock(p) PROVE BareInv'
      BY <1>8 DEF CreateLock, At, Continues, Ends, lockVars, envVars, diskVars, Goto,
        Empty, Syncs, Commands
<1>9. ASSUME NEW p \in Procs, ReleaseLock(p) PROVE BareInv'
      BY <1>9 DEF ReleaseLock, At, Ends, envVars, diskVars, Goto, Empty, Syncs, Commands
<1>10. ASSUME NEW p \in Procs, ExtractReads(p) PROVE BareInv'
      BY <1>10 DEF ExtractReads, At, Goto, envVars, diskVars, lockVars, Syncs, Commands
<1>11. ASSUME NEW p \in Procs, ExtractWrites(p) PROVE BareInv'
      BY <1>11 DEF ExtractWrites, At, Continues, Ends, envVars, lockVars, Goto, Empty,
        Syncs, Commands
<1>12. ASSUME NEW p \in Procs, ExtractFindsNothing(p) PROVE BareInv'
      BY <1>12 DEF ExtractFindsNothing, At, Empty, Continues, Ends, envVars, lockVars,
        Goto, Syncs, Commands
<1>13. ASSUME NEW p \in Procs, ExtractFails(p) PROVE BareInv'
      BY <1>13 DEF ExtractFails, At, GivesUp, envVars, diskVars, lockVars, Syncs,
        Continues, Ends, Goto, Empty, Commands
<1>14. ASSUME NEW p \in Procs, Prepare(p) PROVE BareInv'
      BY <1>14 DEF Prepare, At, Goto, Empty, envVars, diskVars, lockVars, Syncs,
        Commands
<1>15. ASSUME NEW p \in Procs, Load(p) PROVE BareInv'
      BY <1>15 DEF Load, At, Empty, GivesUp, Goto, envVars, diskVars, lockVars, Syncs,
        Continues, Ends, Commands
<1>16. ASSUME NEW p \in Procs, Import(p) PROVE BareInv'
      BY <1>16 DEF Import, At, Imported, Syncs, Continues, Ends, envVars, lockVars,
        Goto, Empty, Commands
<1>17. ASSUME NEW p \in Procs, ImportFails(p) PROVE BareInv'
      BY <1>17 DEF ImportFails, At, GivesUp, envVars, diskVars, lockVars, Syncs,
        Continues, Ends, Goto, Empty, Commands
<1>18. ASSUME NEW p \in Procs, ClearRequest(p) PROVE BareInv'
      BY <1>18 DEF ClearRequest, At, Goto, envVars, diskVars, lockVars, Syncs, Commands
<1>19. ASSUME NEW p \in Procs, Crash(p) PROVE BareInv'
      BY <1>19 DEF Crash, At, Ends, diskVars, lockVars, Goto, Empty, Syncs, Commands
<1>20. ASSUME NEW p \in Others, NEW o \in Syncs \cup Commands, CommandStarts(p, o)
      PROVE  BareInv'
      BY <1>20 DEF CommandStarts, Begins, diskVars, lockVars, At, Goto, Syncs, Commands
<1>21. ASSUME NEW p \in Others, SessionEndStarts(p) PROVE BareInv'
      BY <1>21 DEF SessionEndStarts, Begins, diskVars, lockVars, At, Goto, Syncs,
        Commands
<1>. QED  BY <1>1, <1>2, <1>3, <1>4, <1>5, <1>6, <1>7, <1>8, <1>9, <1>10, <1>11, <1>12,
            <1>13, <1>14, <1>15, <1>16, <1>17, <1>18, <1>19, <1>20, <1>21 DEF Step

LEMMA CrashCounts ==
    ASSUME Types, NEW p \in Procs, Crash(p)
    PROVE  deaths' # 0
BY Bounds DEF Types, Numbers, Crash

LEMMA LockStep == Types /\ BareInv /\ LockInv /\ Step => LockInv'
<1> SUFFICES ASSUME Types /\ BareInv /\ LockInv, Step PROVE LockInv'
    OBVIOUS
<1> USE Bounds DEF Types, Numbers, Flags, Locals, BareInv, LockInv, Procs
<1>1. CASE Edit
      BY <1>1 DEF Edit, diskVars, lockVars, Inside, Syncs, Commands
<1>2. CASE Request
      BY <1>2 DEF Request, diskVars, lockVars, Inside, Syncs, Commands
<1>3. CASE WatchRequests
      BY <1>3 DEF WatchRequests, envVars, diskVars, lockVars, Inside, Syncs, Commands
<1>4. CASE SchedulerStarts
      BY <1>4 DEF SchedulerStarts, Begins, diskVars, lockVars, At, Goto, Syncs,
        Commands, Inside
<1>5. CASE LockAges
      BY <1>5 DEF LockAges, Inside, envVars, diskVars, Syncs, Commands
<1>6. ASSUME NEW p \in Procs, LookAtLock(p) PROVE LockInv'
      BY <1>6 DEF LookAtLock, At, Goto, envVars, diskVars, lockVars, Inside, Syncs,
        Commands
<1>7. ASSUME NEW p \in Procs, UnlinkStaleLock(p) PROVE LockInv'
      BY <1>7 DEF UnlinkStaleLock, At, Goto, envVars, diskVars, Inside, Syncs, Commands
<1>8. ASSUME NEW p \in Procs, CreateLock(p) PROVE LockInv'
      BY <1>8 DEF CreateLock, At, Continues, Ends, lockVars, envVars, diskVars, Goto,
        Empty, Inside, Syncs, Commands
<1>9. ASSUME NEW p \in Procs, ReleaseLock(p) PROVE LockInv'
      BY <1>9 DEF ReleaseLock, At, Ends, envVars, diskVars, Goto, Empty, Inside, Syncs,
        Commands
<1>10. ASSUME NEW p \in Procs, ExtractReads(p) PROVE LockInv'
      BY <1>10 DEF ExtractReads, At, Goto, envVars, diskVars, lockVars, Inside, Syncs,
        Commands
<1>11. ASSUME NEW p \in Procs, ExtractWrites(p) PROVE LockInv'
      <2>1. CASE op[p] = "sync"
            BY <1>11, <2>1 DEF ExtractWrites, At, Continues, Ends, envVars, lockVars,
              Goto, Empty, Inside, Syncs, Commands
      <2>2. CASE ~(op[p] = "sync")
            BY <1>11, <2>2 DEF ExtractWrites, At, Continues, Ends, envVars, lockVars,
              Goto, Empty, Inside, Syncs, Commands
      <2>. QED  BY <2>1, <2>2
<1>12. ASSUME NEW p \in Procs, ExtractFindsNothing(p) PROVE LockInv'
      <2>1. CASE op[p] = "sync"
            BY <1>12, <2>1 DEF ExtractFindsNothing, At, Empty, Continues, Ends, envVars,
              lockVars, Goto, Inside, Syncs, Commands
      <2>2. CASE ~(op[p] = "sync")
            BY <1>12, <2>2 DEF ExtractFindsNothing, At, Empty, Continues, Ends, envVars,
              lockVars, Goto, Inside, Syncs, Commands
      <2>. QED  BY <2>1, <2>2
<1>13. ASSUME NEW p \in Procs, ExtractFails(p) PROVE LockInv'
      BY <1>13 DEF ExtractFails, At, GivesUp, envVars, diskVars, lockVars, Syncs,
        Continues, Ends, Goto, Empty, Inside, Commands
<1>14. ASSUME NEW p \in Procs, Prepare(p) PROVE LockInv'
      BY <1>14 DEF Prepare, At, Goto, Empty, envVars, diskVars, lockVars, Inside, Syncs,
        Commands
<1>15. ASSUME NEW p \in Procs, Load(p) PROVE LockInv'
      BY <1>15 DEF Load, At, Empty, GivesUp, Goto, envVars, diskVars, lockVars, Syncs,
        Continues, Ends, Inside, Commands
<1>16. ASSUME NEW p \in Procs, Import(p) PROVE LockInv'
      BY <1>16 DEF Import, At, Imported, Syncs, Continues, Ends, envVars, lockVars,
        Goto, Empty, Inside, Commands
<1>17. ASSUME NEW p \in Procs, ImportFails(p) PROVE LockInv'
      BY <1>17 DEF ImportFails, At, GivesUp, envVars, diskVars, lockVars, Syncs,
        Continues, Ends, Goto, Empty, Inside, Commands
<1>18. ASSUME NEW p \in Procs, ClearRequest(p) PROVE LockInv'
      BY <1>18 DEF ClearRequest, At, Goto, envVars, diskVars, lockVars, Inside, Syncs,
        Commands
<1>19. ASSUME NEW p \in Procs, Crash(p) PROVE LockInv'
      <2>1. deaths' # 0
            BY <1>19, CrashCounts
      <2>. QED  BY <2>1
<1>20. ASSUME NEW p \in Others, NEW o \in Syncs \cup Commands, CommandStarts(p, o)
      PROVE  LockInv'
      BY <1>20 DEF CommandStarts, Begins, diskVars, lockVars, At, Goto, Syncs, Commands,
        Inside
<1>21. ASSUME NEW p \in Others, SessionEndStarts(p) PROVE LockInv'
      BY <1>21 DEF SessionEndStarts, Begins, diskVars, lockVars, At, Goto, Syncs,
        Commands, Inside
<1>. QED  BY <1>1, <1>2, <1>3, <1>4, <1>5, <1>6, <1>7, <1>8, <1>9, <1>10, <1>11, <1>12,
            <1>13, <1>14, <1>15, <1>16, <1>17, <1>18, <1>19, <1>20, <1>21 DEF Step

\* A process at work moves: it alone, perhaps back to idle and its operation done.
Moves(p) ==
    /\ pc[p] # "idle" /\ met' = met
    /\ \E l \in Labels : pc' = [pc EXCEPT ![p] = l]
    /\ op' = op \/ op' = [op EXCEPT ![p] = "sync"]

LEMMA ActMoves ==
    ASSUME NEW p \in Procs,
           \/ LookAtLock(p) \/ UnlinkStaleLock(p) \/ CreateLock(p) \/ ReleaseLock(p)
           \/ ExtractReads(p) \/ ExtractWrites(p) \/ ExtractFindsNothing(p) \/ ExtractFails(p)
           \/ Prepare(p) \/ Load(p) \/ Import(p) \/ ImportFails(p) \/ ClearRequest(p)
           \/ Crash(p)
    PROVE  Moves(p)
<1> USE DEF Moves, Labels, At, Goto, envVars
<1>1. CASE LookAtLock(p) \/ UnlinkStaleLock(p) \/ ExtractReads(p) \/ Prepare(p) \/ ClearRequest(p)
      BY <1>1 DEF LookAtLock, UnlinkStaleLock, ExtractReads, Prepare, ClearRequest
<1>2. CASE CreateLock(p) \/ ReleaseLock(p) \/ Crash(p)
      BY <1>2 DEF CreateLock, ReleaseLock, Crash, Continues, Ends
<1>3. CASE ExtractWrites(p) \/ ExtractFindsNothing(p) \/ Import(p)
      BY <1>3 DEF ExtractWrites, ExtractFindsNothing, Import, Continues, Ends
<1>4. CASE ExtractFails(p) \/ Load(p) \/ ImportFails(p)
      BY <1>4 DEF ExtractFails, Load, ImportFails, GivesUp, Continues, Ends
<1>. QED  BY <1>1, <1>2, <1>3, <1>4

LEMMA AloneBegins ==
    ASSUME Types, AloneInv, NEW p \in Procs, NEW o \in Syncs \cup Commands, Begins(p, o)
    PROVE  AloneInv'
<1> SUFFICES ASSUME ~met', NEW r \in Procs, op'[r] \in Commands, pc'[r] # "idle",
                    NEW q \in Procs \ {r}
             PROVE  pc'[q] = "idle"
    BY DEF AloneInv
<1>1. \E l \in Labels : pc' = [pc EXCEPT ![p] = l]
      BY DEF Begins, Goto, Labels, Syncs, Commands
<1>2. op' = [op EXCEPT ![p] = o] /\ pc[p] = "idle"
      BY DEF Begins, At
<1>3. ~met /\ \A z \in Procs \ {p} : pc[z] = "idle" \/ {o, op[z]} \cap Commands = {}
      BY DEF Begins, At
<1>4. CASE r = p
      BY <1>1, <1>2, <1>3, <1>4 DEF Types, Locals
<1>5. CASE r # p
      <2>1. op[r] \in Commands /\ pc[r] # "idle"
            BY <1>1, <1>2, <1>5 DEF Types, Locals
      <2>. QED  BY <2>1, <1>3, <1>5
<1>. QED  BY <1>4, <1>5

LEMMA AloneStep == Types /\ AloneInv /\ Step => AloneInv'
<1> SUFFICES ASSUME Types, AloneInv, Step PROVE AloneInv'
    OBVIOUS
<1>1. CASE Edit \/ Request \/ WatchRequests \/ LockAges
      BY <1>1 DEF Edit, Request, WatchRequests, LockAges, envVars, AloneInv
<1>2. ASSUME NEW p \in Procs, NEW o \in Syncs \cup Commands, Begins(p, o) PROVE AloneInv'
      BY <1>2, AloneBegins
<1>3. ASSUME NEW p \in Procs, Moves(p) PROVE AloneInv'
      BY <1>3 DEF Moves, AloneInv, Types, Locals, Commands
<1>4. CASE SchedulerStarts
      BY <1>2, <1>4 DEF SchedulerStarts, Procs, Syncs
<1>5. ASSUME NEW p \in Others, NEW o \in Syncs \cup Commands, CommandStarts(p, o)
      PROVE  AloneInv'
      BY <1>2, <1>5 DEF CommandStarts, Procs
<1>6. ASSUME NEW p \in Others, SessionEndStarts(p) PROVE AloneInv'
      BY <1>2, <1>6 DEF SessionEndStarts, Procs, Syncs
<1>7. ASSUME NEW p \in Procs,
             \/ LookAtLock(p) \/ UnlinkStaleLock(p) \/ CreateLock(p) \/ ReleaseLock(p)
             \/ ExtractReads(p) \/ ExtractWrites(p) \/ ExtractFindsNothing(p) \/ ExtractFails(p)
             \/ Prepare(p) \/ Load(p) \/ Import(p) \/ ImportFails(p) \/ ClearRequest(p)
             \/ Crash(p)
      PROVE  AloneInv'
      BY <1>3, <1>7, ActMoves
<1>. QED  BY <1>1, <1>4, <1>5, <1>6, <1>7 DEF Step

LEMMA PastStep == Types /\ PastInv /\ Step => PastInv'
<1> SUFFICES ASSUME Types /\ PastInv, Step PROVE PastInv'
    OBVIOUS
<1> USE Bounds DEF Types, Numbers, PastInv, Procs
<1>1. CASE Edit
      BY <1>1 DEF Edit, diskVars, lockVars
<1>2. CASE Request
      BY <1>2 DEF Request, diskVars, lockVars
<1>3. CASE WatchRequests
      BY <1>3 DEF WatchRequests, envVars, diskVars, lockVars
<1>4. CASE SchedulerStarts
      BY <1>4 DEF SchedulerStarts, diskVars, lockVars
<1>5. CASE LockAges
      BY <1>5 DEF LockAges, Inside, envVars, diskVars
<1>6. ASSUME NEW p \in Procs, LookAtLock(p) PROVE PastInv'
      BY <1>6 DEF LookAtLock, At, Goto, envVars, diskVars, lockVars
<1>7. ASSUME NEW p \in Procs, UnlinkStaleLock(p) PROVE PastInv'
      BY <1>7 DEF UnlinkStaleLock, At, Goto, envVars, diskVars
<1>8. ASSUME NEW p \in Procs, CreateLock(p) PROVE PastInv'
      <2>1. /\ seen' = seen \/ seen' = [seen EXCEPT ![p] = Empty]
            /\ UNCHANGED <<source, file, db>>
            BY <1>8 DEF CreateLock, Continues, Ends, envVars, diskVars
      <2>. QED  BY <2>1 DEF Empty
<1>9. ASSUME NEW p \in Procs, ReleaseLock(p) PROVE PastInv'
      BY <1>9 DEF ReleaseLock, At, Ends, envVars, diskVars, Goto, Empty
<1>10. ASSUME NEW p \in Procs, ExtractReads(p) PROVE PastInv'
      BY <1>10 DEF ExtractReads, At, Goto, envVars, diskVars, lockVars
<1>11. ASSUME NEW p \in Procs, ExtractWrites(p) PROVE PastInv'
      BY <1>11 DEF ExtractWrites, At, Continues, Ends, envVars, lockVars, Goto, Empty
<1>12. ASSUME NEW p \in Procs, ExtractFindsNothing(p) PROVE PastInv'
      BY <1>12 DEF ExtractFindsNothing, At, Empty, Continues, Ends, envVars, lockVars,
        Goto
<1>13. ASSUME NEW p \in Procs, ExtractFails(p) PROVE PastInv'
      BY <1>13 DEF ExtractFails, At, GivesUp, envVars, diskVars, lockVars, Continues,
        Ends, Goto, Empty
<1>14. ASSUME NEW p \in Procs, Prepare(p) PROVE PastInv'
      BY <1>14 DEF Prepare, At, Goto, Empty, envVars, diskVars, lockVars
<1>15. ASSUME NEW p \in Procs, Load(p) PROVE PastInv'
      BY <1>15 DEF Load, At, Empty, GivesUp, Goto, envVars, diskVars, lockVars,
        Continues, Ends
<1>16. ASSUME NEW p \in Procs, Import(p) PROVE PastInv'
      BY <1>16 DEF Import, At, Imported, Continues, Ends, envVars, lockVars, Goto, Empty
<1>17. ASSUME NEW p \in Procs, ImportFails(p) PROVE PastInv'
      BY <1>17 DEF ImportFails, At, GivesUp, envVars, diskVars, lockVars, Continues,
        Ends, Goto, Empty
<1>18. ASSUME NEW p \in Procs, ClearRequest(p) PROVE PastInv'
      BY <1>18 DEF ClearRequest, At, Goto, envVars, diskVars, lockVars
<1>19. ASSUME NEW p \in Procs, Crash(p) PROVE PastInv'
      BY <1>19 DEF Crash, At, Ends, diskVars, lockVars, Goto, Empty
<1>20. ASSUME NEW p \in Others, NEW o \in Syncs \cup Commands, CommandStarts(p, o)
      PROVE  PastInv'
      BY <1>20 DEF CommandStarts, diskVars, lockVars
<1>21. ASSUME NEW p \in Others, SessionEndStarts(p) PROVE PastInv'
      BY <1>21 DEF SessionEndStarts, diskVars, lockVars
<1>. QED  BY <1>1, <1>2, <1>3, <1>4, <1>5, <1>6, <1>7, <1>8, <1>9, <1>10, <1>11, <1>12,
            <1>13, <1>14, <1>15, <1>16, <1>17, <1>18, <1>19, <1>20, <1>21 DEF Step

-----------------------------------------------------------------------------
\* A step that leaves the graphs alone, and what processes have in hand to write.
Steady ==
    /\ UNCHANGED <<file, newer, db>>
    /\ Apart' => Apart
    /\ \A q \in Procs : pc'[q] \in {"extracting", "import"} =>
                            pc[q] = pc'[q] /\ seen'[q] = seen[q]

LEMMA SteadyStep == GraphInv /\ Steady => GraphInv'
BY DEF GraphInv, Steady

\* p's step to l, when p does not come by it to a write.
LEMMA SteadyMove ==
    ASSUME Types, NEW p \in Procs, NEW l \in Labels \ {"extracting", "import"},
           pc' = [pc EXCEPT ![p] = l],
           seen' = seen \/ seen' = [seen EXCEPT ![p] = Empty],
           UNCHANGED <<file, newer, db, deaths>>, met => met'
    PROVE  Steady
BY DEF Steady, Types, Numbers, Locals, Apart

LEMMA SteadyBegins ==
    ASSUME Types, NEW p \in Procs, NEW o \in Syncs \cup Commands, Begins(p, o),
           UNCHANGED <<file, newer, db, deaths, seen>>
    PROVE  Steady
<1>1. \E l \in Labels \ {"extracting", "import"} : pc' = [pc EXCEPT ![p] = l]
      BY DEF Begins, Goto, Labels, Syncs, Commands
<1>2. met => met'
      BY DEF Begins
<1>. QED  BY <1>1, <1>2, SteadyMove

\* The steps that leave the graphs alone.
LEMMA SteadySteps ==
    ASSUME Types, NEW p \in Procs,
           \/ LookAtLock(p) \/ UnlinkStaleLock(p) \/ CreateLock(p) \/ ReleaseLock(p)
           \/ ExtractFails(p) \/ Prepare(p) \/ ImportFails(p) \/ ClearRequest(p)
    PROVE  Steady
<1> USE DEF Labels, Goto, envVars, diskVars
<1>1. CASE LookAtLock(p) \/ UnlinkStaleLock(p) \/ Prepare(p) \/ ClearRequest(p)
      <2>1. \E l \in Labels \ {"extracting", "import"} : pc' = [pc EXCEPT ![p] = l]
            BY <1>1 DEF LookAtLock, UnlinkStaleLock, Prepare, ClearRequest
      <2>2. UNCHANGED <<file, newer, db, deaths, seen, met>>
            BY <1>1 DEF LookAtLock, UnlinkStaleLock, Prepare, ClearRequest
      <2>. QED  BY <2>1, <2>2, SteadyMove
<1>2. CASE CreateLock(p) \/ ReleaseLock(p) \/ ExtractFails(p) \/ ImportFails(p)
      <2> USE DEF GivesUp, Continues, Ends
      <2>1. \E l \in Labels \ {"extracting", "import"} : pc' = [pc EXCEPT ![p] = l]
            BY <1>2 DEF CreateLock, ReleaseLock, ExtractFails, ImportFails
      <2>2. seen' = seen \/ seen' = [seen EXCEPT ![p] = Empty]
            BY <1>2 DEF CreateLock, ReleaseLock, ExtractFails, ImportFails
      <2>3. UNCHANGED <<file, newer, db, deaths, met>>
            BY <1>2 DEF CreateLock, ReleaseLock, ExtractFails, ImportFails
      <2>. QED  BY <2>1, <2>2, <2>3, SteadyMove
<1>. QED  BY <1>1, <1>2

\* Apart, while p works no other process is about to write.
LEMMA OthersIdle ==
    ASSUME Types, BareInv, LockInv, AloneInv, Apart,
           NEW p \in Procs, Works(p), NEW l \in Labels \ {"extracting", "import"},
           pc' = [pc EXCEPT ![p] = l],
           NEW q \in Procs
    PROVE  pc'[q] \notin {"extracting", "import"}
<1>1. CASE q = p
      BY <1>1 DEF Types, Locals
<1>2. CASE q # p
      BY <1>2, OneWorker DEF Works, Types, Locals
<1>. QED  BY <1>1, <1>2

LEMMA GraphStep == IInv /\ Step => GraphInv'
<1> SUFFICES ASSUME IInv, Step PROVE GraphInv'
    OBVIOUS
<1>0. Types /\ BareInv /\ LockInv /\ AloneInv /\ PastInv /\ GraphInv
      BY DEF IInv
<1>1. CASE Edit \/ Request \/ WatchRequests \/ LockAges
      BY <1>0, <1>1, SteadyStep
         DEF Edit, Request, WatchRequests, LockAges, envVars, diskVars, Steady, Apart
<1>2. CASE SchedulerStarts
      BY <1>0, <1>2, SteadyBegins, SteadyStep DEF SchedulerStarts, diskVars, Procs, Syncs
<1>3. ASSUME NEW p \in Others, NEW o \in Syncs \cup Commands, CommandStarts(p, o)
      PROVE  GraphInv'
      BY <1>0, <1>3, SteadyBegins, SteadyStep DEF CommandStarts, diskVars, Procs
<1>4. ASSUME NEW p \in Others, SessionEndStarts(p) PROVE GraphInv'
      BY <1>0, <1>4, SteadyBegins, SteadyStep DEF SessionEndStarts, diskVars, Procs, Syncs
<1>5. ASSUME NEW p \in Procs,
             \/ LookAtLock(p) \/ UnlinkStaleLock(p) \/ CreateLock(p) \/ ReleaseLock(p)
             \/ ExtractFails(p) \/ Prepare(p) \/ ImportFails(p) \/ ClearRequest(p)
      PROVE  GraphInv'
      BY <1>0, <1>5, SteadySteps, SteadyStep
<1>6. ASSUME NEW p \in Procs, ExtractReads(p) PROVE GraphInv'
      <2>1. /\ seen' = [seen EXCEPT ![p] = source]
            /\ pc' = [pc EXCEPT ![p] = "extracting"]
            /\ UNCHANGED <<file, newer, db, deaths, met>>
            BY <1>6 DEF ExtractReads, Goto, envVars, diskVars
      <2>2. db <= source
            BY <1>0 DEF PastInv
      <2>. QED  BY <1>0, <2>1, <2>2 DEF GraphInv, Apart, Types, Numbers, Locals
<1>7. ASSUME NEW p \in Procs, ExtractWrites(p) \/ ExtractFindsNothing(p) PROVE GraphInv'
      <2> SUFFICES ASSUME Apart' PROVE GraphInv'
          BY DEF GraphInv
      <2>1. /\ pc[p] = "extracting" /\ newer' = TRUE
            /\ UNCHANGED <<db, deaths, met>>
            /\ file' \in {seen[p], Empty}
            BY <1>7 DEF ExtractWrites, ExtractFindsNothing, At, envVars
      <2>2. \E l \in Labels \ {"extracting", "import"} : pc' = [pc EXCEPT ![p] = l]
            BY <1>7 DEF ExtractWrites, ExtractFindsNothing, Continues, Ends, Goto, Labels
      <2>3. Apart
            BY <2>1 DEF Apart
      <2>4. \A q \in Procs : pc'[q] \notin {"extracting", "import"}
            BY <1>0, <2>1, <2>2, <2>3, OthersIdle DEF Works
      <2>. QED  BY <1>0, <2>1, <2>3, <2>4 DEF GraphInv
<1>8. ASSUME NEW p \in Procs, Load(p) PROVE GraphInv'
      <2>0. UNCHANGED <<file, newer, db, deaths, met>>
            BY <1>8 DEF Load, envVars, diskVars
      <2>1. CASE file = Empty /\ db # Empty
            <3>1. /\ \E l \in Labels \ {"extracting", "import"} : pc' = [pc EXCEPT ![p] = l]
                  /\ seen' = seen \/ seen' = [seen EXCEPT ![p] = Empty]
                  BY <1>8, <2>1 DEF Load, GivesUp, Continues, Ends, Goto, Labels
            <3>. QED  BY <1>0, <2>0, <3>1, SteadyMove, SteadyStep
      <2>2. CASE ~(file = Empty /\ db # Empty)
            <3>1. /\ pc' = [pc EXCEPT ![p] = "import"]
                  /\ seen' = [seen EXCEPT ![p] = file]
                  BY <1>8, <2>2 DEF Load, Goto
            <3>2. Apart => db <= file
                  BY <1>0, <2>2 DEF GraphInv, Types, Numbers, Empty
            <3>. QED  BY <1>0, <2>0, <3>1, <3>2 DEF GraphInv, Apart, Types, Numbers, Locals
      <2>. QED  BY <2>1, <2>2
<1>9. ASSUME NEW p \in Procs, Import(p) PROVE GraphInv'
      <2> SUFFICES ASSUME Apart' PROVE GraphInv'
          BY DEF GraphInv
      <2>1. /\ pc[p] = "import" /\ newer' = FALSE /\ db' = seen[p]
            /\ UNCHANGED <<file, deaths, met>>
            BY <1>9 DEF Import, Imported, At, envVars
      <2>2. \E l \in Labels \ {"extracting", "import"} : pc' = [pc EXCEPT ![p] = l]
            BY <1>9 DEF Import, Continues, Ends, Goto, Labels
      <2>3. Apart
            BY <2>1 DEF Apart
      <2>4. \A q \in Procs : pc'[q] \notin {"extracting", "import"}
            BY <1>0, <2>1, <2>2, <2>3, OthersIdle DEF Works
      <2>5. seen[p] = file /\ file \in Nat
            BY <1>0, <2>1, <2>3, Bounds DEF GraphInv, Types, Numbers
      <2>. QED  BY <2>1, <2>4, <2>5 DEF GraphInv
<1>10. ASSUME NEW p \in Procs, Crash(p) PROVE GraphInv'
      BY <1>0, <1>10, CrashCounts DEF GraphInv, Apart
<1>. QED  BY <1>1, <1>2, <1>3, <1>4, <1>5, <1>6, <1>7, <1>8, <1>9, <1>10 DEF Step

-----------------------------------------------------------------------------
LEMMA Inductive == IInv /\ [Next]_vars => IInv'
<1> SUFFICES ASSUME IInv, [Next]_vars PROVE IInv'
    OBVIOUS
<1>1. CASE Next
      BY <1>1, NextStep, NumbersStep, FlagsStep, LocalsStep, BareStep, LockStep, AloneStep,
         PastStep, GraphStep DEF IInv, Types
<1>2. CASE vars' = vars
      <2>1. UNCHANGED <<source, edited, ops, deaths, met, flag>>
            BY <1>2 DEF vars, envVars
      <2>2. UNCHANGED <<file, newer, db, lock, aged, pc, op, seen>>
            BY <1>2 DEF vars, diskVars, lockVars
      <2>3. Types' /\ BareInv' /\ AloneInv' /\ PastInv'
            BY <2>1, <2>2 DEF IInv, Types, Numbers, Flags, Locals, BareInv, AloneInv, PastInv
      <2>4. LockInv' /\ GraphInv'
            BY <2>1, <2>2 DEF IInv, LockInv, GraphInv, Inside, Apart
      <2>. QED  BY <2>3, <2>4 DEF IInv
<1>. QED  BY <1>1, <1>2

LEMMA Invariance == Spec => []IInv
BY InitInv, Inductive, PTL DEF Spec

\* While the processes keep apart, an import puts in place what is in the file,
\* and that is no older than what was there; nothing else writes the database.
LEMMA Kept == IInv /\ Next => (Apart => db' >= db)
<1> SUFFICES ASSUME IInv, Next, Apart PROVE db' >= db
    OBVIOUS
<1>0. Types /\ GraphInv
      BY DEF IInv
<1>1. db \in Nat
      BY <1>0, Bounds DEF Types, Numbers
<1>2. CASE db' = db
      BY <1>1, <1>2
<1>3. ASSUME NEW p \in Procs, Import(p) PROVE db' >= db
      <2>1. db' = seen[p] /\ pc[p] = "import" /\ seen[p] \in Nat
            BY <1>0, <1>3, Bounds DEF Import, Imported, At, Types, Numbers
      <2>. QED  BY <1>0, <1>1, <2>1 DEF GraphInv
<1>4. CASE \A p \in Procs : ~Import(p)
      BY <1>2, <1>4, NextStep
         DEF Step, Edit, Request, WatchRequests, SchedulerStarts, LockAges, LookAtLock,
             UnlinkStaleLock, CreateLock, ReleaseLock, ExtractReads, ExtractWrites,
             ExtractFindsNothing, ExtractFails, Prepare, Load, ImportFails, ClearRequest,
             Crash, CommandStarts, SessionEndStarts, diskVars
<1>. QED  BY <1>3, <1>4

\* Every variable keeps its type, and until a process dies the lock file says
\* who is inside sync_graph.
THEOREM TypeCorrect == Spec => []TypeOK
<1>1. IInv => TypeOK
      <2> SUFFICES ASSUME IInv PROVE TypeOK
          OBVIOUS
      <2>1. Numbers /\ Flags /\ Locals /\ LockInv
            BY DEF IInv, Types
      <2>. QED  BY <2>1 DEF Numbers, Flags, Locals, LockInv, Labels, TypeOK
<1>. QED  BY <1>1, Invariance, PTL

\* Until a process dies at it, no two processes are inside sync_graph at once.
THEOREM OneSyncerHolds == Spec => []OneSyncer
<1>1. IInv => OneSyncer
      BY DEF IInv, LockInv, OneSyncer
<1>. QED  BY <1>1, Invariance, PTL

\* While the processes keep apart, a graph.json that is not the database's
\* graph is reported newer.
THEOREM StalenessNeverHidden == Spec => []StalenessSeen
<1>1. IInv => StalenessSeen
      BY DEF IInv, GraphInv, StalenessSeen
<1>. QED  BY <1>1, Invariance, PTL

\* While the processes keep apart, no import loses code graph: whatever is
\* imported is no older than what it replaces, and never empty in its place.
THEOREM GraphNeverLost == Spec => GraphKept
<1>1. IInv /\ [Next]_vars => [Apart => db' >= db]_vars
      BY Kept
<1>. QED  BY <1>1, Invariance, PTL DEF Spec, GraphKept
=============================================================================
