--------------------------- MODULE SyncScheduler ---------------------------
(***************************************************************************)
(* GraphSyncScheduler: the MCP server's background refresh of the code     *)
(* graph, in discrete time.                                                *)
(*                                                                         *)
(* Hooks raise a request flag; a polling thread that sees it arms a        *)
(* debounce timer, cancelling the one it armed before; the timer's thread  *)
(* runs one extract and import unless one is in progress or the last good  *)
(* import is too recent.  Threads are taken to be prompt: one whose        *)
(* deadline has come acts before time passes, so what this module shows    *)
(* late is the code's doing.  Two timer threads are at least Debounce      *)
(* apart, so the test and the setting of _sync_in_progress are one step.   *)
(***************************************************************************)
EXTENDS Integers

CONSTANTS
    Poll,        \* POLL_INTERVAL_SECONDS
    Debounce,    \* auto_sync.debounce_seconds
    MinInterval, \* auto_sync.min_interval_seconds
    MaxSync      \* the longest extract and import: the extract's timeout

ASSUME TimeAssumption ==
    /\ Poll \in Nat \ {0} /\ Debounce \in Nat \ {0}
    /\ MinInterval \in Nat \ {0} /\ MaxSync \in Nat

Off == -1
AgeCap == Poll + Debounce + MinInterval  \* the bound of a history that counts

VARIABLES
    up,         \* the server runs its scheduler
    flag,       \* .brain/graph_sync.requested exists
    poll,       \* time until the polling thread looks again
    timer,      \* time until the debounce timer fires, or Off
    inProgress, \* _sync_in_progress
    left,       \* time the running sync has left at most, or Off
    since,      \* time since the last completed import, up to MinInterval
    age         \* history: how long the flag stood, the server up, no sync
                \* running and nothing imported

vars == <<up, flag, poll, timer, inProgress, left, since, age>>

Init ==
    /\ up = FALSE /\ flag \in BOOLEAN
    /\ poll = 0 /\ timer = Off
    /\ inProgress = FALSE /\ left = Off
    /\ since \in 0..MinInterval /\ age = 0

-----------------------------------------------------------------------------
\* start(): the polling thread looks at once; the startup sync is armed when
\* the flag stands or the graph is missing, old or behind its file.
Start(stale) ==
    /\ ~up
    /\ up' = TRUE
    /\ poll' = 0
    /\ timer' = IF flag \/ stale THEN Debounce ELSE Off
    /\ UNCHANGED <<flag, inProgress, left, since, age>>

\* Faulty form: a sync in progress outlives the server.
DownLeavesSync ==
    /\ up
    /\ up' = FALSE /\ timer' = Off /\ poll' = 0 /\ age' = 0
    /\ UNCHANGED <<flag, inProgress, left, since>>

\* A sync cut short may have committed its import, not yet cleared the flag.
CutShort == (left # Off /\ since' = 0) \/ UNCHANGED since

\* The server stops or dies; stop() does not wait for a sync, whose thread is
\* a daemon and dies with the process.
Down ==
    /\ up
    /\ up' = FALSE /\ timer' = Off /\ poll' = 0 /\ age' = 0
    /\ inProgress' = FALSE /\ left' = Off
    /\ CutShort
    /\ UNCHANGED flag

\* request_graph_sync, from PostToolUse, a stale read or the file watcher.
Request ==
    /\ flag' = TRUE
    /\ UNCHANGED <<up, poll, timer, inProgress, left, since, age>>

\* Another process (the command line, SessionEnd) completes a sync.
SyncElsewhere ==
    /\ flag' = FALSE /\ since' = 0 /\ age' = 0
    /\ UNCHANGED <<up, poll, timer, inProgress, left>>

\* `graph import`, or a sync elsewhere that dies between its import and the
\* clearing of the flag: the request stands and the interval begins anew.
ImportElsewhere ==
    /\ since' = 0 /\ age' = 0
    /\ UNCHANGED <<up, flag, poll, timer, inProgress, left>>

\* Faulty form: the thread sleeps the debounce out before it polls on.
PollAfterDebounce ==
    /\ up /\ poll = 0
    /\ poll' = Poll + Debounce
    /\ timer' = IF flag THEN Debounce ELSE timer
    /\ UNCHANGED <<up, flag, inProgress, left, since, age>>

\* _poll_loop: a standing flag arms the timer anew, every time.
PollWakes ==
    /\ up /\ poll = 0
    /\ poll' = Poll
    /\ timer' = IF flag THEN Debounce ELSE timer
    /\ UNCHANGED <<up, flag, inProgress, left, since, age>>

\* fire and _run_sync_if_allowed
Fire ==
    /\ up /\ timer = 0
    /\ timer' = Off
    /\ IF ~inProgress /\ since >= MinInterval
       THEN inProgress' = TRUE /\ left' = MaxSync /\ age' = 0
       ELSE UNCHANGED <<inProgress, left, age>>
    /\ UNCHANGED <<up, flag, poll, since>>

SyncCompletes ==
    /\ left # Off
    /\ flag' = FALSE /\ since' = 0 /\ age' = 0
    /\ inProgress' = FALSE /\ left' = Off
    /\ UNCHANGED <<up, poll, timer>>

\* Faulty form: no finally clause.
SyncFailsInProgress ==
    /\ left # Off
    /\ left' = Off
    /\ UNCHANGED <<up, flag, poll, timer, inProgress, since, age>>

\* The extract fails or times out, the graph is empty, the lock is taken, or
\* something fails once the import is committed.
SyncFails ==
    /\ left # Off
    /\ inProgress' = FALSE /\ left' = Off
    /\ CutShort
    /\ UNCHANGED <<up, flag, poll, timer, age>>

-----------------------------------------------------------------------------
\* A unit of time passes; nobody is due.
Tick ==
    /\ up => poll > 0 /\ timer # 0
    /\ left # 0
    /\ poll' = IF up THEN poll - 1 ELSE poll
    /\ timer' = IF timer > 0 THEN timer - 1 ELSE timer
    /\ left' = IF left > 0 THEN left - 1 ELSE left
    /\ since' = IF since < MinInterval THEN since + 1 ELSE since
    /\ age' = IF up /\ flag /\ ~inProgress /\ age < AgeCap THEN age + 1 ELSE age
    /\ UNCHANGED <<up, flag, inProgress>>

Next ==
    \/ \E stale \in BOOLEAN : Start(stale)
    \/ Down \/ Request \/ SyncElsewhere \/ ImportElsewhere
    \/ PollWakes \/ Fire \/ SyncCompletes \/ SyncFails
    \/ Tick

Spec == Init /\ [][Next]_vars

\* The threads run and time passes; syncs tried for ever do not fail for ever.
FairSpec ==
    /\ Spec
    /\ WF_vars(PollWakes) /\ WF_vars(Fire) /\ WF_vars(Tick)
    /\ WF_vars(SyncCompletes \/ SyncFails) /\ SF_vars(SyncCompletes)

-----------------------------------------------------------------------------
\* Every variable keeps its type; a sync runs only in a server that is up
\* and has marked it in progress.
TypeOK ==
    /\ up \in BOOLEAN /\ flag \in BOOLEAN /\ inProgress \in BOOLEAN
    /\ poll \in 0..Poll
    /\ timer \in Off..Debounce
    /\ left \in Off..MaxSync
    /\ since \in 0..MinInterval
    /\ age \in 0..AgeCap
    /\ left # Off => inProgress /\ up

\* A request starts a sync soon, for a debounce below the poll (the shipped
\* one is not): however requests, failed syncs and restarts fall, the flag never
\* stands, with the server up and no sync running, for longer than a poll and
\* the longer of the debounce and the minimum interval, counted from the request
\* or from the last import that left it standing.
ServedInTime ==
    age <= Poll + Debounce \/ age < Poll + MinInterval

\* The graph stays roughly current: a request, the server staying up, is
\* served, unless imports that leave it standing begin the interval anew for
\* ever.  Holds when Debounce < Poll; refuted for the shipped values.
RequestServed ==
    <>[][~ImportElsewhere]_vars => (flag /\ up ~> ~flag \/ ~up)
=============================================================================
