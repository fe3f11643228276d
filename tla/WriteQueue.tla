----------------------------- MODULE WriteQueue -----------------------------
(***************************************************************************)
(* The single-writer queue of services/write_queue.py: MCP tool handlers   *)
(* hand a blocking callable to run(), an asyncio worker task takes the     *)
(* callables in turn and executes each in a thread, retrying when SQLite   *)
(* reports a lock.  The queue object is process-global and outlives the    *)
(* event loop it was started on.                                           *)
(*                                                                         *)
(* Atomicity is asyncio's: the code between two suspension points is one   *)
(* step.  run() suspends only on its future, so starting the worker,       *)
(* creating the future and enqueueing are one action.  The job itself runs *)
(* in a thread, so each attempt has a beginning and an end.                *)
(*                                                                         *)
(* The owner of the queue (server.py, run_blocking) calls stop() on the    *)
(* loop it started the queue on, when no caller waits, and the queue is    *)
(* used again only after stop() has returned; or the loop ends without     *)
(* stop(), cancelling every task, and the queue is used from another loop. *)
(* The guards on started and stopping say this and nothing more.           *)
(***************************************************************************)
EXTENDS Naturals, Sequences, FiniteSets

CONSTANTS Callers,      \* tool calls; each makes one call of run()
          Workers,      \* identities of worker tasks, reused once done
          MultiCommit,  \* callers whose job commits more than once (checkpoint)
          MaxAttempts,  \* _MAX_RETRIES
          Nil           \* the sentinel None; also "no worker", "no item"

ASSUME QueueAssumption ==
    /\ MultiCommit \subseteq Callers
    /\ MaxAttempts \in Nat \ {0}
    /\ Nil \notin Callers
    /\ Nil \notin Workers

VARIABLES
    queue,       \* self._queue: callers' items and the sentinel
    bound,       \* the loop self._queue is bound to: "none", "this", "other"
    workerTask,  \* self._worker_task
    pc,          \* where each worker task is
    item,        \* the caller whose job a worker holds
    attempt,     \* attempts made at that job
    verdict,     \* how the job's last attempt ended
    fut,         \* the future of each caller's run()
    started,     \* the owner has started the queue on this loop
    stopping,    \* stop() awaits the worker task
    loopOpen,    \* the event loop runs (FALSE: it is shutting down)
    accepted,    \* history: callers in the order run() enqueued them
    begun,       \* history: callers whose job was handed to a thread
    applied      \* history: committed executions of each caller's job

queueVars == <<queue, bound>>
workerVars == <<workerTask, pc, item, attempt, verdict>>
history == <<accepted, begun, applied>>
ownerVars == <<started, stopping, loopOpen>>
vars == <<queueVars, workerVars, fut, ownerVars, history>>

WorkerPC == {"off",       \* never created, or done
             "new",       \* created, not yet scheduled
             "wait",      \* suspended in get() on an empty queue
             "stuck",     \* suspended in get() of a queue since dropped
             "running",   \* an attempt executes in the thread
             "backoff",   \* the thread sleeps before the next attempt
             "returned"}  \* the thread is done, the task has yet to resume

InThread(w) == pc[w] \in {"running", "backoff"}
Busy(w) == InThread(w) \/ pc[w] = "returned"

\* Faulty forms of HasLiveWorker: any task left behind counts as live; only
\* an idle task does.
HasTask == workerTask # Nil
HasIdleWorker == workerTask # Nil /\ pc[workerTask] = "wait"

HasLiveWorker == workerTask # Nil /\ pc[workerTask] # "off"

Init ==
    /\ queue = <<>> /\ bound = "none"
    /\ workerTask = Nil
    /\ pc = [w \in Workers |-> "off"]
    /\ item = [w \in Workers |-> Nil]
    /\ attempt = [w \in Workers |-> 0]
    /\ verdict = [w \in Workers |-> "none"]
    /\ fut = [c \in Callers |-> "none"]
    /\ started = FALSE /\ stopping = FALSE /\ loopOpen = TRUE
    /\ accepted = <<>> /\ begun = {}
    /\ applied = [c \in Callers |-> 0]

-----------------------------------------------------------------------------
(* start(): keep a live worker, else drop what a dead one left behind and  *)
(* create a task; then append items, which never suspends.                 *)
CreateWorker == \E w \in Workers : /\ pc[w] = "off"
                                  /\ pc' = [pc EXCEPT ![w] = "new"]
                                  /\ workerTask' = w

\* _discard_stale_worker: a task still waiting on the old queue is stuck.
DiscardAndCreate ==
    \E w \in Workers :
        /\ pc[w] = "off"
        /\ pc' = [v \in Workers |-> IF v = w THEN "new"
                                    ELSE IF pc[v] = "wait" THEN "stuck" ELSE pc[v]]
        /\ workerTask' = w

\* Faulty form: the newcomer is served first.
StartThenPush(items) ==
    \/ /\ HasLiveWorker
       /\ queue' = items \o queue
       /\ UNCHANGED <<bound, workerTask, pc>>
    \/ /\ workerTask = Nil
       /\ queue' = items \o queue
       /\ CreateWorker
       /\ UNCHANGED bound
    \/ /\ workerTask # Nil /\ ~HasLiveWorker
       /\ queue' = items /\ bound' = "none"
       /\ DiscardAndCreate

StartThenPut(items) ==
    \/ /\ HasLiveWorker
       /\ queue' = queue \o items
       /\ UNCHANGED <<bound, workerTask, pc>>
    \/ /\ workerTask = Nil
       /\ queue' = queue \o items
       /\ CreateWorker
       /\ UNCHANGED bound
    \/ /\ workerTask # Nil /\ ~HasLiveWorker
       /\ queue' = items /\ bound' = "none"
       /\ DiscardAndCreate

Run(c) ==
    /\ loopOpen /\ ~stopping
    /\ fut[c] = "none"
    /\ StartThenPut(<<c>>)
    /\ fut' = [fut EXCEPT ![c] = "pending"]
    /\ accepted' = Append(accepted, c)
    /\ started' = TRUE
    /\ UNCHANGED <<item, attempt, verdict, stopping, loopOpen, begun, applied>>

\* server.py and run_blocking start the queue before anything is enqueued.
Start ==
    /\ loopOpen /\ ~stopping
    /\ ~HasLiveWorker
    /\ StartThenPut(<<>>)
    /\ started' = TRUE
    /\ UNCHANGED <<item, attempt, verdict, fut, stopping, loopOpen, history>>

\* The task awaiting run() is cancelled; the queued job is not withdrawn.
Cancel(c) ==
    /\ loopOpen
    /\ fut[c] = "pending"
    /\ fut' = [fut EXCEPT ![c] = "cancelled"]
    /\ UNCHANGED <<queueVars, workerVars, ownerVars, history>>

-----------------------------------------------------------------------------
(* The top of _worker's loop, up to the next suspension: take the head of  *)
(* the queue and hand it to a thread, leave on the sentinel, or wait.  An  *)
(* asyncio.Queue is bound to the first loop that waits on it; waiting on   *)
(* it from another one raises, and the task ends.                          *)
Holds(w, c, n) ==
    /\ item' = [item EXCEPT ![w] = c]
    /\ attempt' = [attempt EXCEPT ![w] = n]
    /\ verdict' = [verdict EXCEPT ![w] = "none"]

Remove(q, i) == SubSeq(q, 1, i - 1) \o SubSeq(q, i + 1, Len(q))

\* Faulty form: a worker with several jobs to choose from takes the second.
TakeSecond(w) ==
    LET i == IF Len(queue) > 1 THEN 2 ELSE 1 IN
    \/ /\ queue # <<>> /\ queue[i] # Nil
       /\ queue' = Remove(queue, i)
       /\ pc' = [pc EXCEPT ![w] = "running"]
       /\ Holds(w, queue[i], 1)
       /\ begun' = begun \cup {queue[i]}
       /\ UNCHANGED bound
    \/ /\ queue = <<>>
       /\ pc' = [pc EXCEPT ![w] = "wait"]
       /\ bound' = "this"
       /\ Holds(w, Nil, 0)
       /\ UNCHANGED <<queue, begun>>

TakeNext(w) ==
    \/ /\ queue # <<>> /\ Head(queue) # Nil
       /\ queue' = Tail(queue)
       /\ pc' = [pc EXCEPT ![w] = "running"]
       /\ Holds(w, Head(queue), 1)
       /\ begun' = begun \cup {Head(queue)}
       /\ UNCHANGED bound
    \/ /\ queue # <<>> /\ Head(queue) = Nil
       /\ queue' = Tail(queue)
       /\ pc' = [pc EXCEPT ![w] = "off"]
       /\ Holds(w, Nil, 0)
       /\ UNCHANGED <<bound, begun>>
    \/ /\ queue = <<>>
       /\ pc' = [pc EXCEPT ![w] = IF bound = "other" THEN "off" ELSE "wait"]
       /\ bound' = IF bound = "other" THEN bound ELSE "this"
       /\ Holds(w, Nil, 0)
       /\ UNCHANGED <<queue, begun>>

\* The task's first step, or its wake-up by a put.
WorkerGets(w) ==
    /\ loopOpen
    /\ pc[w] = "new" \/ (pc[w] = "wait" /\ queue # <<>>)
    /\ TakeNext(w)
    /\ UNCHANGED <<workerTask, fut, ownerVars, accepted, applied>>

\* Faulty form: an exception reaches nobody.
DeliverResultOnly(w) ==
    /\ loopOpen
    /\ pc[w] = "returned"
    /\ fut' = IF fut[item[w]] = "pending" /\ verdict[w] = "result"
              THEN [fut EXCEPT ![item[w]] = "result"] ELSE fut
    /\ TakeNext(w)
    /\ UNCHANGED <<workerTask, ownerVars, accepted, applied>>

\* The task resumes after to_thread, answers, and goes round its loop.
Deliver(w) ==
    /\ loopOpen
    /\ pc[w] = "returned"
    /\ fut' = IF fut[item[w]] = "pending"
              THEN [fut EXCEPT ![item[w]] = verdict[w]] ELSE fut
    /\ TakeNext(w)
    /\ UNCHANGED <<workerTask, ownerVars, accepted, applied>>

-----------------------------------------------------------------------------
(* _run_with_retry, in the thread.  When the loop shuts down it waits for  *)
(* the thread, but nobody resumes the cancelled task.                      *)
ThreadEnds(w, v) ==
    IF loopOpen
    THEN /\ pc' = [pc EXCEPT ![w] = "returned"]
         /\ verdict' = [verdict EXCEPT ![w] = v]
         /\ UNCHANGED <<item, attempt>>
    ELSE /\ pc' = [pc EXCEPT ![w] = "off"]
         /\ Holds(w, Nil, 0)

Commits(c, n) == applied' = [applied EXCEPT ![c] = @ + n]

\* Faulty form: every job is retried after it has committed.
AnyCommits(c) == {0, 1}

\* What an attempt that raises has committed before it did: nothing, unless
\* the job commits on the way.
PartialCommits(c) == IF c \in MultiCommit THEN {0, 1} ELSE {0}

AttemptOk(w) ==
    /\ pc[w] = "running"
    /\ Commits(item[w], 1)
    /\ ThreadEnds(w, "result")
    /\ UNCHANGED <<queueVars, workerTask, fut, ownerVars, accepted, begun>>

\* Faulty form: one attempt too many.
AttemptLockedOnceMore(w) ==
    /\ pc[w] = "running"
    /\ \E n \in PartialCommits(item[w]) : Commits(item[w], n)
    /\ IF attempt[w] <= MaxAttempts
       THEN /\ pc' = [pc EXCEPT ![w] = "backoff"]
            /\ UNCHANGED <<item, attempt, verdict>>
       ELSE ThreadEnds(w, "error")
    /\ UNCHANGED <<queueVars, workerTask, fut, ownerVars, accepted, begun>>

AttemptLocked(w) ==
    /\ pc[w] = "running"
    /\ \E n \in PartialCommits(item[w]) : Commits(item[w], n)
    /\ IF attempt[w] < MaxAttempts
       THEN /\ pc' = [pc EXCEPT ![w] = "backoff"]
            /\ UNCHANGED <<item, attempt, verdict>>
       ELSE ThreadEnds(w, "error")
    /\ UNCHANGED <<queueVars, workerTask, fut, ownerVars, accepted, begun>>

AttemptFails(w) ==
    /\ pc[w] = "running"
    /\ \E n \in PartialCommits(item[w]) : Commits(item[w], n)
    /\ ThreadEnds(w, "error")
    /\ UNCHANGED <<queueVars, workerTask, fut, ownerVars, accepted, begun>>

Retry(w) ==
    /\ pc[w] = "backoff"
    /\ pc' = [pc EXCEPT ![w] = "running"]
    /\ attempt' = [attempt EXCEPT ![w] = @ + 1]
    /\ UNCHANGED <<queueVars, workerTask, item, verdict, fut, ownerVars, history>>

-----------------------------------------------------------------------------
\* Faulty form: the worker is awaited without being told to leave.
StopWithoutSentinel ==
    /\ loopOpen /\ ~stopping
    /\ \A c \in Callers : fut[c] # "pending"
    /\ started /\ HasLiveWorker
    /\ stopping' = TRUE
    /\ UNCHANGED <<queueVars, workerVars, fut, started, loopOpen, history>>

\* stop(), up to its await of the worker task.
Stop ==
    /\ loopOpen /\ ~stopping
    /\ \A c \in Callers : fut[c] # "pending"
    /\ started /\ workerTask # Nil
    /\ IF HasLiveWorker
       THEN /\ queue' = Append(queue, Nil)
            /\ stopping' = TRUE
            /\ UNCHANGED <<workerTask, started>>
       ELSE /\ workerTask' = Nil
            /\ started' = FALSE
            /\ UNCHANGED <<queue, stopping>>
    /\ UNCHANGED <<bound, pc, item, attempt, verdict, fut, loopOpen, history>>

\* stop() resumes once the worker task is done.
StopReturns ==
    /\ loopOpen /\ stopping
    /\ ~HasLiveWorker
    /\ workerTask' = Nil
    /\ stopping' = FALSE /\ started' = FALSE
    /\ UNCHANGED <<queueVars, pc, item, attempt, verdict, fut, loopOpen, history>>

\* The loop ends without stop(): every task on it is cancelled.
CloseLoop ==
    /\ loopOpen
    /\ loopOpen' = FALSE
    /\ stopping' = FALSE /\ started' = FALSE
    /\ fut' = [c \in Callers |-> IF fut[c] = "pending" THEN "cancelled" ELSE fut[c]]
    /\ pc' = [w \in Workers |-> IF InThread(w) THEN pc[w] ELSE "off"]
    /\ item' = [w \in Workers |-> IF InThread(w) THEN item[w] ELSE Nil]
    /\ attempt' = [w \in Workers |-> IF InThread(w) THEN attempt[w] ELSE 0]
    /\ verdict' = [w \in Workers |-> "none"]
    /\ UNCHANGED <<queueVars, workerTask, history>>

\* Another loop starts in the same process; the queue object is still there.
OpenLoop ==
    /\ ~loopOpen
    /\ \A w \in Workers : pc[w] = "off"
    /\ loopOpen' = TRUE
    /\ bound' = IF bound = "this" THEN "other" ELSE bound
    /\ UNCHANGED <<queue, workerVars, fut, started, stopping, history>>

CallerStep(c) == Run(c) \/ Cancel(c)

WorkerStep(w) ==
    \/ WorkerGets(w) \/ Deliver(w)
    \/ AttemptOk(w) \/ AttemptLocked(w) \/ AttemptFails(w) \/ Retry(w)

OwnerStep == Start \/ Stop \/ StopReturns \/ CloseLoop \/ OpenLoop

Next ==
    \/ \E c \in Callers : CallerStep(c)
    \/ \E w \in Workers : WorkerStep(w)
    \/ OwnerStep

\* The event loop resumes ready tasks and a thread's attempt ends (SQLite's
\* busy_timeout bounds it).  Nothing obliges callers or the owner to act.
Fairness ==
    /\ \A w \in Workers : WF_vars(WorkerStep(w))
    /\ WF_vars(StopReturns)

Spec == Init /\ [][Next]_vars
FairSpec == Spec /\ Fairness

-----------------------------------------------------------------------------
\* Every variable keeps its type; the worker's own variables are in range
\* for any number of callers, restarts and retries.
TypeOK ==
    /\ queue \in Seq(Callers \cup {Nil})
    /\ bound \in {"none", "this", "other"}
    /\ workerTask \in Workers \cup {Nil}
    /\ pc \in [Workers -> WorkerPC]
    /\ item \in [Workers -> Callers \cup {Nil}]
    /\ attempt \in [Workers -> 0 .. MaxAttempts]
    /\ verdict \in [Workers -> {"none", "result", "error"}]
    /\ fut \in [Callers -> {"none", "pending", "result", "error", "cancelled"}]
    /\ started \in BOOLEAN /\ stopping \in BOOLEAN /\ loopOpen \in BOOLEAN
    /\ accepted \in Seq(Callers)
    /\ begun \subseteq Callers
    /\ applied \in [Callers -> Nat]

\* No two jobs are in threads at once, whatever was stopped, closed, dropped
\* and restarted before: the single writer the class promises.
Serialized == \A v, w \in Workers : InThread(v) /\ InThread(w) => v = w

\* A job begins only when each job accepted before it has begun, or belonged
\* to a loop that closed before its turn came.
Queued(c) == \E i \in 1 .. Len(queue) : queue[i] = c

NoOvertaking ==
    \A i, j \in 1 .. Len(accepted) :
        i < j /\ accepted[j] \in begun =>
            \/ accepted[i] \in begun
            \/ fut[accepted[i]] = "cancelled" /\ ~Queued(accepted[i])

\* A caller that waits is one whose job will be reached: a live worker on the
\* open loop holds the job, or reads the queue the job is in and meets no
\* sentinel before it (the hang that _has_live_worker's docstring rules out).
NeverStranded ==
    \A c \in Callers : fut[c] = "pending" =>
        /\ loopOpen
        /\ workerTask # Nil /\ pc[workerTask] \notin {"off", "stuck"}
        /\ \/ Busy(workerTask) /\ item[workerTask] = c
           \/ \E i \in 1 .. Len(queue) :
                 queue[i] = c /\ \A k \in 1 .. i : queue[k] # Nil

\* A job that commits once takes effect at most once however often it is
\* retried, and what its caller is told is what happened.
AtMostOnce ==
    \A c \in Callers \ MultiCommit :
        /\ applied[c] <= 1
        /\ fut[c] = "result" => applied[c] = 1
        /\ fut[c] = "error" => applied[c] = 0

\* Every call of run() comes to an end.
CallersAnswered == \A c \in Callers : fut[c] = "pending" ~> fut[c] # "pending"

\* stop() comes to an end: the worker works off the queue and meets the
\* sentinel.
StopCompletes == stopping ~> ~stopping

-----------------------------------------------------------------------------
(* Refinement: the line is the current queue for as long as a live worker  *)
(* on an open loop reads it; the one served is the caller whose job a      *)
(* worker holds.                                                           *)
Jobs(q) ==  \* without the sentinel, which is last
    IF q # <<>> /\ q[Len(q)] = Nil THEN SubSeq(q, 1, Len(q) - 1) ELSE q

AbsLine == IF loopOpen /\ HasLiveWorker THEN Jobs(queue) ELSE <<>>

AbsServing ==
    IF \E w \in Workers : Busy(w)
    THEN <<item[CHOOSE w \in Workers : Busy(w)]>> ELSE <<>>

Executor == INSTANCE SerialExecutor
    WITH line <- AbsLine, serving <- AbsServing, outcome <- fut

\* The queue implements the serial executor.
ImplementsExecutor == Executor!Spec
=============================================================================
