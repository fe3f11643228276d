-------------------------- MODULE WriteQueueProofs --------------------------
(***************************************************************************)
(* Safety of the write queue for every set of callers and worker tasks and *)
(* every retry limit.  The inductive invariant has three layers: who may   *)
(* be alive and what the queue then holds (OwnerInv), how the order of     *)
(* acceptance is kept (OrderInv), and what has been committed (CommitInv). *)
(***************************************************************************)
EXTENDS WriteQueue, TLAPS

-----------------------------------------------------------------------------
\* Appending one item with \o, as StartThenPut does.
LEMMA ConcatOne ==
    ASSUME NEW S, NEW q \in Seq(S), NEW x \in S
    PROVE  /\ q \o <<x>> \in Seq(S)
           /\ Len(q \o <<x>>) = Len(q) + 1
           /\ \A i \in 1 .. Len(q) : (q \o <<x>>)[i] = q[i]
           /\ (q \o <<x>>)[Len(q) + 1] = x
OBVIOUS

\* Append, as stop() does.
LEMMA AppendOne ==
    ASSUME NEW S, NEW q \in Seq(S), NEW x \in S
    PROVE  /\ Len(q) \in Nat /\ Len(Append(q, x)) = Len(q) + 1
           /\ Append(q, x)[Len(q) + 1] = x
           /\ Append(q, x) # <<>>
           /\ \A i \in 1 .. Len(q) : Append(q, x)[i] = q[i]
OBVIOUS

\* Appending nothing.
LEMMA ConcatNone ==
    ASSUME NEW S, NEW q \in Seq(S)
    PROVE  q \o <<>> = q /\ <<>> \o q = q
OBVIOUS

\* What is left once the head is taken.
LEMMA TailFacts ==
    ASSUME NEW S, NEW q \in Seq(S), q # <<>>
    PROVE  /\ Len(q) \in Nat \ {0}
           /\ Head(q) = q[1] /\ Head(q) \in S
           /\ Tail(q) \in Seq(S) /\ Len(Tail(q)) = Len(q) - 1
           /\ \A i \in 1 .. Len(q) - 1 : Tail(q)[i] = q[i + 1]
OBVIOUS

-----------------------------------------------------------------------------
(* Type correctness.                                                       *)
LEMMA QueueTypeStep ==
    ASSUME TypeOK, NEW items \in Seq(Callers), StartThenPut(items)
    PROVE  /\ queue' \in Seq(Callers \cup {Nil})
           /\ bound' \in {"none", "this", "other"}
           /\ workerTask' \in Workers \cup {Nil}
           /\ pc' \in [Workers -> WorkerPC]
<1>1. items \in Seq(Callers \cup {Nil})
  OBVIOUS
<1>2. queue \o items \in Seq(Callers \cup {Nil})
  BY <1>1 DEF TypeOK
<1> QED
  BY <1>1, <1>2 DEF TypeOK, StartThenPut, CreateWorker, DiscardAndCreate, WorkerPC

\* Holds keeps the worker's three fields in their types.
LEMMA HoldsType ==
    ASSUME TypeOK, NEW w \in Workers, NEW c \in Callers \cup {Nil},
           NEW n \in 0 .. MaxAttempts, Holds(w, c, n)
    PROVE  /\ item' \in [Workers -> Callers \cup {Nil}]
           /\ attempt' \in [Workers -> 0 .. MaxAttempts]
           /\ verdict' \in [Workers -> {"none", "result", "error"}]
  BY DEF TypeOK, Holds

LEMMA TakeNextType ==
    ASSUME TypeOK, QueueAssumption, NEW w \in Workers, TakeNext(w)
    PROVE  /\ queue' \in Seq(Callers \cup {Nil})
           /\ bound' \in {"none", "this", "other"}
           /\ pc' \in [Workers -> WorkerPC]
           /\ item' \in [Workers -> Callers \cup {Nil}]
           /\ attempt' \in [Workers -> 0 .. MaxAttempts]
           /\ verdict' \in [Workers -> {"none", "result", "error"}]
           /\ begun' \subseteq Callers
<1>1. queue # <<>> => /\ Tail(queue) \in Seq(Callers \cup {Nil})
                      /\ Head(queue) \in Callers \cup {Nil}
  BY TailFacts DEF TypeOK
<1>2. 0 \in 0 .. MaxAttempts /\ 1 \in 0 .. MaxAttempts
  BY DEF QueueAssumption
<1>3. CASE queue # <<>> /\ Head(queue) # Nil
  <2>1. Holds(w, Head(queue), 1)
    BY <1>3 DEF TakeNext
  <2>2. UNCHANGED bound /\ queue' = Tail(queue) /\ begun' = begun \cup {Head(queue)}
        /\ pc' = [pc EXCEPT ![w] = "running"]
    BY <1>3 DEF TakeNext
  <2> QED
    BY <1>1, <1>2, <1>3, <2>1, <2>2, HoldsType DEF TypeOK, WorkerPC
<1>4. CASE queue # <<>> /\ Head(queue) = Nil
  <2>1. Holds(w, Nil, 0)
    BY <1>4 DEF TakeNext
  <2>2. UNCHANGED <<bound, begun>> /\ queue' = Tail(queue)
        /\ pc' = [pc EXCEPT ![w] = "off"]
    BY <1>4 DEF TakeNext
  <2>3. /\ item' \in [Workers -> Callers \cup {Nil}]
        /\ attempt' \in [Workers -> 0 .. MaxAttempts]
        /\ verdict' \in [Workers -> {"none", "result", "error"}]
    BY <1>2, <2>1, HoldsType
  <2> QED
    BY <1>1, <1>4, <2>2, <2>3 DEF TypeOK, WorkerPC
<1>5. CASE queue = <<>>
  <2>1. Holds(w, Nil, 0)
    BY <1>5 DEF TakeNext
  <2>2. /\ bound' \in {bound, "this"} /\ UNCHANGED <<queue, begun>>
        /\ \/ pc' = [pc EXCEPT ![w] = "off"]
           \/ pc' = [pc EXCEPT ![w] = "wait"]
    BY <1>5 DEF TakeNext
  <2> QED
    BY <1>2, <2>1, <2>2, HoldsType DEF TypeOK, WorkerPC
<1> QED
  BY <1>3, <1>4, <1>5

LEMMA ThreadEndsType ==
    ASSUME TypeOK, QueueAssumption, NEW w \in Workers,
           NEW v \in {"result", "error"}, ThreadEnds(w, v)
    PROVE  /\ pc' \in [Workers -> WorkerPC]
           /\ item' \in [Workers -> Callers \cup {Nil}]
           /\ attempt' \in [Workers -> 0 .. MaxAttempts]
           /\ verdict' \in [Workers -> {"none", "result", "error"}]
<1>1. 0 \in 0 .. MaxAttempts
  BY DEF QueueAssumption
<1> QED
  BY <1>1 DEF TypeOK, ThreadEnds, Holds, WorkerPC

\* A thread is only ever at work on some caller's job, within the limit.
ThreadInv ==
    /\ \A w \in Workers : Busy(w) => item[w] \in Callers
    /\ \A w \in Workers : pc[w] = "backoff" => attempt[w] < MaxAttempts
    /\ \A w \in Workers : pc[w] = "returned" => verdict[w] \in {"result", "error"}

LEMMA TypeInit == ASSUME QueueAssumption, Init PROVE TypeOK /\ ThreadInv
<1>1. 0 \in 0 .. MaxAttempts
  BY DEF QueueAssumption
<1>2. <<>> \in Seq(Callers \cup {Nil}) /\ <<>> \in Seq(Callers)
  OBVIOUS
<1> QED
  BY <1>1, <1>2 DEF Init, TypeOK, ThreadInv, WorkerPC, Busy, InThread

LEMMA TypeStep ==
    ASSUME QueueAssumption, TypeOK, ThreadInv, [Next]_vars
    PROVE  TypeOK' /\ ThreadInv'
<1> USE DEF queueVars, workerVars, ownerVars, history
<1>1. ASSUME NEW c \in Callers, Run(c) PROVE TypeOK' /\ ThreadInv'
  <2>1. <<c>> \in Seq(Callers)
    OBVIOUS
  <2>2. /\ queue' \in Seq(Callers \cup {Nil})
        /\ bound' \in {"none", "this", "other"}
        /\ workerTask' \in Workers \cup {Nil}
        /\ pc' \in [Workers -> WorkerPC]
    BY <1>1, <2>1, QueueTypeStep DEF Run
  <2>3. accepted' \in Seq(Callers)
    BY <1>1 DEF Run, TypeOK
  <2>4. TypeOK'
    BY <1>1, <2>2, <2>3 DEF Run, TypeOK
  <2>5. ThreadInv'
    BY <1>1 DEF Run, ThreadInv, Busy, InThread, StartThenPut, CreateWorker,
                DiscardAndCreate, TypeOK
  <2> QED BY <2>4, <2>5
<1>2. CASE Start
  <2>1. <<>> \in Seq(Callers)
    OBVIOUS
  <2>2. /\ queue' \in Seq(Callers \cup {Nil})
        /\ bound' \in {"none", "this", "other"}
        /\ workerTask' \in Workers \cup {Nil}
        /\ pc' \in [Workers -> WorkerPC]
    BY <1>2, <2>1, QueueTypeStep DEF Start
  <2>3. TypeOK'
    BY <1>2, <2>2 DEF Start, TypeOK
  <2>4. ThreadInv'
    BY <1>2 DEF Start, ThreadInv, Busy, InThread, StartThenPut, CreateWorker,
                DiscardAndCreate, TypeOK
  <2> QED BY <2>3, <2>4
<1>3. ASSUME NEW c \in Callers, Cancel(c) PROVE TypeOK' /\ ThreadInv'
  BY <1>3 DEF Cancel, TypeOK, ThreadInv, Busy, InThread
<1>4. ASSUME NEW w \in Workers, WorkerGets(w) \/ Deliver(w)
      PROVE  TypeOK' /\ ThreadInv'
  <2>1. TakeNext(w)
    BY <1>4 DEF WorkerGets, Deliver
  <2>2. fut' \in [Callers -> {"none", "pending", "result", "error", "cancelled"}]
    BY <1>4 DEF WorkerGets, Deliver, TypeOK, ThreadInv, Busy
  <2>3. TypeOK'
    BY <1>4, <2>1, <2>2, TakeNextType DEF WorkerGets, Deliver, TypeOK
  <2>4. queue # <<>> => Head(queue) \in Callers \cup {Nil}
    BY TailFacts DEF TypeOK
  <2>5. ThreadInv'
    BY <2>1, <2>4 DEF TakeNext, Holds, ThreadInv, Busy, InThread, TypeOK
  <2> QED BY <2>3, <2>5
<1>5. ASSUME NEW w \in Workers, AttemptOk(w) \/ AttemptLocked(w) \/ AttemptFails(w)
      PROVE  TypeOK' /\ ThreadInv'
  <2>1. applied' \in [Callers -> Nat]
    BY <1>5 DEF AttemptOk, AttemptLocked, AttemptFails, Commits, PartialCommits,
                TypeOK, ThreadInv, Busy, InThread
  <2>2. CASE ThreadEnds(w, "result") \/ ThreadEnds(w, "error")
    <3>1. /\ pc' \in [Workers -> WorkerPC]
          /\ item' \in [Workers -> Callers \cup {Nil}]
          /\ attempt' \in [Workers -> 0 .. MaxAttempts]
          /\ verdict' \in [Workers -> {"none", "result", "error"}]
      BY <2>2, ThreadEndsType
    <3>2. TypeOK'
      BY <1>5, <2>1, <3>1 DEF AttemptOk, AttemptLocked, AttemptFails, TypeOK
    <3>3. ThreadInv'
      BY <1>5, <2>2 DEF AttemptOk, AttemptLocked, AttemptFails, ThreadEnds, Holds,
                        ThreadInv, Busy, InThread, TypeOK
    <3> QED BY <3>2, <3>3
  <2>3. CASE /\ pc' = [pc EXCEPT ![w] = "backoff"]
             /\ attempt[w] < MaxAttempts
             /\ UNCHANGED <<item, attempt, verdict>>
    BY <1>5, <2>1, <2>3 DEF AttemptOk, AttemptLocked, AttemptFails, TypeOK, ThreadInv,
                            Busy, InThread, WorkerPC
  <2> QED BY <1>5, <2>2, <2>3 DEF AttemptOk, AttemptLocked, AttemptFails
<1>6. ASSUME NEW w \in Workers, Retry(w) PROVE TypeOK' /\ ThreadInv'
  BY <1>6 DEF Retry, TypeOK, ThreadInv, Busy, InThread, WorkerPC, QueueAssumption
<1>7. CASE Stop
  <2>1. Append(queue, Nil) \in Seq(Callers \cup {Nil})
    BY DEF TypeOK
  <2> QED BY <1>7, <2>1 DEF Stop, TypeOK, ThreadInv, Busy, InThread
<1>8. CASE StopReturns
  BY <1>8 DEF StopReturns, TypeOK, ThreadInv, Busy, InThread
<1>9. CASE CloseLoop
  <2>1. 0 \in 0 .. MaxAttempts
    BY DEF QueueAssumption
  <2>2. /\ pc' \in [Workers -> WorkerPC]
        /\ item' \in [Workers -> Callers \cup {Nil}]
        /\ attempt' \in [Workers -> 0 .. MaxAttempts]
        /\ verdict' \in [Workers -> {"none", "result", "error"}]
        /\ fut' \in [Callers -> {"none", "pending", "result", "error", "cancelled"}]
    BY <1>9, <2>1 DEF CloseLoop, TypeOK, WorkerPC
  <2>3. TypeOK'
    BY <1>9, <2>2 DEF CloseLoop, TypeOK
  <2>4. ThreadInv'
    BY <1>9 DEF CloseLoop, TypeOK, ThreadInv, Busy, InThread
  <2> QED BY <2>3, <2>4
<1>10. CASE OpenLoop
  BY <1>10 DEF OpenLoop, TypeOK, ThreadInv, Busy, InThread
<1>11. CASE UNCHANGED vars
  BY <1>11 DEF vars, TypeOK, ThreadInv, Busy, InThread
<1> QED
  BY <1>1, <1>2, <1>3, <1>4, <1>5, <1>6, <1>7, <1>8, <1>9, <1>10, <1>11
  DEF Next, CallerStep, WorkerStep, OwnerStep

\* Every variable stays in its type, for any callers, workers and limit.
THEOREM TypeCorrect == Spec => []TypeOK
<1>1. QueueAssumption
  BY QueueAssumption
<1>2. Init => TypeOK /\ ThreadInv
  BY <1>1, TypeInit
<1>3. TypeOK /\ ThreadInv /\ [Next]_vars => (TypeOK /\ ThreadInv)'
  BY <1>1, TypeStep
<1> QED
  BY <1>2, <1>3, PTL DEF Spec

-----------------------------------------------------------------------------
(* Who is alive, and what the queue then holds.                            *)

\* Only the worker _worker_task names is not done, and no task is left
\* waiting on a dropped queue.
OneWorker ==
    \A w \in Workers : pc[w] # "off" => w = workerTask /\ pc[w] # "stuck"

\* On a closing loop nothing but the job's thread goes on.
Closing ==
    ~loopOpen =>
        /\ ~started /\ ~stopping
        /\ \A w \in Workers : pc[w] = "off" \/ InThread(w)
        /\ \A c \in Callers : fut[c] # "pending"

\* The owner's flags agree with the worker.
Owner ==
    /\ stopping => started /\ \A c \in Callers : fut[c] # "pending"
    /\ loopOpen /\ HasLiveWorker => started

\* A queue without a worker that will read it holds nothing, unless it was
\* left behind by a closed loop, and then a task was left behind too.
NothingLeft ==
    /\ workerTask = Nil => queue = <<>>
    /\ started /\ ~HasLiveWorker => queue = <<>>

\* The sentinel is in a live queue only while stop() waits, and is last.
Sentinel ==
    /\ stopping /\ HasLiveWorker =>
          /\ queue # <<>> /\ queue[Len(queue)] = Nil
          /\ \A i \in 1 .. Len(queue) - 1 : queue[i] # Nil
    /\ loopOpen /\ HasLiveWorker /\ ~stopping =>
          \A i \in 1 .. Len(queue) : queue[i] # Nil

\* Whoever waits has a job that is held or queued.
Waiting ==
    \A c \in Callers : fut[c] = "pending" =>
        /\ HasLiveWorker
        /\ Queued(c) \/ (Busy(workerTask) /\ item[workerTask] = c)

OwnerInv ==
    /\ OneWorker /\ Closing /\ Owner /\ NothingLeft /\ Sentinel /\ Waiting

-----------------------------------------------------------------------------
(* The order of acceptance.                                                *)

\* Each caller is accepted once, when its future is created; only accepted
\* callers are queued or have begun.
AcceptedOnce ==
    /\ \A i, j \in 1 .. Len(accepted) : accepted[i] = accepted[j] => i = j
    /\ \A i \in 1 .. Len(accepted) : fut[accepted[i]] # "none"
    /\ \A c \in begun : fut[c] # "none"

\* What is queued has not begun, was accepted, and has had no answer.
QueuedUnbegun ==
    \A k \in 1 .. Len(queue) : queue[k] # Nil =>
        /\ queue[k] \notin begun
        /\ \E i \in 1 .. Len(accepted) : accepted[i] = queue[k]
        /\ fut[queue[k]] \in {"pending", "cancelled"}

\* The queue keeps the order of acceptance.
QueueOrder ==
    \A k, l \in 1 .. Len(queue), i, j \in 1 .. Len(accepted) :
        k < l /\ queue[k] = accepted[i] /\ queue[l] = accepted[j] => i < j

\* Nothing accepted after a queued job has begun.
QueueFirst ==
    \A i, j \in 1 .. Len(accepted) :
        i < j /\ Queued(accepted[i]) => accepted[j] \notin begun

\* What was accepted and is neither begun nor queued was given up.
Accounted ==
    \A i \in 1 .. Len(accepted) :
        \/ accepted[i] \in begun
        \/ Queued(accepted[i])
        \/ fut[accepted[i]] = "cancelled"

OrderInv == AcceptedOnce /\ QueuedUnbegun /\ QueueOrder /\ QueueFirst /\ Accounted

-----------------------------------------------------------------------------
(* What has been committed, for jobs that commit once.                     *)
CommitInv ==
    \A c \in Callers \ MultiCommit :
        /\ c \notin begun => applied[c] = 0
        /\ applied[c] <= 1
        /\ fut[c] = "result" => applied[c] = 1
        /\ fut[c] = "error" => applied[c] = 0
        /\ \A w \in Workers : item[w] = c =>
              /\ InThread(w) => applied[c] = 0
              /\ pc[w] = "returned" /\ verdict[w] = "result" => applied[c] = 1
              /\ pc[w] = "returned" /\ verdict[w] = "error" => applied[c] = 0

\* A job that is held has begun, and its caller has no answer yet.
HeldBegun ==
    \A w \in Workers : Busy(w) =>
        item[w] \in begun /\ fut[item[w]] \in {"pending", "cancelled"}

-----------------------------------------------------------------------------
LEMMA OwnerInit == ASSUME QueueAssumption, Init PROVE OwnerInv
  BY DEF Init, QueueAssumption, OwnerInv, OneWorker, Closing, Owner, NothingLeft,
         Sentinel, Waiting, HasLiveWorker

\* start() leaves exactly one live worker on a queue whose last items are the
\* caller's, and drops what was queued only if no live worker was to read it.
LEMMA StartFacts ==
    ASSUME QueueAssumption, TypeOK, OwnerInv, NEW items \in Seq(Callers),
           StartThenPut(items)
    PROVE  /\ HasLiveWorker'
           /\ OneWorker'
           /\ HasLiveWorker => queue' = queue \o items /\ workerTask' = workerTask
                               /\ pc' = pc
           /\ ~HasLiveWorker => queue' = items
           /\ \A w \in Workers : Busy(w)' <=> Busy(w)
<1> USE DEF HasLiveWorker, OneWorker, OwnerInv, Busy, InThread, TypeOK
<1>1. CASE HasLiveWorker
  BY <1>1 DEF StartThenPut
<1>2. CASE workerTask = Nil
  <2>1. PICK w \in Workers : /\ pc[w] = "off"
                             /\ pc' = [pc EXCEPT ![w] = "new"]
                             /\ workerTask' = w
    BY <1>2 DEF StartThenPut, CreateWorker
  <2>2. queue' = items
    BY <1>2, ConcatNone DEF StartThenPut, NothingLeft
  <2> QED BY <1>2, <2>1, <2>2 DEF QueueAssumption
<1>3. CASE workerTask # Nil /\ ~HasLiveWorker
  <2>1. PICK w \in Workers :
          /\ pc[w] = "off"
          /\ pc' = [v \in Workers |-> IF v = w THEN "new"
                                    ELSE IF pc[v] = "wait" THEN "stuck" ELSE pc[v]]
          /\ workerTask' = w
    BY <1>3 DEF StartThenPut, DiscardAndCreate
  <2>2. queue' = items
    BY <1>3 DEF StartThenPut
  <2>3. \A v \in Workers : pc[v] = "off"
    BY <1>3
  <2> QED BY <1>3, <2>1, <2>2, <2>3 DEF QueueAssumption
<1> QED BY <1>1, <1>2, <1>3

LEMMA OwnerStart ==
    ASSUME QueueAssumption, TypeOK, OwnerInv,
           Start \/ \E c \in Callers : Run(c)
    PROVE  OwnerInv'
<1>1. PICK items \in Seq(Callers) :
        /\ StartThenPut(items)
        /\ \/ items = <<>> /\ fut' = fut
           \/ \E c \in Callers : /\ items = <<c>>
                                 /\ fut' = [fut EXCEPT ![c] = "pending"]
  <2>1. CASE Start
    <3>1. <<>> \in Seq(Callers)
      OBVIOUS
    <3> QED BY <2>1, <3>1 DEF Start
  <2>2. ASSUME NEW c \in Callers, Run(c)
        PROVE  /\ <<c>> \in Seq(Callers)
               /\ StartThenPut(<<c>>)
               /\ fut' = [fut EXCEPT ![c] = "pending"]
    BY <2>2 DEF Run
  <2> QED BY <2>1, <2>2
<1>2. /\ loopOpen /\ ~stopping /\ loopOpen' /\ ~stopping' /\ started'
      /\ UNCHANGED item
  <2>1. CASE Start
    BY <2>1 DEF Start
  <2>2. ASSUME NEW c \in Callers, Run(c)
        PROVE  /\ loopOpen /\ ~stopping /\ loopOpen' /\ ~stopping' /\ started'
               /\ UNCHANGED item
    BY <2>2 DEF Run
  <2> QED BY <2>1, <2>2
<1>3. /\ HasLiveWorker' /\ OneWorker'
      /\ HasLiveWorker => queue' = queue \o items /\ workerTask' = workerTask /\ pc' = pc
      /\ ~HasLiveWorker => queue' = items
      /\ \A w \in Workers : Busy(w)' <=> Busy(w)
  BY <1>1, StartFacts
<1>4. Closing' /\ Owner' /\ NothingLeft'
  BY <1>2, <1>3 DEF Closing, Owner, NothingLeft, HasLiveWorker, OwnerInv
<1>5. queue \in Seq(Callers \cup {Nil}) /\ items \in Seq(Callers \cup {Nil})
  BY DEF TypeOK
<1>6. /\ Len(queue) \in Nat
      /\ items = <<>> \/ (Len(items) = 1 /\ items[1] \in Callers)
  BY <1>1, <1>5
<1>7. HasLiveWorker =>
        /\ \A i \in 1 .. Len(queue') : queue'[i] # Nil
        /\ \A c \in Callers : Queued(c) => Queued(c)'
        /\ \A c \in Callers : items = <<c>> => Queued(c)'
  <2> SUFFICES ASSUME HasLiveWorker
               PROVE  /\ \A i \in 1 .. Len(queue') : queue'[i] # Nil
                      /\ \A c \in Callers : Queued(c) => Queued(c)'
                      /\ \A c \in Callers : items = <<c>> => Queued(c)'
    OBVIOUS
  <2>1. \A i \in 1 .. Len(queue) : queue[i] # Nil
    BY <1>2 DEF OwnerInv, Sentinel
  <2>2. CASE items = <<>>
    BY <1>3, <2>1, <2>2, <1>5, ConcatNone DEF Queued
  <2>3. ASSUME NEW c \in Callers, items = <<c>>
        PROVE  /\ \A i \in 1 .. Len(queue') : queue'[i] # Nil
               /\ \A d \in Callers : Queued(d) => Queued(d)'
               /\ Queued(c)'
    <3>1. /\ Len(queue') = Len(queue) + 1
          /\ \A i \in 1 .. Len(queue) : queue'[i] = queue[i]
          /\ queue'[Len(queue) + 1] = c
      BY <1>3, <1>5, <2>3, ConcatOne
    <3> QED BY <1>6, <2>1, <3>1 DEF Queued, QueueAssumption
  <2> QED BY <1>1, <2>2, <2>3
<1>8. ~HasLiveWorker =>
        /\ \A i \in 1 .. Len(queue') : queue'[i] # Nil
        /\ \A c \in Callers : items = <<c>> => Queued(c)'
  BY <1>1, <1>3, <1>6 DEF Queued, QueueAssumption
<1>9. Sentinel'
  BY <1>2, <1>7, <1>8 DEF Sentinel
<1>10. Waiting'
  <2> SUFFICES ASSUME NEW c \in Callers, fut'[c] = "pending"
               PROVE  Queued(c)' \/ (Busy(workerTask)' /\ item'[workerTask'] = c)
    BY <1>3 DEF Waiting
  <2>1. CASE items = <<c>>
    BY <1>7, <1>8, <2>1
  <2>2. CASE items # <<c>>
    <3>1. fut[c] = "pending"
      BY <1>1, <2>2 DEF TypeOK
    <3>2. HasLiveWorker /\ (Queued(c) \/ (Busy(workerTask) /\ item[workerTask] = c))
      BY <3>1 DEF OwnerInv, Waiting
    <3> QED BY <1>2, <1>3, <1>7, <3>2 DEF Busy, InThread
  <2> QED BY <2>1, <2>2
<1> QED BY <1>3, <1>4, <1>9, <1>10 DEF OwnerInv

LEMMA OwnerTake ==
    ASSUME QueueAssumption, TypeOK, OwnerInv, NEW w \in Workers,
           WorkerGets(w) \/ Deliver(w)
    PROVE  OwnerInv'
<1>1. /\ TakeNext(w) /\ loopOpen /\ UNCHANGED <<workerTask, ownerVars>>
      /\ pc[w] # "off"
  BY DEF WorkerGets, Deliver
<1>2. w = workerTask /\ HasLiveWorker /\ loopOpen' = loopOpen
      /\ stopping' = stopping /\ started' = started /\ workerTask' = workerTask
  BY <1>1 DEF OwnerInv, OneWorker, HasLiveWorker, QueueAssumption, ownerVars
<1>3. \A c \in Callers : fut'[c] = "pending" =>
        fut[c] = "pending" /\ Queued(c)
  <2>1. CASE WorkerGets(w)
    BY <1>2, <2>1 DEF WorkerGets, OwnerInv, Waiting, Busy, InThread
  <2>2. CASE Deliver(w)
    BY <1>2, <2>2 DEF Deliver, OwnerInv, Waiting, Busy, TypeOK
  <2> QED BY <2>1, <2>2
<1>4. OneWorker'
  BY <1>1, <1>2 DEF TakeNext, OwnerInv, OneWorker, TypeOK
<1>5. Closing' /\ started' /\ Owner'
  BY <1>1, <1>2, <1>3 DEF Closing, Owner, OwnerInv
<1>6. queue # <<>> => /\ Len(queue) \in Nat \ {0}
                      /\ Head(queue) = queue[1]
                      /\ Tail(queue) \in Seq(Callers \cup {Nil})
                      /\ Len(Tail(queue)) = Len(queue) - 1
                      /\ \A i \in 1 .. Len(queue) - 1 : Tail(queue)[i] = queue[i + 1]
  BY TailFacts DEF TypeOK
<1>7. CASE queue # <<>> /\ Head(queue) # Nil
  <2>1. /\ queue' = Tail(queue) /\ pc' = [pc EXCEPT ![w] = "running"]
        /\ item' = [item EXCEPT ![w] = Head(queue)]
    BY <1>1, <1>7 DEF TakeNext, Holds
  <2>2. HasLiveWorker' /\ Busy(workerTask)' /\ item'[workerTask'] = Head(queue)
    BY <1>2, <2>1 DEF HasLiveWorker, TypeOK, Busy, InThread
  <2>3. NothingLeft'
    BY <2>2 DEF NothingLeft, HasLiveWorker
  <2>4. Sentinel'
    <3>1. CASE stopping
      <4>1. queue[Len(queue)] = Nil /\ \A i \in 1 .. Len(queue) - 1 : queue[i] # Nil
        BY <1>2, <3>1 DEF OwnerInv, Sentinel
      <4>2. Len(queue) > 1
        BY <1>6, <1>7, <4>1
      <4>3. queue' # <<>> /\ queue'[Len(queue')] = Nil
            /\ \A i \in 1 .. Len(queue') - 1 : queue'[i] # Nil
        BY <1>6, <1>7, <2>1, <4>1, <4>2
      <4> QED BY <1>2, <3>1, <4>3 DEF Sentinel
    <3>2. CASE ~stopping
      <4>1. \A i \in 1 .. Len(queue) : queue[i] # Nil
        BY <1>1, <1>2, <3>2 DEF OwnerInv, Sentinel
      <4>2. \A i \in 1 .. Len(queue') : queue'[i] # Nil
        BY <1>6, <1>7, <2>1, <4>1
      <4> QED BY <1>2, <3>2, <4>2 DEF Sentinel
    <3> QED BY <3>1, <3>2
  <2>5. Waiting'
    <3> SUFFICES ASSUME NEW c \in Callers, fut'[c] = "pending", c # Head(queue)
                 PROVE  Queued(c)'
      BY <2>2 DEF Waiting
    <3>1. PICK i \in 1 .. Len(queue) : queue[i] = c
      BY <1>3 DEF Queued
    <3>2. i - 1 \in 1 .. Len(queue') /\ queue'[i - 1] = c
      BY <1>6, <1>7, <2>1, <3>1
    <3> QED BY <3>2 DEF Queued
  <2> QED BY <1>4, <1>5, <2>3, <2>4, <2>5 DEF OwnerInv
<1>8. CASE queue # <<>> /\ Head(queue) = Nil
  <2>1. queue' = Tail(queue) /\ pc' = [pc EXCEPT ![w] = "off"]
    BY <1>1, <1>8 DEF TakeNext
  <2>2. ~HasLiveWorker' /\ workerTask' # Nil
    BY <1>2, <2>1 DEF HasLiveWorker, TypeOK, QueueAssumption
  <2>3. stopping
    BY <1>1, <1>2, <1>6, <1>8 DEF OwnerInv, Sentinel
  <2>4. Len(queue) = 1
    BY <1>2, <1>6, <1>8, <2>3 DEF OwnerInv, Sentinel
  <2>5. queue' = <<>>
    BY <1>6, <1>8, <2>1, <2>4
  <2>6. \A c \in Callers : fut'[c] # "pending"
    BY <1>3, <2>3 DEF OwnerInv, Owner
  <2> QED BY <1>4, <1>5, <2>2, <2>5, <2>6 DEF OwnerInv, NothingLeft, Sentinel, Waiting
<1>9. CASE queue = <<>>
  <2>1. queue' = <<>> /\ ~stopping
    BY <1>1, <1>2, <1>9 DEF TakeNext, OwnerInv, Sentinel
  <2>2. \A c \in Callers : fut'[c] # "pending"
    BY <1>3, <1>9 DEF Queued
  <2> QED BY <1>2, <1>4, <1>5, <2>1, <2>2 DEF OwnerInv, NothingLeft, Sentinel, Waiting
<1> QED BY <1>7, <1>8, <1>9

LEMMA OwnerThread ==
    ASSUME QueueAssumption, TypeOK, ThreadInv, OwnerInv, NEW w \in Workers,
           AttemptOk(w) \/ AttemptLocked(w) \/ AttemptFails(w) \/ Retry(w)
    PROVE  OwnerInv'
<1>1. /\ InThread(w)
      /\ UNCHANGED <<queueVars, workerTask, fut, ownerVars>>
  BY DEF AttemptOk, AttemptLocked, AttemptFails, Retry, InThread
<1>2. /\ w = workerTask /\ HasLiveWorker
      /\ UNCHANGED <<queue, workerTask, fut, started, stopping, loopOpen>>
  BY <1>1 DEF OwnerInv, OneWorker, HasLiveWorker, InThread, QueueAssumption, queueVars,
              ownerVars
<1>3. \/ /\ loopOpen /\ item' = item
         /\ \E p \in {"running", "backoff", "returned"} : pc' = [pc EXCEPT ![w] = p]
      \/ /\ ~loopOpen
         /\ \/ item' = item /\ \E p \in {"running", "backoff"} : pc' = [pc EXCEPT ![w] = p]
            \/ pc' = [pc EXCEPT ![w] = "off"]
  BY DEF AttemptOk, AttemptLocked, AttemptFails, Retry, ThreadEnds, Holds
<1>4. OneWorker' /\ Closing'
  BY <1>1, <1>2, <1>3 DEF OwnerInv, OneWorker, Closing, TypeOK, InThread
<1>5. CASE loopOpen
  <2>1. HasLiveWorker' /\ Busy(workerTask)' /\ item' = item
    BY <1>2, <1>3, <1>5 DEF HasLiveWorker, TypeOK, Busy, InThread
  <2>3. Waiting'
    BY <1>2, <2>1 DEF OwnerInv, Waiting, Queued
  <2>4. Owner' /\ NothingLeft' /\ Sentinel'
    BY <1>2, <1>5, <2>1 DEF OwnerInv, Owner, NothingLeft, Sentinel, HasLiveWorker
  <2> QED BY <1>4, <2>3, <2>4 DEF OwnerInv
<1>6. CASE ~loopOpen
  BY <1>2, <1>4, <1>6
  DEF OwnerInv, Owner, NothingLeft, Sentinel, Waiting, Closing, HasLiveWorker
<1> QED BY <1>5, <1>6

LEMMA OwnerPreserved ==
    ASSUME QueueAssumption, TypeOK, ThreadInv, OwnerInv, [Next]_vars
    PROVE  OwnerInv'
<1> USE DEF OneWorker, Closing, Owner, NothingLeft, Sentinel, Waiting, OwnerInv,
            HasLiveWorker, TypeOK
<1>1. ASSUME NEW c \in Callers, Cancel(c) PROVE OwnerInv'
  BY <1>1 DEF Cancel, queueVars, workerVars, ownerVars, Busy, InThread, Queued
<1>2. CASE Stop
  <2>1. CASE HasLiveWorker
    <3>1. /\ queue' = Append(queue, Nil) /\ stopping' /\ loopOpen /\ ~stopping
          /\ UNCHANGED <<workerTask, started, pc, item, fut, loopOpen>>
          /\ \A c \in Callers : fut[c] # "pending"
      BY <1>2, <2>1 DEF Stop
    <3>2. \A i \in 1 .. Len(queue) : queue[i] # Nil
      BY <2>1, <3>1
    <3>3. /\ queue' # <<>> /\ Len(queue') = Len(queue) + 1
          /\ queue'[Len(queue')] = Nil
          /\ \A i \in 1 .. Len(queue') - 1 : queue'[i] = queue[i]
      <4>1. queue \in Seq(Callers \cup {Nil}) /\ Nil \in Callers \cup {Nil}
        OBVIOUS
      <4> QED BY <3>1, <4>1, AppendOne
    <3>4. Sentinel'
      BY <2>1, <3>1, <3>2, <3>3
    <3> QED BY <2>1, <3>1, <3>4 DEF InThread
  <2>2. CASE ~HasLiveWorker
    BY <1>2, <2>2 DEF Stop, InThread
  <2> QED BY <2>1, <2>2
<1>3. CASE StopReturns
  BY <1>3 DEF StopReturns, queueVars, InThread
<1>4. CASE CloseLoop
  <2>1. /\ ~loopOpen' /\ ~stopping' /\ ~started'
        /\ \A c \in Callers : fut'[c] # "pending"
        /\ UNCHANGED <<queue, workerTask>>
    BY <1>4 DEF CloseLoop, queueVars
  <2>2. \A v \in Workers : pc'[v] = IF InThread(v) THEN pc[v] ELSE "off"
    BY <1>4 DEF CloseLoop
  <2> QED BY <2>1, <2>2 DEF InThread
<1>5. CASE OpenLoop
  BY <1>5 DEF OpenLoop, workerVars, InThread, QueueAssumption
<1>6. CASE UNCHANGED vars
  BY <1>6 DEF vars, queueVars, workerVars, ownerVars, Busy, InThread, Queued
<1> QED
  BY <1>1, <1>2, <1>3, <1>4, <1>5, <1>6, OwnerStart, OwnerTake, OwnerThread
  DEF Next, CallerStep, WorkerStep, OwnerStep

\* What the callers are promised, from who is alive.
LEMMA OwnerSafe ==
    ASSUME QueueAssumption, TypeOK, OwnerInv
    PROVE  Serialized /\ NeverStranded
<1>1. Serialized
  BY DEF OwnerInv, OneWorker, Serialized, InThread
<1>2. NeverStranded
  <2> SUFFICES ASSUME NEW c \in Callers, fut[c] = "pending"
      PROVE  /\ loopOpen
             /\ workerTask # Nil /\ pc[workerTask] \notin {"off", "stuck"}
             /\ \/ Busy(workerTask) /\ item[workerTask] = c
                \/ \E i \in 1 .. Len(queue) :
                      queue[i] = c /\ \A k \in 1 .. i : queue[k] # Nil
    BY DEF NeverStranded
  <2>1. loopOpen /\ ~stopping /\ HasLiveWorker
    BY DEF OwnerInv, Closing, Owner, Waiting, TypeOK
  <2>2. workerTask # Nil /\ pc[workerTask] \notin {"off", "stuck"}
    BY <2>1 DEF OwnerInv, OneWorker, HasLiveWorker, TypeOK
  <2>3. \A i \in 1 .. Len(queue) : queue[i] # Nil
    BY <2>1 DEF OwnerInv, Sentinel
  <2>4. Len(queue) \in Nat
    BY DEF TypeOK
  <2> QED BY <2>1, <2>2, <2>3, <2>4 DEF OwnerInv, Waiting, Queued
<1> QED BY <1>1, <1>2

-----------------------------------------------------------------------------
LEMMA OrderInit == ASSUME QueueAssumption, Init PROVE OrderInv
  BY DEF Init, OrderInv, AcceptedOnce, QueuedUnbegun, QueueOrder, QueueFirst, Accounted

\* A step that leaves the queue and what was accepted and begun alone keeps
\* the order; futures may only be answered for callers that have begun, or
\* be given up.
LEMMA OrderKept ==
    ASSUME TypeOK, OrderInv, UNCHANGED <<queue, accepted, begun>>,
           \A c \in Callers :
              \/ fut'[c] = fut[c]
              \/ fut[c] = "pending" /\ fut'[c] = "cancelled"
              \/ c \in begun /\ fut'[c] # "none"
    PROVE  OrderInv'
<1>1. \A i \in 1 .. Len(accepted) : accepted[i] \in Callers
  BY DEF TypeOK
<1>2. \A k \in 1 .. Len(queue) : queue[k] \in Callers \cup {Nil}
  BY DEF TypeOK
<1>3. AcceptedOnce'
  BY <1>1 DEF OrderInv, AcceptedOnce, TypeOK
<1>4. QueuedUnbegun'
  BY <1>2 DEF OrderInv, QueuedUnbegun
<1>5. QueueOrder' /\ QueueFirst'
  BY DEF OrderInv, QueueOrder, QueueFirst, Queued
<1>6. Accounted'
  BY <1>1 DEF OrderInv, Accounted, Queued
<1> QED BY <1>3, <1>4, <1>5, <1>6 DEF OrderInv

\* start() on its own.
LEMMA OrderStart ==
    ASSUME QueueAssumption, TypeOK, OwnerInv, OrderInv, Start
    PROVE  OrderInv'
<1>1. /\ StartThenPut(<<>>) /\ UNCHANGED <<fut, accepted, begun>> /\ ~HasLiveWorker
  BY DEF Start, history
<1>2. <<>> \in Seq(Callers)
  OBVIOUS
<1>3. queue' = <<>>
  BY <1>1, <1>2, StartFacts
<1>4. \A i \in 1 .. Len(accepted) : fut[accepted[i]] # "pending" /\ accepted[i] \in Callers
  BY <1>1 DEF OwnerInv, Waiting, TypeOK
<1>5. Accounted'
  BY <1>1, <1>4 DEF OrderInv, Accounted, QueuedUnbegun, Queued
<1> QED
  BY <1>1, <1>3, <1>5
  DEF OrderInv, AcceptedOnce, QueuedUnbegun, QueueOrder, QueueFirst, Queued

\* run(): the caller is last in the order and last in the queue.
LEMMA OrderRun ==
    ASSUME QueueAssumption, TypeOK, OwnerInv, OrderInv, NEW c \in Callers, Run(c)
    PROVE  OrderInv'
<1> DEFINE n == Len(accepted)
<1>1. /\ fut[c] = "none" /\ fut' = [fut EXCEPT ![c] = "pending"]
      /\ accepted' = Append(accepted, c) /\ begun' = begun
      /\ StartThenPut(<<c>>)
  BY DEF Run
<1>2. /\ n \in Nat /\ Len(accepted') = n + 1 /\ accepted'[n + 1] = c
      /\ \A i \in 1 .. n : accepted'[i] = accepted[i] /\ accepted[i] \in Callers
      /\ \A i \in 1 .. n : accepted[i] # c
  BY <1>1 DEF TypeOK, OrderInv, AcceptedOnce
<1>3. c \notin begun /\ c # Nil
  BY <1>1 DEF OrderInv, AcceptedOnce, QueueAssumption
<1>4. <<c>> \in Seq(Callers) /\ <<c>> \in Seq(Callers \cup {Nil})
  OBVIOUS
<1>5. /\ HasLiveWorker => queue' = queue \o <<c>>
      /\ ~HasLiveWorker => queue' = <<c>>
  BY <1>1, <1>4, StartFacts
<1>6. AcceptedOnce'
  <2>1. \A i \in 1 .. n + 1 : fut'[accepted'[i]] # "none"
    BY <1>1, <1>2 DEF OrderInv, AcceptedOnce, TypeOK
  <2>2. \A d \in begun : fut'[d] # "none"
    BY <1>1, <1>3 DEF OrderInv, AcceptedOnce, TypeOK
  <2>3. \A i, j \in 1 .. n + 1 : accepted'[i] = accepted'[j] => i = j
    BY <1>2 DEF OrderInv, AcceptedOnce
  <2> QED BY <1>1, <1>2, <2>1, <2>2, <2>3 DEF AcceptedOnce
<1>7. CASE HasLiveWorker
  <2> DEFINE m == Len(queue)
  <2>1. /\ m \in Nat /\ Len(queue') = m + 1 /\ queue'[m + 1] = c
        /\ \A k \in 1 .. m : queue'[k] = queue[k] /\ queue[k] \in Callers \cup {Nil}
    BY <1>5, <1>7, ConcatOne DEF TypeOK
  <2>2. \A k \in 1 .. m : queue[k] # Nil =>
           \E i \in 1 .. n : accepted[i] = queue[k] /\ queue[k] # c
    BY <1>2 DEF OrderInv, QueuedUnbegun
  <2>3. QueuedUnbegun'
    <3> SUFFICES ASSUME NEW k \in 1 .. m + 1, queue'[k] # Nil
                 PROVE  /\ queue'[k] \notin begun'
                        /\ \E i \in 1 .. n + 1 : accepted'[i] = queue'[k]
                        /\ fut'[queue'[k]] \in {"pending", "cancelled"}
      BY <1>2, <2>1 DEF QueuedUnbegun
    <3>1. CASE k = m + 1
      <4>1. fut'[c] = "pending" /\ c \notin begun' /\ queue'[k] = c
        BY <1>1, <1>3, <2>1, <3>1 DEF TypeOK
      <4>2. n + 1 \in 1 .. n + 1 /\ accepted'[n + 1] = c
        BY <1>2
      <4> QED BY <4>1, <4>2
    <3>2. CASE k \in 1 .. m
      <4>1. queue'[k] = queue[k] /\ queue[k] # Nil /\ queue[k] \in Callers
        BY <2>1, <3>2
      <4>2. PICK i \in 1 .. n : accepted[i] = queue[k] /\ queue[k] # c
        BY <2>2, <3>2, <4>1
      <4>3. i \in 1 .. n + 1 /\ accepted'[i] = queue'[k]
        BY <1>2, <4>1, <4>2
      <4>4. queue[k] \notin begun /\ fut[queue[k]] \in {"pending", "cancelled"}
        BY <3>2, <4>1 DEF OrderInv, QueuedUnbegun
      <4> QED BY <1>1, <4>1, <4>2, <4>3, <4>4 DEF TypeOK
    <3> QED BY <2>1, <3>1, <3>2
  <2>4. QueueOrder'
    <3> SUFFICES ASSUME NEW k \in 1 .. m + 1, NEW l \in 1 .. m + 1,
                        NEW i \in 1 .. n + 1, NEW j \in 1 .. n + 1,
                        k < l, queue'[k] = accepted'[i], queue'[l] = accepted'[j]
                 PROVE  i < j
      BY <1>2, <2>1 DEF QueueOrder
    <3>1. k \in 1 .. m /\ queue[k] = accepted'[i]
      BY <2>1
    <3>2. i \in 1 .. n
      BY <1>2, <1>3, <2>1, <2>2, <3>1
    <3>3. CASE l = m + 1
      BY <1>2, <2>1, <3>2, <3>3
    <3>4. CASE l \in 1 .. m
      <4>1. j \in 1 .. n
        BY <1>2, <1>3, <2>1, <2>2, <3>4
      <4> QED BY <1>2, <2>1, <3>1, <3>2, <3>4, <4>1 DEF OrderInv, QueueOrder
    <3> QED BY <2>1, <3>3, <3>4
  <2>5. \A d \in Callers : Queued(d)' <=> Queued(d) \/ d = c
    BY <2>1 DEF Queued
  <2>6. QueueFirst'
    BY <1>1, <1>2, <1>3, <2>5 DEF OrderInv, QueueFirst
  <2>7. Accounted'
    BY <1>1, <1>2, <2>5 DEF OrderInv, Accounted, TypeOK
  <2> QED BY <1>6, <2>3, <2>4, <2>6, <2>7 DEF OrderInv
<1>8. CASE ~HasLiveWorker
  <2>1. queue' = <<c>> /\ Len(queue') = 1 /\ queue'[1] = c
    BY <1>5, <1>8
  <2>2. \A d \in Callers : Queued(d)' <=> d = c
    BY <2>1 DEF Queued
  <2>3. QueuedUnbegun'
    <3>1. fut'[c] = "pending" /\ c \notin begun'
      BY <1>1, <1>3 DEF TypeOK
    <3>2. n + 1 \in 1 .. n + 1 /\ accepted'[n + 1] = c
      BY <1>2
    <3> QED BY <1>2, <2>1, <3>1, <3>2 DEF QueuedUnbegun
  <2>7. QueueOrder'
    BY <2>1 DEF QueueOrder
  <2>4. QueueFirst'
    BY <1>1, <1>2, <1>3, <2>2 DEF QueueFirst
  <2>5. \A i \in 1 .. n : fut[accepted[i]] # "pending"
    BY <1>2, <1>8 DEF OwnerInv, Waiting
  <2>6. Accounted'
    <3> SUFFICES ASSUME NEW i \in 1 .. n + 1
                 PROVE  \/ accepted'[i] \in begun' \/ accepted'[i] = c
                        \/ fut'[accepted'[i]] = "cancelled"
      BY <1>2, <2>1 DEF Accounted, Queued
    <3>1. CASE i = n + 1
      BY <1>2, <2>2, <3>1
    <3>2. CASE i \in 1 .. n
      <4>1. Queued(accepted[i]) => fut[accepted[i]] \in {"pending", "cancelled"}
        BY <1>2, <3>2 DEF OrderInv, QueuedUnbegun, Queued, QueueAssumption
      <4>2. accepted[i] \in begun \/ fut[accepted[i]] = "cancelled"
        BY <2>5, <3>2, <4>1 DEF OrderInv, Accounted
      <4>3. accepted'[i] = accepted[i] /\ accepted[i] # c
        BY <1>2, <3>2
      <4> QED BY <1>1, <4>2, <4>3 DEF TypeOK
    <3> QED BY <1>2, <3>1, <3>2
  <2> QED BY <1>6, <2>3, <2>4, <2>6, <2>7 DEF OrderInv
<1> QED BY <1>7, <1>8

\* A worker takes the head: the earliest accepted of those queued.
LEMMA OrderTake ==
    ASSUME QueueAssumption, TypeOK, ThreadInv, OwnerInv, OrderInv, NEW w \in Workers,
           WorkerGets(w) \/ Deliver(w), HeldBegun
    PROVE  OrderInv'
<1>1. TakeNext(w) /\ UNCHANGED accepted
  BY DEF WorkerGets, Deliver
<1>2. \A c \in Callers : fut'[c] = fut[c] \/ (c \in begun /\ fut'[c] # "none")
  <2>1. CASE WorkerGets(w)
    BY <2>1 DEF WorkerGets
  <2>2. CASE Deliver(w)
    BY <2>2 DEF Deliver, ThreadInv, HeldBegun, Busy, TypeOK
  <2> QED BY <2>1, <2>2
<1>3. \A i \in 1 .. Len(accepted) : accepted[i] \in Callers
  BY DEF TypeOK
<1>4. CASE queue = <<>>
  BY <1>1, <1>2, <1>4, OrderKept DEF TakeNext
<1>5. CASE queue # <<>>
  <2> DEFINE h == Head(queue)
             m == Len(queue)
  <2>1. /\ m \in Nat \ {0} /\ h = queue[1] /\ h \in Callers \cup {Nil}
        /\ queue' = Tail(queue) /\ Len(queue') = m - 1
        /\ \A k \in 1 .. m - 1 : queue'[k] = queue[k + 1]
        /\ \A k \in 1 .. m : queue[k] \in Callers \cup {Nil}
    <3>1. queue \in Seq(Callers \cup {Nil})
      BY DEF TypeOK
    <3>2. queue' = Tail(queue)
      BY <1>1, <1>5 DEF TakeNext
    <3>3. \A k \in 1 .. m : queue[k] \in Callers \cup {Nil}
      BY <3>1
    <3> QED BY <1>5, <3>1, <3>2, <3>3, TailFacts
  <2>2. begun' = IF h # Nil THEN begun \cup {h} ELSE begun
    BY <1>1, <1>5 DEF TakeNext
  <2>3. h # Nil => h \notin begun /\ fut[h] # "none"
                   /\ \E i \in 1 .. Len(accepted) : accepted[i] = h
    BY <2>1 DEF OrderInv, QueuedUnbegun
  <2>4. \A k \in 1 .. m - 1 : queue'[k] # Nil => queue'[k] # h
    <3> SUFFICES ASSUME NEW k \in 1 .. m - 1, queue'[k] # Nil, queue'[k] = h
                 PROVE  FALSE
      OBVIOUS
    <3>1. PICK i \in 1 .. Len(accepted) : accepted[i] = h
      BY <2>3
    <3>2. 1 \in 1 .. m /\ k + 1 \in 1 .. m /\ 1 < k + 1 /\ queue[k + 1] = h
      BY <2>1
    <3>3. i < i
      BY <2>1, <3>1, <3>2 DEF OrderInv, QueueOrder
    <3> QED BY <3>3
  <2>5. AcceptedOnce'
    BY <1>1, <1>2, <1>3, <2>2, <2>3, <2>1 DEF OrderInv, AcceptedOnce, TypeOK
  <2>6. QueuedUnbegun'
    <3> SUFFICES ASSUME NEW k \in 1 .. m - 1, queue'[k] # Nil
                 PROVE  /\ queue'[k] \notin begun'
                        /\ \E i \in 1 .. Len(accepted) : accepted[i] = queue'[k]
                        /\ fut'[queue'[k]] \in {"pending", "cancelled"}
      BY <1>1, <2>1 DEF QueuedUnbegun
    <3>1. k + 1 \in 1 .. m /\ queue'[k] = queue[k + 1] /\ queue[k + 1] \in Callers
      BY <2>1
    <3>2. /\ queue[k + 1] \notin begun
          /\ \E i \in 1 .. Len(accepted) : accepted[i] = queue[k + 1]
          /\ fut[queue[k + 1]] \in {"pending", "cancelled"}
      BY <3>1 DEF OrderInv, QueuedUnbegun
    <3> QED BY <1>2, <2>2, <2>4, <3>1, <3>2
  <2>7. QueueOrder'
    <3> SUFFICES ASSUME NEW k \in 1 .. m - 1, NEW l \in 1 .. m - 1,
                        NEW i \in 1 .. Len(accepted), NEW j \in 1 .. Len(accepted),
                        k < l, queue'[k] = accepted[i], queue'[l] = accepted[j]
                 PROVE  i < j
      BY <1>1, <2>1 DEF QueueOrder
    <3>1. k + 1 \in 1 .. m /\ l + 1 \in 1 .. m /\ k + 1 < l + 1
      BY <2>1
    <3> QED BY <2>1, <3>1 DEF OrderInv, QueueOrder
  <2>8. \A c \in Callers : Queued(c) => Queued(c)' \/ c = h
    <3> SUFFICES ASSUME NEW c \in Callers, Queued(c), c # h PROVE Queued(c)'
      OBVIOUS
    <3>1. PICK k \in 1 .. m : queue[k] = c
      BY DEF Queued
    <3>2. k - 1 \in 1 .. m - 1 /\ queue'[k - 1] = c
      BY <2>1, <3>1
    <3> QED BY <2>1, <3>2 DEF Queued
  <2>9. \A c \in Callers : Queued(c)' => Queued(c) /\ c # h
    <3> SUFFICES ASSUME NEW c \in Callers, NEW k \in 1 .. m - 1, queue'[k] = c
                 PROVE  Queued(c) /\ c # h
      BY <2>1 DEF Queued
    <3>1. k + 1 \in 1 .. m /\ queue[k + 1] = c
      BY <2>1
    <3>2. c # Nil
      BY DEF QueueAssumption
    <3> QED BY <2>4, <3>1, <3>2 DEF Queued
  <2>10. QueueFirst'
    <3> SUFFICES ASSUME NEW i \in 1 .. Len(accepted), NEW j \in 1 .. Len(accepted),
                        i < j, Queued(accepted[i]), accepted[i] # h,
                        accepted[j] = h, h # Nil
                 PROVE  FALSE
      BY <1>1, <1>3, <2>2, <2>9 DEF OrderInv, QueueFirst, Queued
    <3>1. PICK k \in 1 .. m : queue[k] = accepted[i]
      BY DEF Queued
    <3>2. 1 \in 1 .. m /\ 1 < k /\ queue[1] = accepted[j]
      BY <2>1, <3>1
    <3>3. j < i
      BY <3>1, <3>2 DEF OrderInv, QueueOrder
    <3> QED BY <3>3
  <2>11. Accounted'
    <3> SUFFICES ASSUME NEW i \in 1 .. Len(accepted)
                 PROVE  \/ accepted[i] \in begun'
                        \/ \E k \in 1 .. Len(queue') : queue'[k] = accepted[i]
                        \/ fut'[accepted[i]] = "cancelled"
      BY <1>1 DEF Accounted, Queued
    <3>1. accepted[i] # Nil
      BY <1>3 DEF QueueAssumption
    <3>2. CASE Queued(accepted[i])
      BY <1>3, <2>2, <2>8, <3>1, <3>2 DEF Queued
    <3>3. CASE ~Queued(accepted[i])
      BY <1>2, <1>3, <2>2, <3>3 DEF OrderInv, Accounted
    <3> QED BY <3>2, <3>3
  <2> QED BY <2>5, <2>6, <2>7, <2>10, <2>11 DEF OrderInv
<1> QED BY <1>4, <1>5

LEMMA OrderPreserved ==
    ASSUME QueueAssumption, TypeOK, ThreadInv, OwnerInv, OrderInv, HeldBegun, [Next]_vars
    PROVE  OrderInv'
<1>1. ASSUME NEW c \in Callers, Cancel(c) PROVE OrderInv'
  <2>1. UNCHANGED <<queue, accepted, begun>>
    BY <1>1 DEF Cancel, queueVars, history
  <2>2. \A d \in Callers : fut'[d] = fut[d] \/ (fut[d] = "pending" /\ fut'[d] = "cancelled")
    BY <1>1 DEF Cancel, TypeOK
  <2> QED BY <2>1, <2>2, OrderKept
<1>2. ASSUME NEW w \in Workers,
             AttemptOk(w) \/ AttemptLocked(w) \/ AttemptFails(w) \/ Retry(w)
      PROVE  OrderInv'
  <2>1. UNCHANGED <<queue, accepted, begun, fut>>
    BY <1>2 DEF AttemptOk, AttemptLocked, AttemptFails, Retry, queueVars, history
  <2> QED BY <2>1, OrderKept
<1>3. CASE Stop
  <2>1. CASE HasLiveWorker
    <3> DEFINE m == Len(queue)
    <3>1. /\ queue' = Append(queue, Nil) /\ UNCHANGED <<accepted, begun, fut>>
          /\ queue \in Seq(Callers \cup {Nil})
      BY <1>3, <2>1 DEF Stop, history, TypeOK
    <3>2. /\ m \in Nat /\ Len(queue') = m + 1 /\ queue'[m + 1] = Nil
          /\ \A k \in 1 .. m : queue'[k] = queue[k]
      BY <3>1, AppendOne
    <3>3. \A i \in 1 .. Len(accepted) : accepted[i] \in Callers /\ accepted[i] # Nil
      BY DEF TypeOK, QueueAssumption
    <3>4. \A c \in Callers : Queued(c)' <=> Queued(c)
      BY <3>2 DEF Queued, QueueAssumption
    <3>5. AcceptedOnce' /\ QueueFirst' /\ Accounted'
      BY <3>1, <3>3, <3>4 DEF OrderInv, AcceptedOnce, QueueFirst, Accounted
    <3>6. QueuedUnbegun'
      BY <3>1, <3>2 DEF OrderInv, QueuedUnbegun
    <3>7. QueueOrder'
      BY <3>1, <3>2, <3>3 DEF OrderInv, QueueOrder
    <3> QED BY <3>5, <3>6, <3>7 DEF OrderInv
  <2>2. CASE ~HasLiveWorker
    <3>1. UNCHANGED <<queue, accepted, begun, fut>>
      BY <1>3, <2>2 DEF Stop, history
    <3> QED BY <3>1, OrderKept
  <2> QED BY <2>1, <2>2
<1>4. CASE StopReturns \/ OpenLoop \/ UNCHANGED vars
  <2>1. UNCHANGED <<queue, accepted, begun, fut>>
    BY <1>4 DEF StopReturns, OpenLoop, vars, queueVars, history
  <2> QED BY <2>1, OrderKept
<1>5. CASE CloseLoop
  <2>1. UNCHANGED <<queue, accepted, begun>>
    BY <1>5 DEF CloseLoop, queueVars, history
  <2>2. \A d \in Callers : fut'[d] = fut[d] \/ (fut[d] = "pending" /\ fut'[d] = "cancelled")
    BY <1>5 DEF CloseLoop
  <2> QED BY <2>1, <2>2, OrderKept
<1> QED
  BY <1>1, <1>2, <1>3, <1>4, <1>5, OrderRun, OrderStart, OrderTake
  DEF Next, CallerStep, WorkerStep, OwnerStep

-----------------------------------------------------------------------------
LEMMA CommitInit == ASSUME QueueAssumption, Init PROVE CommitInv /\ HeldBegun
  BY DEF Init, CommitInv, HeldBegun, Busy, InThread

LEMMA HeldPreserved ==
    ASSUME QueueAssumption, TypeOK, ThreadInv, OwnerInv, OrderInv, HeldBegun, [Next]_vars
    PROVE  HeldBegun'
<1> USE DEF HeldBegun, Busy, InThread, TypeOK
<1>1. ASSUME StartThenPut(<<>>) \/ \E c \in Callers : StartThenPut(<<c>>)
      PROVE  \A w \in Workers : Busy(w)' <=> Busy(w)
  <2>1. \A c \in Callers : <<c>> \in Seq(Callers)
    OBVIOUS
  <2>2. <<>> \in Seq(Callers)
    OBVIOUS
  <2> QED BY <1>1, <2>1, <2>2, StartFacts
<1>2. ASSUME NEW c \in Callers, Run(c) PROVE HeldBegun'
  BY <1>1, <1>2 DEF Run
<1>3. CASE Start
  BY <1>1, <1>3 DEF Start, history
<1>4. ASSUME NEW c \in Callers, Cancel(c) PROVE HeldBegun'
  BY <1>4 DEF Cancel, workerVars, history
<1>5. ASSUME NEW w \in Workers, WorkerGets(w) \/ Deliver(w) PROVE HeldBegun'
  <2>1. TakeNext(w) /\ pc[w] # "off"
    BY <1>5 DEF WorkerGets, Deliver
  <2>2. \A v \in Workers : v # w => pc[v] = "off" /\ pc'[v] = "off"
    BY <2>1 DEF OwnerInv, OneWorker, TakeNext
  <2>3. CASE queue # <<>> /\ Head(queue) # Nil
    <3>1. Head(queue) = queue[1] /\ 1 \in 1 .. Len(queue) /\ Head(queue) \in Callers
      BY <2>3, TailFacts
    <3>2. Head(queue) \notin begun /\ fut[Head(queue)] \in {"pending", "cancelled"}
      BY <2>3, <3>1 DEF OrderInv, QueuedUnbegun
    <3>3. fut'[Head(queue)] = fut[Head(queue)]
      <4>1. CASE WorkerGets(w)
        BY <4>1 DEF WorkerGets
      <4>2. CASE Deliver(w)
        BY <3>2, <4>2 DEF Deliver
      <4> QED BY <1>5, <4>1, <4>2
    <3>4. item'[w] = Head(queue) /\ Head(queue) \in begun'
      BY <2>1, <2>3 DEF TakeNext, Holds
    <3> QED BY <2>2, <3>2, <3>3, <3>4
  <2>4. CASE queue = <<>> \/ Head(queue) = Nil
    <3>1. pc'[w] \in {"off", "wait"}
      BY <2>1, <2>4 DEF TakeNext
    <3> QED BY <2>2, <3>1
  <2> QED BY <2>3, <2>4
<1>6. ASSUME NEW w \in Workers,
             AttemptOk(w) \/ AttemptLocked(w) \/ AttemptFails(w) \/ Retry(w)
      PROVE  HeldBegun'
  BY <1>6 DEF AttemptOk, AttemptLocked, AttemptFails, Retry, ThreadEnds, Holds, history
<1>7. CASE Stop \/ StopReturns \/ OpenLoop \/ UNCHANGED vars
  BY <1>7 DEF Stop, StopReturns, OpenLoop, vars, workerVars, history
<1>8. CASE CloseLoop
  BY <1>8 DEF CloseLoop, history, ThreadInv
<1> QED
  BY <1>2, <1>3, <1>4, <1>5, <1>6, <1>7, <1>8
  DEF Next, CallerStep, WorkerStep, OwnerStep

LEMMA CommitPreserved ==
    ASSUME QueueAssumption, TypeOK, ThreadInv, OwnerInv, OrderInv, HeldBegun, CommitInv,
           [Next]_vars
    PROVE  CommitInv'
<1> USE DEF CommitInv, InThread, TypeOK
<1>1. ASSUME NEW c \in Callers, Run(c) PROVE CommitInv'
  <2>1. <<c>> \in Seq(Callers)
    OBVIOUS
  <2>2. \A w \in Workers : Busy(w)' <=> Busy(w)
    BY <1>1, <2>1, StartFacts DEF Run
  <2>3. \A w \in Workers : Busy(w) => pc'[w] = pc[w]
    BY <1>1 DEF Run, StartThenPut, CreateWorker, DiscardAndCreate, Busy
  <2> QED BY <1>1, <2>2, <2>3 DEF Run, Busy
<1>2. CASE Start
  <2>1. <<>> \in Seq(Callers)
    OBVIOUS
  <2>2. \A w \in Workers : Busy(w)' <=> Busy(w)
    BY <1>2, <2>1, StartFacts DEF Start
  <2>3. \A w \in Workers : Busy(w) => pc'[w] = pc[w]
    BY <1>2 DEF Start, StartThenPut, CreateWorker, DiscardAndCreate, Busy
  <2> QED BY <1>2, <2>2, <2>3 DEF Start, Busy, history
<1>3. ASSUME NEW c \in Callers, Cancel(c) PROVE CommitInv'
  BY <1>3 DEF Cancel, workerVars, history
<1>4. ASSUME NEW w \in Workers, WorkerGets(w) \/ Deliver(w) PROVE CommitInv'
  <2> SUFFICES ASSUME NEW c \in Callers \ MultiCommit
      PROVE  /\ c \notin begun' => applied'[c] = 0
             /\ applied'[c] <= 1
             /\ fut'[c] = "result" => applied'[c] = 1
             /\ fut'[c] = "error" => applied'[c] = 0
             /\ \A v \in Workers : item'[v] = c =>
                  /\ pc'[v] \in {"running", "backoff"} => applied'[c] = 0
                  /\ pc'[v] = "returned" /\ verdict'[v] = "result" => applied'[c] = 1
                  /\ pc'[v] = "returned" /\ verdict'[v] = "error" => applied'[c] = 0
    OBVIOUS
  <2>1. TakeNext(w) /\ pc[w] # "off" /\ applied' = applied
    BY <1>4 DEF WorkerGets, Deliver
  <2>2. \A v \in Workers : v # w => pc[v] = "off" /\ pc'[v] = "off"
    BY <2>1 DEF OwnerInv, OneWorker, TakeNext
  <2>3. \/ fut'[c] = fut[c]
        \/ pc[w] = "returned" /\ item[w] = c /\ fut'[c] = verdict[w]
    <3>1. CASE WorkerGets(w)
      BY <3>1 DEF WorkerGets
    <3>2. CASE Deliver(w)
      BY <3>2 DEF Deliver
    <3> QED BY <1>4, <3>1, <3>2
  <2>4. /\ fut'[c] = "result" => applied'[c] = 1
        /\ fut'[c] = "error" => applied'[c] = 0
    BY <2>1, <2>3
  <2>5. c \notin begun' => applied'[c] = 0
    BY <2>1 DEF TakeNext
  <2>6. \A v \in Workers : item'[v] = c =>
           /\ pc'[v] \in {"running", "backoff"} => applied'[c] = 0
           /\ pc'[v] # "returned"
    <3>1. CASE queue # <<>> /\ Head(queue) # Nil
      <4>1. Head(queue) = queue[1] /\ 1 \in 1 .. Len(queue) /\ Head(queue) \notin begun
        BY <3>1, TailFacts DEF OrderInv, QueuedUnbegun
      <4>2. item'[w] = Head(queue) /\ pc'[w] = "running"
        BY <2>1, <3>1 DEF TakeNext, Holds
      <4> QED BY <2>1, <2>2, <4>1, <4>2
    <3>2. CASE queue = <<>> \/ Head(queue) = Nil
      <4>1. pc'[w] \in {"off", "wait"}
        BY <2>1, <3>2 DEF TakeNext
      <4> QED BY <2>2, <4>1
    <3> QED BY <3>1, <3>2
  <2> QED BY <2>1, <2>4, <2>5, <2>6
<1>5. ASSUME NEW w \in Workers, Retry(w) PROVE CommitInv'
  BY <1>5 DEF Retry, history
<1>6. ASSUME NEW w \in Workers, AttemptOk(w) \/ AttemptLocked(w) \/ AttemptFails(w)
      PROVE  CommitInv'
  <2>1. /\ pc[w] = "running" /\ item[w] \in begun
        /\ item[w] \in Callers /\ fut[item[w]] \in {"pending", "cancelled"}
        /\ UNCHANGED <<fut, begun>>
    BY <1>6 DEF AttemptOk, AttemptLocked, AttemptFails, HeldBegun, Busy, ThreadInv
  <2>2. \A v \in Workers : v # w => pc[v] = "off" /\ pc'[v] = "off"
    BY <1>6, <2>1
    DEF OwnerInv, OneWorker, AttemptOk, AttemptLocked, AttemptFails, ThreadEnds
  <2>3. \A c \in Callers : c # item[w] => applied'[c] = applied[c]
    BY <1>6 DEF AttemptOk, AttemptLocked, AttemptFails, Commits
  <2>4. CASE AttemptOk(w)
    <3>1. applied'[item[w]] = applied[item[w]] + 1
      BY <2>1, <2>4 DEF AttemptOk, Commits
    <3>2. \/ pc'[w] = "off"
          \/ pc'[w] = "returned" /\ verdict'[w] = "result" /\ item'[w] = item[w]
      BY <2>4 DEF AttemptOk, ThreadEnds
    <3> QED BY <2>1, <2>2, <2>3, <3>1, <3>2
  <2>5. CASE AttemptLocked(w) \/ AttemptFails(w)
    <3>1. item[w] \notin MultiCommit => applied'[item[w]] = applied[item[w]]
      BY <2>1, <2>5 DEF AttemptLocked, AttemptFails, Commits, PartialCommits
    <3>2. \/ pc'[w] = "off"
          \/ pc'[w] = "backoff" /\ item'[w] = item[w]
          \/ pc'[w] = "returned" /\ verdict'[w] = "error" /\ item'[w] = item[w]
      BY <2>5 DEF AttemptLocked, AttemptFails, ThreadEnds
    <3>3. \A c \in Callers \ MultiCommit : applied'[c] = applied[c]
      BY <2>3, <3>1
    <3>4. item[w] \notin MultiCommit => applied[item[w]] = 0
      BY <2>1
    <3> QED BY <2>1, <2>2, <3>2, <3>3, <3>4
  <2> QED BY <1>6, <2>4, <2>5
<1>7. CASE Stop \/ StopReturns \/ OpenLoop \/ UNCHANGED vars
  BY <1>7 DEF Stop, StopReturns, OpenLoop, vars, workerVars, history
<1>8. CASE CloseLoop
  BY <1>8 DEF CloseLoop, history, QueueAssumption
<1> QED
  BY <1>1, <1>2, <1>3, <1>4, <1>5, <1>6, <1>7, <1>8
  DEF Next, CallerStep, WorkerStep, OwnerStep

-----------------------------------------------------------------------------
(* The inductive invariant, and what follows from it.                      *)
IInv == TypeOK /\ ThreadInv /\ OwnerInv /\ OrderInv /\ HeldBegun /\ CommitInv

LEMMA Inductive == Spec => []IInv
<1>1. Init => IInv
  BY QueueAssumption, TypeInit, OwnerInit, OrderInit, CommitInit DEF IInv
<1>2. IInv /\ [Next]_vars => IInv'
  BY QueueAssumption, TypeStep, OwnerPreserved, OrderPreserved, HeldPreserved,
     CommitPreserved DEF IInv
<1> QED
  BY <1>1, <1>2, PTL DEF Spec

\* At most one job is in a thread at any time: no sequence of starts, stops,
\* closed loops and discarded workers gives the queue a second writer.
THEOREM OneWriter == Spec => []Serialized
<1>1. IInv => Serialized
  BY QueueAssumption, OwnerSafe DEF IInv
<1> QED
  BY <1>1, Inductive, PTL

\* A waiting caller's job is held by the live worker or lies in the queue the
\* live worker reads with no sentinel before it.
THEOREM NobodyStranded == Spec => []NeverStranded
<1>1. IInv => NeverStranded
  BY QueueAssumption, OwnerSafe DEF IInv
<1> QED
  BY <1>1, Inductive, PTL

\* Jobs begin in the order run() accepted them.
THEOREM InOrder == Spec => []NoOvertaking
<1>1. ASSUME TypeOK, OrderInv PROVE NoOvertaking
  <2>1. \A i \in 1 .. Len(accepted) : accepted[i] \in Callers
    BY <1>1 DEF TypeOK
  <2> QED BY <1>1, <2>1 DEF OrderInv, QueueFirst, Accounted, NoOvertaking
<1> QED
  BY <1>1, Inductive, PTL DEF IInv

\* A job that commits once is committed at most once under any number of
\* retries, and the caller is told the truth.
THEOREM OnceOnly == Spec => []AtMostOnce
<1>1. CommitInv => AtMostOnce
  BY DEF CommitInv, AtMostOnce
<1> QED
  BY <1>1, Inductive, PTL DEF IInv

-----------------------------------------------------------------------------
(* The queue implements the serial executor.                               *)

LEMMA EmptySeqLen == ASSUME NEW S, NEW q \in Seq(S), Len(q) # 0 PROVE q # <<>> /\ Head(q) = q[1]
OBVIOUS

\* Jobs drops a sentinel and nothing else.
LEMMA JobsNone ==
    ASSUME NEW S, NEW q \in Seq(S), \A i \in 1 .. Len(q) : q[i] # Nil
    PROVE  Jobs(q) = q
<1>1. Len(q) \in Nat /\ (q # <<>> => Len(q) \in 1 .. Len(q))
  OBVIOUS
<1> QED
  BY <1>1 DEF Jobs

LEMMA JobsAppended ==
    ASSUME NEW S, NEW q \in Seq(S), Nil \in S
    PROVE  Jobs(Append(q, Nil)) = q
<1>1. PICK n \in Nat : n = Len(q)
  OBVIOUS
<1>2. PICK p : p = Append(q, Nil)
  OBVIOUS
<1>3. p \in Seq(S) /\ p # <<>> /\ Len(p) = n + 1 /\ p[n + 1] = Nil
      /\ \A i \in 1 .. n : p[i] = q[i]
  BY <1>1, <1>2, AppendOne
<1>4. SubSeq(p, 1, n) = q
  <2>1. SubSeq(p, 1, n) = [i \in 1 .. n |-> p[i]]
    BY <1>1, <1>3
  <2>2. q = [i \in 1 .. n |-> q[i]]
    BY <1>1
  <2> QED
    BY <1>3, <2>1, <2>2
<1> QED
  BY <1>2, <1>3, <1>4 DEF Jobs

\* The first job is the first of the queue, and the others are the rest.
LEMMA JobsTail ==
    ASSUME NEW S, NEW q \in Seq(S), q # <<>>, q[1] # Nil
    PROVE  /\ Jobs(q) # <<>> /\ Head(Jobs(q)) = Head(q)
           /\ Tail(Jobs(q)) = Jobs(Tail(q))
<1>1. PICK n \in Nat : n = Len(q) /\ n >= 1
  OBVIOUS
<1>2. PICK t : t = Tail(q)
  OBVIOUS
<1>3. t \in Seq(S) /\ Len(t) = n - 1 /\ \A i \in 1 .. n - 1 : t[i] = q[i + 1]
  BY <1>1, <1>2
<1>4. t # <<>> <=> n > 1
  BY <1>1, <1>3
<1>5. CASE q[n] # Nil
  <2>1. Jobs(q) = q
    BY <1>1, <1>5 DEF Jobs
  <2>2. t # <<>> => t[Len(t)] = q[n]
    <3>1. n > 1 => n - 1 \in 1 .. n - 1 /\ (n - 1) + 1 = n
      OBVIOUS
    <3> QED
      BY <1>3, <1>4, <3>1
  <2>3. Jobs(t) = t
    BY <1>5, <2>2 DEF Jobs
  <2> QED
    BY <1>2, <2>1, <2>3
<1>6. CASE q[n] = Nil
  <2>1. n > 1
    BY <1>1, <1>6
  <2>2. PICK p : p = SubSeq(q, 1, n - 1)
    OBVIOUS
  <2>3. Jobs(q) = p
    BY <1>1, <1>6, <2>2 DEF Jobs
  <2>4. p \in Seq(S) /\ Len(p) = n - 1 /\ \A i \in 1 .. n - 1 : p[i] = q[i]
    BY <1>1, <2>1, <2>2
  <2>5. p # <<>> /\ Head(p) = q[1]
    <3>1. 1 \in 1 .. n - 1 /\ n - 1 # 0
      BY <2>1
    <3>2. Len(p) # 0 /\ p[1] = q[1]
      BY <2>4, <3>1
    <3> QED
      BY <2>4, <3>2, EmptySeqLen
  <2>6. t[Len(t)] = Nil /\ t # <<>>
    <3>1. n - 1 \in 1 .. n - 1 /\ (n - 1) + 1 = n
      BY <2>1
    <3> QED
      BY <1>3, <1>4, <1>6, <2>1, <3>1
  <2>7. PICK u : u = SubSeq(t, 1, n - 2)
    OBVIOUS
  <2>8. Jobs(t) = u
    <3>1. Len(t) - 1 = n - 2
      BY <1>3
    <3> QED
      BY <2>6, <2>7, <3>1 DEF Jobs
  <2>9. u = [i \in 1 .. n - 2 |-> t[i]]
    BY <1>3, <2>1, <2>7
  <2>10. Tail(p) = [i \in 1 .. n - 2 |-> p[i + 1]]
    <3>1. PICK r : r = Tail(p)
      OBVIOUS
    <3>2. r \in Seq(S) /\ Len(r) = n - 2 /\ \A i \in 1 .. n - 2 : r[i] = p[i + 1]
      <4>1. Len(p) - 1 = n - 2
        BY <2>4
      <4> QED
        BY <2>4, <2>5, <3>1, <4>1, TailFacts
    <3>3. r = [i \in 1 .. n - 2 |-> r[i]]
      BY <3>2
    <3> QED
      BY <3>1, <3>2, <3>3
  <2>11. \A i \in 1 .. n - 2 : t[i] = p[i + 1]
    <3> SUFFICES ASSUME NEW i \in 1 .. n - 2 PROVE t[i] = p[i + 1]
      OBVIOUS
    <3>1. i \in 1 .. n - 1 /\ i + 1 \in 1 .. n - 1
      OBVIOUS
    <3> QED
      BY <1>3, <2>4, <3>1
  <2>12. Tail(p) = u
    BY <2>9, <2>10, <2>11
  <2> QED
    BY <1>2, <2>3, <2>5, <2>8, <2>12
<1> QED
  BY <1>5, <1>6

\* The one served is the caller whose job the busy worker holds.
LEMMA ServingFacts ==
    ASSUME OneWorker
    PROVE  /\ \A w \in Workers : Busy(w) => AbsServing = <<item[w]>>
           /\ (\A w \in Workers : ~Busy(w)) => AbsServing = <<>>
<1>1. ASSUME NEW w \in Workers, Busy(w) PROVE AbsServing = <<item[w]>>
  <2>1. \A v \in Workers : Busy(v) => v = workerTask
    BY DEF OneWorker, Busy, InThread
  <2>2. (CHOOSE v \in Workers : Busy(v)) = w
    BY <1>1, <2>1
  <2> QED
    BY <1>1, <2>2 DEF AbsServing
<1>2. (\A w \in Workers : ~Busy(w)) => AbsServing = <<>>
  BY DEF AbsServing
<1> QED
  BY <1>1, <1>2

\* As long as the same workers are busy with the same jobs, the same caller
\* is served.
LEMMA ServingKept ==
    ASSUME OneWorker, OneWorker',
           \A w \in Workers : Busy(w)' <=> Busy(w),
           \A w \in Workers : Busy(w) => item'[w] = item[w]
    PROVE  AbsServing' = AbsServing
<1>1. CASE \E w \in Workers : Busy(w)
  <2>1. PICK w \in Workers : Busy(w)
    BY <1>1
  <2>2. AbsServing = <<item[w]>>
    BY <2>1, ServingFacts
  <2>3. (CHOOSE v \in Workers : Busy(v)') = w
    <3>1. \A v \in Workers : Busy(v)' => v = w
      BY <2>1 DEF OneWorker, Busy, InThread
    <3> QED
      BY <2>1, <3>1
  <2>4. AbsServing' = <<item'[w]>>
    BY <2>1, <2>3 DEF AbsServing
  <2> QED
    BY <2>1, <2>2, <2>4
<1>2. CASE \A w \in Workers : ~Busy(w)
  BY <1>2 DEF AbsServing
<1> QED
  BY <1>1, <1>2

LEMMA EmptyLine == \A S : <<>> \in Seq(S)
OBVIOUS

\* A live queue that stop() does not wait for holds jobs only.
LEMMA LineFacts ==
    ASSUME IInv
    PROVE  /\ loopOpen /\ HasLiveWorker /\ ~stopping => AbsLine = queue
           /\ ~(loopOpen /\ HasLiveWorker) => AbsLine = <<>>
<1>1. ASSUME loopOpen, HasLiveWorker, ~stopping PROVE AbsLine = queue
  <2>1. queue \in Seq(Callers \cup {Nil}) /\ \A i \in 1 .. Len(queue) : queue[i] # Nil
    BY <1>1 DEF IInv, TypeOK, OwnerInv, Sentinel
  <2>2. Jobs(queue) = queue
    BY <2>1, JobsNone
  <2> QED
    BY <1>1, <2>2 DEF AbsLine
<1> QED
  BY <1>1 DEF AbsLine

\* start() puts nothing but its items in line.
LEMMA StartLines ==
    ASSUME QueueAssumption, IInv, IInv', NEW items \in Seq(Callers), StartThenPut(items),
           loopOpen, loopOpen', ~stopping, ~stopping', item' = item
    PROVE  /\ AbsLine' = AbsLine \o items
           /\ AbsServing' = AbsServing
<1>1. /\ HasLiveWorker'
      /\ HasLiveWorker => queue' = queue \o items
      /\ ~HasLiveWorker => queue' = items
      /\ \A w \in Workers : Busy(w)' <=> Busy(w)
  BY StartFacts DEF IInv
<1>2. AbsLine' = queue'
  <2>1. queue' \in Seq(Callers \cup {Nil}) /\ \A i \in 1 .. Len(queue') : queue'[i] # Nil
    BY <1>1 DEF IInv, TypeOK, OwnerInv, Sentinel
  <2>2. Jobs(queue)' = queue'
    <3>1. PICK q : q = queue'
      OBVIOUS
    <3>2. Jobs(q) = q
      BY <2>1, <3>1, JobsNone
    <3> QED
      BY <3>1, <3>2 DEF Jobs
  <2> QED
    BY <1>1, <2>2 DEF AbsLine
<1>3. AbsLine' = AbsLine \o items
  <2>1. CASE HasLiveWorker
    BY <1>1, <1>2, <2>1, LineFacts
  <2>2. CASE ~HasLiveWorker
    BY <1>1, <1>2, <2>2, LineFacts
  <2> QED
    BY <2>1, <2>2
<1>4. AbsServing' = AbsServing
  BY <1>1, ServingKept DEF IInv, OwnerInv
<1> QED
  BY <1>3, <1>4

LEMMA RunSubmits ==
    ASSUME QueueAssumption, IInv, IInv', NEW c \in Callers, Run(c)
    PROVE  Executor!Submit(c)
<1>1. /\ loopOpen /\ ~stopping /\ fut[c] = "none" /\ StartThenPut(<<c>>)
      /\ fut' = [fut EXCEPT ![c] = "pending"]
      /\ item' = item /\ loopOpen' = loopOpen /\ stopping' = stopping
  BY DEF Run
<1>2. AbsLine' = AbsLine \o <<c>> /\ AbsServing' = AbsServing
  <2>1. <<c>> \in Seq(Callers)
    OBVIOUS
  <2> QED
    BY <1>1, <2>1, StartLines
<1>3. AbsLine \in Seq(Callers \cup {Nil})
  <2>1. queue \in Seq(Callers \cup {Nil})
    BY DEF IInv, TypeOK
  <2> QED
    BY <1>1, <2>1, LineFacts, EmptyLine
<1>4. AbsLine \o <<c>> = Append(AbsLine, c)
  BY <1>3
<1> QED
  BY <1>1, <1>2, <1>4 DEF Executor!Submit

LEMMA StartStutters ==
    ASSUME QueueAssumption, IInv, IInv', Start
    PROVE  UNCHANGED Executor!vars
<1>1. /\ loopOpen /\ ~stopping /\ ~HasLiveWorker /\ StartThenPut(<<>>) /\ fut' = fut
      /\ item' = item /\ loopOpen' = loopOpen /\ stopping' = stopping
  BY DEF Start
<1>2. AbsLine' = AbsLine \o <<>> /\ AbsServing' = AbsServing
  <2>1. <<>> \in Seq(Callers)
    OBVIOUS
  <2> QED
    BY <1>1, <2>1, StartLines
<1>3. AbsLine = <<>> /\ <<>> \o <<>> = <<>>
  <2>1. <<>> \in Seq(Callers)
    OBVIOUS
  <2> QED
    BY <1>1, <2>1, LineFacts, ConcatNone
<1> QED
  BY <1>1, <1>2, <1>3 DEF Executor!vars

\* A worker that takes the next item begins the next turn, or finds no job.
LEMMA TakeTurns ==
    ASSUME QueueAssumption, IInv, IInv', NEW w \in Workers, TakeNext(w),
           loopOpen, pc[w] # "off", ~InThread(w),
           UNCHANGED <<workerTask, loopOpen>>
    PROVE  \/ AbsLine # <<>> /\ AbsServing' = <<Head(AbsLine)>> /\ AbsLine' = Tail(AbsLine)
           \/ AbsLine = <<>> /\ AbsServing' = <<>> /\ AbsLine' = <<>>
<1>1. w = workerTask /\ HasLiveWorker
  BY DEF IInv, OwnerInv, OneWorker, HasLiveWorker, QueueAssumption
<1>2. queue \in Seq(Callers \cup {Nil}) /\ AbsLine = Jobs(queue)
      /\ pc \in [Workers -> WorkerPC] /\ item \in [Workers -> Callers \cup {Nil}]
  BY <1>1 DEF IInv, TypeOK, AbsLine
<1>3. \A v \in Workers : v # w => ~Busy(v)'
  <2>1. \A v \in Workers : v # w => pc'[v] = "off"
    BY <1>1 DEF IInv, OwnerInv, OneWorker
  <2> QED
    BY <2>1 DEF Busy, InThread
<1>4. OneWorker'
  BY DEF IInv, OwnerInv
<1>5. CASE queue # <<>> /\ Head(queue) # Nil
  <2>1. queue' = Tail(queue) /\ pc'[w] = "running" /\ item'[w] = Head(queue)
    BY <1>2, <1>5 DEF TakeNext, Holds
  <2>2. AbsServing' = <<Head(queue)>>
    <3>1. Busy(w)'
      BY <2>1 DEF Busy, InThread
    <3>2. (CHOOSE v \in Workers : Busy(v)') = w
      BY <1>3, <3>1
    <3> QED
      BY <2>1, <3>1, <3>2 DEF AbsServing
  <2>3. HasLiveWorker'
    BY <1>1, <2>1 DEF HasLiveWorker
  <2>4. AbsLine' = Jobs(Tail(queue))
    BY <2>1, <2>3 DEF AbsLine, Jobs
  <2>5. queue[1] # Nil
    BY <1>2, <1>5, TailFacts
  <2>6. Jobs(queue) # <<>> /\ Head(Jobs(queue)) = Head(queue)
        /\ Tail(Jobs(queue)) = Jobs(Tail(queue))
    BY <1>2, <1>5, <2>5, JobsTail
  <2> QED
    BY <1>2, <2>2, <2>4, <2>6
<1>6. CASE queue = <<>> \/ Head(queue) = Nil
  <2>1. pc'[w] \in {"off", "wait"}
    BY <1>2, <1>6 DEF TakeNext
  <2>2. AbsServing' = <<>>
    <3>1. ~Busy(w)'
      BY <2>1 DEF Busy, InThread
    <3> QED
      BY <1>3, <3>1 DEF AbsServing
  <2>3. CASE queue = <<>>
    <3>1. queue' = <<>> /\ Jobs(<<>>) = <<>>
      BY <2>3 DEF TakeNext, Jobs
    <3> QED
      BY <1>2, <2>2, <2>3, <3>1 DEF AbsLine, Jobs
  <2>4. CASE queue # <<>> /\ Head(queue) = Nil
    <3>1. Len(queue) \in Nat \ {0} /\ queue[1] = Nil
      BY <1>2, <2>4, TailFacts
    <3>2. Len(queue) = 1
      <4>1. PICK n \in Nat \ {0} : n = Len(queue)
        BY <3>1
      <4>2. ~(1 \in 1 .. n - 1)
        BY <1>1, <3>1, <4>1 DEF IInv, OwnerInv, Sentinel
      <4> QED
        BY <4>1, <4>2
    <3>3. Jobs(queue) = <<>>
      <4>1. Jobs(queue) = SubSeq(queue, 1, 0)
        BY <2>4, <3>1, <3>2 DEF Jobs
      <4> QED
        BY <1>2, <4>1
    <3>4. pc'[w] = "off"
      BY <1>2, <2>4 DEF TakeNext
    <3>5. ~HasLiveWorker'
      BY <1>1, <3>4 DEF HasLiveWorker
    <3>6. AbsLine' = <<>>
      BY <3>5 DEF AbsLine
    <3> QED
      BY <1>2, <2>2, <3>3, <3>6
  <2> QED
    BY <1>6, <2>3, <2>4
<1> QED
  BY <1>5, <1>6

LEMMA WorkerGetsTurns ==
    ASSUME QueueAssumption, IInv, IInv', NEW w \in Workers, WorkerGets(w)
    PROVE  Executor!Turn \/ UNCHANGED Executor!vars
<1>1. /\ loopOpen /\ pc[w] \in {"new", "wait"} /\ TakeNext(w)
      /\ fut' = fut /\ workerTask' = workerTask /\ loopOpen' = loopOpen
  BY DEF WorkerGets, ownerVars
<1>2. \/ AbsLine # <<>> /\ AbsServing' = <<Head(AbsLine)>> /\ AbsLine' = Tail(AbsLine)
      \/ AbsLine = <<>> /\ AbsServing' = <<>> /\ AbsLine' = <<>>
  <2>1. pc[w] # "off" /\ ~InThread(w)
    BY <1>1 DEF InThread
  <2> QED
    BY <1>1, <2>1, TakeTurns
<1>3. AbsServing = <<>>
  <2>1. \A v \in Workers : ~Busy(v)
    BY <1>1 DEF IInv, OwnerInv, OneWorker, Busy, InThread
  <2> QED
    BY <2>1 DEF AbsServing
<1> QED
  BY <1>1, <1>2, <1>3 DEF Executor!Turn, Executor!Answer, Executor!vars

LEMMA DeliverTurns ==
    ASSUME QueueAssumption, IInv, IInv', NEW w \in Workers, Deliver(w)
    PROVE  Executor!Turn
<1>1. /\ loopOpen /\ pc[w] = "returned" /\ TakeNext(w)
      /\ fut' = IF fut[item[w]] = "pending"
                THEN [fut EXCEPT ![item[w]] = verdict[w]] ELSE fut
      /\ workerTask' = workerTask /\ loopOpen' = loopOpen
  BY DEF Deliver, ownerVars
<1>2. \/ AbsLine # <<>> /\ AbsServing' = <<Head(AbsLine)>> /\ AbsLine' = Tail(AbsLine)
      \/ AbsLine = <<>> /\ AbsServing' = <<>> /\ AbsLine' = <<>>
  <2>1. pc[w] # "off" /\ ~InThread(w)
    BY <1>1 DEF InThread
  <2> QED
    BY <1>1, <2>1, TakeTurns
<1>3. AbsServing = <<item[w]>>
  <2>1. Busy(w)
    BY <1>1 DEF Busy
  <2> QED
    BY <2>1, ServingFacts DEF IInv, OwnerInv
<1>4. verdict[w] \in {"result", "error"}
  BY <1>1 DEF IInv, ThreadInv
<1>5. AbsServing # <<>> /\ AbsServing[1] = item[w]
  BY <1>3
<1>6. Executor!Answer
  <2>1. CASE fut[item[w]] = "pending"
    BY <1>1, <1>4, <1>5, <2>1 DEF Executor!Answer
  <2>2. CASE fut[item[w]] # "pending"
    BY <1>1, <1>5, <2>2 DEF Executor!Answer
  <2> QED
    BY <2>1, <2>2
<1> QED
  BY <1>2, <1>5, <1>6 DEF Executor!Turn

\* A step after which there is no line and whoever is served stays or goes,
\* with the waiting callers given up.
LEMMA AllGiveUp ==
    ASSUME IInv, AbsLine' = <<>>, AbsServing' = AbsServing \/ AbsServing' = <<>>,
           fut' = [c \in Callers |-> IF fut[c] = "pending" THEN "cancelled" ELSE fut[c]]
    PROVE  Executor!Disband
  BY DEF Executor!Disband

\* What happens in the thread shows only if the loop has closed.
LEMMA ThreadStutters ==
    ASSUME QueueAssumption, IInv, IInv', NEW w \in Workers,
           AttemptOk(w) \/ AttemptLocked(w) \/ AttemptFails(w) \/ Retry(w)
    PROVE  Executor!Disband \/ UNCHANGED Executor!vars
<1>1. /\ InThread(w)
      /\ queue' = queue /\ workerTask' = workerTask /\ fut' = fut /\ loopOpen' = loopOpen
  BY DEF AttemptOk, AttemptLocked, AttemptFails, Retry, InThread, queueVars, ownerVars
<1>2. /\ \A v \in Workers : v # w => pc'[v] = pc[v] /\ item'[v] = item[v]
      /\ \/ ~loopOpen /\ pc'[w] = "off"
         \/ pc'[w] \in {"running", "backoff", "returned"} /\ item'[w] = item[w]
  <2>1. pc \in [Workers -> WorkerPC] /\ item \in [Workers -> Callers \cup {Nil}]
    BY DEF IInv, TypeOK
  <2> QED
    BY <2>1 DEF AttemptOk, AttemptLocked, AttemptFails, Retry, ThreadEnds, Holds
<1>3. CASE pc'[w] \in {"running", "backoff", "returned"} /\ item'[w] = item[w]
  <2>1. \A v \in Workers : Busy(v)' <=> Busy(v)
    BY <1>1, <1>2, <1>3 DEF Busy, InThread
  <2>2. AbsServing' = AbsServing
    BY <1>2, <1>3, <2>1, ServingKept DEF IInv, OwnerInv
  <2>3. HasLiveWorker' <=> HasLiveWorker
    <3>1. w = workerTask /\ pc[w] # "off" /\ pc'[w] # "off"
      BY <1>1, <1>3 DEF InThread, IInv, OwnerInv, OneWorker
    <3> QED
      BY <1>1, <3>1 DEF HasLiveWorker
  <2>4. AbsLine' = AbsLine
    BY <1>1, <2>3 DEF AbsLine, Jobs
  <2> QED
    BY <1>1, <2>2, <2>4 DEF Executor!vars
<1>4. CASE ~loopOpen /\ pc'[w] = "off"
  <2>1. AbsLine' = <<>>
    BY <1>1, <1>4 DEF AbsLine
  <2>2. AbsServing' = <<>>
    <3>1. \A v \in Workers : pc'[v] = "off"
      BY <1>1, <1>2, <1>4 DEF IInv, OwnerInv, OneWorker, InThread
    <3> QED
      BY <3>1 DEF AbsServing, Busy, InThread
  <2>3. fut' = [c \in Callers |-> IF fut[c] = "pending" THEN "cancelled" ELSE fut[c]]
    <3>1. \A c \in Callers : fut[c] # "pending"
      BY <1>4 DEF IInv, OwnerInv, Closing
    <3>2. fut = [c \in Callers |-> fut[c]]
      BY DEF IInv, TypeOK
    <3> QED
      BY <1>1, <3>1, <3>2
  <2> QED
    BY <2>1, <2>2, <2>3, AllGiveUp
<1> QED
  BY <1>2, <1>3, <1>4

LEMMA CancelGivesUp ==
    ASSUME IInv, IInv', NEW c \in Callers, Cancel(c)
    PROVE  Executor!GiveUp(c)
<1>1. /\ fut[c] = "pending" /\ fut' = [fut EXCEPT ![c] = "cancelled"]
      /\ queue' = queue /\ workerTask' = workerTask /\ pc' = pc /\ item' = item
      /\ loopOpen' = loopOpen
  BY DEF Cancel, queueVars, workerVars, ownerVars
<1>2. AbsServing' = AbsServing /\ AbsLine' = AbsLine
  BY <1>1 DEF AbsServing, AbsLine, HasLiveWorker, Busy, InThread, Jobs
<1> QED
  BY <1>1, <1>2 DEF Executor!GiveUp

\* What the owner does shows only when it closes the loop.
LEMMA OwnerStutters ==
    ASSUME QueueAssumption, IInv, IInv', Stop \/ StopReturns \/ CloseLoop \/ OpenLoop
    PROVE  Executor!Disband \/ UNCHANGED Executor!vars
<1>1. CASE Stop \/ StopReturns \/ OpenLoop
  <2>1. pc' = pc /\ item' = item /\ fut' = fut
    BY <1>1 DEF Stop, StopReturns, OpenLoop, workerVars
  <2>2. AbsServing' = AbsServing
    BY <2>1 DEF AbsServing, Busy, InThread
  <2>3. AbsLine' = AbsLine
    <3>1. CASE Stop /\ HasLiveWorker
      <4>1. /\ loopOpen /\ ~stopping /\ queue' = Append(queue, Nil)
            /\ workerTask' = workerTask /\ loopOpen' = loopOpen
        BY <3>1 DEF Stop
      <4>2. HasLiveWorker'
        BY <2>1, <3>1, <4>1 DEF HasLiveWorker
      <4>3. queue \in Seq(Callers \cup {Nil}) /\ Nil \in Callers \cup {Nil}
        BY DEF IInv, TypeOK
      <4>4. AbsLine' = Jobs(Append(queue, Nil))
        BY <4>1, <4>2 DEF AbsLine, Jobs
      <4>5. Jobs(Append(queue, Nil)) = queue
        BY <4>3, JobsAppended
      <4> QED
        BY <3>1, <4>1, <4>4, <4>5, LineFacts
    <3>2. CASE (Stop /\ ~HasLiveWorker) \/ StopReturns
      <4>1. ~HasLiveWorker /\ ~HasLiveWorker'
        BY <3>2 DEF Stop, StopReturns, HasLiveWorker
      <4> QED
        BY <4>1 DEF AbsLine
    <3>3. CASE OpenLoop
      <4>1. ~loopOpen /\ \A w \in Workers : pc[w] = "off"
        BY <3>3 DEF OpenLoop
      <4>2. ~HasLiveWorker'
        BY <2>1, <4>1 DEF HasLiveWorker, IInv, TypeOK
      <4> QED
        BY <4>1, <4>2 DEF AbsLine
    <3> QED
      BY <1>1, <3>1, <3>2, <3>3
  <2> QED
    BY <2>1, <2>2, <2>3 DEF Executor!vars
<1>2. CASE CloseLoop
  <2>1. /\ loopOpen' = FALSE
        /\ fut' = [c \in Callers |-> IF fut[c] = "pending" THEN "cancelled" ELSE fut[c]]
        /\ pc' = [w \in Workers |-> IF InThread(w) THEN pc[w] ELSE "off"]
        /\ item' = [w \in Workers |-> IF InThread(w) THEN item[w] ELSE Nil]
    BY <1>2 DEF CloseLoop
  <2>2. AbsLine' = <<>>
    BY <2>1 DEF AbsLine
  <2>3. CASE \E w \in Workers : InThread(w)
    <3>1. \A w \in Workers : Busy(w)' <=> Busy(w)
      BY <2>1, <2>3 DEF Busy, InThread, IInv, OwnerInv, OneWorker
    <3>2. \A w \in Workers : Busy(w) => item'[w] = item[w]
      BY <2>1, <2>3 DEF Busy, InThread, IInv, OwnerInv, OneWorker
    <3>3. AbsServing' = AbsServing
      BY <3>1, <3>2, ServingKept DEF IInv, OwnerInv
    <3> QED
      BY <2>1, <2>2, <3>3, AllGiveUp
  <2>4. CASE \A w \in Workers : ~InThread(w)
    <3>1. \A w \in Workers : pc'[w] = "off"
      BY <2>1, <2>4
    <3>2. AbsServing' = <<>>
      BY <3>1 DEF AbsServing, Busy, InThread
    <3> QED
      BY <2>1, <2>2, <3>2, AllGiveUp
  <2> QED
    BY <2>3, <2>4
<1> QED
  BY <1>1, <1>2

LEMMA ExecutorInit == ASSUME Init PROVE Executor!Init
<1>1. AbsLine = <<>>
  BY DEF Init, AbsLine, HasLiveWorker
<1>2. AbsServing = <<>>
  BY DEF Init, AbsServing, Busy, InThread
<1> QED
  BY <1>1, <1>2 DEF Init, Executor!Init

LEMMA ExecutorStep ==
    ASSUME QueueAssumption, IInv, IInv', [Next]_vars
    PROVE  [Executor!Next]_(Executor!vars)
<1>1. CASE UNCHANGED vars
  <2>1. /\ queue' = queue /\ workerTask' = workerTask /\ pc' = pc /\ item' = item
        /\ loopOpen' = loopOpen /\ fut' = fut
    BY <1>1 DEF vars, queueVars, workerVars, ownerVars
  <2>2. AbsServing' = AbsServing /\ AbsLine' = AbsLine
    BY <2>1 DEF AbsServing, AbsLine, HasLiveWorker, Busy, InThread, Jobs
  <2> QED
    BY <2>1, <2>2 DEF Executor!vars
<1>2. ASSUME NEW c \in Callers, Run(c) \/ Cancel(c) PROVE Executor!Next
  <2>1. Executor!Submit(c) \/ Executor!GiveUp(c)
    BY <1>2, RunSubmits, CancelGivesUp
  <2> QED
    BY <2>1 DEF Executor!Next
<1>3. ASSUME NEW w \in Workers, WorkerStep(w) PROVE [Executor!Next]_(Executor!vars)
  <2>1. Executor!Turn \/ Executor!Disband \/ UNCHANGED Executor!vars
    BY <1>3, WorkerGetsTurns, DeliverTurns, ThreadStutters DEF WorkerStep
  <2> QED
    BY <2>1 DEF Executor!Next
<1>4. CASE OwnerStep
  <2>1. Executor!Disband \/ UNCHANGED Executor!vars
    BY <1>4, StartStutters, OwnerStutters DEF OwnerStep
  <2> QED
    BY <2>1 DEF Executor!Next
<1> QED
  BY <1>1, <1>2, <1>3, <1>4 DEF Next, CallerStep

\* For any callers, workers and retry limit, run(), start(), stop(), the
\* worker task and its threads, and loops that come and go, implement the
\* serial executor: every step is one of its steps or changes nothing that
\* a caller sees.
THEOREM SerialExecution == Spec => ImplementsExecutor
<1>1. Init => Executor!Init
  BY ExecutorInit
<1>2. IInv /\ IInv' /\ [Next]_vars => [Executor!Next]_(Executor!vars)
  BY QueueAssumption, ExecutorStep
<1> QED
  BY <1>1, <1>2, Inductive, PTL DEF Spec, ImplementsExecutor, Executor!Spec
=============================================================================
