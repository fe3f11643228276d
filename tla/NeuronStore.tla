---------------------------- MODULE NeuronStore ----------------------------
(***************************************************************************)
(* The life of a memory neuron: remembered, captured, corrected, archived, *)
(* consolidated and reviewed by several processes (MCP server, hooks, CLI, *)
(* dashboard) on one SQLite file and one directory of pending reviews.     *)
(*                                                                         *)
(* Temporal state is what the audit_log triggers make of the events, so a  *)
(* neuron's log stands for its valid_until.  A SELECT before the first DML *)
(* of a connection runs in autocommit: it reads committed state and        *)
(* protects nothing, so it is a step of its own.  From its first DML to    *)
(* its COMMIT a process holds SQLite's write lock, so a transaction is one *)
(* step on committed state, unless, as in capture, it writes files on the  *)
(* way; then it is a span of steps that keeps other writers out.           *)
(***************************************************************************)
EXTENDS Naturals, Sequences, FiniteSets

CONSTANTS Neurons,  \* node ids (ULIDs, never reused)
          Procs,    \* processes, each running one operation at a time
          None

ASSUME StoreAssumption == None \notin Neurons /\ None \notin Procs

VARIABLES
    log,      \* audit_log: the events of each neuron, in order
    conf,     \* nodes.confidence, against learning.auto_capture_confidence
    succ,     \* "supersedes" edges, as pairs <<new, old>>
    from,     \* history: the neurons whose content a neuron was made of
    captured, \* history: neurons an auto-capture committed
    file,     \* neurons with a pending/<id>.json
    used,     \* ids handed out
    writer,   \* the process whose transaction spans steps
    draft,    \* its uncommitted neurons, with their confidence
    pc, arg,  \* each process's step and what it works on
    verdicts  \* history: the calls of approve/reject that returned True

dbVars == <<log, conf, succ, from, captured>>
txVars == <<writer, draft>>
vars == <<dbVars, file, used, txVars, pc, arg, verdicts>>

NoDraft == [n \in {} |-> "low"]

Init ==
    /\ log = [n \in Neurons |-> <<>>]
    /\ conf = [n \in Neurons |-> "high"]
    /\ succ = {} /\ from = [n \in Neurons |-> {}] /\ captured = {}
    /\ file = {} /\ used = {}
    /\ writer = None /\ draft = NoDraft
    /\ pc = [p \in Procs |-> "idle"]
    /\ arg = [p \in Procs |-> {}]
    /\ verdicts = {}

Exists(n) == log[n] # <<>>
Active(n) == log[n] = <<"created">>   \* valid_until IS NULL
Fresh(n) == n \notin used

Goto(p, l, s) == pc' = [pc EXCEPT ![p] = l] /\ arg' = [arg EXCEPT ![p] = s]
Idle(p) == pc[p] = "idle"
Target(p) == CHOOSE n \in arg[p] : TRUE

\* No transaction of another process is open: the lock is to be had.
Free == writer = None

\* The new neuron n is created and the olds are retired in its favour.
Replace(n, olds, c, parents) ==
    /\ log' = [m \in Neurons |-> IF m = n THEN <<"created">>
                                 ELSE IF m \in olds THEN Append(log[m], "superseded")
                                 ELSE log[m]]
    /\ succ' = succ \cup {<<n, o>> : o \in olds}
    /\ conf' = [conf EXCEPT ![n] = c]
    /\ from' = [from EXCEPT ![n] = parents]
    /\ used' = used \cup {n}

-----------------------------------------------------------------------------
(* MCP remember.  The neuron is inserted first, so the target of a         *)
(* correction, or the conflict found for an automatic one, is read inside  *)
(* the transaction.  A correction of an inactive target raises, and the    *)
(* connection closes without COMMIT: nothing has happened.                 *)
Remember(p, n, olds) ==
    /\ Idle(p) /\ Free
    /\ Fresh(n)
    /\ Cardinality(olds) <= 1 /\ \A o \in olds : Active(o)
    /\ Replace(n, olds, "high", {})
    /\ UNCHANGED <<captured, file, txVars, pc, arg, verdicts>>

\* remember action=archive, procedures archive: forget_neuron's read.
ArchiveRead(p, n) ==
    /\ Idle(p)
    /\ Active(n)
    /\ Goto(p, "archive", {n})
    /\ UNCHANGED <<dbVars, file, used, txVars, verdicts>>

Forget(n) == log' = [log EXCEPT ![n] = Append(@, "forgotten")]

\* Its write, which does not look again.
ArchiveWrite(p) ==
    /\ pc[p] = "archive" /\ Free
    /\ Forget(Target(p))
    /\ Goto(p, "idle", {})
    /\ UNCHANGED <<conf, succ, from, captured, file, used, txVars, verdicts>>

-----------------------------------------------------------------------------
\* consolidate_neurons, or its LLM form, reads the active memories before its
\* transaction (between them the LLM may think for minutes).  One cluster at
\* a time; the confidence of the merged neuron is the code's or the LLM's.
ConsolidateRead(p) ==
    /\ Idle(p)
    /\ \E olds \in SUBSET {n \in Neurons : Active(n)} :
          /\ Cardinality(olds) >= 2
          /\ Goto(p, "consolidate", olds)
    /\ UNCHANGED <<dbVars, file, used, txVars, verdicts>>

\* Faulty form: the merge does not mind that a neuron was retired meanwhile.
ConsolidateBlindly(p) ==
    /\ pc[p] = "consolidate" /\ Free
    /\ \E n \in Neurons, c \in {"low", "high"} :
          /\ Fresh(n)
          /\ Replace(n, arg[p], c, arg[p])
    /\ Goto(p, "idle", {})
    /\ UNCHANGED <<captured, file, txVars, verdicts>>

\* A neuron of the cluster retired meanwhile raises ValueError, and
\* forget_neuron leaves it as it is; its content is merged all the same.
ConsolidateWrite(p) ==
    /\ pc[p] = "consolidate" /\ Free
    /\ \E n \in Neurons, c \in {"low", "high"} :
          /\ Fresh(n)
          /\ Replace(n, {o \in arg[p] : Active(o)}, c,
                     UNION {{o} \cup from[o] : o \in arg[p]})
    /\ Goto(p, "idle", {})
    /\ UNCHANGED <<captured, file, txVars, verdicts>>

-----------------------------------------------------------------------------
(* capture_session: one transaction that writes a review file for each     *)
(* distilled neuron of low confidence before it commits.  (The episode     *)
(* digest it adds, of confidence 0.55 and never reviewed, is left out.)    *)
CaptureBegin(p) ==
    /\ Idle(p) /\ Free
    /\ writer' = p
    /\ Goto(p, "capture", {})
    /\ UNCHANGED <<dbVars, file, used, draft, verdicts>>

CaptureNeuron(p, n, c) ==
    /\ pc[p] = "capture" /\ writer = p
    /\ Fresh(n)
    /\ used' = used \cup {n}
    /\ draft' = [m \in DOMAIN draft \cup {n} |-> IF m = n THEN c ELSE draft[m]]
    /\ file' = IF c = "low" THEN file \cup {n} ELSE file
    /\ UNCHANGED <<dbVars, writer, pc, arg, verdicts>>

\* Its hygiene pass, inside the transaction and the first to commit it,
\* archives active neurons it finds noisy, old ones or new.
CaptureCommit(p, noisy) ==
    /\ pc[p] = "capture" /\ writer = p
    /\ noisy \subseteq {n \in Neurons : Active(n)} \cup DOMAIN draft
    /\ noisy # {} => draft # NoDraft
    /\ LET kept(n) == IF n \in DOMAIN draft THEN <<"created">> ELSE log[n]
       IN log' = [n \in Neurons |-> IF n \in noisy THEN Append(kept(n), "forgotten")
                                    ELSE kept(n)]
    /\ conf' = [n \in Neurons |-> IF n \in DOMAIN draft THEN draft[n] ELSE conf[n]]
    /\ captured' = captured \cup DOMAIN draft
    /\ writer' = None /\ draft' = NoDraft
    /\ Goto(p, "idle", {})
    /\ UNCHANGED <<succ, from, file, used, verdicts>>

-----------------------------------------------------------------------------
(* The review queue.                                                       *)
ReviewOpens(p, n, verdict) ==
    /\ Idle(p)
    /\ n \in file
    /\ Goto(p, verdict, {n})
    /\ UNCHANGED <<dbVars, file, used, txVars, verdicts>>

\* Faulty form: the UPDATE is not committed.
ApproveUncommitted(p) ==
    /\ pc[p] = "approve" /\ Free
    /\ Goto(p, "unlink approved", arg[p])
    /\ UNCHANGED <<dbVars, file, used, txVars, verdicts>>

\* The UPDATE touches no row when the file is an orphan.
Approve(p) ==
    /\ pc[p] = "approve" /\ Free
    /\ conf' = [n \in Neurons |-> IF n \in arg[p] /\ Exists(n) THEN "high" ELSE conf[n]]
    /\ Goto(p, "unlink approved", arg[p])
    /\ UNCHANGED <<log, succ, from, captured, file, used, txVars, verdicts>>

\* forget_neuron's read: no such node raises, an inactive one is left alone.
RejectRead(p) ==
    /\ pc[p] = "reject"
    /\ Goto(p, IF Active(Target(p)) THEN "reject write"
               ELSE IF Exists(Target(p)) THEN "unlink rejected" ELSE "idle",
            IF Exists(Target(p)) THEN arg[p] ELSE {})
    /\ UNCHANGED <<dbVars, file, used, txVars, verdicts>>

\* Faulty form: the file goes although the event was not committed.
RejectUncommitted(p) ==
    /\ pc[p] = "reject write" /\ Free
    /\ Goto(p, "unlink rejected", arg[p])
    /\ UNCHANGED <<dbVars, file, used, txVars, verdicts>>

RejectWrite(p) ==
    /\ pc[p] = "reject write" /\ Free
    /\ Forget(Target(p))
    /\ Goto(p, "unlink rejected", arg[p])
    /\ UNCHANGED <<conf, succ, from, captured, file, used, txVars, verdicts>>

Returned(p) == IF pc[p] = "unlink approved" THEN "approve" ELSE "reject"

\* Faulty form: unlink(missing_ok=True).
UnlinkMissingOk(p) ==
    /\ pc[p] \in {"unlink approved", "unlink rejected"}
    /\ file' = file \ arg[p]
    /\ verdicts' = verdicts \cup {<<p, Returned(p), Target(p)>>}
    /\ Goto(p, "idle", {})
    /\ UNCHANGED <<dbVars, used, txVars>>

\* A file that is gone raises FileNotFoundError and the call returns nothing.
Unlink(p) ==
    /\ pc[p] \in {"unlink approved", "unlink rejected"}
    /\ IF Target(p) \in file
       THEN /\ file' = file \ arg[p]
            /\ verdicts' = verdicts \cup {<<p, Returned(p), Target(p)>>}
       ELSE UNCHANGED <<file, verdicts>>
    /\ Goto(p, "idle", {})
    /\ UNCHANGED <<dbVars, used, txVars>>

-----------------------------------------------------------------------------
\* Faulty form: a dead process keeps the write lock.
CrashLocked(p) ==
    /\ ~Idle(p)
    /\ Goto(p, "idle", {})
    /\ UNCHANGED <<dbVars, file, used, txVars, verdicts>>

\* The process dies, or its operation raises: SQLite rolls back what it had
\* open; files stay.
Crash(p) ==
    /\ ~Idle(p)
    /\ Goto(p, "idle", {})
    /\ IF writer = p THEN writer' = None /\ draft' = NoDraft
                     ELSE UNCHANGED txVars
    /\ UNCHANGED <<dbVars, file, used, verdicts>>

Next ==
    \E p \in Procs :
        \/ \E n \in Neurons :
              \/ \E olds \in SUBSET Neurons : Remember(p, n, olds)
              \/ ArchiveRead(p, n)
              \/ \E c \in {"low", "high"} : CaptureNeuron(p, n, c)
              \/ \E v \in {"approve", "reject"} : ReviewOpens(p, n, v)
        \/ ArchiveWrite(p) \/ ConsolidateRead(p) \/ ConsolidateWrite(p)
        \/ CaptureBegin(p) \/ \E noisy \in SUBSET Neurons : CaptureCommit(p, noisy)
        \/ Approve(p) \/ RejectRead(p) \/ RejectWrite(p) \/ Unlink(p)
        \/ Crash(p)

Spec == Init /\ [][Next]_vars

-----------------------------------------------------------------------------
Steps == {"idle", "archive", "consolidate", "capture", "approve", "reject",
          "reject write", "unlink approved", "unlink rejected"}

\* Every variable keeps its type; the write lock is held by a process that
\* captures, or by nobody.
TypeOK ==
    /\ log \in [Neurons -> Seq({"created", "superseded", "forgotten"})]
    /\ conf \in [Neurons -> {"low", "high"}]
    /\ succ \subseteq Neurons \X Neurons
    /\ from \in [Neurons -> SUBSET Neurons]
    /\ captured \subseteq Neurons /\ file \subseteq Neurons /\ used \subseteq Neurons
    /\ writer \in Procs \cup {None}
    /\ DOMAIN draft \subseteq Neurons
    /\ \A n \in DOMAIN draft : draft[n] \in {"low", "high"}
    /\ pc \in [Procs -> Steps] /\ arg \in [Procs -> SUBSET Neurons]
    /\ writer # None <=> \E p \in Procs : pc[p] = "capture" /\ writer = p
    /\ verdicts \subseteq Procs \X {"approve", "reject"} \X Neurons

\* A neuron has at most one successor, however corrections, automatic
\* supersession and consolidation interleave across processes: history
\* never forks.
OneSuccessor ==
    \A o \in Neurons : \A e, f \in succ : e[2] = o /\ f[2] = o => e = f

\* A captured neuron below the threshold that is still believed has its
\* review waiting: no crash, rollback or race loses a review.
ReviewNotLost ==
    \A n \in captured : Active(n) /\ conf[n] = "low" => n \in file

\* Of all calls that approve or reject a neuron, at most one reports success.
OneVerdict ==
    \A v, w \in verdicts : v[3] = w[3] => v = w

\* A rejection that reports success has retired the neuron for good.
RejectedRetired ==
    \A v \in verdicts : v[2] = "reject" => Exists(v[3]) /\ ~Active(v[3])

\* What was rejected is not believed in another guise (refuted: a neuron
\* that waits for review may meanwhile have been consolidated).
RejectedContentGone ==
    \A v \in verdicts : v[2] = "reject" =>
        \A n \in Neurons : Active(n) => v[3] \notin from[n]
=============================================================================
