--------------------------- MODULE SerialExecutor ---------------------------
(***************************************************************************)
(* What callers may rely on, whatever loops, tasks and threads WriteQueue  *)
(* is made of: jobs are served one at a time, in the order submitted; a    *)
(* job's caller is answered when the job's turn ends; and a job is passed  *)
(* over only when every caller in line has already given up.               *)
(***************************************************************************)
EXTENDS Naturals, Sequences

CONSTANT Callers

VARIABLES line,     \* callers whose job waits its turn
          serving,  \* at most one caller, as a sequence
          outcome   \* what each caller has been told

vars == <<line, serving, outcome>>

Init ==
    /\ line = <<>>
    /\ serving = <<>>
    /\ outcome = [c \in Callers |-> "none"]

Submit(c) ==
    /\ outcome[c] = "none"
    /\ outcome' = [outcome EXCEPT ![c] = "pending"]
    /\ line' = Append(line, c)
    /\ UNCHANGED serving

GiveUp(c) ==
    /\ outcome[c] = "pending"
    /\ outcome' = [outcome EXCEPT ![c] = "cancelled"]
    /\ UNCHANGED <<line, serving>>

\* The job being served, if any, ends and its caller, if still waiting, is
\* told; then the next in line, if any, is served.
Answer ==
    IF serving # <<>> /\ outcome[serving[1]] = "pending"
    THEN \E v \in {"result", "error"} : outcome' = [outcome EXCEPT ![serving[1]] = v]
    ELSE UNCHANGED outcome

Turn ==
    /\ serving # <<>> \/ line # <<>>
    /\ Answer
    /\ \/ /\ line # <<>>
          /\ serving' = <<Head(line)>>
          /\ line' = Tail(line)
       \/ /\ line = <<>>
          /\ serving' = <<>>
          /\ UNCHANGED line

\* Everybody gives up, and what has not begun never will.
Disband ==
    /\ outcome' = [c \in Callers |-> IF outcome[c] = "pending" THEN "cancelled"
                                     ELSE outcome[c]]
    /\ line' = <<>>
    /\ serving' \in {serving, <<>>}

Next ==
    \/ \E c \in Callers : Submit(c) \/ GiveUp(c)
    \/ Turn
    \/ Disband

Spec == Init /\ [][Next]_vars
=============================================================================
