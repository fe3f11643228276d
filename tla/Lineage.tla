------------------------------ MODULE Lineage ------------------------------
(***************************************************************************)
(* brainkm repair --backfill-supersedes: one pass over the decisions, in   *)
(* the order of updated_at, that retires an older near-duplicate in favour *)
(* of a later one, while other processes go on remembering, correcting,    *)
(* archiving and recalling.  The pass works on rows it read before its     *)
(* transaction; only from its first write on does it keep others out.      *)
(***************************************************************************)
EXTENDS Integers, Sequences, SequencesExt

CONSTANTS Decisions,  \* ids, numbered in the order of created_at
          Near        \* pairs whose titles overlap by min_token_overlap

ASSUME LineageAssumption ==
    /\ Decisions \subseteq Nat
    /\ Near \subseteq Decisions \X Decisions
    /\ \A a, b \in Decisions : <<a, b>> \in Near => <<b, a>> \in Near

VARIABLES
    order,     \* the decisions by updated_at, earliest first
    retired,   \* those with a valid_until
    forgotten, \* history: those a user archived
    succ,      \* "supersedes" edges, as pairs <<new, old>>
    rows,      \* the pass's rows: ids with what it read of valid_until
    row,       \* the row it is at, 0 when no pass runs
    best,      \* the pair <<new, old>> it is about to write, or << >>
    draft,     \* edges it has written and not committed
    touched,   \* order, as it has left it and not committed
    locked     \* it has written: its transaction is open

dbVars == <<order, retired, forgotten, succ>>
passVars == <<rows, row, best, draft, touched, locked>>
vars == <<dbVars, passVars>>

Init ==
    /\ order = << >> /\ retired = {} /\ forgotten = {} /\ succ = {}
    /\ rows = << >> /\ row = 0 /\ best = << >> /\ draft = {} /\ touched = << >>
    /\ locked = FALSE

\* The decisions by updated_at once that of n becomes now.
Moved(s, n) ==
    LET k == CHOOSE k \in DOMAIN s : s[k] = n
    IN [i \in DOMAIN s |-> IF i < k THEN s[i] ELSE IF i < Len(s) THEN s[i + 1] ELSE n]

-----------------------------------------------------------------------------
(* The other processes; each of their transactions waits for the lock.     *)

\* A decision is remembered or captured, perhaps as the correction of an
\* active one, whose row is updated last.
Remember(n, olds) ==
    /\ ~locked
    /\ n \notin ToSet(order) /\ \A m \in ToSet(order) : m < n
    /\ olds \subseteq ToSet(order) \ retired
    /\ \/ olds = {} /\ order' = Append(order, n)
       \/ \E o \in olds : olds = {o} /\ order' = Moved(Append(order, n), o)
    /\ retired' = retired \cup olds
    /\ succ' = succ \cup {<<n, o>> : o \in olds}
    /\ UNCHANGED <<forgotten, passVars>>

\* forget_neuron, without the race between its read and its write, which is
\* NeuronStore's.
Archive(n) ==
    /\ ~locked
    /\ n \in ToSet(order) \ retired
    /\ order' = Moved(order, n)
    /\ retired' = retired \cup {n} /\ forgotten' = forgotten \cup {n}
    /\ UNCHANGED <<succ, passVars>>

\* A session that recalled the decision ends: flush_use_counts.
Recalled(n) ==
    /\ ~locked
    /\ n \in ToSet(order) \ retired
    /\ order' = Moved(order, n)
    /\ UNCHANGED <<retired, forgotten, succ, passVars>>

-----------------------------------------------------------------------------
(* The pass; one runs at a time.  An earlier stage of the repair, such as  *)
(* its scan for secrets, may already have written and hold the lock.       *)
BackfillRead ==
    /\ row = 0
    /\ rows' = [i \in DOMAIN order |->
                  [id |-> order[i], active |-> order[i] \notin retired]]
    /\ row' = 1
    /\ locked' \in BOOLEAN
    /\ UNCHANGED <<dbVars, best, draft, touched>>

Old == rows[row].id

\* Faulty form: a retired decision may be the replacement.
CandidatesRetiredToo ==
    {rows[j].id : j \in {k \in row + 1 .. Len(rows) : <<rows[k].id, Old>> \in Near}}

\* The later rows that were active and resemble this one.  Which of them
\* overlaps best is left open.
Candidates ==
    {rows[j].id : j \in {k \in row + 1 .. Len(rows) :
                            rows[k].active /\ <<rows[k].id, Old>> \in Near}}

Written == succ \cup draft
RetiredNow == retired \cup {e[2] : e \in draft}

NextRow == row' = row + 1

\* No replacement, an edge that exists, or, for an active row, no conflict.
Skip ==
    /\ row \in DOMAIN rows /\ best = << >>
    /\ \/ Candidates = {}
       \/ \E new \in Candidates : <<new, Old>> \in Written
       \/ rows[row].active
    /\ NextRow
    /\ UNCHANGED <<dbVars, rows, best, draft, touched, locked>>

\* supersede_neuron and what it was asked with, up to its first write; it
\* looks again at the old one and raises when that has been retired.
Choose ==
    /\ row \in DOMAIN rows /\ best = << >>
    /\ \E new \in Candidates :
          /\ <<new, Old>> \notin Written
          /\ IF rows[row].active /\ Old \in RetiredNow
             THEN NextRow /\ UNCHANGED best
             ELSE best' = <<new, Old>> /\ UNCHANGED row
    /\ UNCHANGED <<dbVars, rows, draft, touched, locked>>

\* Faulty form: the event goes with the wrong branch.
RetiringOthers == {rows[i].id : i \in {k \in DOMAIN rows : ~rows[k].active}}

\* Rows that were active get the superseded event with their edge.
Retiring == {rows[i].id : i \in {k \in DOMAIN rows : rows[k].active}}

\* order, as the pass's connection sees it.
Ordered == IF draft = {} THEN order ELSE touched

\* The edge, and the superseded event.
Write ==
    /\ best # << >>
    /\ draft' = draft \cup {best}
    /\ touched' = IF Old \in Retiring THEN Moved(Ordered, Old) ELSE Ordered
    /\ best' = << >> /\ locked' = TRUE
    /\ NextRow
    /\ UNCHANGED <<dbVars, rows>>

Ended ==
    /\ rows' = << >> /\ row' = 0 /\ best' = << >>
    /\ draft' = {} /\ touched' = << >> /\ locked' = FALSE

Commit ==
    /\ row = Len(rows) + 1
    /\ order' = Ordered
    /\ retired' = retired \cup ({e[2] : e \in draft} \cap Retiring)
    /\ succ' = Written
    /\ Ended
    /\ UNCHANGED forgotten

\* The repair dies: what it wrote is rolled back.
Crash == row # 0 /\ Ended /\ UNCHANGED dbVars

Next ==
    \/ \E n \in Decisions : \/ \E olds \in SUBSET Decisions : Remember(n, olds)
                            \/ Archive(n) \/ Recalled(n)
    \/ BackfillRead \/ Skip \/ Choose \/ Write \/ Commit \/ Crash

Spec == Init /\ [][Next]_vars

-----------------------------------------------------------------------------
\* Every variable keeps its type; the rows a pass has read are decisions, and
\* an edge always points to a decision that is retired.
TypeOK ==
    /\ order \in Seq(Decisions) /\ IsInjective(order)
    /\ forgotten \subseteq retired /\ retired \subseteq ToSet(order)
    /\ succ \subseteq ToSet(order) \X retired
    /\ rows \in Seq([id : ToSet(order), active : BOOLEAN])
    /\ row \in 0 .. Len(rows) + 1
    /\ best = << >> \/ best \in ToSet(order) \X ToSet(order)
    /\ draft \subseteq ToSet(order) \X ToSet(order)
    /\ touched \in Seq(ToSet(order))
    /\ locked \in BOOLEAN

\* The decision trail of a superseded decision ends: whichever of them one
\* starts from, the edges lead on to one that is active or that a user
\* archived, never round in a circle; so for corrections and one repair at
\* a time, whatever the repair read too early.
LeadsToTruth ==
    \A S \in SUBSET (retired \ forgotten) :
        S # {} => \E e \in succ : e[2] \in S /\ e[1] \notin S

\* backfill_supersedes: "newer supersedes older" (refuted: the rows come in
\* the order of updated_at, which a recall of the older one advances).
NewerSupersedes == \A e \in succ : e[2] < e[1]
=============================================================================
