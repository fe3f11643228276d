------------------------------ MODULE Learning ------------------------------
(***************************************************************************)
(* What brainkm learns from use.  A recall opens an episode for its        *)
(* session; the session's next tool call claims it, which credits the      *)
(* neurons and strengthens the co_activated edges between them; strong     *)
(* edges become procedures, and idle ones halve with every idle period.    *)
(* Hook processes, the MCP server and `brainkm hygiene` share the rows.    *)
(* A handler's statements up to its commit are one action from its first   *)
(* write on, which takes the lock; hygiene may decide on edges it read     *)
(* before that.  use_count and the injected and ignored counters are left  *)
(* out: what depends on them is any choice.                                *)
(***************************************************************************)
EXTENDS Integers, FiniteSets

CONSTANTS
    Nodes, Sessions, Chains, \* neurons, sessions, ordered tool chains
    Procs,                   \* processes that may run `brainkm hygiene --decay`
    Delta, MaxWeight, MinWeight, Threshold, \* config.learning, in weight units
    MaxMarks, MaxPeriods     \* bounds: recalls of a neuron, idle periods

ASSUME LearningAssumption ==
    /\ {Delta, MaxWeight, Threshold, MaxMarks, MaxPeriods} \subseteq Nat \ {0}
    /\ MinWeight \in Nat /\ Threshold <= MaxWeight
    /\ IsFiniteSet(Nodes) /\ IsFiniteSet(Sessions)

VARIABLES
    hits,       \* session_activity: neurons recalled in a session, not yet flushed
    episode,    \* session_learning_state of each session
    used,       \* neuron_feedback.used_count
    edge,       \* the co_activated edge of each pair
    procedures, \* how many active procedures a tool chain has
    period,     \* the clock, in idle periods (co_activation_idle_days)
    sweep,      \* the edges a hygiene process has read, and when
    marked,     \* history: episodes opened with a neuron
    claimed     \* history: episodes claimed with both neurons of a pair

vars == <<hits, episode, used, edge, procedures, period, sweep, marked, claimed>>

Pairs == {p \in SUBSET Nodes : Cardinality(p) = 2}
NoEpisode == [ids |-> {}, open |-> FALSE, at |-> 0]
NoEdge == [id |-> 0, weight |-> 0, created |-> 0, updated |-> 0, base |-> 0]
NoSweep == [rows |-> [p \in Pairs |-> NoEdge], at |-> -1]

Init ==
    /\ hits = [s \in Sessions |-> {}]
    /\ episode = [s \in Sessions |-> NoEpisode]
    /\ used = [n \in Nodes |-> 0]
    /\ edge = [p \in Pairs |-> NoEdge]
    /\ procedures = [c \in Chains |-> 0]
    /\ period = 0
    /\ sweep = [p \in Procs |-> NoSweep]
    /\ marked = [n \in Nodes |-> 0] /\ claimed = [p \in Pairs |-> 0]

-----------------------------------------------------------------------------
(* Recalls                                                                 *)

\* recall, context_pack and the pre-tool pack: hits, and a pending episode in
\* place of the one before.
PersistNeuronHits(s, ids) ==
    /\ ids # {} /\ \A n \in ids : marked[n] < MaxMarks
    /\ hits' = [hits EXCEPT ![s] = @ \cup ids]
    /\ episode' = [episode EXCEPT ![s] = [ids |-> ids, open |-> TRUE, at |-> period]]
    /\ marked' = [n \in Nodes |-> marked[n] + (IF n \in ids THEN 1 ELSE 0)]
    /\ UNCHANGED <<used, edge, procedures, period, sweep, claimed>>

\* Neurons of an injected snapshot: hits without an episode.
RecordNeuronActivity(s, ids) ==
    /\ ids # {}
    /\ hits' = [hits EXCEPT ![s] = @ \cup ids]
    /\ UNCHANGED <<episode, used, edge, procedures, period, sweep, marked, claimed>>

-----------------------------------------------------------------------------
(* PostToolUse                                                             *)

\* Faulty form: the row is read, and its flag not looked at.
ClaimedAgain(s) == episode[s].ids

\* _consume_pending_coact: the ids if the flag was set; they stay in the row.
Consumed(s) == IF episode[s].open THEN episode[s].ids ELSE {}

\* What the first claim of a pair is worth.
Start == IF Delta < MaxWeight THEN Delta ELSE MaxWeight

\* upsert_co_activation, for an edge that exists and for a new one.
Reinforced(p) ==
    IF edge[p] = NoEdge
    THEN [id |-> claimed[p] + 1, weight |-> Start, created |-> period, updated |-> period,
          base |-> period]
    ELSE [edge[p] EXCEPT !.updated = period, !.base = period,
          !.weight = IF @ + Delta < MaxWeight THEN @ + Delta ELSE MaxWeight]

\* Faulty form: an edge one claim short of the threshold will do.
AlmostPromotable(s, edges) ==
    {p \in Pairs : p \subseteq hits[s] /\ edges[p].weight + Delta >= Threshold}

\* find_promotable_pairs, among the neurons of the session.
Promotable(s, edges) ==
    {p \in Pairs : p \subseteq hits[s] /\ edges[p].weight >= Threshold}

\* upsert_procedure_neuron: a chain that has a procedure keeps it.
Spawned(c, pairs) ==
    IF pairs # {} /\ procedures[c] = 0 THEN 1 ELSE procedures[c]

\* process_post_tool, when the session's tool calls so far make the chain c.
\* Which promotable pairs their ignore rate blocks is left open.
ProcessPostTool(s, c) ==
    LET pairs == {p \in Pairs : p \subseteq Consumed(s)} IN
    /\ episode' = [episode EXCEPT ![s].open = FALSE]
    /\ used' = [n \in Nodes |-> used[n] + (IF n \in Consumed(s) THEN 1 ELSE 0)]
    /\ edge' = [p \in Pairs |-> IF p \in pairs THEN Reinforced(p) ELSE edge[p]]
    /\ claimed' = [p \in Pairs |-> claimed[p] + (IF p \in pairs THEN 1 ELSE 0)]
    /\ \E through \in SUBSET Promotable(s, edge') :
          procedures' = [procedures EXCEPT ![c] = Spawned(c, through)]
    /\ UNCHANGED <<hits, period, sweep, marked>>

-----------------------------------------------------------------------------
(* Decay                                                                   *)

\* Whole idle periods since the checkpoint; none while the edge is not idle.
Periods(row, at) == IF at > row.updated /\ at > row.base THEN at - row.base ELSE 0

\* Faulty form: the factor is applied to the weight as it is at the write.
DecayedInPlace(p, row, at) ==
    LET n == Periods(row, at)
        weight == edge[p].weight \div 2 ^ n
    IN IF row = NoEdge \/ row.id # edge[p].id \/ n = 0 THEN edge[p]
       ELSE IF weight < MinWeight THEN NoEdge
       ELSE [edge[p] EXCEPT !.weight = weight, !.base = row.base + n]

\* Faulty form: edges below min_weight are kept.
DecayedKept(p, row, at) ==
    LET n == Periods(row, at)
    IN IF row = NoEdge \/ row.id # edge[p].id \/ n = 0 THEN edge[p]
       ELSE [edge[p] EXCEPT !.weight = row.weight \div 2 ^ n, !.base = row.base + n]

\* decay_co_activation_edges, for a pair whose edge was read as row: the new
\* weight and checkpoint are computed from what was read.
Decayed(p, row, at) ==
    LET n == Periods(row, at)
        weight == row.weight \div 2 ^ n
    IN IF row = NoEdge \/ row.id # edge[p].id \/ n = 0 THEN edge[p]
       ELSE IF weight < MinWeight THEN NoEdge
       ELSE [edge[p] EXCEPT !.weight = weight, !.base = row.base + n]

\* SessionEnd: the flush deletes the hits, the episode is dropped, and with
\* decay.consolidate_on_session_end the edges decay, in one transaction.
SessionEnd(s) ==
    /\ hits' = [hits EXCEPT ![s] = {}]
    /\ episode' = [episode EXCEPT ![s] = NoEpisode]
    /\ edge' \in {edge, [p \in Pairs |-> Decayed(p, edge[p], period)]}
    /\ UNCHANGED <<used, procedures, period, sweep, marked, claimed>>

\* Stop, SubagentStop and the server's flush of a stale session.
Flush(s) ==
    /\ hits[s] # {}
    /\ hits' = [hits EXCEPT ![s] = {}]
    /\ UNCHANGED <<episode, used, edge, procedures, period, sweep, marked, claimed>>

\* brainkm hygiene --decay: unless it archived a neuron just before, it reads
\* the edges outside a transaction.
HygieneRead(p) ==
    /\ sweep[p] = NoSweep
    /\ sweep' = [sweep EXCEPT ![p] = [rows |-> edge, at |-> period]]
    /\ UNCHANGED <<hits, episode, used, edge, procedures, period, marked, claimed>>

\* Its writes up to the commit: the edges, the episodes past their retention,
\* and the procedures that were ignored too often, however often that is.
HygieneWrite(p) ==
    /\ sweep[p] # NoSweep
    /\ edge' = [q \in Pairs |-> Decayed(q, sweep[p].rows[q], sweep[p].at)]
    /\ episode' = [s \in Sessions |->
                     IF episode[s].at < period THEN NoEpisode ELSE episode[s]]
    /\ \E ignored \in SUBSET {c \in Chains : procedures[c] > 0} :
          procedures' = [c \in Chains |-> procedures[c] - (IF c \in ignored THEN 1 ELSE 0)]
    /\ sweep' = [sweep EXCEPT ![p] = NoSweep]
    /\ UNCHANGED <<hits, used, period, marked, claimed>>

\* It dies, or found nothing to archive and closes without a commit: what it
\* wrote is rolled back.
HygieneDiscard(p) ==
    /\ sweep[p] # NoSweep
    /\ sweep' = [sweep EXCEPT ![p] = NoSweep]
    /\ UNCHANGED <<hits, episode, used, edge, procedures, period, marked, claimed>>

Tick ==
    /\ period < MaxPeriods
    /\ period' = period + 1
    /\ UNCHANGED <<hits, episode, used, edge, procedures, sweep, marked, claimed>>

Next ==
    \/ \E s \in Sessions :
          \/ \E ids \in SUBSET Nodes : PersistNeuronHits(s, ids) \/ RecordNeuronActivity(s, ids)
          \/ \E c \in Chains : ProcessPostTool(s, c)
          \/ SessionEnd(s) \/ Flush(s)
    \/ \E p \in Procs : HygieneRead(p) \/ HygieneWrite(p) \/ HygieneDiscard(p)
    \/ Tick

Spec == Init /\ [][Next]_vars

-----------------------------------------------------------------------------
Least == IF Start < MinWeight THEN Start ELSE MinWeight

Edges == [id : Nat, weight : Least .. MaxWeight, created : 0 .. period,
          updated : 0 .. period, base : 0 .. period] \cup {NoEdge}

\* Every variable keeps its type; in particular no edge is kept below the
\* weight that deletes it (or which it starts with, where config.learning has
\* it start below), grows past the maximum, or lies in the future.
TypeOK ==
    /\ hits \in [Sessions -> SUBSET Nodes]
    /\ episode \in [Sessions -> [ids : SUBSET Nodes, open : BOOLEAN, at : 0 .. period]]
    /\ used \in [Nodes -> Nat] /\ marked \in [Nodes -> 0 .. MaxMarks]
    /\ edge \in [Pairs -> Edges] /\ claimed \in [Pairs -> Nat]
    /\ procedures \in [Chains -> Nat] /\ period \in 0 .. MaxPeriods
    /\ sweep \in [Procs -> [rows : [Pairs -> Edges], at : -1 .. period]]

\* A recall credits its neurons at most once, however many tool calls follow
\* it and in however many sessions they were recalled; an episode that was
\* replaced, ended or purged before a tool call credits nothing.
EpisodeOnce ==
    \A n \in Nodes :
        used[n] + Cardinality({s \in Sessions : n \in Consumed(s)}) <= marked[n]

\* An edge loses at most half for every idle period since it was made, to
\* whatever sweeps, SessionEnds and new evidence overlap: it keeps what its
\* first claim is worth after that many halvings, and is deleted only when
\* that is below min_weight.
HalvedOncePerPeriod ==
    [][\A p \in Pairs :
          LET kept == Start \div 2 ^ (period - edge[p].created)
          IN edge[p] # NoEdge =>
                IF edge'[p] = NoEdge THEN kept < MinWeight
                ELSE edge'[p].weight >= kept]_vars

\* A tool chain becomes a procedure only on evidence: some two neurons were
\* recalled together and followed by a tool call as often as the threshold
\* asks, not counting episodes claimed twice or decay that came back.
ProcedureEvidence ==
    \A c \in Chains :
        procedures[c] > 0 => \E p \in Pairs : claimed[p] * Delta >= Threshold
=============================================================================
