---------------------------- MODULE Observations ----------------------------
(***************************************************************************)
(* What the hooks note of a session.  Hook processes run side by side and  *)
(* with the same session ids: they record observations of tool calls and   *)
(* prompts, and promote and archive them when a session, a subagent or a   *)
(* turn ends.  Each has its own connection; what it reads before its first *)
(* write is a step of its own, and its writes up to the commit are one,    *)
(* for they hold the lock.                                                 *)
(***************************************************************************)
EXTENDS Integers, Sequences, FiniteSets, SequencesExt

CONSTANTS
    Procs, Sessions,
    Contents, Failures, Noise, \* fingerprints; of failed calls; below the quality gate
    MaxPerSession,             \* observe_max_per_session
    MaxRows                    \* bound: rows, promoted ones included

ASSUME ObservationsAssumption ==
    /\ Failures \subseteq Contents /\ Noise \subseteq Contents
    /\ MaxPerSession \in Nat \ {0} /\ MaxRows \in Nat
    /\ IsFiniteSet(Procs)

VARIABLES
    obs,     \* the observations and what they were promoted to, by created_at
    unsaved, \* history: rows whose promotion was logged as failed
    step     \* step[p]: what a hook process is about to write

dbVars == <<obs, unsaved>>
vars == <<dbVars, step>>

Idle == [at |-> "idle"]

\* Ages: within the dedup window, past it, past observation_ttl_hours.  An
\* archived row keeps the age it was archived at.
Fresh == 0
Expired == 2

Init ==
    /\ obs = << >> /\ unsaved = {}
    /\ step = [p \in Procs |-> Idle]

Goes(p, what) == step' = [step EXCEPT ![p] = what]

-----------------------------------------------------------------------------
(* Recording                                                               *)

\* by: history, the hook that promoted it, if it was promoted.
Row(by, s, c, source) ==
    [session |-> s, content |-> c, source |-> source, active |-> TRUE, age |-> Fresh,
     by |-> by]

Raw(i) == obs[i].source = 0

\* A promoted failure is an error; every other row has the observation subtype.
IsObservation(i) == Raw(i) \/ obs[i].content \notin Failures

\* Faulty form: whichever session they belong to.
AnySessions(s) == {i \in DOMAIN obs : obs[i].active /\ IsObservation(i)}

Observations(s) ==
    {i \in DOMAIN obs : obs[i].session = s /\ obs[i].active /\ IsObservation(i)}

\* Faulty form: one more than the cap.
RoomForOneMore(s) == Cardinality(Observations(s)) <= MaxPerSession

Room(s) == Cardinality(Observations(s)) < MaxPerSession

\* Any session's; only raw rows carry the fingerprint.
RecentHit(c) ==
    \E i \in DOMAIN obs :
        obs[i].active /\ Raw(i) /\ obs[i].content = c /\ obs[i].age = Fresh

Recordable(s, c) == Room(s) /\ ~RecentHit(c)

\* PostToolUse: a write comes first, so that the checks hold at the insert.
PostToolUse(p, s, c) ==
    /\ step[p] = Idle /\ Len(obs) < MaxRows
    /\ Recordable(s, c)
    /\ obs' = Append(obs, Row({}, s, c, 0))
    /\ UNCHANGED <<unsaved, step>>

\* UserPromptSubmit and Stop: the checks ...
PromptRead(p, s, c) ==
    /\ step[p] = Idle /\ c \notin Failures
    /\ Recordable(s, c)
    /\ Goes(p, [at |-> "record", session |-> s, content |-> c])
    /\ UNCHANGED dbVars

\* ... and the insert.
PromptRecord(p) ==
    /\ step[p].at = "record" /\ Len(obs) < MaxRows
    /\ obs' = Append(obs, Row({}, step[p].session, step[p].content, 0))
    /\ Goes(p, Idle)
    /\ UNCHANGED unsaved

-----------------------------------------------------------------------------
(* Promotion                                                               *)

\* SessionEnd, SubagentStop, Stop of Antigravity, and handover.
PromoteRead(p, s) ==
    /\ step[p] = Idle
    /\ Goes(p, [at |-> "promote", session |-> s, rows |-> Observations(s)])
    /\ UNCHANGED dbVars

\* Faulty form: every observation the session has by now.
TakenByNow(p) == step[p].rows \cup Observations(step[p].session)

\* The rows the loop forgets: those it read.
Taken(p) == step[p].rows

\* ORDER BY created_at.
InOrder(S) ==
    {q \in [1 .. Cardinality(S) -> S] :
        /\ \A i \in S : \E k \in DOMAIN q : q[k] = i
        /\ \A j, k \in DOMAIN q : j < k => q[j] < q[k]}

\* archive_expired_observations: any session's, promoted or not, although its
\* docstring says "unpromoted".
ExpiredRows == {i \in DOMAIN obs : obs[i].age = Expired /\ IsObservation(i)}

\* promote_session_observations, with the sweep when the session ends.  The
\* first remember may find the database locked for too long: that is logged,
\* and the row is forgotten all the same.
Promote(p) ==
    LET rows == step[p].rows
        good == {i \in rows : obs[i].content \notin Noise}
    IN
    /\ step[p].at = "promote"
    /\ \E failed \in SUBSET {i \in good : \A j \in rows : i <= j},
          swept \in {{}, ExpiredRows} :
       \E sources \in InOrder(good \ failed) :
          /\ Len(obs) + Len(sources) <= MaxRows
          /\ obs' = [i \in DOMAIN obs |->
                       IF i \in Taken(p) \cup swept
                       THEN [obs[i] EXCEPT !.active = FALSE] ELSE obs[i]]
                    \o [k \in DOMAIN sources |->
                          Row({p}, step[p].session, obs[sources[k]].content, sources[k])]
          /\ unsaved' = unsaved \cup failed
    /\ Goes(p, Idle)

-----------------------------------------------------------------------------
Tick ==
    /\ \E i \in DOMAIN obs : obs[i].active /\ obs[i].age < Expired
    /\ obs' = [i \in DOMAIN obs |->
                 IF obs[i].active /\ obs[i].age < Expired
                 THEN [obs[i] EXCEPT !.age = @ + 1] ELSE obs[i]]
    /\ UNCHANGED <<unsaved, step>>

\* A hook process is killed or loses the connection: nothing was committed.
Crash(p) == step[p] # Idle /\ Goes(p, Idle) /\ UNCHANGED dbVars

Next ==
    \/ \E p \in Procs :
          \/ \E s \in Sessions :
                \/ \E c \in Contents : PostToolUse(p, s, c) \/ PromptRead(p, s, c)
                \/ PromoteRead(p, s)
          \/ PromptRecord(p) \/ Promote(p) \/ Crash(p)
    \/ Tick

Spec == Init /\ [][Next]_vars

-----------------------------------------------------------------------------
Steps ==
    {Idle}
    \cup [at : {"record"}, session : Sessions, content : Contents \ Failures]
    \cup [at : {"promote"}, session : Sessions, rows : SUBSET DOMAIN obs]

\* Every variable keeps its type; a row comes from an earlier one of its
\* session, with its content, and errors come from raw rows only.
TypeOK ==
    /\ obs \in Seq([session : Sessions, content : Contents, source : Nat,
                    active : BOOLEAN, age : Fresh .. Expired, by : SUBSET Procs])
    /\ \A i \in DOMAIN obs :
          ~Raw(i) => /\ obs[i].source \in 1 .. i - 1 /\ IsObservation(obs[i].source)
                     /\ obs[i].session = obs[obs[i].source].session
                     /\ obs[i].content = obs[obs[i].source].content
    /\ unsaved \subseteq DOMAIN obs
    /\ step \in [Procs -> Steps]

\* No observation is lost between the hooks: one that is no longer active was
\* promoted, or failed the quality gate, outlived its TTL, or had its
\* promotion fail.  So for rows noted while a promotion was under way, and
\* for promotions and sweeps that read the same rows.  (What it was promoted to
\* is again an observation, held to the same; the TTL ends those too.)
NoObservationLost ==
    \A i \in DOMAIN obs :
        \/ obs[i].active \/ i \in unsaved
        \/ obs[i].content \in Noise \/ obs[i].age = Expired
        \/ \E j \in DOMAIN obs : obs[j].source = i

\* An observation and what it was promoted to are never both active, so no
\* pack shows both, even when two hooks promote it.
SourceArchived == \A i \in DOMAIN obs : ~Raw(i) => ~obs[obs[i].source].active

\* An observation is doubled only by hooks that overlap, each of which read it
\* before the other wrote, and by each of them once: never by one that comes
\* later or runs again.
OncePerHook ==
    \A i, j \in DOMAIN obs :
        ~Raw(i) /\ obs[i].source = obs[j].source /\ obs[i].by = obs[j].by => i = j

\* An error neuron, which a failed call was promoted to, stays: neither a later
\* promotion nor the TTL takes it away.
ErrorsStay == \A i \in DOMAIN obs : ~IsObservation(i) => obs[i].active

\* What the hooks note is kept however promotions, sweeps and recordings
\* overlap: nothing is lost but what the code gives up (noise, the TTL, a failed
\* promotion), no source stays beside its promotion, errors outlive them all,
\* and an observation has no more promotions than hooks that held it at once.
\* (Two such hooks do promote it twice: the code has no check against it.)
NotesKept == NoObservationLost /\ SourceArchived /\ OncePerHook /\ ErrorsStay

\* A session has at most as many raw observations as the cap, plus one for
\* every other hook that checked the cap before it recorded.
CapNearlyKept ==
    \A s \in Sessions :
        Cardinality({i \in Observations(s) : Raw(i)})
            <= MaxPerSession + Cardinality(Procs) - 1
=============================================================================
