-------------------------- MODULE HookRecordsProofs --------------------------
(***************************************************************************)
(* What the hooks keep is kept right, for any processes, sessions,         *)
(* contents, transcripts and packs.                                        *)
(*                                                                         *)
(* Observations: a promotion holds observations of its session, which no   *)
(* step turns into anything else, and deactivates those it read with the   *)
(* row that takes the place of each; the hooks that have checked a         *)
(* session's cap and are yet to record are counted with its rows.          *)
(*                                                                         *)
(* Capture: a capture holds the fingerprint of no more than it has parsed, *)
(* for the file only grows between its two reads; and it inserts beside    *)
(* what is stored by the time of its write.                                *)
(*                                                                         *)
(* HookSession: the row and the server's copy of it only ever name a       *)
(* transcript together with a session that some hook named it for; what is *)
(* announced is never taken back, so a copy stays good as it grows old.    *)
(*                                                                         *)
(* AgySession: an entry is justified by the history when the pack it tells *)
(* of was sent and the handover it tells of was tried.  Every copy of an   *)
(* entry, in the file, the shadow or a process, is justified, but for the  *)
(* one that a PreInvocation writes before it prints; and what is justified *)
(* stays so.                                                               *)
(***************************************************************************)
EXTENDS HookRecords, FiniteSetTheorems, SequenceTheorems, TLAPS

-----------------------------------------------------------------------------
(* Observations                                                            *)

ObsRows == [session : Sessions, content : Contents, source : Nat,
         active : BOOLEAN, age : Fresh .. Expired, by : SUBSET Procs]

\* The rows that a promotion read are observations of its session.
TakenInv ==
    \A p \in Procs : step[p].at = "promote" =>
        \A i \in step[p].rows : IsObservation(i) /\ obs[i].session = step[p].session

\* The raw observations of a session, and the hooks that have checked its cap
\* and are yet to record.
RawOf(s) == {i \in Observations(s) : Raw(i)}
Recording(s) == {p \in Procs : step[p].at = "record" /\ step[p].session = s}

CapInv ==
    \A s \in Sessions :
        Cardinality(RawOf(s)) + Cardinality(Recording(s))
            <= MaxPerSession + Cardinality(Procs) - 1

Kept == NoObservationLost /\ SourceArchived /\ ErrorsStay

ObsInv == TypeOK /\ TakenInv /\ Kept /\ CapInv

\* What a hook is about to promote it has not promoted before.
HeldInv ==
    \A p \in Procs : step[p].at = "promote" =>
        \A i \in step[p].rows : \A j \in DOMAIN obs : obs[j].source = i => obs[j].by # {p}

OnceInv == HeldInv /\ OncePerHook

\* What no step changes of a row.
RowsStay ==
    /\ obs' \in Seq(ObsRows) /\ Len(obs) <= Len(obs')
    /\ \A i \in 1 .. Len(obs) : /\ obs'[i].session = obs[i].session
                                /\ obs'[i].content = obs[i].content
                                /\ obs'[i].source = obs[i].source

-----------------------------------------------------------------------------
\* A step that keeps the rows changes neither which of them are observations
\* nor what a promotion may hold.
LEMMA StillObservations ==
    ASSUME TypeOK, RowsStay
    PROVE  /\ DOMAIN obs = 1 .. Len(obs) /\ DOMAIN obs' = 1 .. Len(obs')
           /\ Len(obs) \in Nat /\ Len(obs') \in Nat
           /\ \A i \in 1 .. Len(obs) : i \in 1 .. Len(obs')
           /\ \A i \in 1 .. Len(obs) : (Raw(i)' <=> Raw(i)) /\ (IsObservation(i)' <=> IsObservation(i))
           /\ Steps \subseteq Steps'
<1>1. obs \in Seq(ObsRows) /\ obs' \in Seq(ObsRows)
  BY DEF TypeOK, RowsStay, ObsRows
<1>2. /\ DOMAIN obs = 1 .. Len(obs) /\ DOMAIN obs' = 1 .. Len(obs')
      /\ Len(obs) \in Nat /\ Len(obs') \in Nat
  BY <1>1
<1>3. \A i \in 1 .. Len(obs) : i \in 1 .. Len(obs')
  BY <1>2 DEF RowsStay
<1>4. \A i \in 1 .. Len(obs) : (Raw(i)' <=> Raw(i)) /\ (IsObservation(i)' <=> IsObservation(i))
  BY DEF RowsStay, Raw, IsObservation
<1>5. Steps \subseteq Steps'
  <2>1. SUBSET DOMAIN obs \subseteq SUBSET DOMAIN obs'
    BY <1>2, <1>3
  <2> QED
    BY <2>1 DEF Steps
<1> QED
  BY <1>1, <1>2, <1>3, <1>4, <1>5

\* What a process is about to write stays fit to be written.
LEMMA StillTaken ==
    ASSUME TypeOK, TakenInv, RowsStay, NEW p \in Procs,
           step[p].at = "promote", step' [p] = step[p], step[p] \in Steps
    PROVE  \A i \in step'[p].rows : IsObservation(i)' /\ obs'[i].session = step'[p].session
<1>1. step[p].rows \subseteq DOMAIN obs
  BY DEF Steps, Idle
<1> QED
  BY <1>1, StillObservations DEF TakenInv, RowsStay

\* A finite set and one more.
LEMMA OneMore ==
    ASSUME NEW S, IsFiniteSet(S), NEW x
    PROVE  /\ IsFiniteSet(S \cup {x}) /\ Cardinality(S \cup {x}) \in Nat
           /\ Cardinality(S \cup {x}) <= Cardinality(S) + 1
<1>1. IsFiniteSet(S \cup {x}) /\ Cardinality(S) \in Nat
  BY FS_AddElement, FS_CardinalityType
<1>2. Cardinality(S \cup {x}) = IF x \in S THEN Cardinality(S) ELSE Cardinality(S) + 1
  BY FS_AddElement
<1> QED
  BY <1>1, <1>2

\* The cardinalities that the cap is about.
LEMMA CapNumbers ==
    ASSUME ObservationsAssumption, obs \in Seq(ObsRows), NEW s \in Sessions
    PROVE  /\ IsFiniteSet(Observations(s)) /\ Cardinality(Observations(s)) \in Nat
           /\ IsFiniteSet(RawOf(s)) /\ Cardinality(RawOf(s)) \in Nat
           /\ Cardinality(RawOf(s)) <= Cardinality(Observations(s))
           /\ IsFiniteSet(Recording(s)) /\ Cardinality(Recording(s)) \in Nat
           /\ Cardinality(Recording(s)) <= Cardinality(Procs)
           /\ Cardinality(Procs) \in Nat /\ MaxPerSession \in Nat \ {0}
<1>1. IsFiniteSet(DOMAIN obs)
  BY FS_Interval
<1>2. Observations(s) \subseteq DOMAIN obs /\ RawOf(s) \subseteq Observations(s)
      /\ Recording(s) \subseteq Procs
  BY DEF Observations, RawOf, Recording
<1>3. IsFiniteSet(Observations(s)) /\ IsFiniteSet(Recording(s))
      /\ Cardinality(Recording(s)) <= Cardinality(Procs)
  BY <1>1, <1>2, FS_Subset DEF ObservationsAssumption
<1>4. IsFiniteSet(RawOf(s)) /\ Cardinality(RawOf(s)) <= Cardinality(Observations(s))
  BY <1>2, <1>3, FS_Subset
<1> QED
  BY <1>3, <1>4, FS_CardinalityType DEF ObservationsAssumption

\* A step that adds no raw observation, and after which no other hook is about
\* to record one, keeps the cap.
LEMMA CapStays ==
    ASSUME ObservationsAssumption, ObsInv, TypeOK',
           \A s \in Sessions : RawOf(s)' \subseteq RawOf(s) /\ Recording(s)' \subseteq Recording(s)
    PROVE  CapInv'
<1>1. obs \in Seq(ObsRows) /\ obs' \in Seq(ObsRows)
  BY DEF ObsInv, TypeOK, ObsRows
<1>2. SUFFICES ASSUME NEW s \in Sessions
               PROVE  Cardinality(RawOf(s)') + Cardinality(Recording(s)')
                         <= MaxPerSession + Cardinality(Procs) - 1
  BY DEF CapInv
<1>3. /\ Cardinality(RawOf(s)) + Cardinality(Recording(s)) <= MaxPerSession + Cardinality(Procs) - 1
      /\ IsFiniteSet(RawOf(s)) /\ Cardinality(RawOf(s)) \in Nat
      /\ IsFiniteSet(Recording(s)) /\ Cardinality(Recording(s)) \in Nat
      /\ MaxPerSession \in Nat /\ Cardinality(Procs) \in Nat
  BY <1>1, CapNumbers DEF ObsInv, CapInv
<1>4. /\ Cardinality(RawOf(s)') <= Cardinality(RawOf(s)) /\ Cardinality(RawOf(s)') \in Nat
      /\ Cardinality(Recording(s)') <= Cardinality(Recording(s)) /\ Cardinality(Recording(s)') \in Nat
  BY <1>3, FS_Subset, FS_CardinalityType
<1> QED
  BY <1>3, <1>4

-----------------------------------------------------------------------------
\* A new raw observation disturbs nothing, and counts for its session only.
LEMMA AppendsRow ==
    ASSUME ObsInv, NEW s \in Sessions, NEW c \in Contents,
           obs' = Append(obs, Row({}, s, c, 0)), unsaved' = unsaved,
           step' = [q \in Procs |-> step'[q]],
           \A q \in Procs : step'[q] = step[q] \/ step'[q] = Idle
    PROVE  /\ TypeOK' /\ TakenInv' /\ Kept'
           /\ RawOf(s)' \subseteq RawOf(s) \cup {Len(obs) + 1}
           /\ \A t \in Sessions : t # s => RawOf(t)' \subseteq RawOf(t)
<1> PICK n \in Nat : n = Len(obs)
  BY DEF ObsInv, TypeOK
<1>1. obs \in Seq(ObsRows) /\ n \in Nat /\ n = Len(obs) /\ Row({}, s, c, 0) \in ObsRows
  BY DEF ObsInv, TypeOK, ObsRows, Row, Fresh, Expired
<1>2. /\ obs' \in Seq(ObsRows) /\ Len(obs') = n + 1
      /\ \A i \in 1 .. n : obs'[i] = obs[i]
      /\ obs'[n + 1] = Row({}, s, c, 0)
  BY <1>1, AppendProperties
<1>3. RowsStay
  BY <1>1, <1>2 DEF RowsStay
<1>4. TypeOK
  BY DEF ObsInv
<1>5. /\ DOMAIN obs = 1 .. n /\ DOMAIN obs' = 1 .. n + 1
      /\ \A i \in 1 .. n : (Raw(i)' <=> Raw(i)) /\ (IsObservation(i)' <=> IsObservation(i))
      /\ Steps \subseteq Steps'
  BY <1>1, <1>2, <1>3, <1>4, StillObservations
<1>6. Raw(n + 1)' /\ IsObservation(n + 1)' /\ obs'[n + 1].active /\ obs'[n + 1].session = s
  BY <1>2 DEF Raw, IsObservation, Row
<1>7. \A i \in DOMAIN obs' : i \in DOMAIN obs \/ i = n + 1
  BY <1>1, <1>5
<1>8. TypeOK'
  <2>1. step' \in [Procs -> Steps']
    BY <1>4, <1>5 DEF TypeOK, Steps
  <2>2. ASSUME NEW i \in DOMAIN obs', ~Raw(i)'
        PROVE  /\ obs'[i].source \in 1 .. i - 1 /\ IsObservation(obs[i].source)'
               /\ obs'[i].session = obs'[obs'[i].source].session
               /\ obs'[i].content = obs'[obs'[i].source].content
    <3>1. i \in 1 .. n /\ ~Raw(i) /\ obs'[i] = obs[i]
      BY <2>2, <1>2, <1>5, <1>6, <1>7
    <3>2. /\ obs[i].source \in 1 .. i - 1 /\ IsObservation(obs[i].source)
          /\ obs[i].session = obs[obs[i].source].session
          /\ obs[i].content = obs[obs[i].source].content
      BY <3>1, <1>4, <1>5 DEF TypeOK
    <3>3. obs[i].source \in 1 .. n
      BY <3>1, <3>2, <1>1
    <3> QED
      BY <3>1, <3>2, <3>3, <1>2, <1>5
  <2>3. unsaved' \subseteq DOMAIN obs'
    BY <1>1, <1>4, <1>5 DEF TypeOK
  <2> QED
    BY <1>2, <2>1, <2>2, <2>3 DEF TypeOK, ObsRows
<1>9. TakenInv'
  <2> SUFFICES ASSUME NEW p \in Procs, step'[p].at = "promote"
               PROVE \A i \in step'[p].rows : IsObservation(i)' /\ obs'[i].session = step'[p].session
    BY DEF TakenInv
  <2>1. step'[p] = step[p]
    BY DEF Idle
  <2>2. step[p] \in Steps
    BY <1>4 DEF TypeOK
  <2> QED
    BY <2>1, <2>2, <1>3, <1>4, StillTaken DEF ObsInv
<1>10. Kept'
  <2>1. NoObservationLost'
    BY <1>2, <1>5, <1>6, <1>7 DEF ObsInv, Kept, NoObservationLost
  <2>2. SourceArchived'
    <3> SUFFICES ASSUME NEW i \in DOMAIN obs', ~Raw(i)' PROVE ~obs'[obs'[i].source].active
      BY DEF SourceArchived
    <3>1. i \in 1 .. n /\ ~Raw(i) /\ obs'[i] = obs[i]
      BY <1>2, <1>5, <1>6, <1>7
    <3>2. obs[i].source \in 1 .. i - 1 /\ ~obs[obs[i].source].active
      BY <3>1, <1>4, <1>5 DEF TypeOK, ObsInv, Kept, SourceArchived
    <3>3. obs[i].source \in 1 .. n
      BY <3>1, <3>2, <1>1
    <3> QED
      BY <3>1, <3>2, <3>3, <1>2
  <2>3. ErrorsStay'
    BY <1>2, <1>5, <1>6, <1>7 DEF ObsInv, Kept, ErrorsStay
  <2> QED
    BY <2>1, <2>2, <2>3 DEF Kept
<1>11. ASSUME NEW t \in Sessions
       PROVE  RawOf(t)' \subseteq RawOf(t) \cup (IF t = s THEN {n + 1} ELSE {})
  BY <1>2, <1>5, <1>6, <1>7 DEF RawOf, Observations
<1> QED
  BY <1>8, <1>9, <1>10, <1>11

LEMMA PostToolUseStep ==
    ASSUME ObservationsAssumption, ObsInv,
           NEW p \in Procs, NEW s \in Sessions, NEW c \in Contents, PostToolUse(p, s, c)
    PROVE  ObsInv'
<1>1. obs' = Append(obs, Row({}, s, c, 0)) /\ unsaved' = unsaved /\ step' = step
      /\ step[p] = Idle /\ Room(s)
  BY DEF PostToolUse, Recordable
<1>2. step' = [q \in Procs |-> step'[q]]
  BY <1>1 DEF ObsInv, TypeOK
<1>3. /\ TypeOK' /\ TakenInv' /\ Kept'
      /\ RawOf(s)' \subseteq RawOf(s) \cup {Len(obs) + 1}
      /\ \A t \in Sessions : t # s => RawOf(t)' \subseteq RawOf(t)
  BY <1>1, <1>2, AppendsRow
<1>4. CapInv'
  <2> SUFFICES ASSUME NEW t \in Sessions
               PROVE  Cardinality(RawOf(t)') + Cardinality(Recording(t)')
                         <= MaxPerSession + Cardinality(Procs) - 1
    BY DEF CapInv
  <2>1. obs \in Seq(ObsRows)
    BY DEF ObsInv, TypeOK, ObsRows
  <2>2. Recording(t)' = Recording(t)
    BY <1>1 DEF Recording
  <2>3. /\ IsFiniteSet(RawOf(t)) /\ Cardinality(RawOf(t)) \in Nat
        /\ Cardinality(RawOf(t)) <= Cardinality(Observations(t))
        /\ Cardinality(Observations(t)) \in Nat
        /\ IsFiniteSet(Recording(t)) /\ Cardinality(Recording(t)) \in Nat
        /\ MaxPerSession \in Nat /\ Cardinality(Procs) \in Nat
    BY <2>1, CapNumbers
  <2>4. CASE t # s
    <3>1. Cardinality(RawOf(t)') <= Cardinality(RawOf(t)) /\ Cardinality(RawOf(t)') \in Nat
      BY <1>3, <2>3, <2>4, FS_Subset, FS_CardinalityType
    <3>2. Cardinality(RawOf(t)) + Cardinality(Recording(t)) <= MaxPerSession + Cardinality(Procs) - 1
      BY DEF ObsInv, CapInv
    <3> QED
      BY <3>1, <3>2, <2>2, <2>3
  <2>5. CASE t = s
    <3>1. Cardinality(RawOf(s)) <= MaxPerSession - 1
      BY <1>1, <2>3, <2>5 DEF Room
    <3>2. IsFiniteSet(RawOf(s) \cup {Len(obs) + 1})
          /\ Cardinality(RawOf(s) \cup {Len(obs) + 1}) <= Cardinality(RawOf(s)) + 1
          /\ Cardinality(RawOf(s) \cup {Len(obs) + 1}) \in Nat
      BY <2>3, <2>5, OneMore
    <3>3. Cardinality(RawOf(s)') <= Cardinality(RawOf(s) \cup {Len(obs) + 1})
          /\ Cardinality(RawOf(s)') \in Nat
      BY <1>3, <3>2, FS_Subset, FS_CardinalityType
    <3>4. Cardinality(Recording(s)) <= Cardinality(Procs) - 1
      <4>1. Recording(s) \subseteq Procs \ {p}
        BY <1>1 DEF Recording, Idle
      <4>2. IsFiniteSet(Procs \ {p}) /\ Cardinality(Procs \ {p}) = Cardinality(Procs) - 1
        BY FS_RemoveElement DEF ObservationsAssumption
      <4> QED
        BY <4>1, <4>2, FS_Subset
    <3> QED
      BY <2>2, <2>3, <2>5, <3>1, <3>2, <3>3, <3>4
  <2> QED
    BY <2>4, <2>5
<1> QED
  BY <1>3, <1>4 DEF ObsInv

LEMMA PromptReadStep ==
    ASSUME ObservationsAssumption, ObsInv,
           NEW p \in Procs, NEW s \in Sessions, NEW c \in Contents, PromptRead(p, s, c)
    PROVE  ObsInv'
<1> DEFINE r == [at |-> "record", session |-> s, content |-> c]
<1>1. obs' = obs /\ unsaved' = unsaved /\ step' = [step EXCEPT ![p] = r]
      /\ step[p] = Idle /\ Room(s) /\ c \notin Failures
  BY DEF PromptRead, Recordable, Goes, dbVars
<1>2. r \in Steps /\ r.at = "record" /\ r.session = s
  BY <1>1 DEF Steps
<1> HIDE DEF r
<1>3. TypeOK'
  <2>1. Steps' = Steps
    BY <1>1 DEF Steps
  <2>2. step' \in [Procs -> Steps']
    BY <1>1, <1>2, <2>1 DEF ObsInv, TypeOK
  <2> QED
    BY <1>1, <2>2 DEF ObsInv, TypeOK, Raw, IsObservation
<1>4. \A q \in Procs : q # p => step'[q] = step[q]
  BY <1>1 DEF ObsInv, TypeOK
<1>5. step'[p] = r
  BY <1>1 DEF ObsInv, TypeOK
<1>6. TakenInv'
  BY <1>1, <1>2, <1>4, <1>5 DEF ObsInv, TakenInv, Raw, IsObservation
<1>7. Kept'
  BY <1>1 DEF ObsInv, Kept, NoObservationLost, SourceArchived, ErrorsStay, Raw, IsObservation
<1>8. CapInv'
  <2> SUFFICES ASSUME NEW t \in Sessions
               PROVE  Cardinality(RawOf(t)') + Cardinality(Recording(t)')
                         <= MaxPerSession + Cardinality(Procs) - 1
    BY DEF CapInv
  <2>1. obs \in Seq(ObsRows)
    BY DEF ObsInv, TypeOK, ObsRows
  <2>2. RawOf(t)' = RawOf(t)
    BY <1>1 DEF RawOf, Observations, Raw, IsObservation
  <2>3. /\ Cardinality(RawOf(t)) \in Nat
        /\ Cardinality(RawOf(t)) <= Cardinality(Observations(t))
        /\ Cardinality(Observations(t)) \in Nat
        /\ IsFiniteSet(Recording(t)) /\ Cardinality(Recording(t)) \in Nat
        /\ MaxPerSession \in Nat /\ Cardinality(Procs) \in Nat
    BY <2>1, CapNumbers
  <2>4. CASE t # s
    <3>1. Recording(t)' = Recording(t)
      BY <1>1, <1>2, <1>4, <1>5, <2>4 DEF Recording, Idle
    <3> QED
      BY <2>2, <3>1 DEF ObsInv, CapInv
  <2>5. CASE t = s
    <3>1. Cardinality(RawOf(s)) <= MaxPerSession - 1
      BY <1>1, <2>3, <2>5 DEF Room
    <3>2. Recording(s)' \subseteq Procs
      BY DEF Recording
    <3>3. Cardinality(Recording(s)') <= Cardinality(Procs) /\ Cardinality(Recording(s)') \in Nat
      BY <3>2, FS_Subset, FS_CardinalityType DEF ObservationsAssumption
    <3> QED
      BY <2>2, <2>3, <2>5, <3>1, <3>3
  <2> QED
    BY <2>4, <2>5
<1> QED
  BY <1>3, <1>6, <1>7, <1>8 DEF ObsInv


LEMMA PromptRecordStep ==
    ASSUME ObservationsAssumption, ObsInv, NEW p \in Procs, PromptRecord(p)
    PROVE  ObsInv'
<1>1. PICK w : w = step[p]
  OBVIOUS
<1>2. w.at = "record" /\ w \in Steps
  BY <1>1 DEF PromptRecord, ObsInv, TypeOK
<1>3. w \in [at : {"record"}, session : Sessions, content : Contents \ Failures]
  BY <1>2 DEF Steps, Idle
<1>4. PICK s \in Sessions, c \in Contents : s = w.session /\ c = w.content
  BY <1>3
<1>5. obs' = Append(obs, Row({}, s, c, 0)) /\ unsaved' = unsaved
      /\ step' = [step EXCEPT ![p] = Idle]
  BY <1>1, <1>4 DEF PromptRecord, Goes
<1>6. /\ step' = [q \in Procs |-> step'[q]]
      /\ \A q \in Procs : step'[q] = IF q = p THEN Idle ELSE step[q]
  BY <1>5 DEF ObsInv, TypeOK
<1>7. /\ TypeOK' /\ TakenInv' /\ Kept'
      /\ RawOf(s)' \subseteq RawOf(s) \cup {Len(obs) + 1}
      /\ \A t \in Sessions : t # s => RawOf(t)' \subseteq RawOf(t)
  BY <1>5, <1>6, AppendsRow
<1>8. CapInv'
  <2> SUFFICES ASSUME NEW t \in Sessions
               PROVE  Cardinality(RawOf(t)') + Cardinality(Recording(t)')
                         <= MaxPerSession + Cardinality(Procs) - 1
    BY DEF CapInv
  <2>1. obs \in Seq(ObsRows)
    BY DEF ObsInv, TypeOK, ObsRows
  <2>2. /\ Cardinality(RawOf(t)) + Cardinality(Recording(t)) <= MaxPerSession + Cardinality(Procs) - 1
        /\ IsFiniteSet(RawOf(t)) /\ Cardinality(RawOf(t)) \in Nat
        /\ IsFiniteSet(Recording(t)) /\ Cardinality(Recording(t)) \in Nat
        /\ MaxPerSession \in Nat /\ Cardinality(Procs) \in Nat
    BY <2>1, CapNumbers DEF ObsInv, CapInv
  <2>3. CASE t # s
    <3>1. Cardinality(RawOf(t)') <= Cardinality(RawOf(t)) /\ Cardinality(RawOf(t)') \in Nat
      BY <1>7, <2>2, <2>3, FS_Subset, FS_CardinalityType
    <3>2. Recording(t)' \subseteq Recording(t)
      BY <1>6 DEF Recording, Idle
    <3>3. Cardinality(Recording(t)') <= Cardinality(Recording(t)) /\ Cardinality(Recording(t)') \in Nat
      BY <2>2, <3>2, FS_Subset, FS_CardinalityType
    <3> QED
      BY <2>2, <3>1, <3>3
  <2>4. CASE t = s
    <3>1. IsFiniteSet(RawOf(s) \cup {Len(obs) + 1})
          /\ Cardinality(RawOf(s) \cup {Len(obs) + 1}) <= Cardinality(RawOf(s)) + 1
          /\ Cardinality(RawOf(s) \cup {Len(obs) + 1}) \in Nat
      BY <2>2, <2>4, OneMore
    <3>2. Cardinality(RawOf(s)') <= Cardinality(RawOf(s) \cup {Len(obs) + 1})
          /\ Cardinality(RawOf(s)') \in Nat
      BY <1>7, <3>1, FS_Subset, FS_CardinalityType
    <3>3. p \in Recording(s)
      BY <1>1, <1>2, <1>4 DEF Recording
    <3>4. Recording(s)' \subseteq Recording(s) \ {p}
      BY <1>6 DEF Recording, Idle
    <3>5. IsFiniteSet(Recording(s) \ {p})
          /\ Cardinality(Recording(s) \ {p}) = Cardinality(Recording(s)) - 1
      BY <2>2, <2>4, <3>3, FS_RemoveElement
    <3>6. Cardinality(Recording(s)') <= Cardinality(Recording(s)) - 1
          /\ Cardinality(Recording(s)') \in Nat
      BY <3>4, <3>5, FS_Subset, FS_CardinalityType
    <3> QED
      BY <2>2, <2>4, <3>1, <3>2, <3>6
  <2> QED
    BY <2>3, <2>4
<1> QED
  BY <1>7, <1>8 DEF ObsInv

-----------------------------------------------------------------------------
\* A step of one process that writes nothing and records nothing.
LEMMA RestsStep ==
    ASSUME ObservationsAssumption, ObsInv, NEW p \in Procs, UNCHANGED dbVars,
           step' = [step EXCEPT ![p] = step'[p]],
           step'[p] \in Steps, step'[p].at # "record",
           step'[p].at = "promote" => \A i \in step'[p].rows :
                 IsObservation(i) /\ obs[i].session = step'[p].session
    PROVE  ObsInv'
<1>1. obs' = obs /\ unsaved' = unsaved
  BY DEF dbVars
<1>2. \A q \in Procs : q # p => step'[q] = step[q]
  BY DEF ObsInv, TypeOK
<1>3. TypeOK'
  <2>1. Steps' = Steps
    BY <1>1 DEF Steps
  <2>2. step' \in [Procs -> Steps']
    BY <1>2, <2>1 DEF ObsInv, TypeOK
  <2> QED
    BY <1>1, <2>2 DEF ObsInv, TypeOK, Raw, IsObservation
<1>4. TakenInv'
  BY <1>1, <1>2 DEF ObsInv, TakenInv, Raw, IsObservation
<1>5. Kept'
  BY <1>1 DEF ObsInv, Kept, NoObservationLost, SourceArchived, ErrorsStay, Raw, IsObservation
<1>6. CapInv'
  <2>1. \A s \in Sessions : RawOf(s)' = RawOf(s)
    BY <1>1 DEF RawOf, Observations, Raw, IsObservation
  <2>2. \A s \in Sessions : Recording(s)' \subseteq Recording(s)
    BY <1>2 DEF Recording
  <2> QED
    BY <1>3, <2>1, <2>2, CapStays
<1> QED
  BY <1>3, <1>4, <1>5, <1>6 DEF ObsInv

LEMMA PromoteReadStep ==
    ASSUME ObservationsAssumption, ObsInv, NEW p \in Procs, NEW s \in Sessions, PromoteRead(p, s)
    PROVE  ObsInv'
<1>1. PICK r : r = [at |-> "promote", session |-> s, rows |-> Observations(s)]
  OBVIOUS
<1>2. step' = [step EXCEPT ![p] = r] /\ UNCHANGED dbVars
  BY <1>1 DEF PromoteRead, Goes
<1>3. step'[p] = r
  BY <1>2 DEF ObsInv, TypeOK
<1>4. r \in Steps /\ r.at = "promote" /\ r.session = s /\ r.rows = Observations(s)
  BY <1>1 DEF Steps, Observations
<1>5. \A i \in Observations(s) : IsObservation(i) /\ obs[i].session = s
  BY DEF Observations
<1> QED
  BY <1>2, <1>3, <1>4, <1>5, RestsStep

LEMMA CrashStep ==
    ASSUME ObservationsAssumption, ObsInv, NEW p \in Procs, Crash(p)
    PROVE  ObsInv'
<1>1. step' = [step EXCEPT ![p] = Idle] /\ UNCHANGED dbVars
  BY DEF Crash, Goes
<1>2. step'[p] = Idle
  BY <1>1 DEF ObsInv, TypeOK
<1>3. Idle \in Steps /\ Idle.at # "record" /\ Idle.at # "promote"
  BY DEF Steps, Idle
<1> QED
  BY <1>1, <1>2, <1>3, RestsStep

LEMMA TickStep ==
    ASSUME ObservationsAssumption, ObsInv, Tick
    PROVE  ObsInv'
<1>1. /\ obs' = [i \in DOMAIN obs |->
                    IF obs[i].active /\ obs[i].age < Expired
                    THEN [obs[i] EXCEPT !.age = @ + 1] ELSE obs[i]]
      /\ unsaved' = unsaved /\ step' = step
  BY DEF Tick
<1>2. obs \in Seq(ObsRows)
  BY DEF ObsInv, TypeOK, ObsRows
<1>3. \A i \in DOMAIN obs : obs'[i] \in ObsRows /\ obs'[i].session = obs[i].session
         /\ obs'[i].content = obs[i].content /\ obs'[i].source = obs[i].source
         /\ obs'[i].active = obs[i].active /\ (~obs[i].active => obs'[i] = obs[i])
  <2> SUFFICES ASSUME NEW i \in DOMAIN obs
               PROVE obs'[i] \in ObsRows /\ obs'[i].session = obs[i].session
         /\ obs'[i].content = obs[i].content /\ obs'[i].source = obs[i].source
         /\ obs'[i].active = obs[i].active /\ (~obs[i].active => obs'[i] = obs[i])
    OBVIOUS
  <2>1. obs[i] \in ObsRows
    BY <1>2
  <2>2. obs'[i] = IF obs[i].active /\ obs[i].age < Expired
                  THEN [obs[i] EXCEPT !.age = @ + 1] ELSE obs[i]
    BY <1>1
  <2> QED
    BY <2>1, <2>2 DEF ObsRows, Fresh, Expired
<1>4. obs' \in Seq(ObsRows) /\ Len(obs') = Len(obs) /\ DOMAIN obs' = DOMAIN obs
      /\ DOMAIN obs = 1 .. Len(obs) /\ Len(obs) \in Nat
  BY <1>1, <1>2, <1>3
<1>5. RowsStay
  BY <1>3, <1>4 DEF RowsStay
<1>6. /\ TypeOK /\ Steps \subseteq Steps'
      /\ \A i \in DOMAIN obs : (Raw(i)' <=> Raw(i)) /\ (IsObservation(i)' <=> IsObservation(i))
  BY <1>4, <1>5, StillObservations DEF ObsInv
<1>7. \A i \in DOMAIN obs : ~Raw(i) => obs[i].source \in DOMAIN obs
  <2> SUFFICES ASSUME NEW i \in DOMAIN obs, ~Raw(i) PROVE obs[i].source \in DOMAIN obs
    OBVIOUS
  <2>1. obs[i].source \in 1 .. i - 1 /\ i \in 1 .. Len(obs)
    BY <1>4, <1>6 DEF TypeOK
  <2> QED
    BY <2>1, <1>4
<1>8. TypeOK'
  <2>1. step' \in [Procs -> Steps'] /\ unsaved' \subseteq DOMAIN obs'
    BY <1>1, <1>4, <1>6 DEF TypeOK
  <2>2. ASSUME NEW i \in DOMAIN obs', ~Raw(i)'
        PROVE  /\ obs'[i].source \in 1 .. i - 1 /\ IsObservation(obs[i].source)'
               /\ obs'[i].session = obs'[obs'[i].source].session
               /\ obs'[i].content = obs'[obs'[i].source].content
    <3>1. i \in DOMAIN obs /\ ~Raw(i) /\ obs[i].source \in DOMAIN obs
      BY <2>2, <1>4, <1>6, <1>7
    <3>2. /\ obs[i].source \in 1 .. i - 1 /\ IsObservation(obs[i].source)
          /\ obs[i].session = obs[obs[i].source].session
          /\ obs[i].content = obs[obs[i].source].content
      BY <3>1, <1>6 DEF TypeOK
    <3> QED
      BY <3>1, <3>2, <1>3, <1>6
  <2> QED
    BY <1>4, <2>1, <2>2 DEF TypeOK, ObsRows
<1>9. TakenInv'
  <2> SUFFICES ASSUME NEW p \in Procs, step'[p].at = "promote"
               PROVE \A i \in step'[p].rows : IsObservation(i)' /\ obs'[i].session = step'[p].session
    BY DEF TakenInv
  <2> QED
    BY <1>1, <1>5, StillTaken DEF ObsInv, TypeOK
<1>10. Kept'
  <2>1. NoObservationLost'
    BY <1>1, <1>3, <1>4 DEF ObsInv, Kept, NoObservationLost
  <2>2. SourceArchived'
    BY <1>3, <1>4, <1>6, <1>7 DEF ObsInv, Kept, SourceArchived
  <2>3. ErrorsStay'
    BY <1>3, <1>4, <1>6 DEF ObsInv, Kept, ErrorsStay
  <2> QED
    BY <2>1, <2>2, <2>3 DEF Kept
<1>11. CapInv'
  <2>1. \A s \in Sessions : RawOf(s)' \subseteq RawOf(s)
    BY <1>3, <1>4, <1>6 DEF RawOf, Observations
  <2>2. \A s \in Sessions : Recording(s)' \subseteq Recording(s)
    BY <1>1 DEF Recording
  <2> QED
    BY <1>8, <2>1, <2>2, CapStays
<1> QED
  BY <1>8, <1>9, <1>10, <1>11 DEF ObsInv

-----------------------------------------------------------------------------
LEMMA PromoteStep ==
    ASSUME ObservationsAssumption, ObsInv, NEW p \in Procs, Promote(p)
    PROVE  ObsInv' /\ (OnceInv => OnceInv')
<1> PICK n \in Nat : n = Len(obs)
  BY DEF ObsInv, TypeOK
<1>1. obs \in Seq(ObsRows) /\ DOMAIN obs = 1 .. n /\ n = Len(obs)
  BY DEF ObsInv, TypeOK, ObsRows
<1>2. PICK w : w = step[p]
  OBVIOUS
<1>3. w.at = "promote" /\ w \in Steps
  BY <1>2 DEF Promote, ObsInv, TypeOK
<1>4. w.session \in Sessions /\ w.rows \subseteq 1 .. n
  BY <1>1, <1>3 DEF Steps, Idle
<1>5. \A i \in w.rows : IsObservation(i) /\ obs[i].session = w.session
  BY <1>2, <1>3 DEF ObsInv, TakenInv
<1>6. PICK good : good = {i \in w.rows : obs[i].content \notin Noise}
  OBVIOUS
<1>0. PICK failed \in SUBSET good, swept \in SUBSET ExpiredRows :
          \E sources :
             /\ sources \in InOrder(good \ failed)
             /\ obs' = [i \in DOMAIN obs |->
                          IF i \in Taken(p) \cup swept
                          THEN [obs[i] EXCEPT !.active = FALSE] ELSE obs[i]]
                       \o [k \in DOMAIN sources |->
                             Row({p}, w.session, obs[sources[k]].content, sources[k])]
             /\ unsaved' = unsaved \cup failed
  <2>1. good = {i \in step[p].rows : obs[i].content \notin Noise}
    BY <1>2, <1>6
  <2>2. PICK failed \in SUBSET {i \in good : \A j \in step[p].rows : i <= j},
             swept \in {{}, ExpiredRows} :
       \E sources \in InOrder(good \ failed) :
          /\ obs' = [i \in DOMAIN obs |->
                       IF i \in Taken(p) \cup swept
                       THEN [obs[i] EXCEPT !.active = FALSE] ELSE obs[i]]
                    \o [k \in DOMAIN sources |->
                          Row({p}, step[p].session, obs[sources[k]].content, sources[k])]
          /\ unsaved' = unsaved \cup failed
    BY <2>1, ZenonT(30) DEF Promote
  <2>3. failed \in SUBSET good /\ swept \in SUBSET ExpiredRows
    OBVIOUS
  <2> QED
    BY <1>2, <2>2, <2>3
<1>7. PICK sources :
          /\ sources \in InOrder(good \ failed)
          /\ obs' = [i \in DOMAIN obs |->
                       IF i \in Taken(p) \cup swept
                       THEN [obs[i] EXCEPT !.active = FALSE] ELSE obs[i]]
                    \o [k \in DOMAIN sources |->
                          Row({p}, w.session, obs[sources[k]].content, sources[k])]
          /\ unsaved' = unsaved \cup failed
  BY <1>0
<1>8. step' = [step EXCEPT ![p] = Idle] /\ Taken(p) = w.rows
  BY <1>2 DEF Promote, Goes, Taken
<1>9. PICK kept, added :
          /\ kept = [i \in DOMAIN obs |-> IF i \in w.rows \cup swept
                                         THEN [obs[i] EXCEPT !.active = FALSE] ELSE obs[i]]
          /\ added = [k \in DOMAIN sources |->
                          Row({p}, w.session, obs[sources[k]].content, sources[k])]
  OBVIOUS
<1>10. swept \subseteq 1 .. n /\ \A i \in swept : IsObservation(i) /\ obs[i].age = Expired
  BY <1>1 DEF ExpiredRows
<1>11. /\ kept \in Seq(ObsRows) /\ Len(kept) = n
       /\ \A i \in 1 .. n : /\ kept[i].session = obs[i].session /\ kept[i].content = obs[i].content
                            /\ kept[i].source = obs[i].source /\ kept[i].age = obs[i].age
                            /\ kept[i].by = obs[i].by
                            /\ (i \in w.rows \cup swept => ~kept[i].active)
                            /\ (i \notin w.rows \cup swept => kept[i] = obs[i])
                            /\ (kept[i].active => obs[i].active)
  <2>1. ASSUME NEW i \in 1 .. n
        PROVE  /\ kept[i] \in ObsRows
               /\ kept[i].session = obs[i].session /\ kept[i].content = obs[i].content
               /\ kept[i].source = obs[i].source /\ kept[i].age = obs[i].age
               /\ kept[i].by = obs[i].by
               /\ (i \in w.rows \cup swept => ~kept[i].active)
               /\ (i \notin w.rows \cup swept => kept[i] = obs[i])
               /\ (kept[i].active => obs[i].active)
    <3>1. obs[i] \in ObsRows /\ kept[i] = IF i \in w.rows \cup swept
                                      THEN [obs[i] EXCEPT !.active = FALSE] ELSE obs[i]
      BY <1>1, <1>9
    <3> QED
      BY <3>1 DEF ObsRows
  <2>2. kept \in [1 .. n -> ObsRows]
    BY <1>1, <1>9, <2>1
  <2>3. kept \in Seq(ObsRows) /\ Len(kept) = n
    BY <2>2
  <2> QED
    BY <2>1, <2>3
<1>12. PICK m \in Nat : m = Cardinality(good \ failed)
  <2>1. IsFiniteSet(1 .. n)
    BY FS_Interval
  <2>2. good \ failed \in SUBSET (1 .. n)
    BY <1>4, <1>6
  <2>3. Cardinality(good \ failed) \in Nat
    BY <2>1, <2>2, FS_Subset, FS_CardinalityType
  <2> QED
    BY <2>3
<1>13. /\ sources \in [1 .. m -> good \ failed]
       /\ \A i \in good \ failed : \E k \in 1 .. m : sources[k] = i
       /\ \A k, l \in 1 .. m : k < l => sources[k] < sources[l]
  BY <1>7, <1>12 DEF InOrder
<1>14. ASSUME NEW k \in 1 .. m
       PROVE  /\ added[k] \in ObsRows /\ added[k].session = w.session /\ added[k].active
              /\ added[k].content = obs[sources[k]].content /\ added[k].source = sources[k]
              /\ added[k].by = {p}
  <2>1. sources[k] \in 1 .. n
    BY <1>4, <1>6, <1>13
  <2>2. added[k] = Row({p}, w.session, obs[sources[k]].content, sources[k])
    BY <1>9, <1>13
  <2>3. obs[sources[k]] \in ObsRows
    BY <1>1, <2>1
  <2> QED
    BY <1>4, <2>1, <2>2, <2>3 DEF ObsRows, Row, Fresh, Expired
<1>15. added \in Seq(ObsRows) /\ Len(added) = m
  <2>1. DOMAIN sources = 1 .. m
    BY <1>13
  <2>2. added \in [1 .. m -> ObsRows]
    BY <1>9, <1>14, <2>1
  <2> QED
    BY <2>2
<1>16. /\ obs' \in Seq(ObsRows) /\ Len(obs') = n + m
       /\ \A i \in 1 .. n : obs'[i] = kept[i]
       /\ \A k \in 1 .. m : obs'[n + k] = added[k]
  <2>1. obs' = kept \o added
    BY <1>7, <1>8, <1>9
  <2>2. /\ obs' \in Seq(ObsRows) /\ Len(obs') = n + m
        /\ \A i \in 1 .. n + m : obs'[i] = IF i <= n THEN kept[i] ELSE added[i - n]
    <3>1. kept \in Seq(ObsRows) /\ added \in Seq(ObsRows) /\ Len(kept) = n /\ Len(added) = m
      BY <1>11, <1>15
    <3>2. /\ kept \o added \in Seq(ObsRows) /\ Len(kept \o added) = Len(kept) + Len(added)
          /\ \A i \in 1 .. Len(kept) + Len(added) :
                (kept \o added)[i] = IF i <= Len(kept) THEN kept[i] ELSE added[i - Len(kept)]
      BY <3>1, ConcatProperties, ZenonT(30)
    <3> QED
      BY <2>1, <3>1, <3>2
  <2>3. ASSUME NEW k \in 1 .. m PROVE obs'[n + k] = added[k]
    <3>1. n + k \in 1 .. n + m /\ ~(n + k <= n) /\ (n + k) - n = k
      OBVIOUS
    <3> QED
      BY <2>2, <3>1
  <2>4. \A i \in 1 .. n : obs'[i] = kept[i]
    BY <2>2
  <2> QED
    BY <2>2, <2>3, <2>4
<1>17. /\ RowsStay /\ TypeOK /\ Steps \subseteq Steps' /\ DOMAIN obs' = 1 .. n + m
       /\ \A i \in 1 .. n : i \in 1 .. n + m /\ (Raw(i)' <=> Raw(i)) /\ (IsObservation(i)' <=> IsObservation(i))
  <2>1. RowsStay
    BY <1>1, <1>11, <1>16 DEF RowsStay
  <2> QED
    BY <1>1, <1>16, <2>1, StillObservations DEF ObsInv
<1>18. ASSUME NEW j \in 1 .. n + m, j \notin 1 .. n
       PROVE  \E k \in 1 .. m : j = n + k
  BY <1>18
<1>19. ASSUME NEW k \in 1 .. m
       PROVE  /\ sources[k] \in w.rows /\ sources[k] \in 1 .. n /\ sources[k] \in 1 .. n + k - 1
              /\ n + k \in 1 .. n + m
              /\ obs'[n + k].source = sources[k] /\ sources[k] # 0
              /\ obs'[n + k].by = {p}
              /\ obs'[n + k].active /\ obs'[n + k].session = obs[sources[k]].session
              /\ obs'[n + k].content = obs[sources[k]].content
              /\ ~obs'[sources[k]].active
  <2>1. sources[k] \in w.rows /\ sources[k] \in 1 .. n
    BY <1>4, <1>6, <1>13
  <2>2. obs'[n + k] = added[k] /\ obs'[sources[k]] = kept[sources[k]]
    BY <1>16, <2>1
  <2> QED
    BY <1>5, <1>11, <1>14, <2>1, <2>2
<1>20. ASSUME NEW i \in 1 .. n, ~Raw(i)
       PROVE  /\ obs[i].source \in 1 .. i - 1 /\ obs[i].source \in 1 .. n
              /\ IsObservation(obs[i].source) /\ ~obs[obs[i].source].active
              /\ obs[i].session = obs[obs[i].source].session
              /\ obs[i].content = obs[obs[i].source].content
  <2>1. /\ obs[i].source \in 1 .. i - 1 /\ IsObservation(obs[i].source)
        /\ obs[i].session = obs[obs[i].source].session
        /\ obs[i].content = obs[obs[i].source].content
    BY <1>1, <1>17, <1>20 DEF TypeOK
  <2>2. obs[i].source \in 1 .. n
    BY <2>1
  <2>3. ~obs[obs[i].source].active
    BY <1>1, <1>20 DEF ObsInv, Kept, SourceArchived
  <2> QED
    BY <2>1, <2>2, <2>3
<1>21. TypeOK'
  <2>1. step' \in [Procs -> Steps']
    <3>1. Idle \in Steps' /\ step \in [Procs -> Steps']
      BY <1>17 DEF TypeOK, Steps
    <3> QED
      BY <1>8, <3>1
  <2>2. unsaved' \subseteq DOMAIN obs'
    BY <1>1, <1>4, <1>6, <1>7, <1>17 DEF TypeOK
  <2>3. ASSUME NEW j \in DOMAIN obs', ~Raw(j)'
        PROVE  /\ obs'[j].source \in 1 .. j - 1 /\ IsObservation(obs[j].source)'
               /\ obs'[j].session = obs'[obs'[j].source].session
               /\ obs'[j].content = obs'[obs'[j].source].content
    <3>1. CASE j \in 1 .. n
      <4>1. ~Raw(j) /\ obs'[j].source = obs[j].source
            /\ obs'[j].session = obs[j].session /\ obs'[j].content = obs[j].content
        BY <1>11, <1>16, <1>17, <2>3, <3>1
      <4>2. obs'[obs[j].source].session = obs[obs[j].source].session
            /\ obs'[obs[j].source].content = obs[obs[j].source].content
            /\ IsObservation(obs[j].source)'
        <5>1. PICK i \in 1 .. n : i = obs[j].source
          BY <1>20, <3>1, <4>1
        <5>2. obs'[i].session = obs[i].session /\ obs'[i].content = obs[i].content
              /\ IsObservation(i)'
          BY <1>11, <1>16, <1>17, <1>20, <3>1, <4>1, <5>1
        <5> QED
          BY <4>1, <5>1, <5>2 DEF IsObservation, Raw
      <4> QED
        BY <1>20, <3>1, <4>1, <4>2
    <3>2. CASE j \notin 1 .. n
      <4>1. PICK k \in 1 .. m : j = n + k
        BY <1>17, <1>18, <3>2
      <4>2. PICK i \in 1 .. n : i = sources[k]
        BY <1>19
      <4>3. /\ obs'[j].source = i /\ i \in 1 .. j - 1 /\ i \in w.rows
            /\ obs'[j].session = obs[i].session /\ obs'[j].content = obs[i].content
        BY <1>19, <4>1, <4>2
      <4>4. obs'[i].session = obs[i].session /\ obs'[i].content = obs[i].content /\ IsObservation(i)'
        BY <1>5, <1>11, <1>16, <1>17, <4>3
      <4> QED
        BY <4>3, <4>4 DEF IsObservation, Raw
    <3> QED
      BY <3>1, <3>2
  <2> QED
    BY <1>16, <2>1, <2>2, <2>3 DEF TypeOK, ObsRows
<1>22. TakenInv'
  <2> SUFFICES ASSUME NEW q \in Procs, step'[q].at = "promote"
               PROVE \A i \in step'[q].rows : IsObservation(i)' /\ obs'[i].session = step'[q].session
    BY DEF TakenInv
  <2>1. step'[q] = step[q] /\ step[q] \in Steps
    BY <1>8, <1>17 DEF TypeOK, Idle
  <2> QED
    BY <2>1, <1>17, StillTaken DEF ObsInv
<1>23. Kept'
  <2>1. NoObservationLost'
    <3> SUFFICES ASSUME NEW i \in DOMAIN obs'
                 PROVE  \/ obs'[i].active \/ i \in unsaved'
                        \/ obs'[i].content \in Noise \/ obs'[i].age = Expired
                        \/ \E j \in DOMAIN obs' : obs'[j].source = i
      BY DEF NoObservationLost
    <3>1. CASE i \notin 1 .. n
      BY <1>17, <1>18, <1>19, <3>1
    <3>2. CASE i \in w.rows
      <4>1. CASE i \notin good
        BY <1>4, <1>6, <1>11, <1>16, <3>2, <4>1
      <4>2. CASE i \in failed
        BY <1>7, <4>2
      <4>3. CASE i \in good \ failed
        <5>1. PICK k \in 1 .. m : sources[k] = i
          BY <1>13, <4>3
        <5> QED
          BY <1>17, <1>19, <5>1
      <4> QED
        BY <4>1, <4>2, <4>3
    <3>3. CASE i \in 1 .. n /\ i \in swept
      BY <1>10, <1>11, <1>16, <3>3
    <3>4. CASE i \in 1 .. n /\ i \notin w.rows \cup swept
      <4>1. \/ obs[i].active \/ i \in unsaved
            \/ obs[i].content \in Noise \/ obs[i].age = Expired
            \/ \E j \in 1 .. n : obs[j].source = i
        BY <1>1, <3>4 DEF ObsInv, Kept, NoObservationLost
      <4>2. obs'[i].active = obs[i].active /\ obs'[i].content = obs[i].content
            /\ obs'[i].age = obs[i].age
        BY <1>11, <1>16, <3>4
      <4>3. \A j \in 1 .. n : obs'[j].source = obs[j].source /\ j \in DOMAIN obs'
        BY <1>11, <1>16, <1>17
      <4> QED
        BY <1>7, <4>1, <4>2, <4>3
    <3> QED
      BY <3>1, <3>2, <3>3, <3>4
  <2>2. SourceArchived'
    <3> SUFFICES ASSUME NEW j \in DOMAIN obs', ~Raw(j)' PROVE ~obs'[obs'[j].source].active
      BY DEF SourceArchived
    <3>1. CASE j \in 1 .. n
      <4>1. ~Raw(j) /\ obs'[j].source = obs[j].source
        BY <1>11, <1>16, <1>17, <3>1
      <4>2. PICK i \in 1 .. n : i = obs[j].source /\ ~obs[i].active
        BY <1>20, <3>1, <4>1
      <4> QED
        BY <1>11, <1>16, <4>1, <4>2
    <3>2. CASE j \notin 1 .. n
      <4>1. PICK k \in 1 .. m : j = n + k
        BY <1>17, <1>18, <3>2
      <4> QED
        BY <1>19, <4>1
    <3> QED
      BY <3>1, <3>2
  <2>3. ErrorsStay'
    <3> SUFFICES ASSUME NEW i \in DOMAIN obs', ~IsObservation(i)' PROVE obs'[i].active
      BY DEF ErrorsStay
    <3>1. CASE i \in 1 .. n
      <4>1. ~IsObservation(i)
        BY <1>17, <3>1
      <4>2. obs[i].active /\ i \notin w.rows \cup swept
        BY <1>1, <1>5, <1>10, <3>1, <4>1 DEF ObsInv, Kept, ErrorsStay
      <4> QED
        BY <1>11, <1>16, <3>1, <4>2
    <3>2. CASE i \notin 1 .. n
      BY <1>17, <1>18, <1>19, <3>2
    <3> QED
      BY <3>1, <3>2
  <2> QED
    BY <2>1, <2>2, <2>3 DEF Kept
<1>24. CapInv'
  <2>1. ASSUME NEW s \in Sessions PROVE RawOf(s)' \subseteq RawOf(s)
    <3> SUFFICES ASSUME NEW i \in RawOf(s)' PROVE i \in RawOf(s)
      OBVIOUS
    <3>1. i \in DOMAIN obs' /\ obs'[i].session = s /\ obs'[i].active /\ IsObservation(i)' /\ Raw(i)'
      BY DEF RawOf, Observations
    <3>2. i \in 1 .. n
      <4>1. SUFFICES ASSUME i \notin 1 .. n PROVE FALSE
        OBVIOUS
      <4>2. PICK k \in 1 .. m : i = n + k
        BY <1>17, <1>18, <3>1, <4>1
      <4>3. obs'[i].source # 0
        BY <1>19, <4>2
      <4> QED
        BY <3>1, <4>3 DEF Raw
    <3>3. obs[i].session = s /\ obs[i].active /\ IsObservation(i) /\ Raw(i)
      BY <1>11, <1>16, <1>17, <3>1, <3>2
    <3> QED
      BY <1>1, <3>2, <3>3 DEF RawOf, Observations
  <2>2. \A s \in Sessions : Recording(s)' \subseteq Recording(s)
    BY <1>8, <1>17 DEF Recording, Idle, TypeOK
  <2> QED
    BY <1>21, <2>1, <2>2, CapStays
<1>25. ASSUME OnceInv PROVE OnceInv'
  <2>1. \A i \in 1 .. n : obs'[i].source = obs[i].source /\ obs'[i].by = obs[i].by
    BY <1>11, <1>16
  <2>2. ASSUME NEW i \in 1 .. n, NEW k \in 1 .. m, obs[i].source = sources[k]
        PROVE  obs[i].by # {p}
    BY <1>1, <1>2, <1>3, <1>19, <1>25, <2>2 DEF OnceInv, HeldInv
  <2>3. ASSUME NEW k \in 1 .. m, NEW l \in 1 .. m, sources[k] = sources[l]
        PROVE  k = l
    <3>1. sources[k] \in Nat /\ sources[l] \in Nat
      BY <1>19
    <3> QED
      BY <1>13, <2>3, <3>1
  <2>4. HeldInv'
    <3> SUFFICES ASSUME NEW q \in Procs, step'[q].at = "promote", NEW i \in step'[q].rows,
                        NEW j \in DOMAIN obs', obs'[j].source = i
                 PROVE  obs'[j].by # {q}
      BY DEF HeldInv
    <3>1. q # p /\ step'[q] = step[q]
      BY <1>8, <1>17 DEF TypeOK, Idle
    <3>2. CASE j \in 1 .. n
      BY <1>1, <1>25, <2>1, <3>1, <3>2 DEF OnceInv, HeldInv
    <3>3. CASE j \notin 1 .. n
      <4>1. PICK k \in 1 .. m : j = n + k
        BY <1>17, <1>18, <3>3
      <4>2. obs'[j].by = {p}
        BY <1>19, <4>1
      <4>3. p \in {p} /\ p \notin {q}
        BY <3>1
      <4> QED
        BY <4>2, <4>3
    <3> QED
      BY <3>2, <3>3
  <2>5. OncePerHook'
    <3> SUFFICES ASSUME NEW i \in DOMAIN obs', NEW j \in DOMAIN obs',
                        obs'[i].source # 0, obs'[i].source = obs'[j].source,
                        obs'[i].by = obs'[j].by
                 PROVE  i = j
      BY DEF OncePerHook, Raw
    <3>1. CASE i \in 1 .. n /\ j \in 1 .. n
      BY <1>1, <1>25, <2>1, <3>1 DEF OnceInv, OncePerHook, Raw
    <3>2. CASE i \in 1 .. n /\ j \notin 1 .. n
      <4>1. PICK k \in 1 .. m : j = n + k
        BY <1>17, <1>18, <3>2
      <4> QED
        BY <1>19, <2>1, <2>2, <3>2, <4>1
    <3>3. CASE i \notin 1 .. n /\ j \in 1 .. n
      <4>1. PICK k \in 1 .. m : i = n + k
        BY <1>17, <1>18, <3>3
      <4> QED
        BY <1>19, <2>1, <2>2, <3>3, <4>1
    <3>4. CASE i \notin 1 .. n /\ j \notin 1 .. n
      <4>1. PICK k \in 1 .. m : i = n + k
        BY <1>17, <1>18, <3>4
      <4>2. PICK l \in 1 .. m : j = n + l
        BY <1>17, <1>18, <3>4
      <4>3. sources[k] = sources[l]
        BY <1>19, <4>1, <4>2
      <4> QED
        BY <2>3, <4>1, <4>2, <4>3
    <3> QED
      BY <3>1, <3>2, <3>3, <3>4
  <2> QED
    BY <2>4, <2>5 DEF OnceInv
<1> QED
  BY <1>21, <1>22, <1>23, <1>24, <1>25 DEF ObsInv

-----------------------------------------------------------------------------
\* A raw observation doubles nothing.
LEMMA OnceAppended ==
    ASSUME OnceInv, obs \in Seq(ObsRows), step \in [Procs -> Steps],
           NEW s \in Sessions, NEW c \in Contents, obs' = Append(obs, Row({}, s, c, 0)),
           \A q \in Procs : step'[q] = step[q] \/ step'[q] = Idle
    PROVE  OnceInv'
<1> PICK n \in Nat : n = Len(obs)
  OBVIOUS
<1>1. DOMAIN obs = 1 .. n /\ n = Len(obs) /\ Row({}, s, c, 0).source = 0
      /\ Row({}, s, c, 0) \in ObsRows
  BY DEF Row, ObsRows, Fresh, Expired
<1>2. /\ DOMAIN obs' = 1 .. n + 1 /\ obs'[n + 1].source = 0
      /\ \A i \in 1 .. n : obs'[i] = obs[i]
  BY <1>1, AppendProperties
<1>3. \A i \in 1 .. n + 1 : i \in 1 .. n \/ i = n + 1
  OBVIOUS
<1>4. HeldInv'
  <2> SUFFICES ASSUME NEW q \in Procs, step'[q].at = "promote", NEW i \in step'[q].rows,
                      NEW j \in DOMAIN obs', obs'[j].source = i
               PROVE  obs'[j].by # {q}
    BY DEF HeldInv
  <2>1. step'[q] = step[q] /\ i \in 1 .. n
    BY <1>1 DEF Idle, Steps
  <2> QED
    BY <1>1, <1>2, <1>3, <2>1 DEF OnceInv, HeldInv
<1>5. OncePerHook'
  BY <1>1, <1>2, <1>3 DEF OnceInv, OncePerHook, Raw
<1> QED
  BY <1>4, <1>5 DEF OnceInv

\* Nor does a step that writes no row and after which no other hook promotes.
LEMMA OnceResting ==
    ASSUME OnceInv, obs' = obs, step \in [Procs -> Steps],
           NEW p \in Procs, NEW w, step' = [step EXCEPT ![p] = w], w.at # "promote"
    PROVE  OnceInv'
BY DEF OnceInv, HeldInv, OncePerHook, Raw

LEMMA ObsInvInductive == Spec => []ObsInv
<1>1. Init => ObsInv
  <2> SUFFICES ASSUME Init PROVE ObsInv
    OBVIOUS
  <2>1. obs = << >> /\ unsaved = {} /\ step = [p \in Procs |-> Idle]
    BY DEF Init
  <2>2. obs \in Seq(ObsRows) /\ DOMAIN obs = {}
    BY <2>1
  <2>3. TypeOK
    BY <2>1, <2>2 DEF TypeOK, Steps, ObsRows
  <2>4. TakenInv
    BY <2>1 DEF TakenInv, Idle
  <2>5. Kept
    BY <2>2 DEF Kept, NoObservationLost, SourceArchived, ErrorsStay
  <2>6. CapInv
    <3> SUFFICES ASSUME NEW s \in Sessions
                 PROVE  Cardinality(RawOf(s)) + Cardinality(Recording(s))
                           <= MaxPerSession + Cardinality(Procs) - 1
      BY DEF CapInv
    <3>1. RawOf(s) = {} /\ Recording(s) = {}
      BY <2>1, <2>2 DEF RawOf, Observations, Recording, Idle
    <3>2. Cardinality(RawOf(s)) = 0 /\ Cardinality(Recording(s)) = 0
      BY <3>1, FS_EmptySet
    <3> QED
      BY <2>2, <3>2, CapNumbers, ObservationsAssumption
  <2> QED
    BY <2>3, <2>4, <2>5, <2>6 DEF ObsInv
<1>2. ObsInv /\ [Next]_vars => ObsInv'
  <2> SUFFICES ASSUME ObsInv, [Next]_vars PROVE ObsInv'
    OBVIOUS
  <2>1. ASSUME NEW p \in Procs, NEW s \in Sessions, NEW c \in Contents, PostToolUse(p, s, c)
        PROVE ObsInv'
    BY <2>1, PostToolUseStep, ObservationsAssumption
  <2>2. ASSUME NEW p \in Procs, NEW s \in Sessions, NEW c \in Contents, PromptRead(p, s, c)
        PROVE ObsInv'
    BY <2>2, PromptReadStep, ObservationsAssumption
  <2>3. ASSUME NEW p \in Procs, NEW s \in Sessions, PromoteRead(p, s) PROVE ObsInv'
    BY <2>3, PromoteReadStep, ObservationsAssumption
  <2>4. ASSUME NEW p \in Procs, PromptRecord(p) PROVE ObsInv'
    BY <2>4, PromptRecordStep, ObservationsAssumption
  <2>5. ASSUME NEW p \in Procs, Promote(p) PROVE ObsInv'
    BY <2>5, PromoteStep, ObservationsAssumption
  <2>6. ASSUME NEW p \in Procs, Crash(p) PROVE ObsInv'
    BY <2>6, CrashStep, ObservationsAssumption
  <2>7. CASE Tick
    BY <2>7, TickStep, ObservationsAssumption
  <2>8. CASE UNCHANGED vars
    BY <2>8 DEF vars, dbVars, ObsInv, TypeOK, Steps, TakenInv, Kept, NoObservationLost,
                SourceArchived, ErrorsStay, CapInv, RawOf, Recording, Observations, Raw, IsObservation
  <2> QED
    BY <2>1, <2>2, <2>3, <2>4, <2>5, <2>6, <2>7, <2>8 DEF Next
<1> QED
  BY <1>1, <1>2, PTL DEF Spec

\* Every variable keeps its type; what was promoted comes from an earlier row
\* of its session with its content (promote_session_observations).
THEOREM ObservationsTyped == Spec => []TypeOK
<1>1. ObsInv => TypeOK
  BY DEF ObsInv
<1> QED
  BY <1>1, ObsInvInductive, PTL

\* However many hook processes record, promote and sweep side by side, and die
\* between their reads and writes, no observation is lost but by what the code
\* gives up, none is shown beside its promotion, errors stay, and one is promoted
\* once by each of the hooks that held it at the same time and never again
\* (promote_session_observations, archive_expired_observations).
THEOREM NotesAreKept == Spec => []NotesKept
<1>1. Init => OnceInv
  BY DEF Init, OnceInv, HeldInv, OncePerHook, Idle
<1>2. ObsInv /\ OnceInv /\ [Next]_vars => OnceInv'
  <2> SUFFICES ASSUME ObsInv, OnceInv, [Next]_vars PROVE OnceInv'
    OBVIOUS
  <2>0. step \in [Procs -> Steps] /\ obs \in Seq(ObsRows)
    BY DEF ObsInv, TypeOK, ObsRows
  <2>1. ASSUME NEW p \in Procs, NEW s \in Sessions, NEW c \in Contents, PostToolUse(p, s, c)
        PROVE OnceInv'
    <3>1. obs' = Append(obs, Row({}, s, c, 0)) /\ step' = step
      BY <2>1 DEF PostToolUse
    <3> QED
      BY <2>0, <3>1, OnceAppended
  <2>2. ASSUME NEW p \in Procs, NEW s \in Sessions, NEW c \in Contents, PromptRead(p, s, c)
        PROVE OnceInv'
    <3> DEFINE w == [at |-> "record", session |-> s, content |-> c]
    <3>1. obs' = obs /\ step' = [step EXCEPT ![p] = w] /\ w.at # "promote"
      BY <2>2 DEF PromptRead, Goes, dbVars
    <3> HIDE DEF w
    <3> QED
      BY <2>0, <3>1, OnceResting
  <2>3. ASSUME NEW p \in Procs, NEW s \in Sessions, PromoteRead(p, s) PROVE OnceInv'
    <3>1. obs' = obs /\ step'[p].rows = Observations(s)
          /\ \A q \in Procs : q # p => step'[q] = step[q]
      BY <2>0, <2>3 DEF PromoteRead, Goes, dbVars
    <3>2. ASSUME NEW i \in Observations(s), NEW j \in DOMAIN obs PROVE obs[j].source # i
      <4>1. i \in 1 .. Len(obs) /\ obs[i].active
        BY <2>0, <3>2 DEF Observations
      <4>2. ~Raw(j) => ~obs[obs[j].source].active
        BY DEF ObsInv, Kept, SourceArchived
      <4> QED
        BY <4>1, <4>2 DEF Raw
    <3> QED
      BY <3>1, <3>2 DEF OnceInv, HeldInv, OncePerHook, Raw
  <2>4. ASSUME NEW p \in Procs, PromptRecord(p) PROVE OnceInv'
    <3>1. PICK s \in Sessions, c \in Contents : obs' = Append(obs, Row({}, s, c, 0))
      <4>1. step[p] \in Steps /\ step[p].at = "record"
        BY <2>0, <2>4 DEF PromptRecord
      <4>2. step[p].session \in Sessions /\ step[p].content \in Contents
        BY <4>1 DEF Steps, Idle
      <4> QED
        BY <2>4, <4>2 DEF PromptRecord
    <3>2. \A q \in Procs : step'[q] = step[q] \/ step'[q] = Idle
      BY <2>0, <2>4 DEF PromptRecord, Goes
    <3> QED
      BY <2>0, <3>1, <3>2, OnceAppended
  <2>5. ASSUME NEW p \in Procs, Promote(p) PROVE OnceInv'
    BY <2>5, PromoteStep, ObservationsAssumption
  <2>6. ASSUME NEW p \in Procs, Crash(p) PROVE OnceInv'
    <3>1. obs' = obs /\ step' = [step EXCEPT ![p] = Idle] /\ Idle.at # "promote"
      BY <2>6 DEF Crash, Goes, dbVars, Idle
    <3> QED
      BY <2>0, <3>1, OnceResting
  <2>7. CASE Tick
    <3>1. step' = step /\ obs' = [i \in DOMAIN obs |->
                   IF obs[i].active /\ obs[i].age < Expired
                   THEN [obs[i] EXCEPT !.age = @ + 1] ELSE obs[i]]
      BY <2>7 DEF Tick
    <3>2. DOMAIN obs' = DOMAIN obs
          /\ \A i \in DOMAIN obs : obs'[i].source = obs[i].source /\ obs'[i].by = obs[i].by
      <4>1. \A i \in DOMAIN obs : obs[i] \in ObsRows
        BY <2>0
      <4> QED
        BY <3>1, <4>1 DEF ObsRows
    <3> QED
      BY <3>1, <3>2 DEF OnceInv, HeldInv, OncePerHook, Raw
  <2>8. CASE UNCHANGED vars
    BY <2>8 DEF vars, dbVars, OnceInv, HeldInv, OncePerHook, Raw
  <2> QED
    BY <2>1, <2>2, <2>3, <2>4, <2>5, <2>6, <2>7, <2>8 DEF Next
<1>3. ObsInv /\ OnceInv => NotesKept
  BY DEF ObsInv, Kept, OnceInv, NotesKept
<1> QED
  BY <1>1, <1>2, <1>3, ObsInvInductive, PTL DEF Spec

\* For any cap and any number of hook processes, a session exceeds its cap by
\* no more than the other processes that had checked it (record_observation).
THEOREM CapHolds == Spec => []CapNearlyKept
<1>1. ObsInv => CapNearlyKept
  <2> SUFFICES ASSUME ObsInv, NEW s \in Sessions
               PROVE  Cardinality({i \in Observations(s) : Raw(i)})
                         <= MaxPerSession + Cardinality(Procs) - 1
    BY DEF CapNearlyKept
  <2>1. obs \in Seq(ObsRows)
    BY DEF ObsInv, TypeOK, ObsRows
  <2>2. Cardinality(RawOf(s)) \in Nat /\ Cardinality(Recording(s)) \in Nat
        /\ MaxPerSession \in Nat /\ Cardinality(Procs) \in Nat
    BY <2>1, CapNumbers, ObservationsAssumption
  <2>3. Cardinality(RawOf(s)) + Cardinality(Recording(s)) <= MaxPerSession + Cardinality(Procs) - 1
    BY DEF ObsInv, CapInv
  <2> QED
    BY <2>2, <2>3 DEF RawOf
<1> QED
  BY <1>1, ObsInvInductive, PTL

-----------------------------------------------------------------------------
(* Capture                                                                  *)

Neurons == [of : Talk \cup {Nil}, active : BOOLEAN]

Captures ==
    [at : {"parse", "write", "context"}, script : Scripts, session : Ids,
     by : {"end", "handover"}, mark : Seq(Talk), rounds : Seq(Talk)]

\* q says everything that m does, at least as often.
Covers(q, m) == \A c \in Talk : Times(c, m) <= Times(c, q)

\* What a captor has read is in the transcript, and the fingerprint covers no
\* more than what it will store.
CaptorInv(a) ==
    \/ a = Resting
    \/ /\ a \in Captures
       /\ Covers(script[a.script], a.mark)
       /\ a.at = "write" => Covers(a.rounds, a.mark)

CaptureInv ==
    /\ CaptureTypeOK
    /\ captor = [p \in Captors |-> captor[p]]
    /\ \A p \in Captors : CaptorInv(captor[p])
    /\ IngestedIsStored /\ CapturedOnce

-----------------------------------------------------------------------------
\* How often something is said: a number, which only grows with a transcript.
LEMMA TimesCounts ==
    ASSUME NEW q \in Seq(Talk), NEW c, NEW d \in Talk
    PROVE  /\ Times(c, q) \in Nat /\ Times(c, Append(q, d)) \in Nat
           /\ Times(c, q) <= Times(c, Append(q, d))
<1> PICK n \in Nat : n = Len(q)
  OBVIOUS
<1>1. DOMAIN q = 1 .. n /\ DOMAIN Append(q, d) = 1 .. n + 1
      /\ \A k \in 1 .. n : Append(q, d)[k] = q[k]
  BY AppendProperties
<1> DEFINE A == {k \in 1 .. n : q[k] = c}
           B == {k \in 1 .. n + 1 : Append(q, d)[k] = c}
<1>2. A \subseteq 1 .. n /\ B \subseteq 1 .. n + 1 /\ A \subseteq B
  BY <1>1
<1>3. Times(c, q) = Cardinality(A) /\ Times(c, Append(q, d)) = Cardinality(B)
  BY <1>1 DEF Times
<1> HIDE DEF A, B
<1>4. IsFiniteSet(1 .. n) /\ IsFiniteSet(1 .. n + 1)
  BY FS_Interval
<1>5. IsFiniteSet(A) /\ IsFiniteSet(B) /\ Cardinality(A) <= Cardinality(B)
  BY <1>2, <1>4, FS_Subset
<1> QED
  BY <1>3, <1>5, FS_CardinalityType

\* SetToSeq lists every element of a finite set once.
LEMMA SetToSeqOnce ==
    ASSUME NEW S, IsFiniteSet(S)
    PROVE  /\ SetToSeq(S) \in [1 .. Cardinality(S) -> S] /\ Cardinality(S) \in Nat
           /\ \A i, j \in 1 .. Cardinality(S) : SetToSeq(S)[i] = SetToSeq(S)[j] => i = j
<1>1. Cardinality(S) \in Nat /\ ExistsBijection(1 .. Cardinality(S), S)
  BY FS_CardinalityType
<1>2. PICK f \in [1 .. Cardinality(S) -> S] : IsInjective(f)
  BY <1>1 DEF ExistsBijection, Bijection, Injection
<1>3. SetToSeq(S) \in [1 .. Cardinality(S) -> S] /\ IsInjective(SetToSeq(S))
  BY <1>2 DEF SetToSeq
<1> QED
  BY <1>1, <1>3 DEF IsInjective

LEMMA ToSetFinite == ASSUME NEW S, NEW s \in Seq(S) PROVE IsFiniteSet(ToSet(s)) /\ ToSet(s) \subseteq S
<1>1. Len(s) \in Nat /\ DOMAIN s = 1 .. Len(s) /\ \A i \in 1 .. Len(s) : s[i] \in S
  OBVIOUS
<1>2. IsFiniteSet(1 .. Len(s))
  BY <1>1, FS_Interval
<1>3. s \in Surjection(1 .. Len(s), ToSet(s))
  BY <1>1 DEF Surjection, ToSet
<1> QED
  BY <1>1, <1>2, <1>3, FS_Surjection DEF ToSet

\* The neurons that a capture makes: one for each content, as it is stored.
LEMMA NewNeurons ==
    ASSUME NEW new \in SUBSET Talk, IsFiniteSet(new), NEW list,
           list = [k \in 1 .. Cardinality(new) |-> Made(SetToSeq(new)[k])]
    PROVE  /\ list \in Seq(Neurons)
           /\ \A i \in DOMAIN list : list[i].of = Nil \/ list[i].of \in new
           /\ \A i, j \in DOMAIN list : list[i].of = list[j].of => i = j \/ list[i].of = Nil
<1>0. PICK n \in Nat : n = Cardinality(new)
  BY FS_CardinalityType
<1> PICK q : q = SetToSeq(new)
  OBVIOUS
<1>1. /\ q \in [1 .. n -> new]
      /\ list = [k \in 1 .. n |-> Made(q[k])]
      /\ \A i, j \in 1 .. n : q[i] = q[j] => i = j
  <2>1. q \in [1 .. n -> new] /\ \A i, j \in 1 .. n : q[i] = q[j] => i = j
    BY <1>0, SetToSeqOnce
  <2>2. list = [k \in 1 .. n |-> Made(q[k])]
    BY <1>0
  <2> QED
    BY <2>1, <2>2
<1>2. ASSUME NEW i \in 1 .. n
      PROVE  list[i] \in Neurons /\ (list[i].of = Nil \/ list[i].of = q[i]) /\ q[i] \in new
  <2>1. list[i] = Made(q[i]) /\ q[i] \in new
    BY <1>1
  <2>2. PICK c \in Talk : c = q[i]
    BY <2>1
  <2>3. Made(c) \in Neurons /\ (Made(c).of = Nil \/ Made(c).of = c)
    BY DEF Made, Memory, Neurons
  <2> QED
    BY <2>1, <2>2, <2>3
<1>3. list \in [1 .. n -> Neurons] /\ DOMAIN list = 1 .. n
  BY <1>1, <1>2
<1>4. list \in Seq(Neurons)
  BY <1>0, <1>3, SeqDef
<1>5. \A i, j \in 1 .. n : list[i].of = list[j].of => i = j \/ list[i].of = Nil
  <2> SUFFICES ASSUME NEW i \in 1 .. n, NEW j \in 1 .. n,
                      list[i].of = list[j].of, list[i].of # Nil
               PROVE  i = j
    OBVIOUS
  <2>1. q[i] = q[j]
    BY <1>2
  <2> QED
    BY <1>1, <2>1
<1>6. \A i \in 1 .. n : list[i].of = Nil \/ list[i].of \in new
  BY <1>2
<1> QED
  BY <1>3, <1>4, <1>5, <1>6

\* While the memories fit the window, every active one is in it.
LEMMA AllLatest ==
    ASSUME CaptureAssumption, made \in Seq(Neurons), Len(made) <= Recent,
           NEW i \in DOMAIN made, made[i].active
    PROVE  made[i].of \in Seen
<1> PICK n \in Nat : n = Len(made)
  OBVIOUS
<1> DEFINE later == {k \in DOMAIN made : k > i /\ made[k].active}
<1>1. DOMAIN made = 1 .. n /\ i \in 1 .. n
  OBVIOUS
<1>2. later \subseteq i + 1 .. n
  BY <1>1
<1>3. IsFiniteSet(i + 1 .. n) /\ Cardinality(i + 1 .. n) = n - i
  <2>1. i + 1 \in Int /\ n \in Int /\ i + 1 <= n + 1
    BY <1>1
  <2>2. PICK m \in Int : m = i + 1
    BY <2>1
  <2>3. IsFiniteSet(m .. n) /\ Cardinality(m .. n) = IF m > n THEN 0 ELSE n - m + 1
    BY <2>1, FS_Interval
  <2> QED
    BY <2>1, <2>2, <2>3
<1>4. IsFiniteSet(later) /\ Cardinality(later) <= n - i
  BY <1>2, <1>3, FS_Subset
<1>5. Cardinality(later) \in Nat
  BY <1>4, FS_CardinalityType
<1> HIDE DEF later
<1>6. Cardinality(later) < Recent
  BY <1>1, <1>4, <1>5 DEF CaptureAssumption
<1>7. i \in Latest
  BY <1>6 DEF Latest, later
<1> QED
  BY <1>7 DEF Seen

-----------------------------------------------------------------------------
\* A transcript only grows.
LEMMA RoundStep ==
    ASSUME CaptureInv, NEW t \in Scripts, NEW c \in Talk, Round(t, c) PROVE CaptureInv'
<1>1. script \in [Scripts -> Seq(Talk)] /\ script[t] \in Seq(Talk)
  BY DEF CaptureInv, CaptureTypeOK
<1>2. /\ script' = [script EXCEPT ![t] = Append(script[t], c)]
      /\ UNCHANGED <<chunks, ingested, made, captor>>
  BY DEF Round, brain
<1>3. script' \in [Scripts -> Seq(Talk)]
  BY <1>1, <1>2
<1>4. ASSUME NEW u \in Scripts, NEW m \in Seq(Talk), Covers(script[u], m)
      PROVE  Covers(script'[u], m)
  <2> SUFFICES ASSUME NEW d \in Talk PROVE Times(d, m) <= Times(d, script'[u])
    BY DEF Covers
  <2>1. Times(d, m) <= Times(d, script[u]) /\ Times(d, m) \in Nat
    BY <1>4, TimesCounts DEF Covers
  <2>2. /\ Times(d, script[t]) \in Nat /\ Times(d, Append(script[t], c)) \in Nat
        /\ Times(d, script[t]) <= Times(d, Append(script[t], c))
    BY <1>1, TimesCounts
  <2>3. CASE u = t
    <3>1. script'[u] = Append(script[t], c)
      BY <1>1, <1>2, <2>3
    <3> QED
      BY <2>1, <2>2, <2>3, <3>1
  <2>4. CASE u # t
    <3>1. script'[u] = script[u]
      BY <1>1, <1>2, <2>4
    <3> QED
      BY <2>1, <3>1
  <2> QED
    BY <2>3, <2>4
<1>5. CaptureTypeOK'
  BY <1>2, <1>3 DEF CaptureInv, CaptureTypeOK
<1>6. \A p \in Captors : CaptorInv(captor[p])'
  <2> SUFFICES ASSUME NEW p \in Captors PROVE CaptorInv(captor[p])'
    OBVIOUS
  <2>1. captor'[p] = captor[p] /\ CaptorInv(captor[p])
    BY <1>2 DEF CaptureInv
  <2>2. CASE captor[p] = Resting
    BY <2>1, <2>2 DEF CaptorInv
  <2>3. CASE captor[p] # Resting
    <3>1. /\ captor[p] \in Captures /\ captor[p].script \in Scripts
          /\ captor[p].mark \in Seq(Talk) /\ Covers(script[captor[p].script], captor[p].mark)
          /\ captor[p].at = "write" => Covers(captor[p].rounds, captor[p].mark)
      BY <2>1, <2>3 DEF CaptorInv, Captures
    <3>2. Covers(script'[captor[p].script], captor[p].mark)
      BY <1>4, <3>1
    <3> QED
      BY <2>1, <3>1, <3>2 DEF CaptorInv, Covers
  <2> QED
    BY <2>2, <2>3
<1> QED
  BY <1>2, <1>5, <1>6 DEF CaptureInv, IngestedIsStored, CapturedOnce

\* A step of one captor that writes nothing.
LEMMA ReadStep ==
    ASSUME CaptureInv, NEW p \in Captors, UNCHANGED <<script, brain>>,
           captor' = [captor EXCEPT ![p] = captor'[p]], CaptorInv(captor'[p])
    PROVE  CaptureInv'
<1>1. CaptureTypeOK' /\ IngestedIsStored' /\ CapturedOnce'
  BY DEF CaptureInv, CaptureTypeOK, IngestedIsStored, CapturedOnce, brain
<1>2. captor' = [q \in Captors |-> captor'[q]]
  BY DEF CaptureInv
<1>3. ASSUME NEW q \in Captors PROVE CaptorInv(captor[q])'
  <2>1. CaptorInv(captor'[q])
    BY DEF CaptureInv
  <2> QED
    BY <2>1 DEF CaptorInv, Covers, brain
<1> QED
  BY <1>1, <1>2, <1>3 DEF CaptureInv

LEMMA BeginsStep ==
    ASSUME CaptureInv, NEW p \in Captors, NEW t \in Scripts, NEW s \in Ids,
           NEW by \in {"end", "handover"}, CaptureBegins(p, t, s, by)
    PROVE  CaptureInv'
<1> DEFINE b == [at |-> "parse", script |-> t, session |-> s, by |-> by,
                 mark |-> script[t], rounds |-> << >>]
<1>1. captor'[p] = b /\ captor' = [captor EXCEPT ![p] = captor'[p]]
      /\ UNCHANGED <<script, brain>>
  BY DEF CaptureBegins, Moves, CaptureInv
<1>2. b \in Captures /\ script[t] \in Seq(Talk)
  BY DEF Captures, CaptureInv, CaptureTypeOK
<1>3. Covers(script[t], script[t])
  <2> SUFFICES ASSUME NEW c \in Talk PROVE Times(c, script[t]) <= Times(c, script[t])
    BY DEF Covers
  <2>1. Times(c, script[t]) \in Nat
    BY <1>2, TimesCounts
  <2> QED
    BY <2>1
<1>4. CaptorInv(b)
  BY <1>2, <1>3 DEF CaptorInv
<1> QED
  BY <1>1, <1>4, ReadStep

\* What is parsed covers what was read for the fingerprint.
LEMMA ParsesStep == ASSUME CaptureInv, NEW p \in Captors, CaptureParses(p) PROVE CaptureInv'
<1> DEFINE a == captor[p]
           b == [a EXCEPT !.at = "write", !.rounds = script[a.script]]
<1>1. /\ captor'[p] \in {Resting, b}
      /\ captor' = [captor EXCEPT ![p] = captor'[p]]
      /\ UNCHANGED <<script, brain>>
  BY DEF CaptureParses, Moves, CaptureInv
<1>2. a \in Captures /\ a.script \in Scripts /\ Covers(script[a.script], a.mark)
  <2>1. a.at = "parse" /\ CaptorInv(a)
    BY DEF CaptureParses, CaptureInv
  <2>2. a # Resting
    BY <2>1 DEF Resting
  <2> QED
    BY <2>1, <2>2 DEF CaptorInv, Captures
<1>3. script[a.script] \in Seq(Talk)
  BY <1>2 DEF CaptureInv, CaptureTypeOK
<1>4. b \in Captures /\ b.mark = a.mark /\ b.script = a.script /\ b.at = "write"
      /\ b.rounds = script[a.script]
  BY <1>2, <1>3 DEF Captures
<1>5. CaptorInv(b)
  <2> HIDE DEF b
  <2> QED
    BY <1>2, <1>4 DEF CaptorInv
<1>6. CaptorInv(Resting)
  BY DEF CaptorInv
<1> QED
  BY <1>1, <1>5, <1>6, ReadStep

LEMMA FailsStep == ASSUME CaptureInv, NEW p \in Captors, CaptureFails(p) PROVE CaptureInv'
<1>1. captor'[p] = Resting /\ captor' = [captor EXCEPT ![p] = captor'[p]]
      /\ UNCHANGED <<script, brain>>
  BY DEF CaptureFails, Moves, CaptureInv
<1>2. CaptorInv(Resting)
  BY DEF CaptorInv
<1> QED
  BY <1>1, <1>2, ReadStep

\* A step that changes the memories only, and by which nothing is said twice.
LEMMA MemoriesStep ==
    ASSUME CaptureInv, UNCHANGED <<script, chunks, ingested, captor>>,
           made' \in Seq(Neurons), CapturedOnce'
    PROVE  CaptureInv'
<1>1. CaptureTypeOK' /\ IngestedIsStored'
  BY DEF CaptureInv, CaptureTypeOK, IngestedIsStored, Neurons
<1>2. \A q \in Captors : CaptorInv(captor[q])'
  BY DEF CaptureInv, CaptorInv, Covers
<1> QED
  BY <1>1, <1>2 DEF CaptureInv

LEMMA RetiresStep ==
    ASSUME CaptureInv, NEW i \in DOMAIN made, Retires(i) PROVE CaptureInv'
<1> DEFINE gone == [of |-> Nil, active |-> FALSE]
<1>1. made \in Seq(Neurons) /\ gone \in Neurons
  BY DEF CaptureInv, CaptureTypeOK, Neurons
<1>2. made' = [made EXCEPT ![i] = gone] /\ ~gone.active
      /\ UNCHANGED <<script, chunks, ingested, captor>>
  BY DEF Retires
<1> HIDE DEF gone
<1>3. made' \in Seq(Neurons) /\ DOMAIN made' = DOMAIN made /\ Len(made') = Len(made)
  BY <1>1, <1>2
<1>4. \A k \in DOMAIN made : made'[k].active => made'[k] = made[k]
  BY <1>1, <1>2
<1>5. CapturedOnce'
  BY <1>3, <1>4 DEF CaptureInv, CapturedOnce
<1> QED
  BY <1>2, <1>3, <1>5, MemoriesStep

\* A recall changes the order of the memories, not what they say.
LEMMA TouchesStep ==
    ASSUME CaptureInv, NEW i \in DOMAIN made, Touches(i) PROVE CaptureInv'
<1> PICK n \in Nat : n = Len(made)
  BY DEF CaptureInv, CaptureTypeOK
<1> DEFINE from == [k \in 1 .. n |-> IF k < i THEN k ELSE IF k = n THEN i ELSE k + 1]
<1>1. made \in Seq(Neurons) /\ DOMAIN made = 1 .. n /\ i \in 1 .. n
  BY DEF CaptureInv, CaptureTypeOK, Neurons
<1>2. /\ \A k \in 1 .. n : from[k] \in 1 .. n
      /\ \A k, l \in 1 .. n : from[k] = from[l] => k = l
  BY <1>1
<1>3. /\ made' = [k \in 1 .. n |-> IF k < i THEN made[k]
                                   ELSE IF k = n THEN made[i] ELSE made[k + 1]]
      /\ UNCHANGED <<script, chunks, ingested, captor>>
  BY <1>1 DEF Touches
<1>4. \A k \in 1 .. n : made'[k] = made[from[k]]
  BY <1>3
<1> HIDE DEF from
<1>5. \A k \in 1 .. n : made'[k] \in Neurons
  BY <1>1, <1>2, <1>4
<1>6. DOMAIN made' = 1 .. n /\ made' \in [1 .. n -> Neurons]
  BY <1>3, <1>5
<1>7. made' \in Seq(Neurons) /\ Len(made') = n
  BY <1>6
<1>8. CapturedOnce'
  <2> SUFFICES ASSUME n <= Recent, NEW k \in 1 .. n, NEW l \in 1 .. n, k # l,
                      made'[k].active, made'[l].active
               PROVE  made'[k].of # made'[l].of \/ made'[k].of = Nil
    BY <1>6, <1>7 DEF CapturedOnce
  <2>1. from[k] \in 1 .. n /\ from[l] \in 1 .. n /\ from[k] # from[l]
    BY <1>2
  <2>2. made'[k] = made[from[k]] /\ made'[l] = made[from[l]]
    BY <1>4
  <2> QED
    BY <1>1, <2>1, <2>2 DEF CaptureInv, CapturedOnce
<1> QED
  BY <1>3, <1>7, <1>8, MemoriesStep

\* Adding neurons keeps what is said once: each of the new ones that is stored
\* as it is says what no other does.
LEMMA OnceExtended ==
    ASSUME CaptureAssumption, made \in Seq(Neurons), CapturedOnce, NEW list \in Seq(Neurons),
           made' = made \o list,
           \A i \in DOMAIN list : list[i].of = Nil \/ list[i].of \notin Seen,
           \A i, j \in DOMAIN list : list[i].of = list[j].of => i = j \/ list[i].of = Nil
    PROVE  made' \in Seq(Neurons) /\ CapturedOnce'
<1> PICK n \in Nat, m \in Nat : n = Len(made) /\ m = Len(list)
  OBVIOUS
<1>1. /\ made' \in Seq(Neurons) /\ Len(made') = Len(made) + Len(list)
      /\ \A i \in 1 .. Len(made) + Len(list) :
            made'[i] = IF i <= Len(made) THEN made[i] ELSE list[i - Len(made)]
  BY ConcatProperties
<1>2. DOMAIN made = 1 .. n /\ DOMAIN list = 1 .. m /\ DOMAIN made' = 1 .. n + m
      /\ Len(made') = n + m
  BY <1>1
<1>3. /\ \A i \in 1 .. n : made'[i] = made[i] /\ i \in 1 .. n + m
      /\ \A k \in 1 .. m : made'[n + k] = list[k]
  BY <1>1
<1>4. \A i \in 1 .. n + m : i \in 1 .. n \/ \E k \in 1 .. m : i = n + k
  <2> TAKE i \in 1 .. n + m
  <2>1. CASE i <= n
    BY <2>1
  <2>2. CASE i > n
    <3>1. i - n \in 1 .. m /\ i = n + (i - n)
      BY <2>2
    <3> QED
      BY <3>1
  <2> QED
    BY <2>1, <2>2
<1>5. SUFFICES ASSUME n + m <= Recent, NEW i \in 1 .. n + m, NEW j \in 1 .. n + m, i # j,
                      made'[i].active, made'[j].active, made'[i].of = made'[j].of,
                      made'[i].of # Nil
               PROVE  FALSE
  BY <1>1, <1>2 DEF CapturedOnce
<1>6. Len(made) <= Recent
  BY <1>5 DEF CaptureAssumption
<1>7. \A k \in 1 .. n : made[k].active => made[k].of \in Seen
  BY <1>2, <1>6, AllLatest
<1>8. CASE i \in 1 .. n /\ j \in 1 .. n
  BY <1>2, <1>3, <1>5, <1>6, <1>8 DEF CapturedOnce
<1>9. CASE i \in 1 .. n /\ j \notin 1 .. n
  <2>1. PICK k \in 1 .. m : j = n + k
    BY <1>4, <1>9
  <2>2. list[k].of = made[i].of /\ made[i].active /\ made[i].of # Nil
    BY <1>3, <1>5, <1>9, <2>1
  <2> QED
    BY <1>2, <1>7, <1>9, <2>2
<1>10. CASE i \notin 1 .. n /\ j \in 1 .. n
  <2>1. PICK k \in 1 .. m : i = n + k
    BY <1>4, <1>10
  <2>2. list[k].of = made[j].of /\ made[j].active /\ made[j].of # Nil
    BY <1>3, <1>5, <1>10, <2>1
  <2> QED
    BY <1>2, <1>7, <1>10, <2>2
<1>11. CASE i \notin 1 .. n /\ j \notin 1 .. n
  <2>1. PICK k \in 1 .. m : i = n + k
    BY <1>4, <1>11
  <2>2. PICK l \in 1 .. m : j = n + l
    BY <1>4, <1>11
  <2>3. list[k].of = list[l].of /\ list[k].of # Nil
    BY <1>3, <1>5, <2>1, <2>2
  <2>4. k = l
    BY <1>2, <2>3
  <2> QED
    BY <1>5, <2>1, <2>2, <2>4
<1> QED
  BY <1>8, <1>9, <1>10, <1>11

\* The neurons that were stored meanwhile are seen, for the lock is held.
LEMMA CaptureWritesStep ==
    ASSUME CaptureAssumption, CaptureInv, NEW p \in Captors, CaptureWrites(p) PROVE CaptureInv'
<1>0. PICK a : a = captor[p]
  OBVIOUS
<1>1. /\ a \in Captures /\ a.session \in Ids /\ a.mark \in Seq(Talk) /\ a.rounds \in Seq(Talk)
      /\ a.script \in Scripts /\ Covers(a.rounds, a.mark) /\ Covers(script[a.script], a.mark)
  <2>1. a.at = "write" /\ CaptorInv(a)
    BY <1>0 DEF CaptureWrites, CaptureInv
  <2>2. a # Resting
    BY <2>1 DEF Resting
  <2> QED
    BY <2>1, <2>2 DEF CaptorInv, Captures
<1>2. PICK new \in SUBSET ToSet(a.rounds) :
         /\ new \cap Seen = {}
         /\ made' = made \o [k \in 1 .. Cardinality(new) |-> Made(SetToSeq(new)[k])]
         /\ Moves(p, IF a.by # "end" /\ new = {} /\ a.rounds # << >>
                     THEN [a EXCEPT !.at = "context"] ELSE Resting)
  <2>1. PICK chosen \in SUBSET ToSet(a.rounds) :
           LET n == (chosen \ Seen) \cap Allowed(p)
           IN  /\ made' = made \o [k \in 1 .. Cardinality(n) |-> Made(SetToSeq(n)[k])]
               /\ Moves(p, IF a.by # "end" /\ n = {} /\ a.rounds # << >>
                           THEN [a EXCEPT !.at = "context"] ELSE Resting)
    BY <1>0 DEF CaptureWrites
  <2>2. WITNESS (chosen \ Seen) \cap Allowed(p) \in SUBSET ToSet(a.rounds)
  <2> QED
    BY <2>1
<1>3. /\ chunks' = Stored(a.session, a.rounds)
      /\ ingested' = [ingested EXCEPT ![a.session] = a.mark]
      /\ script' = script
  BY <1>0 DEF CaptureWrites, Marked
<1>4. new \in SUBSET Talk /\ IsFiniteSet(new) /\ new \cap Seen = {}
  <2>1. IsFiniteSet(ToSet(a.rounds)) /\ ToSet(a.rounds) \subseteq Talk
    BY <1>1, ToSetFinite
  <2>2. new \in SUBSET ToSet(a.rounds)
    BY <1>2
  <2> QED
    BY <1>2, <2>1, <2>2, FS_Subset
<1>5. made \in Seq(Neurons) /\ chunks \in [Ids -> [Talk -> Nat]]
      /\ ingested \in [Ids -> Seq(Talk) \cup {Nil}] /\ script \in [Scripts -> Seq(Talk)]
  BY DEF CaptureInv, CaptureTypeOK, Neurons
<1>6. made' \in Seq(Neurons) /\ CapturedOnce'
  <2>1. PICK list : list = [k \in 1 .. Cardinality(new) |-> Made(SetToSeq(new)[k])]
    OBVIOUS
  <2>2. /\ list \in Seq(Neurons)
        /\ \A i \in DOMAIN list : list[i].of = Nil \/ list[i].of \in new
        /\ \A i, j \in DOMAIN list : list[i].of = list[j].of => i = j \/ list[i].of = Nil
    BY <1>4, <2>1, NewNeurons
  <2>3. made' = made \o list
    BY <1>2, <2>1
  <2>4. \A i \in DOMAIN list : list[i].of = Nil \/ list[i].of \notin Seen
    BY <1>4, <2>2
  <2>5. CapturedOnce
    BY DEF CaptureInv
  <2> QED
    BY <1>5, <2>2, <2>3, <2>4, <2>5, OnceExtended
<1>7. \A c \in Talk : Times(c, a.rounds) \in Nat /\ Times(c, a.mark) \in Nat
  BY <1>1, TimesCounts
<1>8. ASSUME NEW s \in Ids
      PROVE  /\ chunks'[s] \in [Talk -> Nat]
             /\ s = a.session => \A c \in Talk : chunks'[s][c] >= Times(c, a.rounds)
             /\ s # a.session => chunks'[s] = chunks[s]
  <2>1. chunks[s] \in [Talk -> Nat]
    BY <1>5
  <2>2. CASE s # a.session
    BY <1>3, <1>5, <2>1, <2>2 DEF Stored
  <2>3. CASE s = a.session
    <3>1. chunks'[s] = [c \in Talk |-> chunks[s][c] + Times(c, a.rounds)]
      BY <1>3, <1>5, <2>3 DEF Stored
    <3>2. ASSUME NEW c \in Talk
          PROVE  /\ chunks[s][c] + Times(c, a.rounds) \in Nat
                 /\ chunks[s][c] + Times(c, a.rounds) >= Times(c, a.rounds)
      <4>1. chunks[s][c] \in Nat /\ Times(c, a.rounds) \in Nat
        BY <1>7, <2>1
      <4> QED
        BY <4>1
    <3> QED
      BY <2>3, <3>1, <3>2
  <2> QED
    BY <2>2, <2>3
<1>9. CaptureTypeOK'
  <2>1. chunks' = [s \in Ids |-> chunks'[s]]
    BY <1>3, <1>5 DEF Stored
  <2>2. chunks' \in [Ids -> [Talk -> Nat]]
    BY <1>8, <2>1
  <2>3. ingested' \in [Ids -> Seq(Talk) \cup {Nil}]
    BY <1>1, <1>3, <1>5
  <2> QED
    BY <2>2, <2>3, <1>3, <1>5, <1>6 DEF CaptureTypeOK, Neurons
<1>10. IngestedIsStored'
  <2> SUFFICES ASSUME NEW s \in Ids, ingested'[s] # Nil, NEW c \in Talk
               PROVE  Times(c, ingested'[s]) <= chunks'[s][c]
    BY DEF IngestedIsStored
  <2>1. CASE s = a.session
    <3>1. ingested'[s] = a.mark /\ Times(c, a.mark) <= Times(c, a.rounds)
      BY <1>1, <1>3, <1>5, <2>1 DEF Covers
    <3>2. chunks'[s][c] \in Nat /\ chunks'[s][c] >= Times(c, a.rounds)
      BY <1>8, <2>1
    <3> QED
      BY <1>7, <3>1, <3>2
  <2>2. CASE s # a.session
    <3>1. ingested'[s] = ingested[s] /\ chunks'[s] = chunks[s]
      BY <1>3, <1>5, <1>8, <2>2
    <3> QED
      BY <3>1 DEF CaptureInv, IngestedIsStored
  <2> QED
    BY <2>1, <2>2
<1>11. /\ captor' = [q \in Captors |-> captor'[q]]
       /\ \A q \in Captors : CaptorInv(captor[q])'
  <2> DEFINE b == [a EXCEPT !.at = "context"]
  <2>1. captor' = [captor EXCEPT ![p] = captor'[p]] /\ captor'[p] \in {Resting, b}
    BY <1>2 DEF Moves, CaptureInv
  <2>2. b \in Captures /\ b.mark = a.mark /\ b.script = a.script /\ b.at = "context"
    BY <1>1 DEF Captures
  <2>3. CaptorInv(captor'[p])
    <3> HIDE DEF b
    <3> QED
      BY <2>1, <2>2, <1>1 DEF CaptorInv
  <2>4. \A q \in Captors : CaptorInv(captor'[q])
    BY <2>1, <2>3 DEF CaptureInv
  <2>5. captor' = [q \in Captors |-> captor'[q]]
    BY <2>1 DEF CaptureInv
  <2> QED
    BY <2>4, <2>5, <1>3 DEF CaptorInv, Covers
<1> QED
  BY <1>6, <1>9, <1>10, <1>11 DEF CaptureInv

\* A memory that no fingerprint can equal says nothing twice.
LEMMA OneMoreMemory ==
    ASSUME made \in Seq(Neurons), CapturedOnce, made' = Append(made, Memory(Nil))
    PROVE  made' \in Seq(Neurons) /\ CapturedOnce'
<1> PICK n \in Nat : n = Len(made)
  OBVIOUS
<1>1. Memory(Nil) \in Neurons /\ Memory(Nil).of = Nil
  BY DEF Memory, Neurons
<1>2. /\ made' \in Seq(Neurons) /\ Len(made') = n + 1 /\ DOMAIN made = 1 .. n
      /\ \A i \in 1 .. n : made'[i] = made[i]
      /\ made'[n + 1] = Memory(Nil)
  BY <1>1, AppendProperties
<1>3. DOMAIN made' = 1 .. n + 1 /\ \A i \in 1 .. n + 1 : i \in 1 .. n \/ i = n + 1
  BY <1>2
<1>4. CapturedOnce'
  <2> SUFFICES ASSUME n + 1 <= Recent, NEW i \in 1 .. n + 1, NEW j \in 1 .. n + 1, i # j,
                      made'[i].active, made'[j].active
               PROVE  made'[i].of # made'[j].of \/ made'[i].of = Nil
    BY <1>2, <1>3 DEF CapturedOnce
  <2>1. CASE i = n + 1 \/ j = n + 1
    BY <1>1, <1>2, <2>1
  <2>2. CASE i \in 1 .. n /\ j \in 1 .. n
    <3>1. made'[i] = made[i] /\ made'[j] = made[j]
      BY <1>2, <2>2
    <3>2. Len(made) <= Recent \/ ~(n + 1 <= Recent) \/ Recent \notin Int
      OBVIOUS
    <3> QED
      BY <1>2, <2>2, <3>1, <3>2, CaptureAssumption DEF CapturedOnce, CaptureAssumption
  <2> QED
    BY <1>3, <2>1, <2>2
<1> QED
  BY <1>2, <1>4

LEMMA ContextStep == ASSUME CaptureInv, NEW p \in Captors, AddContextNeuron(p) PROVE CaptureInv'
<1>1. made \in Seq(Neurons) /\ CapturedOnce
  BY DEF CaptureInv, CaptureTypeOK, Neurons
<1>2. /\ made' = Append(made, Memory(Nil)) /\ UNCHANGED <<script, chunks, ingested>>
      /\ captor' = [captor EXCEPT ![p] = Resting]
  BY DEF AddContextNeuron, Moves
<1>3. made' \in Seq(Neurons) /\ CapturedOnce'
  BY <1>1, <1>2, OneMoreMemory
<1>4. CaptureTypeOK' /\ IngestedIsStored'
  BY <1>2, <1>3 DEF CaptureInv, CaptureTypeOK, IngestedIsStored, Neurons
<1>5. captor' = [q \in Captors |-> captor'[q]] /\ \A q \in Captors : CaptorInv(captor[q])'
  BY <1>2 DEF CaptureInv, CaptorInv, Covers
<1> QED
  BY <1>3, <1>4, <1>5 DEF CaptureInv

LEMMA CaptureInvInductive == CaptureSpec => []CaptureInv
<1>1. CaptureInit => CaptureInv
  BY DEF CaptureInit, CaptureInv, CaptureTypeOK, CaptorInv, IngestedIsStored, CapturedOnce
<1>2. CaptureInv /\ [CaptureNext]_captureVars => CaptureInv'
  <2> SUFFICES ASSUME CaptureInv, [CaptureNext]_captureVars PROVE CaptureInv'
    OBVIOUS
  <2>1. ASSUME NEW t \in Scripts, NEW c \in Talk, Round(t, c) PROVE CaptureInv'
    BY <2>1, RoundStep
  <2>2. ASSUME NEW p \in Captors, NEW t \in Scripts, NEW s \in Ids,
               NEW by \in {"end", "handover"}, CaptureBegins(p, t, s, by)
        PROVE CaptureInv'
    BY <2>2, BeginsStep
  <2>3. ASSUME NEW p \in Captors,
               CaptureParses(p) \/ CaptureWrites(p) \/ AddContextNeuron(p) \/ CaptureFails(p)
        PROVE CaptureInv'
    BY <2>3, ParsesStep, CaptureWritesStep, ContextStep, FailsStep, CaptureAssumption
  <2>4. ASSUME NEW i \in DOMAIN made, Retires(i) \/ Touches(i) PROVE CaptureInv'
    BY <2>4, RetiresStep, TouchesStep
  <2>5. CASE Remembers
    <3>1. made' \in Seq(Neurons) /\ CapturedOnce'
      BY <2>5, OneMoreMemory DEF Remembers, CaptureInv, CaptureTypeOK, Neurons
    <3> QED
      BY <2>5, <3>1, MemoriesStep DEF Remembers
  <2>6. CASE UNCHANGED captureVars
    BY <2>6 DEF captureVars, brain, CaptureInv, CaptureTypeOK, CaptorInv, Covers,
                IngestedIsStored, CapturedOnce
  <2> QED
    BY <2>1, <2>2, <2>3, <2>4, <2>5, <2>6 DEF CaptureNext
<1> QED
  BY <1>1, <1>2, PTL DEF CaptureSpec

\* What counts as ingested is stored to its last message and as often as it was
\* said; and "Capture fingerprints title+body to skip duplicates"
\* (docs/AI_PROJECT_BRIEF.md:333) is so for bodies stored as they are while there
\* are no more memories than the fingerprints' window, whatever its size, for any
\* captors, transcripts, sessions and contents.
THEOREM CapturesAreWholeAndOnce == CaptureSpec => []WholeAndOnce
<1>1. CaptureInv => WholeAndOnce
  BY DEF CaptureInv, WholeAndOnce
<1> QED
  BY <1>1, CaptureInvInductive, PTL

-----------------------------------------------------------------------------
(* The last hook's session                                                  *)

\* What a row names was announced.
Told(row) ==
    row # Blank /\ row.script # Blank => row.script \in announced[row.session]

HookInv == HookTypeOK /\ Told(lastHook) /\ Told(cached) /\ OwnTranscript

\* The rows and the checkpoints hold what hooks have announced, initially and
\* after every step.
LEMMA HookInvInductive == HookSpec => []HookInv
<1>1. HookInit => HookInv
  BY DEF HookInit, HookInv, HookTypeOK, Rows, Told, OwnTranscript
<1>2. HookInv /\ [HookNext]_hookVars => HookInv'
  <2> SUFFICES ASSUME HookInv, [HookNext]_hookVars PROVE HookInv'
    OBVIOUS
  <2> USE DEF HookInv, HookTypeOK, Rows, Told, OwnTranscript
  <2>1. ASSUME NEW s \in HookIds, NEW t \in Paths \cup {Blank}, SetLastHookSession(s, t)
        PROVE HookInv'
    <3>1. /\ lastHook' = [session |-> s, script |-> PathToKeep(s, t)]
          /\ announced' = [announced EXCEPT ![s] = @ \cup ({t} \ {Blank})]
          /\ cached' = cached /\ asked' = asked /\ handed' = handed
      BY <2>1 DEF SetLastHookSession
    <3>2. /\ PathToKeep(s, t) \in Paths \cup {Blank}
          /\ PathToKeep(s, t) # Blank =>
                PathToKeep(s, t) = t \/ PathToKeep(s, t) \in announced[s]
      BY DEF PathToKeep
    <3>3. announced' \in [HookIds -> SUBSET Paths]
      BY <3>1
    <3>4. \A i \in HookIds : announced[i] \subseteq announced'[i]
      BY <3>1
    <3>5. PathToKeep(s, t) # Blank => PathToKeep(s, t) \in announced'[s]
      BY <3>1, <3>2
    <3>6. Told(lastHook)'
      BY <3>1, <3>5
    <3>7. Told(cached)'
      BY <3>1, <3>4
    <3>8. OwnTranscript'
      BY <3>1, <3>4
    <3>9. HookTypeOK'
      BY <3>1, <3>2, <3>3
    <3> QED
      BY <3>6, <3>7, <3>8, <3>9
  <2>2. ASSUME NEW row \in Found, Copied(row)
        PROVE row \in Rows /\ Told(row) /\ cached' \in Rows /\ cached' \in {row, cached}
    BY <2>2 DEF Found, GetLastHookSession, Copied
  <2>5. ASSUME NEW s \in HookIds, Asks(s)
        PROVE HookInv'
    BY <2>5 DEF Asks
  <2>6. ASSUME AsksInferred
        PROVE HookInv'
    <3>1. PICK row \in Found :
             /\ Copied(row)
             /\ asked' = asked \cup {IF row = Blank THEN Blank ELSE row.session}
             /\ UNCHANGED <<lastHook, announced, handed>>
      BY <2>6 DEF AsksInferred
    <3>2. row \in Rows /\ Told(row) /\ cached' \in Rows /\ cached' \in {row, cached}
      BY <2>2, <3>1
    <3>3. asked' \subseteq HookIds \cup {Blank}
      BY <3>1, <3>2
    <3>4. Told(lastHook)' /\ Told(cached)' /\ OwnTranscript'
      BY <3>1, <3>2
    <3> QED
      BY <3>1, <3>2, <3>3, <3>4
  <2>7. ASSUME NEW s \in HookIds \cup {Blank}, Checkpoint(s)
        PROVE HookInv'
    <3>1. PICK row \in Found :
             /\ asked' = asked \ {s}
             /\ Copied(row)
             /\ handed' = IF Accepted(s, row)
                          THEN handed \cup {<<FiledFor(s, row.script), row.script>>} ELSE handed
             /\ UNCHANGED <<lastHook, announced>>
      BY <2>7 DEF Checkpoint
    <3>2. row \in Rows /\ Told(row) /\ cached' \in Rows /\ cached' \in {row, cached}
      BY <2>2, <3>1
    <3>3. Told(lastHook)' /\ Told(cached)'
      BY <3>1, <3>2
    <3>4. ASSUME Accepted(s, row)
          PROVE  /\ row.script \in Paths /\ FiledFor(s, row.script) \in HookIds \cup Paths
                 /\ \/ FiledFor(s, row.script) = row.script
                    \/ /\ FiledFor(s, row.script) \in HookIds
                       /\ row.script \in announced[FiledFor(s, row.script)]
      <4>1. row \in [session : HookIds, script : Paths] /\ s \in {row.session, Blank}
        BY <3>2, <3>4 DEF Accepted
      <4>2. CASE s = Blank
        BY <4>1, <4>2 DEF FiledFor
      <4>3. CASE s # Blank
        <5>1. FiledFor(s, row.script) = row.session
          BY <4>1, <4>3 DEF FiledFor
        <5> QED
          BY <3>2, <3>4, <4>1, <5>1 DEF Accepted
      <4> QED
        BY <4>1, <4>2, <4>3
    <3>5. OwnTranscript' /\ handed' \subseteq (HookIds \cup Paths) \X Paths
      BY <3>1, <3>4
    <3> QED
      BY <3>1, <3>2, <3>3, <3>5
  <2>3. ASSUME CacheExpires
        PROVE HookInv'
    BY <2>3 DEF CacheExpires
  <2>4. ASSUME UNCHANGED hookVars
        PROVE HookInv'
    BY <2>4 DEF hookVars
  <2> QED
    BY <2>1, <2>3, <2>4, <2>5, <2>6, <2>7 DEF HookNext
<1> QED
  BY <1>1, <1>2, PTL DEF HookSpec

\* "An old session's transcript path must never leak into a new one"
\* (services/hook_session.py:96): what a checkpoint files for a session was named
\* for it by a hook, for any sessions and transcripts.  What a call without a
\* session gets is filed under the transcript's own name.
THEOREM CheckpointsAreOwn == HookSpec => []OwnTranscript
<1>1. HookInv => OwnTranscript
  BY DEF HookInv
<1> QED
  BY <1>1, HookInvInductive, PTL

-----------------------------------------------------------------------------
InjectHappened(c, e) ==
    e.boot => /\ e.pack \in Packs /\ e.inject >= 0
              /\ sent[c][e.pack] >= e.inject

DistillTried(c, e) == e.distill > 0 => tried[c] >= e.distill

Justified(c, e) == InjectHappened(c, e) /\ DistillTried(c, e)

AllJustified(entries) == \A c \in Talks : Justified(c, entries[c])

\* What a process may be about to do.
OtherHook ==
    [at : {"truncate", "write"}, hook : {"other"}, all : [Talks -> Entry], next : {"out"}]
OwnHook ==
    [at : {"load", "decide", "save", "truncate", "write", "rmtree", "stop", "handover"},
     hook : {"inject?", "inject", "heal", "distill"}, talk : Talks, turn : 0 .. MaxTurns,
     entry : Entry, all : [Talks -> Entry], next : {"out", "decide", "rmtree"}]
ThrottledHook ==
    [at : {"throttled"}, talk : Talks, turn : 0 .. MaxTurns, pack : Packs]
DebouncedHook ==
    [at : {"debounced"}, talk : Talks, since : 0 .. MaxClock]

OtherInv(a) == a \in OtherHook /\ AllJustified(a.all)

\* The pack that is about to be printed is the only thing not yet done.
OwnInv(a) ==
    /\ a \in OwnHook
    /\ DistillTried(a.talk, a.entry)
    /\ a.hook # "inject" => InjectHappened(a.talk, a.entry)
    /\ a.hook = "inject" =>
          /\ a.at \in {"save", "truncate", "write"} /\ a.next = "out"
          /\ a.entry.pack \in Packs /\ a.entry.inject = a.turn
    /\ a.at \in {"truncate", "write"} =>
          \A c \in Talks : \/ Justified(c, a.all[c])
                           \/ a.hook = "inject" /\ c = a.talk /\ a.all[c] = a.entry

ThrottledInv(a) ==
    /\ a \in ThrottledHook
    /\ sent[a.talk][a.pack] >= 0
    /\ EveryN = 0 \/ a.turn - sent[a.talk][a.pack] < EveryN

DebouncedInv(a) ==
    /\ a \in DebouncedHook
    /\ tried[a.talk] > 0 /\ a.since - tried[a.talk] < Debounce

AgentInv(a) ==
    a = Out \/ OtherInv(a) \/ OwnInv(a) \/ ThrottledInv(a) \/ DebouncedInv(a)

AgyInv ==
    /\ AgyTypeOK
    /\ \A c \in Talks : tried[c] <= clock
    /\ AllJustified(file) /\ AllJustified(shadow)
    /\ agent = [p \in Agents |-> agent[p]]
    /\ \A p \in Agents : AgentInv(agent[p])

-----------------------------------------------------------------------------
\* The history only grows.
HistoryGrows ==
    /\ \A c \in Talks, k \in Packs : sent'[c][k] >= sent[c][k]
    /\ \A c \in Talks : tried'[c] >= tried[c]

HistoryType ==
    /\ sent \in [Talks -> [Packs -> -1 .. MaxTurns]]
    /\ tried \in [Talks -> 0 .. MaxClock]

LEMMA JustifiedStays ==
    ASSUME HistoryType, HistoryType', HistoryGrows, NEW c \in Talks, NEW e \in Entry
    PROVE  /\ InjectHappened(c, e) => InjectHappened(c, e)'
           /\ DistillTried(c, e) => DistillTried(c, e)'
           /\ Justified(c, e) => Justified(c, e)'
<1> USE DEF HistoryType, HistoryGrows, Entry
<1>1. InjectHappened(c, e) => InjectHappened(c, e)'
  <2> SUFFICES ASSUME e.boot, e.pack \in Packs, e.inject >= 0, sent[c][e.pack] >= e.inject
               PROVE  sent'[c][e.pack] >= e.inject
    BY DEF InjectHappened
  <2>1. /\ sent[c][e.pack] \in Int /\ sent'[c][e.pack] \in Int /\ e.inject \in Int
        /\ sent'[c][e.pack] >= sent[c][e.pack]
    OBVIOUS
  <2> QED
    BY <2>1
<1>2. DistillTried(c, e) => DistillTried(c, e)'
  <2>1. /\ tried[c] \in Int /\ tried'[c] \in Int /\ e.distill \in Int
        /\ tried'[c] >= tried[c]
    OBVIOUS
  <2> QED
    BY <2>1 DEF DistillTried
<1> QED
  BY <1>1, <1>2 DEF Justified

\* A process that takes no step keeps what is known of it.
LEMMA AgentStays ==
    ASSUME HistoryType, HistoryType', HistoryGrows, NEW a, AgentInv(a)
    PROVE  AgentInv(a)'
<1>1. CASE a = Out
  BY <1>1 DEF AgentInv
<1>2. CASE OtherInv(a)
  <2>1. a.all \in [Talks -> Entry]
    BY <1>2 DEF OtherInv, OtherHook
  <2>2. \A c \in Talks : a.all[c] \in Entry
    BY <2>1
  <2>3. AllJustified(a.all)'
    BY <1>2, <2>2, JustifiedStays DEF OtherInv, AllJustified
  <2> QED
    BY <1>2, <2>3 DEF AgentInv, OtherInv
<1>3. CASE OwnInv(a)
  <2>1. a \in OwnHook /\ a.talk \in Talks /\ a.entry \in Entry /\ a.all \in [Talks -> Entry]
    BY <1>3 DEF OwnInv, OwnHook
  <2>2. \A c \in Talks : a.all[c] \in Entry
    BY <2>1
  <2>3. /\ DistillTried(a.talk, a.entry)'
        /\ a.hook # "inject" => InjectHappened(a.talk, a.entry)'
    BY <1>3, <2>1, JustifiedStays DEF OwnInv
  <2>4. \A c \in Talks : Justified(c, a.all[c]) => Justified(c, a.all[c])'
    BY <2>2, JustifiedStays
  <2> QED
    BY <1>3, <2>3, <2>4 DEF AgentInv, OwnInv
<1>4. CASE ThrottledInv(a)
  <2>1. a \in ThrottledHook /\ a.talk \in Talks /\ a.pack \in Packs /\ a.turn \in Int
    BY <1>4 DEF ThrottledInv, ThrottledHook
  <2>2. /\ sent[a.talk][a.pack] \in Int /\ sent'[a.talk][a.pack] \in Int
        /\ sent'[a.talk][a.pack] >= sent[a.talk][a.pack]
    BY <2>1 DEF HistoryType, HistoryGrows
  <2>3. EveryN \in Int
    BY AgyAssumption
  <2> QED
    BY <1>4, <2>1, <2>2, <2>3 DEF AgentInv, ThrottledInv
<1>5. CASE DebouncedInv(a)
  <2>1. a \in DebouncedHook /\ a.talk \in Talks /\ a.since \in Int
    BY <1>5 DEF DebouncedInv, DebouncedHook
  <2>2. /\ tried[a.talk] \in Int /\ tried'[a.talk] \in Int
        /\ tried'[a.talk] >= tried[a.talk]
    BY <2>1 DEF HistoryType, HistoryGrows
  <2>3. Debounce \in Int
    BY AgyAssumption
  <2> QED
    BY <1>5, <2>1, <2>2, <2>3 DEF AgentInv, DebouncedInv
<1> QED
  BY <1>1, <1>2, <1>3, <1>4, <1>5 DEF AgentInv

-----------------------------------------------------------------------------
\* A step in which the history and the files stay moves one process only.
LEMMA OthersStay ==
    ASSUME AgyInv, NEW p \in Agents, HistoryType', HistoryGrows,
           agent' = [agent EXCEPT ![p] = agent'[p]], AgentInv(agent[p])'
    PROVE  /\ agent' = [q \in Agents |-> agent'[q]]
           /\ \A q \in Agents : AgentInv(agent[q])'
<1>1. agent' = [q \in Agents |-> agent'[q]]
  BY DEF AgyInv
<1>2. ASSUME NEW q \in Agents, q # p PROVE AgentInv(agent[q])'
  <2>1. agent'[q] = agent[q]
    BY <1>2 DEF AgyInv
  <2>2. \A a : AgentInv(a) => AgentInv(a)'
    BY AgentStays DEF AgyInv, AgyTypeOK, HistoryType
  <2>3. AgentInv(agent[q])
    BY DEF AgyInv
  <2> QED
    BY <2>1, <2>2, <2>3
<1> QED
  BY <1>1, <1>2

LEMMA QuietStep ==
    ASSUME AgyInv, NEW p \in Agents, UNCHANGED <<file, shadow, turn, clock, history>>,
           agent' = [agent EXCEPT ![p] = agent'[p]], AgentInv(agent[p])'
    PROVE  AgyInv'
<1>1. HistoryType /\ HistoryType' /\ HistoryGrows
  <2>1. HistoryType
    BY DEF AgyInv, AgyTypeOK, HistoryType
  <2>2. HistoryGrows
    BY <2>1 DEF HistoryGrows, HistoryType, history
  <2> QED
    BY <2>1, <2>2 DEF HistoryType, history
<1>2. AgyTypeOK' /\ \A c \in Talks : (tried[c] <= clock)'
  BY DEF AgyInv, AgyTypeOK, history
<1>3. AllJustified(file)' /\ AllJustified(shadow)'
  BY DEF AgyInv, AllJustified, Justified, InjectHappened, DistillTried, history
<1> QED
  BY <1>1, <1>2, <1>3, OthersStay DEF AgyInv

\* What is known of the process that takes the step.
LEMMA OwnFields ==
    ASSUME AgyInv, NEW p \in Agents,
           agent[p].at \in {"load", "decide", "save", "rmtree", "stop", "handover"}
    PROVE  OwnInv(agent[p])
BY DEF AgyInv, AgentInv, Out, OtherInv, OtherHook, ThrottledInv, ThrottledHook,
       DebouncedInv, DebouncedHook

LEMMA NewJustified == New \in Entry /\ \A c : Justified(c, New)
BY AgyAssumption DEF New, Entry, Justified, InjectHappened, DistillTried

LEMMA EmptyJustified ==
    /\ Empty \in [Talks -> Entry] /\ AllJustified(Empty)
BY NewJustified DEF Empty, AllJustified

LEMMA SaveLoadsStep == ASSUME AgyInv, NEW p \in Agents, SaveLoads(p) PROVE AgyInv'
<1> DEFINE a == agent[p]
           b == [a EXCEPT !.at = "truncate", !.all = [file EXCEPT ![a.talk] = a.entry]]
<1>1. OwnInv(a) /\ a.at = "save"
  BY OwnFields DEF SaveLoads
<1>2. a \in OwnHook /\ file \in [Talks -> Entry]
  BY <1>1 DEF OwnInv, AgyInv, AgyTypeOK
<1>3. b \in OwnHook /\ b.talk = a.talk /\ b.entry = a.entry /\ b.hook = a.hook
      /\ b.next = a.next /\ b.turn = a.turn /\ b.at = "truncate"
      /\ b.all = [file EXCEPT ![a.talk] = a.entry]
  BY <1>2 DEF OwnHook
<1>4. agent'[p] = b /\ agent' = [agent EXCEPT ![p] = agent'[p]]
      /\ UNCHANGED <<file, shadow, turn, clock, history>>
  BY DEF SaveLoads, Turns, AgyInv
<1>5. \A c \in Talks : \/ Justified(c, b.all[c])
                       \/ b.hook = "inject" /\ c = b.talk /\ b.all[c] = b.entry
  <2> TAKE c \in Talks
  <2>1. CASE c # a.talk
    BY <2>1, <1>2, <1>3 DEF AgyInv, AllJustified
  <2>2. CASE c = a.talk
    <3>1. b.all[c] = a.entry
      BY <2>2, <1>2, <1>3
    <3> QED
      BY <2>2, <3>1, <1>1, <1>3 DEF OwnInv, Justified
  <2> QED
    BY <2>1, <2>2
<1>6. OwnInv(b)
  <2> HIDE DEF b
  <2> QED
    BY <1>1, <1>3, <1>5 DEF OwnInv
<1>7. AgentInv(agent[p])'
  <2> HIDE DEF b
  <2> QED
    BY <1>4, <1>6 DEF AgentInv, OwnInv, DistillTried, InjectHappened, Justified, history
<1> QED
  BY <1>4, <1>7, QuietStep

LEMMA LoadsStep == ASSUME AgyInv, NEW p \in Agents, Loads(p) PROVE AgyInv'
<1> DEFINE a == agent[p]
<1>1. OwnInv(a) /\ a.at = "load" /\ a \in OwnHook /\ file \in [Talks -> Entry]
  BY OwnFields DEF Loads, OwnInv, AgyInv, AgyTypeOK
<1>2. PICK next \in {"decide", "save"} :
         agent' = [agent EXCEPT ![p] = [a EXCEPT !.at = next, !.entry = file[a.talk],
                      !.next = IF next = "save" THEN "decide" ELSE "out"]]
  BY DEF Loads, Turns
<1> DEFINE b == [a EXCEPT !.at = next, !.entry = file[a.talk],
                          !.next = IF next = "save" THEN "decide" ELSE "out"]
<1>3. b \in OwnHook /\ b.talk = a.talk /\ b.entry = file[a.talk] /\ b.hook = a.hook
      /\ b.at \in {"decide", "save"}
  BY <1>1 DEF OwnHook
<1>4. agent'[p] = b /\ agent' = [agent EXCEPT ![p] = agent'[p]]
      /\ UNCHANGED <<file, shadow, turn, clock, history>>
  BY <1>2 DEF Loads, AgyInv
<1>5. Justified(a.talk, file[a.talk])
  BY <1>1 DEF AgyInv, AllJustified, OwnHook
<1>6. OwnInv(b)
  <2> HIDE DEF b
  <2> QED
    BY <1>1, <1>3, <1>5 DEF OwnInv, Justified
<1>7. AgentInv(agent[p])'
  <2> HIDE DEF b
  <2> QED
    BY <1>4, <1>6 DEF AgentInv, OwnInv, DistillTried, InjectHappened, Justified, history
<1> QED
  BY <1>4, <1>7, QuietStep

\* Where nothing is injected: the pack was sent, and recently enough.
LEMMA DecidesStep == ASSUME AgyInv, NEW p \in Agents, Decides(p) PROVE AgyInv'
<1> DEFINE a == agent[p]
<1>1. OwnInv(a) /\ a.at = "decide" /\ a \in OwnHook /\ a.entry \in Entry
      /\ a.talk \in Talks /\ a.turn \in 0 .. MaxTurns
  BY OwnFields DEF Decides, OwnInv, OwnHook
<1>2. PICK k \in Packs :
         agent' = [agent EXCEPT ![p] =
            IF ShouldInjectPack(a.entry, a.turn, k)
            THEN [a EXCEPT !.at = "save", !.hook = "inject", !.next = "out",
                           !.entry = [a.entry EXCEPT !.inject = a.turn, !.pack = k,
                                                     !.boot = TRUE]]
            ELSE [at |-> "throttled", talk |-> a.talk, turn |-> a.turn, pack |-> k]]
  BY DEF Decides, Turns
<1>3. agent' = [agent EXCEPT ![p] = agent'[p]]
      /\ UNCHANGED <<file, shadow, turn, clock, history>>
  BY <1>2 DEF Decides, AgyInv
<1>4. CASE ShouldInjectPack(a.entry, a.turn, k)
  <2> DEFINE e == [a.entry EXCEPT !.inject = a.turn, !.pack = k, !.boot = TRUE]
             b == [a EXCEPT !.at = "save", !.hook = "inject", !.next = "out", !.entry = e]
  <2>1. agent'[p] = b
    BY <1>2, <1>4 DEF AgyInv
  <2>2. e \in Entry /\ e.distill = a.entry.distill /\ e.pack = k /\ e.inject = a.turn
    <3>1. a.turn \in -1 .. MaxTurns
      BY <1>1, AgyAssumption
    <3> QED
      BY <1>1, <3>1 DEF Entry
  <2>3. b \in OwnHook /\ b.talk = a.talk /\ b.entry = e /\ b.hook = "inject"
        /\ b.at = "save" /\ b.next = "out" /\ b.turn = a.turn
    <3> HIDE DEF e
    <3> QED
      BY <1>1, <2>2 DEF OwnHook
  <2>4. DistillTried(b.talk, b.entry)
    <3> HIDE DEF e, b
    <3> QED
      BY <1>1, <2>2, <2>3 DEF OwnInv, DistillTried
  <2>5. OwnInv(b)
    <3> HIDE DEF e, b
    <3> QED
      BY <2>2, <2>3, <2>4 DEF OwnInv
  <2>6. AgentInv(agent[p])'
    <3> HIDE DEF e, b
    <3> QED
      BY <1>3, <2>1, <2>5
         DEF AgentInv, OwnInv, DistillTried, InjectHappened, Justified, history
  <2> QED
    BY <1>3, <2>6, QuietStep
<1>5. CASE ~ShouldInjectPack(a.entry, a.turn, k)
  <2> DEFINE b == [at |-> "throttled", talk |-> a.talk, turn |-> a.turn, pack |-> k]
  <2>1. agent'[p] = b
    BY <1>2, <1>5 DEF AgyInv
  <2>2. b \in ThrottledHook
    BY <1>1 DEF ThrottledHook
  <2>3. /\ a.entry.boot /\ a.entry.pack = k
        /\ ~(EveryN > 0 /\ a.turn - a.entry.inject >= EveryN)
    BY <1>5 DEF ShouldInjectPack
  <2>4. a.entry.inject >= 0 /\ sent[a.talk][k] >= a.entry.inject
    <3>1. InjectHappened(a.talk, a.entry)
      BY <1>1 DEF OwnInv
    <3> QED
      BY <3>1, <2>3 DEF InjectHappened
  <2>5. /\ a.entry.inject \in Int /\ sent[a.talk][k] \in Int /\ a.turn \in Int
        /\ EveryN \in Nat
    BY <1>1, AgyAssumption DEF Entry, AgyInv, AgyTypeOK
  <2>6. sent[a.talk][k] >= 0 /\ (EveryN = 0 \/ a.turn - sent[a.talk][k] < EveryN)
    BY <2>3, <2>4, <2>5
  <2>7. ThrottledInv(b)
    BY <2>2, <2>6 DEF ThrottledInv
  <2>8. AgentInv(agent[p])'
    <3> HIDE DEF b
    <3> QED
      BY <1>3, <2>1, <2>7 DEF AgentInv, ThrottledInv, history
  <2> QED
    BY <1>3, <2>8, QuietStep
<1> QED
  BY <1>4, <1>5

LEMMA HoldsJustified ==
    ASSUME AgyInv, NEW c \in Talks, NEW at \in {"load", "stop", "rmtree"},
           NEW hook \in {"inject?", "distill", "heal"}, NEW n \in 0 .. MaxTurns,
           NEW next \in {"out", "rmtree"}
    PROVE  OwnInv(Holds(at, hook, c, n, next))
<1> DEFINE b == Holds(at, hook, c, n, next)
<1>1. b \in OwnHook /\ b.talk = c /\ b.entry = New /\ b.hook = hook /\ b.at = at
  BY NewJustified, EmptyJustified DEF Holds, OwnHook
<1>2. Justified(c, New)
  BY NewJustified
<1>3. OwnInv(b)
  <2> HIDE DEF b
  <2> QED
    BY <1>1, <1>2 DEF OwnInv, Justified
<1> QED
  BY <1>3

LEMMA StopLoadsStep ==
    ASSUME AgyInv, NEW p \in Agents, NEW c \in Talks, StopLoads(p, c) PROVE AgyInv'
<1> DEFINE h == Holds("stop", "distill", c, turn[c], "out")
           b == [h EXCEPT !.entry = file[c]]
<1>1. turn[c] \in 0 .. MaxTurns /\ file[c] \in Entry /\ Justified(c, file[c])
  BY DEF AgyInv, AgyTypeOK, AllJustified
<1>2. OwnInv(h)
  BY <1>1, HoldsJustified
<1>3. h \in OwnHook /\ h.talk = c /\ h.hook = "distill" /\ h.at = "stop"
  BY <1>2 DEF OwnInv, Holds
<1>4. b \in OwnHook /\ b.talk = c /\ b.entry = file[c] /\ b.hook = "distill" /\ b.at = "stop"
  <2> HIDE DEF h
  <2> QED
    BY <1>1, <1>3 DEF OwnHook
<1>5. OwnInv(b)
  <2> HIDE DEF b
  <2> QED
    BY <1>1, <1>4 DEF OwnInv, Justified
<1>6. agent'[p] = b /\ agent' = [agent EXCEPT ![p] = agent'[p]]
      /\ UNCHANGED <<file, shadow, turn, clock, history>>
  BY DEF StopLoads, Turns, AgyInv
<1>7. AgentInv(agent[p])'
  <2> HIDE DEF b
  <2> QED
    BY <1>5, <1>6 DEF AgentInv, OwnInv, DistillTried, InjectHappened, Justified, history
<1> QED
  BY <1>6, <1>7, QuietStep

\* Where nothing is tried: that was done, and a moment ago.
LEMMA StopDecidesStep == ASSUME AgyInv, NEW p \in Agents, StopDecides(p) PROVE AgyInv'
<1> DEFINE a == agent[p]
<1>1. OwnInv(a) /\ a.at = "stop" /\ a \in OwnHook /\ a.entry \in Entry /\ a.talk \in Talks
  BY OwnFields DEF StopDecides, OwnInv, OwnHook
<1>2. PICK idle \in BOOLEAN, force \in BOOLEAN :
         Turns(p, CASE ShouldRunDistill(a.entry, idle, force) -> [a EXCEPT !.at = "handover"]
                    [] ~ShouldRunDistill(a.entry, idle, force) /\ idle
                         -> [at |-> "debounced", talk |-> a.talk, since |-> clock]
                    [] OTHER -> Out)
  BY DEF StopDecides
<1>3. agent' = [agent EXCEPT ![p] = agent'[p]]
      /\ UNCHANGED <<file, shadow, turn, clock, history>>
  BY <1>2 DEF StopDecides, Turns, AgyInv
<1>4. CASE ShouldRunDistill(a.entry, idle, force)
  <2> DEFINE b == [a EXCEPT !.at = "handover"]
  <2>1. agent'[p] = b
    BY <1>2, <1>4 DEF Turns, AgyInv
  <2>2. b \in OwnHook /\ b.talk = a.talk /\ b.entry = a.entry /\ b.hook = a.hook
        /\ b.at = "handover"
    BY <1>1 DEF OwnHook
  <2>3. OwnInv(b)
    <3> HIDE DEF b
    <3> QED
      BY <1>1, <2>2 DEF OwnInv
  <2>4. AgentInv(agent[p])'
    <3> HIDE DEF b
    <3> QED
      BY <1>3, <2>1, <2>3
         DEF AgentInv, OwnInv, DistillTried, InjectHappened, Justified, history
  <2> QED
    BY <1>3, <2>4, QuietStep
<1>5. CASE ~ShouldRunDistill(a.entry, idle, force) /\ idle
  <2> DEFINE b == [at |-> "debounced", talk |-> a.talk, since |-> clock]
  <2>1. agent'[p] = b
    BY <1>2, <1>5 DEF Turns, AgyInv
  <2>2. clock \in 0 .. MaxClock /\ tried[a.talk] \in 0 .. MaxClock
    BY <1>1 DEF AgyInv, AgyTypeOK
  <2>3. b \in DebouncedHook
    BY <1>1, <2>2 DEF DebouncedHook
  <2>4. a.entry.distill # 0 /\ ~(clock - a.entry.distill >= Debounce)
    BY <1>5 DEF ShouldRunDistill
  <2>5. a.entry.distill \in 0 .. MaxClock /\ Debounce \in Nat
    BY <1>1, AgyAssumption DEF Entry
  <2>6. tried[a.talk] >= a.entry.distill
    <3>1. a.entry.distill > 0
      BY <2>4, <2>5
    <3> QED
      BY <1>1, <3>1 DEF OwnInv, DistillTried
  <2>7. tried[a.talk] > 0 /\ clock - tried[a.talk] < Debounce
    BY <2>2, <2>4, <2>5, <2>6
  <2>8. DebouncedInv(b)
    BY <2>3, <2>7 DEF DebouncedInv
  <2>9. AgentInv(agent[p])'
    <3> HIDE DEF b
    <3> QED
      BY <1>3, <2>1, <2>8 DEF AgentInv, DebouncedInv, history
  <2> QED
    BY <1>3, <2>9, QuietStep
<1>6. CASE ~ShouldRunDistill(a.entry, idle, force) /\ ~idle
  <2>1. agent'[p] = Out
    BY <1>2, <1>6 DEF Turns, AgyInv
  <2>2. AgentInv(agent[p])'
    BY <2>1 DEF AgentInv, Out
  <2> QED
    BY <1>3, <2>2, QuietStep
<1> QED
  BY <1>4, <1>5, <1>6

LEMMA EndsStep == ASSUME AgyInv, NEW p \in Agents, Ends(p) PROVE AgyInv'
<1>1. agent'[p] = Out /\ agent' = [agent EXCEPT ![p] = agent'[p]]
      /\ UNCHANGED <<file, shadow, turn, clock, history>>
  BY DEF Ends, Turns, AgyInv
<1>2. AgentInv(agent[p])'
  BY <1>1 DEF AgentInv, Out
<1> QED
  BY <1>1, <1>2, QuietStep

LEMMA OtherTalkSavesStep ==
    ASSUME AgyInv, NEW p \in Agents, OtherTalkSaves(p) PROVE AgyInv'
<1> DEFINE b == [at |-> "truncate", hook |-> "other", all |-> file, next |-> "out"]
<1>1. agent'[p] = b /\ agent' = [agent EXCEPT ![p] = agent'[p]]
      /\ UNCHANGED <<file, shadow, turn, clock, history>>
  BY DEF OtherTalkSaves, Turns, AgyInv
<1>2. b \in OtherHook /\ AllJustified(file)
  BY DEF OtherHook, AgyInv, AgyTypeOK
<1>3. AgentInv(agent[p])'
  <2>1. AllJustified(b.all)'
    BY <1>1, <1>2 DEF AllJustified, Justified, InjectHappened, DistillTried, history
  <2> QED
    BY <1>1, <1>2, <2>1 DEF AgentInv, OtherInv
<1> QED
  BY <1>1, <1>3, QuietStep

\* The handover that ends now justifies the entry that is about to be written.
LEMMA HandoverEndsStep == ASSUME AgyInv, NEW p \in Agents, HandoverEnds(p) PROVE AgyInv'
<1>0. PICK a, now : a = agent[p] /\ now = clock
  OBVIOUS
<1> DEFINE e == [a.entry EXCEPT !.distill = now]
           b == [a EXCEPT !.at = "save", !.entry.distill = now]
<1>1. OwnInv(a) /\ a.at = "handover" /\ a \in OwnHook /\ a.entry \in Entry /\ a.talk \in Talks
  BY <1>0, OwnFields DEF HandoverEnds, OwnInv, OwnHook
<1>2. /\ tried' = [tried EXCEPT ![a.talk] = now]
      /\ agent' = [agent EXCEPT ![p] = b]
      /\ UNCHANGED <<file, shadow, turn, clock, sent>>
  BY <1>0 DEF HandoverEnds, Turns
<1>3. HistoryType /\ now \in 0 .. MaxClock /\ now = clock /\ file \in [Talks -> Entry]
      /\ shadow \in [Talks -> Entry] /\ \A c \in Talks : tried[c] <= clock
  BY <1>0 DEF AgyInv, AgyTypeOK, HistoryType
<1>4. HistoryType' /\ HistoryGrows
  BY <1>1, <1>2, <1>3 DEF HistoryType, HistoryGrows
<1>5. AgyTypeOK' /\ \A c \in Talks : (tried[c] <= clock)'
  BY <1>2, <1>3, <1>4 DEF AgyTypeOK, AgyInv, HistoryType
<1>6. AllJustified(file)' /\ AllJustified(shadow)'
  <2>1. \A c \in Talks : Justified(c, file[c])' /\ Justified(c, shadow[c])'
    <3> TAKE c \in Talks
    <3>1. file[c] \in Entry /\ shadow[c] \in Entry /\ Justified(c, file[c])
          /\ Justified(c, shadow[c])
      BY <1>3 DEF AgyInv, AllJustified
    <3>2. \A x \in Entry : Justified(c, x) => Justified(c, x)'
      BY <1>3, <1>4, JustifiedStays
    <3>3. file' = file /\ shadow' = shadow
      BY <1>2
    <3> QED
      BY <3>1, <3>2, <3>3 DEF Justified, InjectHappened, DistillTried
  <2> QED
    BY <2>1 DEF AllJustified
<1>7. e \in Entry /\ e.distill = now /\ e.boot = a.entry.boot /\ e.pack = a.entry.pack
      /\ e.inject = a.entry.inject
  BY <1>1, <1>3 DEF Entry
<1>8. b \in OwnHook /\ b.talk = a.talk /\ b.entry = e /\ b.hook = a.hook /\ b.at = "save"
  <2>1. b = [a EXCEPT !.at = "save", !.entry = e]
    BY <1>1 DEF OwnHook
  <2> HIDE DEF e, b
  <2> QED
    BY <1>1, <1>7, <2>1 DEF OwnHook
<1>9. OwnInv(b)'
  <2>1. DistillTried(a.talk, e)'
    <3>1. tried'[a.talk] = now
      BY <1>1, <1>2, <1>3 DEF HistoryType
    <3> HIDE DEF e
    <3> QED
      BY <1>3, <1>7, <3>1, <1>2 DEF DistillTried
  <2>2. a.hook # "inject"
    BY <1>1 DEF OwnInv
  <2>3. InjectHappened(a.talk, e)'
    <3>1. InjectHappened(a.talk, a.entry)
      BY <1>1, <2>2 DEF OwnInv
    <3> HIDE DEF e
    <3> QED
      BY <1>2, <1>7, <3>1 DEF InjectHappened
  <2> HIDE DEF e, b
  <2> QED
    BY <1>8, <2>1, <2>2, <2>3 DEF OwnInv
<1>10. agent'[p] = b /\ agent' = [agent EXCEPT ![p] = agent'[p]]
  <2> HIDE DEF b
  <2> QED
    BY <1>2 DEF AgyInv
<1>11. AgentInv(agent[p])'
  <2> HIDE DEF b
  <2> QED
    BY <1>9, <1>10 DEF AgentInv, OwnInv, DistillTried, InjectHappened, Justified
<1> QED
  BY <1>4, <1>5, <1>6, <1>10, <1>11, OthersStay DEF AgyInv

\* A step that keeps the history, but not all of the rest.
LEMMA SameHistory ==
    ASSUME AgyInv, NEW p \in Agents, UNCHANGED <<history, clock>>, AgyTypeOK',
           AllJustified(file)', AllJustified(shadow)',
           agent' = [agent EXCEPT ![p] = agent'[p]], AgentInv(agent[p])'
    PROVE  AgyInv'
<1>1. HistoryType /\ HistoryType' /\ HistoryGrows
  <2>1. HistoryType
    BY DEF AgyInv, AgyTypeOK, HistoryType
  <2>2. HistoryGrows
    BY <2>1 DEF HistoryGrows, HistoryType, history
  <2> QED
    BY <2>1, <2>2 DEF HistoryType, history
<1>2. \A c \in Talks : (tried[c] <= clock)'
  BY DEF AgyInv, history
<1> QED
  BY <1>1, <1>2, OthersStay DEF AgyInv

LEMMA TruncatesStep == ASSUME AgyInv, NEW p \in Agents, Truncates(p) PROVE AgyInv'
<1>0. PICK a : a = agent[p]
  OBVIOUS
<1> DEFINE b == [a EXCEPT !.at = "write"]
<1>1. a.at = "truncate" /\ AgentInv(a)
  BY <1>0 DEF Truncates, AgyInv
<1>2. agent'[p] = b /\ agent' = [agent EXCEPT ![p] = agent'[p]] /\ file' = Empty
      /\ UNCHANGED <<shadow, turn, clock, history>>
  BY <1>0 DEF Truncates, Turns, AgyInv
<1>3. AgyTypeOK' /\ AllJustified(file)' /\ AllJustified(shadow)'
  <2>1. AllJustified(Empty)'
    BY EmptyJustified, <1>2
       DEF AllJustified, Justified, InjectHappened, DistillTried, history, Empty
  <2> QED
    BY <1>2, <2>1, EmptyJustified
       DEF AgyInv, AgyTypeOK, AllJustified, Justified, InjectHappened, DistillTried,
           history
<1>4. OtherInv(a) \/ OwnInv(a)
  BY <1>1 DEF AgentInv, Out, ThrottledInv, ThrottledHook, DebouncedInv, DebouncedHook
<1>5. OtherInv(b) \/ OwnInv(b)
  <2>1. CASE OtherInv(a)
    <3>1. b \in OtherHook /\ b.all = a.all
      BY <2>1 DEF OtherInv, OtherHook
    <3> HIDE DEF b
    <3> QED
      BY <2>1, <3>1 DEF OtherInv
  <2>2. CASE OwnInv(a)
    <3>1. b \in OwnHook /\ b.talk = a.talk /\ b.entry = a.entry /\ b.hook = a.hook
          /\ b.at = "write" /\ b.all = a.all /\ b.next = a.next /\ b.turn = a.turn
      BY <2>2 DEF OwnInv, OwnHook
    <3> HIDE DEF b
    <3> QED
      BY <1>1, <2>2, <3>1 DEF OwnInv
  <2> QED
    BY <1>4, <2>1, <2>2
<1>6. AgentInv(agent[p])'
  <2> HIDE DEF b
  <2> QED
    BY <1>2, <1>5 DEF AgentInv, OtherInv, OwnInv, AllJustified, DistillTried,
                      InjectHappened, Justified, history
<1> QED
  BY <1>2, <1>3, <1>6, SameHistory

LEMMA MergeJustified ==
    ASSUME AgyInv PROVE MergedStates \in [Talks -> Entry] /\ AllJustified(MergedStates)
BY DEF AgyInv, AgyTypeOK, MergedStates, AllJustified

LEMMA PreInvocationStep ==
    ASSUME AgyInv, NEW p \in Agents, NEW c \in Talks, PreInvocation(p, c) PROVE AgyInv'
<1>0. PICK n, all : n = turn[c] /\ all = MergedStates
  OBVIOUS
<1>1. n \in 0 .. MaxTurns /\ n + 1 \in 0 .. MaxTurns
      /\ all \in [Talks -> Entry] /\ AllJustified(all)
  BY <1>0, MergeJustified, AgyAssumption DEF PreInvocation, AgyInv, AgyTypeOK
<1>2. turn' = [turn EXCEPT ![c] = n + 1] /\ UNCHANGED <<file, shadow, clock, history>>
      /\ agent' = [agent EXCEPT ![p] = agent'[p]]
  BY <1>0 DEF PreInvocation, Turns, AgyInv
<1>3. AgyTypeOK' /\ AllJustified(file)' /\ AllJustified(shadow)'
  BY <1>1, <1>2 DEF AgyInv, AgyTypeOK, AllJustified, Justified, InjectHappened,
                    DistillTried, history
<1> DEFINE h(at) == Holds(at, "heal", c, n, "rmtree")
<1>4. \/ agent'[p] = Holds("load", "inject?", c, n, "out")
      \/ agent'[p] = [h("rmtree") EXCEPT !.all = all]
      \/ agent'[p] = [h("truncate") EXCEPT !.all = all]
  BY <1>0 DEF PreInvocation, Turns, AgyInv
<1>5. OwnInv(Holds("load", "inject?", c, n, "out"))
  BY <1>1, HoldsJustified
<1>6. ASSUME NEW at \in {"rmtree", "truncate"} PROVE OwnInv([h(at) EXCEPT !.all = all])
  <2> DEFINE b == [h(at) EXCEPT !.all = all]
  <2>1. b \in OwnHook /\ b.talk = c /\ b.entry = New /\ b.hook = "heal" /\ b.all = all
    BY <1>1, NewJustified, EmptyJustified DEF Holds, OwnHook
  <2>2. OwnInv(b)
    <3> HIDE DEF b
    <3> QED
      BY <2>1, <1>1, NewJustified DEF OwnInv, Justified, AllJustified
  <2> QED
    BY <2>2
<1>7. OwnInv(agent'[p])
  BY <1>4, <1>5, <1>6
<1>8. AgentInv(agent[p])'
  BY <1>2, <1>7 DEF AgentInv, OwnInv, DistillTried, InjectHappened, Justified, history
<1> QED
  BY <1>2, <1>3, <1>8, SameHistory

LEMMA HealEndsStep == ASSUME AgyInv, NEW p \in Agents, HealEnds(p) PROVE AgyInv'
<1>0. PICK a : a = agent[p]
  OBVIOUS
<1>1. OwnInv(a) /\ a.talk \in Talks /\ a.turn \in 0 .. MaxTurns
  BY <1>0, OwnFields DEF HealEnds, OwnInv, OwnHook
<1>2. agent'[p] = Holds("load", "inject?", a.talk, a.turn, "out")
      /\ agent' = [agent EXCEPT ![p] = agent'[p]] /\ shadow' = Empty
      /\ UNCHANGED <<file, turn, clock, history>>
  BY <1>0 DEF HealEnds, Turns, AgyInv
<1>3. AgyTypeOK' /\ AllJustified(file)' /\ AllJustified(shadow)'
  <2>1. AllJustified(Empty)'
    BY EmptyJustified, <1>2
       DEF AllJustified, Justified, InjectHappened, DistillTried, history, Empty
  <2> QED
    BY <1>2, <2>1, EmptyJustified
       DEF AgyInv, AgyTypeOK, AllJustified, Justified, InjectHappened, DistillTried,
           history
<1>4. OwnInv(agent'[p])
  BY <1>1, <1>2, HoldsJustified
<1>5. AgentInv(agent[p])'
  BY <1>2, <1>4 DEF AgentInv, OwnInv, DistillTried, InjectHappened, Justified, history
<1> QED
  BY <1>2, <1>3, <1>5, SameHistory

\* The write makes true what the entry says.
LEMMA WritesStep == ASSUME AgyInv, NEW p \in Agents, Writes(p) PROVE AgyInv'
<1>0. PICK a : a = agent[p]
  OBVIOUS
<1>1. a.at = "write" /\ (OtherInv(a) \/ OwnInv(a))
  BY <1>0 DEF Writes, AgyInv, AgentInv, Out, ThrottledInv, ThrottledHook, DebouncedInv,
              DebouncedHook
<1>2. /\ file' = a.all
      /\ agent'[p] = IF a.next = "out" THEN Out ELSE [a EXCEPT !.at = a.next, !.all = Empty]
      /\ agent' = [agent EXCEPT ![p] = agent'[p]]
      /\ sent' = IF a.hook = "inject"
                 THEN [sent EXCEPT ![a.talk][a.entry.pack] =
                                      IF @ > a.turn THEN @ ELSE a.turn]
                 ELSE sent
      /\ UNCHANGED <<shadow, turn, clock, tried>>
  BY <1>0 DEF Writes, Turns, AgyInv
<1>3. a.hook = "inject" => /\ OwnInv(a) /\ a.talk \in Talks /\ a.turn \in 0 .. MaxTurns
                           /\ a.entry \in Entry /\ a.entry.pack \in Packs
                           /\ a.entry.inject = a.turn /\ a.next = "out"
  BY <1>1 DEF OtherInv, OtherHook, OwnInv, OwnHook
<1>4. HistoryType /\ a.all \in [Talks -> Entry] /\ shadow \in [Talks -> Entry]
  BY <1>1 DEF AgyInv, AgyTypeOK, HistoryType, OtherInv, OtherHook, OwnInv, OwnHook
<1>5. /\ HistoryType' /\ HistoryGrows
      /\ a.hook = "inject" => sent'[a.talk][a.entry.pack] >= a.turn
  <2>1. CASE a.hook # "inject"
    BY <2>1, <1>2, <1>4 DEF HistoryType, HistoryGrows
  <2>2. CASE a.hook = "inject"
    <3> DEFINE t == a.talk
               k == a.entry.pack
               new == IF sent[t][k] > a.turn THEN sent[t][k] ELSE a.turn
    <3>1. sent' = [sent EXCEPT ![t] = [sent[t] EXCEPT ![k] = new]] /\ t \in Talks /\ k \in Packs
      BY <2>2, <1>2, <1>3
    <3>2. new \in -1 .. MaxTurns /\ new >= sent[t][k] /\ new >= a.turn
          /\ sent[t] \in [Packs -> -1 .. MaxTurns]
      BY <2>2, <1>3, <1>4, AgyAssumption DEF HistoryType
    <3> HIDE DEF t, k, new
    <3>3. HistoryType'
      <4>1. tried' = tried
        BY <1>2
      <4>2. [sent[t] EXCEPT ![k] = new] \in [Packs -> -1 .. MaxTurns]
        BY <3>1, <3>2
      <4>3. sent' \in [Talks -> [Packs -> -1 .. MaxTurns]]
        BY <1>4, <3>1, <4>2 DEF HistoryType
      <4> QED
        BY <1>4, <4>1, <4>3 DEF HistoryType
    <3>4. HistoryGrows
      <4>1. ASSUME NEW c \in Talks, NEW q \in Packs PROVE sent'[c][q] >= sent[c][q]
        <5>1. sent[c][q] \in -1 .. MaxTurns
          BY <1>4 DEF HistoryType
        <5> QED
          BY <5>1, <1>4, <3>1, <3>2 DEF HistoryType
      <4>2. \A c \in Talks : tried'[c] >= tried[c]
        BY <1>2, <1>4 DEF HistoryType
      <4> QED
        BY <4>1, <4>2 DEF HistoryGrows
    <3>5. sent'[t][k] = new
      BY <1>4, <3>1, <3>2 DEF HistoryType
    <3> QED
      BY <3>2, <3>3, <3>4, <3>5 DEF t, k
  <2> QED
    BY <2>1, <2>2
<1>6. ASSUME NEW c \in Talks, NEW e \in Entry, Justified(c, e) PROVE Justified(c, e)'
  BY <1>4, <1>5, <1>6, JustifiedStays
<1>7. AllJustified(a.all)'
  <2> SUFFICES ASSUME NEW c \in Talks PROVE Justified(c, a.all[c])'
    BY DEF AllJustified
  <2>1. a.all[c] \in Entry
    BY <1>4
  <2>2. CASE Justified(c, a.all[c])
    BY <2>1, <2>2, <1>6
  <2>3. CASE ~Justified(c, a.all[c])
    <3>1. a.hook = "inject" /\ c = a.talk /\ a.all[c] = a.entry /\ OwnInv(a)
      BY <2>3, <1>1, <1>3 DEF OtherInv, AllJustified, OwnInv
    <3>2. DistillTried(c, a.entry)'
      BY <3>1, <1>2, <1>3 DEF OwnInv, DistillTried
    <3>3. InjectHappened(c, a.entry)'
      BY <3>1, <1>3, <1>5 DEF InjectHappened
    <3> QED
      BY <3>1, <3>2, <3>3 DEF Justified
  <2> QED
    BY <2>2, <2>3
<1>8. AllJustified(file)' /\ AllJustified(shadow)'
  <2>1. AllJustified(file)'
    BY <1>2, <1>7 DEF AllJustified, Justified, InjectHappened, DistillTried
  <2>2. \A c \in Talks : shadow[c] \in Entry /\ Justified(c, shadow[c])
    BY <1>4 DEF AgyInv, AllJustified
  <2>3. \A c \in Talks, e \in Entry : Justified(c, e) => Justified(c, e)'
    BY <1>6
  <2>4. shadow' = shadow
    BY <1>2
  <2> QED
    BY <2>1, <2>2, <2>3, <2>4 DEF AllJustified, Justified, InjectHappened, DistillTried
<1>9. AgyTypeOK' /\ \A c \in Talks : (tried[c] <= clock)'
  BY <1>2, <1>4, <1>5 DEF AgyInv, AgyTypeOK, HistoryType
<1>10. AgentInv(agent[p])'
  <2>1. CASE a.next = "out"
    BY <2>1, <1>2 DEF AgentInv, Out
  <2>2. CASE a.next # "out"
    <3> DEFINE b == [a EXCEPT !.at = a.next, !.all = Empty]
    <3>1. OwnInv(a) /\ a.hook # "inject" /\ a.next \in {"decide", "rmtree"}
          /\ a.talk \in Talks /\ a.entry \in Entry
      BY <2>2, <1>1, <1>3 DEF OtherInv, OtherHook, OwnInv, OwnHook
    <3>2. b \in OwnHook /\ b.talk = a.talk /\ b.entry = a.entry /\ b.hook = a.hook
          /\ b.at \in {"decide", "rmtree"}
      BY <3>1, EmptyJustified DEF OwnInv, OwnHook
    <3>3. Justified(a.talk, a.entry)'
      BY <3>1, <1>6 DEF OwnInv, Justified
    <3>4. agent'[p] = b
      BY <2>2, <1>2
    <3>5. OwnInv(agent[p])'
      <4> HIDE DEF b
      <4> QED
        BY <3>1, <3>2, <3>3, <3>4
           DEF OwnInv, Justified, InjectHappened, DistillTried
    <3> QED
      BY <3>5 DEF AgentInv
  <2> QED
    BY <2>1, <2>2
<1> QED
  BY <1>2, <1>4, <1>5, <1>8, <1>9, <1>10, OthersStay DEF AgyInv

-----------------------------------------------------------------------------
\* What an older installation left had happened.
LEMMA InitJustified == AgyInit => AgyInv
<1> SUFFICES ASSUME AgyInit PROVE AgyInv
  OBVIOUS
<1>1. PICK known \in SUBSET Talks, k \in Packs, at \in 0 .. 1 :
         /\ shadow = [c \in Talks |->
                        IF c \in known THEN [inject |-> 0, pack |-> k, boot |-> TRUE,
                                             distill |-> at]
                        ELSE New]
         /\ turn = [c \in Talks |-> IF c \in known THEN 1 ELSE 0]
         /\ sent = [c \in Talks |-> [h \in Packs |-> IF c \in known /\ h = k THEN 0 ELSE -1]]
         /\ tried = [c \in Talks |-> IF c \in known THEN at ELSE 0]
  BY DEF AgyInit
<1>2. file = Empty /\ clock = 1 /\ agent = [p \in Agents |-> Out]
  BY DEF AgyInit
<1>3. MaxTurns \in Nat /\ MaxTurns >= 1 /\ MaxClock \in Nat /\ MaxClock >= 1
  BY AgyAssumption
<1> DEFINE old == [inject |-> 0, pack |-> k, boot |-> TRUE, distill |-> at]
<1>4. old \in Entry
  BY <1>3 DEF Entry
<1>5. AgyTypeOK
  <2>1. shadow \in [Talks -> Entry]
    <3> HIDE DEF old
    <3>1. shadow = [c \in Talks |-> IF c \in known THEN old ELSE New]
      BY <1>1 DEF old
    <3> QED
      BY <3>1, <1>4, NewJustified
  <2>2. turn \in [Talks -> 0 .. MaxTurns] /\ tried \in [Talks -> 0 .. MaxClock]
        /\ clock \in 0 .. MaxClock
    BY <1>1, <1>2, <1>3
  <2>3. sent \in [Talks -> [Packs -> -1 .. MaxTurns]]
    BY <1>1, <1>3
  <2> QED
    BY <1>2, <2>1, <2>2, <2>3, EmptyJustified DEF AgyTypeOK
<1>6. AllJustified(shadow)
  <2> SUFFICES ASSUME NEW c \in Talks PROVE Justified(c, shadow[c])
    BY DEF AllJustified
  <2>1. CASE c \in known
    <3>1. shadow[c] = old /\ sent[c][k] = 0 /\ tried[c] = at
      BY <2>1, <1>1
    <3>2. old.boot /\ old.pack = k /\ old.inject = 0 /\ old.distill = at
      OBVIOUS
    <3> QED
      BY <3>1, <3>2 DEF Justified, InjectHappened, DistillTried
  <2>2. CASE c \notin known
    BY <2>2, <1>1, NewJustified
  <2> QED
    BY <2>1, <2>2
<1>7. \A c \in Talks : tried[c] <= clock
  BY <1>1, <1>2
<1>8. \A p \in Agents : AgentInv(agent[p])
  BY <1>2 DEF AgentInv
<1> QED
  BY <1>2, <1>5, <1>6, <1>7, <1>8, EmptyJustified DEF AgyInv

LEMMA AgyInvInductive == AgySpec => []AgyInv
<1>1. AgyInv /\ [AgyNext]_agyVars => AgyInv'
  <2> SUFFICES ASSUME AgyInv, [AgyNext]_agyVars PROVE AgyInv'
    OBVIOUS
  <2>1. CASE Time
    <3>1. AgyTypeOK' /\ \A c \in Talks : (tried[c] <= clock)'
      <4>1. clock' = clock + 1 /\ clock' \in 0 .. MaxClock /\ clock \in Int
        BY <2>1, AgyAssumption DEF Time, AgyInv, AgyTypeOK
      <4>2. \A c \in Talks : tried[c] \in Int /\ tried[c] <= clock
        BY DEF AgyInv, AgyTypeOK
      <4> QED
        BY <2>1, <4>1, <4>2 DEF Time, AgyInv, AgyTypeOK, history
    <3> QED
      BY <2>1, <3>1 DEF Time, AgyInv, AllJustified, Justified, InjectHappened,
                DistillTried, AgentInv, OtherInv, OwnInv, ThrottledInv, DebouncedInv,
                history
  <2>2. ASSUME NEW p \in Agents, OtherTalkSaves(p) \/ HealEnds(p) \/ Loads(p) \/ Decides(p)
        PROVE AgyInv'
    BY <2>2, OtherTalkSavesStep, HealEndsStep, LoadsStep, DecidesStep
  <2>3. ASSUME NEW p \in Agents, NEW c \in Talks, PreInvocation(p, c) \/ StopLoads(p, c)
        PROVE AgyInv'
    BY <2>3, PreInvocationStep, StopLoadsStep
  <2>4. ASSUME NEW p \in Agents, StopDecides(p) \/ HandoverEnds(p) \/ Ends(p)
        PROVE AgyInv'
    BY <2>4, StopDecidesStep, HandoverEndsStep, EndsStep
  <2>5. ASSUME NEW p \in Agents, SaveLoads(p) \/ Truncates(p) \/ Writes(p)
        PROVE AgyInv'
    BY <2>5, SaveLoadsStep, TruncatesStep, WritesStep
  <2>6. CASE UNCHANGED agyVars
    BY <2>6 DEF agyVars, AgyInv, AgyTypeOK, AllJustified, Justified, InjectHappened,
                DistillTried, AgentInv, OtherInv, OwnInv, ThrottledInv, DebouncedInv,
                history
  <2> QED
    BY <2>1, <2>2, <2>3, <2>4, <2>5, <2>6 DEF AgyNext
<1> QED
  BY <1>1, InitJustified, PTL DEF AgySpec

\* A pack that Antigravity's hooks skip was sent, a handover they skip was tried
\* (services/antigravity_session.py:356 and 372), for any hooks, conversations, packs, reinjection interval and
\* debounce, with the whole-file writes and the merge of the old file.
THEOREM SkipsAreJustified == AgySpec => []SkippedWasTried
<1>1. AgyInv => SkippedWasTried
  <2> SUFFICES ASSUME AgyInv, NEW p \in Agents
               PROVE /\ agent[p].at = "throttled" => ThrottledInv(agent[p])
                     /\ agent[p].at = "debounced" => DebouncedInv(agent[p])
    BY DEF SkippedWasTried, ThrottledInv, DebouncedInv
  <2>1. AgentInv(agent[p])
    BY DEF AgyInv
  <2> QED
    BY <2>1 DEF AgentInv, Out, OtherInv, OtherHook, OwnInv, OwnHook, ThrottledInv,
                ThrottledHook, DebouncedInv, DebouncedHook
<1> QED
  BY <1>1, AgyInvInductive, PTL

-----------------------------------------------------------------------------
(* All four                                                                *)

\* Each part goes its own way while the steps of the others leave it alone.
LEMMA PartsApart ==
    RecordsSpec => Spec /\ CaptureSpec /\ HookSpec /\ AgySpec
<1>1. RecordsInit => Init /\ CaptureInit /\ HookInit /\ AgyInit
  BY DEF RecordsInit
<1>2. [RecordsNext]_recordsVars => [Next]_vars
  BY DEF RecordsNext, recordsVars
<1>3. [RecordsNext]_recordsVars => [CaptureNext]_captureVars
  BY DEF RecordsNext, recordsVars
<1>4. [RecordsNext]_recordsVars => [HookNext]_hookVars
  BY DEF RecordsNext, recordsVars
<1>5. [RecordsNext]_recordsVars => [AgyNext]_agyVars
  BY DEF RecordsNext, recordsVars
<1> QED
  BY <1>1, <1>2, <1>3, <1>4, <1>5, PTL DEF RecordsSpec, Spec, CaptureSpec, HookSpec, AgySpec

\* However the steps of the four parts interleave, every variable of every
\* one keeps its type (services/observe.py, capture.py, hook_session.py and
\* antigravity_session.py).
THEOREM RecordsTyped == RecordsSpec => []TypesOK
<1>1. ObsInv /\ CaptureInv /\ HookInv /\ AgyInv => TypesOK
  BY DEF ObsInv, CaptureInv, HookInv, AgyInv, TypesOK
<1> QED
  BY <1>1, PartsApart, ObsInvInductive, CaptureInvInductive, HookInvInductive, AgyInvInductive, PTL
=============================================================================
