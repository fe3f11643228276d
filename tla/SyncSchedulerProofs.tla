------------------------ MODULE SyncSchedulerProofs ------------------------
(***************************************************************************)
(* Proofs about the background graph sync for every poll, debounce and     *)
(* minimum interval.  Which side of the poll the debounce falls on decides *)
(* everything: below it a request is served within a bound, above it a     *)
(* request that has stood for one poll is never served.                    *)
(***************************************************************************)
EXTENDS SyncScheduler, TLAPS

\* The values the steps assign lie in their ranges.
LEMMA Ranges ==
    /\ Off \in Off..Debounce /\ Off \in Off..MaxSync
    /\ Debounce \in Off..Debounce /\ MaxSync \in Off..MaxSync
    /\ 0 \in 0..Poll /\ Poll \in 0..Poll
    /\ 0 \in 0..MinInterval /\ 0 \in 0..AgeCap
  BY TimeAssumption DEF Off, AgeCap

\* Type correctness: deadlines stay in range, no sync outlives its server.
THEOREM TypeCorrect == Spec => []TypeOK
<1>. USE TimeAssumption, Ranges DEF Off
<1>1. Init => TypeOK
  BY DEF Init, TypeOK
<1>2. TypeOK /\ [Next]_vars => TypeOK'
  <2>. SUFFICES ASSUME TypeOK, [Next]_vars PROVE TypeOK'
    OBVIOUS
  <2>1. ASSUME NEW stale \in BOOLEAN, Start(stale) PROVE TypeOK'
    BY <2>1 DEF TypeOK, Start
  <2>2. CASE Down
    BY <2>2 DEF TypeOK, Down, CutShort
  <2>3. CASE Request
    BY <2>3 DEF TypeOK, Request
  <2>4. CASE SyncElsewhere
    BY <2>4 DEF TypeOK, SyncElsewhere
  <2>5. CASE PollWakes
    BY <2>5 DEF TypeOK, PollWakes
  <2>6. CASE Fire
    BY <2>6 DEF TypeOK, Fire
  <2>7. CASE SyncCompletes
    BY <2>7 DEF TypeOK, SyncCompletes
  <2>8. CASE SyncFails
    BY <2>8 DEF TypeOK, SyncFails, CutShort
  <2>9. CASE Tick
    BY <2>9 DEF TypeOK, Tick, AgeCap
  <2>10. CASE ImportElsewhere
    BY <2>10 DEF TypeOK, ImportElsewhere
  <2>11. CASE UNCHANGED vars
    BY <2>11 DEF TypeOK, vars
  <2>. QED
    BY <2>1, <2>2, <2>3, <2>4, <2>5, <2>6, <2>7, <2>8, <2>9, <2>10, <2>11 DEF Next
<1>. QED
  BY <1>1, <1>2, PTL DEF Spec

-----------------------------------------------------------------------------
(* A debounce below the poll.                                              *)

Waiting == up /\ flag /\ ~inProgress

\* Nobody waits without a request, and who waits ages no faster than the
\* last import.
AgeInv ==
    /\ ~Waiting => age = 0
    /\ age <= since \/ since = MinInterval

\* An armed timer was armed when the thread last looked, or by the start.
PhaseInv ==
    timer # Off => up /\ (\/ poll = timer + Poll - Debounce
                          \/ poll = 0 /\ timer = Debounce)

NextFire == IF timer # Off THEN timer ELSE poll + Debounce

\* The next firing comes in time, or the minimum interval explains why not.
LatencyInv ==
    Waiting => \/ age + NextFire <= Poll + Debounce
               \/ age + NextFire < Poll + MinInterval

Inv == TypeOK /\ AgeInv /\ PhaseInv /\ LatencyInv

\* A tick adds at most one to the age and takes one from the wait.
LEMMA OneTick ==
    ASSUME NEW a \in Nat, NEW b \in Nat, b <= a + 1, NEW w \in Nat,
           a + w <= Poll + Debounce \/ a + w < Poll + MinInterval
    PROVE  b + (w - 1) <= Poll + Debounce \/ b + (w - 1) < Poll + MinInterval
  BY TimeAssumption

\* Every step keeps the timer in phase with the poll and the next firing near.
LEMMA InvStep ==
    ASSUME Debounce < Poll, Inv, [Next]_vars, TypeOK'
    PROVE  Inv'
<1>. USE TimeAssumption DEF Off, AgeCap, Inv, TypeOK, AgeInv, PhaseInv,
                            LatencyInv, NextFire, Waiting
<1>1. ASSUME NEW stale \in BOOLEAN, Start(stale) PROVE Inv'
  BY <1>1 DEF Start
<1>2. CASE Down
  BY <1>2 DEF Down, CutShort
<1>3. CASE Request
  BY <1>3 DEF Request
<1>4. CASE SyncElsewhere
  BY <1>4 DEF SyncElsewhere
<1>5. CASE PollWakes
  BY <1>5 DEF PollWakes
<1>6. CASE Fire
  <2>1. CASE ~inProgress /\ since >= MinInterval
    BY <1>6, <2>1 DEF Fire
  <2>2. CASE ~(~inProgress /\ since >= MinInterval)
    <3>1. poll = Poll - Debounce /\ timer' = Off /\ poll' = poll /\ age' = age
      BY <1>6, <2>2 DEF Fire
    <3>2. AgeInv' /\ PhaseInv'
      BY <1>6, <2>2, <3>1 DEF Fire
    <3>3. LatencyInv'
      BY <1>6, <2>2, <3>1 DEF Fire
    <3>. QED
      BY <3>2, <3>3
  <2>. QED
    BY <2>1, <2>2
<1>7. CASE SyncCompletes
  BY <1>7 DEF SyncCompletes
<1>8. CASE SyncFails
  BY <1>8 DEF SyncFails, CutShort
<1>9. CASE Tick
  <2>1. AgeInv'
    BY <1>9 DEF Tick
  <2>2. ASSUME timer' # Off PROVE PhaseInv'
    <3>1. timer > 0 /\ timer' = timer - 1
      BY <1>9, <2>2 DEF Tick
    <3>2. CASE up
      <4>1. poll > 0 /\ poll' = poll - 1 /\ up'
        BY <1>9, <3>2 DEF Tick
      <4>. QED
        BY <3>1, <4>1
    <3>3. CASE ~up
      BY <3>1, <3>3
    <3>. QED
      BY <3>2, <3>3
  <2>3. ASSUME Waiting' PROVE LatencyInv'
    <3>1. Waiting /\ poll > 0 /\ timer # 0 /\ poll' = poll - 1 /\ age' <= age + 1
      BY <1>9, <2>3 DEF Tick
    <3>2. NextFire' = NextFire - 1 /\ NextFire \in Nat /\ age \in Nat /\ age' \in Nat
      BY <1>9, <3>1 DEF Tick
    <3>3. \/ age' + NextFire' <= Poll + Debounce
          \/ age' + NextFire' < Poll + MinInterval
      BY ONLY <3>1, <3>2, OneTick, TimeAssumption, LatencyInv DEF LatencyInv
    <3>. QED
      BY <3>3
  <2>. QED
    BY <2>1, <2>2, <2>3
<1>10. CASE ImportElsewhere
  BY <1>10 DEF ImportElsewhere
<1>11. CASE UNCHANGED vars
  BY <1>11 DEF vars
<1>. QED
  BY <1>1, <1>2, <1>3, <1>4, <1>5, <1>6, <1>7, <1>8, <1>9, <1>10, <1>11 DEF Next

\* A request is not kept waiting, provided the debounce is below the poll (for
\* the shipped values Starvation holds instead): a sync starts within a poll and
\* the longer of debounce and minimum interval from the request, or from the
\* last import that left the request standing.
THEOREM PromptService ==
    ASSUME Debounce < Poll
    PROVE  Spec => []ServedInTime
<1>1. ASSUME Init PROVE Inv
  <2>1. TypeOK
    BY <1>1, TimeAssumption, Ranges DEF Init, TypeOK, Off
  <2>2. AgeInv /\ PhaseInv /\ LatencyInv
    BY <1>1, TimeAssumption DEF Init, AgeInv, PhaseInv, LatencyInv, Waiting
  <2>. QED
    BY <2>1, <2>2 DEF Inv
<1>2. Inv => ServedInTime
  BY TimeAssumption DEF Inv, TypeOK, AgeInv, LatencyInv, NextFire, Waiting,
                        ServedInTime, Off, AgeCap
<1>3. TypeOK' /\ Inv /\ [Next]_vars => Inv'
  BY InvStep
<1>4. Spec => []TypeOK
  BY TypeCorrect
<1>. QED
  BY <1>1, <1>2, <1>3, <1>4, PTL DEF Spec

-----------------------------------------------------------------------------
(* A debounce above the poll, as shipped.                                  *)

\* Since the flag was raised the thread has not looked, or it has armed the
\* timer, which has been running since.
RearmedInv == age <= Poll - poll \/ timer = Debounce - Poll + poll

\* Every step that does not serve the request leaves the timer re-armed.
LEMMA RearmedStep ==
    ASSUME Debounce > Poll, TypeOK, AgeInv, RearmedInv, [Next]_vars
    PROVE  AgeInv' /\ RearmedInv'
<1>. USE TimeAssumption DEF Off, AgeCap, TypeOK, AgeInv, RearmedInv, Waiting
<1>1. ASSUME NEW stale \in BOOLEAN, Start(stale) PROVE AgeInv' /\ RearmedInv'
  BY <1>1 DEF Start
<1>2. CASE Down
  BY <1>2 DEF Down, CutShort
<1>3. CASE Request
  BY <1>3 DEF Request
<1>4. CASE SyncElsewhere
  BY <1>4 DEF SyncElsewhere
<1>5. CASE PollWakes
  BY <1>5 DEF PollWakes
<1>6. CASE Fire
  BY <1>6 DEF Fire
<1>7. CASE SyncCompletes
  BY <1>7 DEF SyncCompletes
<1>8. CASE SyncFails
  BY <1>8 DEF SyncFails, CutShort
<1>9. CASE Tick
  BY <1>9 DEF Tick
<1>10. CASE ImportElsewhere
  BY <1>10 DEF ImportElsewhere
<1>11. CASE UNCHANGED vars
  BY <1>11 DEF vars
<1>. QED
  BY <1>1, <1>2, <1>3, <1>4, <1>5, <1>6, <1>7, <1>8, <1>9, <1>10, <1>11 DEF Next

\* No step of the server begins a sync for a request that has stood for more
\* than one poll.
NoLateStart == [][~inProgress /\ inProgress' => age <= Poll]_vars

\* The shipped values starve the request: if the debounce is above the poll,
\* however long the server runs, a request older than a poll starts no sync.
THEOREM Starvation ==
    ASSUME Debounce > Poll
    PROVE  Spec => NoLateStart
<1>. DEFINE J == TypeOK /\ AgeInv /\ RearmedInv
<1>1. Init => AgeInv /\ RearmedInv
  BY TimeAssumption DEF Init, AgeInv, RearmedInv, Waiting
<1>2. J /\ [Next]_vars => AgeInv' /\ RearmedInv'
  BY RearmedStep
<1>3. J /\ [Next]_vars => [~inProgress /\ inProgress' => age <= Poll]_vars
  <2>. SUFFICES ASSUME J, Next, ~inProgress, inProgress' PROVE age <= Poll
    BY DEF vars
  <2>1. CASE Fire
    BY <2>1, TimeAssumption DEF Fire, TypeOK, RearmedInv, Off
  <2>2. CASE ~Fire
    BY <2>2 DEF Next, Start, Down, Request, SyncElsewhere, ImportElsewhere, PollWakes,
                SyncCompletes, SyncFails, Tick, TypeOK
  <2>. QED
    BY <2>1, <2>2
<1>4. Spec => []TypeOK
  BY TypeCorrect
<1>. QED
  BY <1>1, <1>2, <1>3, <1>4, PTL DEF Spec, NoLateStart
=============================================================================
