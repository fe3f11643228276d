--------------------------- MODULE LearningProofs ---------------------------
(***************************************************************************)
(* What is learnt from the use of memories, for any neurons, sessions,     *)
(* processes, weights and periods, and the slots of a pack.                *)
(*                                                                         *)
(* A recall credits at most once.  Of each neuron, the credits given and   *)
(* the episodes that may still give one are together no more than the      *)
(* episodes opened with it: opening one adds at most one of the latter,    *)
(* and a claim turns each of them into a credit and closes it.             *)
(*                                                                         *)
(* An edge that a decay overtakes is halved for the periods since its      *)
(* last checkpoint and not more: LearnInv bounds what any process holds of *)
(* an edge by what idle time alone would have left of it, and a            *)
(* procedure's evidence by the credits of its pair.                        *)
(*                                                                         *)
(* The cuts of a pack are proved as functions of any lines: what a loop    *)
(* over the lines builds is a recursive function, which exists by          *)
(* Recursion and of which UpTo proves an invariant, line by line.          *)
(***************************************************************************)
EXTENDS Learning, Packing, FiniteSetTheorems, FunctionTheorems, WellFoundedInduction,
        SequenceTheorems, TLAPS

\* The sessions whose next tool call would credit n.
Pending(n) == {s \in Sessions : n \in Consumed(s)}

EpisodeInv ==
    /\ episode \in [Sessions -> [ids : SUBSET Nodes, open : BOOLEAN, at : Int]]
    /\ used \in [Nodes -> Nat] /\ marked \in [Nodes -> Nat] /\ period \in Nat
    /\ EpisodeOnce

\* Fewer sessions are pending, or one more.
LEMMA PendingFinite ==
    ASSUME NEW S, IsFiniteSet(S)
    PROVE  /\ Cardinality(S) \in Nat
           /\ \A T \in SUBSET S : IsFiniteSet(T) /\ Cardinality(T) <= Cardinality(S)
                                  /\ Cardinality(T) \in Nat
           /\ \A x, T : T \subseteq S \cup {x} =>
                 IsFiniteSet(T) /\ Cardinality(T) <= Cardinality(S) + 1
           /\ \A x \in S : \A T : T \subseteq S \ {x} =>
                 IsFiniteSet(T) /\ Cardinality(T) <= Cardinality(S) - 1
<1>1. Cardinality(S) \in Nat /\ \A T \in SUBSET S : IsFiniteSet(T)
                             /\ Cardinality(T) <= Cardinality(S) /\ Cardinality(T) \in Nat
  BY FS_CardinalityType, FS_Subset
<1>2. ASSUME NEW x, NEW T, T \subseteq S \cup {x}
      PROVE  IsFiniteSet(T) /\ Cardinality(T) <= Cardinality(S) + 1
  <2>1. IsFiniteSet(S \cup {x}) /\ Cardinality(S \cup {x}) <= Cardinality(S) + 1
    BY <1>1, FS_AddElement
  <2>2. IsFiniteSet(T) /\ Cardinality(T) <= Cardinality(S \cup {x})
    BY <1>2, <2>1, FS_Subset
  <2>3. Cardinality(T) \in Nat /\ Cardinality(S \cup {x}) \in Nat
    BY <2>1, <2>2, FS_CardinalityType
  <2> QED
    BY <1>1, <2>1, <2>2, <2>3
<1>3. ASSUME NEW x \in S, NEW T, T \subseteq S \ {x}
      PROVE  IsFiniteSet(T) /\ Cardinality(T) <= Cardinality(S) - 1
  <2>1. IsFiniteSet(S \ {x}) /\ Cardinality(S \ {x}) = Cardinality(S) - 1
    BY FS_RemoveElement
  <2> QED
    BY <1>3, <2>1, FS_Subset
<1> QED
  BY <1>1, <1>2, <1>3

LEMMA OnceFromPending ==
    /\ EpisodeOnce <=> \A n \in Nodes : used[n] + Cardinality(Pending(n)) <= marked[n]
    /\ \A n \in Nodes : IsFiniteSet(Pending(n)) /\ Cardinality(Pending(n)) \in Nat
<1>1. \A n \in Nodes : Pending(n) \in SUBSET Sessions /\ IsFiniteSet(Sessions)
  BY LearningAssumption DEF Pending
<1> QED
  BY <1>1, PendingFinite DEF EpisodeOnce, Pending

\* A step after which fewer sessions are pending, and no credit was given.
LEMMA FewerPending ==
    ASSUME EpisodeInv, UNCHANGED <<used, marked>>,
           \A n \in Nodes : Pending(n)' \subseteq Pending(n)
    PROVE  EpisodeOnce'
<1>1. ASSUME NEW n \in Nodes
      PROVE  used'[n] + Cardinality(Pending(n)') <= marked'[n]
  <2>1. /\ Cardinality(Pending(n)') <= Cardinality(Pending(n))
        /\ Cardinality(Pending(n)') \in Nat /\ Cardinality(Pending(n)) \in Nat
    BY OnceFromPending, PendingFinite
  <2>2. used[n] + Cardinality(Pending(n)) <= marked[n] /\ used[n] \in Nat /\ marked[n] \in Nat
    BY OnceFromPending DEF EpisodeInv
  <2> QED
    BY <2>1, <2>2
<1> QED
  BY <1>1 DEF EpisodeOnce, Pending

\* A new episode may take the place of one that was pending.
LEMMA PersistStep ==
    ASSUME EpisodeInv, NEW s \in Sessions, NEW ids \in SUBSET Nodes,
           PersistNeuronHits(s, ids)
    PROVE  EpisodeInv'
<1>1. /\ episode' = [episode EXCEPT ![s] = [ids |-> ids, open |-> TRUE, at |-> period]]
      /\ marked' = [n \in Nodes |-> marked[n] + (IF n \in ids THEN 1 ELSE 0)]
      /\ used' = used /\ period' = period
  BY DEF PersistNeuronHits
<1>2. /\ episode' \in [Sessions -> [ids : SUBSET Nodes, open : BOOLEAN, at : Int]]
      /\ marked' \in [Nodes -> Nat]
  BY <1>1 DEF EpisodeInv
<1>3. ASSUME NEW n \in Nodes
      PROVE  used'[n] + Cardinality(Pending(n)') <= marked'[n]
  <2>1. used[n] + Cardinality(Pending(n)) <= marked[n] /\ used[n] \in Nat /\ marked[n] \in Nat
        /\ IsFiniteSet(Pending(n)) /\ Cardinality(Pending(n)) \in Nat
    BY OnceFromPending DEF EpisodeInv
  <2>2. \A q \in Sessions : q # s => Consumed(q)' = Consumed(q)
    BY <1>1 DEF Consumed, EpisodeInv
  <2>3. Consumed(s)' = ids
    BY <1>1 DEF Consumed, EpisodeInv
  <2>4. CASE n \in ids
    <3>1. Pending(n)' \subseteq Pending(n) \cup {s}
      BY <2>2 DEF Pending
    <3>2. IsFiniteSet(Pending(n)') /\ Cardinality(Pending(n)') <= Cardinality(Pending(n)) + 1
      BY <2>1, <3>1, PendingFinite
    <3>3. marked'[n] = marked[n] + 1 /\ Cardinality(Pending(n)') \in Nat
      BY <1>1, <2>4, <3>2, FS_CardinalityType
    <3> QED
      BY <1>1, <2>1, <3>2, <3>3
  <2>5. CASE n \notin ids
    <3>1. Pending(n)' \subseteq Pending(n)
      BY <2>2, <2>3, <2>5 DEF Pending
    <3>2. Cardinality(Pending(n)') <= Cardinality(Pending(n)) /\ Cardinality(Pending(n)') \in Nat
      BY <2>1, <3>1, PendingFinite
    <3>3. marked'[n] = marked[n]
      BY <1>1, <2>1, <2>5
    <3> QED
      BY <1>1, <2>1, <3>2, <3>3
  <2> QED
    BY <2>4, <2>5
<1> QED
  BY <1>1, <1>2, <1>3 DEF EpisodeInv, EpisodeOnce, Pending

\* A claim turns what is pending in its session into credits.
LEMMA PostToolStep ==
    ASSUME EpisodeInv, NEW s \in Sessions, NEW c \in Chains, ProcessPostTool(s, c)
    PROVE  EpisodeInv'
<1>1. /\ episode' = [episode EXCEPT ![s].open = FALSE]
      /\ used' = [n \in Nodes |-> used[n] + (IF n \in Consumed(s) THEN 1 ELSE 0)]
      /\ marked' = marked /\ period' = period
  BY DEF ProcessPostTool
<1>2. /\ episode' \in [Sessions -> [ids : SUBSET Nodes, open : BOOLEAN, at : Int]]
      /\ used' \in [Nodes -> Nat]
  <2>1. episode[s] \in [ids : SUBSET Nodes, open : BOOLEAN, at : Int]
    BY DEF EpisodeInv
  <2>2. [episode[s] EXCEPT !.open = FALSE] \in [ids : SUBSET Nodes, open : BOOLEAN, at : Int]
    BY <2>1
  <2>3. episode' = [episode EXCEPT ![s] = [episode[s] EXCEPT !.open = FALSE]]
    BY <1>1
  <2>4. episode' \in [Sessions -> [ids : SUBSET Nodes, open : BOOLEAN, at : Int]]
    BY <2>2, <2>3 DEF EpisodeInv
  <2>5. used' \in [Nodes -> Nat]
    BY <1>1 DEF EpisodeInv
  <2> QED
    BY <2>4, <2>5
<1>3. ASSUME NEW n \in Nodes
      PROVE  used'[n] + Cardinality(Pending(n)') <= marked'[n]
  <2>1. used[n] + Cardinality(Pending(n)) <= marked[n] /\ used[n] \in Nat /\ marked[n] \in Nat
        /\ IsFiniteSet(Pending(n)) /\ Cardinality(Pending(n)) \in Nat
    BY OnceFromPending DEF EpisodeInv
  <2>2. \A q \in Sessions : q # s => Consumed(q)' = Consumed(q)
    BY <1>1 DEF Consumed, EpisodeInv
  <2>3. Consumed(s)' = {}
    <3>1. episode'[s].open = FALSE
      BY <1>1 DEF EpisodeInv
    <3> QED
      BY <3>1 DEF Consumed
  <2>4. Pending(n)' \subseteq Pending(n) \ {s}
    BY <2>2, <2>3 DEF Pending
  <2>5. CASE n \in Consumed(s)
    <3>1. s \in Pending(n)
      BY <2>5 DEF Pending
    <3>2. IsFiniteSet(Pending(n)') /\ Cardinality(Pending(n)') <= Cardinality(Pending(n)) - 1
      BY <2>1, <2>4, <3>1, PendingFinite
    <3>3. used'[n] = used[n] + 1 /\ Cardinality(Pending(n)') \in Nat
      BY <1>1, <2>5, <3>2, FS_CardinalityType
    <3> QED
      BY <1>1, <2>1, <3>2, <3>3
  <2>6. CASE n \notin Consumed(s)
    <3>1. Cardinality(Pending(n)') <= Cardinality(Pending(n)) /\ Cardinality(Pending(n)') \in Nat
      <4>1. Pending(n)' \in SUBSET Pending(n)
        BY <2>4
      <4> QED
        BY <2>1, <4>1, PendingFinite
    <3>2. used'[n] = used[n]
      BY <1>1, <2>1, <2>6
    <3> QED
      BY <1>1, <2>1, <3>1, <3>2
  <2> QED
    BY <2>5, <2>6
<1> QED
  BY <1>1, <1>2, <1>3 DEF EpisodeInv, EpisodeOnce, Pending

\* Where episodes are only dropped, fewer sessions are pending.
LEMMA DropStep ==
    ASSUME EpisodeInv, UNCHANGED <<used, marked>>, period' \in Nat,
           episode' \in [Sessions -> [ids : SUBSET Nodes, open : BOOLEAN, at : Int]],
           \A s \in Sessions : episode'[s] \in {episode[s], NoEpisode}
    PROVE  EpisodeInv'
<1>1. \A s \in Sessions : Consumed(s)' \subseteq Consumed(s)
  BY DEF Consumed, NoEpisode
<1>2. \A n \in Nodes : Pending(n)' \subseteq Pending(n)
  BY <1>1 DEF Pending
<1> QED
  BY <1>2, FewerPending DEF EpisodeInv

LEMMA EpisodeInvInductive == Spec => []EpisodeInv
<1>1. Init => EpisodeInv
  <2> SUFFICES ASSUME Init PROVE EpisodeInv
    OBVIOUS
  <2>1. /\ episode \in [Sessions -> [ids : SUBSET Nodes, open : BOOLEAN, at : Int]]
        /\ used \in [Nodes -> Nat] /\ marked \in [Nodes -> Nat] /\ period \in Nat
    BY DEF Init, NoEpisode
  <2>2. \A n \in Nodes : used[n] = 0 /\ marked[n] = 0 /\ Pending(n) = {}
    BY DEF Init, Pending, Consumed, NoEpisode
  <2>3. \A n \in Nodes : used[n] + Cardinality(Pending(n)) <= marked[n]
    BY <2>2, FS_EmptySet
  <2> QED
    BY <2>1, <2>3 DEF EpisodeInv, EpisodeOnce, Pending
<1>2. EpisodeInv /\ [Next]_vars => EpisodeInv'
  <2> SUFFICES ASSUME EpisodeInv, [Next]_vars PROVE EpisodeInv'
    OBVIOUS
  <2>1. ASSUME NEW s \in Sessions, NEW ids \in SUBSET Nodes, PersistNeuronHits(s, ids)
        PROVE EpisodeInv'
    BY <2>1, PersistStep
  <2>2. ASSUME NEW s \in Sessions, NEW c \in Chains, ProcessPostTool(s, c) PROVE EpisodeInv'
    BY <2>2, PostToolStep
  <2>3. ASSUME NEW s \in Sessions, SessionEnd(s) PROVE EpisodeInv'
    BY <2>3, DropStep DEF SessionEnd, NoEpisode, EpisodeInv
  <2>4. ASSUME NEW p \in Procs, HygieneWrite(p) PROVE EpisodeInv'
    BY <2>4, DropStep DEF HygieneWrite, NoEpisode, EpisodeInv
  <2>5. CASE UNCHANGED <<episode, used, marked>> /\ period' \in {period, period + 1}
    BY <2>5, DropStep DEF EpisodeInv
  <2>6. ASSUME NEW s \in Sessions, NEW ids \in SUBSET Nodes,
               RecordNeuronActivity(s, ids) \/ Flush(s)
        PROVE EpisodeInv'
    BY <2>5, <2>6 DEF RecordNeuronActivity, Flush
  <2>7. ASSUME NEW p \in Procs, HygieneRead(p) \/ HygieneDiscard(p) PROVE EpisodeInv'
    BY <2>5, <2>7 DEF HygieneRead, HygieneDiscard
  <2>8. CASE Tick \/ UNCHANGED vars
    BY <2>5, <2>8 DEF Tick, vars
  <2> QED
    BY <2>1, <2>2, <2>3, <2>4, <2>6, <2>7, <2>8 DEF Next
<1> QED
  BY <1>1, <1>2, PTL DEF Spec

\* A recall credits its neurons at most once (services/learning.py:188), for
\* any neurons, sessions and processes and however episodes are replaced,
\* ended and purged.
THEOREM CreditsAreEarned == Spec => []EpisodeOnce
<1>1. EpisodeInv => EpisodeOnce
  BY DEF EpisodeInv
<1> QED
  BY <1>1, EpisodeInvInductive, PTL

-----------------------------------------------------------------------------
(* Halving                                                                 *)

\* A power of two counts the subsets of an interval: it is positive, and the
\* subsets of two disjoint intervals are counted by the product.
LEMMA PowerCounts ==
    ASSUME NEW a \in Int, NEW n \in Nat
    PROVE  /\ IsFiniteSet(SUBSET (a + 1 .. a + n))
           /\ Cardinality(SUBSET (a + 1 .. a + n)) = 2 ^ n
<1>1. IsFiniteSet(a + 1 .. a + n) /\ Cardinality(a + 1 .. a + n) = n
  BY FS_Interval
<1> QED
  BY <1>1, FS_SUBSET

LEMMA PowerPositive == \A n \in Nat : 2 ^ n \in Nat \ {0}
<1> SUFFICES ASSUME NEW n \in Nat PROVE 2 ^ n \in Nat \ {0}
  OBVIOUS
<1>1. PICK S : S = SUBSET (0 + 1 .. 0 + n)
  OBVIOUS
<1>2. IsFiniteSet(S) /\ Cardinality(S) = 2 ^ n
  <2>1. 0 \in Int
    OBVIOUS
  <2> QED
    BY <1>1, <2>1, PowerCounts, Zenon
<1>3. {} \in S
  BY <1>1
<1>4. Cardinality(S) \in Nat /\ (Cardinality(S) = 0 <=> S = {})
  BY <1>2, FS_CardinalityType, FS_EmptySet
<1> QED
  BY <1>2, <1>3, <1>4

LEMMA PowerSum == ASSUME NEW a \in Nat, NEW b \in Nat PROVE 2 ^ (a + b) = 2 ^ a * 2 ^ b
<1>1. PICK A : A = 0 + 1 .. 0 + a
  OBVIOUS
<1>2. PICK B : B = a + 1 .. a + b
  OBVIOUS
<1>3. PICK C : C = 0 + 1 .. 0 + (a + b)
  OBVIOUS
<1>4. A \cap B = {} /\ A \cup B = C
  BY <1>1, <1>2, <1>3
<1>5. /\ IsFiniteSet(SUBSET A) /\ Cardinality(SUBSET A) = 2 ^ a
      /\ IsFiniteSet(SUBSET B) /\ Cardinality(SUBSET B) = 2 ^ b
      /\ IsFiniteSet(SUBSET C) /\ Cardinality(SUBSET C) = 2 ^ (a + b)
  <2>1. 0 \in Int /\ a \in Int /\ a + b \in Nat
    OBVIOUS
  <2>2. /\ IsFiniteSet(SUBSET A) /\ Cardinality(SUBSET A) = 2 ^ a
        /\ IsFiniteSet(SUBSET B) /\ Cardinality(SUBSET B) = 2 ^ b
    BY <1>1, <1>2, <2>1, PowerCounts, Zenon
  <2>3. IsFiniteSet(SUBSET C) /\ Cardinality(SUBSET C) = 2 ^ (a + b)
    BY <1>3, <2>1, PowerCounts, Zenon
  <2> QED
    BY <2>2, <2>3
<1>6. PICK U, V, W : U = SUBSET A /\ V = SUBSET B /\ W = SUBSET C
  OBVIOUS
<1>7. PICK f : f = [x \in W |-> <<x \cap A, x \cap B>>]
  OBVIOUS
<1>8. f \in Bijection(W, U \X V)
  <2>1. \A x \in W : x \cap A \in U /\ x \cap B \in V
    BY <1>6
  <2>2. f \in [W -> U \X V]
    BY <1>7, <2>1
  <2>3. ASSUME NEW x \in W, NEW y \in W, f[x] = f[y] PROVE x = y
    <3>1. x \cap A = y \cap A /\ x \cap B = y \cap B
      BY <1>7, <2>3
    <3>2. x \subseteq A \cup B /\ y \subseteq A \cup B
      BY <1>4, <1>6
    <3> QED
      BY <3>1, <3>2
  <2>4. ASSUME NEW t \in U \X V PROVE \E x \in W : f[x] = t
    <3>1. PICK u \in U, v \in V : t = <<u, v>>
      OBVIOUS
    <3>2. u \cup v \in W /\ (u \cup v) \cap A = u /\ (u \cup v) \cap B = v
      BY <1>4, <1>6
    <3> QED
      BY <1>7, <3>1, <3>2
  <2> QED
    BY <2>2, <2>3, <2>4, Fun_IsBij
<1>9. IsFiniteSet(U) /\ IsFiniteSet(V) /\ IsFiniteSet(W)
  BY <1>5, <1>6
<1>10. Cardinality(U \X V) = Cardinality(W)
  BY <1>8, <1>9, FS_Bijection DEF ExistsBijection
<1>11. Cardinality(U \X V) = Cardinality(U) * Cardinality(V)
  BY <1>9, FS_Product
<1> QED
  BY <1>5, <1>6, <1>10, <1>11

LEMMA TimesPositive == ASSUME NEW b \in Nat \ {0}, NEW c \in Nat \ {0} PROVE b * c \in Nat \ {0}
OBVIOUS

LEMMA DivIff ==
    ASSUME NEW k \in Nat, NEW a \in Nat, NEW b \in Nat \ {0}
    PROVE  /\ a \div b \in Nat /\ a \div b <= a
           /\ k <= a \div b <=> k * b <= a
<1>1. PICK q \in Nat, r \in Nat : q = a \div b /\ r = a % b /\ r < b /\ a = b * q + r
  OBVIOUS
<1>2. q <= b * q
  OBVIOUS
<1>3. ASSUME k <= q PROVE k * b <= a
  <2>1. k * b <= q * b
    BY <1>3
  <2> QED
    BY <1>1, <2>1
<1>4. ASSUME q < k PROVE ~(k * b <= a)
  <2>1. (q + 1) * b <= k * b
    BY <1>4
  <2>2. (q + 1) * b = q * b + b
    OBVIOUS
  <2> QED
    BY <1>1, <2>1, <2>2
<1> QED
  BY <1>1, <1>2, <1>3, <1>4

LEMMA DivMore ==
    ASSUME NEW a \in Nat, NEW c \in Nat, a <= c, NEW b \in Nat \ {0}
    PROVE  a \div b <= c \div b
<1>1. a \div b \in Nat /\ (a \div b) * b <= a
  <2>1. a \div b \in Nat
    BY DivIff
  <2> QED
    BY <2>1, DivIff
<1> QED
  BY <1>1, DivIff

\* Dividing twice is dividing by the product.
LEMMA DivTwice ==
    ASSUME NEW a \in Nat, NEW b \in Nat \ {0}, NEW c \in Nat \ {0}
    PROVE  a \div (b * c) <= (a \div b) \div c /\ a \div (b * c) <= a \div b
<1>1. b * c \in Nat \ {0}
  BY TimesPositive
<1>2. PICK k \in Nat : k = a \div (b * c)
  BY <1>1, DivIff
<1>3. k * (b * c) <= a
  BY <1>1, <1>2, DivIff
<1>4. k * (b * c) = (k * c) * b
  OBVIOUS
<1>5. k * c \in Nat /\ a \div b \in Nat
  BY DivIff
<1>6. k * c <= a \div b
  BY <1>3, <1>4, <1>5, DivIff
<1>7. k <= (a \div b) \div c
  BY <1>5, <1>6, DivIff
<1>8. k <= k * c
  OBVIOUS
<1> QED
  BY <1>2, <1>5, <1>6, <1>7, <1>8

\* More idle periods leave less; and what n of them leave, less m more, is at
\* least what n + m leave.
LEMMA HalvedMore ==
    ASSUME NEW x \in Nat, NEW n \in Nat, NEW m \in Nat
    PROVE  /\ x \div 2 ^ (n + m) <= (x \div 2 ^ n) \div 2 ^ m
           /\ x \div 2 ^ (n + m) <= x \div 2 ^ n
           /\ x \div 2 ^ n \in Nat /\ x \div 2 ^ n <= x
<1>1. 2 ^ n \in Nat \ {0} /\ 2 ^ m \in Nat \ {0} /\ 2 ^ (n + m) = 2 ^ n * 2 ^ m
  BY PowerPositive, PowerSum
<1>2. x \div 2 ^ n \in Nat /\ x \div 2 ^ n <= x
  BY <1>1, DivIff
<1> QED
  BY <1>1, <1>2, DivTwice

-----------------------------------------------------------------------------
(* Edges, and what hygiene has read of them.  An edge dates from a claim,  *)
(* weighs no more than the claims, and keeps of what the first was worth   *)
(* what is left at its checkpoint.  The same holds of a row that was read  *)
(* earlier, and while the edge is the one that was read, they date from    *)
(* the same period: so whichever of them a decay starts from, nothing is   *)
(* halved twice.                                                           *)

\* An edge of a pair with n claims, at a time.
Sound(row, n, at) ==
    row # NoEdge =>
        /\ row.id \in 1 .. n /\ row.created <= row.base /\ row.base <= at
        /\ row.weight <= n * Delta
        /\ Start \div 2 ^ (row.base - row.created) <= row.weight

SameEdge(row, e) == row.id = e.id => row.created = e.created

EdgesInv == \A p \in Pairs : Sound(edge[p], claimed[p], period)

RowsInv ==
    \A q \in Procs, p \in Pairs :
        /\ Sound(sweep[q].rows[p], claimed[p], sweep[q].at)
        /\ SameEdge(sweep[q].rows[p], edge[p])

LearnInv == TypeOK /\ EdgesInv /\ RowsInv /\ ProcedureEvidence

\* From one state of an edge to the next, no more is lost than may be.
HalvedOnce(e, f) ==
    e # NoEdge =>
        IF f = NoEdge THEN Start \div 2 ^ (period - e.created) < MinWeight
        ELSE f.weight >= Start \div 2 ^ (period - e.created)

LEMMA Constants ==
    /\ Delta \in Nat \ {0} /\ MaxWeight \in Nat \ {0} /\ Threshold \in Nat \ {0}
    /\ MaxPeriods \in Nat /\ MaxMarks \in Nat /\ MinWeight \in Nat
    /\ Start \in Nat \ {0} /\ Start <= Delta /\ Start <= MaxWeight
    /\ Least \in Nat /\ Least <= Start /\ Least <= MinWeight
BY LearningAssumption DEF Start, Least

LEMMA EdgeFields ==
    ASSUME TypeOK, NEW e \in Edges
    PROVE  /\ period \in Nat
           /\ e.id \in Nat /\ e.weight \in Nat /\ e.weight <= MaxWeight
           /\ e.created \in 0 .. period /\ e.updated \in 0 .. period /\ e.base \in 0 .. period
           /\ e # NoEdge => e \in [id : Nat, weight : Least .. MaxWeight, created : 0 .. period,
                                   updated : 0 .. period, base : 0 .. period]
           /\ NoEdge.id = 0
<1>1. period \in Nat
  BY DEF TypeOK
<1>2. CASE e = NoEdge
  BY <1>1, <1>2, Constants DEF NoEdge
<1>3. CASE e # NoEdge
  <2>1. e \in [id : Nat, weight : Least .. MaxWeight, created : 0 .. period,
               updated : 0 .. period, base : 0 .. period]
    BY <1>3 DEF Edges
  <2> QED
    BY <1>1, <2>1, Constants DEF NoEdge
<1> QED
  BY <1>2, <1>3

\* Claims add up.
LEMMA ClaimsAdd ==
    ASSUME NEW n \in Nat, NEW m \in Nat, n <= m
    PROVE  /\ n * Delta \in Nat /\ m * Delta \in Nat /\ n * Delta <= m * Delta
           /\ (n + 1) * Delta = n * Delta + Delta
<1>1. Delta \in Nat
  BY Constants
<1> QED
  BY <1>1

LEMMA SoundLater ==
    ASSUME TypeOK, NEW row \in Edges, NEW n \in Nat, NEW m \in Nat, n <= m,
           NEW at \in Int, NEW b \in Int, at <= b, Sound(row, n, at)
    PROVE  Sound(row, m, b)
<1>1. n * Delta \in Nat /\ m * Delta \in Nat /\ n * Delta <= m * Delta
  BY ClaimsAdd
<1>2. row.id \in Nat /\ row.weight \in Nat /\ row.base \in Nat
  BY EdgeFields
<1> QED
  BY <1>1, <1>2 DEF Sound

\* An edge that is left alone, or grows.
LEMMA NotHalved ==
    ASSUME TypeOK, NEW e \in Edges, NEW n \in Nat, Sound(e, n, period),
           NEW f, f # NoEdge, f.weight \in Nat, e.weight <= f.weight
    PROVE  HalvedOnce(e, f)
<1> SUFFICES ASSUME e # NoEdge PROVE Start \div 2 ^ (period - e.created) <= f.weight
  BY EdgeFields DEF HalvedOnce
<1>1. /\ e.created \in Nat /\ e.base \in Nat /\ period \in Nat /\ e.weight \in Nat
      /\ e.created <= e.base /\ e.base <= period
      /\ Start \div 2 ^ (e.base - e.created) <= e.weight
  BY EdgeFields DEF Sound
<1>2. PICK k \in Nat, m \in Nat : k = e.base - e.created /\ m = period - e.base
  BY <1>1
<1>3. k + m = period - e.created
  BY <1>1, <1>2
<1>4. Start \div 2 ^ (k + m) <= Start \div 2 ^ k /\ Start \div 2 ^ k \in Nat
      /\ Start \div 2 ^ (k + m) \in Nat
  <2>1. Start \in Nat /\ k + m \in Nat
    BY Constants
  <2> QED
    BY <2>1, HalvedMore
<1> QED
  BY <1>1, <1>2, <1>3, <1>4

\* What a decay makes of an edge, from whichever look at it.
LEMMA DecayedSound ==
    ASSUME TypeOK, NEW p \in Pairs, NEW row \in Edges, NEW at \in Int, at <= period,
           Sound(edge[p], claimed[p], period), Sound(row, claimed[p], at),
           SameEdge(row, edge[p]), NEW f, f = Decayed(p, row, at)
    PROVE  /\ f \in Edges /\ Sound(f, claimed[p], period) /\ HalvedOnce(edge[p], f)
           /\ f = NoEdge \/ (f.id = edge[p].id /\ f.created = edge[p].created)
<1>1. edge[p] \in Edges /\ claimed[p] \in Nat
  BY DEF TypeOK
<1>2. PICK n : n = Periods(row, at)
  OBVIOUS
<1>3. CASE row = NoEdge \/ row.id # edge[p].id \/ n = 0
  <2>1. f = edge[p]
    BY <1>2, <1>3 DEF Decayed
  <2>2. HalvedOnce(edge[p], edge[p])
    <3>1. CASE edge[p] = NoEdge
      BY <3>1 DEF HalvedOnce
    <3>2. CASE edge[p] # NoEdge
      <4>1. edge[p].weight \in Nat
        BY <1>1, EdgeFields
      <4> QED
        BY <1>1, <3>2, <4>1, NotHalved
    <3> QED
      BY <3>1, <3>2
  <2> QED
    BY <1>1, <2>1, <2>2
<1>4. CASE row # NoEdge /\ row.id = edge[p].id /\ n # 0
  <2>1. n = at - row.base /\ at > row.base
    BY <1>2, <1>4 DEF Periods
  <2>2. /\ row.id \in 1 .. claimed[p] /\ row.created <= row.base
        /\ row.weight <= claimed[p] * Delta
        /\ Start \div 2 ^ (row.base - row.created) <= row.weight
        /\ row.created = edge[p].created
        /\ row.weight \in Nat /\ row.created \in Nat /\ row.base \in Nat
        /\ row.weight <= MaxWeight
    BY <1>4, EdgeFields DEF Sound, SameEdge
  <2>3. edge[p] # NoEdge
    BY <1>4, <2>2, EdgeFields
  <2>4. PICK k \in Nat, m \in Nat : k = row.base - row.created /\ m = period - at
    BY <2>2, EdgeFields
  <2>5. n \in Nat /\ k + n = at - row.created /\ (k + n) + m = period - row.created
        /\ k + n \in Nat /\ period \in Nat /\ Start \in Nat
    BY <2>1, <2>2, <2>4, EdgeFields, Constants
  <2>6. PICK w : w = row.weight \div 2 ^ n
    OBVIOUS
  <2>7. w \in Nat /\ w <= row.weight
    BY <2>2, <2>5, <2>6, HalvedMore
  <2>8. Start \div 2 ^ (k + n) <= w
    <3>1. Start \div 2 ^ (k + n) <= (Start \div 2 ^ k) \div 2 ^ n
      BY <2>5, HalvedMore
    <3>2. (Start \div 2 ^ k) \div 2 ^ n <= w
      <4>1. Start \div 2 ^ k \in Nat /\ Start \div 2 ^ k <= row.weight
        BY <2>2, <2>4, <2>5, HalvedMore
      <4>2. 2 ^ n \in Nat \ {0}
        BY <2>5, PowerPositive
      <4> QED
        BY <2>2, <2>6, <4>1, <4>2, DivMore
    <3>3. /\ Start \div 2 ^ (k + n) \in Nat /\ Start \div 2 ^ k \in Nat
      BY <2>5, HalvedMore
    <3>4. (Start \div 2 ^ k) \div 2 ^ n \in Nat
      BY <2>5, <3>3, HalvedMore
    <3> QED
      BY <2>7, <3>1, <3>2, <3>3, <3>4
  <2>9. Start \div 2 ^ (period - edge[p].created) <= w
    <3>1. Start \div 2 ^ ((k + n) + m) <= Start \div 2 ^ (k + n)
          /\ Start \div 2 ^ (k + n) \in Nat
      BY <2>5, HalvedMore
    <3>2. Start \div 2 ^ ((k + n) + m) \in Nat
      <4>1. (k + n) + m \in Nat
        BY <2>5
      <4> QED
        BY <2>5, <4>1, HalvedMore
    <3> QED
      BY <2>2, <2>5, <2>7, <2>8, <3>1, <3>2
  <2>10. Start \div 2 ^ (period - edge[p].created) \in Nat
    <3>1. period - edge[p].created \in Nat
      BY <2>2, <2>4, <2>5
    <3> QED
      BY <2>5, <3>1, HalvedMore
  <2>11. CASE w < MinWeight
    <3>1. f = NoEdge
      BY <1>2, <1>4, <2>6, <2>11 DEF Decayed
    <3>2. HalvedOnce(edge[p], f)
      BY <2>7, <2>9, <2>10, <2>11, <3>1, Constants DEF HalvedOnce
    <3> QED
      BY <3>1, <3>2 DEF Edges, Sound
  <2>12. CASE ~(w < MinWeight)
    <3>1. f = [edge[p] EXCEPT !.weight = w, !.base = row.base + n]
      BY <1>2, <1>4, <2>6, <2>12 DEF Decayed
    <3>2. PICK R : R = [id : Nat, weight : Least .. MaxWeight, created : 0 .. period,
                        updated : 0 .. period, base : 0 .. period]
      OBVIOUS
    <3>3. edge[p] \in R
      BY <1>1, <2>3, <3>2, EdgeFields
    <3>4. w \in Least .. MaxWeight
      BY <2>2, <2>7, <2>12, Constants
    <3>5. row.base + n = at /\ at \in 0 .. period
      BY <2>1, <2>2, <2>5
    <3>6. f \in R /\ f.weight = w /\ f.base = at /\ f.id = edge[p].id
          /\ f.created = edge[p].created
      BY <3>1, <3>2, <3>3, <3>4, <3>5
    <3>7. f \in Edges
      BY <3>2, <3>6 DEF Edges
    <3>8. f # NoEdge
      BY <1>4, <2>2, <3>6, EdgeFields
    <3>9. f.weight <= claimed[p] * Delta
      <4>1. claimed[p] * Delta \in Nat
        BY <1>1, ClaimsAdd
      <4> QED
        BY <2>2, <2>7, <3>6, <4>1
    <3>10. Sound(f, claimed[p], period)
      BY <1>4, <2>2, <2>5, <2>8, <3>5, <3>6, <3>9 DEF Sound
    <3>11. HalvedOnce(edge[p], f)
      BY <2>7, <2>9, <2>10, <3>6, <3>8 DEF HalvedOnce
    <3> QED
      BY <3>6, <3>7, <3>10, <3>11
  <2> QED
    BY <2>7, <2>11, <2>12
<1> QED
  BY <1>3, <1>4

\* What a claim makes of an edge.
LEMMA ReinforcedSound ==
    ASSUME TypeOK, NEW p \in Pairs, Sound(edge[p], claimed[p], period), NEW f, f = Reinforced(p)
    PROVE  /\ f \in Edges /\ Sound(f, claimed[p] + 1, period) /\ HalvedOnce(edge[p], f)
           /\ \/ f.id > claimed[p]
              \/ f.id = edge[p].id /\ f.created = edge[p].created
<1>1. edge[p] \in Edges /\ claimed[p] \in Nat /\ period \in Nat
  BY DEF TypeOK
<1>2. PICK R : R = [id : Nat, weight : Least .. MaxWeight, created : 0 .. period,
                    updated : 0 .. period, base : 0 .. period]
  OBVIOUS
<1>3. PICK n \in Nat : n = claimed[p]
  BY <1>1
<1>4. n * Delta \in Nat /\ (n + 1) * Delta = n * Delta + Delta
  BY ClaimsAdd
<1>5. CASE edge[p] = NoEdge
  <2>1. f = [id |-> n + 1, weight |-> Start, created |-> period, updated |-> period,
             base |-> period]
    BY <1>3, <1>5 DEF Reinforced
  <2>2. Start \in Least .. MaxWeight /\ period \in 0 .. period
    BY <1>1, Constants
  <2>3. f \in R
    BY <1>2, <2>1, <2>2
  <2>4. Start \div 2 ^ (period - period) <= Start
    <3>1. period - period = 0 /\ 0 \in Nat /\ Start \in Nat
      BY <1>1, Constants
    <3> QED
      BY <3>1, HalvedMore
  <2>5. Sound(f, n + 1, period)
    <3>1. Start <= (n + 1) * Delta
      BY <1>4, Constants
    <3>2. f.id = n + 1 /\ f.weight = Start /\ f.created = period /\ f.base = period
      BY <2>1
    <3> QED
      BY <1>1, <2>4, <3>1, <3>2 DEF Sound
  <2> QED
    BY <1>2, <1>3, <1>5, <2>1, <2>3, <2>5 DEF Edges, HalvedOnce
<1>6. CASE edge[p] # NoEdge
  <2>1. PICK w : w = IF edge[p].weight + Delta < MaxWeight THEN edge[p].weight + Delta
                     ELSE MaxWeight
    OBVIOUS
  <2>2. f = [edge[p] EXCEPT !.updated = period, !.base = period, !.weight = w]
    BY <1>6, <2>1 DEF Reinforced
  <2>3. /\ edge[p].weight \in Least .. MaxWeight /\ edge[p] \in R
        /\ edge[p].weight <= n * Delta /\ edge[p].id \in 1 .. n
        /\ edge[p].created \in Nat /\ edge[p].base \in Nat
        /\ edge[p].created <= edge[p].base /\ edge[p].base <= period
        /\ Start \div 2 ^ (edge[p].base - edge[p].created) <= edge[p].weight
    BY <1>1, <1>2, <1>3, <1>6, EdgeFields DEF Sound
  <2>4. w \in Least .. MaxWeight /\ edge[p].weight <= w /\ w <= n * Delta + Delta
    BY <1>4, <2>1, <2>3, Constants
  <2>5. /\ f \in R /\ f.id = edge[p].id /\ f.created = edge[p].created /\ f.weight = w
        /\ f.base = period
    <3>1. PICK e \in R : e = edge[p]
      BY <2>3
    <3>2. f = [e EXCEPT !.updated = period, !.base = period, !.weight = w]
      BY <2>2, <3>1
    <3>3. period \in 0 .. period
      BY <1>1
    <3>4. f = [id |-> e.id, weight |-> w, created |-> e.created, updated |-> period,
               base |-> period]
      BY <1>2, <3>2
    <3>5. e.id \in Nat /\ e.created \in 0 .. period
      BY <1>2
    <3>6. f \in R
      BY <1>2, <2>4, <3>3, <3>4, <3>5
    <3> QED
      BY <3>1, <3>4, <3>6
  <2>6. f \in Edges /\ f # NoEdge
    BY <1>1, <1>2, <2>3, <2>5, EdgeFields DEF Edges
  <2>7. w \in Nat
    BY <2>4, Constants
  <2>8. HalvedOnce(edge[p], f)
    BY <1>1, <1>3, <2>4, <2>5, <2>6, <2>7, NotHalved
  <2>9. Start \div 2 ^ (period - edge[p].created) <= w
    <3>1. f.weight >= Start \div 2 ^ (period - edge[p].created)
      BY <1>6, <2>6, <2>8 DEF HalvedOnce
    <3>2. Start \div 2 ^ (period - edge[p].created) \in Nat
      <4>1. period - edge[p].created \in Nat /\ Start \in Nat
        BY <1>1, <2>3, Constants
      <4> QED
        BY <4>1, HalvedMore
    <3> QED
      BY <2>5, <2>7, <3>1, <3>2
  <2>10. Sound(f, n + 1, period)
    BY <1>1, <1>4, <2>3, <2>4, <2>5, <2>9 DEF Sound
  <2> QED
    BY <1>3, <2>5, <2>6, <2>8, <2>10
<1> QED
  BY <1>5, <1>6

\* What an edge is after a step that may change it, and how often its pair
\* has been claimed.
EdgeStep(p) ==
    /\ edge'[p] \in Edges /\ claimed'[p] \in Nat /\ claimed[p] <= claimed'[p]
    /\ Sound(edge'[p], claimed'[p], period) /\ HalvedOnce(edge[p], edge'[p])
    /\ \/ edge'[p] = NoEdge \/ edge'[p].id > claimed[p]
       \/ edge'[p].id = edge[p].id /\ edge'[p].created = edge[p].created

LEMMA EdgeStays ==
    ASSUME LearnInv, NEW p \in Pairs, edge'[p] = edge[p], claimed'[p] = claimed[p]
    PROVE  EdgeStep(p)
<1>1. TypeOK /\ edge[p] \in Edges /\ claimed[p] \in Nat /\ Sound(edge[p], claimed[p], period)
  BY DEF LearnInv, TypeOK, EdgesInv
<1>2. edge[p].weight \in Nat
  BY <1>1, EdgeFields
<1>3. HalvedOnce(edge[p], edge[p])
  BY <1>1, <1>2, NotHalved DEF HalvedOnce
<1> QED
  BY <1>1, <1>3 DEF EdgeStep

LEMMA EdgeDecays ==
    ASSUME LearnInv, NEW p \in Pairs, NEW row \in Edges, NEW at \in Int, at <= period,
           Sound(row, claimed[p], at), SameEdge(row, edge[p]),
           edge'[p] = Decayed(p, row, at), claimed'[p] = claimed[p]
    PROVE  EdgeStep(p)
<1>1. TypeOK /\ claimed[p] \in Nat /\ Sound(edge[p], claimed[p], period)
  BY DEF LearnInv, TypeOK, EdgesInv
<1>2. PICK f : f = Decayed(p, row, at)
  OBVIOUS
<1>3. /\ f \in Edges /\ Sound(f, claimed[p], period) /\ HalvedOnce(edge[p], f)
      /\ f = NoEdge \/ (f.id = edge[p].id /\ f.created = edge[p].created)
  BY <1>1, <1>2, DecayedSound
<1> QED
  BY <1>1, <1>2, <1>3 DEF EdgeStep

\* A row that was read, after such a step.
LEMMA RowStays ==
    ASSUME TypeOK, NEW p \in Pairs, EdgeStep(p), NEW row \in Edges, NEW at \in Int,
           Sound(row, claimed[p], at), SameEdge(row, edge[p])
    PROVE  Sound(row, claimed'[p], at) /\ SameEdge(row, edge'[p])
<1>1. claimed[p] \in Nat /\ claimed'[p] \in Nat /\ claimed[p] <= claimed'[p]
      /\ edge'[p] \in Edges
  BY DEF TypeOK, EdgeStep
<1>2. Sound(row, claimed'[p], at)
  BY <1>1, SoundLater
<1>3. SameEdge(row, edge'[p])
  <2>1. CASE row = NoEdge
    <3>1. row.id = 0 /\ row.created = 0
      BY <2>1 DEF NoEdge
    <3>2. CASE edge'[p] = NoEdge
      BY <2>1, <3>2 DEF SameEdge
    <3>3. CASE edge'[p] # NoEdge
      <4>1. edge'[p].id # 0
        BY <1>1, <3>3 DEF EdgeStep, Sound
      <4> QED
        BY <3>1, <4>1 DEF SameEdge
    <3> QED
      BY <3>2, <3>3
  <2>2. CASE row # NoEdge
    <3>1. row.id \in 1 .. claimed[p]
      BY <2>2 DEF Sound
    <3>2. CASE edge'[p] = NoEdge
      <4>1. edge'[p].id = 0
        BY <3>2 DEF NoEdge
      <4> QED
        BY <3>1, <4>1 DEF SameEdge
    <3>3. CASE edge'[p].id > claimed[p]
      BY <1>1, <3>1, <3>3 DEF SameEdge
    <3>4. CASE edge'[p].id = edge[p].id /\ edge'[p].created = edge[p].created
      BY <3>4 DEF SameEdge
    <3> QED
      BY <3>2, <3>3, <3>4 DEF EdgeStep
  <2> QED
    BY <2>1, <2>2
<1> QED
  BY <1>2, <1>3

\* A step that changes edges, and perhaps ends a sweep.
LEMMA EdgesStep ==
    ASSUME LearnInv, period' = period, DOMAIN edge' = Pairs, edge' \in [Pairs -> Edges],
           claimed' \in [Pairs -> Nat], \A p \in Pairs : EdgeStep(p),
           sweep' \in [Procs -> [rows : [Pairs -> Edges], at : -1 .. period]],
           \A q \in Procs : sweep'[q] = sweep[q] \/ sweep'[q] = NoSweep
    PROVE  EdgesInv' /\ RowsInv'
<1>1. EdgesInv'
  <2>1. ASSUME NEW p \in Pairs PROVE Sound(edge'[p], claimed'[p], period')
    BY DEF EdgeStep
  <2> QED
    BY <2>1 DEF EdgesInv
<1>2. ASSUME NEW q \in Procs, NEW p \in Pairs
      PROVE  /\ Sound(sweep'[q].rows[p], claimed'[p], sweep'[q].at)
             /\ SameEdge(sweep'[q].rows[p], edge'[p])
  <2>1. EdgeStep(p) /\ TypeOK
    BY DEF LearnInv
  <2>2. CASE sweep'[q] = sweep[q]
    <3>1. PICK row, at : row = sweep[q].rows[p] /\ at = sweep[q].at
      OBVIOUS
    <3>2. row \in Edges /\ at \in Int
      <4>1. sweep[q] \in [rows : [Pairs -> Edges], at : -1 .. period]
        BY DEF LearnInv, TypeOK
      <4> QED
        BY <3>1, <4>1
    <3>3. Sound(row, claimed[p], at) /\ SameEdge(row, edge[p])
      BY <3>1 DEF LearnInv, RowsInv
    <3>4. Sound(row, claimed'[p], at) /\ SameEdge(row, edge'[p])
      BY <2>1, <3>2, <3>3, RowStays
    <3> QED
      BY <2>2, <3>1, <3>4
  <2>3. CASE sweep'[q] = NoSweep
    <3>1. sweep'[q].rows[p] = NoEdge
      BY <2>3 DEF NoSweep
    <3>2. NoEdge \in Edges /\ -1 \in Int
      BY DEF Edges
    <3>3. Sound(NoEdge, claimed'[p], -1) /\ Sound(NoEdge, claimed[p], -1)
      BY DEF Sound
    <3>4. SameEdge(NoEdge, edge[p])
      <4>1. edge[p] \in Edges /\ Sound(edge[p], claimed[p], period)
        BY DEF LearnInv, TypeOK, EdgesInv
      <4>2. CASE edge[p] = NoEdge
        BY <4>2 DEF SameEdge
      <4>3. CASE edge[p] # NoEdge
        <5>1. edge[p].id # 0
          BY <4>1, <4>3 DEF Sound
        <5> QED
          BY <5>1 DEF SameEdge, NoEdge
      <4> QED
        BY <4>2, <4>3
    <3>5. SameEdge(NoEdge, edge'[p])
      BY <2>1, <3>2, <3>3, <3>4, RowStays
    <3> QED
      BY <2>3, <3>1, <3>5 DEF Sound
  <2> QED
    BY <2>2, <2>3
<1>3. RowsInv'
  BY <1>2 DEF RowsInv
<1> QED
  BY <1>1, <1>3

\* A claim more is no evidence less.
LEMMA EvidenceStays ==
    ASSUME TypeOK, NEW p \in Pairs, claimed'[p] \in Nat, claimed[p] <= claimed'[p],
           claimed[p] * Delta >= Threshold
    PROVE  claimed'[p] * Delta >= Threshold
<1>1. claimed[p] \in Nat
  BY DEF TypeOK
<1>2. claimed[p] * Delta \in Nat /\ claimed'[p] * Delta \in Nat
      /\ claimed[p] * Delta <= claimed'[p] * Delta
  BY <1>1, ClaimsAdd
<1> QED
  BY <1>2, Constants

-----------------------------------------------------------------------------
(* Steps.  Each of them is shown to keep the types, to make an EdgeStep of *)
(* every pair, and to keep the rest of the invariant.                      *)

StepOK == LearnInv' /\ \A p \in Pairs : EdgeStep(p)

\* Types that do not depend on the clock.
LEMMA EpisodeTypes ==
    ASSUME TypeOK, NEW ids \in SUBSET Nodes, NEW b \in BOOLEAN
    PROVE  /\ [ids |-> ids, open |-> b, at |-> period]
                 \in [ids : SUBSET Nodes, open : BOOLEAN, at : 0 .. period]
           /\ NoEpisode \in [ids : SUBSET Nodes, open : BOOLEAN, at : 0 .. period]
  BY DEF TypeOK, NoEpisode

LEMMA NothingLearnt ==
    ASSUME LearnInv, TypeOK', UNCHANGED <<edge, claimed, procedures, period, sweep>>
    PROVE  StepOK
<1>1. \A p \in Pairs : EdgeStep(p)
  BY EdgeStays
<1>2. EdgesInv' /\ RowsInv' /\ ProcedureEvidence'
  BY DEF LearnInv, EdgesInv, RowsInv, ProcedureEvidence, Sound, SameEdge
<1> QED
  BY <1>1, <1>2 DEF StepOK, LearnInv

LEMMA PersistLearns ==
    ASSUME LearnInv, NEW s \in Sessions, NEW ids \in SUBSET Nodes, PersistNeuronHits(s, ids)
    PROVE  StepOK
<1>1. /\ \A n \in ids : marked[n] < MaxMarks
      /\ hits' = [hits EXCEPT ![s] = @ \cup ids]
      /\ episode' = [episode EXCEPT ![s] = [ids |-> ids, open |-> TRUE, at |-> period]]
      /\ marked' = [n \in Nodes |-> marked[n] + (IF n \in ids THEN 1 ELSE 0)]
      /\ used' = used
      /\ UNCHANGED <<edge, claimed, procedures, period, sweep>>
  BY DEF PersistNeuronHits
<1>2. TypeOK
  BY DEF LearnInv
<1>3. hits' \in [Sessions -> SUBSET Nodes]
  BY <1>1, <1>2 DEF TypeOK
<1>4. episode' \in [Sessions -> [ids : SUBSET Nodes, open : BOOLEAN, at : 0 .. period]]
  <2>1. [ids |-> ids, open |-> TRUE, at |-> period]
            \in [ids : SUBSET Nodes, open : BOOLEAN, at : 0 .. period]
    BY <1>2, EpisodeTypes
  <2> QED
    BY <1>1, <1>2, <2>1 DEF TypeOK
<1>5. marked' \in [Nodes -> 0 .. MaxMarks]
  <2>1. ASSUME NEW n \in Nodes
        PROVE  marked[n] + (IF n \in ids THEN 1 ELSE 0) \in 0 .. MaxMarks
    BY <1>1, <1>2, Constants DEF TypeOK
  <2> QED
    BY <1>1, <2>1
<1>6. Edges' = Edges
  BY <1>1 DEF Edges, NoEdge
<1>7. TypeOK'
  BY <1>1, <1>2, <1>3, <1>4, <1>5, <1>6 DEF TypeOK
<1> QED
  BY <1>1, <1>7, NothingLearnt

LEMMA OthersLearn ==
    ASSUME LearnInv,
           \/ UNCHANGED vars
           \/ \E s \in Sessions : Flush(s)
           \/ \E s \in Sessions : \E ids \in SUBSET Nodes : RecordNeuronActivity(s, ids)
    PROVE  StepOK
<1>1. /\ hits' = hits \/ \E s \in Sessions : \E ids \in SUBSET Nodes :
                            hits' = [hits EXCEPT ![s] = {}] \/ hits' = [hits EXCEPT ![s] = @ \cup ids]
      /\ UNCHANGED <<episode, used, marked>>
      /\ UNCHANGED <<edge, claimed, procedures, period, sweep>>
  BY DEF vars, Flush, RecordNeuronActivity
<1>2. hits' \in [Sessions -> SUBSET Nodes]
  BY <1>1 DEF LearnInv, TypeOK
<1>3. Edges' = Edges
  BY <1>1 DEF Edges, NoEdge
<1>4. TypeOK'
  BY <1>1, <1>2, <1>3 DEF LearnInv, TypeOK
<1> QED
  BY <1>1, <1>4, NothingLearnt

LEMMA PostToolLearns ==
    ASSUME LearnInv, NEW s \in Sessions, NEW c \in Chains, ProcessPostTool(s, c)
    PROVE  StepOK
<1>1. PICK pairs : pairs = {p \in Pairs : p \subseteq Consumed(s)}
  OBVIOUS
<1>2. /\ episode' = [episode EXCEPT ![s].open = FALSE]
      /\ used' = [n \in Nodes |-> used[n] + (IF n \in Consumed(s) THEN 1 ELSE 0)]
      /\ edge' = [p \in Pairs |-> IF p \in pairs THEN Reinforced(p) ELSE edge[p]]
      /\ claimed' = [p \in Pairs |-> claimed[p] + (IF p \in pairs THEN 1 ELSE 0)]
      /\ \E through \in SUBSET Promotable(s, edge') :
            procedures' = [procedures EXCEPT ![c] = Spawned(c, through)]
      /\ UNCHANGED <<hits, period, sweep, marked>>
  BY <1>1 DEF ProcessPostTool
<1>3. TypeOK /\ EdgesInv /\ ProcedureEvidence
  BY DEF LearnInv
<1>4. ASSUME NEW p \in Pairs PROVE EdgeStep(p)
  <2>1. CASE p \in pairs
    <3>1. PICK f : f = Reinforced(p)
      OBVIOUS
    <3>2. /\ f \in Edges /\ Sound(f, claimed[p] + 1, period) /\ HalvedOnce(edge[p], f)
          /\ \/ f.id > claimed[p]
             \/ f.id = edge[p].id /\ f.created = edge[p].created
      BY <1>3, <3>1, ReinforcedSound DEF EdgesInv
    <3>3. edge'[p] = f /\ claimed'[p] = claimed[p] + 1 /\ claimed[p] \in Nat
      BY <1>2, <1>3, <2>1, <3>1 DEF TypeOK
    <3> QED
      BY <3>2, <3>3 DEF EdgeStep
  <2>2. CASE p \notin pairs
    <3>1. edge'[p] = edge[p] /\ claimed'[p] = claimed[p]
      BY <1>2, <1>3, <2>2 DEF TypeOK
    <3> QED
      BY <3>1, EdgeStays
  <2> QED
    BY <2>1, <2>2
<1>5. edge' \in [Pairs -> Edges] /\ claimed' \in [Pairs -> Nat] /\ DOMAIN edge' = Pairs
  <2>1. DOMAIN edge' = Pairs /\ DOMAIN claimed' = Pairs
    BY <1>2
  <2>2. \A p \in Pairs : edge'[p] \in Edges /\ claimed'[p] \in Nat
    BY <1>4 DEF EdgeStep
  <2>3. edge' = [p \in Pairs |-> edge'[p]] /\ claimed' = [p \in Pairs |-> claimed'[p]]
    BY <1>2, <2>1
  <2> QED
    BY <2>1, <2>2, <2>3
<1>6. PICK through \in SUBSET Promotable(s, edge') :
          procedures' = [procedures EXCEPT ![c] = Spawned(c, through)]
  BY <1>2
<1>7. procedures' \in [Chains -> Nat]
  <2>1. Spawned(c, through) \in Nat
    BY <1>3 DEF Spawned, TypeOK
  <2> QED
    BY <1>3, <1>6, <2>1 DEF TypeOK
<1>8. episode' \in [Sessions -> [ids : SUBSET Nodes, open : BOOLEAN, at : 0 .. period]]
  <2>1. episode[s] \in [ids : SUBSET Nodes, open : BOOLEAN, at : 0 .. period]
    BY <1>3 DEF TypeOK
  <2>2. [episode[s] EXCEPT !.open = FALSE]
            \in [ids : SUBSET Nodes, open : BOOLEAN, at : 0 .. period]
    BY <2>1
  <2>3. episode' = [episode EXCEPT ![s] = [episode[s] EXCEPT !.open = FALSE]]
    BY <1>2
  <2> QED
    BY <1>3, <2>2, <2>3 DEF TypeOK
<1>9. used' \in [Nodes -> Nat]
  BY <1>2, <1>3 DEF TypeOK
<1>10. Edges' = Edges
  BY <1>2 DEF Edges, NoEdge
<1>11. TypeOK'
  BY <1>2, <1>3, <1>5, <1>7, <1>8, <1>9, <1>10 DEF TypeOK
<1>12. EdgesInv' /\ RowsInv'
  <2>1. /\ period' = period /\ \A q \in Procs : sweep'[q] = sweep[q]
        /\ sweep' \in [Procs -> [rows : [Pairs -> Edges], at : -1 .. period]]
    BY <1>2, <1>3 DEF TypeOK
  <2> QED
    BY <1>4, <1>5, <2>1, EdgesStep
<1>13. ProcedureEvidence'
  <2> SUFFICES ASSUME NEW d \in Chains, procedures'[d] > 0
               PROVE  \E p \in Pairs : claimed'[p] * Delta >= Threshold
    BY DEF ProcedureEvidence
  <2>1. CASE procedures[d] > 0
    <3>1. PICK p \in Pairs : claimed[p] * Delta >= Threshold
      BY <1>3, <2>1 DEF ProcedureEvidence
    <3>2. claimed'[p] \in Nat /\ claimed[p] <= claimed'[p]
      BY <1>4 DEF EdgeStep
    <3> QED
      BY <1>3, <3>1, <3>2, EvidenceStays
  <2>2. CASE ~(procedures[d] > 0)
    <3>1. d = c /\ through # {}
      BY <1>3, <1>6, <2>2 DEF TypeOK, Spawned
    <3>2. PICK p \in Pairs : edge'[p].weight >= Threshold
      BY <3>1 DEF Promotable
    <3>3. edge'[p] \in Edges /\ claimed'[p] \in Nat
      BY <1>5
    <3>4. edge'[p].weight \in Nat
      BY <1>3, <3>3, EdgeFields
    <3>5. edge'[p] # NoEdge
      BY <3>2, Constants DEF NoEdge
    <3>6. edge'[p].weight <= claimed'[p] * Delta
      BY <1>4, <3>5 DEF EdgeStep, Sound
    <3>7. claimed'[p] * Delta \in Nat
      BY <3>3, ClaimsAdd
    <3> QED
      BY <3>2, <3>4, <3>6, <3>7, Constants
  <2> QED
    BY <2>1, <2>2
<1> QED
  BY <1>4, <1>11, <1>12, <1>13 DEF StepOK, LearnInv

LEMMA SessionEndLearns ==
    ASSUME LearnInv, NEW s \in Sessions, SessionEnd(s)
    PROVE  StepOK
<1>1. /\ hits' = [hits EXCEPT ![s] = {}] /\ episode' = [episode EXCEPT ![s] = NoEpisode]
      /\ \/ edge' = edge
         \/ edge' = [p \in Pairs |-> Decayed(p, edge[p], period)]
      /\ UNCHANGED <<used, procedures, period, sweep, marked, claimed>>
  BY DEF SessionEnd
<1>2. TypeOK /\ EdgesInv /\ ProcedureEvidence /\ period \in Int
  BY DEF LearnInv, TypeOK
<1>3. ASSUME NEW p \in Pairs PROVE EdgeStep(p)
  <2>1. CASE edge' = edge
    BY <1>1, <2>1, EdgeStays
  <2>2. CASE edge' = [q \in Pairs |-> Decayed(q, edge[q], period)]
    <3>1. edge[p] \in Edges /\ Sound(edge[p], claimed[p], period) /\ SameEdge(edge[p], edge[p])
      BY <1>2 DEF TypeOK, EdgesInv, SameEdge
    <3>2. edge'[p] = Decayed(p, edge[p], period) /\ claimed'[p] = claimed[p]
      BY <1>1, <2>2
    <3>3. period <= period
      BY <1>2
    <3> QED
      BY <1>2, <3>1, <3>2, <3>3, EdgeDecays
  <2> QED
    BY <1>1, <2>1, <2>2
<1>4. edge' \in [Pairs -> Edges] /\ DOMAIN edge' = Pairs
  <2>1. DOMAIN edge' = Pairs /\ edge' = [p \in Pairs |-> edge'[p]]
    BY <1>1, <1>2 DEF TypeOK
  <2>2. \A p \in Pairs : edge'[p] \in Edges
    BY <1>3 DEF EdgeStep
  <2> QED
    BY <2>1, <2>2
<1>5. Edges' = Edges
  BY <1>1 DEF Edges, NoEdge
<1>6. hits' \in [Sessions -> SUBSET Nodes]
      /\ episode' \in [Sessions -> [ids : SUBSET Nodes, open : BOOLEAN, at : 0 .. period]]
  <2>1. NoEpisode \in [ids : SUBSET Nodes, open : BOOLEAN, at : 0 .. period]
    BY <1>2, EpisodeTypes
  <2> QED
    BY <1>1, <1>2, <2>1 DEF TypeOK
<1>7. TypeOK'
  BY <1>1, <1>2, <1>4, <1>5, <1>6 DEF TypeOK
<1>8. EdgesInv' /\ RowsInv'
  <2>1. /\ period' = period /\ \A q \in Procs : sweep'[q] = sweep[q]
        /\ sweep' \in [Procs -> [rows : [Pairs -> Edges], at : -1 .. period]]
        /\ claimed' \in [Pairs -> Nat]
    BY <1>1, <1>2 DEF TypeOK
  <2> QED
    BY <1>3, <1>4, <2>1, EdgesStep
<1>9. ProcedureEvidence'
  BY <1>1, <1>2 DEF ProcedureEvidence
<1> QED
  BY <1>3, <1>7, <1>8, <1>9 DEF StepOK, LearnInv

LEMMA HygieneReadLearns ==
    ASSUME LearnInv, NEW h \in Procs, HygieneRead(h)
    PROVE  StepOK
<1>1. /\ sweep' = [sweep EXCEPT ![h] = [rows |-> edge, at |-> period]]
      /\ UNCHANGED <<hits, episode, used, edge, procedures, period, marked, claimed>>
  BY DEF HygieneRead
<1>2. TypeOK /\ EdgesInv /\ RowsInv /\ ProcedureEvidence /\ period \in Nat
  BY DEF LearnInv, TypeOK
<1>3. \A p \in Pairs : EdgeStep(p)
  BY <1>1, EdgeStays
<1>4. Edges' = Edges
  BY <1>1 DEF Edges, NoEdge
<1>5. sweep' \in [Procs -> [rows : [Pairs -> Edges], at : -1 .. period]]
  <2>1. period \in -1 .. period /\ edge \in [Pairs -> Edges]
    BY <1>2 DEF TypeOK
  <2>2. [rows |-> edge, at |-> period] \in [rows : [Pairs -> Edges], at : -1 .. period]
    BY <2>1
  <2> QED
    BY <1>1, <1>2, <2>2 DEF TypeOK
<1>6. TypeOK'
  BY <1>1, <1>2, <1>4, <1>5 DEF TypeOK
<1>7. EdgesInv' /\ ProcedureEvidence'
  BY <1>1, <1>2 DEF EdgesInv, ProcedureEvidence, Sound
<1>8. RowsInv'
  <2> SUFFICES ASSUME NEW q \in Procs, NEW p \in Pairs
               PROVE  /\ Sound(sweep'[q].rows[p], claimed[p], sweep'[q].at)
                      /\ SameEdge(sweep'[q].rows[p], edge[p])
    BY <1>1 DEF RowsInv, Sound, SameEdge
  <2>1. CASE q = h
    <3>1. sweep'[q].rows[p] = edge[p] /\ sweep'[q].at = period
      BY <1>1, <1>2, <2>1 DEF TypeOK
    <3> QED
      BY <1>2, <3>1 DEF EdgesInv, SameEdge
  <2>2. CASE q # h
    <3>1. sweep'[q] = sweep[q]
      BY <1>1, <1>2, <2>2 DEF TypeOK
    <3> QED
      BY <1>2, <3>1 DEF RowsInv
  <2> QED
    BY <2>1, <2>2
<1> QED
  BY <1>3, <1>6, <1>7, <1>8 DEF StepOK, LearnInv

\* A sweep that ends.
LEMMA SweepEnds ==
    ASSUME TypeOK, NEW h \in Procs, sweep' = [sweep EXCEPT ![h] = NoSweep]
    PROVE  /\ sweep' \in [Procs -> [rows : [Pairs -> Edges], at : -1 .. period]]
           /\ \A q \in Procs : sweep'[q] = sweep[q] \/ sweep'[q] = NoSweep
<1>1. NoEdge \in Edges /\ -1 \in -1 .. period
  BY DEF Edges, TypeOK
<1>2. NoSweep \in [rows : [Pairs -> Edges], at : -1 .. period]
  BY <1>1 DEF NoSweep
<1> QED
  BY <1>2 DEF TypeOK

LEMMA HygieneDiscardLearns ==
    ASSUME LearnInv, NEW h \in Procs, HygieneDiscard(h)
    PROVE  StepOK
<1>1. /\ sweep' = [sweep EXCEPT ![h] = NoSweep]
      /\ UNCHANGED <<hits, episode, used, edge, procedures, period, marked, claimed>>
  BY DEF HygieneDiscard
<1>2. TypeOK /\ ProcedureEvidence
  BY DEF LearnInv
<1>3. \A p \in Pairs : EdgeStep(p)
  BY <1>1, EdgeStays
<1>4. Edges' = Edges
  BY <1>1 DEF Edges, NoEdge
<1>5. /\ sweep' \in [Procs -> [rows : [Pairs -> Edges], at : -1 .. period]]
      /\ \A q \in Procs : sweep'[q] = sweep[q] \/ sweep'[q] = NoSweep
  BY <1>1, <1>2, SweepEnds
<1>6. TypeOK'
  BY <1>1, <1>2, <1>4, <1>5 DEF TypeOK
<1>7. EdgesInv' /\ RowsInv'
  <2>1. /\ period' = period /\ edge' \in [Pairs -> Edges] /\ claimed' \in [Pairs -> Nat]
        /\ DOMAIN edge' = Pairs
    BY <1>1, <1>2 DEF TypeOK
  <2> QED
    BY <1>3, <1>5, <2>1, EdgesStep
<1>8. ProcedureEvidence'
  BY <1>1, <1>2 DEF ProcedureEvidence
<1> QED
  BY <1>3, <1>6, <1>7, <1>8 DEF StepOK, LearnInv

LEMMA HygieneWriteLearns ==
    ASSUME LearnInv, NEW h \in Procs, HygieneWrite(h)
    PROVE  StepOK
<1>1. /\ edge' = [q \in Pairs |-> Decayed(q, sweep[h].rows[q], sweep[h].at)]
      /\ episode' = [s \in Sessions |->
                       IF episode[s].at < period THEN NoEpisode ELSE episode[s]]
      /\ sweep' = [sweep EXCEPT ![h] = NoSweep]
      /\ UNCHANGED <<hits, used, period, marked, claimed>>
  BY DEF HygieneWrite
<1>2. PICK ignored \in SUBSET {c \in Chains : procedures[c] > 0} :
          procedures' = [c \in Chains |-> procedures[c] - (IF c \in ignored THEN 1 ELSE 0)]
  BY DEF HygieneWrite
<1>3. TypeOK /\ EdgesInv /\ RowsInv /\ ProcedureEvidence
  BY DEF LearnInv
<1>4. ASSUME NEW p \in Pairs PROVE EdgeStep(p)
  <2>1. PICK row, at : row = sweep[h].rows[p] /\ at = sweep[h].at
    OBVIOUS
  <2>2. row \in Edges /\ at \in Int /\ at <= period
    <3>1. sweep[h] \in [rows : [Pairs -> Edges], at : -1 .. period]
      BY <1>3 DEF TypeOK
    <3>2. period \in Nat
      BY <1>3 DEF TypeOK
    <3> QED
      BY <2>1, <3>1, <3>2
  <2>3. Sound(row, claimed[p], at) /\ SameEdge(row, edge[p])
    BY <1>3, <2>1 DEF RowsInv
  <2>4. edge'[p] = Decayed(p, row, at) /\ claimed'[p] = claimed[p]
    BY <1>1, <2>1
  <2> QED
    BY <2>2, <2>3, <2>4, EdgeDecays
<1>5. edge' \in [Pairs -> Edges] /\ DOMAIN edge' = Pairs
  <2>1. DOMAIN edge' = Pairs /\ edge' = [p \in Pairs |-> edge'[p]]
    BY <1>1
  <2>2. \A p \in Pairs : edge'[p] \in Edges
    BY <1>4 DEF EdgeStep
  <2> QED
    BY <2>1, <2>2
<1>6. Edges' = Edges
  BY <1>1 DEF Edges, NoEdge
<1>7. /\ sweep' \in [Procs -> [rows : [Pairs -> Edges], at : -1 .. period]]
      /\ \A q \in Procs : sweep'[q] = sweep[q] \/ sweep'[q] = NoSweep
  BY <1>1, <1>3, SweepEnds
<1>8. episode' \in [Sessions -> [ids : SUBSET Nodes, open : BOOLEAN, at : 0 .. period]]
  <2>1. NoEpisode \in [ids : SUBSET Nodes, open : BOOLEAN, at : 0 .. period]
    BY <1>3, EpisodeTypes
  <2> QED
    BY <1>1, <1>3, <2>1 DEF TypeOK
<1>9. procedures' \in [Chains -> Nat] /\ \A c \in Chains : procedures'[c] <= procedures[c]
  BY <1>2, <1>3 DEF TypeOK
<1>10. TypeOK'
  BY <1>1, <1>3, <1>5, <1>6, <1>7, <1>8, <1>9 DEF TypeOK
<1>11. EdgesInv' /\ RowsInv'
  <2>1. period' = period /\ claimed' \in [Pairs -> Nat]
    BY <1>1, <1>3 DEF TypeOK
  <2> QED
    BY <1>4, <1>5, <1>7, <2>1, EdgesStep
<1>12. ProcedureEvidence'
  <2>1. \A c \in Chains : procedures'[c] > 0 => procedures[c] > 0
    BY <1>3, <1>9 DEF TypeOK
  <2> QED
    BY <1>1, <1>3, <2>1 DEF ProcedureEvidence
<1> QED
  BY <1>4, <1>10, <1>11, <1>12 DEF StepOK, LearnInv

LEMMA TickLearns == ASSUME LearnInv, Tick PROVE StepOK
<1>1. /\ period < MaxPeriods /\ period' = period + 1
      /\ UNCHANGED <<hits, episode, used, edge, procedures, sweep, marked, claimed>>
  BY DEF Tick
<1>2. TypeOK /\ EdgesInv /\ RowsInv /\ ProcedureEvidence /\ period \in Nat
  BY DEF LearnInv, TypeOK
<1>3. \A p \in Pairs : EdgeStep(p)
  BY <1>1, EdgeStays
<1>4. Edges \subseteq Edges'
  BY <1>1, <1>2 DEF Edges, NoEdge
<1>5. edge \in [Pairs -> Edges']
  BY <1>2, <1>4 DEF TypeOK
<1>6. sweep \in [Procs -> [rows : [Pairs -> Edges'], at : -1 .. period + 1]]
  <2>1. [Pairs -> Edges] \subseteq [Pairs -> Edges']
    BY <1>4
  <2>2. -1 .. period \subseteq -1 .. period + 1
    BY <1>2
  <2>3. [rows : [Pairs -> Edges], at : -1 .. period]
            \subseteq [rows : [Pairs -> Edges'], at : -1 .. period + 1]
    BY <2>1, <2>2
  <2> QED
    BY <1>2, <2>3 DEF TypeOK
<1>7. episode \in [Sessions -> [ids : SUBSET Nodes, open : BOOLEAN, at : 0 .. period + 1]]
  <2>1. [ids : SUBSET Nodes, open : BOOLEAN, at : 0 .. period]
            \subseteq [ids : SUBSET Nodes, open : BOOLEAN, at : 0 .. period + 1]
    BY <1>2
  <2> QED
    BY <1>2, <2>1 DEF TypeOK
<1>8. period' \in 0 .. MaxPeriods
  BY <1>1, <1>2, Constants
<1>9. TypeOK'
  BY <1>1, <1>2, <1>5, <1>6, <1>7, <1>8 DEF TypeOK
<1>10. EdgesInv'
  <2>1. ASSUME NEW p \in Pairs PROVE Sound(edge[p], claimed[p], period + 1)
    <3>1. edge[p] \in Edges /\ claimed[p] \in Nat /\ Sound(edge[p], claimed[p], period)
      BY <1>2 DEF TypeOK, EdgesInv
    <3> QED
      BY <1>2, <3>1, SoundLater
  <2> QED
    BY <1>1, <2>1 DEF EdgesInv, Sound
<1>11. RowsInv' /\ ProcedureEvidence'
  BY <1>1, <1>2 DEF RowsInv, ProcedureEvidence, Sound, SameEdge
<1> QED
  BY <1>3, <1>9, <1>10, <1>11 DEF StepOK, LearnInv

LEMMA LearnStep == ASSUME LearnInv, [Next]_vars PROVE StepOK
<1>1. ASSUME NEW s \in Sessions, NEW ids \in SUBSET Nodes, PersistNeuronHits(s, ids)
      PROVE  StepOK
  BY <1>1, PersistLearns
<1>2. ASSUME NEW s \in Sessions, NEW ids \in SUBSET Nodes,
             RecordNeuronActivity(s, ids) \/ Flush(s)
      PROVE  StepOK
  BY <1>2, OthersLearn
<1>3. ASSUME NEW s \in Sessions, NEW c \in Chains, ProcessPostTool(s, c) PROVE StepOK
  BY <1>3, PostToolLearns
<1>4. ASSUME NEW s \in Sessions, SessionEnd(s) PROVE StepOK
  BY <1>4, SessionEndLearns
<1>5. ASSUME NEW h \in Procs, HygieneRead(h) \/ HygieneWrite(h) \/ HygieneDiscard(h)
      PROVE  StepOK
  BY <1>5, HygieneReadLearns, HygieneWriteLearns, HygieneDiscardLearns
<1>6. CASE Tick
  BY <1>6, TickLearns
<1>7. CASE UNCHANGED vars
  BY <1>7, OthersLearn
<1> QED
  BY <1>1, <1>2, <1>3, <1>4, <1>5, <1>6, <1>7 DEF Next

LEMMA LearnInit == ASSUME Init PROVE LearnInv
<1>1. /\ hits = [s \in Sessions |-> {}] /\ episode = [s \in Sessions |-> NoEpisode]
      /\ used = [n \in Nodes |-> 0] /\ edge = [p \in Pairs |-> NoEdge]
      /\ procedures = [c \in Chains |-> 0] /\ period = 0
      /\ sweep = [p \in Procs |-> NoSweep]
      /\ marked = [n \in Nodes |-> 0] /\ claimed = [p \in Pairs |-> 0]
  BY DEF Init
<1>2. NoEdge \in Edges
  BY DEF Edges
<1>3. NoSweep \in [rows : [Pairs -> Edges], at : -1 .. period]
  BY <1>1, <1>2 DEF NoSweep
<1>4. NoEpisode \in [ids : SUBSET Nodes, open : BOOLEAN, at : 0 .. period]
  BY <1>1 DEF NoEpisode
<1>5. 0 \in 0 .. MaxMarks /\ 0 \in 0 .. MaxPeriods
  BY Constants
<1>6. hits \in [Sessions -> SUBSET Nodes]
      /\ episode \in [Sessions -> [ids : SUBSET Nodes, open : BOOLEAN, at : 0 .. period]]
  BY <1>1, <1>4
<1>7. /\ used \in [Nodes -> Nat] /\ marked \in [Nodes -> 0 .. MaxMarks]
      /\ claimed \in [Pairs -> Nat] /\ procedures \in [Chains -> Nat]
      /\ period \in 0 .. MaxPeriods
  BY <1>1, <1>5
<1>8. edge \in [Pairs -> Edges]
      /\ sweep \in [Procs -> [rows : [Pairs -> Edges], at : -1 .. period]]
  BY <1>1, <1>2, <1>3
<1>9. TypeOK
  BY <1>6, <1>7, <1>8 DEF TypeOK
<1>10. EdgesInv /\ RowsInv
  BY <1>1 DEF EdgesInv, RowsInv, Sound, SameEdge, NoSweep
<1>11. ProcedureEvidence
  BY <1>1 DEF ProcedureEvidence
<1> QED
  BY <1>9, <1>10, <1>11 DEF LearnInv

LEMMA LearnInvInductive == Spec => []LearnInv
<1>1. Init => LearnInv
  BY LearnInit
<1>2. LearnInv /\ [Next]_vars => LearnInv'
  BY LearnStep DEF StepOK
<1> QED
  BY <1>1, <1>2, PTL DEF Spec

\* Every variable keeps its type (session_learning_state, edges): edges stay
\* between the weight that deletes them and the maximum, for any delta,
\* max_weight and min_weight of config.learning.
THEOREM LearningTyped == Spec => []TypeOK
<1>1. LearnInv => TypeOK
  BY DEF LearnInv
<1> QED
  BY <1>1, LearnInvInductive, PTL

\* A tool chain becomes a procedure only if two neurons were recalled together
\* and followed by a tool call as often as the threshold asks
\* (services/learning.py, process_post_tool), whatever decays overlap.
THEOREM ProceduresAreEarned == Spec => []ProcedureEvidence
<1>1. LearnInv => ProcedureEvidence
  BY DEF LearnInv
<1> QED
  BY <1>1, LearnInvInductive, PTL

\* "Compound idle decay ... checkpoint advances by periods" (learning.py:463):
\* however many hygiene processes, SessionEnds and claims overlap, an edge
\* loses at most half for each idle period since it was made.
THEOREM NothingHalvedTwice == Spec => HalvedOncePerPeriod
<1>1. LearnInv /\ [Next]_vars =>
        \A p \in Pairs :
          LET kept == Start \div 2 ^ (period - edge[p].created)
          IN edge[p] # NoEdge =>
                IF edge'[p] = NoEdge THEN kept < MinWeight
                ELSE edge'[p].weight >= kept
  BY LearnStep DEF StepOK, EdgeStep, HalvedOnce
<1> QED
  BY <1>1, LearnInvInductive, PTL DEF Spec, HalvedOncePerPeriod

-----------------------------------------------------------------------------
(* The slots of a pack                                                     *)

SlotTypes == {"code", "debug", "decision", "general"}
SlotRecords == [neurons : Nat, graph : Nat, procedures : Nat]

LEMMA SmallerIs ==
    ASSUME NEW m \in Nat, NEW n \in Nat
    PROVE  Smaller(m, n) \in Nat /\ Smaller(m, n) <= m /\ Smaller(m, n) <= n
BY DEF Smaller

\* What is split in three is whole again.
LEMMA SplitIs ==
    ASSUME NEW total \in Nat, NEW n \in Nat, NEW g \in Nat, n + g <= total
    PROVE  LET slot == [neurons |-> n, graph |-> g, procedures |-> total - n - g]
           IN slot \in SlotRecords /\ Whole(slot) = total
BY DEF SlotRecords, Whole

LEMMA ProcedureSlotsIs ==
    ASSUME NEW slot \in SlotRecords
    PROVE  ProcedureSlots(slot) \in SlotRecords /\ Whole(ProcedureSlots(slot)) = Whole(slot)
<1>1. PICK n, g, p \in Nat : slot = [neurons |-> n, graph |-> g, procedures |-> p]
  BY DEF SlotRecords
<1>2. PICK k \in Nat : k = Smaller(280, n \div 2) /\ k <= n
  <2>1. n \div 2 \in Nat /\ n \div 2 <= n
    OBVIOUS
  <2> QED
    BY <2>1, SmallerIs
<1>3. ProcedureSlots(slot) = [neurons |-> n - k, graph |-> g, procedures |-> p + k]
  <2>1. PICK q : q = ProcedureSlots(slot)
    OBVIOUS
  <2>2. slot.neurons = n /\ slot.graph = g /\ slot.procedures = p
    BY <1>1
  <2>3. q = [slot EXCEPT !.neurons = @ - k, !.procedures = @ + k]
    BY <1>2, <2>1, <2>2 DEF ProcedureSlots
  <2>4. DOMAIN slot = {"neurons", "graph", "procedures"}
    BY <1>1
  <2>5. DOMAIN q = {"neurons", "graph", "procedures"}
    BY <2>3, <2>4
  <2>6. q.neurons = n - k /\ q.graph = g /\ q.procedures = p + k
    BY <2>2, <2>3, <2>4
  <2>7. q = [neurons |-> q.neurons, graph |-> q.graph, procedures |-> q.procedures]
    BY <2>3, <2>5
  <2> QED
    BY <2>1, <2>6, <2>7
<1> QED
  BY <1>1, <1>2, <1>3 DEF SlotRecords, Whole

\* "Slots are always non-negative and sum(slots) <= total" (budget.py:113):
\* for every total, every pre-tool limit and every type of query, also after a
\* query about procedures has taken some of the memories' slot for them; and
\* the pack's lines and their framing are held to the budget.
THEOREM SlotsShareTheTotal ==
    ASSUME NEW type \in SlotTypes, NEW total \in Nat, NEW pre,
           pre.graph \in Nat, pre.procedure \in Nat
    PROVE  LET own == ContextPackSlots(type, total, pre)
           IN \A slot \in {own, ProcedureSlots(own)} :
                 /\ slot \in SlotRecords /\ Whole(slot) = total
                 /\ HardCap(total, slot) \in 0 .. total
                 /\ total >= Framing => HardCap(total, slot) + Framing <= total
<1>1. PICK own : own = ContextPackSlots(type, total, pre)
  OBVIOUS
<1>2. PICK a, b : a = pre.graph /\ b = pre.procedure /\ a \in Nat /\ b \in Nat
  OBVIOUS
<1>3. own \in SlotRecords /\ Whole(own) = total
  <2>1. CASE type = "code"
    <3>1. PICK g \in Nat : g = Smaller(a, (total * 45) \div 100) /\ g <= total
      <4>1. (total * 45) \div 100 \in Nat /\ (total * 45) \div 100 <= total
        OBVIOUS
      <4> QED
        BY <1>2, <4>1, SmallerIs
    <3>2. PICK p \in Nat : p = Smaller(b, (total - g) \div 5) /\ p + g <= total
      <4>1. PICK rest \in Nat : rest = total - g
        BY <3>1
      <4>2. PICK most \in Nat : most = rest \div 5 /\ most <= rest
        OBVIOUS
      <4>3. PICK p \in Nat : p = Smaller(b, most) /\ p <= most
        BY <1>2, SmallerIs
      <4>4. p + g <= total
        BY <4>1, <4>2, <4>3
      <4> QED
        BY <4>1, <4>2, <4>3, <4>4
    <3>3. PICK n \in Nat : n = total - g - p /\ n + g <= total /\ total - n - g = p
      BY <3>1, <3>2
    <3>4. own = [neurons |-> n, graph |-> g, procedures |-> total - n - g]
      BY <1>1, <1>2, <2>1, <3>1, <3>2, <3>3 DEF ContextPackSlots
    <3> QED
      BY <3>3, <3>4, SplitIs
  <2>2. CASE type = "debug"
    <3>1. /\ (total * 55) \div 100 \in Nat /\ (total * 25) \div 100 \in Nat
          /\ (total * 55) \div 100 + (total * 25) \div 100 <= total
      OBVIOUS
    <3>2. PICK n \in Nat : n = Smaller(600, (total * 55) \div 100) /\ n <= (total * 55) \div 100
      BY <3>1, SmallerIs
    <3>3. PICK g \in Nat : g = Smaller(a, (total * 25) \div 100) /\ g <= (total * 25) \div 100
      BY <1>2, <3>1, SmallerIs
    <3>4. own = [neurons |-> n, graph |-> g, procedures |-> total - n - g]
      BY <1>1, <1>2, <2>2, <3>2, <3>3 DEF ContextPackSlots
    <3>5. n + g <= total
      BY <3>1, <3>2, <3>3
    <3> QED
      BY <3>4, <3>5, SplitIs
  <2>3. CASE type = "decision"
    <3>1. /\ (total * 60) \div 100 \in Nat /\ (total * 20) \div 100 \in Nat
          /\ (total * 60) \div 100 + (total * 20) \div 100 <= total
      OBVIOUS
    <3>2. PICK n \in Nat : n = Smaller(700, (total * 60) \div 100) /\ n <= (total * 60) \div 100
      BY <3>1, SmallerIs
    <3>3. PICK g \in Nat : g = Smaller(a, (total * 20) \div 100) /\ g <= (total * 20) \div 100
      BY <1>2, <3>1, SmallerIs
    <3>4. own = [neurons |-> n, graph |-> g, procedures |-> total - n - g]
      BY <1>1, <1>2, <2>3, <3>2, <3>3 DEF ContextPackSlots
    <3>5. n + g <= total
      BY <3>1, <3>2, <3>3
    <3> QED
      BY <3>4, <3>5, SplitIs
  <2>4. CASE type = "general"
    <3>1. PICK n \in Nat : n = (total * 40) \div 100 /\ n + n <= total
      OBVIOUS
    <3>2. own = [neurons |-> n, graph |-> n, procedures |-> total - n - n]
      BY <1>1, <2>4, <3>1 DEF ContextPackSlots
    <3> QED
      BY <3>1, <3>2, SplitIs
  <2> QED
    BY <2>1, <2>2, <2>3, <2>4 DEF SlotTypes
<1>4. ASSUME NEW slot, slot \in SlotRecords, Whole(slot) = total
      PROVE  /\ HardCap(total, slot) \in 0 .. total
             /\ total >= Framing => HardCap(total, slot) + Framing <= total
  BY <1>4 DEF HardCap, Smaller, Larger, Framing
<1> QED
  BY <1>1, <1>3, <1>4, ProcedureSlotsIs

-----------------------------------------------------------------------------
(* Recursion over the natural numbers                                      *)

LEMMA LeastExists == ASSUME NEW T \in SUBSET Nat, T # {} PROVE \E x \in T : \A y \in T : x <= y
<1>1. PICK R : R = {ss \in Nat \X Nat : ss[1] < ss[2]}
  OBVIOUS
<1>2. IsWellFoundedOn(R, Nat)
  BY <1>1, NatLessThanWellFounded, Zenon DEF OpToRel
<1>3. ASSUME NEW x \in Nat, NEW y \in Nat, y < x PROVE <<y, x>> \in R
  BY <1>1, <1>3
<1>4. PICK x \in T : \A y \in T : ~ (<<y, x>> \in R)
  BY <1>2, WFMin
<1>5. ASSUME NEW y \in T PROVE ~(y < x)
  BY <1>3, <1>4
<1> QED
  BY <1>4, <1>5

\* Induction up to a number, over a set of numbers.
LEMMA UpTo ==
    ASSUME NEW n \in Nat, NEW P, 0 \in P, \A i \in 1 .. n : i - 1 \in P => i \in P
    PROVE  \A i \in 0 .. n : i \in P
<1> SUFFICES ASSUME NEW i \in 0 .. n, i \notin P PROVE FALSE
  OBVIOUS
<1>1. PICK T : T = {j \in 0 .. n : j \notin P}
  OBVIOUS
<1>2. T \in SUBSET Nat /\ T # {}
  BY <1>1
<1>3. PICK x \in T : \A y \in T : x <= y
  BY <1>2, LeastExists
<1>4. x \in 1 .. n /\ x - 1 \notin T
  BY <1>1, <1>3
<1> QED
  BY <1>1, <1>3, <1>4

\* A recursion up to a number has a solution.
Steps(n, S) == [1 .. n -> [S -> S]]

Solves(f, n, S, a, step) ==
    f \in [0 .. n -> S] /\ f[0] = a /\ \A i \in 1 .. n : f[i] = step[i][f[i - 1]]

LEMMA Recursion ==
    ASSUME NEW n \in Nat, NEW S, NEW a \in S, NEW step \in Steps(n, S)
    PROVE  \E f : Solves(f, n, S, a, step)
<1> USE DEF Steps
<1>1. PICK P : P = {m \in 0 .. n : \E f \in [0 .. m -> S] :
                      f[0] = a /\ \A i \in 1 .. m : f[i] = step[i][f[i - 1]]}
  OBVIOUS
<1>2. 0 \in P
  <2>1. PICK f : f = [i \in 0 .. 0 |-> a]
    OBVIOUS
  <2>2. f \in [0 .. 0 -> S] /\ f[0] = a
    BY <2>1
  <2> QED
    BY <1>1, <2>2
<1>3. ASSUME NEW m \in 1 .. n, m - 1 \in P PROVE m \in P
  <2>1. PICK f \in [0 .. m - 1 -> S] : f[0] = a /\ \A i \in 1 .. m - 1 : f[i] = step[i][f[i - 1]]
    BY <1>1, <1>3
  <2>2. PICK g : g = [i \in 0 .. m |-> IF i = m THEN step[m][f[m - 1]] ELSE f[i]]
    OBVIOUS
  <2>3. g \in [0 .. m -> S]
    BY <2>1, <2>2
  <2>4. g[0] = a /\ \A i \in 1 .. m : g[i] = step[i][g[i - 1]]
    <3>1. ASSUME NEW i \in 1 .. m PROVE g[i] = step[i][g[i - 1]]
      <4>1. g[i - 1] = f[i - 1]
        BY <2>2
      <4>2. CASE i = m
        BY <2>2, <4>1, <4>2
      <4>3. CASE i # m
        <5>1. i \in 1 .. m - 1
          BY <4>3
        <5> QED
          BY <2>1, <2>2, <4>1, <4>3, <5>1
      <4> QED
        BY <4>2, <4>3
    <3> QED
      BY <2>1, <2>2, <3>1
  <2> QED
    BY <1>1, <2>3, <2>4
<1>4. \A i \in 0 .. n : i \in P
  <2>1. \A m \in 1 .. n : m - 1 \in P => m \in P
    BY <1>3
  <2> QED
    BY <1>2, <2>1, UpTo, Zenon
<1> QED
  BY <1>1, <1>4 DEF Solves

-----------------------------------------------------------------------------
(* Tokens                                                                  *)

Lines == [id : Nat, cost : Nat \ {0}, title : Nat \ {0}, prio : Nat, score : Nat]

Sums(s, f) ==
    /\ f \in [0 .. Len(s) -> Nat]
    /\ f[0] = 0 /\ \A n \in 1 .. Len(s) : f[n] = f[n - 1] + s[n].cost

LEMMA SumsExist == ASSUME NEW s \in Seq(Lines) PROVE \E f : Sums(s, f)
<1>1. PICK n \in Nat : n = Len(s) /\ \A i \in 1 .. n : s[i].cost \in Nat
  <2>1. Len(s) \in Nat /\ \A i \in 1 .. Len(s) : s[i] \in Lines
    OBVIOUS
  <2>2. \A l \in Lines : l.cost \in Nat
    BY DEF Lines
  <2> QED
    BY <2>1, <2>2
<1>2. PICK step : step = [i \in 1 .. n |-> [x \in Nat |-> x + s[i].cost]]
  OBVIOUS
<1>3. step \in Steps(n, Nat)
  BY <1>1, <1>2 DEF Steps
<1>4. PICK f : Solves(f, n, Nat, 0, step)
  <2>1. 0 \in Nat
    OBVIOUS
  <2> QED
    BY <1>3, <2>1, Recursion, Zenon
<1>5. ASSUME NEW i \in 1 .. n PROVE f[i] = f[i - 1] + s[i].cost
  <2>1. f[i - 1] \in Nat
    BY <1>4 DEF Solves
  <2> QED
    BY <1>2, <1>4, <2>1 DEF Solves
<1> QED
  BY <1>1, <1>4, <1>5 DEF Sums, Solves

LEMMA TokensIs == ASSUME NEW s \in Seq(Lines), NEW f, Sums(s, f) PROVE Tokens(s) = f[Len(s)]
<1>1. PICK n \in Nat : n = Len(s)
  OBVIOUS
<1>2. f = [i \in 0 .. n |-> IF i = 0 THEN 0 ELSE f[i - 1] + s[i].cost]
  <2>1. f \in [0 .. n -> Nat] /\ f[0] = 0 /\ \A i \in 1 .. n : f[i] = f[i - 1] + s[i].cost
    BY <1>1 DEF Sums
  <2>2. PICK h : h = [i \in 0 .. n |-> IF i = 0 THEN 0 ELSE f[i - 1] + s[i].cost]
    OBVIOUS
  <2>3. \A i \in 0 .. n : h[i] = f[i]
    BY <2>1, <2>2
  <2>4. h = f
    BY <2>1, <2>2, <2>3
  <2> QED
    BY <2>2, <2>4
<1>3. PICK g : /\ g = [i \in 0 .. n |-> IF i = 0 THEN 0 ELSE g[i - 1] + s[i].cost]
               /\ Tokens(s) = g[n]
  BY <1>1, <1>2 DEF Tokens
<1>4. PICK P : P = {i \in 0 .. n : g[i] = f[i]}
  OBVIOUS
<1>5. 0 \in P
  BY <1>2, <1>3, <1>4
<1>6. ASSUME NEW i \in 1 .. n, i - 1 \in P PROVE i \in P
  <2>1. g[i - 1] = f[i - 1] /\ i \in 0 .. n /\ i # 0
    BY <1>4, <1>6
  <2>2. g[i] = g[i - 1] + s[i].cost
    BY <1>3, <2>1
  <2>3. f[i] = f[i - 1] + s[i].cost
    BY <1>2, <2>1
  <2> QED
    BY <1>4, <2>1, <2>2, <2>3
<1>7. n \in P
  <2>1. \A i \in 1 .. n : i - 1 \in P => i \in P
    BY <1>6
  <2>2. \A i \in 0 .. n : i \in P
    BY <1>5, <2>1, UpTo, Zenon
  <2> QED
    BY <2>2
<1> QED
  BY <1>1, <1>3, <1>4, <1>7

LEMMA TokensNatural == ASSUME NEW s \in Seq(Lines) PROVE Tokens(s) \in Nat
<1>1. PICK f : Sums(s, f)
  BY SumsExist
<1>2. Tokens(s) = f[Len(s)] /\ Len(s) \in 0 .. Len(s)
  BY <1>1, TokensIs
<1> QED
  BY <1>1, <1>2 DEF Sums

LEMMA NoTokens == << >> \in Seq(Lines) /\ Tokens(<< >>) = 0
<1>1. PICK s : s = << >> /\ s \in Seq(Lines) /\ Len(s) = 0
  BY EmptySeq, Zenon
<1>2. PICK f : Sums(s, f)
  BY <1>1, SumsExist
<1> QED
  BY <1>1, <1>2, TokensIs DEF Sums

LEMMA TokensAppend ==
    ASSUME NEW s \in Seq(Lines), NEW l \in Lines
    PROVE  Tokens(Append(s, l)) = Tokens(s) + l.cost
<1>1. PICK f : Sums(s, f)
  BY SumsExist
<1>2. PICK n \in Nat : n = Len(s)
  OBVIOUS
<1>3. PICK t : t = Append(s, l)
  OBVIOUS
<1>4. t \in Seq(Lines) /\ Len(t) = n + 1 /\ t[n + 1] = l /\ \A i \in 1 .. n : t[i] = s[i]
  BY <1>2, <1>3, AppendProperties
<1>5. l.cost \in Nat /\ f[n] \in Nat
  BY <1>1, <1>2 DEF Lines, Sums
<1>6. PICK g : g = [i \in 0 .. n + 1 |-> IF i = n + 1 THEN f[n] + l.cost ELSE f[i]]
  OBVIOUS
<1>7. Sums(t, g)
  <2>1. f \in [0 .. n -> Nat] /\ f[0] = 0 /\ \A i \in 1 .. n : f[i] = f[i - 1] + s[i].cost
    BY <1>1, <1>2 DEF Sums
  <2>2. g \in [0 .. n + 1 -> Nat] /\ g[0] = 0
    BY <1>5, <1>6, <2>1
  <2>3. ASSUME NEW i \in 1 .. n + 1 PROVE g[i] = g[i - 1] + t[i].cost
    <3>1. g[i - 1] = f[i - 1]
      BY <1>6
    <3>2. CASE i = n + 1
      BY <1>4, <1>6, <3>1, <3>2
    <3>3. CASE i # n + 1
      <4>1. i \in 1 .. n
        BY <3>3
      <4>2. g[i] = f[i] /\ t[i] = s[i]
        BY <1>4, <1>6, <3>3, <4>1
      <4>3. f[i] = f[i - 1] + s[i].cost
        BY <2>1, <4>1
      <4> QED
        BY <3>1, <4>2, <4>3
    <3> QED
      BY <3>2, <3>3
  <2> QED
    BY <1>4, <2>2, <2>3 DEF Sums
<1>8. Tokens(t) = g[n + 1] /\ g[n + 1] = f[n] + l.cost /\ Tokens(s) = f[n]
  <2>1. n + 1 \in 0 .. n + 1
    OBVIOUS
  <2> QED
    BY <1>1, <1>2, <1>4, <1>6, <1>7, <2>1, TokensIs
<1> QED
  BY <1>3, <1>8

\* The sums of the prefixes.
LEMMA TokensUpTo ==
    ASSUME NEW s \in Seq(Lines), NEW m \in 0 .. Len(s)
    PROVE  /\ SubSeq(s, 1, m) \in Seq(Lines) /\ Len(SubSeq(s, 1, m)) = m
           /\ Tokens(SubSeq(s, 1, m)) \in Nat
           /\ m = 0 => Tokens(SubSeq(s, 1, m)) = 0
           /\ m > 0 => Tokens(SubSeq(s, 1, m)) = Tokens(SubSeq(s, 1, m - 1)) + s[m].cost
           /\ m = Len(s) => SubSeq(s, 1, m) = s
<1>1. PICK n \in Nat : n = Len(s) /\ DOMAIN s = 1 .. n /\ \A i \in 1 .. n : s[i] \in Lines
  OBVIOUS
<1>2. ASSUME NEW k \in 0 .. n
      PROVE  /\ SubSeq(s, 1, k) \in Seq(Lines) /\ Len(SubSeq(s, 1, k)) = k
             /\ \A i \in 1 .. k : SubSeq(s, 1, k)[i] = s[i]
  <2>1. \A i \in 1 .. k : s[i] \in Lines
    BY <1>1
  <2> QED
    BY <2>1, SubSeqProperties
<1>3. ASSUME m > 0 PROVE Tokens(SubSeq(s, 1, m)) = Tokens(SubSeq(s, 1, m - 1)) + s[m].cost
  <2>1. m - 1 \in 0 .. n /\ m \in 0 .. n /\ m \in 1 .. n
    BY <1>1, <1>3
  <2>2. PICK u, v : u = SubSeq(s, 1, m - 1) /\ v = SubSeq(s, 1, m)
    OBVIOUS
  <2>3. /\ u \in Seq(Lines) /\ Len(u) = m - 1 /\ \A i \in 1 .. m - 1 : u[i] = s[i]
        /\ v \in Seq(Lines) /\ Len(v) = m /\ \A i \in 1 .. m : v[i] = s[i]
    BY <1>2, <2>1, <2>2
  <2>4. PICK w : w = Append(u, s[m])
    OBVIOUS
  <2>5. w \in Seq(Lines) /\ Len(w) = m /\ w[m] = s[m] /\ \A i \in 1 .. m - 1 : w[i] = s[i]
    BY <1>1, <2>1, <2>3, <2>4, AppendProperties
  <2>6. v = w
    <3>1. \A i \in 1 .. m : v[i] = w[i]
      <4>1. \A i \in 1 .. m : i = m \/ i \in 1 .. m - 1
        OBVIOUS
      <4> QED
        BY <2>3, <2>5, <4>1
    <3> QED
      BY <2>3, <2>5, <3>1
  <2> QED
    BY <1>1, <2>1, <2>2, <2>3, <2>4, <2>6, TokensAppend
<1>4. ASSUME m = 0 PROVE Tokens(SubSeq(s, 1, m)) = 0
  <2>1. SubSeq(s, 1, m) = << >>
    BY <1>1, <1>2, <1>4
  <2> QED
    BY <2>1, NoTokens
<1>5. ASSUME m = n PROVE SubSeq(s, 1, m) = s
  BY <1>1, <1>2, <1>5
<1> QED
  BY <1>1, <1>2, <1>3, <1>4, <1>5, TokensNatural

LEMMA TokensConcat ==
    ASSUME NEW s \in Seq(Lines), NEW t \in Seq(Lines)
    PROVE  s \o t \in Seq(Lines) /\ Tokens(s \o t) = Tokens(s) + Tokens(t)
<1>1. PICK m \in Nat, n \in Nat : m = Len(s) /\ n = Len(t)
  OBVIOUS
<1>2. PICK z : z = s \o t
  OBVIOUS
<1>3. /\ z \in Seq(Lines) /\ Len(z) = m + n
      /\ \A i \in 1 .. m + n : z[i] = IF i <= m THEN s[i] ELSE t[i - m]
  BY <1>1, <1>2, ConcatProperties
<1>4. PICK f, g : Sums(s, f) /\ Sums(t, g)
  BY SumsExist
<1>5. /\ f \in [0 .. m -> Nat] /\ f[0] = 0 /\ \A i \in 1 .. m : f[i] = f[i - 1] + s[i].cost
      /\ g \in [0 .. n -> Nat] /\ g[0] = 0 /\ \A i \in 1 .. n : g[i] = g[i - 1] + t[i].cost
  BY <1>1, <1>4 DEF Sums
<1>6. PICK h : h = [i \in 0 .. m + n |-> IF i <= m THEN f[i] ELSE f[m] + g[i - m]]
  OBVIOUS
<1>7. h \in [0 .. m + n -> Nat] /\ h[0] = 0
  <2>1. ASSUME NEW i \in 0 .. m + n PROVE h[i] \in Nat
    <3>1. CASE i <= m
      BY <1>5, <1>6, <3>1
    <3>2. CASE ~(i <= m)
      <4>1. i - m \in 0 .. n /\ m \in 0 .. m
        BY <3>2
      <4>2. f[m] \in Nat /\ g[i - m] \in Nat
        BY <1>5, <4>1
      <4> QED
        BY <1>6, <3>2, <4>2
    <3> QED
      BY <3>1, <3>2
  <2> QED
    BY <1>5, <1>6, <2>1
<1>8. ASSUME NEW i \in 1 .. m + n PROVE h[i] = h[i - 1] + z[i].cost
  <2>1. CASE i <= m
    <3>1. i \in 1 .. m /\ h[i] = f[i] /\ h[i - 1] = f[i - 1] /\ z[i] = s[i]
      BY <1>3, <1>6, <2>1
    <3> QED
      BY <1>5, <3>1
  <2>2. CASE ~(i <= m)
    <3>1. PICK k \in 1 .. n : k = i - m
      BY <2>2
    <3>2. h[i] = f[m] + g[k] /\ z[i] = t[k]
      BY <1>3, <1>6, <2>2, <3>1
    <3>3. h[i - 1] = f[m] + g[k - 1]
      <4>1. CASE i - 1 <= m
        <5>1. i - 1 = m /\ k = 1 /\ m \in 0 .. m
          BY <2>2, <3>1, <4>1
        <5>2. f[m] \in Nat
          BY <1>5, <5>1
        <5> QED
          BY <1>5, <1>6, <5>1, <5>2
      <4>2. CASE ~(i - 1 <= m)
        <5>1. (i - 1) - m = k - 1 /\ i - 1 \in 0 .. m + n
          BY <3>1
        <5> QED
          BY <1>6, <4>2, <5>1
      <4> QED
        BY <4>1, <4>2
    <3>4. g[k] = g[k - 1] + t[k].cost
      BY <1>5, <3>1
    <3>5. f[m] \in Nat /\ g[k - 1] \in Nat /\ t[k].cost \in Nat
      <4>1. t[k] \in Lines
        BY <1>1, <3>1
      <4> QED
        BY <1>5, <3>1, <4>1 DEF Lines
    <3> QED
      BY <3>2, <3>3, <3>4, <3>5
  <2> QED
    BY <2>1, <2>2
<1>9. Sums(z, h)
  BY <1>3, <1>7, <1>8 DEF Sums
<1>10. Tokens(z) = h[m + n] /\ Tokens(s) = f[m] /\ Tokens(t) = g[n]
  BY <1>1, <1>3, <1>4, <1>9, TokensIs
<1>11. h[m + n] = f[m] + g[n]
  <2>1. m + n \in 0 .. m + n /\ (m + n) - m = n /\ f[m] \in Nat
    BY <1>5
  <2>2. CASE n = 0
    BY <1>5, <1>6, <2>1, <2>2
  <2>3. CASE n # 0
    <3>1. ~(m + n <= m)
      BY <2>3
    <3> QED
      BY <1>6, <2>1, <3>1
  <2> QED
    BY <2>2, <2>3
<1> QED
  BY <1>2, <1>3, <1>10, <1>11

-----------------------------------------------------------------------------
(* Picking and ranking                                                     *)

Distinct(s) == \A i, j \in DOMAIN s : s[i].id = s[j].id => i = j

\* The numbers of a finite set of them: the n-th is the one with n up to it.
LEMMA NthExists ==
    ASSUME NEW K, K \in SUBSET Nat, IsFiniteSet(K), NEW n \in 1 .. Cardinality(K)
    PROVE  \E i \in K : Cardinality({j \in K : j <= i}) = n
<1>1. PICK m \in Nat : m = Cardinality(K)
  BY FS_CardinalityType
<1>2. PICK g : g = [i \in K |-> Cardinality({j \in K : j <= i})]
  OBVIOUS
<1>3. ASSUME NEW i \in K
      PROVE  g[i] \in 1 .. m /\ IsFiniteSet({j \in K : j <= i})
  <2>1. {j \in K : j <= i} \in SUBSET K /\ i \in {j \in K : j <= i}
    OBVIOUS
  <2>2. /\ IsFiniteSet({j \in K : j <= i}) /\ Cardinality({j \in K : j <= i}) <= m
        /\ Cardinality({j \in K : j <= i}) \in Nat
    BY <1>1, <2>1, FS_Subset, FS_CardinalityType
  <2>3. Cardinality({j \in K : j <= i}) # 0
    BY <2>1, <2>2, FS_EmptySet
  <2> QED
    BY <1>1, <1>2, <2>2, <2>3
<1>4. ASSUME NEW i \in K, NEW j \in K, i < j PROVE g[i] # g[j]
  <2>1. {k \in K : k <= i} \in SUBSET {k \in K : k <= j}
    <3>1. i \in Nat /\ j \in Nat
      OBVIOUS
    <3>2. ASSUME NEW k \in K, k <= i PROVE k <= j
      <4>1. k \in Nat
        OBVIOUS
      <4> QED
        BY <1>4, <3>1, <3>2, <4>1
    <3> QED
      BY <3>2
  <2>2. j \in {k \in K : k <= j} /\ j \notin {k \in K : k <= i}
    BY <1>4
  <2> QED
    BY <1>2, <1>3, <2>1, <2>2, FS_Subset
<1>5. g \in Injection(K, 1 .. m)
  <2>1. g \in [K -> 1 .. m]
    BY <1>2, <1>3
  <2>2. ASSUME NEW i \in K, NEW j \in K, g[i] = g[j] PROVE i = j
    <3>1. i < j \/ j < i \/ i = j
      OBVIOUS
    <3> QED
      BY <1>4, <2>2, <3>1
  <2> QED
    BY <2>1, <2>2 DEF Injection, IsInjective
<1>6. IsFiniteSet(1 .. m) /\ Cardinality(1 .. m) = m
  BY FS_Interval
<1>7. g \in Surjection(K, 1 .. m)
  BY <1>1, <1>5, <1>6, FS_Injection
<1>8. PICK i \in K : g[i] = n
  BY <1>1, <1>7 DEF Surjection
<1> QED
  BY <1>2, <1>8

Picks(x, at, m, nth) ==
    /\ nth \in [1 .. m -> at] /\ m \in Nat /\ Picked(x, at) = [k \in 1 .. m |-> x[nth[k]]]
    /\ \A k, l \in 1 .. m : nth[k] = nth[l] => k = l

\* What is picked is at those positions, and once.
LEMMA PickedIs ==
    ASSUME NEW S, NEW n \in Nat, NEW at \in SUBSET (1 .. n), NEW x, \A i \in at : x[i] \in S
    PROVE  Picked(x, at) \in Seq(S) /\ \E m, nth : Picks(x, at, m, nth)
<1>1. at \in SUBSET Nat /\ IsFiniteSet(at)
  <2>1. IsFiniteSet(1 .. n)
    BY FS_Interval
  <2>2. IsFiniteSet(at)
    BY <2>1, FS_Subset
  <2> QED
    BY <2>2
<1>2. PICK m \in Nat : m = Cardinality(at)
  BY <1>1, FS_CardinalityType
<1>3. PICK nth : nth = [k \in 1 .. m |-> CHOOSE i \in at : Cardinality({j \in at : j <= i}) = k]
  OBVIOUS
<1>4. ASSUME NEW k \in 1 .. m
      PROVE  nth[k] \in at /\ Cardinality({j \in at : j <= nth[k]}) = k
  <2>1. \E i \in at : Cardinality({j \in at : j <= i}) = k
    BY <1>1, <1>2, NthExists
  <2> QED
    BY <1>3, <2>1
<1>5. Picked(x, at) = [k \in 1 .. m |-> x[nth[k]]]
  BY <1>2, <1>3 DEF Picked
<1>6. \A k, l \in 1 .. m : nth[k] = nth[l] => k = l
  BY <1>4
<1>7. PICK y : y = [k \in 1 .. m |-> x[nth[k]]]
  OBVIOUS
<1>8. y \in [1 .. m -> S]
  BY <1>4, <1>7
<1>9. y \in Seq(S)
  BY <1>8
<1>10. nth \in [1 .. m -> at]
  BY <1>3, <1>4
<1> QED
  BY <1>2, <1>5, <1>6, <1>7, <1>9, <1>10 DEF Picks

LEMMA PickedLines ==
    ASSUME NEW s \in Seq(Lines), Distinct(s), NEW at \in SUBSET DOMAIN s
    PROVE  /\ Picked(s, at) \in Seq(Lines) /\ Distinct(Picked(s, at))
           /\ \A k \in DOMAIN Picked(s, at) : \E i \in at : Picked(s, at)[k] = s[i]
<1>1. PICK n \in Nat : n = Len(s) /\ DOMAIN s = 1 .. n /\ \A i \in 1 .. n : s[i] \in Lines
  OBVIOUS
<1>2. at \in SUBSET (1 .. n) /\ \A i \in at : s[i] \in Lines
  BY <1>1
<1>3. Picked(s, at) \in Seq(Lines) /\ \E m, nth : Picks(s, at, m, nth)
  BY <1>2, PickedIs
<1>4. PICK m, nth : Picks(s, at, m, nth)
  BY <1>3
<1>5. PICK y : y = Picked(s, at)
  OBVIOUS
<1>6. DOMAIN y = 1 .. m /\ \A k \in 1 .. m : y[k] = s[nth[k]] /\ nth[k] \in at
  BY <1>4, <1>5 DEF Picks
<1>7. Distinct(y)
  <2>1. ASSUME NEW k \in 1 .. m, NEW l \in 1 .. m, y[k].id = y[l].id PROVE k = l
    <3>1. nth[k] \in DOMAIN s /\ nth[l] \in DOMAIN s /\ s[nth[k]].id = s[nth[l]].id
      BY <1>1, <1>2, <1>6, <2>1
    <3>2. nth[k] = nth[l]
      BY <3>1 DEF Distinct
    <3> QED
      BY <1>4, <3>2 DEF Picks
  <2> QED
    BY <1>6, <2>1 DEF Distinct
<1> QED
  BY <1>3, <1>5, <1>6, <1>7

\* The ranks are a strict order of all lines.
LEMMA EarlierOrders ==
    ASSUME NEW s \in Seq(Lines), NEW i \in DOMAIN s, NEW j \in DOMAIN s, NEW k \in DOMAIN s
    PROVE  /\ ~Earlier(s, i, i)
           /\ Earlier(s, i, j) /\ Earlier(s, j, k) => Earlier(s, i, k)
           /\ i # j => Earlier(s, i, j) \/ Earlier(s, j, i)
           /\ s[i].prio < s[j].prio => ~Earlier(s, j, i)
<1>1. s[i] \in Lines /\ s[j] \in Lines /\ s[k] \in Lines /\ i \in Nat /\ j \in Nat /\ k \in Nat
  OBVIOUS
<1>2. \A l \in Lines : l.prio \in Nat /\ l.score \in Nat /\ l.cost \in Nat
  BY DEF Lines
<1> QED
  BY <1>1, <1>2 DEF Earlier, Before

\* A strict order of all the positions.
Orders(s, order) ==
    /\ \A i \in DOMAIN s : <<i, i>> \notin order
    /\ \A i, j, k \in DOMAIN s :
          <<i, j>> \in order /\ <<j, k>> \in order => <<i, k>> \in order
    /\ \A i, j \in DOMAIN s : i # j => <<i, j>> \in order \/ <<j, i>> \in order

InOrder(s, order, nth) ==
    /\ nth \in [DOMAIN s -> DOMAIN s] /\ Ordered(s, order) = [k \in DOMAIN s |-> s[nth[k]]]
    /\ \A k, l \in DOMAIN s : nth[k] = nth[l] => k = l
    /\ \A k, l \in DOMAIN s : k < l => <<nth[l], nth[k]>> \notin order
    /\ s # << >> => \A j \in DOMAIN s : <<j, nth[1]>> \notin order

\* The n-th has n - 1 ahead of it, and there is one such.
LEMMA OrderedIs ==
    ASSUME NEW s \in Seq(Lines), NEW order, Orders(s, order)
    PROVE  \E nth : InOrder(s, order, nth)
<1>1. PICK n \in Nat : n = Len(s) /\ DOMAIN s = 1 .. n
  OBVIOUS
<1>2. PICK ahead : ahead = [i \in 1 .. n |-> {j \in 1 .. n : <<j, i>> \in order}]
  OBVIOUS
<1>3. IsFiniteSet(1 .. n) /\ Cardinality(1 .. n) = n
  BY FS_Interval
<1>4. ASSUME NEW i \in 1 .. n
      PROVE  /\ IsFiniteSet(ahead[i]) /\ Cardinality(ahead[i]) \in Nat
             /\ Cardinality(ahead[i]) + 1 \in 1 .. n
  <2>1. ahead[i] \in SUBSET (1 .. n) /\ i \notin ahead[i]
    BY <1>1, <1>2 DEF Orders
  <2>2. /\ IsFiniteSet(ahead[i]) /\ Cardinality(ahead[i]) <= n
        /\ Cardinality(ahead[i]) = n => ahead[i] = 1 .. n
    BY <1>3, <2>1, FS_Subset
  <2>3. Cardinality(ahead[i]) \in Nat
    BY <2>2, FS_CardinalityType
  <2> QED
    BY <2>1, <2>2, <2>3
<1>5. PICK g : g = [i \in 1 .. n |-> Cardinality(ahead[i]) + 1]
  OBVIOUS
<1>6. ASSUME NEW i \in 1 .. n, NEW j \in 1 .. n, <<i, j>> \in order PROVE g[i] < g[j]
  <2>1. ahead[i] \in SUBSET ahead[j]
    <3>1. ASSUME NEW k \in 1 .. n, <<k, i>> \in order PROVE <<k, j>> \in order
      BY <1>1, <1>6, <3>1 DEF Orders
    <3> QED
      BY <1>2, <3>1
  <2>2. i \in ahead[j] /\ i \notin ahead[i]
    BY <1>1, <1>2, <1>6 DEF Orders
  <2>3. Cardinality(ahead[i]) # Cardinality(ahead[j])
        /\ Cardinality(ahead[i]) <= Cardinality(ahead[j])
    BY <1>4, <2>1, <2>2, FS_Subset
  <2>4. PICK c \in Nat, d \in Nat : c = Cardinality(ahead[i]) /\ d = Cardinality(ahead[j])
    BY <1>4
  <2> QED
    BY <1>5, <2>3, <2>4
<1>7. g \in Injection(1 .. n, 1 .. n)
  <2>1. g \in [1 .. n -> 1 .. n]
    BY <1>4, <1>5
  <2>2. ASSUME NEW i \in 1 .. n, NEW j \in 1 .. n, g[i] = g[j] PROVE i = j
    <3>1. g[i] \in Nat /\ g[j] \in Nat
      BY <2>1
    <3>2. ASSUME <<i, j>> \in order PROVE FALSE
      <4>1. g[i] < g[j]
        BY <1>6, <3>2
      <4> QED
        BY <2>2, <3>1, <4>1
    <3>3. ASSUME <<j, i>> \in order PROVE FALSE
      <4>1. g[j] < g[i]
        BY <1>6, <3>3
      <4> QED
        BY <2>2, <3>1, <4>1
    <3> QED
      BY <1>1, <3>2, <3>3 DEF Orders
  <2> QED
    BY <2>1, <2>2 DEF Injection, IsInjective
<1>8. g \in Surjection(1 .. n, 1 .. n)
  BY <1>3, <1>7, FS_Injection
<1>9. PICK nth : nth = [k \in 1 .. n |->
             CHOOSE i \in 1 .. n : Cardinality({j \in 1 .. n : <<j, i>> \in order}) = k - 1]
  OBVIOUS
<1>10. ASSUME NEW k \in 1 .. n PROVE nth[k] \in 1 .. n /\ Cardinality(ahead[nth[k]]) = k - 1
  <2>1. PICK i \in 1 .. n : g[i] = k
    BY <1>8 DEF Surjection
  <2>2. Cardinality(ahead[i]) = k - 1
    <3>1. PICK c \in Nat : c = Cardinality(ahead[i])
      BY <1>4
    <3>2. g[i] = c + 1
      BY <1>5, <3>1
    <3> QED
      BY <2>1, <3>1, <3>2
  <2>3. \E h \in 1 .. n : Cardinality({j \in 1 .. n : <<j, h>> \in order}) = k - 1
    BY <1>2, <2>2
  <2>4. nth[k] \in 1 .. n /\ Cardinality({j \in 1 .. n : <<j, nth[k]>> \in order}) = k - 1
    BY <1>9, <2>3
  <2> QED
    BY <1>2, <2>4
<1>11. Ordered(s, order) = [k \in 1 .. n |-> s[nth[k]]]
  BY <1>1, <1>9 DEF Ordered
<1>12. nth \in [1 .. n -> 1 .. n]
  BY <1>9, <1>10
<1>13. ASSUME NEW k \in 1 .. n, NEW l \in 1 .. n, nth[k] = nth[l] PROVE k = l
  <2>1. k - 1 = l - 1
    BY <1>10, <1>13
  <2> QED
    BY <2>1
<1>14. ASSUME NEW k \in 1 .. n, NEW l \in 1 .. n, k < l PROVE <<nth[l], nth[k]>> \notin order
  <2>1. nth[k] \in 1 .. n /\ nth[l] \in 1 .. n
    BY <1>10
  <2>2. g[nth[k]] = k /\ g[nth[l]] = l
    BY <1>5, <1>10
  <2> QED
    BY <1>6, <1>14, <2>1, <2>2
<1>15. ASSUME s # << >>, NEW j \in 1 .. n PROVE <<j, nth[1]>> \notin order
  <2>1. 1 \in 1 .. n
    BY <1>1
  <2>2. ahead[nth[1]] = {}
    <3>1. nth[1] \in 1 .. n /\ Cardinality(ahead[nth[1]]) = 0
      BY <1>10, <2>1
    <3>2. IsFiniteSet(ahead[nth[1]])
      BY <1>4, <3>1
    <3> QED
      BY <3>1, <3>2, FS_EmptySet
  <2> QED
    BY <1>2, <1>10, <2>1, <2>2
<1> QED
  BY <1>1, <1>11, <1>12, <1>13, <1>14, <1>15 DEF InOrder

Ranks(s, nth) ==
    /\ nth \in [DOMAIN s -> DOMAIN s] /\ Ranked(s) = [k \in DOMAIN s |-> s[nth[k]]]
    /\ \A k, l \in DOMAIN s : nth[k] = nth[l] => k = l
    /\ s # << >> => \A j \in DOMAIN s : ~Earlier(s, j, nth[1])

LEMMA RankedIs == ASSUME NEW s \in Seq(Lines) PROVE \E nth : Ranks(s, nth)
<1>1. PICK n \in Nat : n = Len(s) /\ DOMAIN s = 1 .. n
  OBVIOUS
<1>2. PICK order : order = {p \in Places(s) : Earlier(s, p[1], p[2])}
  OBVIOUS
<1>3. \A i, j \in DOMAIN s : <<i, j>> \in order <=> Earlier(s, i, j)
  BY <1>2 DEF Places
<1>4. Orders(s, order)
  BY <1>3, EarlierOrders DEF Orders
<1>5. PICK nth : InOrder(s, order, nth)
  BY <1>4, OrderedIs
<1>6. Ranked(s) = Ordered(s, order)
  BY <1>2 DEF Ranked
<1>7. s # << >> => nth[1] \in DOMAIN s
  BY <1>1, <1>5 DEF InOrder
<1> QED
  BY <1>3, <1>5, <1>6, <1>7 DEF InOrder, Ranks

\* A line of a priority above all others is the first.
LEMMA RankedLines ==
    ASSUME NEW s \in Seq(Lines)
    PROVE  /\ Ranked(s) \in Seq(Lines) /\ Len(Ranked(s)) = Len(s)
           /\ \A k \in DOMAIN s : \E i \in DOMAIN s : Ranked(s)[k] = s[i]
           /\ Distinct(s) => Distinct(Ranked(s))
           /\ \A i \in DOMAIN s : (\A j \in DOMAIN s : j # i => s[i].prio < s[j].prio)
                                  => Ranked(s)[1] = s[i]
<1>1. PICK n \in Nat : n = Len(s) /\ DOMAIN s = 1 .. n /\ \A i \in 1 .. n : s[i] \in Lines
  OBVIOUS
<1>2. PICK nth : Ranks(s, nth)
  BY RankedIs
<1>3. PICK r : r = Ranked(s)
  OBVIOUS
<1>4. r \in [1 .. n -> Lines] /\ \A k \in 1 .. n : r[k] = s[nth[k]] /\ nth[k] \in 1 .. n
  BY <1>1, <1>2, <1>3 DEF Ranks
<1>5. r \in Seq(Lines) /\ Len(r) = n /\ DOMAIN r = 1 .. n
  BY <1>4
<1>6. ASSUME Distinct(s) PROVE Distinct(r)
  <2>1. ASSUME NEW k \in 1 .. n, NEW l \in 1 .. n, r[k].id = r[l].id PROVE k = l
    <3>1. /\ nth[k] \in DOMAIN s /\ nth[l] \in DOMAIN s /\ s[nth[k]].id = s[nth[l]].id
          /\ k \in DOMAIN s /\ l \in DOMAIN s
      BY <1>1, <1>4, <2>1
    <3>2. nth[k] = nth[l]
      BY <1>6, <3>1 DEF Distinct
    <3> QED
      BY <1>2, <3>1, <3>2 DEF Ranks
  <2> QED
    BY <1>5, <2>1 DEF Distinct
<1>7. ASSUME NEW i \in 1 .. n, \A j \in 1 .. n : j # i => s[i].prio < s[j].prio
      PROVE  r[1] = s[i]
  <2>1. 1 \in 1 .. n /\ s # << >>
    BY <1>1
  <2>2. ~Earlier(s, i, nth[1]) /\ nth[1] \in 1 .. n
    BY <1>1, <1>2, <2>1 DEF Ranks
  <2>3. CASE nth[1] # i
    <3>1. s[i].prio < s[nth[1]].prio
      BY <1>7, <2>2, <2>3
    <3>2. Earlier(s, i, nth[1])
      BY <3>1 DEF Earlier, Before
    <3> QED
      BY <2>2, <3>2
  <2>4. CASE nth[1] = i
    BY <1>4, <2>1, <2>4
  <2> QED
    BY <2>3, <2>4
<1> QED
  BY <1>1, <1>3, <1>4, <1>5, <1>6, <1>7

-----------------------------------------------------------------------------
(* Cutting                                                                 *)

Like(l, m) == l.id = m.id /\ l.title = m.title /\ l.prio = m.prio

LEMMA CutLine ==
    ASSUME NEW l \in Lines, NEW c \in Nat \ {0}
    PROVE  /\ [l EXCEPT !.cost = c] \in Lines /\ [l EXCEPT !.cost = c].cost = c
           /\ Like([l EXCEPT !.cost = c], l)
BY DEF Lines, Like

LEMMA FittedIs ==
    ASSUME NEW l \in Lines, NEW room \in Int
    PROVE  Fitted(l, room) \in Int /\ (l.title <= room => Fitted(l, room) \in 1 .. room)
<1>1. l.cost \in Nat \ {0} /\ l.title \in Nat \ {0}
  BY DEF Lines
<1> QED
  BY <1>1 DEF Fitted

LEMMA TakeIs ==
    ASSUME NEW t \in Seq(Lines), NEW l \in Lines, NEW max \in Int
    PROVE  /\ Take(t, l, max) \in Seq(Lines)
           /\ \/ Take(t, l, max) = t
              \/ \E m \in Lines : /\ Like(m, l) /\ Take(t, l, max) = Append(t, m)
                                  /\ Tokens(t) + m.cost <= max
           /\ t = << >> /\ l.title <= max => Take(t, l, max) # t
<1>1. PICK room, cost : /\ room = max - Tokens(t)
                        /\ cost = IF t = << >> THEN Fitted(l, room) ELSE l.cost
  OBVIOUS
<1>2. Tokens(t) \in Nat /\ room \in Int
  BY <1>1, TokensNatural
<1>3. Take(t, l, max) = IF room > 0 /\ cost \in 1 .. room
                        THEN Append(t, [l EXCEPT !.cost = cost]) ELSE t
  BY <1>1 DEF Take
<1>4. CASE room > 0 /\ cost \in 1 .. room
  <2>1. PICK m : m = [l EXCEPT !.cost = cost]
    OBVIOUS
  <2>2. m \in Lines /\ m.cost = cost /\ Like(m, l)
    BY <1>2, <1>4, <2>1, CutLine
  <2>3. Take(t, l, max) = Append(t, m) /\ Tokens(t) + m.cost <= max
    BY <1>1, <1>2, <1>3, <1>4, <2>1, <2>2
  <2>4. Append(t, m) \in Seq(Lines) /\ Append(t, m) # t
    <3>1. Append(t, m) \in Seq(Lines) /\ Len(Append(t, m)) = Len(t) + 1 /\ Len(t) \in Nat
      BY <2>2, AppendProperties
    <3> QED
      BY <3>1
  <2> QED
    BY <2>2, <2>3, <2>4
<1>5. CASE ~(room > 0 /\ cost \in 1 .. room)
  <2>1. ASSUME t = << >>, l.title <= max PROVE FALSE
    <3>1. room = max
      BY <1>1, <2>1, NoTokens
    <3>2. cost \in 1 .. room
      BY <1>1, <2>1, <3>1, FittedIs
    <3> QED
      BY <1>2, <1>5, <3>2
  <2> QED
    BY <1>3, <1>5, <2>1
<1> QED
  BY <1>4, <1>5

Takes(r, max, f) ==
    /\ f \in [0 .. Len(r) -> Seq(Lines)]
    /\ f[0] = << >> /\ \A n \in 1 .. Len(r) : f[n] = Take(f[n - 1], r[n], max)

LEMMA GreedyTakes ==
    ASSUME NEW s \in Seq(Lines), NEW max \in Int
    PROVE  \E f : Takes(Ranked(s), max, f) /\ GreedyTruncate(s, max) = f[Len(s)]
<1>1. PICK r : r = Ranked(s)
  OBVIOUS
<1>2. PICK n \in Nat : n = Len(s) /\ n = Len(r) /\ r \in Seq(Lines) /\ \A i \in 1 .. n :
             r[i] \in Lines
  <2>1. Ranked(s) \in Seq(Lines) /\ Len(Ranked(s)) = Len(s)
    BY RankedLines
  <2>2. Len(s) \in Nat /\ \A i \in 1 .. Len(s) : r[i] \in Lines
    BY <1>1, <2>1
  <2> QED
    BY <1>1, <2>1, <2>2
<1>3. PICK Q : Q = Seq(Lines)
  OBVIOUS
<1>4. PICK step : step = [i \in 1 .. n |-> [t \in Q |-> Take(t, r[i], max)]]
  OBVIOUS
<1>5. step \in Steps(n, Q)
  <2>1. \A i \in 1 .. n : \A t \in Q : Take(t, r[i], max) \in Q
    BY <1>2, <1>3, TakeIs
  <2> QED
    BY <1>4, <2>1 DEF Steps
<1>6. PICK f : Solves(f, n, Q, << >>, step)
  <2>1. << >> \in Q
    BY <1>3, NoTokens
  <2> QED
    BY <1>5, <2>1, Recursion, Zenon
<1>7. /\ f \in [0 .. n -> Q] /\ f[0] = << >>
      /\ \A i \in 1 .. n : f[i] = Take(f[i - 1], r[i], max)
  <2>1. f \in [0 .. n -> Q] /\ f[0] = << >> /\ \A i \in 1 .. n : f[i] = step[i][f[i - 1]]
    BY <1>6 DEF Solves
  <2>2. ASSUME NEW i \in 1 .. n PROVE f[i] = Take(f[i - 1], r[i], max)
    <3>1. f[i - 1] \in Q
      BY <2>1
    <3> QED
      BY <1>4, <2>1, <3>1
  <2> QED
    BY <2>1, <2>2
<1>8. f = [i \in 0 .. n |-> IF i = 0 THEN << >> ELSE Take(f[i - 1], r[i], max)]
  <2>1. PICK h : h = [i \in 0 .. n |-> IF i = 0 THEN << >> ELSE Take(f[i - 1], r[i], max)]
    OBVIOUS
  <2>2. \A i \in 0 .. n : h[i] = f[i]
    BY <1>7, <2>1
  <2>3. h = f
    BY <1>7, <2>1, <2>2
  <2> QED
    BY <2>1, <2>3
<1>9. PICK g : /\ g = [i \in 0 .. n |-> IF i = 0 THEN << >> ELSE Take(g[i - 1], r[i], max)]
               /\ GreedyTruncate(s, max) = g[n]
  BY <1>1, <1>2, <1>8 DEF GreedyTruncate
<1>10. PICK P : P = {i \in 0 .. n : g[i] = f[i]}
  OBVIOUS
<1>11. 0 \in P
  BY <1>7, <1>9, <1>10
<1>12. ASSUME NEW i \in 1 .. n, i - 1 \in P PROVE i \in P
  <2>1. g[i - 1] = f[i - 1] /\ i \in 0 .. n /\ i # 0
    BY <1>10, <1>12
  <2>2. g[i] = Take(g[i - 1], r[i], max)
    BY <1>9, <2>1
  <2>3. f[i] = Take(f[i - 1], r[i], max)
    BY <1>7
  <2> QED
    BY <1>10, <2>1, <2>2, <2>3
<1>13. n \in P
  <2>1. \A i \in 1 .. n : i - 1 \in P => i \in P
    BY <1>12
  <2>2. \A i \in 0 .. n : i \in P
    BY <1>11, <2>1, UpTo, Zenon
  <2> QED
    BY <2>2
<1> QED
  BY <1>1, <1>2, <1>3, <1>7, <1>9, <1>10, <1>13 DEF Takes

\* What has been taken of the first n lines: none of it twice, within the
\* limit, and the first of them if its title fits.
Taken(r, n, max, t) ==
    /\ t \in Seq(Lines) /\ Distinct(t) /\ Tokens(t) <= Larger(0, max)
    /\ \A k \in DOMAIN t : \E i \in 1 .. n : Like(t[k], r[i])
    /\ n > 0 /\ r[1].title <= max => t # << >> /\ t[1].id = r[1].id

LEMMA TakenMore ==
    ASSUME NEW r \in Seq(Lines), Distinct(r), NEW n \in 1 .. Len(r), NEW max \in Int,
           NEW t, Taken(r, n - 1, max, t)
    PROVE  Taken(r, n, max, Take(t, r[n], max))
<1>1. PICK u : u = Take(t, r[n], max)
  OBVIOUS
<1>2. /\ t \in Seq(Lines) /\ Distinct(t) /\ Tokens(t) <= Larger(0, max)
      /\ \A k \in DOMAIN t : \E i \in 1 .. n - 1 : Like(t[k], r[i])
      /\ n - 1 > 0 /\ r[1].title <= max => t # << >> /\ t[1].id = r[1].id
  BY DEF Taken
<1>3. PICK len \in Nat : len = Len(r) /\ DOMAIN r = 1 .. len /\ \A i \in 1 .. len : r[i] \in Lines
  OBVIOUS
<1>4. PICK m \in Nat : m = Len(t) /\ DOMAIN t = 1 .. m /\ (t = << >> <=> m = 0)
  BY <1>2
<1>5. CASE u = t
  <2>1. ~(t = << >> /\ r[n].title <= max)
    BY <1>1, <1>2, <1>3, <1>5, TakeIs
  <2>2. n = 1 \/ n - 1 > 0
    OBVIOUS
  <2>3. r[1].title <= max => t # << >> /\ t[1].id = r[1].id
    <3>1. CASE n = 1
      <4>1. ASSUME r[1].title <= max PROVE t # << >> /\ t[1].id = r[1].id
        <5>1. t # << >>
          BY <2>1, <3>1, <4>1
        <5>2. 1 \in DOMAIN t
          BY <1>4, <5>1
        <5> QED
          BY <1>2, <3>1, <5>2
      <4> QED
        BY <4>1
    <3> QED
      BY <1>2, <2>2, <3>1
  <2>4. \A k \in DOMAIN t : \E i \in 1 .. n : Like(t[k], r[i])
    BY <1>2
  <2> QED
    BY <1>1, <1>2, <1>5, <2>3, <2>4 DEF Taken
<1>6. CASE u # t
  <2>1. PICK l \in Lines : Like(l, r[n]) /\ u = Append(t, l) /\ Tokens(t) + l.cost <= max
    BY <1>1, <1>2, <1>3, <1>6, TakeIs
  <2>2. /\ u \in Seq(Lines) /\ u # << >> /\ DOMAIN u = 1 .. m + 1 /\ u[m + 1] = l
        /\ \A k \in 1 .. m : u[k] = t[k]
    BY <1>2, <1>4, <2>1, AppendProperties
  <2>3. Tokens(u) <= Larger(0, max)
    <3>1. Tokens(u) = Tokens(t) + l.cost
      BY <1>2, <2>1, TokensAppend
    <3>2. Tokens(u) \in Nat
      BY <2>2, TokensNatural
    <3> QED
      BY <2>1, <3>1, <3>2 DEF Larger
  <2>4. ASSUME NEW k \in 1 .. m + 1 PROVE \E i \in 1 .. n : Like(u[k], r[i])
    <3>1. CASE k = m + 1
      BY <2>1, <2>2, <3>1
    <3>2. CASE k # m + 1
      <4>1. k \in DOMAIN t /\ u[k] = t[k]
        BY <1>4, <2>2, <3>2
      <4>2. PICK i \in 1 .. n - 1 : Like(t[k], r[i])
        BY <1>2, <4>1
      <4> QED
        BY <4>1, <4>2
    <3> QED
      BY <3>1, <3>2
  <2>5. ASSUME NEW k \in 1 .. m PROVE u[k].id # u[m + 1].id
    <3>1. PICK i \in 1 .. n - 1 : Like(t[k], r[i])
      BY <1>2, <1>4
    <3>2. i \in DOMAIN r /\ n \in DOMAIN r /\ i # n
      BY <1>3
    <3>3. r[i].id # r[n].id
      BY <3>2 DEF Distinct
    <3> QED
      BY <2>1, <2>2, <3>1, <3>3 DEF Like
  <2>6. Distinct(u)
    <3>1. ASSUME NEW k \in 1 .. m + 1, NEW j \in 1 .. m + 1, u[k].id = u[j].id PROVE k = j
      <4>1. CASE k \in 1 .. m /\ j \in 1 .. m
        BY <1>2, <1>4, <2>2, <3>1, <4>1 DEF Distinct
      <4>2. CASE k = m + 1 /\ j # m + 1
        BY <2>5, <3>1, <4>2
      <4>3. CASE k # m + 1 /\ j = m + 1
        BY <2>5, <3>1, <4>3
      <4> QED
        BY <4>1, <4>2, <4>3
    <3> QED
      BY <2>2, <3>1 DEF Distinct
  <2>7. ASSUME r[1].title <= max PROVE u[1].id = r[1].id
    <3>1. CASE m = 0
      <4>1. n = 1
        BY <1>2, <1>4, <2>7, <3>1
      <4> QED
        BY <2>1, <2>2, <3>1, <4>1 DEF Like
    <3>2. CASE m # 0
      <4>1. t[1].id = r[1].id
        <5>1. CASE n = 1
          <6>1. 1 \in DOMAIN t
            BY <1>4, <3>2
          <6> QED
            BY <1>2, <5>1, <6>1
        <5>2. CASE n # 1
          BY <1>2, <2>7, <5>2
        <5> QED
          BY <5>1, <5>2
      <4> QED
        BY <2>2, <3>2, <4>1
    <3> QED
      BY <3>1, <3>2
  <2> QED
    BY <1>1, <2>2, <2>3, <2>4, <2>6, <2>7 DEF Taken
<1> QED
  BY <1>5, <1>6

LEMMA GreedyIs ==
    ASSUME NEW s \in Seq(Lines), Distinct(s), NEW max \in Int
    PROVE  /\ Taken(Ranked(s), Len(s), max, GreedyTruncate(s, max))
           /\ \A k \in DOMAIN GreedyTruncate(s, max) :
                 \E i \in DOMAIN s : Like(GreedyTruncate(s, max)[k], s[i])
<1>1. PICK r : r = Ranked(s)
  OBVIOUS
<1>2. PICK n \in Nat : n = Len(s) /\ n = Len(r) /\ r \in Seq(Lines) /\ Distinct(r)
  BY <1>1, RankedLines
<1>3. PICK f : Takes(r, max, f) /\ GreedyTruncate(s, max) = f[n]
  BY <1>1, <1>2, GreedyTakes
<1>4. PICK P : P = {i \in 0 .. n : Taken(r, i, max, f[i])}
  OBVIOUS
<1>5. 0 \in P
  <2>1. f[0] = << >>
    BY <1>3 DEF Takes
  <2>2. Tokens(<< >>) <= Larger(0, max) /\ << >> \in Seq(Lines) /\ Distinct(<< >>)
    BY NoTokens DEF Larger, Distinct
  <2>3. DOMAIN << >> = {} /\ ~(0 > 0)
    OBVIOUS
  <2>4. Taken(r, 0, max, << >>)
    BY <2>2, <2>3 DEF Taken
  <2> QED
    BY <1>4, <2>1, <2>4
<1>6. ASSUME NEW i \in 1 .. n, i - 1 \in P PROVE i \in P
  <2>1. f[i] = Take(f[i - 1], r[i], max)
    BY <1>2, <1>3 DEF Takes
  <2>2. Taken(r, i - 1, max, f[i - 1])
    BY <1>4, <1>6
  <2>3. Taken(r, i, max, f[i])
    BY <1>2, <2>1, <2>2, TakenMore
  <2> QED
    BY <1>4, <2>3
<1>7. n \in P
  <2>1. \A i \in 1 .. n : i - 1 \in P => i \in P
    BY <1>6
  <2>2. \A i \in 0 .. n : i \in P
    BY <1>5, <2>1, UpTo, Zenon
  <2> QED
    BY <2>2
<1>8. PICK g : g = GreedyTruncate(s, max)
  OBVIOUS
<1>9. Taken(r, n, max, g)
  BY <1>3, <1>4, <1>7, <1>8
<1>10. ASSUME NEW k \in DOMAIN g PROVE \E i \in DOMAIN s : Like(g[k], s[i])
  <2>1. PICK j \in 1 .. n : Like(g[k], r[j])
    BY <1>9 DEF Taken
  <2>2. j \in DOMAIN s
    <3>1. DOMAIN s = 1 .. Len(s)
      OBVIOUS
    <3> QED
      BY <1>2, <3>1
  <2>3. PICK i \in DOMAIN s : r[j] = s[i]
    BY <1>1, <2>2, RankedLines
  <2> QED
    BY <2>1, <2>3
<1> QED
  BY <1>1, <1>2, <1>8, <1>9, <1>10

-----------------------------------------------------------------------------
(* The channels                                                            *)

Chans == {"neurons", "graph", "procedures"}

\* No id comes twice in lines, in one channel or in two.
Apart(lines) ==
    /\ lines \in [Chans -> Seq(Lines)] /\ \A c \in Chans : Distinct(lines[c])
    /\ \A c, d \in Chans : c # d => Ids(lines[c]) \cap Ids(lines[d]) = {}

\* What has been taken of each channel.
Of(got, lines) ==
    /\ got \in [Chans -> Seq(Lines)] /\ \A c \in Chans : Distinct(got[c])
    /\ \A c \in Chans : \A k \in DOMAIN got[c] :
          \E i \in DOMAIN lines[c] : Like(got[c][k], lines[c][i])

LEMMA ConcatLines ==
    ASSUME NEW S, NEW s \in Seq(S), NEW t \in Seq(S)
    PROVE  /\ s \o t \in Seq(S) /\ Len(s \o t) = Len(s) + Len(t)
           /\ \A k \in DOMAIN (s \o t) : \/ \E i \in DOMAIN s : (s \o t)[k] = s[i]
                                         \/ \E i \in DOMAIN t : (s \o t)[k] = t[i]
           /\ Ids(s \o t) = Ids(s) \cup Ids(t)
           /\ Distinct(s) /\ Distinct(t) /\ Ids(s) \cap Ids(t) = {} => Distinct(s \o t)
<1>1. PICK m \in Nat, n \in Nat : m = Len(s) /\ DOMAIN s = 1 .. m /\ n = Len(t) /\
             DOMAIN t = 1 .. n
  OBVIOUS
<1>2. PICK z : z = s \o t
  OBVIOUS
<1>3. /\ z \in Seq(S) /\ DOMAIN z = 1 .. m + n /\ Len(z) = m + n
      /\ \A i \in 1 .. m + n : z[i] = IF i <= m THEN s[i] ELSE t[i - m]
  BY <1>1, <1>2, ConcatProperties
<1>4. ASSUME NEW k \in 1 .. m + n
      PROVE  \/ k \in 1 .. m /\ z[k] = s[k]
             \/ k - m \in 1 .. n /\ z[k] = t[k - m]
  BY <1>3
<1>5. ASSUME NEW i \in 1 .. m PROVE i \in 1 .. m + n /\ z[i] = s[i]
  BY <1>3
<1>6. ASSUME NEW i \in 1 .. n PROVE m + i \in 1 .. m + n /\ z[m + i] = t[i]
  <2>1. m + i \in 1 .. m + n /\ ~(m + i <= m) /\ (m + i) - m = i
    OBVIOUS
  <2> QED
    BY <1>3, <2>1
<1>7. \A k \in DOMAIN z : (\E i \in DOMAIN s : z[k] = s[i]) \/ (\E i \in DOMAIN t : z[k] = t[i])
  BY <1>1, <1>3, <1>4
<1>8. Ids(z) = Ids(s) \cup Ids(t)
  <2>1. ASSUME NEW k \in 1 .. m + n PROVE z[k].id \in Ids(s) \cup Ids(t)
    BY <1>1, <1>4 DEF Ids
  <2>2. ASSUME NEW i \in 1 .. m PROVE s[i].id \in Ids(z)
    BY <1>3, <1>5 DEF Ids
  <2>3. ASSUME NEW i \in 1 .. n PROVE t[i].id \in Ids(z)
    BY <1>3, <1>6 DEF Ids
  <2>4. Ids(z) \subseteq Ids(s) \cup Ids(t)
    BY <1>3, <2>1 DEF Ids
  <2>5. Ids(s) \subseteq Ids(z) /\ Ids(t) \subseteq Ids(z)
    BY <1>1, <2>2, <2>3 DEF Ids
  <2> QED
    BY <2>4, <2>5
<1>9. ASSUME Distinct(s), Distinct(t), Ids(s) \cap Ids(t) = {} PROVE Distinct(z)
  <2>1. ASSUME NEW k \in 1 .. m + n, NEW l \in 1 .. m + n, z[k].id = z[l].id PROVE k = l
    <3>1. CASE k \in 1 .. m /\ z[k] = s[k] /\ l \in 1 .. m /\ z[l] = s[l]
      BY <1>1, <1>9, <2>1, <3>1 DEF Distinct
    <3>2. CASE k \in 1 .. m /\ z[k] = s[k] /\ l - m \in 1 .. n /\ z[l] = t[l - m]
      <4>1. z[k].id \in Ids(s) /\ z[l].id \in Ids(t)
        BY <1>1, <3>2 DEF Ids
      <4> QED
        BY <1>9, <2>1, <4>1
    <3>3. CASE k - m \in 1 .. n /\ z[k] = t[k - m] /\ l \in 1 .. m /\ z[l] = s[l]
      <4>1. z[l].id \in Ids(s) /\ z[k].id \in Ids(t)
        BY <1>1, <3>3 DEF Ids
      <4> QED
        BY <1>9, <2>1, <4>1
    <3>4. CASE k - m \in 1 .. n /\ z[k] = t[k - m] /\ l - m \in 1 .. n /\ z[l] = t[l - m]
      <4>1. k - m = l - m
        BY <1>1, <1>9, <2>1, <3>4 DEF Distinct
      <4> QED
        BY <4>1
    <3> QED
      BY <1>4, <3>1, <3>2, <3>3, <3>4
  <2> QED
    BY <1>3, <2>1 DEF Distinct
<1> QED
  BY <1>1, <1>2, <1>3, <1>7, <1>8, <1>9

Joins(s, t, z) ==
    /\ z \in Seq(Lines) /\ Distinct(z) /\ Ids(z) = Ids(s) \cup Ids(t)
    /\ \A k \in DOMAIN z : (\E i \in DOMAIN s : z[k] = s[i]) \/ (\E i \in DOMAIN t : z[k] = t[i])

LEMMA TwoApart ==
    ASSUME NEW s \in Seq(Lines), NEW t \in Seq(Lines), Distinct(s), Distinct(t),
           Ids(s) \cap Ids(t) = {}
    PROVE  Joins(s, t, s \o t)
BY ConcatLines DEF Joins

LEMMA LikeIds ==
    ASSUME NEW s \in Seq(Lines), NEW t \in Seq(Lines),
           \A k \in DOMAIN t : \E i \in DOMAIN s : Like(t[k], s[i])
    PROVE  Ids(t) \subseteq Ids(s)
BY DEF Ids, Like

LEMMA OfIds ==
    ASSUME NEW lines, Apart(lines), NEW got, Of(got, lines), NEW c \in Chans
    PROVE  Ids(got[c]) \subseteq Ids(lines[c])
<1>1. lines[c] \in Seq(Lines) /\ got[c] \in Seq(Lines)
  BY DEF Apart, Of
<1> QED
  BY <1>1, LikeIds DEF Of

LEMMA PartsIs ==
    ASSUME NEW lines, Apart(lines), NEW got, Of(got, lines)
    PROVE  /\ Parts(got) \in Seq(Lines) /\ Distinct(Parts(got))
           /\ Ids(Parts(got)) = Ids(got.neurons) \cup Ids(got.graph) \cup Ids(got.procedures)
           /\ \A k \in DOMAIN Parts(got) : \E c \in Chans : \E i \in DOMAIN lines[c] :
                 Like(Parts(got)[k], lines[c][i])
<1>1. PICK a, b, c : a = got.neurons /\ b = got.graph /\ c = got.procedures
  OBVIOUS
<1>2. /\ a \in Seq(Lines) /\ b \in Seq(Lines) /\ c \in Seq(Lines)
      /\ Distinct(a) /\ Distinct(b) /\ Distinct(c)
  BY <1>1 DEF Of, Chans
<1>3. Ids(a) \cap Ids(b) = {} /\ Ids(a) \cap Ids(c) = {} /\ Ids(b) \cap Ids(c) = {}
  <2>1. /\ Ids(a) \subseteq Ids(lines["neurons"]) /\ Ids(b) \subseteq Ids(lines["graph"])
        /\ Ids(c) \subseteq Ids(lines["procedures"])
    BY <1>1, OfIds DEF Chans
  <2>2. /\ Ids(lines["neurons"]) \cap Ids(lines["graph"]) = {}
        /\ Ids(lines["neurons"]) \cap Ids(lines["procedures"]) = {}
        /\ Ids(lines["graph"]) \cap Ids(lines["procedures"]) = {}
    BY DEF Apart, Chans
  <2> QED
    BY <2>1, <2>2
<1>4. PICK d : d = a \o b
  OBVIOUS
<1>5. Joins(a, b, d)
  BY <1>2, <1>3, <1>4, TwoApart
<1>6. PICK e : e = d \o c
  OBVIOUS
<1>7. Joins(d, c, e)
  <2>1. Ids(d) \cap Ids(c) = {} /\ d \in Seq(Lines) /\ Distinct(d)
    BY <1>3, <1>5 DEF Joins
  <2> QED
    BY <1>2, <1>6, <2>1, TwoApart
<1>8. Parts(got) = e
  BY <1>1, <1>4, <1>6 DEF Parts
<1>9. ASSUME NEW k \in DOMAIN e
      PROVE \E ch \in Chans : \E i \in DOMAIN lines[ch] : Like(e[k], lines[ch][i])
  <2>1. \E ch \in Chans : \E i \in DOMAIN got[ch] : e[k] = got[ch][i]
    <3>1. "neurons" \in Chans /\ "graph" \in Chans /\ "procedures" \in Chans
      BY DEF Chans
    <3>2. got["neurons"] = a /\ got["graph"] = b /\ got["procedures"] = c
      BY <1>1
    <3> QED
      BY <1>5, <1>7, <3>1, <3>2 DEF Joins
  <2> QED
    BY <2>1 DEF Of
<1> QED
  BY <1>1, <1>5, <1>7, <1>8, <1>9 DEF Joins

LEMMA RefillIs ==
    ASSUME NEW lines, Apart(lines), NEW got, Of(got, lines), NEW c \in Chans,
           NEW slot \in SlotRecords
    PROVE  /\ Of(Refill(got, c, lines, slot), lines)
           /\ \A d \in Chans : Ids(got[d]) \subseteq Ids(Refill(got, c, lines, slot)[d])
<1>1. PICK at : at = {i \in DOMAIN lines[c] : lines[c][i].id \notin Ids(got[c])}
  OBVIOUS
<1>2. PICK omitted : omitted = Picked(lines[c], at)
  OBVIOUS
<1>3. lines[c] \in Seq(Lines) /\ Distinct(lines[c]) /\ got[c] \in Seq(Lines) /\ Distinct(got[c])
  BY DEF Apart, Of
<1>4. /\ omitted \in Seq(Lines) /\ Distinct(omitted)
      /\ \A k \in DOMAIN omitted : \E i \in at : omitted[k] = lines[c][i]
  <2>1. at \in SUBSET DOMAIN lines[c]
    BY <1>1
  <2> QED
    BY <1>2, <1>3, <2>1, PickedLines
<1>5. PICK room : room = Whole(slot) - Tokens(Parts(got))
  OBVIOUS
<1>6. room \in Int
  <2>1. Whole(slot) \in Nat
    BY DEF SlotRecords, Whole
  <2>2. Tokens(Parts(got)) \in Nat
    BY PartsIs, TokensNatural
  <2> QED
    BY <1>5, <2>1, <2>2
<1>7. PICK x : x = GreedyTruncate(omitted, room)
  OBVIOUS
<1>8. /\ x \in Seq(Lines) /\ Distinct(x)
      /\ \A k \in DOMAIN x : \E i \in DOMAIN omitted : Like(x[k], omitted[i])
  BY <1>4, <1>6, <1>7, GreedyIs DEF Taken
<1>9. \A k \in DOMAIN x : \E i \in at : Like(x[k], lines[c][i])
  BY <1>4, <1>8
<1>10. Ids(x) \cap Ids(got[c]) = {}
  BY <1>1, <1>9 DEF Ids, Like
<1>11. PICK y : y = got[c] \o x
  OBVIOUS
<1>12. /\ y \in Seq(Lines) /\ Distinct(y) /\ Ids(y) = Ids(got[c]) \cup Ids(x)
       /\ \A k \in DOMAIN y : (\E i \in DOMAIN got[c] :
             y[k] = got[c][i]) \/ (\E i \in DOMAIN x : y[k] = x[i])
  <2>1. Ids(got[c]) \cap Ids(x) = {}
    BY <1>10
  <2> QED
    BY <1>3, <1>8, <1>11, <2>1, ConcatLines
<1>13. \A k \in DOMAIN y : \E i \in DOMAIN lines[c] : Like(y[k], lines[c][i])
  BY <1>1, <1>9, <1>12 DEF Of
<1>14. PICK new : new = Refill(got, c, lines, slot)
  OBVIOUS
<1>15. new = [got EXCEPT ![c] = y]
  BY <1>1, <1>2, <1>5, <1>7, <1>11, <1>14 DEF Refill
<1>16. got \in [Chans -> Seq(Lines)]
  BY DEF Of
<1>17. new \in [Chans -> Seq(Lines)] /\ new[c] = y /\ \A d \in Chans : d # c => new[d] = got[d]
  BY <1>12, <1>15, <1>16
<1>18. Of(new, lines)
  <2>1. ASSUME NEW d \in Chans
        PROVE  /\ Distinct(new[d])
               /\ \A k \in DOMAIN new[d] : \E i \in DOMAIN lines[d] : Like(new[d][k], lines[d][i])
    <3>1. CASE d = c
      BY <1>12, <1>13, <1>17, <3>1
    <3>2. CASE d # c
      <4>1. new[d] = got[d]
        BY <1>17, <3>2
      <4> QED
        BY <4>1 DEF Of
    <3> QED
      BY <3>1, <3>2
  <2> QED
    BY <1>17, <2>1 DEF Of
<1>19. \A d \in Chans : Ids(got[d]) \subseteq Ids(new[d])
  BY <1>12, <1>17
<1> QED
  BY <1>14, <1>18, <1>19

\* The line that ranks above all others is a memory.
Leads(l, lines) ==
    /\ \E i \in DOMAIN lines["neurons"] : lines["neurons"][i] = l
    /\ \A c \in Chans : \A j \in DOMAIN lines[c] : lines[c][j].id # l.id =>
          l.prio < lines[c][j].prio

LEMMA SameId ==
    ASSUME NEW lines, Apart(lines), NEW l, Leads(l, lines),
           NEW c \in Chans, NEW j \in DOMAIN lines[c], lines[c][j].id = l.id
    PROVE  lines[c][j] = l
<1>1. PICK i \in DOMAIN lines["neurons"] : lines["neurons"][i] = l
  BY DEF Leads
<1>2. l.id \in Ids(lines["neurons"]) /\ l.id \in Ids(lines[c])
  BY <1>1 DEF Ids
<1>3. c = "neurons"
  <2>1. "neurons" \in Chans
    BY DEF Chans
  <2>2. c # "neurons" => Ids(lines[c]) \cap Ids(lines["neurons"]) = {}
    BY <2>1 DEF Apart
  <2> QED
    BY <1>2, <2>2
<1>4. Distinct(lines["neurons"])
  BY DEF Apart, Chans
<1>5. i = j
  BY <1>1, <1>3, <1>4 DEF Distinct
<1> QED
  BY <1>1, <1>3, <1>5

LEMMA LeaderFirst ==
    ASSUME NEW lines, Apart(lines), NEW l, Leads(l, lines)
    PROVE  /\ lines["neurons"] \in Seq(Lines) /\ Distinct(lines["neurons"]) /\ l \in Lines
           /\ lines["neurons"] # << >> /\ Ranked(lines["neurons"])[1] = l
<1>1. PICK s : s = lines["neurons"]
  OBVIOUS
<1>2. s \in Seq(Lines) /\ Distinct(s)
  BY <1>1 DEF Apart, Chans
<1>3. PICK i \in DOMAIN s : s[i] = l
  BY <1>1 DEF Leads
<1>4. \A j \in DOMAIN s : j # i => s[i].prio < s[j].prio
  <2>1. "neurons" \in Chans
    BY DEF Chans
  <2>2. \A j \in DOMAIN s : s[j].id # l.id => l.prio < s[j].prio
    BY <1>1, <2>1 DEF Leads
  <2> QED
    BY <1>2, <1>3, <2>2 DEF Distinct
<1>5. Ranked(s)[1] = s[i]
  BY <1>2, <1>3, <1>4, RankedLines
<1>6. s # << >> /\ l \in Lines
  BY <1>2, <1>3
<1> QED
  BY <1>1, <1>2, <1>3, <1>5, <1>6

\* Whatever the lines of the three channels, their ranks and costs, whatever the
\* slots and the cap: truncate_by_channels takes no line twice, only lines it
\* was given and no more than the cap; and the memory that ranks above all
\* others is among them if its title fits its slot and the cap.
THEOREM TruncationFits ==
    ASSUME NEW lines, Apart(lines), NEW slot \in SlotRecords, NEW cap \in Nat,
           NEW pack, pack = TruncateByChannels(lines, slot, cap)
    PROVE  /\ pack \in Seq(Lines) /\ Distinct(pack) /\ Tokens(pack) <= cap
           /\ \A k \in DOMAIN pack : \E c \in Chans : \E i \in DOMAIN lines[c] :
                 Like(pack[k], lines[c][i])
           /\ \A l : Leads(l, lines) /\ l.title <= slot.neurons /\ l.title <= cap =>
                 l.id \in Ids(pack)
<1>1. PICK first : first = [c \in DOMAIN slot |-> GreedyTruncate(lines[c], slot[c])]
  OBVIOUS
<1>2. DOMAIN slot = Chans /\ \A c \in Chans : slot[c] \in Nat
  BY DEF SlotRecords, Chans
<1>3. ASSUME NEW c \in Chans
      PROVE  /\ Taken(Ranked(lines[c]), Len(lines[c]), slot[c], first[c])
             /\ \A k \in DOMAIN first[c] :
                   \E i \in DOMAIN lines[c] : Like(first[c][k], lines[c][i])
  <2>1. lines[c] \in Seq(Lines) /\ Distinct(lines[c]) /\ slot[c] \in Int
    BY <1>2 DEF Apart
  <2>2. first[c] = GreedyTruncate(lines[c], slot[c])
    BY <1>1, <1>2
  <2> QED
    BY <2>1, <2>2, GreedyIs
<1>4. Of(first, lines)
  <2>1. \A c \in Chans : first[c] \in Seq(Lines) /\ Distinct(first[c])
    BY <1>3 DEF Taken
  <2>2. first \in [Chans -> Seq(Lines)]
    BY <1>1, <1>2, <2>1
  <2> QED
    BY <1>3, <2>1, <2>2 DEF Of
<1>5. "neurons" \in Chans /\ "graph" \in Chans /\ "procedures" \in Chans
  BY DEF Chans
<1>6. PICK second : second = Refill(first, "neurons", lines, slot)
  OBVIOUS
<1>7. Of(second, lines) /\ \A c \in Chans : Ids(first[c]) \subseteq Ids(second[c])
  BY <1>4, <1>5, <1>6, RefillIs
<1>8. PICK third : third = Refill(second, "graph", lines, slot)
  OBVIOUS
<1>9. Of(third, lines) /\ \A c \in Chans : Ids(second[c]) \subseteq Ids(third[c])
  BY <1>5, <1>7, <1>8, RefillIs
<1>10. PICK last : last = Refill(third, "procedures", lines, slot)
  OBVIOUS
<1>11. Of(last, lines) /\ \A c \in Chans : Ids(third[c]) \subseteq Ids(last[c])
  BY <1>5, <1>9, <1>10, RefillIs
<1>12. PICK all : all = Parts(last)
  OBVIOUS
<1>13. /\ all \in Seq(Lines) /\ Distinct(all) /\ Ids(last["neurons"]) \subseteq Ids(all)
       /\ \A k \in DOMAIN all : \E c \in Chans :
             \E i \in DOMAIN lines[c] : Like(all[k], lines[c][i])
  BY <1>11, <1>12, PartsIs
<1>14. pack = IF Tokens(all) > cap THEN GreedyTruncate(all, cap) ELSE all
  BY <1>1, <1>6, <1>8, <1>10, <1>12 DEF TruncateByChannels
<1>15. ASSUME NEW l, Leads(l, lines), l.title <= slot.neurons PROVE l.id \in Ids(all)
  <2>1. PICK f : f = first["neurons"]
    OBVIOUS
  <2>2. f # << >> /\ f[1].id = l.id /\ f \in Seq(Lines)
    <3>1. lines["neurons"] # << >> /\ Ranked(lines["neurons"])[1] = l /\
            lines["neurons"] \in Seq(Lines)
      BY <1>15, LeaderFirst
    <3>2. Len(lines["neurons"]) > 0
      BY <3>1
    <3> QED
      BY <1>3, <1>5, <1>15, <2>1, <3>1, <3>2 DEF Taken
  <2>3. l.id \in Ids(f)
    <3>1. 1 \in DOMAIN f
      BY <2>2
    <3> QED
      BY <2>2, <3>1 DEF Ids
  <2> QED
    BY <1>5, <1>7, <1>9, <1>11, <1>13, <2>1, <2>3
<1>16. CASE Tokens(all) > cap
  <2>1. pack = GreedyTruncate(all, cap) /\ cap \in Int /\ Larger(0, cap) = cap
    BY <1>14, <1>16 DEF Larger
  <2>2. /\ Taken(Ranked(all), Len(all), cap, pack)
        /\ \A k \in DOMAIN pack : \E i \in DOMAIN all : Like(pack[k], all[i])
    BY <1>13, <2>1, GreedyIs
  <2>3. pack \in Seq(Lines) /\ Distinct(pack) /\ Tokens(pack) <= cap
    BY <2>1, <2>2 DEF Taken
  <2>4. ASSUME NEW k \in DOMAIN pack
        PROVE \E c \in Chans : \E i \in DOMAIN lines[c] : Like(pack[k], lines[c][i])
    <3>1. PICK j \in DOMAIN all : Like(pack[k], all[j])
      BY <2>2
    <3>2. PICK c \in Chans : \E i \in DOMAIN lines[c] : Like(all[j], lines[c][i])
      BY <1>13
    <3>2a. PICK i \in DOMAIN lines[c] : Like(all[j], lines[c][i])
      BY <3>2
    <3> QED
      BY <3>1, <3>2a DEF Like
  <2>5. ASSUME NEW l, Leads(l, lines), l.title <= slot.neurons, l.title <= cap
        PROVE l.id \in Ids(pack)
    <3>1. PICK e \in DOMAIN all : all[e].id = l.id
      BY <1>15, <2>5 DEF Ids
    <3>2. Like(all[e], l)
      <4>1. PICK c \in Chans : \E i \in DOMAIN lines[c] : Like(all[e], lines[c][i])
        BY <1>13
      <4>1a. PICK i \in DOMAIN lines[c] : Like(all[e], lines[c][i])
        BY <4>1
      <4>2. lines[c][i].id = l.id
        BY <3>1, <4>1a DEF Like
      <4>3. lines[c][i] = l
        BY <2>5, <4>2, SameId
      <4> QED
        BY <4>1a, <4>3
    <3>3. ASSUME NEW j \in DOMAIN all, j # e PROVE all[e].prio < all[j].prio
      <4>1. all[j].id # l.id
        BY <1>13, <3>1, <3>3 DEF Distinct
      <4>2. PICK c \in Chans : \E i \in DOMAIN lines[c] : Like(all[j], lines[c][i])
        BY <1>13
      <4>2a. PICK i \in DOMAIN lines[c] : Like(all[j], lines[c][i])
        BY <4>2
      <4>3. lines[c][i].id # l.id
        BY <4>1, <4>2a DEF Like
      <4>4. l.prio < lines[c][i].prio
        BY <2>5, <4>3 DEF Leads
      <4> QED
        BY <3>2, <4>2a, <4>4 DEF Like
    <3>4. Ranked(all)[1] = all[e]
      BY <1>13, <3>1, <3>3, RankedLines
    <3>5. Len(all) > 0 /\ Ranked(all)[1].title <= cap /\ Ranked(all)[1].id = l.id
      <4>1. Len(all) > 0
        BY <1>13, <3>1
      <4> QED
        BY <2>5, <3>2, <3>4, <4>1 DEF Like
    <3>6. pack # << >> /\ pack[1].id = l.id
      BY <2>2, <3>5 DEF Taken
    <3>7. 1 \in DOMAIN pack
      BY <2>3, <3>6
    <3> QED
      BY <3>6, <3>7 DEF Ids
  <2> QED
    BY <2>3, <2>4, <2>5
<1>17. CASE ~(Tokens(all) > cap)
  <2>1. pack = all /\ Tokens(all) <= cap
    <3>1. Tokens(all) \in Nat
      BY <1>13, TokensNatural
    <3> QED
      BY <1>14, <1>17, <3>1
  <2> QED
    BY <1>13, <1>15, <2>1
<1> QED
  BY <1>16, <1>17

LEMMA DistinctCounts ==
    ASSUME NEW s \in Seq(Lines), Distinct(s)
    PROVE  Cardinality(Ids(s)) = Len(s)
<1>1. PICK n \in Nat : n = Len(s) /\ DOMAIN s = 1 .. n
  OBVIOUS
<1>2. PICK f : f = [i \in 1 .. n |-> s[i].id]
  OBVIOUS
<1>3. Ids(s) = {s[i].id : i \in 1 .. n}
  BY <1>1 DEF Ids
<1>4. f \in Bijection(1 .. n, Ids(s))
  <2>1. f \in [1 .. n -> Ids(s)]
    BY <1>2, <1>3
  <2>2. \A i, j \in 1 .. n : f[i] = f[j] => i = j
    BY <1>1, <1>2 DEF Distinct
  <2>3. \A x \in Ids(s) : \E i \in 1 .. n : f[i] = x
    BY <1>2, <1>3
  <2> QED
    BY <2>1, <2>2, <2>3 DEF Bijection, Injection, Surjection, IsInjective
<1>5. IsFiniteSet(1 .. n) /\ Cardinality(1 .. n) = n
  BY FS_Interval
<1> QED
  BY <1>1, <1>4, <1>5, FS_Bijection DEF ExistsBijection

-----------------------------------------------------------------------------
(* The text and the arrays                                                 *)

Titled == {l \in Lines : l.title = Title}

LEMMA TitledLines == Seq(Titled) \subseteq Seq(Lines)
<1>1. Titled \subseteq Lines
  BY DEF Titled
<1> QED
  BY <1>1

LEMMA KeptIs ==
    ASSUME NEW s \in Seq(Lines), NEW t \in Seq(Titled)
    PROVE  Kept(s, t) \in Seq(Titled)
<1>1. PICK n \in Nat : n = Len(s) /\ DOMAIN s = 1 .. n
  OBVIOUS
<1>2. PICK at : at = {i \in DOMAIN s : s[i].id \in Ids(t)}
  OBVIOUS
<1>3. PICK x : x = [i \in at |-> CHOOSE l \in ToSet(t) : l.id = s[i].id]
  OBVIOUS
<1>4. ASSUME NEW i \in at PROVE x[i] \in Titled
  <2>1. \E l \in ToSet(t) : l.id = s[i].id
    BY <1>2 DEF Ids, ToSet
  <2>2. x[i] \in ToSet(t)
    BY <1>3, <2>1
  <2>3. ToSet(t) \subseteq Titled
    BY DEF ToSet
  <2> QED
    BY <2>2, <2>3
<1>5. Kept(s, t) = Picked(x, at)
  BY <1>2, <1>3 DEF Kept
<1>6. at \in SUBSET (1 .. n)
  BY <1>1, <1>2
<1> QED
  BY <1>4, <1>5, <1>6, PickedIs

\* Of the numbers up to a limit, the least that is in a set or the limit.
LEMMA LeastUpTo ==
    ASSUME NEW most \in Nat, NEW F
    PROVE  \E n \in 0 .. most : (n \in F \/ n = most) /\ \A m \in 0 .. n - 1 : m \notin F
<1>1. PICK T : T = {n \in 0 .. most : n \in F \/ n = most}
  OBVIOUS
<1>2. T \in SUBSET Nat /\ most \in T
  BY <1>1
<1>3. PICK n \in T : \A m \in T : n <= m
  BY <1>2, LeastExists
<1>4. ASSUME NEW m \in 0 .. n - 1 PROVE m \notin F
  <2>1. m \in 0 .. most /\ ~(n <= m)
    BY <1>1
  <2> QED
    BY <1>1, <1>3, <2>1
<1> QED
  BY <1>1, <1>4

LEMMA FitPackTextIs ==
    ASSUME NEW S, NEW kept \in [Chans -> Seq(S)], NEW total, NEW frame, NEW first \in BOOLEAN
    PROVE  FitPackText(kept, total, frame, first) \in [Chans -> Seq(S)]
<1> DEFINE order == IF first THEN Channels ELSE Reverse(Channels)
           Len3(i) == Len(kept[order[i]])
           Gone(n) == [i \in 1 .. 3 |->
                      CASE i = 1 -> Smaller(n, Len3(1))
                        [] i = 2 -> Smaller(Larger(0, n - Len3(1)), Len3(2))
                        [] i = 3 -> Larger(0, n - Len3(1) - Len3(2))]
           After(n) == [c \in DOMAIN kept |->
                       LET i == CHOOSE k \in 1 .. 3 : order[k] = c
                       IN SubSeq(kept[c], 1, Len(kept[c]) - Gone(n)[i])]
           Fits(n) == frame + Tokens(Parts(After(n))) <= total
           most == Len3(1) + Len3(2) + Len3(3)
           n == CHOOSE k \in 0 .. most :
               (Fits(k) \/ k = most) /\ \A m \in 0 .. k - 1 : ~Fits(m)
<1>1. FitPackText(kept, total, frame, first) = After(n)
  BY Zenon DEF FitPackText
<1>2. /\ \A i \in 1 .. 3 : order[i] \in Chans
      /\ \A c \in Chans : \E i \in 1 .. 3 : order[i] = c
  <2>1. /\ Channels[1] = "neurons" /\ Channels[2] = "graph" /\ Channels[3] = "procedures"
        /\ Len(Channels) = 3
    BY DEF Channels
  <2>2. PICK r : r = Reverse(Channels)
    OBVIOUS
  <2>3. r[1] = "procedures" /\ r[2] = "graph" /\ r[3] = "neurons"
    BY <2>1, <2>2 DEF Reverse
  <2> QED
    BY <2>1, <2>2, <2>3 DEF Chans
<1>3. \A i \in 1 .. 3 : Len3(i) \in Nat
  BY <1>2
<1>4. most \in Nat
  <2>1. Len3(1) \in Nat /\ Len3(2) \in Nat /\ Len3(3) \in Nat
    BY <1>3
  <2> HIDE DEF Len3
  <2> QED
    BY <2>1
<1> HIDE DEF Fits, most
<1>5. n \in Nat
  <2>1. PICK F : F = {k \in 0 .. most : Fits(k)}
    OBVIOUS
  <2>2. PICK k \in 0 .. most : (k \in F \/ k = most) /\ \A m \in 0 .. k - 1 : m \notin F
    BY <1>4, LeastUpTo
  <2>3. \A m \in 0 .. k - 1 : m \in 0 .. most
    BY <1>4
  <2>4. \E h \in 0 .. most : (Fits(h) \/ h = most) /\ \A m \in 0 .. h - 1 : ~Fits(m)
    BY <2>1, <2>2, <2>3
  <2>5. n \in 0 .. most
    BY <2>4, Zenon
  <2> QED
    BY <1>4, <2>5
<1> HIDE DEF n
<1>6. ASSUME NEW i \in 1 .. 3 PROVE Gone(n)[i] \in Nat
  <2>1. Gone(n)[1] = Smaller(n, Len3(1))
    OBVIOUS
  <2>2. Gone(n)[2] = Smaller(Larger(0, n - Len3(1)), Len3(2))
    OBVIOUS
  <2>3. Gone(n)[3] = Larger(0, n - Len3(1) - Len3(2))
    OBVIOUS
  <2>4. Len3(1) \in Nat /\ Len3(2) \in Nat
    BY <1>3
  <2> HIDE DEF Gone, Len3
  <2> QED
    BY <1>5, <2>1, <2>2, <2>3, <2>4 DEF Smaller, Larger
<1> HIDE DEF Gone, order
<1>7. ASSUME NEW c \in Chans PROVE After(n)[c] \in Seq(S)
  <2>1. PICK i : i = CHOOSE k \in 1 .. 3 : order[k] = c
    OBVIOUS
  <2>2. i \in 1 .. 3
    BY <1>2, <2>1
  <2>3. PICK s : s = kept[c] /\ s \in Seq(S) /\ Len(s) \in Nat
    OBVIOUS
  <2>4. PICK g \in Nat : g = Gone(n)[i]
    BY <1>6, <2>2
  <2>5. After(n)[c] = SubSeq(s, 1, Len(s) - g)
    BY <2>1, <2>3, <2>4
  <2>6. \A j \in 1 .. Len(s) - g : s[j] \in S
    BY <2>3
  <2>7. SubSeq(s, 1, Len(s) - g) \in Seq(S)
    BY <2>3, <2>6, SubSeqProperties
  <2> QED
    BY <2>5, <2>7
<1>8. DOMAIN kept = Chans
  OBVIOUS
<1> QED
  BY <1>1, <1>7, <1>8

LEMMA TrimmedIs ==
    ASSUME NEW s \in Seq(Titled), NEW budget \in Int
    PROVE  /\ Trimmed(s, budget) \in Seq(Lines)
           /\ Tokens(Trimmed(s, budget)) <= Larger(0, budget) + Larger(0, Title - 20)
<1>1. s \in Seq(Lines) /\ Title \in Nat \ {0}
  BY TitledLines, PackingAssumption
<1>2. PICK len \in Nat : len = Len(s) /\ DOMAIN s = 1 .. len /\ \A i \in 1 .. len :
             s[i] \in Titled
  OBVIOUS
<1>3. PICK sum : sum = [m \in 0 .. len |-> Tokens(SubSeq(s, 1, m))]
  OBVIOUS
<1>4. \A m \in 0 .. len : SubSeq(s, 1, m) \in Seq(Lines) /\ sum[m] \in Nat
  BY <1>1, <1>2, <1>3, TokensUpTo
<1>5. sum[0] = 0
  <2>1. 0 \in 0 .. len
    OBVIOUS
  <2> QED
    BY <1>1, <1>2, <1>3, <2>1, TokensUpTo
<1> DEFINE Fit == CHOOSE n \in 0 .. Len(s) :
                     /\ Tokens(SubSeq(s, 1, n)) <= budget
                     /\ n = Len(s) \/ Tokens(SubSeq(s, 1, n + 1)) > budget
           Left == budget - Tokens(SubSeq(s, 1, Fit))
<1>0. Trimmed(s, budget) =
        IF budget <= 0 THEN << >>
        ELSE IF Fit = Len(s) \/ Left < 20 THEN SubSeq(s, 1, Fit)
        ELSE Append(SubSeq(s, 1, Fit),
                    [s[Fit + 1] EXCEPT !.cost = Larger(s[Fit + 1].title, Left)])
  BY Zenon DEF Trimmed
<1>6. CASE budget <= 0
  <2>1. Trimmed(s, budget) = << >>
    BY <1>0, <1>6
  <2> QED
    BY <1>1, <1>6, <2>1, NoTokens DEF Larger
<1>7. CASE ~(budget <= 0)
  <2>1. PICK fit : fit = Fit
    OBVIOUS
  <2>2. fit \in 0 .. len /\ sum[fit] <= budget
    <3>1. PICK F : F = {n \in 0 .. len : n < len /\ sum[n + 1] > budget}
      OBVIOUS
    <3>2. PICK n \in 0 .. len : (n \in F \/ n = len) /\ \A m \in 0 .. n - 1 : m \notin F
      BY LeastUpTo
    <3>3. sum[n] <= budget
      <4>1. CASE n = 0
        BY <1>5, <1>7, <4>1
      <4>2. CASE n # 0
        <5>1. n - 1 \in 0 .. len /\ n - 1 < len /\ n - 1 \notin F /\ (n - 1) + 1 = n
          BY <3>2, <4>2
        <5>2. ~(sum[n] > budget) /\ sum[n] \in Nat
          BY <1>4, <3>1, <5>1
        <5> QED
          BY <5>2
      <4> QED
        BY <4>1, <4>2
    <3>4. n = len \/ Tokens(SubSeq(s, 1, n + 1)) > budget
      <4>1. CASE n \in F
        BY <1>3, <3>1, <4>1
      <4> QED
        BY <3>2, <4>1
    <3>5. \E k \in 0 .. Len(s) : /\ Tokens(SubSeq(s, 1, k)) <= budget
                                 /\ k = Len(s) \/ Tokens(SubSeq(s, 1, k + 1)) > budget
      BY <1>2, <1>3, <3>3, <3>4
    <3>6. Fit \in 0 .. Len(s) /\ Tokens(SubSeq(s, 1, Fit)) <= budget
      BY <3>5, Zenon
    <3> QED
      BY <1>2, <1>3, <2>1, <3>6
  <2> HIDE DEF Fit
  <2>3. PICK whole : whole = SubSeq(s, 1, fit)
    OBVIOUS
  <2>4. whole \in Seq(Lines) /\ Tokens(whole) = sum[fit] /\ sum[fit] \in Nat
    BY <1>3, <1>4, <2>2, <2>3
  <2>5. PICK left \in Nat : left = budget - Tokens(whole)
    BY <2>2, <2>4
  <2>6. Trimmed(s, budget) =
          IF fit = Len(s) \/ left < 20 THEN whole
          ELSE Append(whole, [s[fit + 1] EXCEPT !.cost = Larger(s[fit + 1].title, left)])
    BY <1>0, <1>7, <2>1, <2>3, <2>5
  <2>7. CASE fit = Len(s) \/ left < 20
    BY <1>1, <1>7, <2>2, <2>4, <2>6, <2>7 DEF Larger
  <2>8. CASE ~(fit = Len(s) \/ left < 20)
    <3>1. PICK l : l = s[fit + 1] /\ l \in Lines /\ l.title = Title
      <4>1. fit + 1 \in 1 .. len
        BY <1>2, <2>2, <2>8
      <4>2. s[fit + 1] \in Titled
        BY <1>2, <4>1
      <4> QED
        BY <4>2 DEF Titled
    <3>2. PICK c \in Nat \ {0} : c = Larger(Title, left)
      BY <1>1 DEF Larger
    <3>3. PICK m : m = [l EXCEPT !.cost = c] /\ m \in Lines /\ m.cost = c
      BY <3>1, <3>2, CutLine
    <3>4. Trimmed(s, budget) = Append(whole, m)
      BY <2>6, <2>8, <3>1, <3>2, <3>3
    <3>5. Append(whole, m) \in Seq(Lines)
      BY <2>4, <3>3, AppendProperties
    <3>6. Tokens(Append(whole, m)) = Tokens(whole) + c
      BY <2>4, <3>3, TokensAppend
    <3>7. Tokens(whole) + c <= Larger(0, budget) + Larger(0, Title - 20)
      BY <1>1, <1>7, <2>4, <2>5, <2>8, <3>2 DEF Larger
    <3> QED
      BY <3>4, <3>5, <3>6, <3>7
  <2> QED
    BY <2>7, <2>8
<1> QED
  BY <1>6, <1>7

\* Whatever the memories and the code that are left in a pack: its text and the
\* structured arrays, which share what the text leaves of the budget, come to no
\* more than the budget without its envelope (or the 100 tokens the text may
\* always have), but for the title of the last line of an array.
THEOREM ArraysFit ==
    ASSUME NEW pack, pack.neurons \in Seq(Titled), pack.graph \in Seq(Titled),
           NEW spent \in Nat, NEW budget \in Nat, spent <= TextCap(budget)
    PROVE  spent + Tokens(Structured(pack, spent, budget))
             <= Larger(100, budget - Envelope) + 2 * Larger(0, Title - 20)
<1>1. PICK left \in Nat : left = Larger(0, budget - Envelope - spent)
  <2>1. PICK d \in Int : d = budget - Envelope - spent
    BY DEF Envelope
  <2>2. Larger(0, d) \in Nat
    BY DEF Larger
  <2> QED
    BY <2>1, <2>2
<1>2. PICK over \in Nat : over = Larger(0, Title - 20)
  BY PackingAssumption DEF Larger
<1>3. PICK a \in Seq(Titled), b \in Seq(Titled) : a = pack.neurons /\ b = pack.graph
  OBVIOUS
<1>4. PICK half \in Nat : half = Larger(25, left \div 2) /\ (left >= 50 => half <= left)
  BY DEF Larger
<1>5. Structured(pack, spent, budget) =
        IF left < 50 THEN << >> ELSE Trimmed(a, half) \o Trimmed(b, left - half)
  BY <1>1, <1>3, <1>4 DEF Structured
<1>6. CASE left < 50
  <2>1. Tokens(Structured(pack, spent, budget)) = 0
    BY <1>5, <1>6, NoTokens
  <2> QED
    BY <1>2, <2>1 DEF TextCap, Larger, Envelope
<1>7. CASE ~(left < 50)
  <2>1. PICK rest \in Nat : rest = left - half
    BY <1>4, <1>7
  <2>2. PICK x, y : x = Trimmed(a, half) /\ y = Trimmed(b, rest)
    OBVIOUS
  <2>3. x \in Seq(Lines) /\ Tokens(x) <= half + over
    <3>1. Larger(0, half) = half /\ half \in Int
      BY DEF Larger
    <3>2. /\ Trimmed(a, half) \in Seq(Lines)
          /\ Tokens(Trimmed(a, half)) <= Larger(0, half) + Larger(0, Title - 20)
      BY <3>1, TrimmedIs
    <3> QED
      BY <1>2, <2>2, <3>1, <3>2
  <2>4. y \in Seq(Lines) /\ Tokens(y) <= rest + over
    <3>1. Larger(0, rest) = rest /\ rest \in Int
      BY DEF Larger
    <3>2. /\ Trimmed(b, rest) \in Seq(Lines)
          /\ Tokens(Trimmed(b, rest)) <= Larger(0, rest) + Larger(0, Title - 20)
      BY <3>1, TrimmedIs
    <3> QED
      BY <1>2, <2>2, <3>1, <3>2
  <2>5. Structured(pack, spent, budget) = x \o y /\ Tokens(x \o y) = Tokens(x) + Tokens(y)
    BY <1>5, <1>7, <2>1, <2>2, <2>3, <2>4, TokensConcat
  <2>6. Tokens(x) \in Nat /\ Tokens(y) \in Nat
    BY <2>3, <2>4, TokensNatural
  <2>7. spent + left = budget - Envelope
    BY <1>1, <1>7 DEF Larger, Envelope
  <2>8. PICK bound \in Int : bound = Larger(100, budget - Envelope) /\ spent + left <= bound
    <3>1. PICK d \in Int : d = budget - Envelope
      BY DEF Envelope
    <3>2. Larger(100, d) \in Int /\ d <= Larger(100, d)
      BY DEF Larger
    <3> QED
      BY <2>7, <3>1, <3>2
  <2>9. Tokens(x) + Tokens(y) <= left + 2 * over
    BY <2>1, <2>3, <2>4, <2>6
  <2>10. PICK m \in Nat, n \in Nat : m = Tokens(x) /\ n = Tokens(y)
    BY <2>6
  <2>11. m + n <= left + 2 * over
    BY <2>9, <2>10
  <2>12. spent + (m + n) <= bound + 2 * over
    BY <2>8, <2>11
  <2>13. Tokens(Structured(pack, spent, budget)) = m + n
    BY <2>5, <2>10
  <2> QED
    BY <1>2, <2>8, <2>12, <2>13
<1> QED
  BY <1>6, <1>7

-----------------------------------------------------------------------------
(* The frozen pack                                                         *)

\* One line less, one cost less.
LEMMA TokensWithout ==
    ASSUME NEW s \in Seq(Lines), NEW n \in Nat, Len(s) = n + 1, NEW m \in 1 .. n + 1,
           NEW u \in Seq(Lines), Len(u) = n,
           \A k \in 1 .. n : u[k] = IF k < m THEN s[k] ELSE s[k + 1]
    PROVE  Tokens(s) = Tokens(u) + s[m].cost
<1>1. PICK f : Sums(s, f) /\ Tokens(s) = f[n + 1]
  BY SumsExist, TokensIs
<1>2. PICK g : Sums(u, g) /\ Tokens(u) = g[n]
  BY SumsExist, TokensIs
<1>3. PICK c \in Nat : c = s[m].cost
  <2>1. s[m] \in Lines
    OBVIOUS
  <2> QED
    BY <2>1 DEF Lines
<1>4. /\ f \in [0 .. n + 1 -> Nat] /\ f[0] = 0
      /\ \A k \in 1 .. n + 1 : f[k] = f[k - 1] + s[k].cost
      /\ g \in [0 .. n -> Nat] /\ g[0] = 0 /\ \A k \in 1 .. n : g[k] = g[k - 1] + u[k].cost
  BY <1>1, <1>2 DEF Sums
<1> DEFINE Level(k) == (k < m => f[k] = g[k]) /\ (k >= m => f[k + 1] = g[k] + c)
<1>5. PICK P : P = {k \in 0 .. n : Level(k)}
  OBVIOUS
<1>6. 0 \in P
  BY <1>4, <1>5
<1>7. ASSUME NEW k \in 1 .. n, k - 1 \in P PROVE k \in P
  <2>1. PICK h \in 0 .. n : h = k - 1 /\ k = h + 1 /\ h \in P
    BY <1>7
  <2>2. u[k].cost \in Nat /\ s[k].cost \in Nat /\ s[k + 1].cost \in Nat
    <3>1. u[k] \in Lines /\ s[k] \in Lines /\ s[k + 1] \in Lines
      OBVIOUS
    <3> QED
      BY <3>1 DEF Lines
  <2>3. /\ f[k] = f[h] + s[k].cost /\ f[k + 1] = f[k] + s[k + 1].cost
        /\ g[k] = g[h] + u[k].cost
    <3>1. k \in 1 .. n + 1 /\ k + 1 \in 1 .. n + 1 /\ (k + 1) - 1 = k
      OBVIOUS
    <3> QED
      BY <1>4, <2>1, <3>1
  <2>4. f[h] \in Nat /\ f[k] \in Nat /\ g[h] \in Nat /\ g[k] \in Nat
    <3>1. h \in 0 .. n + 1 /\ k \in 0 .. n + 1 /\ h \in 0 .. n /\ k \in 0 .. n
      OBVIOUS
    <3> QED
      BY <1>4, <3>1
  <2>4a. (h < m => f[h] = g[h]) /\ (h >= m => f[k] = g[h] + c)
    <3>1. Level(h)
      <4> HIDE DEF Level
      <4> QED
        BY <1>5, <2>1
    <3>2. h + 1 = k
      BY <2>1
    <3> QED
      BY <3>1, <3>2
  <2>4b. u[k] = IF k < m THEN s[k] ELSE s[k + 1]
    OBVIOUS
  <2>5. CASE k < m
    <3>1. u[k] = s[k] /\ f[h] = g[h]
      BY <2>1, <2>4a, <2>4b, <2>5
    <3> QED
      <4>1. f[k] = g[k]
        BY <2>3, <3>1
      <4> QED
        BY <1>5, <2>5, <4>1
  <2>6. CASE k = m
    <3>1. u[k] = s[k + 1] /\ f[h] = g[h] /\ s[k].cost = c
      BY <1>3, <2>1, <2>4a, <2>4b, <2>6
    <3>2. f[k + 1] = g[k] + c
      BY <2>2, <2>3, <2>4, <3>1
    <3> QED
      BY <1>5, <2>6, <3>2
  <2>7. CASE k > m
    <3>1. u[k] = s[k + 1] /\ f[k] = g[h] + c
      BY <2>1, <2>4a, <2>4b, <2>7
    <3>2. f[k + 1] = g[k] + c
      BY <2>1, <2>2, <2>3, <2>4, <3>1
    <3> QED
      BY <1>5, <2>7, <3>2
  <2> QED
    BY <2>5, <2>6, <2>7
<1>8. n \in P
  <2>1. \A k \in 1 .. n : k - 1 \in P => k \in P
    BY <1>7
  <2>2. \A k \in 0 .. n : k \in P
    BY <1>6, <2>1, UpTo, Zenon
  <2> QED
    BY <2>2
<1>8a. Level(n)
  <2> HIDE DEF Level
  <2> QED
    BY <1>5, <1>8
<1>9. f[n + 1] = g[n] + c
  <2>1. f[n + 1] = f[n] + s[n + 1].cost
    <3>1. n + 1 \in 1 .. n + 1 /\ (n + 1) - 1 = n
      OBVIOUS
    <3> QED
      BY <1>4, <3>1
  <2>2. CASE n < m
    <3>1. n + 1 = m /\ f[n] = g[n]
      BY <1>8a, <2>2
    <3> QED
      BY <1>3, <2>1, <3>1
  <2>3. CASE n >= m
    BY <1>8a, <2>3
  <2> QED
    BY <2>2, <2>3
<1> QED
  BY <1>1, <1>2, <1>3, <1>9

LEMMA OneLine == ASSUME NEW s \in Seq(Lines), Len(s) = 1 PROVE Tokens(s) = s[1].cost
<1>1. PICK f : Sums(s, f) /\ Tokens(s) = f[1]
  BY SumsExist, TokensIs
<1>2. f[0] = 0 /\ f[1] = f[0] + s[1].cost
  BY <1>1 DEF Sums
<1>3. PICK c \in Nat : c = s[1].cost
  <2>1. s[1] \in Lines
    OBVIOUS
  <2> QED
    BY <2>1 DEF Lines
<1> QED
  BY <1>1, <1>2, <1>3

\* The same lines in another order.
Shuffles(s, t, n, p) ==
    /\ s \in Seq(Lines) /\ t \in Seq(Lines) /\ Len(s) = n /\ Len(t) = n
    /\ p \in [1 .. n -> 1 .. n] /\ \A k, l \in 1 .. n : p[k] = p[l] => k = l
    /\ \A k \in 1 .. n : t[k] = s[p[k]]

LEMMA ShuffleShorter ==
    ASSUME NEW n \in Nat, NEW s, NEW t, NEW p, Shuffles(s, t, n + 1, p)
    PROVE  \E u, v, q : /\ Shuffles(u, v, n, q)
                        /\ Tokens(s) = Tokens(u) + t[n + 1].cost
                        /\ Tokens(t) = Tokens(v) + t[n + 1].cost
<1>1. PICK m \in 1 .. n + 1 : m = p[n + 1]
  BY DEF Shuffles
<1>2. /\ \A k \in 1 .. n + 1 : s[k] \in Lines /\ t[k] \in Lines /\ t[k] = s[p[k]]
      /\ Len(s) = n + 1 /\ Len(t) = n + 1
  BY DEF Shuffles
<1>3. PICK u : u = [k \in 1 .. n |-> IF k < m THEN s[k] ELSE s[k + 1]]
  OBVIOUS
<1>4. PICK v : v = [k \in 1 .. n |-> IF k < n + 1 THEN t[k] ELSE t[k + 1]]
  OBVIOUS
<1>5. u \in Seq(Lines) /\ Len(u) = n
  <2>1. u \in [1 .. n -> Lines]
    <3>1. \A k \in 1 .. n : s[k] \in Lines /\ s[k + 1] \in Lines
      BY <1>2
    <3> QED
      BY <1>3, <3>1
  <2> QED
    BY <2>1
<1>6. v \in Seq(Lines) /\ Len(v) = n /\ \A k \in 1 .. n : v[k] = t[k]
  <2>1. v \in [1 .. n -> Lines]
    <3>1. \A k \in 1 .. n : t[k] \in Lines /\ t[k + 1] \in Lines
      BY <1>2
    <3> QED
      BY <1>4, <3>1
  <2> QED
    BY <1>4, <2>1
<1>7. Tokens(s) = Tokens(u) + s[m].cost
  <2>1. s \in Seq(Lines)
    BY DEF Shuffles
  <2>2. \A k \in 1 .. n : u[k] = IF k < m THEN s[k] ELSE s[k + 1]
    BY <1>3
  <2> QED
    BY <1>2, <1>5, <2>1, <2>2, TokensWithout
<1>8. Tokens(t) = Tokens(v) + t[n + 1].cost
  <2>1. t \in Seq(Lines) /\ n + 1 \in 1 .. n + 1
    BY DEF Shuffles
  <2>2. \A k \in 1 .. n : v[k] = IF k < n + 1 THEN t[k] ELSE t[k + 1]
    BY <1>4
  <2> QED
    BY <1>2, <1>6, <2>1, <2>2, TokensWithout
<1>9. t[n + 1] = s[m]
  BY <1>1, <1>2
<1>10. PICK q : q = [k \in 1 .. n |-> IF p[k] < m THEN p[k] ELSE p[k] - 1]
  OBVIOUS
<1>11. ASSUME NEW k \in 1 .. n PROVE p[k] \in 1 .. n + 1 /\ p[k] # m
  BY <1>1 DEF Shuffles
<1>12. ASSUME NEW k \in 1 .. n
       PROVE  q[k] \in 1 .. n /\ q[k] = (IF p[k] < m THEN p[k] ELSE p[k] - 1)
  BY <1>10, <1>11
<1>13. q \in [1 .. n -> 1 .. n]
  BY <1>10, <1>12
<1>14. ASSUME NEW k \in 1 .. n, NEW l \in 1 .. n, q[k] = q[l] PROVE k = l
  <2>1. p[k] = p[l]
    <3>1. PICK a \in Nat, b \in Nat : a = p[k] /\ b = p[l] /\ a # m /\ b # m
      BY <1>11
    <3>2. (IF a < m THEN a ELSE a - 1) = (IF b < m THEN b ELSE b - 1)
      BY <1>12, <1>14, <3>1
    <3>3. a = b
      BY <3>1, <3>2
    <3> QED
      BY <3>1, <3>3
  <2>2. k \in 1 .. n + 1 /\ l \in 1 .. n + 1
    OBVIOUS
  <2> QED
    BY <2>1, <2>2 DEF Shuffles
<1>15. ASSUME NEW k \in 1 .. n PROVE v[k] = u[q[k]]
  <2>1. v[k] = s[p[k]]
    BY <1>2, <1>6
  <2>2. CASE p[k] < m
    BY <1>3, <1>11, <1>12, <2>1, <2>2
  <2>3. CASE ~(p[k] < m)
    <3>1. q[k] = p[k] - 1 /\ ~(q[k] < m) /\ q[k] + 1 = p[k]
      BY <1>11, <1>12, <2>3
    <3> QED
      BY <1>3, <1>12, <2>1, <3>1
  <2> QED
    BY <2>2, <2>3
<1>16. Shuffles(u, v, n, q)
  BY <1>5, <1>6, <1>13, <1>14, <1>15 DEF Shuffles
<1> QED
  BY <1>7, <1>8, <1>9, <1>16

LEMMA TokensShuffled ==
    ASSUME NEW n \in Nat, NEW s, NEW t, NEW p, Shuffles(s, t, n, p)
    PROVE  Tokens(s) = Tokens(t)
<1>1. PICK P : P = {m \in 0 .. n : \A x, y, q : Shuffles(x, y, m, q) => Tokens(x) = Tokens(y)}
  OBVIOUS
<1>2. 0 \in P
  <2>1. ASSUME NEW x, NEW y, NEW q, Shuffles(x, y, 0, q) PROVE x = y
    BY <2>1 DEF Shuffles
  <2> QED
    BY <1>1, <2>1
<1>3. ASSUME NEW m \in 1 .. n, m - 1 \in P PROVE m \in P
  <2>1. PICK h \in 0 .. n : h = m - 1 /\ m = h + 1
    OBVIOUS
  <2>2. ASSUME NEW x, NEW y, NEW q, Shuffles(x, y, h + 1, q) PROVE Tokens(x) = Tokens(y)
    <3>1. PICK u, v, r : /\ Shuffles(u, v, h, r)
                         /\ Tokens(x) = Tokens(u) + y[h + 1].cost
                         /\ Tokens(y) = Tokens(v) + y[h + 1].cost
      BY <2>2, ShuffleShorter
    <3>2. Tokens(u) = Tokens(v)
      BY <1>1, <1>3, <2>1, <3>1
    <3> QED
      BY <3>1, <3>2
  <2> QED
    BY <1>1, <2>1, <2>2
<1>4. n \in P
  <2>1. \A m \in 1 .. n : m - 1 \in P => m \in P
    BY <1>3
  <2>2. \A m \in 0 .. n : m \in P
    BY <1>2, <2>1, UpTo, Zenon
  <2> QED
    BY <2>2
<1> QED
  BY <1>1, <1>4

\* The sort by the hint keeps the rows, and puts what the hint names more first.
LEMMA ByHintIs ==
    ASSUME NEW s \in Seq(Lines), Distinct(s), NEW t, t = ByHint(s)
    PROVE  /\ t \in Seq(Lines) /\ Distinct(t) /\ Tokens(t) = Tokens(s)
           /\ \A i \in DOMAIN s : s[i] \in ToSet(t)
           /\ \A m, n \in DOMAIN t : m < n => t[m].score >= t[n].score
<1>1. PICK n \in Nat : n = Len(s) /\ DOMAIN s = 1 .. n /\ \A i \in 1 .. n : s[i] \in Lines
  OBVIOUS
<1>2. PICK order : order = {p \in Places(s) : Nearer(s, p[1], p[2])}
  OBVIOUS
<1>3. \A i, j \in 1 .. n : <<i, j>> \in order <=> Nearer(s, i, j)
  BY <1>1, <1>2 DEF Places
<1>4. \A i \in 1 .. n : s[i].score \in Nat
  BY <1>1 DEF Lines
<1>5. Orders(s, order)
  <2>1. \A i \in 1 .. n : ~Nearer(s, i, i)
    BY <1>4 DEF Nearer
  <2>2. \A i, j, k \in 1 .. n : Nearer(s, i, j) /\ Nearer(s, j, k) => Nearer(s, i, k)
    BY <1>4 DEF Nearer
  <2>3. \A i, j \in 1 .. n : i # j => Nearer(s, i, j) \/ Nearer(s, j, i)
    BY <1>4 DEF Nearer
  <2> QED
    BY <1>1, <1>3, <2>1, <2>2, <2>3 DEF Orders
<1>6. PICK nth : InOrder(s, order, nth)
  BY <1>5, OrderedIs
<1>7. nth \in [1 .. n -> 1 .. n] /\ t = [k \in 1 .. n |-> s[nth[k]]]
  BY <1>1, <1>2, <1>6 DEF InOrder, ByHint
<1>8. t \in [1 .. n -> Lines] /\ \A k \in 1 .. n : t[k] = s[nth[k]] /\ nth[k] \in 1 .. n
  BY <1>1, <1>7
<1>9. t \in Seq(Lines) /\ Len(t) = n /\ DOMAIN t = 1 .. n
  BY <1>8
<1>10. \A k, l \in 1 .. n : nth[k] = nth[l] => k = l
  BY <1>1, <1>6 DEF InOrder
<1>11. Distinct(t)
  <2>1. ASSUME NEW k \in 1 .. n, NEW l \in 1 .. n, t[k].id = t[l].id PROVE k = l
    <3>1. nth[k] = nth[l]
      BY <1>1, <1>8, <2>1 DEF Distinct
    <3> QED
      BY <1>10, <3>1
  <2> QED
    BY <1>9, <2>1 DEF Distinct
<1>12. Tokens(t) = Tokens(s)
  <2>1. Shuffles(s, t, n, nth)
    BY <1>1, <1>7, <1>8, <1>9, <1>10 DEF Shuffles
  <2> QED
    BY <2>1, TokensShuffled
<1>13. ASSUME NEW i \in 1 .. n PROVE s[i] \in ToSet(t)
  <2>1. nth \in Injection(1 .. n, 1 .. n)
    BY <1>7, <1>10 DEF Injection, IsInjective
  <2>2. IsFiniteSet(1 .. n)
    BY FS_Interval
  <2>3. nth \in Surjection(1 .. n, 1 .. n)
    BY <2>1, <2>2, FS_Injection
  <2>4. PICK k \in 1 .. n : nth[k] = i
    BY <2>3 DEF Surjection
  <2> QED
    BY <1>8, <1>9, <2>4 DEF ToSet
<1>14. ASSUME NEW k \in 1 .. n, NEW l \in 1 .. n, k < l PROVE t[k].score >= t[l].score
  <2>1. ~Nearer(s, nth[l], nth[k])
    <3>1. nth[k] \in 1 .. n /\ nth[l] \in 1 .. n
      BY <1>7
    <3>2. <<nth[l], nth[k]>> \notin order
      BY <1>1, <1>6, <1>14 DEF InOrder
    <3> QED
      BY <1>3, <3>1, <3>2
  <2>2. s[nth[l]].score \in Nat /\ s[nth[k]].score \in Nat
    BY <1>4, <1>8
  <2> QED
    BY <1>8, <2>1, <2>2 DEF Nearer
<1> QED
  BY <1>1, <1>9, <1>11, <1>12, <1>13, <1>14

Rows == [sel : Seq(Lines), used : Nat, full : BOOLEAN]

\* A section's rows so far, behind sel: none twice, within its budget unless
\* the first row of the pack alone, which is the first of the section, is larger.
Rowed(sel, n, budget, first, acc) ==
    /\ acc \in Rows /\ Distinct(acc.sel) /\ Tokens(acc.sel) = Tokens(sel) + acc.used
    /\ sel # << >> => acc.used <= budget /\ acc.sel # << >> /\ acc.sel[1] = sel[1]
    /\ sel = << >> => acc.used <= budget \/ (Len(acc.sel) = 1 /\ acc.sel[1].cost > budget)
    /\ sel = << >> /\ acc.sel # << >> => acc.sel[1] = first
    /\ n > 0 \/ acc.full => acc.sel # << >>

LEMMA AppendedRow ==
    ASSUME NEW t \in Seq(Lines), NEW l \in Lines, Distinct(t), l.id \notin Ids(t)
    PROVE  /\ Append(t, l) \in Seq(Lines) /\ Append(t, l) # << >> /\ Distinct(Append(t, l))
           /\ t # << >> => Append(t, l)[1] = t[1]
           /\ t = << >> => Len(Append(t, l)) = 1 /\ Append(t, l)[1] = l
           /\ Tokens(Append(t, l)) = Tokens(t) + l.cost
<1>1. PICK m \in Nat : m = Len(t) /\ DOMAIN t = 1 .. m /\ (t = << >> <=> m = 0)
  OBVIOUS
<1>2. PICK u : u = Append(t, l)
  OBVIOUS
<1>3. u \in Seq(Lines) /\ DOMAIN u = 1 .. m + 1 /\ Len(u) = m + 1 /\ u[m + 1] = l /\
        \A k \in 1 .. m : u[k] = t[k]
  BY <1>1, <1>2, AppendProperties
<1>4. Distinct(u)
  <2>1. ASSUME NEW k \in 1 .. m + 1, NEW j \in 1 .. m + 1, u[k].id = u[j].id PROVE k = j
    <3>1. \A i \in 1 .. m : t[i].id # l.id
      BY <1>1 DEF Ids
    <3>2. CASE k \in 1 .. m /\ j \in 1 .. m
      BY <1>1, <1>3, <2>1, <3>2 DEF Distinct
    <3>3. CASE k = m + 1 /\ j # m + 1
      <4>1. j \in 1 .. m /\ u[j] = t[j] /\ u[k] = l
        BY <1>3, <3>3
      <4> QED
        BY <2>1, <3>1, <4>1
    <3>4. CASE k # m + 1 /\ j = m + 1
      <4>1. k \in 1 .. m /\ u[k] = t[k] /\ u[j] = l
        BY <1>3, <3>4
      <4> QED
        BY <2>1, <3>1, <4>1
    <3> QED
      BY <3>2, <3>3, <3>4
  <2> QED
    BY <1>3, <2>1 DEF Distinct
<1>5. u # << >> /\ (t # << >> => u[1] = t[1]) /\ (t = << >> => Len(u) = 1 /\ u[1] = l)
  BY <1>1, <1>3
<1>6. Tokens(u) = Tokens(t) + l.cost
  BY <1>2, TokensAppend
<1> QED
  BY <1>2, <1>3, <1>4, <1>5, <1>6

LEMMA RowAdded ==
    ASSUME NEW sel \in Seq(Lines), NEW n \in Nat, NEW budget \in Nat, NEW acc, NEW row \in Lines,
           NEW first, Rowed(sel, n, budget, first, acc), acc.sel = << >> => row = first
    PROVE  Rowed(sel, n + 1, budget, first, AddRow(acc, row, budget))
<1>1. PICK t \in Seq(Lines), spent \in Nat, full \in BOOLEAN : t = acc.sel /\
             spent = acc.used /\ full = acc.full
  BY DEF Rowed, Rows
<1>2. row.cost \in Nat /\ Tokens(sel) \in Nat /\ Tokens(t) \in Nat
  BY TokensNatural DEF Lines
<1>3. CASE row.id \in Ids(t) \/ full
  <2>1. AddRow(acc, row, budget) = acc
    BY <1>1, <1>3 DEF AddRow
  <2>2. t # << >>
    BY <1>1, <1>3 DEF Rowed, Ids
  <2> QED
    BY <1>1, <2>1, <2>2 DEF Rowed
<1>4. CASE ~(row.id \in Ids(t) \/ full)
  <2>1. AddRow(acc, row, budget) =
          IF spent + row.cost > budget /\ t # << >> THEN [acc EXCEPT !.full = TRUE]
          ELSE [acc EXCEPT !.sel = Append(t, row), !.used = spent + row.cost]
    BY <1>1, <1>4 DEF AddRow
  <2>2. CASE spent + row.cost > budget /\ t # << >>
    <3>1. PICK a : a = [acc EXCEPT !.full = TRUE]
      OBVIOUS
    <3>2. a \in Rows /\ a.sel = t /\ a.used = spent
      BY <1>1, <3>1 DEF Rowed, Rows
    <3> QED
      BY <1>1, <2>1, <2>2, <3>1, <3>2 DEF Rowed
  <2>3. CASE ~(spent + row.cost > budget /\ t # << >>)
    <3>1. PICK a : a = [acc EXCEPT !.sel = Append(t, row), !.used = spent + row.cost]
      OBVIOUS
    <3>2. PICK u : u = Append(t, row)
      OBVIOUS
    <3>3. /\ u \in Seq(Lines) /\ u # << >> /\ Distinct(u)
          /\ t # << >> => u[1] = t[1]
          /\ t = << >> => Len(u) = 1 /\ u[1] = row
          /\ Tokens(u) = Tokens(t) + row.cost
      BY <1>1, <1>4, <3>2, AppendedRow DEF Rowed
    <3>4. a \in Rows /\ a.sel = u /\ a.used = spent + row.cost
      <4>1. acc \in Rows /\ spent + row.cost \in Nat
        BY <1>2 DEF Rowed
      <4> QED
        BY <3>1, <3>2, <3>3, <4>1 DEF Rows
    <3>5. Tokens(t) = Tokens(sel) + spent
      BY <1>1 DEF Rowed
    <3>6. Tokens(u) = Tokens(sel) + a.used
      BY <1>2, <3>3, <3>4, <3>5
    <3>7. sel # << >> => a.used <= budget /\ u[1] = sel[1]
      <4>1. sel # << >> => t # << >> /\ t[1] = sel[1]
        BY <1>1 DEF Rowed
      <4> QED
        BY <1>2, <2>3, <3>3, <3>4, <4>1
    <3>8. sel = << >> => a.used <= budget \/ (Len(u) = 1 /\ u[1].cost > budget)
      <4>1. CASE t = << >> /\ sel = << >>
        <5>1. spent = 0
          BY <1>2, <3>5, <4>1, NoTokens
        <5>2. a.used = row.cost
          BY <1>2, <3>4, <5>1
        <5>3. a.used <= budget \/ row.cost > budget
          BY <1>2, <5>2
        <5> QED
          BY <3>3, <4>1, <5>3
      <4>2. CASE t # << >>
        <5>1. ~(spent + row.cost > budget)
          BY <2>3, <4>2
        <5>2. a.used <= budget
          BY <1>2, <3>4, <5>1
        <5> QED
          BY <5>2
      <4> QED
        BY <4>1, <4>2
    <3>8a. sel = << >> => u[1] = first
      <4>1. sel = << >> /\ t # << >> => t[1] = first
        BY <1>1 DEF Rowed
      <4> QED
        BY <1>1, <3>3, <4>1
    <3>9. Rowed(sel, n + 1, budget, first, a)
      BY <3>3, <3>4, <3>6, <3>7, <3>8, <3>8a DEF Rowed
    <3> QED
      BY <2>1, <2>3, <3>1, <3>2, <3>9
  <2> QED
    BY <2>2, <2>3
<1> QED
  BY <1>3, <1>4

LEMMA AddRowTyped ==
    ASSUME NEW acc \in Rows, NEW row \in Lines, NEW budget \in Nat
    PROVE  AddRow(acc, row, budget) \in Rows
<1>1. PICK t \in Seq(Lines), spent \in Nat, full \in BOOLEAN : t = acc.sel /\
             spent = acc.used /\ full = acc.full
  BY DEF Rows
<1>2. spent + row.cost \in Nat /\ Append(t, row) \in Seq(Lines)
  <2>1. row.cost \in Nat
    BY DEF Lines
  <2> QED
    BY <2>1, AppendProperties
<1>3. [acc EXCEPT !.full = TRUE] \in Rows
  BY DEF Rows
<1>4. [acc EXCEPT !.sel = Append(t, row), !.used = spent + row.cost] \in Rows
  BY <1>2 DEF Rows
<1>5. CASE row.id \in Ids(t) \/ full
  BY <1>1, <1>5 DEF AddRow
<1>6. CASE ~(row.id \in Ids(t) \/ full)
  BY <1>1, <1>3, <1>4, <1>6 DEF AddRow
<1> QED
  BY <1>5, <1>6

LEMMA AddRowsIs ==
    ASSUME NEW sel \in Seq(Lines), Distinct(sel), NEW rows \in Seq(Lines),
           NEW budget \in Nat
    PROVE  \E acc : /\ AddRows(sel, rows, budget) = acc.sel
                    /\ Rowed(sel, Len(rows), budget, rows[1], acc)
                    /\ rows = << >> => acc.sel = sel
<1>1. PICK n \in Nat : n = Len(rows) /\ \A i \in 1 .. n : rows[i] \in Lines
  OBVIOUS
<1>2. PICK start : start = [sel |-> sel, used |-> 0, full |-> FALSE]
  OBVIOUS
<1>3. start \in Rows /\ Rowed(sel, 0, budget, rows[1], start)
  <2>1. Tokens(sel) \in Nat
    BY TokensNatural
  <2> QED
    BY <1>2, <2>1 DEF Rows, Rowed
<1>4. PICK step : step = [i \in 1 .. n |-> [acc \in Rows |-> AddRow(acc, rows[i], budget)]]
  OBVIOUS
<1>5. step \in Steps(n, Rows)
  <2>1. \A i \in 1 .. n : \A acc \in Rows : AddRow(acc, rows[i], budget) \in Rows
    BY <1>1, AddRowTyped
  <2> QED
    BY <1>4, <2>1 DEF Steps
<1>6. PICK f : Solves(f, n, Rows, start, step)
  BY <1>3, <1>5, Recursion, Zenon
<1>7. /\ f \in [0 .. n -> Rows] /\ f[0] = start
      /\ \A i \in 1 .. n : f[i] = AddRow(f[i - 1], rows[i], budget)
  <2>1. f \in [0 .. n -> Rows] /\ f[0] = start /\ \A i \in 1 .. n : f[i] = step[i][f[i - 1]]
    BY <1>6 DEF Solves
  <2>2. ASSUME NEW i \in 1 .. n PROVE f[i] = AddRow(f[i - 1], rows[i], budget)
    <3>1. f[i - 1] \in Rows
      BY <2>1
    <3> QED
      BY <1>4, <2>1, <3>1
  <2> QED
    BY <2>1, <2>2
<1>8. f = [i \in 0 .. n |-> IF i = 0 THEN start ELSE AddRow(f[i - 1], rows[i], budget)]
  <2>1. PICK h : h = [i \in 0 .. n |-> IF i = 0 THEN start ELSE AddRow(f[i - 1], rows[i], budget)]
    OBVIOUS
  <2>2. \A i \in 0 .. n : h[i] = f[i]
    BY <1>7, <2>1
  <2>3. h = f
    BY <1>7, <2>1, <2>2
  <2> QED
    BY <2>1, <2>3
<1> DEFINE Runs(g) ==
        g = [i \in 0 .. Len(rows) |-> IF i = 0 THEN [sel |-> sel, used |-> 0, full |-> FALSE]
                                      ELSE AddRow(g[i - 1], rows[i], budget)]
           Run == CHOOSE g : Runs(g)
<1>8a. AddRows(sel, rows, budget) = Run[Len(rows)].sel
  BY Zenon DEF AddRows
<1>8b. Runs(f)
  BY <1>1, <1>2, <1>8
<1>8c. Runs(Run)
  <2> HIDE DEF Runs
  <2> QED
    BY <1>8b, Zenon
<1>9. PICK g : /\ g = [i \in 0 .. n |-> IF i = 0 THEN start
                       ELSE AddRow(g[i - 1], rows[i], budget)]
               /\ AddRows(sel, rows, budget) = g[n].sel
  <2>1. PICK g : g = Run
    OBVIOUS
  <2>2. Runs(g)
    <3> HIDE DEF Runs
    <3> QED
      BY <1>8c, <2>1
  <2> HIDE DEF Run
  <2> QED
    BY <1>1, <1>2, <1>8a, <2>1, <2>2
<1> HIDE DEF Runs, Run
<1>10. PICK P : P = {i \in 0 .. n : Rowed(sel, i, budget, rows[1], g[i])}
  OBVIOUS
<1>11. 0 \in P
  BY <1>3, <1>9, <1>10
<1>12. ASSUME NEW i \in 1 .. n, i - 1 \in P PROVE i \in P
  <2>1. PICK m \in Nat : m = i - 1 /\ m + 1 = i
    OBVIOUS
  <2>2. g[i] = AddRow(g[m], rows[i], budget)
    BY <1>9, <2>1
  <2>3. Rowed(sel, m, budget, rows[1], g[m]) /\ rows[i] \in Lines
    BY <1>1, <1>10, <1>12, <2>1
  <2>3a. g[m].sel = << >> => rows[i] = rows[1]
    <3>1. g[m].sel = << >> => m = 0
      BY <2>3 DEF Rowed
    <3> QED
      BY <2>1, <3>1
  <2>4. Rowed(sel, m + 1, budget, rows[1], AddRow(g[m], rows[i], budget))
    BY <2>3, <2>3a, RowAdded
  <2> QED
    BY <1>10, <2>1, <2>2, <2>4
<1>13. n \in P
  <2>1. \A i \in 1 .. n : i - 1 \in P => i \in P
    BY <1>12
  <2>2. \A i \in 0 .. n : i \in P
    BY <1>11, <2>1, UpTo, Zenon
  <2> QED
    BY <2>2
<1>14. Rowed(sel, n, budget, rows[1], g[n])
  BY <1>10, <1>13
<1>15. rows = << >> => g[n].sel = sel
  BY <1>1, <1>2, <1>9
<1> QED
  BY <1>1, <1>9, <1>14, <1>15

\* The pack after some sections: within their budgets, but for its first row, and
\* empty only if these are.
Sectioned(sections, budgets, sum, n, x) ==
    /\ x \in Seq(Lines) /\ Distinct(x)
    /\ x = << >> <=> \A i \in 1 .. n : sections[i] = << >>
    /\ \A i \in 1 .. n : Leading(sections, i) =>
          /\ x # << >> /\ x[1] = sections[i][1]
          /\ \/ Tokens(x) <= sum[n]
             \/ x[1].cost > budgets[i] /\ Tokens(x) <= sum[n] + x[1].cost

Adds(sum, budgets, n) ==
    /\ budgets \in [1 .. n -> Nat] /\ sum \in [0 .. n -> Nat] /\ sum[0] = 0
    /\ \A i \in 1 .. n : sum[i] = sum[i - 1] + budgets[i]

LEMMA SectionAdded ==
    ASSUME NEW n \in Nat, NEW sections, NEW budgets, NEW sum, Adds(sum, budgets, n),
           NEW m \in 1 .. n, sections[m] \in Seq(Lines), NEW x,
           Sectioned(sections, budgets, sum, m - 1, x)
    PROVE  Sectioned(sections, budgets, sum, m, AddRows(x, sections[m], budgets[m]))
<1>1. PICK rows \in Seq(Lines), h \in 0 .. n :
        rows = sections[m] /\ h = m - 1 /\ m = h + 1
  OBVIOUS
<1>2. PICK b \in Nat, before \in Nat, after \in Nat :
        /\ b = budgets[m] /\ before = sum[h] /\ after = sum[m] /\ after = before + b
  <2>1. budgets[m] \in Nat /\ sum[h] \in Nat /\ sum[m] \in Nat /\ sum[m] = sum[h] + budgets[m]
    BY <1>1 DEF Adds
  <2> QED
    BY <2>1
<1>3. x \in Seq(Lines) /\ Distinct(x) /\ Sectioned(sections, budgets, sum, h, x)
  BY <1>1 DEF Sectioned
<1>4. PICK acc : /\ AddRows(x, rows, b) = acc.sel /\ Rowed(x, Len(rows), b, rows[1], acc)
                 /\ rows = << >> => acc.sel = x
  BY <1>3, AddRowsIs
<1>5. PICK y \in Seq(Lines), spent \in Nat : y = acc.sel /\ spent = acc.used
  BY <1>4 DEF Rowed, Rows
<1>6. /\ Distinct(y) /\ Tokens(y) = Tokens(x) + spent
      /\ x # << >> => spent <= b /\ y # << >> /\ y[1] = x[1]
      /\ x = << >> => spent <= b \/ (Len(y) = 1 /\ y[1].cost > b)
      /\ x = << >> /\ y # << >> => y[1] = rows[1]
      /\ Len(rows) > 0 => y # << >>
  BY <1>4, <1>5 DEF Rowed
<1>7. PICK p \in Nat, q \in Nat : p = Tokens(x) /\ q = Tokens(y) /\ q = p + spent
  BY <1>3, <1>6, TokensNatural
<1>8. Len(rows) > 0 <=> rows # << >>
  OBVIOUS
<1>9. y = << >> <=> \A i \in 1 .. m : sections[i] = << >>
  <2>1. x = << >> <=> \A i \in 1 .. h : sections[i] = << >>
    BY <1>3 DEF Sectioned
  <2>2. y = << >> <=> x = << >> /\ rows = << >>
    BY <1>4, <1>5, <1>6, <1>8
  <2>3. (\A i \in 1 .. m : sections[i] = << >>)
          <=> (\A i \in 1 .. h : sections[i] = << >>) /\ sections[m] = << >>
    <3>1. \A i \in 1 .. m : i = m \/ i \in 1 .. h
      BY <1>1
    <3>2. m \in 1 .. m /\ \A i \in 1 .. h : i \in 1 .. m
      BY <1>1
    <3> QED
      BY <3>1, <3>2
  <2> QED
    BY <1>1, <2>1, <2>2, <2>3
<1>10. ASSUME NEW i \in 1 .. m, Leading(sections, i)
       PROVE  /\ y # << >> /\ y[1] = sections[i][1]
              /\ q <= after \/ (y[1].cost > budgets[i] /\ q <= after + y[1].cost)
  <2>1. CASE i # m
    <3>1. i \in 1 .. h
      BY <1>1, <2>1
    <3>2. /\ x # << >> /\ x[1] = sections[i][1]
          /\ p <= before \/ (x[1].cost > budgets[i] /\ p <= before + x[1].cost)
      BY <1>2, <1>3, <1>7, <1>10, <3>1 DEF Sectioned
    <3>3. y # << >> /\ y[1] = x[1] /\ spent <= b
      BY <1>6, <3>2
    <3>4. PICK c \in Nat : c = x[1].cost
      <4>1. x[1] \in Lines
        BY <1>3, <3>2
      <4> QED
        BY <4>1 DEF Lines
    <3>5. p <= before => q <= after
      BY <1>2, <1>7, <3>3
    <3>6. p <= before + c => q <= after + c
      <4>1. \A v, w, x1, y1, z1 \in Nat : w <= x1 /\ v <= y1 + z1 => v + w <= (y1 + x1) + z1
        OBVIOUS
      <4>2. /\ p \in Nat /\ spent \in Nat /\ b \in Nat /\ before \in Nat /\ c \in Nat
            /\ spent <= b /\ q = p + spent /\ after = before + b
        BY <1>2, <1>5, <1>7, <3>3, <3>4
      <4> QED
        BY <4>1, <4>2, Zenon
    <3> QED
      BY <3>2, <3>3, <3>4, <3>5, <3>6
  <2>2. CASE i = m
    <3>1. rows # << >> /\ y # << >>
      BY <1>1, <1>6, <1>8, <1>10, <2>2 DEF Leading
    <3>2. x = << >> /\ p = 0
      <4>1. \A j \in 1 .. h : sections[j] = << >>
        BY <1>1, <1>10, <2>2 DEF Leading
      <4>2. x = << >>
        BY <1>3, <4>1 DEF Sectioned
      <4> QED
        BY <1>7, <4>2, NoTokens
    <3>3. y[1] = sections[i][1]
      BY <1>1, <1>6, <2>2, <3>1, <3>2
    <3>4. CASE spent <= b
      <4>1. q <= after
        BY <1>2, <1>7, <3>2, <3>4
      <4> QED
        BY <3>1, <3>3, <4>1
    <3>5. CASE Len(y) = 1 /\ y[1].cost > b
      <4>1. q = y[1].cost /\ y[1].cost \in Nat
        <5>1. y \in Seq(Lines) /\ y[1] \in Lines
          BY <1>5, <3>5
        <5>2. Tokens(y) = y[1].cost
          BY <3>5, <5>1, OneLine
        <5>3. y[1].cost \in Nat
          BY <5>1 DEF Lines
        <5> QED
          BY <1>7, <5>2, <5>3
      <4>2. q <= after + y[1].cost
        BY <1>2, <4>1
      <4> QED
        BY <1>1, <1>2, <2>2, <3>1, <3>3, <3>5, <4>2
    <3> QED
      BY <1>6, <3>2, <3>4, <3>5
  <2> QED
    BY <2>1, <2>2
<1> QED
  BY <1>1, <1>2, <1>4, <1>5, <1>6, <1>7, <1>9, <1>10 DEF Sectioned

\* Whatever the rows of any number of sections, of which some may be empty, and
\* the budgets of these: a frozen pack has no neuron twice, its rows are within
\* the budgets unless its leading row alone is larger than its section's, and the
\* hint's rows come first.
THEOREM SectionsFit ==
    ASSUME NEW n \in Nat, NEW sections, Len(sections) = n,
           \A i \in 1 .. n : sections[i] \in Seq(Lines),
           NEW budgets, NEW sum, Adds(sum, budgets, n),
           NEW pack, pack = SelectInjectionNeurons(sections, budgets)
    PROVE  /\ pack \in Seq(Lines) /\ Distinct(pack)
           /\ \A i \in 1 .. n : Leading(sections, i) =>
                 /\ sections[i][1] \in ToSet(pack)
                 /\ \/ Tokens(pack) <= sum[n]
                    \/ /\ sections[i][1].cost > budgets[i]
                       /\ Tokens(pack) <= sum[n] + sections[i][1].cost
           /\ \A k, l \in DOMAIN pack : k < l => pack[k].score >= pack[l].score
<1>1. PICK S : S = {x \in Seq(Lines) : Distinct(x)}
  OBVIOUS
<1>2. PICK e : e = << >> /\ e \in S /\ Tokens(e) = 0
  <2>1. Distinct(<< >>)
    BY DEF Distinct
  <2> QED
    BY <1>1, <2>1, NoTokens
<1>3. ASSUME NEW i \in 1 .. n, NEW x \in S PROVE AddRows(x, sections[i], budgets[i]) \in S
  <2>1. budgets[i] \in Nat /\ sections[i] \in Seq(Lines) /\ x \in Seq(Lines) /\ Distinct(x)
    BY <1>1 DEF Adds
  <2>2. PICK acc : /\ AddRows(x, sections[i], budgets[i]) = acc.sel
                   /\ Rowed(x, Len(sections[i]), budgets[i], sections[i][1], acc)
    BY <2>1, AddRowsIs
  <2> QED
    BY <1>1, <2>2 DEF Rowed, Rows
<1>4. PICK step : step = [i \in 1 .. n |-> [x \in S |-> AddRows(x, sections[i], budgets[i])]]
  OBVIOUS
<1>5. step \in Steps(n, S)
  BY <1>3, <1>4 DEF Steps
<1>6. PICK f : Solves(f, n, S, e, step)
  BY <1>2, <1>5, Recursion, Zenon
<1>7. /\ f \in [0 .. n -> S] /\ f[0] = e
      /\ \A i \in 1 .. n : f[i] = AddRows(f[i - 1], sections[i], budgets[i])
  <2>1. f \in [0 .. n -> S] /\ f[0] = e /\ \A i \in 1 .. n : f[i] = step[i][f[i - 1]]
    BY <1>6 DEF Solves
  <2>2. ASSUME NEW i \in 1 .. n PROVE f[i] = AddRows(f[i - 1], sections[i], budgets[i])
    <3>1. f[i - 1] \in S
      BY <2>1
    <3> QED
      BY <1>4, <2>1, <3>1
  <2> QED
    BY <2>1, <2>2
<1>8. f = [i \in 0 .. n |-> IF i = 0 THEN e ELSE AddRows(f[i - 1], sections[i], budgets[i])]
  <2>1. PICK h : h = [i \in 0 .. n |-> IF i = 0 THEN e
                      ELSE AddRows(f[i - 1], sections[i], budgets[i])]
    OBVIOUS
  <2>2. \A i \in 0 .. n : h[i] = f[i]
    BY <1>7, <2>1
  <2>3. h = f
    BY <1>7, <2>1, <2>2
  <2> QED
    BY <2>1, <2>3
<1> DEFINE Runs(g) ==
        g = [i \in 0 .. Len(sections) |->
               IF i = 0 THEN << >> ELSE AddRows(g[i - 1], sections[i], budgets[i])]
           Run == CHOOSE g : Runs(g)
<1>9. SelectInjectionNeurons(sections, budgets) = ByHint(Run[Len(sections)])
  BY Zenon DEF SelectInjectionNeurons
<1>10. Runs(f)
  BY <1>2, <1>8
<1>11. Runs(Run)
  <2> HIDE DEF Runs
  <2> QED
    BY <1>10, Zenon
<1>12. PICK g : /\ g = [i \in 0 .. n |-> IF i = 0 THEN e
                        ELSE AddRows(g[i - 1], sections[i], budgets[i])]
                /\ pack = ByHint(g[n])
  <2>1. PICK g : g = Run
    OBVIOUS
  <2>2. Runs(g)
    <3> HIDE DEF Runs
    <3> QED
      BY <1>11, <2>1
  <2> HIDE DEF Run
  <2> QED
    BY <1>2, <1>9, <2>1, <2>2
<1> HIDE DEF Runs, Run
<1>13. PICK P : P = {i \in 0 .. n : Sectioned(sections, budgets, sum, i, g[i])}
  OBVIOUS
<1>14. 0 \in P
  <2>1. g[0] = << >> /\ g[0] \in Seq(Lines) /\ Distinct(g[0])
    BY <1>1, <1>2, <1>12
  <2> QED
    <3>1. 0 \in 0 .. n /\ 1 .. 0 = {}
      OBVIOUS
    <3>2. Sectioned(sections, budgets, sum, 0, g[0])
      BY <2>1, <3>1 DEF Sectioned
    <3> QED
      BY <1>13, <3>1, <3>2
<1>15. ASSUME NEW i \in 1 .. n, i - 1 \in P PROVE i \in P
  <2>1. g[i] = AddRows(g[i - 1], sections[i], budgets[i])
    BY <1>12
  <2>2. Sectioned(sections, budgets, sum, i - 1, g[i - 1]) /\ sections[i] \in Seq(Lines)
    BY <1>13, <1>15
  <2>3. Sectioned(sections, budgets, sum, i, AddRows(g[i - 1], sections[i], budgets[i]))
    BY <2>2, SectionAdded
  <2> QED
    BY <1>13, <2>1, <2>3
<1>16. n \in P
  <2>1. \A i \in 1 .. n : i - 1 \in P => i \in P
    BY <1>15
  <2>2. \A i \in 0 .. n : i \in P
    BY <1>14, <2>1, UpTo, Zenon
  <2> QED
    BY <2>2
<1>17. PICK x : x = g[n] /\ pack = ByHint(x) /\ Sectioned(sections, budgets, sum, n, x)
  BY <1>12, <1>13, <1>16
<1>18. x \in Seq(Lines) /\ Distinct(x)
  BY <1>17 DEF Sectioned
<1>19. /\ pack \in Seq(Lines) /\ Distinct(pack) /\ Tokens(pack) = Tokens(x)
       /\ \A i \in DOMAIN x : x[i] \in ToSet(pack)
       /\ \A k, l \in DOMAIN pack : k < l => pack[k].score >= pack[l].score
  BY <1>17, <1>18, ByHintIs
<1>20. ASSUME NEW i \in 1 .. n, Leading(sections, i)
       PROVE  /\ sections[i][1] \in ToSet(pack)
              /\ \/ Tokens(pack) <= sum[n]
                 \/ /\ sections[i][1].cost > budgets[i]
                    /\ Tokens(pack) <= sum[n] + sections[i][1].cost
  <2>1. /\ x # << >> /\ x[1] = sections[i][1]
        /\ Tokens(x) <= sum[n] \/ (x[1].cost > budgets[i] /\ Tokens(x) <= sum[n] + x[1].cost)
    BY <1>17, <1>20 DEF Sectioned
  <2>2. 1 \in DOMAIN x
    BY <1>18, <2>1
  <2> QED
    BY <1>19, <2>1, <2>2
<1> QED
  BY <1>19, <1>20

LEMMA ClampIs ==
    ASSUME NEW pack \in Seq(Lines), NEW total \in Nat, NEW frame \in Nat,
           NEW kept, kept = ClampInjectionPack(pack, total, frame)
    PROVE  /\ kept \in Seq(Lines) /\ IsPrefix(kept, pack)
           /\ kept = << >> \/ frame + Tokens(SubSeq(pack, 1, Len(kept))) <= total
           /\ kept # pack => /\ Len(kept) + 1 \in 0 .. Len(pack)
                             /\ frame + Tokens(SubSeq(pack, 1, Len(kept) + 1)) > total
<1>1. PICK len \in Nat : len = Len(pack)
  OBVIOUS
<1>2. PICK sum : sum = [m \in 0 .. len |-> frame + Tokens(SubSeq(pack, 1, m))]
  OBVIOUS
<1>3. \A m \in 0 .. len : sum[m] \in Nat
  BY <1>1, <1>2, TokensUpTo
<1> DEFINE N == CHOOSE n \in 0 .. Len(pack) :
                   /\ n = 0 \/ frame + Tokens(SubSeq(pack, 1, n)) <= total
                   /\ \A m \in n + 1 .. Len(pack) :
                         frame + Tokens(SubSeq(pack, 1, m)) > total
<1>4. kept = SubSeq(pack, 1, N)
  BY Zenon DEF ClampInjectionPack
<1>5. \E n \in 0 .. len : (n = 0 \/ sum[n] <= total) /\ \A m \in n + 1 .. len : sum[m] > total
  <2>1. PICK F : F = {d \in 0 .. len : sum[len - d] <= total}
    OBVIOUS
  <2>2. PICK d \in 0 .. len : (d \in F \/ d = len) /\ \A e \in 0 .. d - 1 : e \notin F
    BY LeastUpTo
  <2>3. PICK n \in 0 .. len : n = len - d
    OBVIOUS
  <2>4. n = 0 \/ sum[n] <= total
    BY <2>1, <2>2, <2>3
  <2>5. ASSUME NEW m \in n + 1 .. len PROVE sum[m] > total
    <3>1. PICK e \in 0 .. d - 1 : e = len - m /\ len - e = m /\ e \in 0 .. len
      BY <2>3
    <3>2. ~(sum[m] <= total)
      BY <2>1, <2>2, <3>1
    <3>3. sum[m] \in Nat
      BY <1>3, <2>3
    <3> QED
      BY <3>2, <3>3
  <2> QED
    BY <2>3, <2>4, <2>5
<1>6. \E n \in 0 .. Len(pack) :
         /\ n = 0 \/ frame + Tokens(SubSeq(pack, 1, n)) <= total
         /\ \A m \in n + 1 .. Len(pack) : frame + Tokens(SubSeq(pack, 1, m)) > total
  <2>1. PICK n \in 0 .. len : (n = 0 \/ sum[n] <= total) /\ \A m \in n + 1 .. len : sum[m] > total
    BY <1>5
  <2>2. \A m \in n + 1 .. len : m \in 0 .. len
    BY <2>1
  <2> QED
    BY <1>1, <1>2, <2>1, <2>2
<1>7. /\ N \in 0 .. Len(pack)
      /\ N = 0 \/ frame + Tokens(SubSeq(pack, 1, N)) <= total
      /\ \A m \in N + 1 .. Len(pack) : frame + Tokens(SubSeq(pack, 1, m)) > total
  BY <1>6, Zenon
<1> HIDE DEF N
<1>8. kept \in Seq(Lines) /\ Len(kept) = N /\ (N = Len(pack) => kept = pack)
  BY <1>4, <1>7, TokensUpTo
<1>9. IsPrefix(kept, pack)
  <2>1. SubSeq(kept, 1, N) = kept
    <3>1. N \in 0 .. Len(kept)
      BY <1>7, <1>8
    <3> QED
      BY <1>8, <3>1, TokensUpTo
  <2> QED
    BY <1>4, <1>7, <1>8, <2>1 DEF IsPrefix
<1>10. kept = << >> \/ frame + Tokens(SubSeq(pack, 1, Len(kept))) <= total
  <2>1. N = 0 => kept = << >>
    BY <1>8
  <2> QED
    BY <1>7, <1>8, <2>1
<1>11. ASSUME kept # pack
       PROVE  /\ Len(kept) + 1 \in 0 .. Len(pack)
              /\ frame + Tokens(SubSeq(pack, 1, Len(kept) + 1)) > total
  <2>1. N + 1 \in N + 1 .. Len(pack) /\ N + 1 \in 0 .. Len(pack)
    BY <1>1, <1>7, <1>8, <1>11
  <2> QED
    BY <1>7, <1>8, <2>1
<1> QED
  BY <1>8, <1>9, <1>10, <1>11

-----------------------------------------------------------------------------
(* What is asked for                                                       *)

LEMMA LineIs ==
    ASSUME NEW id \in Nat, NEW cost \in Costs, NEW prio \in Nat, NEW score \in Nat
    PROVE  /\ Line(id, cost, prio, score) \in Titled
           /\ Line(id, cost, prio, score).id = id /\ Line(id, cost, prio, score).prio = prio
BY PackingAssumption DEF Line, Titled, Lines

LEMMA FoundIs ==
    ASSUME NEW lines \in Found
    PROVE  /\ lines \in [Chans -> Seq(Titled)] /\ Apart(lines)
           /\ \E l : Leads(l, lines)
<1>1. PICK a \in Costs, b \in Costs, g \in Costs, c \in Costs, p \in {0, 4} :
        lines = [neurons |-> <<Line(1, a, p, 2), Line(2, b, 3, 1)>>, graph |-> <<Line(3, g,
              7, 0)>>,
                 procedures |-> <<Line(4, c, 6, 0)>>]
  BY DEF Found
<1>2. PICK k, l, m, n : /\ k = Line(1, a, p, 2) /\ l = Line(2, b, 3, 1)
                        /\ m = Line(3, g, 7, 0) /\ n = Line(4, c, 6, 0)
  OBVIOUS
<1>3. /\ k \in Titled /\ k.id = 1 /\ k.prio = p /\ l \in Titled /\ l.id = 2 /\ l.prio = 3
      /\ m \in Titled /\ m.id = 3 /\ m.prio = 7 /\ n \in Titled /\ n.id = 4 /\ n.prio = 6
  <2>0. 0 \in Nat /\ 1 \in Nat /\ 2 \in Nat /\ 3 \in Nat /\ 4 \in Nat /\ 6 \in Nat /\
          7 \in Nat /\ p \in Nat
    OBVIOUS
  <2>1. k \in Titled /\ k.id = 1 /\ k.prio = p
    BY <1>2, <2>0, PackingAssumption DEF Line, Titled, Lines
  <2>2. l \in Titled /\ l.id = 2 /\ l.prio = 3
    BY <1>2, <2>0, PackingAssumption DEF Line, Titled, Lines
  <2>3. m \in Titled /\ m.id = 3 /\ m.prio = 7
    BY <1>2, <2>0, PackingAssumption DEF Line, Titled, Lines
  <2>4. n \in Titled /\ n.id = 4 /\ n.prio = 6
    BY <1>2, <2>0, PackingAssumption DEF Line, Titled, Lines
  <2> QED
    BY <2>1, <2>2, <2>3, <2>4
<1>4. PICK x, y, z : x = <<k, l>> /\ y = <<m>> /\ z = <<n>>
  OBVIOUS
<1>5. /\ x \in Seq(Titled) /\ DOMAIN x = {1, 2} /\ x[1] = k /\ x[2] = l
      /\ y \in Seq(Titled) /\ DOMAIN y = {1} /\ y[1] = m
      /\ z \in Seq(Titled) /\ DOMAIN z = {1} /\ z[1] = n
  BY <1>3, <1>4
<1>6. lines = [neurons |-> x, graph |-> y, procedures |-> z]
  BY <1>1, <1>2, <1>4
<1>7. lines \in [Chans -> Seq(Titled)] /\ lines["neurons"] = x /\ lines["graph"] = y /\
        lines["procedures"] = z
  BY <1>5, <1>6 DEF Chans
<1>8. Ids(x) = {1, 2} /\ Ids(y) = {3} /\ Ids(z) = {4}
  BY <1>3, <1>5 DEF Ids
<1>9. Distinct(x) /\ Distinct(y) /\ Distinct(z)
  BY <1>3, <1>5 DEF Distinct
<1>10. Apart(lines)
  <2>1. lines \in [Chans -> Seq(Lines)]
    BY <1>7, TitledLines
  <2>2. \A ch \in Chans : Distinct(lines[ch])
    BY <1>7, <1>9 DEF Chans
  <2>3. \A ch, d \in Chans : ch # d => Ids(lines[ch]) \cap Ids(lines[d]) = {}
    BY <1>7, <1>8 DEF Chans
  <2> QED
    BY <2>1, <2>2, <2>3 DEF Apart
<1>11. CASE p = 0
  <2>1. Leads(k, lines)
    BY <1>3, <1>5, <1>7, <1>11 DEF Leads, Chans
  <2> QED
    BY <1>7, <1>10, <2>1
<1>12. CASE p = 4
  <2>1. Leads(l, lines)
    BY <1>3, <1>5, <1>7, <1>12 DEF Leads, Chans
  <2> QED
    BY <1>7, <1>10, <2>1
<1> QED
  BY <1>11, <1>12

LEMMA SlotsAre ==
    ASSUME NEW budget \in Nat, budget >= 200, NEW slot \in Slots(budget)
    PROVE  slot \in SlotRecords /\ Whole(slot) \in Nat /\ Whole(slot) >= 200
<1>1. Pre.graph \in Nat /\ Pre.procedure \in Nat
  BY DEF Pre
<1>2. ASSUME NEW type \in SlotTypes
      PROVE  /\ ContextPackSlots(type, budget, Pre) \in SlotRecords
             /\ Whole(ContextPackSlots(type, budget, Pre)) = budget
             /\ ProcedureSlots(ContextPackSlots(type, budget, Pre)) \in SlotRecords
             /\ Whole(ProcedureSlots(ContextPackSlots(type, budget, Pre))) = budget
  BY <1>1, SlotsShareTheTotal
<1>3. PreToolPackSlots(Pre, 200) \in SlotRecords /\ Whole(PreToolPackSlots(Pre, 200)) = 850
  BY DEF PreToolPackSlots, Pre, SlotRecords, Whole, Smaller
<1>4. \/ \E type \in SlotTypes : \/ slot = ContextPackSlots(type, budget, Pre)
                                 \/ slot = ProcedureSlots(ContextPackSlots(type, budget, Pre))
      \/ slot = PreToolPackSlots(Pre, 200)
  BY DEF Slots, SlotTypes
<1> QED
  BY <1>2, <1>3, <1>4

LEMMA BudgetIs ==
    ASSUME NEW total \in Totals, NEW percent \in {55, 100}
    PROVE  Budget(total, percent) \in Nat /\ Budget(total, percent) >= 200
<1>1. total \in Nat
  BY PackingAssumption
<1>2. PICK s \in Nat : s = Smaller(total, (total * percent) \div 100)
  <2>1. (total * 55) \div 100 \in Nat /\ (total * 100) \div 100 \in Nat
    BY <1>1
  <2> QED
    BY <1>1, <2>1 DEF Smaller
<1> QED
  BY <1>2 DEF Budget, Larger

AskedContext(a) ==
    \E total \in Totals, percent \in {55, 100}, byQuery \in BOOLEAN, lines \in Found,
       frame \in {40, 150} :
       \E slot \in Slots(Budget(total, percent)) :
          a = [what |-> "context", lines |-> lines, slot |-> slot,
               budget |-> Budget(total, percent), frame |-> frame,
               procedures |-> byQuery]

AskedFrozen(r) ==
    \E a, b, c \in Costs, total \in Totals, shown \in SUBSET (1 .. 5),
       named \in SUBSET {2, 3, 6} :
       r = [what |-> "frozen", total |-> total, budgets |-> SessionStart,
            sections |-> Sections(shown, <<a, b, c, c, b, a>>, named)]

\* What is packed is packed of what was asked.
PackingInv ==
    /\ asked # Nothing => AskedContext(asked) \/ AskedFrozen(asked)
    /\ packed # Nothing =>
          /\ asked # Nothing
          /\ asked.what = "context" =>
                packed = Packed(TruncateByChannels(asked.lines, asked.slot,
                                                   HardCap(asked.budget, asked.slot)))
          /\ asked.what = "frozen" =>
                packed = Frozen(SelectInjectionNeurons(asked.sections, asked.budgets))

LEMMA ContextFits ==
    ASSUME AskedContext(asked), NEW pack,
           pack = TruncateByChannels(asked.lines, asked.slot, HardCap(asked.budget, asked.slot)),
           packed = Packed(pack)
    PROVE  LinesFit /\ TextFits
<1>1. PICK total \in Totals, percent \in {55, 100}, byQuery \in BOOLEAN, lines \in Found,
             frame \in {40, 150} :
        \E slot \in Slots(Budget(total, percent)) :
          asked = [what |-> "context", lines |-> lines, slot |-> slot,
                   budget |-> Budget(total, percent), frame |-> frame, procedures |-> byQuery]
  BY DEF AskedContext
<1>2. PICK slot \in Slots(Budget(total, percent)) :
          asked = [what |-> "context", lines |-> lines, slot |-> slot,
                   budget |-> Budget(total, percent), frame |-> frame, procedures |-> byQuery]
  BY <1>1
<1>3. PICK budget \in Nat : budget = Budget(total, percent) /\ budget >= 200
  BY BudgetIs
<1>4. slot \in SlotRecords /\ Whole(slot) \in Nat /\ Whole(slot) >= 200
  BY <1>3, SlotsAre
<1>5. PICK room \in Nat : room = Smaller(budget, Whole(slot)) - Framing
  BY <1>3, <1>4 DEF Smaller, Framing
<1>6. HardCap(budget, slot) = room
  BY <1>5 DEF HardCap, Larger
<1>7. lines \in [Chans -> Seq(Titled)] /\ Apart(lines)
  BY FoundIs
<1>8. PICK l : Leads(l, lines)
  BY FoundIs
<1>9. pack = TruncateByChannels(lines, slot, room)
  BY <1>2, <1>3, <1>6
<1>10. /\ pack \in Seq(Lines) /\ Distinct(pack) /\ Tokens(pack) <= room
       /\ \A k \in DOMAIN pack : \E c \in Chans :
             \E i \in DOMAIN lines[c] : Like(pack[k], lines[c][i])
       /\ l.title <= slot.neurons /\ l.title <= room => l.id \in Ids(pack)
  <2>1. /\ pack \in Seq(Lines) /\ Distinct(pack) /\ Tokens(pack) <= room
        /\ \A k \in DOMAIN pack : \E c \in Chans :
              \E i \in DOMAIN lines[c] : Like(pack[k], lines[c][i])
        /\ \A m : Leads(m, lines) /\ m.title <= slot.neurons /\ m.title <= room =>
              m.id \in Ids(pack)
    BY <1>4, <1>5, <1>7, <1>9, TruncationFits
  <2> QED
    BY <1>8, <2>1
<1>11. packed.included = pack
  BY DEF Packed
<1>12. LinesFit
  <2>1. \A c \in DOMAIN slot : slot[c] >= 0
    BY <1>4 DEF SlotRecords
  <2>2. Cardinality(Ids(pack)) = Len(pack)
    BY <1>10, DistinctCounts
  <2>3. Ranked(lines.neurons)[1] = l /\ l \in Lines
    BY <1>7, <1>8, LeaderFirst
  <2>4. l.title <= Smaller(room, slot.neurons) => l.id \in Ids(pack)
    <3>1. l.title \in Nat /\ slot.neurons \in Nat
      BY <1>4, <2>3 DEF Lines, SlotRecords
    <3> QED
      BY <1>5, <1>10, <3>1 DEF Smaller
  <2>5. asked.slot = slot /\ asked.budget = budget /\ asked.lines = lines
    BY <1>2, <1>3
  <2> QED
    BY <1>5, <1>10, <1>11, <2>1, <2>2, <2>3, <2>4, <2>5 DEF LinesFit
<1>13. TextFits
  <2>1. pack \in Seq(Titled)
    <3>1. ASSUME NEW k \in DOMAIN pack PROVE pack[k] \in Titled
      <4>1. PICK c \in Chans : \E i \in DOMAIN lines[c] : Like(pack[k], lines[c][i])
        BY <1>10
      <4>2. PICK i \in DOMAIN lines[c] : Like(pack[k], lines[c][i])
        BY <4>1
      <4>3. lines[c][i] \in Titled /\ pack[k] \in Lines
        BY <1>7, <1>10
      <4> QED
        BY <4>2, <4>3 DEF Like, Titled
    <3>2. PICK n \in Nat : n = Len(pack) /\ DOMAIN pack = 1 .. n
      BY <1>10
    <3>3. PICK y : y = [k \in 1 .. n |-> pack[k]]
      OBVIOUS
    <3>4. y \in [1 .. n -> Titled]
      BY <3>1, <3>2, <3>3
    <3>5. y \in Seq(Titled) /\ Len(y) = n
      BY <3>4
    <3>6. y = pack
      BY <1>10, <3>2, <3>3, <3>5
    <3> QED
      BY <3>5, <3>6
  <2>2. PICK kept : kept = [c \in DOMAIN asked.lines |-> Kept(asked.lines[c], pack)]
    OBVIOUS
  <2>3. kept \in [Chans -> Seq(Titled)]
    <3>1. asked.lines = lines /\ DOMAIN lines = Chans
      BY <1>2, <1>7
    <3>2. \A c \in Chans : Kept(lines[c], pack) \in Seq(Titled)
      BY <1>7, <2>1, KeptIs DEF Apart
    <3> QED
      BY <2>2, <3>1, <3>2
  <2>4. PICK fitted : fitted =
               FitPackText(kept, TextCap(asked.budget), asked.frame, asked.procedures)
    OBVIOUS
  <2>5. fitted \in [Chans -> Seq(Titled)]
    <3>1. asked.procedures \in BOOLEAN
      BY <1>2
    <3> QED
      BY <2>3, <2>4, <3>1, FitPackTextIs
  <2>6. fitted.neurons \in Seq(Titled) /\ fitted.graph \in Seq(Titled) /\
          fitted.procedures \in Seq(Titled)
    BY <2>5 DEF Chans
  <2>7. Tokens(Parts(fitted)) \in Nat
    <3>1. fitted.neurons \in Seq(Lines) /\ fitted.graph \in Seq(Lines) /\
            fitted.procedures \in Seq(Lines)
      BY <2>6, TitledLines
    <3>2. fitted.neurons \o fitted.graph \in Seq(Lines)
      BY <3>1, TokensConcat
    <3>3. fitted.neurons \o fitted.graph \o fitted.procedures \in Seq(Lines)
      BY <3>1, <3>2, TokensConcat
    <3> QED
      BY <3>2, <3>3, TokensNatural DEF Parts
  <2>8. PICK spent : spent = Smaller(TextCap(asked.budget), asked.frame + Tokens(Parts(fitted)))
    OBVIOUS
  <2>9. asked.budget = budget /\ asked.frame \in Nat
    BY <1>2, <1>3
  <2>10. spent \in Nat /\ spent <= TextCap(budget)
    <3>1. TextCap(budget) \in Nat
      BY DEF TextCap, Larger, Envelope
    <3> QED
      BY <2>7, <2>8, <2>9, <3>1 DEF Smaller
  <2>11. packed.used = spent /\ packed.structured = Structured(fitted, spent, budget)
    BY <2>2, <2>4, <2>8, <2>9 DEF Packed
  <2>12. spent + Tokens(Structured(fitted, spent, budget))
           <= Larger(100, budget - Envelope) + 2 * Larger(0, Title - 20)
    BY <2>6, <2>10, ArraysFit
  <2> QED
    BY <2>9, <2>11, <2>12 DEF TextFits
<1> QED
  BY <1>12, <1>13

LEMMA SectionsAre ==
    ASSUME NEW a \in Costs, NEW b \in Costs, NEW c \in Costs, NEW shown, NEW named
    PROVE  /\ Len(Sections(shown, <<a, b, c, c, b, a>>, named)) = 5
           /\ \A i \in 1 .. 5 : Sections(shown, <<a, b, c, c, b, a>>, named)[i] \in Seq(Lines)
<1>1. PICK cost : cost = <<a, b, c, c, b, a>>
  OBVIOUS
<1>2. \A n \in 1 .. 6 : cost[n] \in Costs
  BY <1>1
<1>3. PICK row : row = [n \in 1 .. 6 |-> Line(n, cost[n], 0, IF n \in named THEN 1 ELSE 0)]
  OBVIOUS
<1>4. ASSUME NEW n \in 1 .. 6 PROVE row[n] \in Lines
  <2>1. PICK score \in Nat : score = IF n \in named THEN 1 ELSE 0
    OBVIOUS
  <2>2. n \in Nat /\ 0 \in Nat /\ cost[n] \in Costs
    BY <1>2
  <2>3. Line(n, cost[n], 0, score) \in Lines
    BY <2>2, LineIs DEF Titled
  <2> QED
    BY <1>3, <2>1, <2>3
<1>5. PICK all : all = <<<<row[1], row[2]>>, <<row[3]>>, <<row[2], row[4]>>, <<row[5]>>,
                         <<row[6]>>>>
  OBVIOUS
<1>6. /\ row[1] \in Lines /\ row[2] \in Lines /\ row[3] \in Lines
      /\ row[4] \in Lines /\ row[5] \in Lines /\ row[6] \in Lines
  BY <1>4
<1>7. all[1] \in Seq(Lines) /\ all[2] \in Seq(Lines) /\ all[3] \in Seq(Lines)
      /\ all[4] \in Seq(Lines) /\ all[5] \in Seq(Lines)
  BY <1>5, <1>6
<1>8. ASSUME NEW n \in 1 .. 5 PROVE all[n] \in Seq(Lines)
  <2>1. n = 1 \/ n = 2 \/ n = 3 \/ n = 4 \/ n = 5
    OBVIOUS
  <2> QED
    BY <1>7, <2>1
<1>9. /\ row[1] = Line(1, cost[1], 0, IF 1 \in named THEN 1 ELSE 0)
      /\ row[2] = Line(2, cost[2], 0, IF 2 \in named THEN 1 ELSE 0)
      /\ row[3] = Line(3, cost[3], 0, IF 3 \in named THEN 1 ELSE 0)
      /\ row[4] = Line(4, cost[4], 0, IF 4 \in named THEN 1 ELSE 0)
      /\ row[5] = Line(5, cost[5], 0, IF 5 \in named THEN 1 ELSE 0)
      /\ row[6] = Line(6, cost[6], 0, IF 6 \in named THEN 1 ELSE 0)
  BY <1>3
<1> DEFINE Row(n) == Line(n, cost[n], 0, IF n \in named THEN 1 ELSE 0)
<1>10. <<<<Row(1), Row(2)>>, <<Row(3)>>, <<Row(2), Row(4)>>, <<Row(5)>>, <<Row(6)>>>> = all
  BY <1>5, <1>9
<1>11. Sections(shown, cost, named)
         = [n \in 1 .. 5 |-> IF n \in shown
              THEN <<<<Row(1), Row(2)>>, <<Row(3)>>, <<Row(2), Row(4)>>, <<Row(5)>>,
                     <<Row(6)>>>>[n]
              ELSE << >>]
  BY Zenon DEF Sections
<1>12. PICK z : z = [n \in 1 .. 5 |-> IF n \in shown THEN all[n] ELSE << >>]
  OBVIOUS
<1>13. Sections(shown, cost, named) = z
  BY <1>10, <1>11, <1>12, Zenon
<1>14. \A n \in 1 .. 5 : z[n] \in Seq(Lines)
  BY <1>8, <1>12, NoTokens
<1>15. z \in [1 .. 5 -> Seq(Lines)]
  BY <1>12, <1>14
<1>16. Len(z) = 5
  BY <1>15
<1> QED
  BY <1>1, <1>13, <1>14, <1>16

LEMMA FrozenPackFits ==
    ASSUME AskedFrozen(asked),
           packed = Frozen(SelectInjectionNeurons(asked.sections, asked.budgets))
    PROVE  FrozenFits
<1>1. PICK a \in Costs, b \in Costs, c \in Costs, total \in Totals,
           shown \in SUBSET (1 .. 5), named \in SUBSET {2, 3, 6} :
        asked = [what |-> "frozen", total |-> total, budgets |-> SessionStart,
                 sections |-> Sections(shown, <<a, b, c, c, b, a>>, named)]
  BY DEF AskedFrozen
<1>2. PICK sections : sections = Sections(shown, <<a, b, c, c, b, a>>, named)
  OBVIOUS
<1>3. PICK n \in Nat : n = 5
  OBVIOUS
<1>4. Len(sections) = n /\ \A i \in 1 .. n : sections[i] \in Seq(Lines)
  BY <1>2, <1>3, SectionsAre
<1>5. asked.total = total /\ asked.budgets = SessionStart /\ asked.sections = sections
  BY <1>1, <1>2
<1>6. PICK budgets : budgets = SessionStart
  OBVIOUS
<1>7. budgets[1] = 300 /\ budgets[2] = 300 /\ budgets[3] = 300 /\ budgets[4] = 150
      /\ budgets[5] = 60 /\ budgets \in [1 .. 5 -> Nat]
  BY <1>6 DEF SessionStart
<1>8. PICK sum : sum = [i \in 0 .. 5 |-> IF i = 0 THEN 0 ELSE IF i = 1 THEN 300
             ELSE IF i = 2 THEN 600 ELSE IF i = 3 THEN 900 ELSE IF i = 4 THEN 1050 ELSE 1110]
  OBVIOUS
<1>9. Adds(sum, budgets, n) /\ sum[n] = 1110
  <2>1. sum \in [0 .. 5 -> Nat]
    BY <1>8
  <2>2. sum[0] = 0 /\ sum[1] = 300 /\ sum[2] = 600 /\ sum[3] = 900 /\ sum[4] = 1050
        /\ sum[5] = 1110
    BY <1>8
  <2>3. ASSUME NEW i \in 1 .. 5 PROVE sum[i] = sum[i - 1] + budgets[i]
    <3>1. i = 1 \/ i = 2 \/ i = 3 \/ i = 4 \/ i = 5
      OBVIOUS
    <3> QED
      BY <1>7, <2>2, <3>1
  <2> QED
    BY <1>3, <1>7, <2>1, <2>2, <2>3 DEF Adds
<1>10. PICK pack : pack = SelectInjectionNeurons(sections, budgets)
  OBVIOUS
<1>11. /\ pack \in Seq(Lines) /\ Distinct(pack)
       /\ \A i \in 1 .. n : Leading(sections, i) =>
             /\ sections[i][1] \in ToSet(pack)
             /\ \/ Tokens(pack) <= sum[n]
                \/ /\ sections[i][1].cost > budgets[i]
                   /\ Tokens(pack) <= sum[n] + sections[i][1].cost
       /\ \A k, l \in DOMAIN pack : k < l => pack[k].score >= pack[l].score
  BY <1>4, <1>9, <1>10, SectionsFit
<1>12. PICK kept : kept = ClampInjectionPack(pack, total, Framing)
  OBVIOUS
<1>13. /\ IsPrefix(kept, pack)
       /\ kept = << >> \/ Framing + Tokens(SubSeq(pack, 1, Len(kept))) <= total
       /\ kept # pack => /\ Len(kept) + 1 \in 0 .. Len(pack)
                         /\ Framing + Tokens(SubSeq(pack, 1, Len(kept) + 1)) > total
  <2>1. total \in Nat /\ Framing \in Nat
    BY PackingAssumption DEF Framing
  <2> QED
    BY <1>11, <1>12, <2>1, ClampIs
<1>14. packed.selected = pack /\ packed.kept = kept
  BY <1>5, <1>6, <1>10, <1>12 DEF Frozen
<1>15. Cardinality(Ids(pack)) = Len(pack)
  BY <1>11, DistinctCounts
<1>16. sum[n] = asked.budgets[1] + asked.budgets[2] + asked.budgets[3] + asked.budgets[4]
                  + asked.budgets[5]
  BY <1>5, <1>6, <1>7, <1>9
<1>17. \A i \in 1 .. 5 : Leading(asked.sections, i) =>
          /\ asked.sections[i][1] \in ToSet(pack)
          /\ \/ Tokens(pack) <= sum[n]
             \/ /\ asked.sections[i][1].cost > asked.budgets[i]
                /\ Tokens(pack) <= sum[n] + asked.sections[i][1].cost
  BY <1>3, <1>5, <1>6, <1>11
<1>18. kept # pack => ~(Framing + Tokens(SubSeq(pack, 1, Len(kept) + 1)) <= asked.total)
  <2>1. ASSUME kept # pack
        PROVE ~(Framing + Tokens(SubSeq(pack, 1, Len(kept) + 1)) <= asked.total)
    <3>1. Tokens(SubSeq(pack, 1, Len(kept) + 1)) \in Nat
      <4>1. Len(kept) + 1 \in 0 .. Len(pack)
        BY <1>13, <2>1
      <4> QED
        BY <1>11, <4>1, TokensUpTo
    <3> QED
      BY <1>5, <1>13, <2>1, <3>1, PackingAssumption DEF Framing
  <2> QED
    BY <2>1
<1>19. kept = << >> \/ Framing + Tokens(SubSeq(pack, 1, Len(kept))) <= asked.total
  BY <1>5, <1>13
<1>20. \A k, l \in DOMAIN pack : k < l => pack[k].score >= pack[l].score
  BY <1>11
<1>21. \A i \in 1 .. 5 : Leading(asked.sections, i) =>
          /\ asked.sections[i][1] \in ToSet(packed.selected)
          /\ \/ Tokens(packed.selected) <= sum[n]
             \/ /\ asked.sections[i][1].cost > asked.budgets[i]
                /\ Tokens(packed.selected) <= sum[n] + asked.sections[i][1].cost
  BY <1>14, <1>17, Zenon
<1>22. /\ Cardinality(Ids(packed.selected)) = Len(packed.selected)
       /\ IsPrefix(packed.kept, packed.selected)
       /\ \A k, l \in DOMAIN packed.selected :
             k < l => packed.selected[k].score >= packed.selected[l].score
  BY <1>13, <1>14, <1>15, <1>20, Zenon
<1>23. /\ packed.kept = << >> \/
             Framing + Tokens(SubSeq(packed.selected, 1, Len(packed.kept))) <= asked.total
       /\ packed.kept # packed.selected =>
             ~(Framing + Tokens(SubSeq(packed.selected, 1, Len(packed.kept) + 1))
                 <= asked.total)
  BY <1>14, <1>18, <1>19, Zenon
<1> QED
  BY <1>16, <1>21, <1>22, <1>23, Zenon DEF FrozenFits

LEMMA PackingInvFits == ASSUME PackingInv PROVE PackFits
<1>1. CASE packed = Nothing
  BY <1>1 DEF PackFits, LinesFit, TextFits, FrozenFits
<1>2. CASE packed # Nothing /\ AskedContext(asked)
  <2>1. asked.what = "context"
    BY <1>2 DEF AskedContext
  <2>2. LinesFit /\ TextFits
    BY <1>2, <2>1, ContextFits DEF PackingInv
  <2> QED
    BY <2>1, <2>2 DEF PackFits, FrozenFits
<1>3. CASE packed # Nothing /\ AskedFrozen(asked)
  <2>1. asked.what = "frozen"
    BY <1>3 DEF AskedFrozen
  <2>2. FrozenFits
    BY <1>3, <2>1, FrozenPackFits DEF PackingInv
  <2> QED
    BY <2>1, <2>2 DEF PackFits, LinesFit, TextFits
<1> QED
  BY <1>1, <1>2, <1>3 DEF PackingInv

LEMMA PackingInvInductive == PackingSpec => []PackingInv
<1>1. PackingInit => PackingInv
  BY DEF PackingInit, PackingInv
<1>2. PackingInv /\ [PackingNext]_packingVars => PackingInv'
  <2> SUFFICES ASSUME PackingInv, [PackingNext]_packingVars PROVE PackingInv'
    OBVIOUS
  <2>1. CASE Ask
    <3>1. packed = Nothing /\ packed' = Nothing
      BY <2>1 DEF Ask, PackingInv
    <3>2. AskedContext(asked') \/ AskedFrozen(asked')
      BY <2>1 DEF Ask, AskedContext, AskedFrozen
    <3> QED
      BY <3>1, <3>2 DEF PackingInv
  <2>2. CASE CompileContextPack
    <3>1. /\ asked' = asked /\ asked # Nothing /\ asked.what = "context"
          /\ packed' = Packed(TruncateByChannels(asked.lines, asked.slot,
                                                 HardCap(asked.budget, asked.slot)))
      BY <2>2 DEF CompileContextPack
    <3>2. packed' = Packed(TruncateByChannels(asked.lines, asked.slot,
                                              HardCap(asked.budget, asked.slot)))'
      BY <3>1 DEF Packed
    <3> QED
      BY <3>1, <3>2 DEF PackingInv
  <2>3. CASE FreezePack
    <3>1. /\ asked' = asked /\ asked # Nothing /\ asked.what = "frozen"
          /\ packed' = Frozen(SelectInjectionNeurons(asked.sections, asked.budgets))
      BY <2>3 DEF FreezePack
    <3>2. packed' = Frozen(SelectInjectionNeurons(asked.sections, asked.budgets))'
      BY <3>1 DEF Frozen
    <3> QED
      BY <3>1, <3>2 DEF PackingInv
  <2>4. CASE Answer
    BY <2>4 DEF Answer, PackingInv
  <2>5. CASE UNCHANGED packingVars
    BY <2>5 DEF packingVars, PackingInv, Packed, Frozen
  <2> QED
    BY <2>1, <2>2, <2>3, <2>4, <2>5 DEF PackingNext
<1> QED
  BY <1>1, <1>2, PTL DEF PackingSpec

\* A pack stays within its slots, its budgets and the outbound total, takes no
\* line twice and keeps the memory that ranks first (compile_context_pack,
\* build_injection_pack), for any total, any costs of its lines and any title.
THEOREM PacksFit == PackingSpec => []PackFits
BY PackingInvInductive, PackingInvFits, PTL
=============================================================================
