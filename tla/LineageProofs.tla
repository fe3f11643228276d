---------------------------- MODULE LineageProofs ----------------------------
(***************************************************************************)
(* The trail of a superseded decision ends, for any decisions and any      *)
(* resemblance among them.                                                 *)
(*                                                                         *)
(* More edges never close a trail, so only what becomes retired matters.   *)
(* A correction retires in favour of a decision nobody has retired yet.    *)
(* The pass retires in favour of a later row, which may itself have been   *)
(* retired since the rows were read; but what was retired since leads on   *)
(* to decisions that are in no row (LeadsToNew), and so never back to the  *)
(* rows that the pass retires.  The last of these in the order of the rows *)
(* leads out of any set.                                                   *)
(***************************************************************************)
EXTENDS Lineage, WellFoundedInduction, SequenceTheorems, TLAPS

\* The rows are distinct; what they tell of retired decisions stays true; and
\* the edges of the pass lead from a row to a later one that was active.
LaterRow(e, i) ==
    \E j \in DOMAIN rows : i < j /\ rows[j].active /\ e = <<rows[j].id, rows[i].id>>

RowsInv ==
    /\ \A i, j \in DOMAIN rows : rows[i].id = rows[j].id => i = j
    /\ \A i \in DOMAIN rows : ~rows[i].active => rows[i].id \in retired
    /\ best # << >> => row \in DOMAIN rows /\ LaterRow(best, row)
    /\ \A e \in draft : \E i \in DOMAIN rows : LaterRow(e, i)
    /\ row = 0 => rows = << >> /\ best = << >> /\ draft = {}
    /\ draft # {} => locked /\ IsInjective(touched) /\ ToSet(touched) = ToSet(order)

\* Decisions retired since the rows were read.
Since == {d \in retired : \A i \in DOMAIN rows : rows[i].id = d => rows[i].active}

LeadsToNew ==
    \A S \in SUBSET (Since \ forgotten) :
        S # {} => \E e \in succ : /\ e[2] \in S /\ e[1] \notin S
                                  /\ \A i \in DOMAIN rows : rows[i].id # e[1]

LineageInv == TypeOK /\ RowsInv /\ LeadsToNew /\ LeadsToTruth

-----------------------------------------------------------------------------
(* Sequences                                                               *)

LEMMA LeastExists == ASSUME NEW T \in SUBSET Nat, T # {} PROVE \E x \in T : \A y \in T : x <= y
<1>1. PICK R : R = {ss \in Nat \X Nat : ss[1] < ss[2]}
  OBVIOUS
<1>2. IsWellFoundedOn(R, Nat)
  BY <1>1, NatLessThanWellFounded, Zenon DEF OpToRel
<1>3. ASSUME NEW x \in Nat, NEW y \in Nat, y < x PROVE <<y, x>> \in R
  BY <1>1, <1>3
<1>4. PICK x \in T : \A y \in T : ~ (<<y, x>> \in R)
  BY <1>2, WFMin
<1>5. ASSUME NEW y \in T PROVE ~(y < x)
  BY <1>3, <1>4
<1> QED
  BY <1>4, <1>5

\* Of some rows one is the last.
LEMMA LastExists ==
    ASSUME NEW n \in Nat, NEW T \in SUBSET (1 .. n), T # {}
    PROVE  \E x \in T : \A y \in T : y <= x
<1>1. PICK U : U = {n - i : i \in T}
  OBVIOUS
<1>2. U \in SUBSET Nat /\ U # {}
  <2>1. \A i \in T : n - i \in Nat
    OBVIOUS
  <2>2. PICK i : i \in T
    OBVIOUS
  <2> QED
    BY <1>1, <2>1, <2>2
<1>3. PICK u \in U : \A v \in U : u <= v
  BY <1>2, LeastExists
<1>4. PICK x \in T : u = n - x
  BY <1>1, <1>3
<1>5. ASSUME NEW y \in T PROVE y <= x
  <2>1. n - x <= n - y
    BY <1>1, <1>3, <1>4
  <2> QED
    BY <2>1
<1> QED
  BY <1>5

\* A decision that is touched changes its place, and nothing else does.
LEMMA MovedOnce ==
    ASSUME NEW S, NEW s \in Seq(S), IsInjective(s), NEW n \in ToSet(s)
    PROVE  Moved(s, n) \in Seq(S) /\ IsInjective(Moved(s, n)) /\ ToSet(Moved(s, n)) = ToSet(s)
<1>1. PICK k : k = CHOOSE i \in DOMAIN s : s[i] = n
  OBVIOUS
<1>2. PICK m \in Nat : m = Len(s) /\ DOMAIN s = 1 .. m
  OBVIOUS
<1>3. k \in 1 .. m /\ s[k] = n
  BY <1>1, <1>2 DEF ToSet
<1>4. PICK q : q = [i \in 1 .. m |-> IF i < k THEN s[i] ELSE IF i < m THEN s[i + 1] ELSE n]
  OBVIOUS
<1>5. q = Moved(s, n)
  BY <1>1, <1>2, <1>4 DEF Moved
<1>6. PICK p : p = [i \in 1 .. m |-> IF i < k THEN i ELSE IF i < m THEN i + 1 ELSE k]
  OBVIOUS
<1>7. \A i \in 1 .. m : p[i] \in 1 .. m /\ q[i] = s[p[i]]
  BY <1>3, <1>4, <1>6
<1>8. \A i, j \in 1 .. m : p[i] = p[j] => i = j
  BY <1>3, <1>6
<1>9. \A j \in 1 .. m : \E i \in 1 .. m : p[i] = j
  <2> SUFFICES ASSUME NEW j \in 1 .. m PROVE \E i \in 1 .. m : p[i] = j
    OBVIOUS
  <2>1. CASE j < k
    BY <1>3, <1>6, <2>1
  <2>2. CASE j = k
    BY <1>3, <1>6, <2>2
  <2>3. CASE j > k
    <3>1. j - 1 \in 1 .. m /\ ~(j - 1 < k) /\ j - 1 < m /\ (j - 1) + 1 = j
      BY <1>3, <2>3
    <3> QED
      BY <1>6, <3>1
  <2> QED
    BY <1>3, <2>1, <2>2, <2>3
<1>10. q \in Seq(S)
  <2>1. q \in [1 .. m -> S]
    BY <1>2, <1>4, <1>7
  <2> QED
    BY <2>1
<1>11. DOMAIN q = 1 .. m
  BY <1>4
<1>12. IsInjective(q)
  BY <1>2, <1>7, <1>8, <1>11 DEF IsInjective
<1>13. ToSet(q) = ToSet(s)
  <2>1. ASSUME NEW x \in ToSet(q) PROVE x \in ToSet(s)
    <3>1. PICK i \in 1 .. m : x = q[i]
      BY <1>11, <2>1 DEF ToSet
    <3> QED
      BY <1>2, <1>7, <3>1 DEF ToSet
  <2>2. ASSUME NEW x \in ToSet(s) PROVE x \in ToSet(q)
    <3>1. PICK j \in 1 .. m : x = s[j]
      BY <1>2, <2>2 DEF ToSet
    <3>2. PICK i \in 1 .. m : p[i] = j
      BY <1>9
    <3>3. x = q[i]
      BY <1>7, <3>1, <3>2
    <3> QED
      BY <1>11, <3>3 DEF ToSet
  <2> QED
    BY <2>1, <2>2
<1> QED
  BY <1>5, <1>10, <1>12, <1>13

LEMMA AppendedOnce ==
    ASSUME NEW S, NEW s \in Seq(S), IsInjective(s), NEW n \in S, n \notin ToSet(s)
    PROVE  Append(s, n) \in Seq(S) /\ IsInjective(Append(s, n))
           /\ ToSet(Append(s, n)) = ToSet(s) \cup {n}
<1>1. PICK m \in Nat : m = Len(s) /\ DOMAIN s = 1 .. m
  OBVIOUS
<1>2. PICK q : q = Append(s, n)
  OBVIOUS
<1>3. q \in Seq(S) /\ DOMAIN q = 1 .. m + 1 /\ q[m + 1] = n /\ \A i \in 1 .. m : q[i] = s[i]
  BY <1>1, <1>2, AppendProperties
<1>4. \A i \in 1 .. m + 1 : i \in 1 .. m \/ i = m + 1
  OBVIOUS
<1>5. \A i \in 1 .. m : s[i] # n /\ i \in 1 .. m + 1
  BY <1>1 DEF ToSet
<1>6. IsInjective(q)
  BY <1>1, <1>3, <1>4, <1>5 DEF IsInjective
<1>7. ToSet(q) = ToSet(s) \cup {n}
  BY <1>1, <1>3, <1>4, <1>5 DEF ToSet
<1> QED
  BY <1>2, <1>3, <1>6, <1>7

LEMMA SeqWidened == ASSUME NEW S, NEW T, S \subseteq T, NEW s \in Seq(S) PROVE s \in Seq(T)
<1>1. s \in [1 .. Len(s) -> S] /\ Len(s) \in Nat
  OBVIOUS
<1>2. s \in [1 .. Len(s) -> T]
  BY <1>1
<1> QED
  BY <1>1, <1>2

-----------------------------------------------------------------------------
(* Steps                                                                   *)

LEMMA RowIds ==
    ASSUME TypeOK
    PROVE  /\ DOMAIN rows = 1 .. Len(rows) /\ Len(rows) \in Nat
           /\ \A i \in DOMAIN rows : rows[i].id \in ToSet(order) /\ rows[i].active \in BOOLEAN
<1>1. PICK R : R = [id : ToSet(order), active : BOOLEAN]
  OBVIOUS
<1>2. rows \in Seq(R)
  BY <1>1 DEF TypeOK
<1>3. \A i \in DOMAIN rows : rows[i] \in R
  BY <1>2
<1> QED
  BY <1>1, <1>2, <1>3

\* A step that leaves the rows alone, and after which whatever it retired is
\* forgotten or leads on to a decision that is new.
LEMMA OthersStep ==
    ASSUME LineageInv, ~locked, UNCHANGED passVars,
           order' \in Seq(Decisions), IsInjective(order'), ToSet(order) \subseteq ToSet(order'),
           retired \subseteq retired', forgotten \subseteq forgotten', succ \subseteq succ',
           forgotten' \subseteq retired', retired' \subseteq ToSet(order'),
           succ' \subseteq ToSet(order') \X retired',
           \A o \in (retired' \ forgotten') \ retired :
              \E n : <<n, o>> \in succ' /\ n \notin retired' /\ n \notin ToSet(order)
    PROVE  LineageInv'
<1>1. /\ rows' = rows /\ row' = row /\ best' = best /\ draft' = draft
      /\ touched' = touched /\ locked' = locked
  BY DEF passVars
<1>2. draft = {}
  BY DEF LineageInv, RowsInv
<1>3. TypeOK'
  <2>1. rows \in Seq([id : ToSet(order'), active : BOOLEAN])
    <3>1. rows \in Seq([id : ToSet(order), active : BOOLEAN])
      BY DEF LineageInv, TypeOK
    <3>2. [id : ToSet(order), active : BOOLEAN] \subseteq [id : ToSet(order'), active : BOOLEAN]
      OBVIOUS
    <3> QED
      BY <3>1, <3>2, SeqWidened
  <2>2. best = << >> \/ best \in ToSet(order') \X ToSet(order')
    BY DEF LineageInv, TypeOK
  <2>3. touched \in Seq(ToSet(order'))
    <3>1. touched \in Seq(ToSet(order))
      BY DEF LineageInv, TypeOK
    <3> QED
      BY <3>1, SeqWidened
  <2> QED
    BY <1>1, <1>2, <2>1, <2>2, <2>3 DEF LineageInv, TypeOK
<1>4. RowsInv'
  BY <1>1, <1>2 DEF LineageInv, RowsInv, LaterRow
<1>5. \A i \in DOMAIN rows : rows[i].id \in ToSet(order)
  BY RowIds DEF LineageInv
<1>6. ASSUME NEW S \in SUBSET (retired' \ forgotten'), NEW o \in S, o \notin retired
      PROVE  \E e \in succ' : /\ e[2] \in S /\ e[1] \notin S
                              /\ \A i \in DOMAIN rows : rows[i].id # e[1]
  <2>1. PICK n : <<n, o>> \in succ' /\ n \notin retired' /\ n \notin ToSet(order)
    BY <1>6
  <2> QED
    BY <2>1, <1>5
<1>7. ASSUME NEW S \in SUBSET (retired' \ forgotten'), \A o \in S : o \in retired
      PROVE  S \in SUBSET (retired \ forgotten)
  BY <1>7
<1>8. LeadsToNew'
  <2> SUFFICES ASSUME NEW S \in SUBSET (Since' \ forgotten'), S # {}
               PROVE  \E e \in succ' : /\ e[2] \in S /\ e[1] \notin S
                                       /\ \A i \in DOMAIN rows' : rows'[i].id # e[1]
    BY DEF LeadsToNew
  <2>1. S \in SUBSET (retired' \ forgotten')
    BY DEF Since
  <2>2. CASE \E o \in S : o \notin retired
    BY <1>1, <1>6, <2>1, <2>2
  <2>3. CASE \A o \in S : o \in retired
    <3>1. S \in SUBSET (Since \ forgotten)
      BY <1>1, <2>3 DEF Since
    <3>2. \E e \in succ : /\ e[2] \in S /\ e[1] \notin S
                          /\ \A i \in DOMAIN rows : rows[i].id # e[1]
      BY <3>1 DEF LineageInv, LeadsToNew
    <3> QED
      BY <1>1, <3>2
  <2> QED
    BY <2>2, <2>3
<1>9. LeadsToTruth'
  <2> SUFFICES ASSUME NEW S \in SUBSET (retired' \ forgotten'), S # {}
               PROVE  \E e \in succ' : e[2] \in S /\ e[1] \notin S
    BY DEF LeadsToTruth
  <2>1. CASE \E o \in S : o \notin retired
    BY <1>6, <2>1
  <2>2. CASE \A o \in S : o \in retired
    <3>1. S \in SUBSET (retired \ forgotten)
      BY <1>7, <2>2
    <3>2. \E e \in succ : e[2] \in S /\ e[1] \notin S
      BY <3>1 DEF LineageInv, LeadsToTruth
    <3> QED
      BY <3>2
  <2> QED
    BY <2>1, <2>2
<1> QED
  BY <1>3, <1>4, <1>8, <1>9 DEF LineageInv


LEMMA RememberStep ==
    ASSUME LineageInv, NEW n \in Decisions, NEW olds \in SUBSET Decisions, Remember(n, olds)
    PROVE  LineageInv'
<1>1. /\ ~locked /\ n \notin ToSet(order) /\ olds \subseteq ToSet(order) \ retired
      /\ \/ olds = {} /\ order' = Append(order, n)
         \/ \E o \in olds : olds = {o} /\ order' = Moved(Append(order, n), o)
      /\ retired' = retired \cup olds /\ succ' = succ \cup {<<n, o>> : o \in olds}
      /\ forgotten' = forgotten /\ UNCHANGED passVars
  BY DEF Remember
<1>2. order \in Seq(Decisions) /\ IsInjective(order) /\ forgotten \subseteq retired
      /\ retired \subseteq ToSet(order) /\ succ \subseteq ToSet(order) \X retired
  BY DEF LineageInv, TypeOK
<1>3. PICK s : s = Append(order, n)
  OBVIOUS
<1>4. s \in Seq(Decisions) /\ IsInjective(s) /\ ToSet(s) = ToSet(order) \cup {n}
  BY <1>1, <1>2, <1>3, AppendedOnce
<1>5. order' \in Seq(Decisions) /\ IsInjective(order') /\ ToSet(order') = ToSet(order) \cup {n}
  <2>1. CASE olds = {} /\ order' = Append(order, n)
    BY <1>3, <1>4, <2>1
  <2>2. CASE \E o \in olds : olds = {o} /\ order' = Moved(Append(order, n), o)
    <3>1. PICK o \in olds : order' = Moved(s, o)
      BY <1>3, <2>2
    <3>2. o \in ToSet(s)
      BY <1>1, <1>4
    <3> QED
      BY <1>4, <3>1, <3>2, MovedOnce
  <2> QED
    BY <1>1, <2>1, <2>2
<1>6. n \notin retired'
  BY <1>1, <1>2
<1>7. \A o \in (retired' \ forgotten') \ retired : <<n, o>> \in succ'
  BY <1>1
<1>8. retired' \subseteq ToSet(order') /\ succ' \subseteq ToSet(order') \X retired'
  BY <1>1, <1>2, <1>5
<1> QED
  BY <1>1, <1>2, <1>5, <1>6, <1>7, <1>8, OthersStep

LEMMA ArchiveStep ==
    ASSUME LineageInv, NEW n \in Decisions, Archive(n) PROVE LineageInv'
<1>1. /\ ~locked /\ n \in ToSet(order) \ retired /\ order' = Moved(order, n)
      /\ retired' = retired \cup {n} /\ forgotten' = forgotten \cup {n} /\ succ' = succ
      /\ UNCHANGED passVars
  BY DEF Archive
<1>2. order \in Seq(Decisions) /\ IsInjective(order) /\ forgotten \subseteq retired
      /\ retired \subseteq ToSet(order) /\ succ \subseteq ToSet(order) \X retired
  BY DEF LineageInv, TypeOK
<1>3. order' \in Seq(Decisions) /\ IsInjective(order') /\ ToSet(order') = ToSet(order)
  BY <1>1, <1>2, MovedOnce
<1>4. (retired' \ forgotten') \ retired = {}
  BY <1>1
<1>5. /\ retired' \subseteq ToSet(order') /\ succ' \subseteq ToSet(order') \X retired'
      /\ forgotten' \subseteq retired'
  BY <1>1, <1>2, <1>3
<1> QED
  BY <1>1, <1>3, <1>4, <1>5, OthersStep

LEMMA RecalledStep ==
    ASSUME LineageInv, NEW n \in Decisions, Recalled(n) PROVE LineageInv'
<1>1. /\ ~locked /\ n \in ToSet(order) \ retired /\ order' = Moved(order, n)
      /\ retired' = retired /\ forgotten' = forgotten /\ succ' = succ
      /\ UNCHANGED passVars
  BY DEF Recalled
<1>2. order \in Seq(Decisions) /\ IsInjective(order) /\ forgotten \subseteq retired
      /\ retired \subseteq ToSet(order) /\ succ \subseteq ToSet(order) \X retired
  BY DEF LineageInv, TypeOK
<1>3. order' \in Seq(Decisions) /\ IsInjective(order') /\ ToSet(order') = ToSet(order)
  BY <1>1, <1>2, MovedOnce
<1>4. (retired' \ forgotten') \ retired = {}
  BY <1>1
<1>5. /\ retired' \subseteq ToSet(order') /\ succ' \subseteq ToSet(order') \X retired'
      /\ forgotten' \subseteq retired'
  BY <1>1, <1>2, <1>3
<1> QED
  BY <1>1, <1>3, <1>4, <1>5, OthersStep

\* When a pass reads its rows nothing has been retired since.
LEMMA BackfillReadStep ==
    ASSUME LineageInv, BackfillRead PROVE LineageInv'
<1>1. /\ row = 0 /\ row' = 1 /\ locked' \in BOOLEAN /\ UNCHANGED <<dbVars, best, draft, touched>>
      /\ rows' = [i \in DOMAIN order |-> [id |-> order[i], active |-> order[i] \notin retired]]
  BY DEF BackfillRead
<1>2. order' = order /\ retired' = retired /\ forgotten' = forgotten /\ succ' = succ
      /\ best' = best /\ draft' = draft /\ touched' = touched
  BY <1>1 DEF dbVars
<1>3. best = << >> /\ draft = {} /\ TypeOK
  BY <1>1 DEF LineageInv, RowsInv
<1>4. DOMAIN order = 1 .. Len(order) /\ Len(order) \in Nat
      /\ \A i \in DOMAIN order : order[i] \in ToSet(order)
  BY <1>3 DEF TypeOK, ToSet
<1> PICK q : q = rows'
  OBVIOUS
<1>5. /\ DOMAIN q = DOMAIN order
      /\ \A i \in DOMAIN order : q[i].id = order[i]
      /\ \A i \in DOMAIN order : q[i].active => order[i] \notin retired
      /\ \A i \in DOMAIN order : ~q[i].active => order[i] \in retired
      /\ \A i \in DOMAIN order : q[i] \in [id : ToSet(order), active : BOOLEAN]
  <2>1. \A i \in DOMAIN order : q[i] = [id |-> order[i], active |-> order[i] \notin retired]
    BY <1>1
  <2>2. DOMAIN q = DOMAIN order
    BY <1>1
  <2>3. ASSUME NEW i \in DOMAIN order
        PROVE  /\ q[i].id = order[i]
               /\ q[i].active => order[i] \notin retired
               /\ ~q[i].active => order[i] \in retired
               /\ q[i] \in [id : ToSet(order), active : BOOLEAN]
    <3>1. PICK o : o = order[i]
      OBVIOUS
    <3>2. PICK b \in BOOLEAN : b <=> o \notin retired
      OBVIOUS
    <3>3. (o \notin retired) = b
      BY <3>2
    <3>4. q[i] = [id |-> o, active |-> b]
      BY <2>1, <3>1, <3>3, Zenon
    <3>5. o \in ToSet(order)
      BY <1>4, <3>1
    <3> QED
      BY <3>1, <3>2, <3>4, <3>5
  <2> QED
    BY <2>2, <2>3
<1>6. rows' \in Seq([id : ToSet(order), active : BOOLEAN]) /\ Len(rows') = Len(order)
  <2>1. PICK R : R = [id : ToSet(order), active : BOOLEAN]
    OBVIOUS
  <2>2. PICK n \in Nat : n = Len(order) /\ DOMAIN order = 1 .. n
    BY <1>4
  <2>3. q = [i \in 1 .. n |-> [id |-> order[i], active |-> order[i] \notin retired]]
    BY <1>1, <2>2, Zenon
  <2>5. \A i \in 1 .. n : q[i] \in R
    BY <1>5, <2>1, <2>2, Zenon
  <2>6. q \in [1 .. n -> R]
    BY <2>3, <2>5, Zenon
  <2>7. q \in Seq(R) /\ Len(q) = n
    BY <2>6
  <2> QED
    BY <2>1, <2>2, <2>7, Zenon
<1>7. TypeOK'
  BY <1>1, <1>2, <1>3, <1>4, <1>6 DEF TypeOK
<1>8. RowsInv'
  <2>1. \A i, j \in DOMAIN order : order[i] = order[j] => i = j
    BY <1>3 DEF TypeOK, IsInjective
  <2>2. \A i, j \in DOMAIN q : q[i].id = q[j].id => i = j
    BY <1>5, <2>1
  <2>3. \A i \in DOMAIN q : ~q[i].active => q[i].id \in retired'
    BY <1>2, <1>5
  <2>4. best' = << >> /\ draft' = {} /\ row' # 0
    BY <1>1, <1>2, <1>3
  <2> QED
    BY <2>2, <2>3, <2>4 DEF RowsInv
<1>9. Since' = {}
  <2> SUFFICES ASSUME NEW d \in Since' PROVE FALSE
    OBVIOUS
  <2>1. d \in retired /\ \A i \in DOMAIN order : order[i] = d => order[i] \notin retired
    <3>1. d \in retired /\ \A i \in DOMAIN q : q[i].id = d => q[i].active
      BY <1>2 DEF Since
    <3> QED
      BY <1>5, <3>1
  <2>2. PICK i \in DOMAIN order : order[i] = d
    BY <1>3, <2>1 DEF TypeOK, ToSet
  <2> QED
    BY <2>1, <2>2
<1>10. LeadsToNew'
  BY <1>9 DEF LeadsToNew
<1>11. LeadsToTruth'
  BY <1>2 DEF LeadsToTruth, LineageInv
<1> QED
  BY <1>7, <1>8, <1>10, <1>11 DEF LineageInv

\* A step of the pass that writes nothing to the database.
LEMMA PassStep ==
    ASSUME LineageInv, UNCHANGED <<dbVars, rows>>, TypeOK', RowsInv' PROVE LineageInv'
<1>1. Since' = Since
  BY DEF Since, dbVars
<1> QED
  BY <1>1 DEF LineageInv, LeadsToNew, LeadsToTruth, dbVars

LEMMA SkipStep == ASSUME LineageInv, Skip PROVE LineageInv'
<1>1. /\ row \in DOMAIN rows /\ best = << >> /\ row' = row + 1
      /\ UNCHANGED <<dbVars, rows, best, draft, touched, locked>>
  BY DEF Skip, NextRow
<1>2. TypeOK /\ RowsInv
  BY DEF LineageInv
<1>3. row' \in 0 .. Len(rows) + 1 /\ row' # 0
  BY <1>1, <1>2, RowIds
<1>4. TypeOK'
  BY <1>1, <1>2, <1>3 DEF TypeOK, dbVars
<1>5. RowsInv'
  BY <1>1, <1>2, <1>3 DEF RowsInv, LaterRow, dbVars
<1> QED
  BY <1>1, <1>4, <1>5, PassStep

LEMMA ChooseStep == ASSUME LineageInv, Choose PROVE LineageInv'
<1>1. PICK new \in Candidates :
         /\ row \in DOMAIN rows /\ best = << >>
         /\ \/ NextRow /\ UNCHANGED best
            \/ best' = <<new, Old>> /\ UNCHANGED row
         /\ UNCHANGED <<dbVars, rows, draft, touched, locked>>
  BY DEF Choose
<1>2. TypeOK /\ RowsInv /\ DOMAIN rows = 1 .. Len(rows) /\ Len(rows) \in Nat
  BY RowIds DEF LineageInv
<1>3. PICK j \in DOMAIN rows : row < j /\ rows[j].active /\ new = rows[j].id
  <2>1. PICK k \in row + 1 .. Len(rows) : rows[k].active /\ new = rows[k].id
    BY <1>1 DEF Candidates
  <2>2. row \in 1 .. Len(rows)
    BY <1>1, <1>2
  <2>3. k \in 1 .. Len(rows) /\ row < k
    BY <1>2, <2>2
  <2> QED
    BY <1>2, <2>1, <2>3
<1>4. /\ new \in ToSet(order) /\ Old \in ToSet(order) /\ LaterRow(<<new, Old>>, row)
  BY <1>1, <1>2, <1>3, RowIds DEF Old, LaterRow
<1>5. row' \in 0 .. Len(rows) + 1 /\ row' # 0 /\ (best' = best \/ best' = <<new, Old>>)
      /\ (best' # << >> => row' = row)
  BY <1>1, <1>2 DEF NextRow
<1>6. TypeOK'
  BY <1>1, <1>2, <1>4, <1>5 DEF TypeOK, dbVars
<1>7. RowsInv'
  <2>1. \A i : \A e : LaterRow(e, i)' <=> LaterRow(e, i)
    BY <1>1 DEF LaterRow
  <2> QED
    BY <1>1, <1>2, <1>4, <1>5, <2>1 DEF RowsInv, dbVars
<1> QED
  BY <1>1, <1>6, <1>7, PassStep

\* The pass sees the decisions in the order it has left them in.
LEMMA OrderedOnce ==
    ASSUME LineageInv
    PROVE  Ordered \in Seq(ToSet(order)) /\ IsInjective(Ordered) /\ ToSet(Ordered) = ToSet(order)
<1>1. CASE draft = {}
  <2>1. order \in [1 .. Len(order) -> ToSet(order)] /\ Len(order) \in Nat
    BY DEF LineageInv, TypeOK, ToSet
  <2> QED
    BY <1>1, <2>1 DEF LineageInv, TypeOK, Ordered
<1>2. CASE draft # {}
  BY <1>2 DEF LineageInv, TypeOK, RowsInv, Ordered
<1> QED
  BY <1>1, <1>2

LEMMA WriteStep == ASSUME LineageInv, Write PROVE LineageInv'
<1>1. /\ best # << >> /\ draft' = draft \cup {best}
      /\ touched' = IF Old \in Retiring THEN Moved(Ordered, Old) ELSE Ordered
      /\ best' = << >> /\ locked' = TRUE /\ row' = row + 1
      /\ UNCHANGED <<dbVars, rows>>
  BY DEF Write, NextRow
<1>2. TypeOK /\ RowsInv /\ DOMAIN rows = 1 .. Len(rows) /\ Len(rows) \in Nat
  BY RowIds DEF LineageInv
<1>3. row \in DOMAIN rows /\ LaterRow(best, row) /\ Old \in ToSet(order)
  BY <1>1, <1>2, RowIds DEF RowsInv, Old
<1>4. touched' \in Seq(ToSet(order)) /\ IsInjective(touched') /\ ToSet(touched') = ToSet(order)
  <2>1. PICK s : s = Ordered
    OBVIOUS
  <2>2. s \in Seq(ToSet(order)) /\ IsInjective(s) /\ ToSet(s) = ToSet(order)
    BY <2>1, OrderedOnce
  <2>3. Moved(s, Old) \in Seq(ToSet(order)) /\ IsInjective(Moved(s, Old))
        /\ ToSet(Moved(s, Old)) = ToSet(s)
    BY <1>3, <2>2, MovedOnce
  <2> QED
    BY <1>1, <2>1, <2>2, <2>3
<1>5. row' \in 0 .. Len(rows) + 1 /\ row' # 0
  BY <1>1, <1>2, <1>3
<1>6. TypeOK'
  BY <1>1, <1>2, <1>4, <1>5 DEF TypeOK, dbVars
<1>7. RowsInv'
  <2>1. \A i : \A e : LaterRow(e, i)' <=> LaterRow(e, i)
    BY <1>1 DEF LaterRow
  <2> QED
    BY <1>1, <1>2, <1>3, <1>4, <1>5, <2>1 DEF RowsInv, dbVars
<1> QED
  BY <1>1, <1>6, <1>7, PassStep

-----------------------------------------------------------------------------
\* When the pass commits, the last of its rows in a set of retired decisions
\* leads out of the set, or to one that was retired since and leads out.
LEMMA CommitLeadsOn ==
    ASSUME LineageInv, NEW olds, olds = {e[2] : e \in draft} \cap Retiring,
           NEW S \in SUBSET ((retired \cup olds) \ forgotten), S # {}
    PROVE  \E e \in Written : e[2] \in S /\ e[1] \notin S
<1>1. RowsInv /\ DOMAIN rows = 1 .. Len(rows) /\ Len(rows) \in Nat /\ Written = succ \cup draft
  BY RowIds DEF LineageInv, Written
<1>2. CASE S \cap olds = {}
  <2>1. S \in SUBSET (retired \ forgotten)
    BY <1>2
  <2> QED
    BY <1>1, <2>1 DEF LineageInv, LeadsToTruth
<1>3. CASE S \cap olds # {}
  <2>1. PICK T : T = {i \in 1 .. Len(rows) : rows[i].id \in S \cap olds}
    OBVIOUS
  <2>2. T \in SUBSET (1 .. Len(rows)) /\ T # {}
    <3>1. PICK o \in S \cap olds : \E i \in DOMAIN rows : rows[i].id = o
      BY <1>3 DEF Retiring
    <3> QED
      BY <1>1, <2>1, <3>1
  <2>3. PICK x \in T : \A y \in T : y <= x
    BY <1>1, <2>2, LastExists
  <2>4. PICK e \in draft : e[2] = rows[x].id
    BY <2>1
  <2>5. PICK i \in DOMAIN rows, j \in DOMAIN rows :
           i < j /\ rows[j].active /\ e = <<rows[j].id, rows[i].id>>
    BY <1>1 DEF RowsInv, LaterRow
  <2>6. i = x /\ e[1] = rows[j].id /\ e[2] \in S
    BY <1>1, <2>1, <2>4, <2>5 DEF RowsInv
  <2>7. CASE rows[j].id \notin S
    BY <1>1, <2>6, <2>7
  <2>8. CASE rows[j].id \in S
    <3>1. rows[j].id \notin olds
      <4>1. j \notin T
        BY <1>1, <2>3, <2>5, <2>6
      <4> QED
        BY <1>1, <2>1, <2>8, <4>1
    <3>2. rows[j].id \in Since
      <4>1. rows[j].id \in retired
        BY <2>8, <3>1
      <4> QED
        BY <1>1, <2>5, <4>1 DEF Since, RowsInv
    <3>3. PICK U : U = S \cap Since
      OBVIOUS
    <3>4. U \in SUBSET (Since \ forgotten) /\ U # {}
      BY <2>8, <3>2, <3>3
    <3>5. PICK f \in succ : /\ f[2] \in U /\ f[1] \notin U
                           /\ \A k \in DOMAIN rows : rows[k].id # f[1]
      BY <3>4 DEF LineageInv, LeadsToNew
    <3>6. f[1] \notin S
      <4> SUFFICES ASSUME f[1] \in S PROVE FALSE
        OBVIOUS
      <4>1. f[1] \notin olds
        BY <3>5 DEF Retiring
      <4>2. f[1] \in Since
        BY <3>5, <4>1 DEF Since
      <4> QED
        BY <3>3, <3>5, <4>2
    <3> QED
      BY <1>1, <3>3, <3>5, <3>6
  <2> QED
    BY <2>7, <2>8
<1> QED
  BY <1>2, <1>3

\* With no pass under way the pass's own variables are at their types.
LEMMA EndedTyped ==
    ASSUME Ended, order' \in Seq(Decisions), IsInjective(order'), forgotten' \subseteq retired',
           retired' \subseteq ToSet(order'), succ' \subseteq ToSet(order') \X retired'
    PROVE  TypeOK'
<1>1. /\ rows' = << >> /\ row' = 0 /\ best' = << >> /\ draft' = {} /\ touched' = << >>
      /\ locked' = FALSE
  BY DEF Ended
<1>2. rows' \in Seq([id : ToSet(order'), active : BOOLEAN]) /\ touched' \in Seq(ToSet(order'))
  BY <1>1, EmptySeq, Zenon
<1>3. row' \in 0 .. Len(rows') + 1
  BY <1>1
<1> QED
  BY <1>1, <1>2, <1>3 DEF TypeOK

\* With no pass under way, what leads to the truth is all there is to show.
LEMMA NoPassLeft ==
    ASSUME Ended, TypeOK', LeadsToTruth' PROVE LineageInv'
<1>1. rows' = << >> /\ row' = 0 /\ best' = << >> /\ draft' = {}
  BY DEF Ended
<1>2. DOMAIN rows' = {}
  BY <1>1
<1>3. RowsInv'
  BY <1>1, <1>2 DEF RowsInv
<1>4. LeadsToNew'
  <2>1. Since' = retired'
    BY <1>2 DEF Since
  <2> QED
    BY <1>2, <2>1 DEF LeadsToNew, LeadsToTruth
<1> QED
  BY <1>3, <1>4 DEF LineageInv

LEMMA CommitStep == ASSUME LineageInv, Commit PROVE LineageInv'
<1>1. PICK olds : olds = {e[2] : e \in draft} \cap Retiring
  OBVIOUS
<1>2. /\ order' = Ordered /\ retired' = retired \cup olds /\ succ' = Written
      /\ Ended /\ forgotten' = forgotten
  BY <1>1 DEF Commit
<1>3. order \in Seq(Decisions) /\ forgotten \subseteq retired /\ retired \subseteq ToSet(order)
      /\ succ \subseteq ToSet(order) \X retired /\ draft \subseteq ToSet(order) \X ToSet(order)
      /\ RowsInv
  BY DEF LineageInv, TypeOK
<1>4. ToSet(order) \subseteq Decisions
  BY <1>3 DEF ToSet
<1>5. order' \in Seq(Decisions) /\ IsInjective(order') /\ ToSet(order') = ToSet(order)
  BY <1>2, <1>4, OrderedOnce, SeqWidened
<1>6. olds \subseteq ToSet(order)
  BY <1>1, <1>3
<1>7. ASSUME NEW e \in draft PROVE e[1] \in ToSet(order) /\ e[2] \in retired \cup olds
  <2>1. PICK i \in DOMAIN rows : e[2] = rows[i].id
    <3>1. PICK i \in DOMAIN rows : LaterRow(e, i)
      BY <1>3 DEF RowsInv
    <3> QED
      BY <3>1 DEF LaterRow
  <2>2. CASE rows[i].active
    <3>1. e[2] \in Retiring
      BY <2>1, <2>2 DEF Retiring
    <3> QED
      BY <1>1, <1>3, <3>1
  <2>3. CASE ~rows[i].active
    BY <1>3, <2>1, <2>3 DEF RowsInv
  <2> QED
    BY <1>3, <2>2, <2>3
<1>8. TypeOK'
  <2>1. succ' \subseteq ToSet(order') \X retired'
    BY <1>2, <1>3, <1>5, <1>7 DEF Written
  <2>2. forgotten' \subseteq retired' /\ retired' \subseteq ToSet(order')
    BY <1>2, <1>3, <1>5, <1>6
  <2> QED
    BY <1>2, <1>5, <2>1, <2>2, EndedTyped
<1>9. LeadsToTruth'
  <2> SUFFICES ASSUME NEW S \in SUBSET (retired' \ forgotten'), S # {}
               PROVE  \E e \in succ' : e[2] \in S /\ e[1] \notin S
    BY DEF LeadsToTruth
  <2>1. S \in SUBSET ((retired \cup olds) \ forgotten)
    BY <1>2
  <2>2. \E e \in Written : e[2] \in S /\ e[1] \notin S
    BY <1>1, <2>1, CommitLeadsOn
  <2> QED
    BY <1>2, <2>2
<1> QED
  BY <1>2, <1>8, <1>9, NoPassLeft

LEMMA CrashStep == ASSUME LineageInv, Crash PROVE LineageInv'
<1>1. Ended /\ UNCHANGED dbVars
  BY DEF Crash
<1>2. TypeOK'
  <2>1. order' = order /\ retired' = retired /\ forgotten' = forgotten /\ succ' = succ
    BY <1>1 DEF dbVars
  <2> QED
    BY <1>1, <2>1, EndedTyped DEF LineageInv, TypeOK
<1>3. LeadsToTruth'
  BY <1>1 DEF dbVars, LineageInv, LeadsToTruth
<1> QED
  BY <1>1, <1>2, <1>3, NoPassLeft

-----------------------------------------------------------------------------
LEMMA LineageInvInductive == Spec => []LineageInv
<1>1. Init => LineageInv
  <2> SUFFICES ASSUME Init PROVE LineageInv
    OBVIOUS
  <2>1. /\ order = << >> /\ retired = {} /\ forgotten = {} /\ succ = {} /\ rows = << >>
        /\ row = 0 /\ best = << >> /\ draft = {} /\ touched = << >> /\ locked = FALSE
    BY DEF Init
  <2>2. TypeOK
    <3>1. order \in Seq(Decisions) /\ touched \in Seq(ToSet(order))
          /\ rows \in Seq([id : ToSet(order), active : BOOLEAN])
      BY <2>1, EmptySeq, Zenon
    <3>2. IsInjective(order) /\ row \in 0 .. Len(rows) + 1
      BY <2>1 DEF IsInjective
    <3> QED
      BY <2>1, <3>1, <3>2 DEF TypeOK
  <2>3. RowsInv
    BY <2>1 DEF RowsInv
  <2>4. LeadsToNew /\ LeadsToTruth
    BY <2>1 DEF LeadsToNew, LeadsToTruth, Since
  <2> QED
    BY <2>2, <2>3, <2>4 DEF LineageInv
<1>2. LineageInv /\ [Next]_vars => LineageInv'
  <2> SUFFICES ASSUME LineageInv, [Next]_vars PROVE LineageInv'
    OBVIOUS
  <2>1. ASSUME NEW n \in Decisions, NEW olds \in SUBSET Decisions, Remember(n, olds)
        PROVE LineageInv'
    BY <2>1, RememberStep
  <2>2. ASSUME NEW n \in Decisions, Archive(n) \/ Recalled(n) PROVE LineageInv'
    BY <2>2, ArchiveStep, RecalledStep
  <2>3. CASE BackfillRead
    BY <2>3, BackfillReadStep
  <2>4. CASE Skip \/ Choose \/ Write
    BY <2>4, SkipStep, ChooseStep, WriteStep
  <2>5. CASE Commit \/ Crash
    BY <2>5, CommitStep, CrashStep
  <2>6. CASE UNCHANGED vars
    <3>1. UNCHANGED <<dbVars, passVars>>
      BY <2>6 DEF vars
    <3>2. TypeOK'
      BY <3>1 DEF LineageInv, TypeOK, dbVars, passVars
    <3>3. \A i : \A e : LaterRow(e, i)' <=> LaterRow(e, i)
      BY <3>1 DEF LaterRow, passVars
    <3>4. RowsInv'
      BY <3>1, <3>3 DEF LineageInv, RowsInv, dbVars, passVars
    <3> QED
      BY <3>1, <3>2, <3>4, PassStep DEF dbVars, passVars
  <2> QED
    BY <2>1, <2>2, <2>3, <2>4, <2>5, <2>6 DEF Next
<1> QED
  BY <1>1, <1>2, PTL DEF Spec

\* Every variable keeps its type; an edge points to a decision that is retired
\* (remember, forget_neuron, backfill_supersedes).
THEOREM LineageTyped == Spec => []TypeOK
<1>1. LineageInv => TypeOK
  BY DEF LineageInv
<1> QED
  BY <1>1, LineageInvInductive, PTL

\* The trail of a superseded decision ends in one that is active or that a
\* user archived, for any number of decisions, whatever backfill_supersedes
\* read before its transaction and whenever it dies.
THEOREM TrailsEnd == Spec => []LeadsToTruth
<1>1. LineageInv => LeadsToTruth
  BY DEF LineageInv
<1> QED
  BY <1>1, LineageInvInductive, PTL
=============================================================================
