------------------------- MODULE SessionHooksProofs -------------------------
(***************************************************************************)
(* The wiring of the clients and what sessions are told, for any clients,  *)
(* commands, sessions, hooks and number of SessionStarts at once.          *)
(*                                                                         *)
(* SetupInv is inductive.  What a command has done and what it has yet to  *)
(* do cover the files of its clients between them (DoneInv); what it is    *)
(* writing is whole, and the file cut off unless a SessionStart has put    *)
(* another in its place (NewInv); what a SessionStart is about to write is *)
(* sound, and all of the user's is in it (HealInv); a command that goes at *)
(* the git hooks in the end has found every other client bare (GitInv).    *)
(* The statuses follow (StatusInv): a task of one client reaches no file   *)
(* of another but the CLAUDE.md or AGENTS.md they share.                   *)
(*                                                                         *)
(* Of the packs: two hooks that build for one session are ordered by the   *)
(* insert alone, which keeps what is there; a hook that is alone with its  *)
(* build finds no pack when it saves, and a session without one has heard  *)
(* none of such a hook (AloneInv); a build that a branch change has        *)
(* overtaken shows in `stale`.                                             *)
(***************************************************************************)
EXTENDS SessionHooks, FiniteSetTheorems, SequenceTheorems, TLAPS

Wiring(c) == {Mcp(c), HookFile(c)} \cup (IF c = Claude THEN {Local} ELSE {})
Healed == {Local, HookFile(Claude)}
Left(todo) == UNION {ToSet(todo[i]) : i \in DOMAIN todo}

\* What may be in a file.
Fine(f, x) ==
    /\ x \in Seq(Entries) /\ IsInjective(x)
    /\ "torn" \in ToSet(x) => f \in Json /\ x = <<"torn">>
    /\ "stale" \in ToSet(x) => (\E c \in Clients : f = HookFile(c)) /\ "ours" \notin ToSet(x)

Kind(t) ==
    /\ t.do = "merge" => t.on \in (Json \ {Local}) \cup {PostCheckout}
    /\ t.do = "snippet" => t.on \in Guides
    /\ t.do = "permit" => t.on = Local
    /\ t.force => t.do = "snippet"

\* What a task comes to.
Effected(t, x) ==
    /\ t.do \in {"merge", "permit"} => ToSet(x) \cap Replaced = {"ours"}
    /\ t.do = "snippet" => "ours" \in ToSet(x)
    /\ t.do = "strip" => ToSet(x) \cap Brainkm = {}

\* The git hooks come last, in a list of their own.
GitLast(todo) ==
    \A i \in DOMAIN todo : \A j \in DOMAIN todo[i] :
        todo[i][j].on = PostCheckout => i = Len(todo) /\ Len(todo[i]) = 1

\* What a command may yet have to do.
Planned(of, todo, result) ==
    /\ todo \in Seq(Seq(Tasks)) /\ \A i \in DOMAIN todo : todo[i] # << >>
    /\ \A t \in Left(todo) :
        /\ Kind(t)
        /\ t.on # PostCheckout => \E c \in of : t.on \in Wiring(c) \cup {Md[c]}
        /\ result = "removed" => t.do = "strip"
        /\ result = "installed" /\ t.do = "strip" => t.on = PostCheckout
    /\ result = "removed" => GitLast(todo)

Covers(todo, c) == \A f \in Wiring(c) \cup {Md[c]} : \E t \in Left(todo) : t.on = f

Alone(f) == ToSet(file[f]) \cap Replaced = {"ours"}
Cleared(f) == ToSet(file[f]) \cap Brainkm # {} => f \in back

FileInv ==
    /\ \A f \in Files : Fine(f, file[f])
    /\ file \in [Files -> Seq(Entries)]
    /\ status \in [Clients -> {"never", "pending", "installed", "removed"}]
    /\ mine \subseteq Files \X {"user", "notes", "chapter"} /\ back \subseteq Files
    /\ commands \in 0 .. MaxCommands

\* A SessionStart writes a sound file, and all of the user's in it.
HealInv ==
    /\ heal \in [Healers -> Looks \cup {None}]
    /\ \A h \in Healers : heal[h] # None =>
        /\ heal[h].on \in Healed
        /\ heal[h].on = Local \/ heal[h].read # << >> =>
            /\ Fine(heal[h].on, heal[h].read)
            /\ heal[h].on # Local => "stale" \in ToSet(heal[h].read)
            /\ heal[h].on # Local \/ heal[h].read # Torn(Local) =>
                \A e : <<heal[h].on, e>> \in mine => e \in ToSet(heal[h].read)

\* What a command has yet to do.
TodoInv == cmd # None => cmd \in Doings /\ Planned(cmd.of, cmd.todo, cmd.result)

\* What it is writing, unless a SessionStart has been faster.
NewInv ==
    cmd # None /\ cmd.new # None =>
        /\ cmd.todo # << >> /\ Fine(Current.on, cmd.new) /\ "torn" \notin ToSet(cmd.new)
        /\ Current.do # "permit" /\ Effected(Current, cmd.new)
        /\ \/ file[Current.on] = Torn(Current.on)
           \/ Current.on \in Healed /\ Alone(Current.on) /\ Current.on \in back

\* What it has done.
Accomplished(result, f) ==
    IF f \in Guides THEN Has(f, "ours") <=> result = "installed"
    ELSE IF result = "installed" THEN Alone(f) ELSE Cleared(f)

DoneInv ==
    cmd # None => \A c \in cmd.of :
        /\ status[c] = "pending"
        /\ \A f \in Wiring(c) \cup {Md[c]} :
            (\E t \in Left(cmd.todo) : t.on = f) \/ Accomplished(cmd.result, f)

GitInv ==
    cmd # None /\ cmd.result = "removed" /\ (\E t \in Left(cmd.todo) : t.on = PostCheckout) =>
        \A c \in Clients \ cmd.of : Cleared(Mcp(c)) /\ Cleared(HookFile(c))

StatusInv ==
    /\ \A c \in Clients : \A f \in Wiring(c) :
        (status[c] = "installed" => Alone(f)) /\ (status[c] = "removed" => Cleared(f))
    /\ \A f \in Guides :
        /\ Has(f, "ours") \/ \E c \in Clients : Md[c] = f /\ status[c] # "installed"
        /\ ~Has(f, "ours") \/ \E c \in Clients : Md[c] = f /\ status[c] # "removed"

KeptInv ==
    \A m \in mine :
        \/ Has(m[1], m[2])
        \/ /\ cmd # None /\ cmd.new # None /\ Current.on = m[1]
           /\ m[2] \in ToSet(cmd.new) /\ file[m[1]] = Torn(m[1])

SetupInv == FileInv /\ HealInv /\ TodoInv /\ NewInv /\ DoneInv /\ GitInv /\ StatusInv /\ KeptInv

-----------------------------------------------------------------------------
(* Sequences of entries                                                    *)

\* The numbers of a finite set of them: the n-th is the one with n up to it.
LEMMA NthExists ==
    ASSUME NEW K, K \in SUBSET Nat, IsFiniteSet(K), NEW n \in 1 .. Cardinality(K)
    PROVE  \E i \in K : Cardinality({j \in K : j <= i}) = n
<1>1. PICK m \in Nat : m = Cardinality(K)
  BY FS_CardinalityType
<1>2. PICK g : g = [i \in K |-> Cardinality({j \in K : j <= i})]
  OBVIOUS
<1>3. ASSUME NEW i \in K
      PROVE  g[i] \in 1 .. m /\ IsFiniteSet({j \in K : j <= i})
  <2>1. {j \in K : j <= i} \in SUBSET K /\ i \in {j \in K : j <= i}
    OBVIOUS
  <2>2. /\ IsFiniteSet({j \in K : j <= i}) /\ Cardinality({j \in K : j <= i}) <= m
        /\ Cardinality({j \in K : j <= i}) \in Nat
    BY <1>1, <2>1, FS_Subset, FS_CardinalityType
  <2>3. Cardinality({j \in K : j <= i}) # 0
    BY <2>1, <2>2, FS_EmptySet
  <2> QED
    BY <1>1, <1>2, <2>2, <2>3
<1>4. ASSUME NEW i \in K, NEW j \in K, i < j PROVE g[i] # g[j]
  <2>1. {k \in K : k <= i} \in SUBSET {k \in K : k <= j}
    <3>1. i \in Nat /\ j \in Nat
      OBVIOUS
    <3>2. ASSUME NEW k \in K, k <= i PROVE k <= j
      <4>1. k \in Nat
        OBVIOUS
      <4> QED
        BY <1>4, <3>1, <3>2, <4>1
    <3> QED
      BY <3>2
  <2>2. j \in {k \in K : k <= j} /\ j \notin {k \in K : k <= i}
    BY <1>4
  <2> QED
    BY <1>2, <1>3, <2>1, <2>2, FS_Subset
<1>5. g \in Injection(K, 1 .. m)
  <2>1. g \in [K -> 1 .. m]
    BY <1>2, <1>3
  <2>2. ASSUME NEW i \in K, NEW j \in K, g[i] = g[j] PROVE i = j
    <3>1. i < j \/ j < i \/ i = j
      OBVIOUS
    <3> QED
      BY <1>4, <2>2, <3>1
  <2> QED
    BY <2>1, <2>2 DEF Injection, IsInjective
<1>6. IsFiniteSet(1 .. m) /\ Cardinality(1 .. m) = m
  BY FS_Interval
<1>7. g \in Surjection(K, 1 .. m)
  BY <1>1, <1>5, <1>6, FS_Injection
<1>8. PICK i \in K : g[i] = n
  BY <1>1, <1>7 DEF Surjection
<1> QED
  BY <1>2, <1>8

\* What is taken out is gone, and the rest stays, none of it twice.
LEMMA WithoutIs ==
    ASSUME NEW S, NEW x \in Seq(S), NEW R
    PROVE  /\ Without(x, R) \in Seq(S)
           /\ ToSet(Without(x, R)) = ToSet(x) \ R
           /\ IsInjective(x) => IsInjective(Without(x, R))
<1>1. PICK n \in Nat : n = Len(x) /\ DOMAIN x = 1 .. n /\ \A i \in 1 .. n : x[i] \in S
  OBVIOUS
<1>2. PICK K : K = {i \in DOMAIN x : x[i] \notin R}
  OBVIOUS
<1>3. K \in SUBSET (1 .. n) /\ K \in SUBSET Nat /\ IsFiniteSet(K)
  <2>1. K \in SUBSET (1 .. n)
    BY <1>1, <1>2
  <2>2. IsFiniteSet(1 .. n)
    BY FS_Interval
  <2>3. IsFiniteSet(K)
    BY <2>1, <2>2, FS_Subset
  <2> QED
    BY <2>1, <2>3
<1>4. PICK m \in Nat : m = Cardinality(K)
  BY <1>3, FS_CardinalityType
<1>5. PICK nth : nth = [k \in 1 .. m |-> CHOOSE i \in K : Cardinality({j \in K : j <= i}) = k]
  OBVIOUS
<1>6. ASSUME NEW k \in 1 .. m
      PROVE  nth[k] \in K /\ Cardinality({j \in K : j <= nth[k]}) = k
  <2>1. \E i \in K : Cardinality({j \in K : j <= i}) = k
    BY <1>3, <1>4, NthExists
  <2> QED
    BY <1>5, <2>1
<1>7. Without(x, R) = [k \in 1 .. m |-> x[nth[k]]]
  BY <1>2, <1>4, <1>5 DEF Without
<1>8. \A i \in K : \E k \in 1 .. m : nth[k] = i
  <2>1. nth \in Injection(1 .. m, K)
    <3>1. nth \in [1 .. m -> K]
      BY <1>5, <1>6
    <3>2. ASSUME NEW k \in 1 .. m, NEW l \in 1 .. m, nth[k] = nth[l] PROVE k = l
      BY <1>6, <3>2
    <3> QED
      BY <3>1, <3>2 DEF Injection, IsInjective
  <2>2. IsFiniteSet(1 .. m) /\ Cardinality(1 .. m) = m
    BY FS_Interval
  <2>3. nth \in Surjection(1 .. m, K)
    BY <1>3, <1>4, <2>1, <2>2, FS_Injection
  <2> QED
    BY <2>3 DEF Surjection
<1>9. PICK y : y = Without(x, R)
  OBVIOUS
<1>10. y \in [1 .. m -> S]
  BY <1>1, <1>3, <1>6, <1>7, <1>9
<1>11. y \in Seq(S) /\ DOMAIN y = 1 .. m
  BY <1>10
<1>12. ToSet(y) = ToSet(x) \ R
  <2>1. ASSUME NEW k \in 1 .. m PROVE y[k] \in ToSet(x) \ R
    BY <1>1, <1>2, <1>6, <1>7, <1>9 DEF ToSet
  <2>2. ASSUME NEW e \in ToSet(x) \ R PROVE \E k \in 1 .. m : y[k] = e
    <3>1. PICK i \in K : x[i] = e
      BY <1>2 DEF ToSet
    <3> QED
      BY <1>7, <1>8, <1>9, <3>1
  <2> QED
    BY <1>11, <2>1, <2>2 DEF ToSet
<1>13. ASSUME IsInjective(x) PROVE IsInjective(y)
  <2>1. ASSUME NEW k \in 1 .. m, NEW l \in 1 .. m, y[k] = y[l] PROVE k = l
    <3>1. x[nth[k]] = x[nth[l]] /\ nth[k] \in DOMAIN x /\ nth[l] \in DOMAIN x
      BY <1>2, <1>6, <1>7, <1>9, <2>1
    <3>2. nth[k] = nth[l]
      BY <1>13, <3>1 DEF IsInjective
    <3> QED
      BY <1>6, <3>2
  <2> QED
    BY <1>11, <2>1 DEF IsInjective
<1> QED
  BY <1>9, <1>11, <1>12, <1>13

LEMMA AppendIs ==
    ASSUME NEW S, NEW x \in Seq(S), NEW e \in S
    PROVE  /\ Append(x, e) \in Seq(S) /\ Append(x, e) # x
           /\ ToSet(Append(x, e)) = ToSet(x) \cup {e}
           /\ IsInjective(x) /\ e \notin ToSet(x) => IsInjective(Append(x, e))
<1>1. PICK n \in Nat : n = Len(x) /\ DOMAIN x = 1 .. n
  OBVIOUS
<1>2. PICK y : y = Append(x, e)
  OBVIOUS
<1>3. y \in Seq(S) /\ DOMAIN y = 1 .. n + 1 /\ y[n + 1] = e /\ \A i \in 1 .. n : y[i] = x[i]
  BY <1>1, <1>2, AppendProperties
<1>4. ToSet(y) = ToSet(x) \cup {e}
  BY <1>1, <1>3 DEF ToSet
<1>5. IsInjective(x) /\ e \notin ToSet(x) => IsInjective(y)
  BY <1>1, <1>3 DEF ToSet, IsInjective
<1>6. y # x
  BY <1>1, <1>3
<1> QED
  BY <1>2, <1>3, <1>4, <1>5, <1>6

LEMMA ConcatIs ==
    ASSUME NEW S, NEW x \in Seq(S), NEW y \in Seq(S)
    PROVE  x \o y \in Seq(S) /\ ToSet(x \o y) = ToSet(x) \cup ToSet(y)
<1>1. PICK m \in Nat, n \in Nat : m = Len(x) /\ DOMAIN x = 1 .. m /\ n = Len(y) /\ DOMAIN y = 1 .. n
  OBVIOUS
<1>2. PICK z : z = x \o y
  OBVIOUS
<1>3. /\ z \in Seq(S) /\ DOMAIN z = 1 .. m + n
      /\ \A i \in 1 .. m + n : z[i] = IF i <= m THEN x[i] ELSE y[i - m]
  BY <1>1, <1>2, ConcatProperties
<1>4. ASSUME NEW i \in 1 .. m + n PROVE z[i] \in ToSet(x) \cup ToSet(y)
  <2>1. CASE i <= m
    BY <1>1, <1>3, <2>1 DEF ToSet
  <2>2. CASE ~(i <= m)
    <3>1. i - m \in 1 .. n
      BY <2>2
    <3> QED
      BY <1>1, <1>3, <2>2, <3>1 DEF ToSet
  <2> QED
    BY <2>1, <2>2
<1>5. ASSUME NEW i \in 1 .. m PROVE x[i] \in ToSet(z)
  <2>1. i \in 1 .. m + n /\ i <= m
    OBVIOUS
  <2> QED
    BY <1>3, <2>1 DEF ToSet
<1>6. ASSUME NEW i \in 1 .. n PROVE y[i] \in ToSet(z)
  <2>1. m + i \in 1 .. m + n /\ ~(m + i <= m) /\ (m + i) - m = i
    OBVIOUS
  <2> QED
    BY <1>3, <2>1 DEF ToSet
<1>7. ToSet(z) \subseteq ToSet(x) \cup ToSet(y)
  BY <1>3, <1>4 DEF ToSet
<1>8. ToSet(x) \subseteq ToSet(z) /\ ToSet(y) \subseteq ToSet(z)
  BY <1>1, <1>5, <1>6 DEF ToSet
<1> QED
  BY <1>2, <1>3, <1>7, <1>8

LEMMA FewIs ==
    /\ \A S : << >> \in Seq(S)
    /\ ToSet(<< >>) = {} /\ IsInjective(<< >>)
    /\ \A S : \A e \in S : <<e>> \in Seq(S)
    /\ \A e : ToSet(<<e>>) = {e} /\ IsInjective(<<e>>)
<1>1. \A S : << >> \in Seq(S)
  BY EmptySeq, Zenon
<1> QED
  BY <1>1 DEF ToSet, IsInjective

LEMMA NoneIs == ASSUME NEW S, NEW x \in Seq(S) PROVE ToSet(x) = {} <=> x = << >>
BY DEF ToSet

\* What is not below the first of something stays when it is cut off there.
LEMMA UpToIs ==
    ASSUME NEW S, NEW x \in Seq(S), "ours" \in ToSet(x), IsInjective(x)
    PROVE  LET y == SubSeq(x, 1, CHOOSE i \in DOMAIN x : x[i] = "ours")
           IN /\ y \in Seq(S) /\ IsInjective(y) /\ "ours" \in ToSet(y)
              /\ ToSet(y) \subseteq ToSet(x) /\ ToSet(x) \ Below(x) \subseteq ToSet(y)
<1>1. PICK n \in Nat : n = Len(x) /\ DOMAIN x = 1 .. n /\ \A i \in 1 .. n : x[i] \in S
  OBVIOUS
<1>2. PICK k : k = CHOOSE i \in DOMAIN x : x[i] = "ours"
  OBVIOUS
<1>3. k \in 1 .. n /\ x[k] = "ours"
  BY <1>1, <1>2 DEF ToSet
<1>4. PICK y : y = SubSeq(x, 1, k)
  OBVIOUS
<1>5. y \in Seq(S) /\ DOMAIN y = 1 .. k /\ \A i \in 1 .. k : y[i] = x[i]
  BY <1>1, <1>3, <1>4, SubSeqProperties
<1>6. ASSUME NEW e \in ToSet(x) \ Below(x) PROVE e \in ToSet(y)
  <2>1. PICK i \in 1 .. n : x[i] = e
    BY <1>1 DEF ToSet
  <2>2. ~(k \in 1 .. i - 1)
    BY <1>1, <1>3, <1>6, <2>1 DEF Below
  <2>3. i \in 1 .. k
    BY <1>3, <2>2
  <2> QED
    BY <1>5, <2>1, <2>3 DEF ToSet
<1>7. IsInjective(y)
  BY <1>1, <1>3, <1>5 DEF IsInjective
<1>8. "ours" \in ToSet(y) /\ ToSet(y) \subseteq ToSet(x)
  BY <1>1, <1>3, <1>5 DEF ToSet
<1> QED
  BY <1>2, <1>4, <1>5, <1>6, <1>7, <1>8

LEMMA WidenedIs ==
    ASSUME NEW x \in Seq(Entries), IsInjective(x), "stale" \in ToSet(x), "ours" \notin ToSet(x)
    PROVE  LET y == [i \in DOMAIN x |-> IF x[i] = "stale" THEN "ours" ELSE x[i]]
           IN /\ y \in Seq(Entries) /\ IsInjective(y)
              /\ ToSet(y) = (ToSet(x) \ {"stale"}) \cup {"ours"}
<1>1. PICK n \in Nat : n = Len(x) /\ DOMAIN x = 1 .. n /\ \A i \in 1 .. n : x[i] \in Entries
  OBVIOUS
<1>2. PICK y : y = [i \in DOMAIN x |-> IF x[i] = "stale" THEN "ours" ELSE x[i]]
  OBVIOUS
<1>3. y \in [1 .. n -> Entries]
  BY <1>1, <1>2 DEF Entries
<1>4. y \in Seq(Entries) /\ DOMAIN y = 1 .. n
  BY <1>3
<1>5. IsInjective(y)
  BY <1>1, <1>2, <1>4 DEF IsInjective, ToSet
<1>6. ToSet(y) = (ToSet(x) \ {"stale"}) \cup {"ours"}
  <2>1. ASSUME NEW i \in 1 .. n PROVE y[i] \in (ToSet(x) \ {"stale"}) \cup {"ours"}
    BY <1>1, <1>2 DEF ToSet
  <2>2. PICK k \in 1 .. n : x[k] = "stale"
    BY <1>1 DEF ToSet
  <2>3. y[k] = "ours"
    BY <1>1, <1>2, <2>2
  <2>4. ASSUME NEW e \in ToSet(x) \ {"stale"} PROVE \E i \in 1 .. n : y[i] = e
    BY <1>1, <1>2 DEF ToSet
  <2> QED
    BY <1>4, <2>1, <2>3, <2>4 DEF ToSet
<1> QED
  BY <1>2, <1>4, <1>5, <1>6

\* Where nothing is twice, what is alone can be told from the set.
LEMMA AloneIs ==
    ASSUME NEW x \in Seq(Entries), IsInjective(x)
    PROVE  OursAlone(x) <=> ToSet(x) \cap Replaced = {"ours"}
BY DEF OursAlone, ToSet, IsInjective, Brainkm, Replaced

-----------------------------------------------------------------------------
(* What is done to a file                                                  *)

LEMMA Names ==
    /\ Claude \in Clients /\ Healed \subseteq Wiring(Claude)
    /\ Files = Json \cup Guides \cup {PostCheckout} /\ Texts = Guides \cup {PostCheckout}
    /\ Guides \cap Json = {} /\ PostCheckout \notin Json \cup Guides
    /\ \A c \in Clients : /\ Mcp(c) \in Wiring(c) /\ HookFile(c) \in Wiring(c)
                          /\ Wiring(c) \subseteq Json /\ Md[c] \in Guides
                          /\ Local # Mcp(c) /\ Local # HookFile(c)
    /\ Local \in Json /\ Local \in Files /\ HookFile(Claude) \in Json
    /\ \A c, d \in Clients : Wiring(c) \cap Wiring(d) # {} => c = d
<1>1. Claude \in Clients
  BY SetupAssumption
<1>2. \A c, d : /\ Mcp(c) = Mcp(d) => c = d
                /\ HookFile(c) = HookFile(d) => c = d
                /\ Mcp(c) # HookFile(d) /\ Mcp(c) # Local /\ HookFile(c) # Local
                /\ Mcp(c) # PostCheckout /\ HookFile(c) # PostCheckout
  BY DEF Mcp, HookFile, Local, PostCheckout
<1>3. Local # PostCheckout
  BY DEF Local, PostCheckout
<1>4. Guides \cap Json = {} /\ PostCheckout \notin Json \cup Guides
  BY <1>2, <1>3, SetupAssumption DEF Guides, Json
<1>5. ASSUME NEW c \in Clients
      PROVE  /\ Mcp(c) \in Wiring(c) /\ HookFile(c) \in Wiring(c)
             /\ Wiring(c) \subseteq Json /\ Md[c] \in Guides
             /\ Local # Mcp(c) /\ Local # HookFile(c)
  BY <1>2 DEF Wiring, Json, Guides
<1>6. ASSUME NEW c \in Clients, NEW d \in Clients, Wiring(c) \cap Wiring(d) # {} PROVE c = d
  BY <1>2, <1>6 DEF Wiring
<1>7. Healed \subseteq Wiring(Claude)
  BY DEF Healed, Wiring
<1>8. Files = Json \cup Guides \cup {PostCheckout} /\ Texts = Guides \cup {PostCheckout}
  BY DEF Files, Texts, Guides
<1>9. Local \in Json /\ HookFile(Claude) \in Json
  BY <1>1 DEF Json
<1> QED
  BY <1>1, <1>4, <1>5, <1>6, <1>7, <1>8, <1>9

LEMMA TornIs ==
    ASSUME NEW f \in Files
    PROVE  /\ Fine(f, Torn(f)) /\ ToSet(Torn(f)) \subseteq {"torn"}
           /\ ToSet(Torn(f)) \cap Brainkm = {} /\ "ours" \notin ToSet(Torn(f))
<1>1. "torn" \in Entries /\ "torn" \notin Brainkm
  BY DEF Entries, Brainkm, Replaced
<1>2. CASE f \in Json
  <2>1. Torn(f) = <<"torn">>
    BY <1>2 DEF Torn
  <2>2. <<"torn">> \in Seq(Entries) /\ ToSet(<<"torn">>) = {"torn"} /\ IsInjective(<<"torn">>)
    BY <1>1, FewIs
  <2> QED
    BY <1>1, <1>2, <2>1, <2>2 DEF Fine
<1>3. CASE f \notin Json
  <2>1. Torn(f) = << >>
    BY <1>3 DEF Torn
  <2> QED
    BY <2>1, FewIs DEF Fine
<1> QED
  BY <1>2, <1>3

\* Without what goes, and with the `fi` of a block of post-checkout.
LEMMA CleanedIs ==
    ASSUME NEW f \in Files, NEW x, Fine(f, x), "torn" \notin ToSet(x),
           NEW gone, f = PostCheckout => "stray" \notin gone
    PROVE  /\ Fine(f, Cleaned(f, x, gone)) /\ "torn" \notin ToSet(Cleaned(f, x, gone))
           /\ ToSet(Cleaned(f, x, gone)) \cap gone = {}
           /\ ToSet(x) \ gone \subseteq ToSet(Cleaned(f, x, gone))
<1>1. x \in Seq(Entries) /\ IsInjective(x)
  BY DEF Fine
<1>2. PICK k : k = Without(x, gone)
  OBVIOUS
<1>3. k \in Seq(Entries) /\ ToSet(k) = ToSet(x) \ gone /\ IsInjective(k)
  BY <1>1, <1>2, WithoutIs
<1>4. "stray" \in Entries /\ "stray" # "torn" /\ "stray" # "stale" /\ "stray" # "ours"
  BY DEF Entries
<1>5. CASE f = PostCheckout /\ "ours" \in ToSet(x) /\ "stray" \notin ToSet(x)
  <2>1. Cleaned(f, x, gone) = Append(k, "stray")
    BY <1>2, <1>5 DEF Cleaned
  <2>2. PICK y : y = Append(k, "stray")
    OBVIOUS
  <2>3. y \in Seq(Entries) /\ ToSet(y) = ToSet(k) \cup {"stray"} /\ IsInjective(y)
    BY <1>3, <1>4, <1>5, <2>2, AppendIs
  <2> QED
    BY <1>3, <1>4, <1>5, <2>1, <2>2, <2>3 DEF Fine
<1>6. CASE ~(f = PostCheckout /\ "ours" \in ToSet(x) /\ "stray" \notin ToSet(x))
  <2>1. Cleaned(f, x, gone) = k
    BY <1>2, <1>6 DEF Cleaned
  <2> QED
    BY <1>3, <1>4, <2>1 DEF Fine
<1> QED
  BY <1>5, <1>6

LEMMA StrippedIs ==
    ASSUME NEW f \in Files, NEW x, Fine(f, x), "torn" \notin ToSet(x)
    PROVE  /\ Fine(f, Stripped(f, x)) /\ "torn" \notin ToSet(Stripped(f, x))
           /\ ToSet(Stripped(f, x)) \cap Brainkm = {}
           /\ \A e \in ToSet(x) \ Brainkm :
                 (f \in Guides /\ e \in Section(x)) \/ e \in ToSet(Stripped(f, x))
<1>1. PICK gone : gone = IF f \in Guides THEN Brainkm \cup Section(x) ELSE Brainkm
  OBVIOUS
<1>2. Stripped(f, x) = Cleaned(f, x, gone)
  BY <1>1 DEF Stripped
<1>3. f = PostCheckout => "stray" \notin gone
  BY <1>1, Names DEF Brainkm
<1>4. PICK y : y = Cleaned(f, x, gone)
  OBVIOUS
<1>5. /\ Fine(f, y) /\ "torn" \notin ToSet(y) /\ ToSet(y) \cap gone = {}
      /\ ToSet(x) \ gone \subseteq ToSet(y)
  BY <1>3, <1>4, CleanedIs
<1>6. Brainkm \subseteq gone /\ \A e \in gone \ Brainkm : f \in Guides /\ e \in Section(x)
  BY <1>1
<1>7. ToSet(y) \cap Brainkm = {}
  BY <1>5, <1>6
<1>8. \A e \in ToSet(x) \ Brainkm : (f \in Guides /\ e \in Section(x)) \/ e \in ToSet(y)
  BY <1>5, <1>6
<1> QED
  BY <1>2, <1>4, <1>5, <1>7, <1>8

\* Something of ours at the end of what has none.
LEMMA OursAdded ==
    ASSUME NEW f, NEW x, Fine(f, x), "torn" \notin ToSet(x), "ours" \notin ToSet(x),
           "stale" \notin ToSet(x)
    PROVE  /\ Fine(f, Append(x, "ours")) /\ "torn" \notin ToSet(Append(x, "ours"))
           /\ ToSet(Append(x, "ours")) = ToSet(x) \cup {"ours"} /\ Append(x, "ours") # x
           /\ ToSet(Append(x, "ours")) \cap Replaced = {"ours"}
<1>1. x \in Seq(Entries) /\ IsInjective(x) /\ "ours" \in Entries
      /\ "ours" # "torn" /\ "ours" # "stale" /\ Replaced = {"ours", "stale"}
  BY DEF Fine, Entries, Brainkm, Replaced
<1>2. PICK y : y = Append(x, "ours")
  OBVIOUS
<1>3. y \in Seq(Entries) /\ y # x /\ ToSet(y) = ToSet(x) \cup {"ours"} /\ IsInjective(y)
  BY <1>1, <1>2, AppendIs
<1> QED
  BY <1>1, <1>2, <1>3 DEF Fine

LEMMA MergedIs ==
    ASSUME NEW f \in Files, NEW x, Fine(f, x), "torn" \notin ToSet(x)
    PROVE  /\ Fine(f, Merged(f, x)) /\ "torn" \notin ToSet(Merged(f, x))
           /\ ToSet(Merged(f, x)) \cap Replaced = {"ours"}
           /\ ToSet(x) \ Brainkm \subseteq ToSet(Merged(f, x))
<1>1. PICK k : k = Cleaned(f, x, Replaced)
  OBVIOUS
<1>2. "stray" \notin Replaced /\ Replaced \subseteq Brainkm
  BY DEF Replaced, Brainkm
<1>3. /\ Fine(f, k) /\ "torn" \notin ToSet(k) /\ ToSet(k) \cap Replaced = {}
      /\ ToSet(x) \ Brainkm \subseteq ToSet(k)
  BY <1>1, <1>2, CleanedIs
<1>4. "ours" \notin ToSet(k) /\ "stale" \notin ToSet(k)
  BY <1>3 DEF Replaced
<1> QED
  BY <1>1, <1>3, <1>4, OursAdded DEF Merged

LEMMA SnippetIs ==
    ASSUME NEW f \in Guides, NEW x, Fine(f, x), NEW force \in BOOLEAN
    PROVE  /\ Fine(f, Snippet(x, force)) /\ "torn" \notin ToSet(Snippet(x, force))
           /\ "ours" \in ToSet(Snippet(x, force))
           /\ ToSet(x) \ (IF force THEN Below(x) ELSE {}) \subseteq ToSet(Snippet(x, force))
           /\ ~force /\ Snippet(x, force) = x => "ours" \in ToSet(x)
<1>1. /\ x \in Seq(Entries) /\ IsInjective(x) /\ "torn" \notin ToSet(x)
      /\ \A c \in Clients : f # HookFile(c)
  BY Names DEF Fine
<1>2. "stale" \notin ToSet(x)
  BY <1>1 DEF Fine
<1>3. CASE "ours" \notin ToSet(x)
  <2>1. Snippet(x, force) = Append(x, "ours")
    BY <1>3 DEF Snippet
  <2>2. PICK y : y = Append(x, "ours")
    OBVIOUS
  <2>3. /\ Fine(f, y) /\ "torn" \notin ToSet(y) /\ y # x
        /\ ToSet(y) = ToSet(x) \cup {"ours"}
    BY <1>1, <1>2, <1>3, <2>2, OursAdded
  <2> QED
    BY <1>3, <2>1, <2>2, <2>3
<1>4. CASE "ours" \in ToSet(x) /\ ~force
  <2>1. Snippet(x, force) = x
    BY <1>4 DEF Snippet
  <2> QED
    BY <1>1, <1>4, <2>1
<1>5. CASE "ours" \in ToSet(x) /\ force
  <2>1. PICK y : y = SubSeq(x, 1, CHOOSE i \in DOMAIN x : x[i] = "ours")
    OBVIOUS
  <2>2. Snippet(x, force) = y
    BY <1>5, <2>1 DEF Snippet
  <2>3. /\ y \in Seq(Entries) /\ IsInjective(y) /\ "ours" \in ToSet(y)
        /\ ToSet(y) \subseteq ToSet(x) /\ ToSet(x) \ Below(x) \subseteq ToSet(y)
    BY <1>1, <1>5, <2>1, UpToIs
  <2> QED
    BY <1>1, <1>2, <1>5, <2>2, <2>3 DEF Fine
<1> QED
  BY <1>3, <1>4, <1>5

LEMMA PermittedIs ==
    ASSUME NEW x, Fine(Local, x)
    PROVE  /\ Fine(Local, Permitted(x)) /\ "torn" \notin ToSet(Permitted(x))
           /\ ToSet(Permitted(x)) \cap Replaced = {"ours"}
           /\ x # Torn(Local) => ToSet(x) \subseteq ToSet(Permitted(x))
<1>1. Torn(Local) = <<"torn">> /\ \A c \in Clients : Local # HookFile(c)
  BY Names DEF Torn
<1>2. "stale" \notin ToSet(x) /\ x \in Seq(Entries) /\ "ours" # "torn" /\ "ours" # "stale"
      /\ "ours" \in Entries /\ Replaced = {"ours", "stale"}
  BY <1>1 DEF Fine, Entries, Brainkm, Replaced
<1>3. ToSet(<<"torn">>) = {"torn"} /\ <<"ours">> \in Seq(Entries) /\ ToSet(<<"ours">>) = {"ours"}
      /\ IsInjective(<<"ours">>)
  BY <1>2, FewIs
<1>4. CASE "ours" \in ToSet(x)
  <2>1. "torn" \notin ToSet(x)
    BY <1>2, <1>3, <1>4 DEF Fine
  <2> QED
    BY <1>2, <1>4, <2>1 DEF Permitted
<1>5. CASE x = Torn(Local)
  <2>1. Permitted(x) = <<"ours">>
    BY <1>1, <1>2, <1>3, <1>5 DEF Permitted
  <2> QED
    BY <1>2, <1>3, <1>5, <2>1 DEF Fine
<1>6. CASE "ours" \notin ToSet(x) /\ x # Torn(Local)
  <2>1. "torn" \notin ToSet(x)
    BY <1>1, <1>6 DEF Fine
  <2>2. Permitted(x) = Append(x, "ours")
    BY <1>6 DEF Permitted
  <2>3. PICK y : y = Append(x, "ours")
    OBVIOUS
  <2>4. /\ Fine(Local, y) /\ "torn" \notin ToSet(y) /\ ToSet(y) = ToSet(x) \cup {"ours"}
        /\ ToSet(y) \cap Replaced = {"ours"}
    BY <1>2, <1>6, <2>1, <2>3, OursAdded
  <2> QED
    BY <2>2, <2>3, <2>4
<1> QED
  BY <1>4, <1>5, <1>6

LEMMA WidenedFine ==
    ASSUME NEW x, Fine(HookFile(Claude), x), "stale" \in ToSet(x)
    PROVE  LET y == [i \in DOMAIN x |-> IF x[i] = "stale" THEN "ours" ELSE x[i]]
           IN /\ Fine(HookFile(Claude), y) /\ ToSet(y) \cap Replaced = {"ours"}
              /\ ToSet(x) \ Brainkm \subseteq ToSet(y) /\ "torn" \notin ToSet(y)
<1>1. x \in Seq(Entries) /\ IsInjective(x) /\ "ours" \notin ToSet(x)
  BY DEF Fine
<1>2. PICK y : y = [i \in DOMAIN x |-> IF x[i] = "stale" THEN "ours" ELSE x[i]]
  OBVIOUS
<1>3. y \in Seq(Entries) /\ IsInjective(y) /\ ToSet(y) = (ToSet(x) \ {"stale"}) \cup {"ours"}
  BY <1>1, <1>2, WidenedIs
<1>4. "torn" \notin ToSet(x)
  BY FewIs DEF Fine
<1> QED
  BY <1>1, <1>2, <1>3, <1>4 DEF Fine, Brainkm, Replaced

\* What a task makes of a file: what it is for, and the user's entries stay.
LEMMA EditedIs ==
    ASSUME NEW t \in Tasks, Kind(t), NEW x, Fine(t.on, x),
           t.do = "strip" => "torn" \notin ToSet(x)
    PROVE  /\ Fine(t.on, Edited(t, x)) /\ "torn" \notin ToSet(Edited(t, x))
           /\ Effected(t, Edited(t, x))
           /\ \A e \in ToSet(x) \ (Brainkm \cup {"torn"}) :
                 e \in Costs(t, x) \/ e \in ToSet(Edited(t, x))
           /\ t.do = "snippet" /\ ~t.force /\ Edited(t, x) = x => "ours" \in ToSet(x)
<1>1. t.do \in {"merge", "snippet", "permit", "strip"} /\ t.on \in Files /\ t.force \in BOOLEAN
  BY DEF Tasks
<1>2. CASE t.do = "merge"
  <2>1. PICK w : w = IF x = <<"torn">> THEN << >> ELSE x
    OBVIOUS
  <2>2. Edited(t, x) = Merged(t.on, w)
    BY <1>2, <2>1 DEF Edited
  <2>3. ToSet(<<"torn">>) = {"torn"} /\ << >> \in Seq(Entries) /\ IsInjective(<< >>) /\ ToSet(<< >>) = {}
    BY FewIs
  <2>4. Fine(t.on, w) /\ "torn" \notin ToSet(w) /\ ToSet(x) \ {"torn"} \subseteq ToSet(w)
    BY <2>1, <2>3 DEF Fine
  <2> QED
    BY <1>1, <1>2, <2>2, <2>4, MergedIs DEF Effected
<1>3. CASE t.do = "snippet"
  <2>1. Edited(t, x) = Snippet(x, t.force)
    BY <1>3 DEF Edited
  <2>2. t.on \in Guides
    BY <1>3 DEF Kind
  <2>3. t.force => Costs(t, x) = Below(x)
    BY <1>3 DEF Costs
  <2> QED
    BY <1>1, <1>3, <2>1, <2>2, <2>3, SnippetIs DEF Effected
<1>4. CASE t.do = "permit"
  <2>1. Edited(t, x) = Permitted(x) /\ t.on = Local
    BY <1>4 DEF Edited, Kind
  <2>2. \A e \in ToSet(x) \ (Brainkm \cup {"torn"}) : e \in ToSet(Permitted(x))
    <3>1. x = Torn(Local) => ToSet(x) \subseteq {"torn"}
      BY Names, TornIs
    <3> QED
      BY <2>1, <3>1, PermittedIs
  <2> QED
    BY <1>4, <2>1, <2>2, PermittedIs DEF Effected
<1>5. CASE t.do = "strip"
  <2>1. Edited(t, x) = Stripped(t.on, x)
    BY <1>5 DEF Edited
  <2>2. t.on \in Guides => Costs(t, x) = Section(x)
    BY <1>5 DEF Costs, Kind
  <2> QED
    BY <1>1, <1>5, <2>1, <2>2, StrippedIs DEF Effected
<1> QED
  BY <1>1, <1>2, <1>3, <1>4, <1>5

-----------------------------------------------------------------------------
(* Plans                                                                   *)

\* The next task, and what is left after it.
LEMMA RestPlanned ==
    ASSUME NEW of, NEW todo, NEW result, Planned(of, todo, result), todo # << >>
    PROVE  LET t == Head(Head(todo))
           IN /\ t \in Tasks /\ t \in Left(todo) /\ Planned(of, Rest(todo), result)
              /\ Left(Rest(todo)) \subseteq Left(todo)
              /\ Left(todo) \subseteq Left(Rest(todo)) \cup {t}
              /\ result = "removed" /\ t.on = PostCheckout => Left(todo) = {t}
<1>1. PICK n \in Nat : n = Len(todo) /\ DOMAIN todo = 1 .. n
  BY DEF Planned
<1>2. /\ todo \in Seq(Seq(Tasks)) /\ n > 0
      /\ \A i \in 1 .. n : todo[i] \in Seq(Tasks) /\ todo[i] # << >>
  BY <1>1 DEF Planned
<1>3. PICK s : s = todo[1]
  OBVIOUS
<1>4. s = Head(todo) /\ s \in Seq(Tasks) /\ s # << >>
  BY <1>2, <1>3
<1>5. PICK m \in Nat : m = Len(s) /\ DOMAIN s = 1 .. m /\ m > 0
  BY <1>4
<1>6. PICK t : t = s[1]
  OBVIOUS
<1>7. t = Head(Head(todo)) /\ t \in Tasks /\ t \in ToSet(s)
  BY <1>4, <1>5, <1>6 DEF ToSet
<1>8. ToSet(s) \subseteq Left(todo) /\ t \in Left(todo)
  BY <1>1, <1>2, <1>3, <1>7 DEF Left
<1>9. PICK r : r = Rest(todo)
  OBVIOUS
<1>10. /\ r \in Seq(Seq(Tasks)) /\ \A i \in DOMAIN r : r[i] # << >>
       /\ Left(r) \subseteq Left(todo) /\ Left(todo) \subseteq Left(r) \cup {t}
       /\ GitLast(todo) => GitLast(r)
  <2>1. CASE m = 1
    <3>1. r = Tail(todo)
      BY <1>4, <1>5, <1>9, <2>1 DEF Rest
    <3>2. /\ r \in Seq(Seq(Tasks)) /\ Len(r) = n - 1 /\ DOMAIN r = 1 .. n - 1
          /\ \A i \in 1 .. n - 1 : r[i] = todo[i + 1] /\ i + 1 \in 1 .. n
      BY <1>1, <1>2, <3>1
    <3>3. ToSet(s) = {t}
      BY <1>5, <1>6, <2>1 DEF ToSet
    <3>4. Left(r) \subseteq Left(todo)
      BY <1>1, <3>2 DEF Left
    <3>5. ASSUME NEW u \in Left(todo), u # t PROVE u \in Left(r)
      <4>1. PICK i \in 1 .. n : u \in ToSet(todo[i])
        BY <1>1 DEF Left
      <4>2. i # 1
        BY <1>3, <3>3, <3>5, <4>1
      <4>3. i - 1 \in 1 .. n - 1 /\ r[i - 1] = todo[i]
        BY <3>2, <4>2
      <4> QED
        BY <3>2, <4>1, <4>3 DEF Left
    <3>6. ASSUME GitLast(todo) PROVE GitLast(r)
      <4> SUFFICES ASSUME NEW i \in 1 .. n - 1, NEW j \in DOMAIN r[i], r[i][j].on = PostCheckout
                   PROVE  i = n - 1 /\ Len(r[i]) = 1
        BY <3>2 DEF GitLast
      <4>1. i + 1 \in DOMAIN todo /\ r[i] = todo[i + 1]
        BY <1>1, <3>2
      <4>2. i + 1 = Len(todo) /\ Len(todo[i + 1]) = 1
        BY <3>6, <4>1 DEF GitLast
      <4> QED
        BY <1>1, <4>1, <4>2
    <3> QED
      BY <1>2, <3>2, <3>4, <3>5, <3>6
  <2>2. CASE m # 1
    <3>1. PICK q : q = Tail(s)
      OBVIOUS
    <3>2. r = [todo EXCEPT ![1] = q]
      BY <1>3, <1>4, <1>5, <1>9, <2>2, <3>1 DEF Rest
    <3>3. /\ q \in Seq(Tasks) /\ Len(q) = m - 1 /\ DOMAIN q = 1 .. m - 1
          /\ \A j \in 1 .. m - 1 : q[j] = s[j + 1] /\ j + 1 \in 1 .. m
      BY <1>4, <1>5, <3>1
    <3>4. q # << >>
      BY <1>5, <2>2, <3>3
    <3>5. r \in Seq(Seq(Tasks)) /\ DOMAIN r = 1 .. n /\ Len(r) = n /\ r[1] = q
          /\ \A i \in 1 .. n : i # 1 => r[i] = todo[i]
      BY <1>1, <1>2, <3>2, <3>3
    <3>6. ToSet(q) \subseteq ToSet(s)
      BY <1>5, <3>3 DEF ToSet
    <3>7. ASSUME NEW u \in ToSet(s), u # t PROVE u \in ToSet(q)
      <4>1. PICK j \in 1 .. m : u = s[j]
        BY <1>5 DEF ToSet
      <4>2. j - 1 \in 1 .. m - 1 /\ (j - 1) + 1 = j
        BY <1>6, <3>7, <4>1
      <4> QED
        BY <3>3, <4>1, <4>2 DEF ToSet
    <3>8. Left(r) \subseteq Left(todo) /\ Left(todo) \subseteq Left(r) \cup {t}
      <4>1. ASSUME NEW u \in Left(r) PROVE u \in Left(todo)
        <5>1. PICK i \in 1 .. n : u \in ToSet(r[i])
          BY <3>5 DEF Left
        <5>2. u \in ToSet(todo[i])
          BY <1>3, <3>5, <3>6, <5>1
        <5> QED
          BY <1>1, <5>2 DEF Left
      <4>2. ASSUME NEW u \in Left(todo), u # t PROVE u \in Left(r)
        <5>1. PICK i \in 1 .. n : u \in ToSet(todo[i])
          BY <1>1 DEF Left
        <5>2. u \in ToSet(r[i])
          BY <1>3, <3>5, <3>7, <4>2, <5>1
        <5> QED
          BY <3>5, <5>2 DEF Left
      <4> QED
        BY <4>1, <4>2
    <3>9. ASSUME GitLast(todo) PROVE GitLast(r)
      <4> SUFFICES ASSUME NEW i \in 1 .. n, NEW j \in DOMAIN r[i], r[i][j].on = PostCheckout
                   PROVE  i = n /\ Len(r[i]) = 1
        BY <3>5 DEF GitLast
      <4>1. CASE i # 1
        BY <1>1, <3>5, <3>9, <4>1 DEF GitLast
      <4>2. CASE i = 1
        <5>1. j \in 1 .. m - 1 /\ s[j + 1].on = PostCheckout /\ j + 1 \in DOMAIN s
          BY <1>5, <3>3, <3>5, <4>2
        <5>2. 1 \in DOMAIN todo /\ j + 1 \in DOMAIN todo[1] /\ todo[1][j + 1].on = PostCheckout
          BY <1>1, <1>2, <1>3, <5>1
        <5>3. Len(s) = 1
          BY <1>3, <3>9, <5>2 DEF GitLast
        <5> QED
          BY <1>5, <2>2, <5>3
      <4> QED
        BY <4>1, <4>2
    <3> QED
      BY <1>2, <3>4, <3>5, <3>8, <3>9
  <2> QED
    BY <2>1, <2>2
<1>11. Planned(of, r, result)
  BY <1>10 DEF Planned
<1>12. ASSUME result = "removed", t.on = PostCheckout PROVE Left(todo) = {t}
  <2>1. GitLast(todo) /\ 1 \in DOMAIN todo /\ 1 \in DOMAIN todo[1] /\ todo[1][1] = t
    BY <1>1, <1>2, <1>3, <1>5, <1>6, <1>12 DEF Planned
  <2>2. 1 = n /\ m = 1
    BY <1>1, <1>3, <1>5, <1>12, <2>1 DEF GitLast
  <2>3. ToSet(s) = {t}
    BY <1>5, <1>6, <2>2 DEF ToSet
  <2>4. DOMAIN todo = {1}
    <3>1. \A i : i \in 1 .. 1 <=> i = 1
      OBVIOUS
    <3>2. 1 .. 1 = {1}
      BY <3>1, Zenon
    <3> QED
      BY <1>1, <2>2, <3>2
  <2>5. Left(todo) = ToSet(s)
    BY <1>3, <2>4 DEF Left
  <2> QED
    BY <2>3, <2>5
<1> QED
  BY <1>7, <1>8, <1>9, <1>10, <1>11, <1>12

LEMMA PairIs ==
    ASSUME NEW S, NEW a \in S, NEW b \in S
    PROVE  <<a, b>> \in Seq(S) /\ ToSet(<<a, b>>) = {a, b} /\ <<a, b>> # << >>
BY DEF ToSet

LEMMA EachIs ==
    ASSUME NEW do \in {"merge", "snippet", "permit", "strip"}, NEW fs \in Seq(Files), fs # << >>
    PROVE  /\ Each(do, fs) \in Seq(Tasks) /\ Each(do, fs) # << >> /\ Len(Each(do, fs)) = Len(fs)
           /\ ToSet(Each(do, fs)) = {Task(do, f, FALSE) : f \in ToSet(fs)}
<1>1. PICK n \in Nat : n = Len(fs) /\ DOMAIN fs = 1 .. n /\ \A i \in 1 .. n : fs[i] \in Files
  OBVIOUS
<1>2. PICK e : e = Each(do, fs)
  OBVIOUS
<1>3. e = [i \in 1 .. n |-> Task(do, fs[i], FALSE)]
  BY <1>1, <1>2 DEF Each
<1>4. \A i \in 1 .. n : Task(do, fs[i], FALSE) \in Tasks
  BY <1>1 DEF Task, Tasks
<1>5. e \in [1 .. n -> Tasks]
  BY <1>3, <1>4
<1>6. e \in Seq(Tasks) /\ DOMAIN e = 1 .. n /\ Len(e) = n
  BY <1>5
<1>7. ToSet(e) = {Task(do, f, FALSE) : f \in ToSet(fs)}
  BY <1>1, <1>3, <1>6 DEF ToSet
<1>8. e # << >>
  BY <1>1, <1>6
<1> QED
  BY <1>1, <1>2, <1>6, <1>7, <1>8

LEMMA GitTasksIs ==
    ASSUME NEW do \in {"merge", "snippet", "permit", "strip"}
    PROVE  /\ GitTasks(do) \in Seq(Tasks) /\ GitTasks(do) # << >> /\ Len(GitTasks(do)) = 1
           /\ ToSet(GitTasks(do)) = {Task(do, PostCheckout, FALSE)}
<1>1. PICK fs : fs = <<PostCheckout>>
  OBVIOUS
<1>2. fs \in Seq(Files) /\ fs # << >> /\ Len(fs) = 1 /\ ToSet(fs) = {PostCheckout}
  BY <1>1, Names, FewIs
<1>3. GitTasks(do) = Each(do, fs)
  BY <1>1 DEF GitTasks
<1>4. /\ Each(do, fs) \in Seq(Tasks) /\ Each(do, fs) # << >> /\ Len(Each(do, fs)) = 1
      /\ ToSet(Each(do, fs)) = {Task(do, f, FALSE) : f \in ToSet(fs)}
  BY <1>2, EachIs
<1>5. {Task(do, f, FALSE) : f \in ToSet(fs)} = {Task(do, PostCheckout, FALSE)}
  BY <1>2
<1> QED
  BY <1>3, <1>4, <1>5

LEMMA UnwireIs ==
    ASSUME NEW c \in Clients
    PROVE  /\ Unwire(c) \in Seq(Tasks) /\ Unwire(c) # << >>
           /\ ToSet(Unwire(c)) = {Task("strip", f, FALSE) : f \in Wiring(c) \cup {Md[c]}}
<1>1. /\ Mcp(c) \in Files /\ HookFile(c) \in Files /\ Local \in Files /\ Md[c] \in Files
  BY Names
<1>2. PICK a, b, d : a = <<Mcp(c), HookFile(c)>> /\ d = <<Md[c]>>
                     /\ b = (IF c = Claude THEN <<Local>> ELSE << >>)
  OBVIOUS
<1>3. /\ a \in Seq(Files) /\ ToSet(a) = {Mcp(c), HookFile(c)} /\ d \in Seq(Files)
      /\ ToSet(d) = {Md[c]} /\ b \in Seq(Files) /\ ToSet(b) = (IF c = Claude THEN {Local} ELSE {})
  BY <1>1, <1>2, FewIs, PairIs
<1>4. PICK ab : ab = a \o b
  OBVIOUS
<1>5. ab \in Seq(Files) /\ ToSet(ab) = ToSet(a) \cup ToSet(b)
  BY <1>3, <1>4, ConcatIs
<1>6. PICK fs : fs = ab \o d
  OBVIOUS
<1>7. fs \in Seq(Files) /\ ToSet(fs) = Wiring(c) \cup {Md[c]}
  <2>1. ab \o d \in Seq(Files) /\ ToSet(ab \o d) = ToSet(ab) \cup ToSet(d)
    BY <1>3, <1>5, ConcatIs
  <2> QED
    BY <1>3, <1>5, <1>6, <2>1 DEF Wiring
<1>8. fs # << >>
  BY <1>7, NoneIs
<1>9. Unwire(c) = Each("strip", fs)
  BY <1>2, <1>4, <1>6 DEF Unwire
<1> QED
  BY <1>7, <1>8, <1>9, EachIs

LEMMA WireIs ==
    ASSUME NEW c \in Clients, NEW force \in BOOLEAN
    PROVE  /\ Wire(c, force) \in Seq(Tasks) /\ Wire(c, force) # << >>
           /\ ToSet(Wire(c, force)) =
                {Task("merge", Mcp(c), FALSE), Task("merge", HookFile(c), FALSE),
                 Task("snippet", Md[c], force)}
                \cup (IF c = Claude THEN {Task("permit", Local, FALSE)} ELSE {})
<1>1. /\ Mcp(c) \in Files /\ HookFile(c) \in Files /\ Local \in Files /\ Md[c] \in Files
  BY Names
<1>2. PICK p, q, r, s : /\ p = Task("merge", Mcp(c), FALSE) /\ q = Task("permit", Local, FALSE)
                        /\ r = Task("merge", HookFile(c), FALSE) /\ s = Task("snippet", Md[c], force)
  OBVIOUS
<1>3. p \in Tasks /\ q \in Tasks /\ r \in Tasks /\ s \in Tasks
  BY <1>1, <1>2 DEF Task, Tasks
<1>4. PICK a, b, d : a = <<p>> /\ d = <<r, s>> /\ b = (IF c = Claude THEN <<q>> ELSE << >>)
  OBVIOUS
<1>5. /\ a \in Seq(Tasks) /\ ToSet(a) = {p} /\ d \in Seq(Tasks)
      /\ ToSet(d) = {r, s} /\ b \in Seq(Tasks) /\ ToSet(b) = (IF c = Claude THEN {q} ELSE {})
  BY <1>3, <1>4, FewIs, PairIs
<1>6. PICK ab : ab = a \o b
  OBVIOUS
<1>7. ab \in Seq(Tasks) /\ ToSet(ab) = ToSet(a) \cup ToSet(b)
  <2>1. a \o b \in Seq(Tasks) /\ ToSet(a \o b) = ToSet(a) \cup ToSet(b)
    BY <1>5, ConcatIs
  <2> QED
    BY <1>6, <2>1
<1>8. PICK w : w = ab \o d
  OBVIOUS
<1>9. w \in Seq(Tasks) /\ ToSet(w) = {p, r, s} \cup (IF c = Claude THEN {q} ELSE {})
  <2>1. ab \o d \in Seq(Tasks) /\ ToSet(ab \o d) = ToSet(ab) \cup ToSet(d)
    BY <1>5, <1>7, ConcatIs
  <2> QED
    BY <1>5, <1>7, <1>8, <2>1
<1>10. w # << >>
  BY <1>9, NoneIs
<1>11. Wire(c, force) = w
  BY <1>2, <1>4, <1>6, <1>8 DEF Wire
<1> QED
  BY <1>2, <1>9, <1>10, <1>11

LEMMA InstallPlan ==
    ASSUME NEW c \in Clients, NEW force \in BOOLEAN, NEW do \in {"merge", "strip"}
    PROVE  /\ Planned({c}, <<Wire(c, force), GitTasks(do)>>, "installed")
           /\ Covers(<<Wire(c, force), GitTasks(do)>>, c)
           /\ Planned({c}, <<Wire(c, force)>>, "installed") /\ Covers(<<Wire(c, force)>>, c)
<1>1. PICK w, g : w = Wire(c, force) /\ g = GitTasks(do)
  OBVIOUS
<1>2. /\ w \in Seq(Tasks) /\ w # << >> /\ g \in Seq(Tasks) /\ g # << >>
      /\ ToSet(g) = {Task(do, PostCheckout, FALSE)}
      /\ ToSet(w) = {Task("merge", Mcp(c), FALSE), Task("merge", HookFile(c), FALSE),
                     Task("snippet", Md[c], force)}
                    \cup (IF c = Claude THEN {Task("permit", Local, FALSE)} ELSE {})
  BY <1>1, WireIs, GitTasksIs
<1>4. ASSUME NEW t \in ToSet(w)
      PROVE  /\ Kind(t) /\ t.on \in Wiring(c) \cup {Md[c]} /\ t.do # "strip"
  <2>1. CASE t = Task("merge", Mcp(c), FALSE)
    BY <2>1, Names DEF Kind, Task
  <2>2. CASE t = Task("merge", HookFile(c), FALSE)
    BY <2>2, Names DEF Kind, Task
  <2>3. CASE t = Task("snippet", Md[c], force)
    BY <2>3, Names DEF Kind, Task
  <2>4. CASE c = Claude /\ t = Task("permit", Local, FALSE)
    BY <2>4, Names DEF Kind, Wiring, Task
  <2> QED
    BY <1>2, <2>1, <2>2, <2>3, <2>4
<1>5. ASSUME NEW t \in ToSet(g)
      PROVE  Kind(t) /\ t.on = PostCheckout
  BY <1>2, Names DEF Kind, Task
<1>6. ASSUME NEW f \in Wiring(c) \cup {Md[c]} PROVE \E t \in ToSet(w) : t.on = f
  <2>1. \A d, k : Task(d, f, k).on = f
    BY DEF Task
  <2>2. CASE f \in {Mcp(c), HookFile(c)}
    BY <1>2, <2>1, <2>2, Zenon
  <2>3. CASE f = Md[c]
    BY <1>2, <2>1, <2>3, Zenon
  <2>4. CASE c = Claude /\ f = Local
    BY <1>2, <2>1, <2>4, Zenon
  <2> QED
    BY <2>2, <2>3, <2>4 DEF Wiring
<1>7. PICK u, v : u = <<w, g>> /\ v = <<w>>
  OBVIOUS
<1>8. /\ u \in Seq(Seq(Tasks)) /\ DOMAIN u = {1, 2} /\ u[1] = w /\ u[2] = g
      /\ v \in Seq(Seq(Tasks)) /\ DOMAIN v = {1} /\ v[1] = w
  <2>1. u \in Seq(Seq(Tasks)) /\ v \in Seq(Seq(Tasks))
    BY <1>2, <1>7, FewIs, PairIs
  <2> QED
    BY <1>7, <2>1
<1>9. Left(u) = ToSet(w) \cup ToSet(g) /\ Left(v) = ToSet(w)
  BY <1>8 DEF Left
<1>10. Planned({c}, u, "installed") /\ Planned({c}, v, "installed")
  BY <1>2, <1>4, <1>5, <1>8, <1>9 DEF Planned
<1>11. Covers(u, c) /\ Covers(v, c)
  BY <1>6, <1>9 DEF Covers
<1> QED
  BY <1>1, <1>7, <1>10, <1>11

LEMMA SetToSeqIs ==
    ASSUME NEW S, IsFiniteSet(S)
    PROVE  SetToSeq(S) \in Seq(S) /\ ToSet(SetToSeq(S)) = S
<1>1. PICK n \in Nat : n = Cardinality(S) /\ ExistsBijection(1 .. n, S)
  BY FS_CardinalityType
<1>2. PICK f \in [1 .. n -> S] : IsInjective(f)
  BY <1>1 DEF ExistsBijection, Bijection, Injection
<1>3. PICK s : s = SetToSeq(S)
  OBVIOUS
<1>4. s \in [1 .. n -> S] /\ IsInjective(s)
  BY <1>1, <1>2, <1>3 DEF SetToSeq
<1>5. s \in Injection(1 .. n, S) /\ IsFiniteSet(1 .. n) /\ Cardinality(1 .. n) = n
  BY <1>4, FS_Interval DEF Injection
<1>6. s \in Surjection(1 .. n, S)
  BY <1>1, <1>5, FS_Injection
<1>7. s \in Seq(S) /\ DOMAIN s = 1 .. n
  BY <1>4
<1>8. ToSet(s) = S
  BY <1>4, <1>6, <1>7 DEF Surjection, ToSet
<1> QED
  BY <1>3, <1>7, <1>8

LEMMA UninstallPlan ==
    ASSUME NEW cs \in SUBSET Clients, NEW last \in BOOLEAN
    PROVE  LET order == SetToSeq(cs)
               todo == [i \in DOMAIN order |-> Unwire(order[i])]
                       \o (IF last THEN <<GitTasks("strip")>> ELSE << >>)
           IN /\ Planned(cs, todo, "removed") /\ \A c \in cs : Covers(todo, c)
              /\ (\E t \in Left(todo) : t.on = PostCheckout) => last
<1>1. PICK order : order = SetToSeq(cs)
  OBVIOUS
<1>2. order \in Seq(cs) /\ ToSet(order) = cs
  BY <1>1, SetToSeqIs, FS_Subset, SetupAssumption
<1>3. PICK n \in Nat : n = Len(order) /\ DOMAIN order = 1 .. n
  BY <1>2
<1>4. \A i \in 1 .. n : order[i] \in cs
  BY <1>2, <1>3
<1>5. PICK a, g : a = [i \in DOMAIN order |-> Unwire(order[i])] /\ g = GitTasks("strip")
  OBVIOUS
<1>6. a \in [1 .. n -> Seq(Tasks)]
  BY <1>3, <1>4, <1>5, UnwireIs
<1>7. a \in Seq(Seq(Tasks)) /\ Len(a) = n /\ DOMAIN a = 1 .. n
  BY <1>6
<1>8. PICK b : b = IF last THEN <<g>> ELSE << >>
  OBVIOUS
<1>9. PICK k \in Nat : k = IF last THEN 1 ELSE 0
  OBVIOUS
<1>10. /\ g \in Seq(Tasks) /\ g # << >> /\ Len(g) = 1 /\ ToSet(g) = {Task("strip", PostCheckout, FALSE)}
  BY <1>5, GitTasksIs
<1>11. b \in Seq(Seq(Tasks)) /\ Len(b) = k /\ \A i \in 1 .. k : last /\ b[i] = g
  <2>1. b \in Seq(Seq(Tasks))
    BY <1>8, <1>10, FewIs
  <2> QED
    BY <1>8, <1>9, <2>1
<1>12. PICK todo : todo = a \o b
  OBVIOUS
<1>13. /\ todo \in Seq(Seq(Tasks)) /\ Len(todo) = n + k /\ DOMAIN todo = 1 .. n + k
       /\ \A i \in 1 .. n + k : todo[i] = IF i <= n THEN a[i] ELSE b[i - n]
  <2>1. /\ a \o b \in Seq(Seq(Tasks)) /\ Len(a \o b) = Len(a) + Len(b)
        /\ \A i \in 1 .. Len(a) + Len(b) : (a \o b)[i] = IF i <= Len(a) THEN a[i] ELSE b[i - Len(a)]
    BY <1>7, <1>11, ConcatProperties, ZenonT(30)
  <2>2. DOMAIN todo = 1 .. Len(todo)
    BY <1>12, <2>1
  <2> QED
    BY <1>7, <1>11, <1>12, <2>1, <2>2
<1>14. ASSUME NEW i \in 1 .. n
       PROVE  /\ todo[i] = Unwire(order[i]) /\ order[i] \in cs /\ i \in DOMAIN todo
              /\ todo[i] # << >>
              /\ ToSet(todo[i]) = {Task("strip", f, FALSE) : f \in Wiring(order[i]) \cup {Md[order[i]]}}
  <2>1. todo[i] = Unwire(order[i]) /\ i \in DOMAIN todo
    BY <1>3, <1>5, <1>13
  <2> QED
    BY <1>4, <2>1, UnwireIs
<1>15. ASSUME NEW i \in 1 .. n + k, ~(i <= n) PROVE todo[i] = g /\ last /\ i = n + k
  <2>1. i - n \in 1 .. k /\ i = n + k
    BY <1>9, <1>15
  <2> QED
    BY <1>11, <1>13, <1>15, <2>1
<1>17. ASSUME NEW i \in 1 .. n + k, NEW t \in ToSet(todo[i])
       PROVE  /\ t.do = "strip" /\ ~t.force
              /\ i <= n => t.on # PostCheckout /\ \E c \in cs : t.on \in Wiring(c) \cup {Md[c]}
              /\ ~(i <= n) => t.on = PostCheckout
  <2>1. CASE i <= n
    <3>1. i \in 1 .. n
      BY <2>1
    <3>2. PICK f \in Wiring(order[i]) \cup {Md[order[i]]} : t = Task("strip", f, FALSE)
      BY <1>14, <1>17, <3>1
    <3>3. order[i] \in cs /\ f # PostCheckout
      BY <1>4, <3>1, <3>2, Names
    <3> QED
      BY <2>1, <3>2, <3>3 DEF Task
  <2>2. CASE ~(i <= n)
    BY <1>10, <1>15, <1>17, <2>2 DEF Task
  <2> QED
    BY <2>1, <2>2
<1>18. ASSUME NEW t \in Left(todo)
       PROVE  /\ t.do = "strip" /\ Kind(t)
              /\ t.on # PostCheckout => \E c \in cs : t.on \in Wiring(c) \cup {Md[c]}
              /\ t.on = PostCheckout => last
  <2>1. PICK i \in 1 .. n + k : t \in ToSet(todo[i])
    BY <1>13 DEF Left
  <2> QED
    BY <1>15, <1>17, <2>1 DEF Kind
<1>19. GitLast(todo)
  <2> SUFFICES ASSUME NEW i \in 1 .. n + k, NEW j \in DOMAIN todo[i], todo[i][j].on = PostCheckout
               PROVE  i = Len(todo) /\ Len(todo[i]) = 1
    BY <1>13 DEF GitLast
  <2>1. todo[i][j] \in ToSet(todo[i])
    BY <1>13 DEF ToSet
  <2>2. ~(i <= n)
    BY <1>17, <2>1
  <2> QED
    BY <1>10, <1>13, <1>15, <2>2
<1>20. \A i \in DOMAIN todo : todo[i] # << >>
  <2>1. ASSUME NEW i \in 1 .. n + k PROVE todo[i] # << >>
    <3>1. CASE i <= n
      <4>1. i \in 1 .. n
        BY <3>1
      <4> QED
        BY <1>14, <4>1
    <3>2. CASE ~(i <= n)
      BY <1>10, <1>15, <3>2
    <3> QED
      BY <3>1, <3>2
  <2> QED
    BY <1>13, <2>1
<1>21. Planned(cs, todo, "removed")
  BY <1>13, <1>18, <1>19, <1>20 DEF Planned
<1>22. ASSUME NEW c \in cs PROVE Covers(todo, c)
  <2>1. PICK i \in 1 .. n : order[i] = c
    BY <1>2, <1>3 DEF ToSet
  <2>2. ASSUME NEW f \in Wiring(c) \cup {Md[c]} PROVE \E t \in Left(todo) : t.on = f
    <3>1. Task("strip", f, FALSE) \in ToSet(todo[i])
      BY <1>14, <2>1
    <3>2. Task("strip", f, FALSE) \in Left(todo)
      BY <1>14, <3>1 DEF Left
    <3> QED
      BY <3>2 DEF Task
  <2> QED
    BY <2>2 DEF Covers
<1> QED
  BY <1>1, <1>5, <1>8, <1>12, <1>18, <1>21, <1>22

-----------------------------------------------------------------------------
(* Facts about the invariant                                               *)

\* When nothing is being written, what the user has is there.
LEMMA AllThere ==
    ASSUME KeptInv, cmd = None \/ cmd.new = None
    PROVE  \A m \in mine : Has(m[1], m[2])
BY DEF KeptInv

LEMMA Pairs == ASSUME FileInv, NEW m \in mine
               PROVE  /\ m[1] \in Files /\ m[2] \in {"user", "notes", "chapter"}
                      /\ m = <<m[1], m[2]>>
                      /\ m[2] \notin Brainkm /\ m[2] # "torn"
BY DEF FileInv, Brainkm

LEMMA Written ==
    ASSUME FileInv, NEW f \in Files, NEW y \in Seq(Entries), file' = [file EXCEPT ![f] = y]
    PROVE  /\ file' \in [Files -> Seq(Entries)] /\ file'[f] = y
           /\ \A g \in Files : g # f => file'[g] = file[g]
BY DEF FileInv

\* The files of the clients that a command is about.
LEMMA TasksOf ==
    ASSUME TodoInv, cmd # None, NEW t \in Left(cmd.todo)
    PROVE  /\ t \in Tasks /\ t.on \in Files /\ Kind(t)
           /\ cmd.of \subseteq Clients /\ cmd.result \in {"installed", "removed"}
           /\ cmd.todo \in Seq(Seq(Tasks)) /\ cmd.todo # << >>
           /\ t.on # PostCheckout => \E c \in cmd.of : t.on \in Wiring(c) \cup {Md[c]}
           /\ cmd.result = "removed" => t.do = "strip"
           /\ cmd.result = "installed" /\ t.do = "strip" => t.on = PostCheckout
<1>1. cmd \in Doings /\ Planned(cmd.of, cmd.todo, cmd.result)
  BY DEF TodoInv
<1>2. /\ cmd.of \subseteq Clients /\ cmd.result \in {"installed", "removed"}
      /\ cmd.todo \in Seq(Seq(Tasks))
  BY <1>1 DEF Doings
<1>3. PICK i \in DOMAIN cmd.todo : t \in ToSet(cmd.todo[i])
  BY DEF Left
<1>4. cmd.todo[i] \in Seq(Tasks) /\ cmd.todo # << >>
  BY <1>2, <1>3
<1>5. PICK s \in Seq(Tasks) : s = cmd.todo[i]
  BY <1>4
<1>6. t \in Tasks
  BY <1>3, <1>5 DEF ToSet
<1>7. t.on \in Files
  BY <1>6 DEF Tasks
<1> QED
  BY <1>1, <1>2, <1>4, <1>6, <1>7 DEF Planned

LEMMA NextTask ==
    ASSUME TodoInv, cmd # None, cmd.todo # << >>
    PROVE  /\ Current \in Left(cmd.todo) /\ Current \in Tasks
           /\ Planned(cmd.of, Rest(cmd.todo), cmd.result)
           /\ Left(Rest(cmd.todo)) \subseteq Left(cmd.todo)
           /\ Left(cmd.todo) \subseteq Left(Rest(cmd.todo)) \cup {Current}
           /\ cmd.result = "removed" /\ Current.on = PostCheckout => Left(cmd.todo) = {Current}
<1>1. Planned(cmd.of, cmd.todo, cmd.result)
  BY DEF TodoInv
<1> QED
  BY <1>1, RestPlanned DEF Current

LEMMA DoneIs ==
    ASSUME TodoInv, cmd # None, cmd.todo # << >>
    PROVE  /\ Done \in Doings /\ Done # None /\ Done.of = cmd.of /\ Done.result = cmd.result
           /\ Done.todo = Rest(cmd.todo) /\ Done.new = None
<1>1. Rest(cmd.todo) \in Seq(Seq(Tasks))
  BY NextTask DEF Planned
<1>2. PICK c \in Doings : c = cmd
  BY DEF TodoInv
<1>3. PICK r : r = Rest(c.todo)
  OBVIOUS
<1>4. PICK d : d = [c EXCEPT !.todo = r, !.new = None]
  OBVIOUS
<1>5. Done = d
  BY <1>2, <1>3, <1>4 DEF Done
<1>6. /\ DOMAIN c = {"of", "todo", "new", "result"}
      /\ c.of \in SUBSET Clients /\ c.result \in {"installed", "removed"}
  BY DEF Doings
<1>7. DOMAIN d = {"of", "todo", "new", "result"}
  BY <1>4, <1>6
<1>8. d.of = c.of /\ d.todo = r /\ d.new = None /\ d.result = c.result
  BY <1>4, <1>6
<1>9. d = [of |-> d.of, todo |-> d.todo, new |-> d.new, result |-> d.result]
  BY <1>4, <1>7
<1>10. d \in Doings
  BY <1>1, <1>2, <1>3, <1>6, <1>8, <1>9 DEF Doings
<1> QED
  BY <1>2, <1>3, <1>5, <1>8, <1>10, SetupAssumption

LEMMA NoCommand ==
    ASSUME cmd' = None
    PROVE  TodoInv' /\ NewInv' /\ DoneInv' /\ GitInv'
BY DEF TodoInv, NewInv, DoneInv, GitInv

LEMMA SameLooks == ASSUME HealInv, heal' = heal, mine' \subseteq mine PROVE HealInv'
BY DEF HealInv

LEMMA SameStatus == ASSUME StatusInv, UNCHANGED <<file, status, back>> PROVE StatusInv'
BY DEF StatusInv, Alone, Cleared, Has

LEMMA SameCommand ==
    ASSUME SetupInv, UNCHANGED <<file, cmd, status, mine, back, commands>>
    PROVE  FileInv' /\ TodoInv' /\ NewInv' /\ DoneInv' /\ GitInv' /\ StatusInv' /\ KeptInv'
<1>1. FileInv' /\ TodoInv'
  BY DEF SetupInv, FileInv, TodoInv
<1>2. NewInv'
  BY DEF SetupInv, NewInv, Current, Alone
<1>3. DoneInv'
  BY DEF SetupInv, DoneInv, Accomplished, Alone, Cleared, Has
<1>4. GitInv'
  BY DEF SetupInv, GitInv, Cleared
<1>5. StatusInv'
  BY SameStatus DEF SetupInv
<1>6. KeptInv'
  BY DEF SetupInv, KeptInv, Has, Current
<1> QED
  BY <1>1, <1>2, <1>3, <1>4, <1>5, <1>6

-----------------------------------------------------------------------------
(* Commands begin                                                          *)

LEMMA RunKept ==
    ASSUME SetupInv, NEW cs \in SUBSET Clients, NEW todo, NEW result \in {"installed", "removed"},
           Run(cs, todo, result), Planned(cs, todo, result), \A c \in cs : Covers(todo, c),
           result = "removed" /\ (\E t \in Left(todo) : t.on = PostCheckout) =>
               \A c \in Clients \ cs : Cleared(Mcp(c)) /\ Cleared(HookFile(c))
    PROVE  SetupInv'
<1>1. PICK k : k = [of |-> cs, todo |-> todo, new |-> None, result |-> result]
  OBVIOUS
<1>2. /\ cmd = None /\ commands < MaxCommands /\ commands' = commands + 1 /\ cmd' = k
      /\ status' = [c \in Clients |-> IF c \in cs THEN "pending" ELSE status[c]]
      /\ UNCHANGED <<file, heal, mine, back>>
  BY <1>1 DEF Run
<1>3. k.of = cs /\ k.todo = todo /\ k.new = None /\ k.result = result /\ k \in Doings
  BY <1>1 DEF Planned, Doings
<1>4. FileInv'
  <2>1. status' \in [Clients -> {"never", "pending", "installed", "removed"}]
    BY <1>2 DEF SetupInv, FileInv
  <2>2. commands' \in 0 .. MaxCommands
    BY <1>2, SetupAssumption DEF SetupInv, FileInv
  <2> QED
    BY <1>2, <2>1, <2>2 DEF SetupInv, FileInv
<1>5. HealInv'
  BY <1>2, SameLooks DEF SetupInv
<1>6. TodoInv'
  BY <1>2, <1>3 DEF TodoInv
<1>7. NewInv'
  BY <1>2, <1>3 DEF NewInv
<1>8. DoneInv'
  BY <1>2, <1>3 DEF DoneInv, Covers
<1>9. GitInv'
  <2>1. \A f : Cleared(f)' <=> Cleared(f)
    BY <1>2 DEF Cleared
  <2> QED
    BY <1>2, <1>3, <2>1 DEF GitInv
<1>10. StatusInv'
  <2>1. \A c \in Clients : status'[c] # "pending" => status'[c] = status[c]
    BY <1>2
  <2>2. \A c \in Clients : /\ status[c] # "installed" => status'[c] # "installed"
                           /\ status[c] # "removed" => status'[c] # "removed"
    BY <1>2
  <2>3. \A f : /\ Has(f, "ours")' <=> Has(f, "ours")
               /\ Alone(f)' <=> Alone(f) /\ (Cleared(f)' <=> Cleared(f))
    BY <1>2 DEF Cleared, Alone, Has
  <2>4. \A c \in Clients : \A f \in Wiring(c) :
            (status'[c] = "installed" => Alone(f)') /\ (status'[c] = "removed" => Cleared(f)')
    <3>1. ASSUME NEW c \in Clients, NEW f \in Wiring(c)
          PROVE  /\ status'[c] = "installed" => Alone(f)'
                 /\ status'[c] = "removed" => Cleared(f)'
      <4>1. /\ status[c] = "installed" => Alone(f)
            /\ status[c] = "removed" => Cleared(f)
        BY DEF SetupInv, StatusInv
      <4>2. (Alone(f)' <=> Alone(f)) /\ (Cleared(f)' <=> Cleared(f))
        BY <1>2 DEF Alone, Cleared
      <4>3. status'[c] # "pending" => status'[c] = status[c]
        BY <2>1
      <4> QED
        BY <4>1, <4>2, <4>3
    <3> QED
      BY <3>1
  <2>5. \A f \in Guides :
            /\ Has(f, "ours")' \/ \E c \in Clients : Md[c] = f /\ status'[c] # "installed"
            /\ ~Has(f, "ours")' \/ \E c \in Clients : Md[c] = f /\ status'[c] # "removed"
    BY <2>2, <2>3 DEF SetupInv, StatusInv
  <2> QED
    BY <2>4, <2>5 DEF StatusInv
<1>11. KeptInv'
  BY <1>2, AllThere DEF SetupInv, KeptInv, Has
<1> QED
  BY <1>4, <1>5, <1>6, <1>7, <1>8, <1>9, <1>10, <1>11 DEF SetupInv

LEMMA InstallKept ==
    ASSUME SetupInv, NEW c \in Clients, NEW force \in BOOLEAN, NEW trace \in BOOLEAN,
           Install(c, force, trace)
    PROVE  SetupInv'
<1>1. PICK do \in {"merge", "strip"} : do = IF trace THEN "merge" ELSE "strip"
  OBVIOUS
<1>2. Run({c}, <<Wire(c, force), GitTasks(do)>>, "installed")
  BY <1>1 DEF Install
<1>3. PICK todo : todo = <<Wire(c, force), GitTasks(do)>>
  OBVIOUS
<1>4. Planned({c}, todo, "installed") /\ Covers(todo, c) /\ Run({c}, todo, "installed")
  BY <1>2, <1>3, InstallPlan
<1> QED
  BY <1>4, RunKept

LEMMA ConnectKept ==
    ASSUME SetupInv, NEW c \in Clients, Connect(c)
    PROVE  SetupInv'
<1>1. PICK todo : todo = <<Wire(c, FALSE)>>
  OBVIOUS
<1>2. Planned({c}, todo, "installed") /\ Covers(todo, c)
  BY <1>1, InstallPlan
<1>3. Run({c}, todo, "installed")
  BY <1>1 DEF Connect
<1> QED
  BY <1>2, <1>3, RunKept

LEMMA UninstallKept ==
    ASSUME SetupInv, NEW cs \in SUBSET Clients, Uninstall(cs)
    PROVE  SetupInv'
<1>1. PICK order : order = SetToSeq(cs)
  OBVIOUS
<1>2. PICK last \in BOOLEAN : last <=> LastOneOut(cs)
  BY DEF LastOneOut
<1>3. PICK todo : todo = [i \in DOMAIN order |-> Unwire(order[i])]
                         \o (IF last THEN <<GitTasks("strip")>> ELSE << >>)
  OBVIOUS
<1>4. /\ Planned(cs, todo, "removed") /\ \A c \in cs : Covers(todo, c)
      /\ (\E t \in Left(todo) : t.on = PostCheckout) => last
  BY <1>1, <1>3, UninstallPlan
<1>5. Run(cs, todo, "removed")
  BY <1>1, <1>2, <1>3 DEF Uninstall
<1>6. ASSUME last, NEW c \in Clients \ cs PROVE Cleared(Mcp(c)) /\ Cleared(HookFile(c))
  <2>1. file[Mcp(c)] = << >> /\ file[HookFile(c)] = << >>
    BY <1>2, <1>6 DEF LastOneOut, Wired
  <2> QED
    BY <2>1, FewIs DEF Cleared
<1> QED
  BY <1>4, <1>5, <1>6, RunKept

-----------------------------------------------------------------------------
(* What a task changes                                                     *)

\* What a task comes to is what its command is for.
LEMMA EffectDoes ==
    ASSUME NEW t \in Tasks, Kind(t), t.on # PostCheckout, NEW result \in {"installed", "removed"},
           result = "removed" => t.do = "strip",
           result = "installed" /\ t.do = "strip" => t.on = PostCheckout,
           NEW x, Effected(t, x)
    PROVE  IF t.on \in Guides THEN "ours" \in ToSet(x) <=> result = "installed"
           ELSE IF result = "installed" THEN ToSet(x) \cap Replaced = {"ours"}
           ELSE ToSet(x) \cap Brainkm = {}
<1>1. t.do \in {"merge", "snippet", "permit", "strip"} /\ "ours" \in Brainkm
  BY DEF Tasks, Brainkm, Replaced
<1>2. CASE result = "removed"
  BY <1>1, <1>2 DEF Effected
<1>3. CASE result = "installed"
  <2>1. t.do \in {"merge", "snippet", "permit"}
    BY <1>1, <1>3
  <2>2. t.do = "snippet" => t.on \in Guides /\ "ours" \in ToSet(x)
    BY DEF Kind, Effected
  <2>3. t.do # "snippet" => ToSet(x) \cap Replaced = {"ours"}
    BY <2>1 DEF Effected
  <2> QED
    BY <1>3, <2>2, <2>3
<1> QED
  BY <1>2, <1>3

LEMMA Whose ==
    ASSUME SetupInv, cmd # None, NEW t \in Left(cmd.todo)
    PROVE  /\ \A c \in Clients : t.on \in Wiring(c) => c \in cmd.of /\ status[c] = "pending"
           /\ t.on \in Guides => \E c \in cmd.of : c \in Clients /\ Md[c] = t.on /\ status[c] = "pending"
<1>1. /\ cmd.of \subseteq Clients
      /\ t.on # PostCheckout => \E c \in cmd.of : t.on \in Wiring(c) \cup {Md[c]}
  BY TasksOf DEF SetupInv
<1>2. \A c \in cmd.of : status[c] = "pending"
  BY DEF SetupInv, DoneInv
<1>3. ASSUME NEW c \in Clients, t.on \in Wiring(c) PROVE c \in cmd.of
  <2>1. t.on \in Json /\ t.on # PostCheckout /\ t.on \notin Guides
    BY <1>3, Names
  <2>2. PICK d \in cmd.of : t.on \in Wiring(d) \cup {Md[d]}
    BY <1>1, <2>1
  <2>3. t.on \in Wiring(d) /\ d \in Clients
    BY <1>1, <2>1, <2>2, Names
  <2>4. Wiring(c) \cap Wiring(d) # {}
    BY <1>3, <2>3
  <2>5. c = d
    BY <2>3, <2>4, Names
  <2> QED
    BY <2>5
<1>4. ASSUME t.on \in Guides PROVE \E c \in cmd.of : c \in Clients /\ Md[c] = t.on
  <2>1. t.on # PostCheckout /\ t.on \notin Json
    BY <1>4, Names
  <2>2. PICK d \in cmd.of : t.on \in Wiring(d) \cup {Md[d]}
    BY <1>1, <2>1
  <2>3. d \in Clients /\ t.on = Md[d]
    BY <1>1, <2>1, <2>2, Names
  <2> QED
    BY <2>3
<1> QED
  BY <1>2, <1>3, <1>4

\* A write disturbs no other file.
LEMMA Elsewhere ==
    ASSUME FileInv, NEW f \in Files, NEW y, file' = [file EXCEPT ![f] = y], back \ {f} \subseteq back',
           NEW g \in Files, g # f
    PROVE  /\ file'[g] = file[g] /\ (Alone(g) => Alone(g)') /\ (Cleared(g) => Cleared(g)')
           /\ (Has(g, "ours")' <=> Has(g, "ours"))
<1>1. file'[g] = file[g] /\ (g \in back => g \in back')
  BY DEF FileInv
<1> QED
  BY <1>1 DEF Alone, Cleared, Has

\* Nor what an earlier command about another client has come to.
LEMMA StatusKept ==
    ASSUME SetupInv, cmd # None, NEW t \in Left(cmd.todo), NEW y,
           file' = [file EXCEPT ![t.on] = y], back \ {t.on} \subseteq back', status' = status
    PROVE  StatusInv'
<1>1. t.on \in Files /\ FileInv
  BY TasksOf DEF SetupInv
<1>2. ASSUME NEW c \in Clients, NEW f \in Wiring(c)
      PROVE  /\ status'[c] = "installed" => Alone(f)'
             /\ status'[c] = "removed" => Cleared(f)'
  <2>1. CASE f = t.on
    <3>1. status[c] = "pending"
      BY <2>1, Whose
    <3> QED
      BY <3>1
  <2>2. CASE f # t.on
    <3>1. f \in Files
      BY Names
    <3>2. (Alone(f) => Alone(f)') /\ (Cleared(f) => Cleared(f)')
      BY <1>1, <2>2, <3>1, Elsewhere
    <3>3. /\ status[c] = "installed" => Alone(f)
          /\ status[c] = "removed" => Cleared(f)
      BY DEF SetupInv, StatusInv
    <3> QED
      BY <3>2, <3>3
  <2> QED
    BY <2>1, <2>2
<1>3. ASSUME NEW f \in Guides
      PROVE  /\ Has(f, "ours")' \/ \E c \in Clients : Md[c] = f /\ status'[c] # "installed"
             /\ ~Has(f, "ours")' \/ \E c \in Clients : Md[c] = f /\ status'[c] # "removed"
  <2>1. CASE f = t.on
    <3>1. \E c \in Clients : Md[c] = f /\ status[c] = "pending"
      BY <2>1, Whose
    <3> QED
      BY <3>1
  <2>2. CASE f # t.on
    <3>1. f \in Files
      BY Names
    <3>2. Has(f, "ours")' <=> Has(f, "ours")
      BY <1>1, <2>2, <3>1, Elsewhere
    <3>3. /\ Has(f, "ours") \/ \E c \in Clients : Md[c] = f /\ status[c] # "installed"
          /\ ~Has(f, "ours") \/ \E c \in Clients : Md[c] = f /\ status[c] # "removed"
      BY DEF SetupInv, StatusInv
    <3> QED
      BY <3>2, <3>3
  <2> QED
    BY <2>1, <2>2
<1> QED
  BY <1>2, <1>3 DEF StatusInv

\* Nor the wiring of a client that an uninstall does not name.
LEMMA OthersCleared ==
    ASSUME SetupInv, cmd # None, NEW t \in Left(cmd.todo), NEW y,
           file' = [file EXCEPT ![t.on] = y], back \ {t.on} \subseteq back',
           NEW c \in Clients \ cmd.of, Cleared(Mcp(c)) /\ Cleared(HookFile(c))
    PROVE  Cleared(Mcp(c))' /\ Cleared(HookFile(c))'
<1>1. t.on \in Files /\ FileInv
  BY TasksOf DEF SetupInv
<1>2. t.on \notin Wiring(c)
  BY Whose
<1>3. /\ Mcp(c) \in Files /\ Mcp(c) # t.on /\ HookFile(c) \in Files /\ HookFile(c) # t.on
  BY <1>2, Names
<1>4. PICK a, b : a = Mcp(c) /\ b = HookFile(c)
  OBVIOUS
<1>5. Cleared(a)'
  BY <1>1, <1>3, <1>4, Elsewhere
<1>6. Cleared(b)'
  BY <1>1, <1>3, <1>4, Elsewhere
<1> QED
  BY <1>4, <1>5, <1>6 DEF Cleared, Mcp, HookFile

\* After a task.
LEMMA TaskKept ==
    ASSUME SetupInv, cmd # None, cmd.todo # << >>, NEW t, t = Current, NEW y,
           file' = [file EXCEPT ![t.on] = y], back \ {t.on} \subseteq back',
           status' = status, cmd' = Done,
           NEW result, result = cmd.result, t.on # PostCheckout => Accomplished(result, t.on)'
    PROVE  TodoInv' /\ NewInv' /\ DoneInv' /\ GitInv' /\ StatusInv'
<1>1. /\ t \in Left(cmd.todo) /\ Planned(cmd.of, Rest(cmd.todo), cmd.result)
      /\ Left(Rest(cmd.todo)) \subseteq Left(cmd.todo)
      /\ Left(cmd.todo) \subseteq Left(Rest(cmd.todo)) \cup {t}
  BY NextTask DEF SetupInv
<1>2. /\ cmd' \in Doings /\ cmd' # None /\ cmd'.of = cmd.of /\ cmd'.result = cmd.result
      /\ cmd'.todo = Rest(cmd.todo) /\ cmd'.new = None
  BY DoneIs DEF SetupInv
<1>3. FileInv /\ t.on \in Files /\ cmd.of \subseteq Clients
  BY <1>1, TasksOf DEF SetupInv
<1>4. TodoInv' /\ NewInv'
  BY <1>1, <1>2 DEF TodoInv, NewInv
<1>5. DoneInv'
  <2>1. ASSUME NEW c \in cmd.of, NEW f \in Wiring(c) \cup {Md[c]}, \A u \in Left(Rest(cmd.todo)) : u.on # f
        PROVE  Accomplished(result, f)'
    <3>1. f \in Files /\ f # PostCheckout
      BY <1>3, Names
    <3>2. CASE f = t.on
      BY <3>1, <3>2
    <3>3. CASE f # t.on
      <4>1. Accomplished(result, f)
        BY <1>1, <2>1, <3>3 DEF SetupInv, DoneInv
      <4>2. /\ (Alone(f) => Alone(f)') /\ (Cleared(f) => Cleared(f)')
            /\ (Has(f, "ours")' <=> Has(f, "ours"))
        BY <1>3, <3>1, <3>3, Elsewhere
      <4> QED
        BY <4>1, <4>2 DEF Accomplished
    <3> QED
      BY <3>2, <3>3
  <2>2. \A c \in cmd.of : status'[c] = "pending"
    BY DEF SetupInv, DoneInv
  <2>3. ASSUME NEW c \in cmd'.of, NEW f \in Wiring(c) \cup {Md[c]}
        PROVE  (\E u \in Left(cmd'.todo) : u.on = f) \/ Accomplished(cmd.result, f)'
    <3>1. (\E u \in Left(Rest(cmd.todo)) : u.on = f) \/ Accomplished(result, f)'
      BY <1>2, <2>1
    <3>2. Accomplished(result, f)' => Accomplished(cmd.result, f)'
      BY <1>2 DEF Accomplished
    <3> QED
      BY <1>2, <3>1, <3>2
  <2>4. \A c \in cmd'.of : status'[c] = "pending"
    BY <1>2, <2>2
  <2> QED
    BY <2>3, <2>4 DEF DoneInv
<1>6. GitInv'
  <2> SUFFICES ASSUME cmd'.result = "removed", \E u \in Left(cmd'.todo) : u.on = PostCheckout,
                      NEW c \in Clients \ cmd'.of
               PROVE  Cleared(Mcp(c))' /\ Cleared(HookFile(c))'
    BY DEF GitInv
  <2>1. Cleared(Mcp(c)) /\ Cleared(HookFile(c)) /\ c \in Clients \ cmd.of
    BY <1>1, <1>2 DEF SetupInv, GitInv
  <2> QED
    BY <1>1, <2>1, OthersCleared
<1>7. StatusInv'
  BY <1>1, StatusKept
<1> QED
  BY <1>4, <1>5, <1>6, <1>7

-----------------------------------------------------------------------------
(* Commands go on and end                                                  *)

LEMMA RefuseKept == ASSUME SetupInv, Refuse PROVE SetupInv'
<1>1. cmd.new = None /\ cmd' = None /\ UNCHANGED <<file, heal, status, mine, back, commands>>
  BY DEF Refuse, Going
<1>2. FileInv'
  BY <1>1 DEF SetupInv, FileInv
<1>3. KeptInv'
  BY <1>1, AllThere DEF SetupInv, KeptInv, Has
<1> QED
  BY <1>1, <1>2, <1>3, NoCommand, SameLooks, SameStatus DEF SetupInv

\* A file that is cut off has nothing of brainkm's or of the user's.
LEMMA TornHas ==
    ASSUME FileInv, NEW f \in Files, "torn" \in ToSet(file[f]) \/ file[f] = Torn(f)
    PROVE  ToSet(file[f]) \subseteq {"torn"} /\ ToSet(file[f]) \cap Brainkm = {}
<1>1. Fine(f, file[f]) /\ ToSet(<<"torn">>) = {"torn"} /\ "torn" \notin Brainkm
  BY FewIs DEF FileInv, Brainkm, Replaced
<1>2. "torn" \in ToSet(file[f]) => ToSet(file[f]) = {"torn"}
  BY <1>1 DEF Fine
<1> QED
  BY <1>1, <1>2, TornIs

LEMMA SkipKept == ASSUME SetupInv, Skip PROVE SetupInv'
<1>1. /\ cmd # None /\ cmd.todo # << >> /\ cmd.new = None /\ Idle(Current) /\ cmd' = Done
      /\ UNCHANGED <<file, heal, status, mine, back, commands>>
  BY DEF Skip, Going
<1>2. PICK t : t = Current
  OBVIOUS
<1>3. PICK f, x : f = t.on /\ x = file[f]
  OBVIOUS
<1>4. /\ t \in Left(cmd.todo) /\ t \in Tasks /\ f \in Files /\ Kind(t)
      /\ cmd.result = "removed" => t.do = "strip"
      /\ cmd.result = "installed" /\ t.do = "strip" => f = PostCheckout
      /\ cmd.result \in {"installed", "removed"}
  BY <1>1, <1>2, <1>3, NextTask, TasksOf DEF SetupInv
<1>5. file' = [file EXCEPT ![f] = x]
  BY <1>1, <1>3 DEF SetupInv, FileInv
<1>6. Fine(f, x)
  BY <1>3, <1>4 DEF SetupInv, FileInv
<1>7. Effected(t, x)
  <2>1. CASE t.do = "strip" /\ ToSet(x) \cap Brainkm = {}
    BY <2>1 DEF Effected
  <2>2. CASE t.do = "snippet" /\ Edited(t, x) = x /\ ~t.force
    BY <1>3, <1>4, <1>6, <2>2, EditedIs DEF Effected
  <2> QED
    BY <1>1, <1>2, <1>3, <2>1, <2>2 DEF Idle
<1>8. PICK result \in {"installed", "removed"} : result = cmd.result
  BY <1>4
<1>9. f # PostCheckout => Accomplished(result, f)'
  <2> SUFFICES ASSUME f # PostCheckout PROVE Accomplished(result, f)'
    OBVIOUS
  <2>1. IF f \in Guides THEN "ours" \in ToSet(x) <=> result = "installed"
        ELSE IF result = "installed" THEN ToSet(x) \cap Replaced = {"ours"}
        ELSE ToSet(x) \cap Brainkm = {}
    BY <1>3, <1>4, <1>7, <1>8, EffectDoes
  <2> QED
    BY <1>1, <1>3, <2>1 DEF Accomplished, Has, Alone, Cleared
<1>10. TodoInv' /\ NewInv' /\ DoneInv' /\ GitInv' /\ StatusInv'
  BY <1>1, <1>2, <1>3, <1>5, <1>8, <1>9, TaskKept
<1>11. FileInv'
  BY <1>1 DEF SetupInv, FileInv
<1>12. HealInv'
  BY <1>1, SameLooks DEF SetupInv
<1>13. KeptInv'
  BY <1>1, AllThere DEF SetupInv, KeptInv, Has
<1> QED
  BY <1>10, <1>11, <1>12, <1>13 DEF SetupInv

\* What is common to EditAtOnce and Truncate.
LEMMA EditIs ==
    ASSUME SetupInv, Going, ~Idle(Current), NEW t, t = Current, NEW f, f = t.on, NEW new,
           new = Edited(t, file[f])
    PROVE  /\ t \in Left(cmd.todo) /\ t \in Tasks /\ f \in Files /\ Kind(t)
           /\ cmd # None /\ cmd.todo # << >> /\ cmd.new = None
           /\ cmd.result \in {"installed", "removed"}
           /\ cmd.result = "removed" => t.do = "strip"
           /\ cmd.result = "installed" /\ t.do = "strip" => f = PostCheckout
           /\ Fine(f, new) /\ "torn" \notin ToSet(new) /\ Effected(t, new) /\ new \in Seq(Entries)
           /\ \A m \in mine : m[1] = f => m[2] \in Costs(t, file[f]) \/ m[2] \in ToSet(new)
<1>1. cmd # None /\ cmd.todo # << >> /\ cmd.new = None
  BY DEF Going
<1>2. /\ t \in Left(cmd.todo) /\ t \in Tasks /\ f \in Files /\ Kind(t)
      /\ cmd.result = "removed" => t.do = "strip"
      /\ cmd.result = "installed" /\ t.do = "strip" => f = PostCheckout
      /\ cmd.result \in {"installed", "removed"}
  BY <1>1, NextTask, TasksOf DEF SetupInv
<1>3. Fine(f, file[f])
  BY <1>2 DEF SetupInv, FileInv
<1>4. t.do = "strip" => "torn" \notin ToSet(file[f])
  BY <1>2, TornHas DEF SetupInv, Idle
<1>5. /\ Fine(f, new) /\ "torn" \notin ToSet(new) /\ Effected(t, new)
      /\ \A e \in ToSet(file[f]) \ (Brainkm \cup {"torn"}) :
            e \in Costs(t, file[f]) \/ e \in ToSet(new)
  BY <1>2, <1>3, <1>4, EditedIs
<1>6. ASSUME NEW m \in mine, m[1] = f PROVE m[2] \in ToSet(file[f]) \ (Brainkm \cup {"torn"})
  BY <1>1, <1>6, AllThere, Pairs DEF SetupInv, Has
<1> QED
  BY <1>1, <1>2, <1>5, <1>6 DEF Fine

\* What the user has kept of a file is not what the command costs there.
LEMMA Spared ==
    ASSUME NEW f, NEW C, mine' = mine \ ({f} \X C), NEW m \in mine',
           m = <<m[1], m[2]>>, m[1] = f
    PROVE  m[2] \notin C
<1> SUFFICES ASSUME m[2] \in C PROVE FALSE
  OBVIOUS
<1>1. <<m[1], m[2]>> \in {f} \X C
  OBVIOUS
<1> QED
  BY <1>1

LEMMA EditAtOnceKept == ASSUME SetupInv, EditAtOnce PROVE SetupInv'
<1>1. PICK t : t = Current
  OBVIOUS
<1>2. PICK f, new : f = t.on /\ new = Edited(t, file[f])
  OBVIOUS
<1>3. /\ Going /\ ~Idle(Current) /\ (t.do = "permit" \/ t.do = "strip")
      /\ file' = [file EXCEPT ![f] = new] /\ cmd' = Done
      /\ back' = (IF t.do = "strip" THEN back \ {f} ELSE back)
      /\ mine' = mine \ ({f} \X Costs(t, file[f]))
      /\ UNCHANGED <<heal, status, commands>>
  BY <1>1, <1>2 DEF EditAtOnce
<1>4. /\ t \in Left(cmd.todo) /\ t \in Tasks /\ f \in Files /\ Kind(t)
      /\ cmd # None /\ cmd.todo # << >> /\ cmd.new = None
      /\ cmd.result \in {"installed", "removed"}
      /\ cmd.result = "removed" => t.do = "strip"
      /\ cmd.result = "installed" /\ t.do = "strip" => f = PostCheckout
      /\ Fine(f, new) /\ "torn" \notin ToSet(new) /\ Effected(t, new) /\ new \in Seq(Entries)
      /\ \A m \in mine : m[1] = f => m[2] \in Costs(t, file[f]) \/ m[2] \in ToSet(new)
  BY <1>1, <1>2, <1>3, EditIs
<1>5. /\ file' \in [Files -> Seq(Entries)] /\ file'[f] = new
      /\ \A g \in Files : g # f => file'[g] = file[g]
  BY <1>3, <1>4, Written DEF SetupInv
<1>6. PICK result \in {"installed", "removed"} : result = cmd.result
  BY <1>4
<1>7. f # PostCheckout => Accomplished(result, f)'
  <2> SUFFICES ASSUME f # PostCheckout PROVE Accomplished(result, f)'
    OBVIOUS
  <2>1. IF f \in Guides THEN "ours" \in ToSet(new) <=> result = "installed"
        ELSE IF result = "installed" THEN ToSet(new) \cap Replaced = {"ours"}
        ELSE ToSet(new) \cap Brainkm = {}
    BY <1>2, <1>4, <1>6, EffectDoes
  <2> QED
    BY <1>5, <2>1 DEF Accomplished, Has, Alone, Cleared
<1>8. back \ {f} \subseteq back' /\ back' \subseteq back /\ mine' \subseteq mine
  BY <1>3
<1>9. TodoInv' /\ NewInv' /\ DoneInv' /\ GitInv' /\ StatusInv'
  BY <1>1, <1>2, <1>3, <1>4, <1>6, <1>7, <1>8, TaskKept
<1>10. FileInv'
  <2>1. \A g \in Files : Fine(g, file'[g])
    BY <1>4, <1>5 DEF SetupInv, FileInv
  <2> QED
    BY <1>3, <1>5, <1>8, <2>1 DEF SetupInv, FileInv
<1>11. HealInv'
  BY <1>3, <1>8, SameLooks DEF SetupInv
<1>12. KeptInv'
  <2> SUFFICES ASSUME NEW m \in mine' PROVE m[2] \in ToSet(file'[m[1]])
    BY DEF KeptInv, Has
  <2>1. /\ m \in mine /\ m[1] \in Files /\ m = <<m[1], m[2]>> /\ m[2] \in ToSet(file[m[1]])
    BY <1>4, <1>8, Pairs, AllThere DEF SetupInv, Has
  <2>2. m[1] = f => m[2] \notin Costs(t, file[f])
    BY <1>3, <2>1, Spared
  <2> QED
    BY <1>4, <1>5, <2>1, <2>2
<1> QED
  BY <1>9, <1>10, <1>11, <1>12 DEF SetupInv

LEMMA TruncateKept == ASSUME SetupInv, Truncate PROVE SetupInv'
<1>1. PICK t : t = Current
  OBVIOUS
<1>2. PICK f, new : f = t.on /\ new = Edited(t, file[f])
  OBVIOUS
<1>3. /\ Going /\ ~Idle(Current) /\ t.do # "permit"
      /\ file' = [file EXCEPT ![f] = Torn(f)] /\ cmd' = [cmd EXCEPT !.new = new]
      /\ back' = (IF t.do = "strip" THEN back \ {f} ELSE back)
      /\ mine' = mine \ ({f} \X Costs(t, file[f]))
      /\ UNCHANGED <<heal, status, commands>>
  BY <1>1, <1>2 DEF Truncate
<1>4. /\ t \in Left(cmd.todo) /\ t \in Tasks /\ f \in Files /\ Kind(t)
      /\ cmd # None /\ cmd.todo # << >> /\ cmd.new = None
      /\ cmd.result \in {"installed", "removed"}
      /\ Fine(f, new) /\ "torn" \notin ToSet(new) /\ Effected(t, new) /\ new \in Seq(Entries)
      /\ \A m \in mine : m[1] = f => m[2] \in Costs(t, file[f]) \/ m[2] \in ToSet(new)
  BY <1>1, <1>2, <1>3, EditIs
<1>5. Fine(f, Torn(f)) /\ Torn(f) \in Seq(Entries)
  BY <1>4, TornIs DEF Fine
<1>6. /\ file' \in [Files -> Seq(Entries)] /\ file'[f] = Torn(f)
      /\ \A g \in Files : g # f => file'[g] = file[g]
  BY <1>3, <1>4, <1>5, Written DEF SetupInv
<1>7. /\ cmd' \in Doings /\ cmd' # None /\ cmd'.of = cmd.of /\ cmd'.todo = cmd.todo
      /\ cmd'.result = cmd.result /\ cmd'.new = new /\ new # None
  <2>1. PICK k \in Doings : k = cmd
    BY <1>4 DEF SetupInv, TodoInv
  <2>2. cmd' = [k EXCEPT !.new = new]
    BY <1>3, <2>1
  <2> QED
    BY <1>4, <2>1, <2>2, SetupAssumption DEF Doings
<1>8. Current' = t
  BY <1>1, <1>7 DEF Current
<1>9. back \ {f} \subseteq back' /\ back' \subseteq back /\ mine' \subseteq mine
  BY <1>3
<1>10. FileInv'
  <2>1. \A g \in Files : Fine(g, file'[g])
    BY <1>5, <1>6 DEF SetupInv, FileInv
  <2> QED
    BY <1>3, <1>6, <1>9, <2>1 DEF SetupInv, FileInv
<1>11. HealInv'
  BY <1>3, <1>9, SameLooks DEF SetupInv
<1>12. TodoInv'
  BY <1>4, <1>7 DEF SetupInv, TodoInv
<1>13. NewInv'
  BY <1>2, <1>3, <1>4, <1>6, <1>7, <1>8 DEF NewInv
<1>14. DoneInv'
  <2>1. ASSUME NEW c \in cmd.of, NEW g \in Wiring(c) \cup {Md[c]}, \A u \in Left(cmd.todo) : u.on # g
        PROVE  Accomplished(cmd.result, g)'
    <3>1. cmd.of \subseteq Clients
      BY <1>4, TasksOf DEF SetupInv
    <3>2. g \in Files /\ g # f
      BY <1>2, <1>4, <2>1, <3>1, Names
    <3>3. /\ (Alone(g) => Alone(g)') /\ (Cleared(g) => Cleared(g)')
          /\ (Has(g, "ours")' <=> Has(g, "ours"))
      BY <1>3, <1>4, <1>9, <3>2, Elsewhere DEF SetupInv
    <3>4. Accomplished(cmd.result, g)
      BY <1>4, <2>1 DEF SetupInv, DoneInv
    <3> QED
      BY <1>7, <3>3, <3>4 DEF Accomplished
  <2>2. \A c \in cmd.of : status'[c] = "pending"
    BY <1>3, <1>4 DEF SetupInv, DoneInv
  <2> QED
    BY <1>7, <2>1, <2>2 DEF DoneInv
<1>15. GitInv'
  <2> SUFFICES ASSUME cmd'.result = "removed", \E u \in Left(cmd'.todo) : u.on = PostCheckout,
                      NEW c \in Clients \ cmd'.of
               PROVE  Cleared(Mcp(c))' /\ Cleared(HookFile(c))'
    BY DEF GitInv
  <2>1. Cleared(Mcp(c)) /\ Cleared(HookFile(c)) /\ c \in Clients \ cmd.of
    BY <1>4, <1>7 DEF SetupInv, GitInv
  <2> QED
    BY <1>2, <1>3, <1>4, <1>9, <2>1, OthersCleared
<1>16. StatusInv'
  BY <1>2, <1>3, <1>4, <1>9, StatusKept
<1>17. KeptInv'
  <2> SUFFICES ASSUME NEW m \in mine', ~Has(m[1], m[2])'
               PROVE  /\ Current'.on = m[1] /\ m[2] \in ToSet(cmd'.new)
                      /\ file'[m[1]] = Torn(m[1])
    BY <1>7 DEF KeptInv
  <2>1. /\ m \in mine /\ m[1] \in Files /\ m = <<m[1], m[2]>> /\ m[2] \in ToSet(file[m[1]])
    BY <1>4, <1>9, Pairs, AllThere DEF SetupInv, Has
  <2>2. m[1] = f
    BY <1>6, <2>1 DEF Has
  <2>3. m[2] \notin Costs(t, file[f])
    BY <1>3, <2>1, <2>2, Spared
  <2>4. m[2] \in ToSet(new)
    BY <1>4, <2>1, <2>2, <2>3
  <2> QED
    BY <1>2, <1>6, <1>7, <1>8, <2>2, <2>4
<1> QED
  BY <1>10, <1>11, <1>12, <1>13, <1>14, <1>15, <1>16, <1>17 DEF SetupInv

LEMMA WriteOutKept == ASSUME SetupInv, WriteOut PROVE SetupInv'
<1>1. PICK t : t = Current
  OBVIOUS
<1>2. PICK f, new : f = t.on /\ new = cmd.new
  OBVIOUS
<1>3. PICK y : y = IF file[f] = Torn(f) THEN new ELSE file[f]
  OBVIOUS
<1>4. /\ cmd # None /\ new # None /\ cmd' = Done /\ file' = [file EXCEPT ![f] = y]
      /\ UNCHANGED <<heal, status, mine, back, commands>>
  BY <1>1, <1>2, <1>3 DEF WriteOut
<1>5. /\ cmd.todo # << >> /\ Fine(f, new) /\ "torn" \notin ToSet(new) /\ Effected(t, new)
      /\ file[f] = Torn(f) \/ (f \in Healed /\ Alone(f) /\ f \in back)
  BY <1>1, <1>2, <1>4 DEF SetupInv, NewInv
<1>6. /\ t \in Left(cmd.todo) /\ t \in Tasks /\ f \in Files /\ Kind(t)
      /\ cmd.result = "removed" => t.do = "strip"
      /\ cmd.result = "installed" /\ t.do = "strip" => f = PostCheckout
      /\ cmd.result \in {"installed", "removed"}
  BY <1>1, <1>2, <1>4, <1>5, NextTask, TasksOf DEF SetupInv
<1>7. Fine(f, y) /\ y \in Seq(Entries)
  BY <1>3, <1>5, <1>6 DEF SetupInv, FileInv, Fine
<1>8. /\ file' \in [Files -> Seq(Entries)] /\ file'[f] = y
      /\ \A g \in Files : g # f => file'[g] = file[g]
  BY <1>4, <1>6, <1>7, Written DEF SetupInv
<1>9. PICK result \in {"installed", "removed"} : result = cmd.result
  BY <1>6
<1>10. f # PostCheckout => Accomplished(result, f)'
  <2> SUFFICES ASSUME f # PostCheckout PROVE Accomplished(result, f)'
    OBVIOUS
  <2>1. CASE file[f] = Torn(f)
    <3>1. IF f \in Guides THEN "ours" \in ToSet(new) <=> result = "installed"
          ELSE IF result = "installed" THEN ToSet(new) \cap Replaced = {"ours"}
          ELSE ToSet(new) \cap Brainkm = {}
      BY <1>2, <1>5, <1>6, <1>9, EffectDoes
    <3> QED
      BY <1>3, <1>8, <2>1, <3>1 DEF Accomplished, Has, Alone, Cleared
  <2>2. CASE file[f] # Torn(f)
    <3>1. f \notin Guides
      BY <1>5, <2>2, Names DEF Healed
    <3> QED
      BY <1>3, <1>4, <1>5, <1>8, <2>2, <3>1 DEF Accomplished, Alone, Cleared
  <2> QED
    BY <2>1, <2>2
<1>11. back \ {f} \subseteq back'
  BY <1>4
<1>12. TodoInv' /\ NewInv' /\ DoneInv' /\ GitInv' /\ StatusInv'
  BY <1>1, <1>2, <1>4, <1>5, <1>9, <1>10, <1>11, TaskKept
<1>13. FileInv'
  <2>1. \A g \in Files : Fine(g, file'[g])
    BY <1>7, <1>8 DEF SetupInv, FileInv
  <2> QED
    BY <1>4, <1>8, <2>1 DEF SetupInv, FileInv
<1>14. HealInv'
  BY <1>4, SameLooks DEF SetupInv
<1>15. KeptInv'
  <2>1. ASSUME NEW m \in mine PROVE m[2] \in ToSet(file'[m[1]])
    <3>1. m[1] \in Files /\ m[2] # "torn"
      BY Pairs DEF SetupInv
    <3>2. \/ m[2] \in ToSet(file[m[1]])
          \/ f = m[1] /\ m[2] \in ToSet(new) /\ file[f] = Torn(f)
      BY <1>1, <1>2 DEF SetupInv, KeptInv, Has
    <3>3. file[f] = Torn(f) => ToSet(file[f]) \subseteq {"torn"}
      BY <1>6, TornHas DEF SetupInv
    <3> QED
      BY <1>3, <1>8, <3>1, <3>2, <3>3
  <2> QED
    BY <1>4, <2>1 DEF KeptInv, Has
<1> QED
  BY <1>12, <1>13, <1>14, <1>15 DEF SetupInv

LEMMA FinishKept == ASSUME SetupInv, Finish PROVE SetupInv'
<1>1. /\ cmd # None /\ cmd.todo = << >> /\ cmd' = None
      /\ status' = [c \in Clients |-> IF c \in cmd.of THEN cmd.result ELSE status[c]]
      /\ UNCHANGED <<file, heal, mine, back, commands>>
  BY DEF Finish
<1>2. cmd.of \subseteq Clients /\ cmd.result \in {"installed", "removed"} /\ cmd.new = None
  BY <1>1 DEF SetupInv, TodoInv, NewInv, Doings
<1>3. Left(cmd.todo) = {}
  BY <1>1 DEF Left
<1>4. ASSUME NEW c \in cmd.of, NEW f \in Wiring(c) \cup {Md[c]} PROVE Accomplished(cmd.result, f)
  BY <1>1, <1>3 DEF SetupInv, DoneInv
<1>5. status' \in [Clients -> {"never", "pending", "installed", "removed"}]
  BY <1>1, <1>2 DEF SetupInv, FileInv
<1>6. FileInv'
  BY <1>1, <1>5 DEF SetupInv, FileInv
<1>7. \A f : (Alone(f)' <=> Alone(f)) /\ (Cleared(f)' <=> Cleared(f))
  BY <1>1 DEF Alone, Cleared
<1>8. ASSUME NEW c \in Clients, NEW f \in Wiring(c)
      PROVE  /\ status'[c] = "installed" => Alone(f)'
             /\ status'[c] = "removed" => Cleared(f)'
  <2>1. Alone(f) => Alone(f)'
    BY <1>1 DEF Alone
  <2>2. Cleared(f) => Cleared(f)'
    BY <1>1 DEF Cleared
  <2>3. CASE c \in cmd.of
    <3>1. f \notin Guides /\ Accomplished(cmd.result, f) /\ status'[c] = cmd.result
      BY <1>1, <1>4, <2>3, Names
    <3> QED
      BY <1>2, <2>1, <2>2, <3>1 DEF Accomplished
  <2>4. CASE c \notin cmd.of
    <3>1. /\ status[c] = "installed" => Alone(f)
          /\ status[c] = "removed" => Cleared(f)
      BY DEF SetupInv, StatusInv
    <3>2. status'[c] = status[c]
      BY <1>1, <2>4
    <3> QED
      BY <2>1, <2>2, <3>1, <3>2
  <2> QED
    BY <2>3, <2>4
<1>9. ASSUME NEW f \in Guides
      PROVE  /\ Has(f, "ours")' \/ \E c \in Clients : Md[c] = f /\ status'[c] # "installed"
             /\ ~Has(f, "ours")' \/ \E c \in Clients : Md[c] = f /\ status'[c] # "removed"
  <2>1. Has(f, "ours")' <=> Has(f, "ours")
    BY <1>1 DEF Has
  <2>2. ASSUME NEW c \in Clients, Md[c] = f, c \in cmd.of
        PROVE  status'[c] = cmd.result /\ (Has(f, "ours") <=> cmd.result = "installed")
    BY <1>1, <1>4, <2>2 DEF Accomplished
  <2>3. \A c \in Clients : c \notin cmd.of => status'[c] = status[c]
    BY <1>1
  <2>4. ASSUME ~Has(f, "ours") PROVE \E c \in Clients : Md[c] = f /\ status'[c] # "installed"
    <3>1. PICK c \in Clients : Md[c] = f /\ status[c] # "installed"
      BY <2>4 DEF SetupInv, StatusInv
    <3>2. status'[c] # "installed"
      BY <1>2, <2>2, <2>3, <2>4, <3>1
    <3> QED
      BY <3>1, <3>2
  <2>5. ASSUME Has(f, "ours") PROVE \E c \in Clients : Md[c] = f /\ status'[c] # "removed"
    <3>1. PICK c \in Clients : Md[c] = f /\ status[c] # "removed"
      BY <2>5 DEF SetupInv, StatusInv
    <3>2. status'[c] # "removed"
      BY <1>2, <2>2, <2>3, <2>5, <3>1
    <3> QED
      BY <3>1, <3>2
  <2> QED
    BY <2>1, <2>4, <2>5
<1>10. StatusInv'
  BY <1>8, <1>9 DEF StatusInv
<1>11. HealInv'
  BY <1>1, SameLooks DEF SetupInv
<1>12. KeptInv'
  BY <1>1, <1>2, AllThere DEF SetupInv, KeptInv, Has
<1> QED
  BY <1>1, <1>6, <1>10, <1>11, <1>12, NoCommand DEF SetupInv

LEMMA DieKept == ASSUME SetupInv, Die PROVE SetupInv'
<1>1. PICK f : f = Current.on
  OBVIOUS
<1>2. /\ cmd # None /\ cmd' = None
      /\ mine' = IF cmd.new # None /\ file[f] = Torn(f) THEN mine \ ({f} \X Entries) ELSE mine
      /\ UNCHANGED <<file, heal, status, back, commands>>
  BY <1>1 DEF Die
<1>3. mine' \subseteq mine
  BY <1>2
<1>4. FileInv'
  BY <1>2, <1>3 DEF SetupInv, FileInv
<1>5. HealInv'
  BY <1>2, <1>3, SameLooks DEF SetupInv
<1>6. KeptInv'
  <2> SUFFICES ASSUME NEW m \in mine' PROVE m[2] \in ToSet(file'[m[1]])
    BY DEF KeptInv, Has
  <2>1. m \in mine /\ m = <<m[1], m[2]>> /\ m[2] \in {"user", "notes", "chapter"}
    BY <1>3, Pairs DEF SetupInv
  <2>2. m[2] \in Entries
    BY <2>1 DEF Entries
  <2>3. CASE Has(m[1], m[2])
    BY <1>2, <2>3 DEF Has
  <2>4. CASE ~Has(m[1], m[2])
    <3>1. cmd.new # None /\ f = m[1] /\ file[f] = Torn(f)
      BY <1>1, <2>1, <2>4 DEF SetupInv, KeptInv
    <3>2. <<m[1], m[2]>> \in {f} \X Entries
      BY <2>2, <3>1
    <3> QED
      BY <1>2, <2>1, <3>1, <3>2
  <2> QED
    BY <2>3, <2>4
<1> QED
  BY <1>2, <1>4, <1>5, <1>6, NoCommand, SameStatus DEF SetupInv

LEMMA TakeNotesKept ==
    ASSUME SetupInv, NEW f \in Guides, NEW e \in {"notes", "chapter"},
           TakeNotes(f, e)
    PROVE  SetupInv'
<1>1. PICK y : y = Append(file[f], e)
  OBVIOUS
<1>2. /\ cmd = None /\ e \notin ToSet(file[f])
      /\ file' = [file EXCEPT ![f] = y] /\ mine' = mine \cup {<<f, e>>}
      /\ UNCHANGED <<cmd, heal, status, back, commands>>
  BY <1>1 DEF TakeNotes, Has
<1>3. f \in Files /\ f \notin Json
  BY Names
<1>4. Fine(f, file[f]) /\ e \in Entries /\ e # "torn" /\ e # "stale"
      /\ e # "ours"
  BY <1>3 DEF SetupInv, FileInv, Entries
<1>5. /\ y \in Seq(Entries) /\ ToSet(y) = ToSet(file[f]) \cup {e} /\ IsInjective(y)
  BY <1>1, <1>2, <1>4, AppendIs DEF Fine
<1>6. Fine(f, y)
  BY <1>3, <1>4, <1>5 DEF Fine
<1>7. /\ file' \in [Files -> Seq(Entries)] /\ file'[f] = y
      /\ \A g \in Files : g # f => file'[g] = file[g]
  BY <1>2, <1>3, <1>5, Written DEF SetupInv
<1>8. FileInv'
  <2>1. \A g \in Files : Fine(g, file'[g])
    BY <1>6, <1>7 DEF SetupInv, FileInv
  <2>2. mine' \subseteq Files \X {"user", "notes", "chapter"}
    BY <1>2, <1>3 DEF SetupInv, FileInv
  <2> QED
    BY <1>2, <1>7, <2>1, <2>2 DEF SetupInv, FileInv
<1>9. HealInv'
  <2>1. f \notin Healed
    BY <1>3, Names DEF Healed
  <2>2. \A g \in Healed : \A d : <<g, d>> \in mine' => <<g, d>> \in mine
    BY <1>2, <2>1
  <2> QED
    BY <1>2, <2>2 DEF SetupInv, HealInv
<1>10. StatusInv'
  <2>1. \A g \in Files : ("ours" \in ToSet(file'[g])) <=> ("ours" \in ToSet(file[g]))
    BY <1>4, <1>5, <1>7
  <2>2. \A c \in Clients : \A g \in Wiring(c) : file'[g] = file[g]
    BY <1>3, <1>7, Names
  <2>3. \A g \in Guides : g \in Files
    BY Names
  <2>4. ASSUME NEW c \in Clients, NEW g \in Wiring(c)
        PROVE  /\ status'[c] = "installed" => Alone(g)'
               /\ status'[c] = "removed" => Cleared(g)'
    <3>1. /\ status[c] = "installed" => Alone(g)
          /\ status[c] = "removed" => Cleared(g)
      BY DEF SetupInv, StatusInv
    <3> QED
      BY <1>2, <2>2, <3>1 DEF Alone, Cleared
  <2>5. ASSUME NEW g \in Guides
        PROVE  /\ Has(g, "ours")' \/ \E c \in Clients : Md[c] = g /\ status'[c] # "installed"
               /\ ~Has(g, "ours")' \/ \E c \in Clients : Md[c] = g /\ status'[c] # "removed"
    <3>1. /\ Has(g, "ours") \/ \E c \in Clients : Md[c] = g /\ status[c] # "installed"
          /\ ~Has(g, "ours") \/ \E c \in Clients : Md[c] = g /\ status[c] # "removed"
      BY DEF SetupInv, StatusInv
    <3>2. Has(g, "ours")' <=> Has(g, "ours")
      BY <2>1, <2>3 DEF Has
    <3> QED
      BY <1>2, <3>1, <3>2
  <2> QED
    BY <2>4, <2>5 DEF StatusInv
<1>11. KeptInv'
  <2> SUFFICES ASSUME NEW m \in mine' PROVE m[2] \in ToSet(file'[m[1]])
    BY DEF KeptInv, Has
  <2>1. CASE m \in mine
    <3>1. m[1] \in Files /\ m[2] \in ToSet(file[m[1]])
      BY <1>2, <2>1, Pairs, AllThere DEF SetupInv, Has
    <3> QED
      BY <1>5, <1>7, <3>1
  <2>2. CASE m = <<f, e>>
    BY <1>5, <1>7, <2>2
  <2> QED
    BY <1>2, <2>1, <2>2
<1> QED
  BY <1>2, <1>8, <1>9, <1>10, <1>11, NoCommand DEF SetupInv

-----------------------------------------------------------------------------
(* SessionStarts                                                           *)

LEMMA HealReads ==
    ASSUME SetupInv, UNCHANGED <<file, cmd, status, mine, back, commands>>, HealInv'
    PROVE  SetupInv'
BY SameCommand DEF SetupInv

\* What is in a file that is not cut off is what a SessionStart reads in it.
LEMMA ReadsMine ==
    ASSUME SetupInv, NEW f \in Healed, file[f] # Torn(f)
    PROVE  \A e : <<f, e>> \in mine => e \in ToSet(file[f])
<1> SUFFICES ASSUME NEW e, <<f, e>> \in mine PROVE e \in ToSet(file[f])
  OBVIOUS
<1>1. PICK m : m = <<f, e>>
  OBVIOUS
<1>2. m \in mine /\ m[1] = f /\ m[2] = e
  BY <1>1
<1>3. Has(m[1], m[2])
  BY <1>2 DEF SetupInv, KeptInv
<1> QED
  BY <1>2, <1>3 DEF Has

LEMMA HealBeginsKept == ASSUME SetupInv, NEW h \in Healers, HealBegins(h) PROVE SetupInv'
<1>1. PICK l : l = Look(Local, file[Local])
  OBVIOUS
<1>2. /\ heal' = [heal EXCEPT ![h] = l]
      /\ UNCHANGED <<file, cmd, status, mine, back, commands>>
  BY <1>1 DEF HealBegins
<1>3. l.on = Local /\ l.read = file[Local] /\ l \in Looks /\ Local \in Healed
  BY <1>1, Names DEF SetupInv, FileInv, Look, Looks, Healed
<1>4. Fine(Local, file[Local])
  BY Names DEF SetupInv, FileInv
<1>5. file[Local] # Torn(Local) => \A e : <<Local, e>> \in mine => e \in ToSet(file[Local])
  BY <1>3, ReadsMine
<1>6. HealInv'
  BY <1>2, <1>3, <1>4, <1>5 DEF SetupInv, HealInv
<1> QED
  BY <1>2, <1>6, HealReads

LEMMA HealDiesKept == ASSUME SetupInv, NEW h \in Healers, HealDies(h) PROVE SetupInv'
<1>1. HealInv'
  BY DEF SetupInv, HealInv, HealDies
<1> QED
  BY <1>1, HealReads DEF HealDies

LEMMA HealLooksKept == ASSUME SetupInv, NEW h \in Healers, HealLooks(h) PROVE SetupInv'
<1>1. PICK f \in Healed : f = HookFile(Claude) /\ f # Local /\ f \in Files
  BY Names DEF Healed
<1>2. PICK x, l : x = file[f] /\ l = IF "stale" \in ToSet(x) THEN Look(f, x) ELSE None
  OBVIOUS
<1>3. heal' = [heal EXCEPT ![h] = l] /\ UNCHANGED <<file, cmd, status, mine, back, commands>>
  BY <1>1, <1>2 DEF HealLooks
<1>4. Fine(f, x) /\ x \in Seq(Entries)
  BY <1>1, <1>2 DEF SetupInv, FileInv
<1>5. CASE "stale" \in ToSet(x)
  <2>1. l.on = f /\ l.read = x /\ l \in Looks
    BY <1>1, <1>2, <1>4, <1>5 DEF Look, Looks
  <2>2. x # Torn(f)
    BY <1>1, <1>5, TornIs DEF Brainkm, Replaced
  <2>3. \A e : <<f, e>> \in mine => e \in ToSet(x)
    BY <1>2, <2>2, ReadsMine
  <2>4. HealInv'
    BY <1>1, <1>3, <1>4, <1>5, <2>1, <2>3 DEF SetupInv, HealInv
  <2> QED
    BY <1>3, <2>4, HealReads
<1>6. CASE "stale" \notin ToSet(x)
  <2>1. HealInv'
    BY <1>2, <1>3, <1>6 DEF SetupInv, HealInv
  <2> QED
    BY <1>3, <2>1, HealReads
<1> QED
  BY <1>5, <1>6

\* A SessionStart's write: brainkm's entry alone and all of the user's.
LEMMA HealWrites ==
    ASSUME SetupInv, NEW f \in Healed, NEW y, Fine(f, y), ToSet(y) \cap Replaced = {"ours"},
           file' = [file EXCEPT ![f] = y], back' = back \cup {f}, mine' \subseteq mine,
           \A m \in mine' : m[1] = f => m[2] \in ToSet(y),
           UNCHANGED <<cmd, status, commands>>, HealInv'
    PROVE  SetupInv'
<1>1. f \in Files /\ f \in Json /\ y \in Seq(Entries)
  BY Names DEF Healed, Fine
<1>2. /\ file' \in [Files -> Seq(Entries)] /\ file'[f] = y
      /\ \A g \in Files : g # f => file'[g] = file[g]
  BY <1>1, Written DEF SetupInv
<1>3. back' \subseteq Files /\ f \in back'
  BY <1>1 DEF SetupInv, FileInv
<1>4. FileInv'
  <2>1. \A g \in Files : Fine(g, file'[g])
    BY <1>2 DEF SetupInv, FileInv
  <2> QED
    BY <1>2, <1>3, <2>1 DEF SetupInv, FileInv
<1>5. TodoInv'
  BY DEF SetupInv, TodoInv
<1>6. ASSUME NEW g \in Files
      PROVE  /\ g = f => Alone(g)' /\ Cleared(g)'
             /\ g # f => (Alone(g)' <=> Alone(g)) /\ (Cleared(g)' <=> Cleared(g))
             /\ g \in Guides => (Has(g, "ours")' <=> Has(g, "ours"))
  <2>1. g = f => Alone(g)' /\ Cleared(g)'
    BY <1>2, <1>3 DEF Alone, Cleared
  <2>2. g # f => (Alone(g)' <=> Alone(g)) /\ (Cleared(g)' <=> Cleared(g))
    BY <1>2 DEF Alone, Cleared
  <2>3. g \in Guides => g # f
    BY <1>1, Names
  <2>4. g # f => (Has(g, "ours")' <=> Has(g, "ours"))
    BY <1>2 DEF Has
  <2> QED
    BY <2>1, <2>2, <2>3, <2>4
<1>7. NewInv'
  <2> SUFFICES ASSUME cmd # None, cmd.new # None PROVE NewInv'
    BY DEF NewInv
  <2>1. PICK t, g : t = Current /\ g = t.on
    OBVIOUS
  <2>2. Current' = t
    BY <2>1 DEF Current
  <2>3. /\ cmd.todo # << >> /\ Fine(g, cmd.new) /\ "torn" \notin ToSet(cmd.new)
        /\ t.do # "permit" /\ Effected(t, cmd.new)
        /\ file[g] = Torn(g) \/ (g \in Healed /\ Alone(g) /\ g \in back)
    BY <2>1 DEF SetupInv, NewInv
  <2>4. g \in Files
    BY <2>1, <2>3, NextTask, TasksOf DEF SetupInv
  <2>5. file'[g] = Torn(g) \/ (g \in Healed /\ Alone(g)' /\ g \in back')
    <3>1. CASE g = f
      BY <1>3, <1>6, <2>4, <3>1
    <3>2. CASE g # f
      <4>1. Alone(g)' <=> Alone(g)
        BY <1>6, <2>4, <3>2
      <4> QED
        BY <1>2, <2>3, <2>4, <3>2, <4>1
    <3> QED
      BY <3>1, <3>2
  <2> QED
    BY <2>1, <2>2, <2>3, <2>5 DEF NewInv, Alone
<1>8. DoneInv'
  <2> SUFFICES ASSUME cmd # None, NEW c \in cmd.of
               PROVE  /\ status'[c] = "pending"
                      /\ \A g \in Wiring(c) \cup {Md[c]} :
                            (\E t \in Left(cmd.todo) : t.on = g) \/ Accomplished(cmd.result, g)'
    BY DEF DoneInv
  <2>1. c \in Clients
    BY DEF SetupInv, TodoInv, Doings
  <2>2. ASSUME NEW g \in Wiring(c) \cup {Md[c]}, Accomplished(cmd.result, g)
        PROVE  Accomplished(cmd.result, g)'
    <3>1. g \in Files
      BY <2>1, Names
    <3>2. /\ g = f => Alone(g)' /\ Cleared(g)'
          /\ g # f => (Alone(g)' <=> Alone(g)) /\ (Cleared(g)' <=> Cleared(g))
          /\ g \in Guides => (Has(g, "ours")' <=> Has(g, "ours"))
      BY <1>6, <3>1
    <3> QED
      BY <2>2, <3>2 DEF Accomplished
  <2> QED
    BY <2>2 DEF SetupInv, DoneInv
<1>9. GitInv'
  <2> SUFFICES ASSUME cmd # None, cmd.result = "removed",
                      \E t \in Left(cmd.todo) : t.on = PostCheckout, NEW c \in Clients \ cmd.of
               PROVE  Cleared(Mcp(c))' /\ Cleared(HookFile(c))'
    BY DEF GitInv
  <2>1. PICK a, b : a = Mcp(c) /\ b = HookFile(c)
    OBVIOUS
  <2>2. a \in Files /\ b \in Files
    BY <2>1, Names
  <2>3. Cleared(a) /\ Cleared(b)
    BY <2>1 DEF SetupInv, GitInv
  <2>4. Cleared(a)' /\ Cleared(b)'
    <3>1. Cleared(a)'
      BY <1>6, <2>2, <2>3
    <3>2. Cleared(b)'
      BY <1>6, <2>2, <2>3
    <3> QED
      BY <3>1, <3>2
  <2> QED
    BY <2>1, <2>4 DEF Cleared, Mcp, HookFile
<1>10. StatusInv'
  <2>1. ASSUME NEW c \in Clients, NEW g \in Wiring(c)
        PROVE  /\ status'[c] = "installed" => Alone(g)'
               /\ status'[c] = "removed" => Cleared(g)'
    <3>1. /\ status[c] = "installed" => Alone(g)
          /\ status[c] = "removed" => Cleared(g)
      BY DEF SetupInv, StatusInv
    <3>2. g \in Files
      BY Names
    <3>3. (Alone(g) => Alone(g)') /\ (Cleared(g) => Cleared(g)')
      BY <1>6, <3>2
    <3> QED
      BY <3>1, <3>3
  <2>2. ASSUME NEW g \in Guides
        PROVE  /\ Has(g, "ours")' \/ \E c \in Clients : Md[c] = g /\ status'[c] # "installed"
               /\ ~Has(g, "ours")' \/ \E c \in Clients : Md[c] = g /\ status'[c] # "removed"
    <3>1. /\ Has(g, "ours") \/ \E c \in Clients : Md[c] = g /\ status[c] # "installed"
          /\ ~Has(g, "ours") \/ \E c \in Clients : Md[c] = g /\ status[c] # "removed"
      BY DEF SetupInv, StatusInv
    <3>2. Has(g, "ours")' <=> Has(g, "ours")
      BY <1>6, Names
    <3> QED
      BY <3>1, <3>2
  <2> QED
    BY <2>1, <2>2 DEF StatusInv
<1>11. KeptInv'
  <2> SUFFICES ASSUME NEW m \in mine'
               PROVE  \/ m[2] \in ToSet(file'[m[1]])
                      \/ /\ cmd # None /\ cmd.new # None /\ Current.on = m[1]
                         /\ m[2] \in ToSet(cmd.new) /\ file'[m[1]] = Torn(m[1])
    BY DEF KeptInv, Has, Current
  <2>1. CASE m[1] = f
    BY <1>2, <2>1
  <2>2. CASE m[1] # f
    <3>1. m[1] \in Files /\ m \in mine
      BY Pairs DEF SetupInv
    <3> QED
      BY <1>2, <2>2, <3>1 DEF SetupInv, KeptInv, Has
  <2> QED
    BY <2>1, <2>2
<1> QED
  BY <1>4, <1>5, <1>7, <1>8, <1>9, <1>10, <1>11 DEF SetupInv

LEMMA HealPermissionsKept == ASSUME SetupInv, NEW h \in Healers, HealPermissions(h) PROVE SetupInv'
<1>1. PICK x, y : x = heal[h].read /\ y = Permitted(x)
  OBVIOUS
<1>2. PICK l : l = Look(HookFile(Claude), << >>)
  OBVIOUS
<1>3. /\ heal[h] # None /\ heal[h].on = Local /\ file' = [file EXCEPT ![Local] = y]
      /\ back' = back \cup {Local} /\ heal' = [heal EXCEPT ![h] = l]
      /\ mine' = (IF x = Torn(Local) THEN mine \ ({Local} \X Entries) ELSE mine)
      /\ UNCHANGED <<cmd, status, commands>>
  BY <1>1, <1>2 DEF HealPermissions
<1>4. /\ Fine(Local, x)
      /\ x # Torn(Local) => \A e : <<Local, e>> \in mine => e \in ToSet(x)
  BY <1>1, <1>3 DEF SetupInv, HealInv
<1>5. /\ Fine(Local, y) /\ ToSet(y) \cap Replaced = {"ours"}
      /\ x # Torn(Local) => ToSet(x) \subseteq ToSet(y)
  BY <1>1, <1>4, PermittedIs
<1>6. ASSUME NEW m \in mine', m[1] = Local PROVE m[2] \in ToSet(y)
  <2>1. m \in mine /\ m = <<Local, m[2]>> /\ m[2] \in {"user", "notes", "chapter"}
    BY <1>3, <1>6, Pairs DEF SetupInv
  <2>2. m[2] \in Entries
    BY <2>1 DEF Entries
  <2>3. x # Torn(Local)
    <3> SUFFICES ASSUME x = Torn(Local) PROVE FALSE
      OBVIOUS
    <3>1. <<Local, m[2]>> \in {Local} \X Entries
      BY <2>2
    <3> QED
      BY <1>3, <2>1, <3>1
  <2> QED
    BY <1>4, <1>5, <2>1, <2>3
<1>7. /\ l.on = HookFile(Claude) /\ l.read = << >> /\ l \in Looks /\ l.on # Local
      /\ l.on \in Healed /\ Local \in Healed
  BY <1>2, Names, FewIs DEF Look, Looks, Healed
<1>8. mine' \subseteq mine
  BY <1>3
<1>9. HealInv'
  BY <1>3, <1>7, <1>8 DEF SetupInv, HealInv
<1> QED
  BY <1>3, <1>5, <1>6, <1>7, <1>8, <1>9, HealWrites

LEMMA HealHooksKept == ASSUME SetupInv, NEW h \in Healers, HealHooks(h) PROVE SetupInv'
<1>1. PICK x, f : x = heal[h].read /\ f = HookFile(Claude)
  OBVIOUS
<1>2. PICK y : y = [i \in DOMAIN x |-> IF x[i] = "stale" THEN "ours" ELSE x[i]]
  OBVIOUS
<1>3. /\ heal[h] # None /\ heal[h].on = f /\ x # << >> /\ file' = [file EXCEPT ![f] = y]
      /\ back' = back \cup {f} /\ heal' = [heal EXCEPT ![h] = None]
      /\ UNCHANGED <<cmd, status, mine, commands>>
  BY <1>1, <1>2 DEF HealHooks
<1>4. f # Local /\ f \in Healed
  BY <1>1, Names DEF Healed
<1>5. /\ Fine(f, x) /\ "stale" \in ToSet(x) /\ \A e : <<f, e>> \in mine => e \in ToSet(x)
  BY <1>1, <1>3, <1>4 DEF SetupInv, HealInv
<1>6. /\ Fine(f, y) /\ ToSet(y) \cap Replaced = {"ours"} /\ ToSet(x) \ Brainkm \subseteq ToSet(y)
  BY <1>1, <1>2, <1>5, WidenedFine
<1>7. ASSUME NEW m \in mine', m[1] = f PROVE m[2] \in ToSet(y)
  BY <1>3, <1>5, <1>6, <1>7, Pairs DEF SetupInv
<1>8. HealInv'
  BY <1>3 DEF SetupInv, HealInv
<1> QED
  BY <1>3, <1>4, <1>6, <1>7, <1>8, HealWrites

-----------------------------------------------------------------------------
(* The whole                                                               *)

LEMMA InitSetup == ASSUME Init PROVE SetupInv
<1>1. PICK own \in BOOLEAN, old \in SUBSET Clients :
        /\ file = [f \in Files |-> Earlier(own, old, f)]
        /\ mine = IF own THEN Files \X {"user"} ELSE {}
        /\ status = [c \in Clients |-> IF c \in old THEN "pending" ELSE "never"]
        /\ old # {} => own
  BY DEF Init
<1>2. cmd = None /\ heal = [h \in Healers |-> None] /\ back = {} /\ commands = 0
  BY DEF Init
<1>3. /\ "user" \in Entries /\ "ours" \in Entries /\ "stale" \in Entries
      /\ "dropped" \in Entries /\ "user" # "ours" /\ "user" # "stale"
  BY DEF Entries
<1>4. PICK u : u = IF own THEN <<"user">> ELSE << >>
  OBVIOUS
<1>5. /\ u \in Seq(Entries) /\ IsInjective(u) /\ ToSet(u) = (IF own THEN {"user"} ELSE {})
  BY <1>3, <1>4, FewIs
<1>6. ASSUME NEW f \in Files
      PROVE  /\ Fine(f, file[f]) /\ (own => "user" \in ToSet(file[f]))
  <2>1. PICK b : b = CASE \E c \in old \cap Dropping : f = HookFile(c) -> <<"stale", "dropped">>
                       [] \E c \in old \ Dropping : f = HookFile(c) -> <<"stale">>
                       [] \E c \in old : f \in {Mcp(c), Md[c], PostCheckout} -> <<"ours">>
                       [] f = Local /\ Claude \in old -> <<"ours">>
                       [] OTHER -> << >>
    OBVIOUS
  <2>2. file[f] = u \o b
    BY <1>1, <1>4, <2>1 DEF Earlier
  <2>3. u \o << >> = u
    BY <1>5
  <2>4. \A e \in {"ours", "stale"} : u \o <<e>> = Append(u, e)
    BY <1>3, <1>5
  <2>5. ASSUME NEW e \in {"ours", "stale"}
        PROVE  /\ Append(u, e) \in Seq(Entries) /\ IsInjective(Append(u, e))
               /\ ToSet(Append(u, e)) = ToSet(u) \cup {e}
    BY <1>3, <1>5, AppendIs
  <2>6. /\ b \in {<<"stale", "dropped">>, <<"stale">>, <<"ours">>, << >>}
        /\ b \notin {<<"ours">>, << >>} => \E c \in Clients : f = HookFile(c)
    <3>1. \A c, d \in Clients : /\ HookFile(c) # Mcp(d) /\ HookFile(c) # Md[d] /\ HookFile(c) # Local
                                /\ HookFile(c) # PostCheckout /\ Local # Mcp(d) /\ Local # Md[d]
      <4> SUFFICES ASSUME NEW c \in Clients, NEW d \in Clients
                   PROVE  /\ HookFile(c) # Mcp(d) /\ HookFile(c) # Md[d] /\ HookFile(c) # Local
                          /\ HookFile(c) # PostCheckout /\ Local # Mcp(d) /\ Local # Md[d]
        OBVIOUS
      <4>1. HookFile(c) # Mcp(d)
        BY DEF HookFile, Mcp
      <4>2. HookFile(c) \in Json /\ Local \in Json /\ Md[d] \in Guides /\ HookFile(c) # Local /\ Local # Mcp(d)
        BY Names
      <4> QED
        BY <4>1, <4>2, Names
    <3>2. Local # PostCheckout
      BY Names
    <3>3. CASE \E c \in old : f = HookFile(c)
      <4>1. ~\E c \in old : f \in {Mcp(c), Md[c], PostCheckout}
        BY <3>1, <3>3
      <4>2. f # Local
        BY <3>1, <3>3
      <4>3. \A c, d \in Clients : HookFile(c) = HookFile(d) => c = d
        BY DEF HookFile
      <4>4. b \in {<<"stale", "dropped">>, <<"stale">>}
        BY <2>1, <3>3, <4>1, <4>2, <4>3
      <4> QED
        BY <3>3, <4>4
    <3>4. CASE ~\E c \in old : f = HookFile(c)
      <4>1. CASE \E c \in old : f \in {Mcp(c), Md[c], PostCheckout}
        <5>1. f # Local
          BY <3>1, <3>2, <4>1
        <5>2. b = <<"ours">>
          BY <2>1, <3>4, <4>1, <5>1
        <5> QED
          BY <5>2
      <4>2. CASE ~\E c \in old : f \in {Mcp(c), Md[c], PostCheckout}
        <5>1. b = <<"ours">> \/ b = << >>
          BY <2>1, <3>4, <4>2
        <5> QED
          BY <5>1
      <4> QED
        BY <4>1, <4>2
    <3> QED
      BY <3>3, <3>4
  <2>7. CASE b = << >>
    BY <1>3, <1>5, <2>2, <2>3, <2>7 DEF Fine
  <2>8. CASE b = <<"stale">>
    <3>1. file[f] = Append(u, "stale")
      BY <2>2, <2>4, <2>8
    <3> QED
      BY <1>3, <1>5, <2>5, <2>6, <2>8, <3>1 DEF Fine
  <2>9. CASE b = <<"ours">>
    <3>1. file[f] = Append(u, "ours")
      BY <2>2, <2>4, <2>9
    <3> QED
      BY <1>3, <1>5, <2>5, <3>1 DEF Fine
  <2>10. CASE b = <<"stale", "dropped">>
    <3>1. PICK v : v = Append(u, "stale")
      OBVIOUS
    <3>2. v \in Seq(Entries) /\ IsInjective(v) /\ ToSet(v) = ToSet(u) \cup {"stale"}
      BY <2>5, <3>1
    <3>3. PICK w : w = Append(v, "dropped")
      OBVIOUS
    <3>4. w \in Seq(Entries) /\ IsInjective(w) /\ ToSet(w) = ToSet(v) \cup {"dropped"}
      BY <1>3, <1>5, <3>2, <3>3, AppendIs
    <3>5. u \o <<"stale", "dropped">> = Append(Append(u, "stale"), "dropped")
      BY <1>3, <1>5
    <3>6. file[f] = w
      BY <2>2, <2>10, <3>1, <3>3, <3>5
    <3>7. "torn" \notin ToSet(w) /\ "ours" \notin ToSet(w) /\ (own => "user" \in ToSet(w))
      BY <1>5, <3>2, <3>4
    <3> QED
      BY <2>6, <2>10, <3>4, <3>6, <3>7 DEF Fine
  <2> QED
    BY <2>6, <2>7, <2>8, <2>9, <2>10
<1>7. file \in [Files -> Seq(Entries)]
  <2>1. \A f \in Files : file[f] \in Seq(Entries)
    BY <1>6 DEF Fine
  <2> QED
    BY <1>1, <2>1
<1>8. FileInv
  <2>1. status \in [Clients -> {"never", "pending", "installed", "removed"}]
    BY <1>1
  <2>2. mine \subseteq Files \X {"user", "notes", "chapter"} /\ commands \in 0 .. MaxCommands
    BY <1>1, <1>2, SetupAssumption
  <2> QED
    BY <1>2, <1>6, <1>7, <2>1, <2>2 DEF FileInv
<1>9. StatusInv
  <2>1. \A c \in Clients : status[c] # "installed" /\ status[c] # "removed"
    BY <1>1
  <2>2. \A f \in Guides : \E c \in Clients : Md[c] = f
    BY DEF Guides
  <2> QED
    BY <2>1, <2>2 DEF StatusInv
<1>10. KeptInv
  <2> SUFFICES ASSUME NEW m \in mine PROVE m[2] \in ToSet(file[m[1]])
    BY DEF KeptInv, Has
  <2>1. own /\ m[1] \in Files /\ m[2] = "user"
    BY <1>1
  <2> QED
    BY <1>6, <2>1
<1>11. HealInv /\ TodoInv /\ NewInv /\ DoneInv /\ GitInv
  BY <1>2 DEF HealInv, TodoInv, NewInv, DoneInv, GitInv
<1> QED
  BY <1>8, <1>9, <1>10, <1>11 DEF SetupInv

LEMMA SetupStep == ASSUME SetupInv, SetupNext PROVE SetupInv'
<1>1. CASE Command
  BY <1>1, InstallKept, ConnectKept, UninstallKept, RefuseKept, SkipKept, EditAtOnceKept,
     TruncateKept, WriteOutKept, FinishKept, DieKept, TakeNotesKept DEF Command
<1>2. ASSUME NEW h \in Healers, Heal(h) PROVE SetupInv'
  BY <1>2, HealBeginsKept, HealPermissionsKept, HealLooksKept, HealHooksKept, HealDiesKept DEF Heal
<1> QED
  BY <1>1, <1>2 DEF SetupNext

\* Packs and checkouts touch nothing of the wiring.
LEMMA SetupUnchanged == ASSUME SetupInv, UNCHANGED setupVars PROVE SetupInv'
<1>1. UNCHANGED <<file, cmd, heal, status, mine, back, commands>>
  BY DEF setupVars
<1> QED
  BY <1>1, SameCommand, SameLooks DEF SetupInv

LEMMA SetupHolds == Spec => []SetupInv
<1>1. BothInit => SetupInv
  BY InitSetup DEF BothInit
<1>2. SetupInv /\ [Next]_vars => SetupInv'
  BY SetupStep, SetupUnchanged DEF Next, Settling, Building, Telling, Checkout, vars
<1> QED
  BY <1>1, <1>2, PTL DEF Spec

\* The files hold what the commands and the heals write (install.py), nothing
\* twice; only JSON is ever found cut off.
THEOREM SetupTyped == Spec => []SetupTypeOK
<1>1. ASSUME SetupInv PROVE SetupTypeOK
  <2>1. ASSUME NEW f \in Files
        PROVE  /\ file[f] \in Seq(Entries) /\ IsInjective(file[f])
               /\ "torn" \in ToSet(file[f]) => f \in Json /\ file[f] = <<"torn">>
    BY <1>1 DEF SetupInv, FileInv, Fine
  <2>2. cmd = None \/ cmd.new = None \/ cmd.todo # << >>
    BY <1>1 DEF SetupInv, NewInv
  <2>3. mine \subseteq Files \X Entries
    BY <1>1 DEF SetupInv, FileInv, Entries
  <2> QED
    BY <1>1, <2>1, <2>2, <2>3 DEF SetupTypeOK, SetupInv, FileInv
<1> QED
  BY <1>1, SetupHolds, PTL

\* What the user has in a file stays there, through every install, connect and
\* uninstall and every SessionStart's heal, but for what --force replaces, what
\* an uninstall takes out with the snippet's section, and what a command or a
\* heal has cut off half way.
THEOREM EntriesKept == Spec => []UserEntriesKept
<1>1. SetupInv => UserEntriesKept
  BY DEF SetupInv, KeptInv, UserEntriesKept
<1> QED
  BY <1>1, SetupHolds, PTL

\* When run_install or run_connect has returned, every file of the client has
\* brainkm's entry, current and once, under the events that this version wires.
THEOREM InstallsComplete == Spec => []InstallComplete
<1>1. ASSUME SetupInv, NEW c \in Clients, status[c] = "installed"
      PROVE  /\ \A f \in Wiring(c) : OursAlone(file[f])
             /\ \/ Has(Md[c], "ours")
                \/ \E d \in Clients \ {c} : Md[d] = Md[c] /\ status[d] # "installed"
  <2>1. ASSUME NEW f \in Wiring(c) PROVE OursAlone(file[f])
    <3>1. f \in Files
      BY Names
    <3>2. file[f] \in Seq(Entries) /\ IsInjective(file[f])
      BY <1>1, <3>1 DEF SetupInv, FileInv, Fine
    <3>3. Alone(f)
      BY <1>1 DEF SetupInv, StatusInv
    <3> QED
      BY <3>2, <3>3, AloneIs DEF Alone
  <2>2. Has(Md[c], "ours") \/ \E d \in Clients : Md[d] = Md[c] /\ status[d] # "installed"
    BY <1>1, Names DEF SetupInv, StatusInv
  <2> QED
    BY <1>1, <2>1, <2>2
<1>2. SetupInv => InstallComplete
  BY <1>1 DEF InstallComplete, Wiring
<1> QED
  BY <1>2, SetupHolds, PTL

\* When run_uninstall has returned, nothing of brainkm's is left in the files of
\* the clients it named; it goes at the git hooks when no client has any.
THEOREM UninstallsComplete == Spec => []UninstallComplete
<1>1. ASSUME SetupInv PROVE FilesCleared
  <2>1. ASSUME NEW c \in Clients, status[c] = "removed"
        PROVE  /\ \A f \in Wiring(c) : ToSet(file[f]) \cap Brainkm # {} => f \in back
               /\ Has(Md[c], "ours") => \E d \in Clients \ {c} : Md[d] = Md[c] /\ status[d] # "removed"
    <3>1. ~Has(Md[c], "ours") \/ \E d \in Clients : Md[d] = Md[c] /\ status[d] # "removed"
      BY <1>1, Names DEF SetupInv, StatusInv
    <3>2. \A f \in Wiring(c) : Cleared(f)
      BY <1>1, <2>1 DEF SetupInv, StatusInv
    <3> QED
      BY <2>1, <3>1, <3>2 DEF Cleared
  <2> QED
    BY <2>1 DEF FilesCleared, Wiring
<1>2. ASSUME SetupInv PROVE HooksOutlastClients
  <2> SUFFICES ASSUME cmd # None, cmd.result = "removed", cmd.todo # << >>,
                      Current.on = PostCheckout, NEW c \in Clients
               PROVE  Cleared(Mcp(c)) /\ Cleared(HookFile(c))
    BY DEF HooksOutlastClients, Cleared
  <2>1. Current \in Left(cmd.todo) /\ Left(cmd.todo) = {Current}
    BY <1>2, NextTask DEF SetupInv
  <2>2. CASE c \in cmd.of
    <3>1. \A f \in {Mcp(c), HookFile(c)} :
              /\ f \in Wiring(c) /\ f \in Json /\ f \notin Guides /\ f # PostCheckout
      BY Names
    <3>2. \A f \in {Mcp(c), HookFile(c)} : Accomplished(cmd.result, f)
      BY <1>2, <2>1, <2>2, <3>1 DEF SetupInv, DoneInv
    <3> QED
      BY <3>1, <3>2 DEF Accomplished
  <2>3. CASE c \notin cmd.of
    BY <1>2, <2>1, <2>3 DEF SetupInv, GitInv
  <2> QED
    BY <2>2, <2>3
<1>3. SetupInv => UninstallComplete
  BY <1>1, <1>2 DEF UninstallComplete
<1> QED
  BY <1>3, SetupHolds, PTL

-----------------------------------------------------------------------------
(* Packs                                                                   *)

Packs == [by : Hooks, of : Nat]

PackType ==
    /\ frozen \in [Sessions -> Packs \cup {Nobody}]
    /\ tree \in Nat
    /\ build \in [Hooks -> [session : Sessions, of : Nat, alone : BOOLEAN] \cup {Nobody}]
    /\ told \in [Sessions -> SUBSET [pack : Packs, alone : BOOLEAN]]

\* A hook that is alone with its build will find no pack when it saves.
AloneInv ==
    \A h \in Hooks : build[h] # Nobody /\ build[h].alone =>
        /\ frozen[build[h].session] = Nobody
        /\ \A g \in Beside(build[h].session) : g = h

AllOne == \A s \in Sessions : OnePack(s)

PackInv == PackType /\ PackOfTheTree /\ AloneInv /\ AllOne

\* What the wiring and the sessions do to the packs, whatever the commands do.
PackStep ==
    \/ \E h \in Hooks, s \in Sessions, force \in BOOLEAN : BuildReads(h, s, force)
    \/ \E s \in Sessions : Reuses(s)
    \/ \E h \in Hooks : BuildSaves(h)
    \/ \E h \in Hooks : BuildDies(h)
    \/ \E heard \in BOOLEAN : BranchChange(heard)

\* A step of the whole is one of these for the packs, or leaves them alone.
LEMMA NextIsPackStep == ASSUME [Next]_vars PROVE [PackStep]_packVars
<1>1. CASE Settling \/ UNCHANGED vars
      BY <1>1 DEF Settling, vars, packVars
<1>2. CASE Building \/ Telling
      BY <1>2 DEF Building, Telling, PackStep
<1>3. CASE Checkout
      <2>1. \E heard \in BOOLEAN : BranchChange(heard)
            BY <1>3 DEF Checkout
      <2>. QED  BY <2>1 DEF PackStep
<1>. QED  BY <1>1, <1>2, <1>3 DEF Next

LEMMA PackInitInv == BothInit => PackInv
BY DEF BothInit, PackInit, PackInv, PackType, PackOfTheTree, AloneInv, AllOne, OnePack

\* A hook that finds no pack is alone if none builds for the session beside it,
\* and from then on no other is.
LEMMA ReadInv ==
    ASSUME PackInv, NEW h \in Hooks, NEW s \in Sessions, NEW force \in BOOLEAN,
           BuildReads(h, s, force)
    PROVE  PackInv'
<1> PICK lone : lone = (~force /\ Beside(s) = {})
    OBVIOUS
<1>1. tree \in Nat /\ lone \in BOOLEAN
      BY DEF PackInv, PackType
<1>2. /\ build[h] = Nobody /\ (frozen[s] = Nobody \/ force)
      /\ build' = [g \in Hooks |->
                    IF g = h THEN [session |-> s, of |-> tree, alone |-> lone]
                    ELSE IF g \in Beside(s) THEN [build[g] EXCEPT !.alone = FALSE]
                    ELSE build[g]]
      /\ UNCHANGED <<frozen, tree, told, stale>>
      BY DEF BuildReads
<1>3. build'[h] = [session |-> s, of |-> tree, alone |-> lone]
      BY <1>2
<1>4. ASSUME NEW g \in Hooks, g # h
      PROVE  build'[g] = IF g \in Beside(s) THEN [build[g] EXCEPT !.alone = FALSE] ELSE build[g]
      BY <1>2, <1>4
<1>5. ASSUME NEW g \in Hooks, g \in Beside(s)
      PROVE  /\ g # h /\ build[g] \in [session : Sessions, of : Nat, alone : BOOLEAN]
             /\ build[g].session = s
      BY <1>2, <1>5 DEF Beside, PackInv, PackType
<1>6. \A g \in Hooks :
        build'[g] \in [session : Sessions, of : Nat, alone : BOOLEAN] \cup {Nobody}
      <2> SUFFICES ASSUME NEW g \in Hooks
                   PROVE  build'[g] \in [session : Sessions, of : Nat, alone : BOOLEAN]
                                        \cup {Nobody}
          OBVIOUS
      <2>1. CASE g = h
            <3>1. [session |-> s, of |-> tree, alone |-> lone]
                      \in [session : Sessions, of : Nat, alone : BOOLEAN]
                  <4>1. ASSUME NEW l \in BOOLEAN, NEW n \in Nat
                        PROVE  [session |-> s, of |-> n, alone |-> l]
                                  \in [session : Sessions, of : Nat, alone : BOOLEAN]
                        OBVIOUS
                  <4>. QED  BY <1>1, <4>1, Zenon
            <3>. QED  BY <1>3, <2>1, <3>1
      <2>2. CASE g # h /\ g \in Beside(s)
            BY <1>4, <1>5, <2>2
      <2>3. CASE g # h /\ g \notin Beside(s)
            BY <1>4, <2>3 DEF PackInv, PackType
      <2>. QED  BY <2>1, <2>2, <2>3
<1>7. PackType' /\ PackOfTheTree' /\ AllOne'
      BY <1>2, <1>6 DEF PackInv, PackType, PackOfTheTree, AllOne, OnePack
<1>8. ASSUME NEW g \in Hooks, g # h, build'[g] # Nobody, build'[g].alone
      PROVE  /\ g \notin Beside(s) /\ build'[g] = build[g] /\ build[g].session # s
             /\ frozen[build[g].session] = Nobody
             /\ \A k \in Beside(build[g].session) : k = g
      <2>1. g \notin Beside(s)
            BY <1>4, <1>5, <1>8
      <2>2. build'[g] = build[g]
            BY <1>4, <1>8, <2>1
      <2>. QED  BY <1>8, <2>1, <2>2 DEF Beside, PackInv, AloneInv
<1>9. ASSUME NEW g \in Hooks, g # h, build'[g] # Nobody
      PROVE  build[g] # Nobody /\ build[g].session = build'[g].session
      <2>1. CASE g \in Beside(s)
            <3>1. build'[g].session = s
                  BY <1>4, <1>5, <1>9, <2>1
            <3>. QED  BY <1>5, <2>1, <3>1 DEF Beside
      <2>2. CASE g \notin Beside(s)
            BY <1>4, <1>9, <2>2
      <2>. QED  BY <2>1, <2>2
<1>10. AloneInv'
      <2> SUFFICES ASSUME NEW g \in Hooks, build'[g] # Nobody, build'[g].alone,
                          NEW k \in Hooks, build'[k] # Nobody,
                          build'[k].session = build'[g].session
                   PROVE  frozen'[build'[g].session] = Nobody /\ k = g
          BY <1>3, <1>8, <1>2 DEF AloneInv, Beside
      <2>1. CASE g = h
            <3>1. build'[g].session = s /\ lone
                  BY <1>3, <2>1
            <3>2. ~force /\ Beside(s) = {}
                  BY <3>1
            <3>3. k = h
                  BY <1>9, <3>1, <3>2 DEF Beside
            <3>. QED  BY <1>2, <2>1, <3>1, <3>2, <3>3
      <2>2. CASE g # h
            <3>1. /\ build'[g] = build[g] /\ build[g].session # s
                  /\ frozen[build[g].session] = Nobody
                  /\ \A j \in Beside(build[g].session) : j = g
                  BY <1>8, <2>2
            <3>2. k # h
                  BY <1>3, <3>1
            <3>3. k \in Beside(build[g].session)
                  BY <1>9, <3>1, <3>2 DEF Beside
            <3>. QED  BY <1>2, <3>1, <3>3
      <2>. QED  BY <2>1, <2>2
<1>. QED  BY <1>7, <1>10 DEF PackInv

\* The insert that finds no pack saves what was built, whose tree is either
\* the present one or recorded as gone; a hook that is alone finds none.
LEMMA SaveInv ==
    ASSUME PackInv, NEW h \in Hooks, BuildSaves(h)
    PROVE  PackInv'
<1>1. PICK t, pack, alone : t = build[h].session /\ pack = Pack(h) /\ alone = build[h].alone
      OBVIOUS
<1>2. /\ build[h] # Nobody /\ t \in Sessions /\ build[h].of \in Nat /\ alone \in BOOLEAN
      BY <1>1 DEF PackInv, PackType, BuildSaves
<1>3. pack \in Packs /\ pack.of = build[h].of /\ pack # Nobody
      BY <1>1, <1>2, SnapshotAssumption DEF Pack, Packs
<1>4. /\ frozen' = [frozen EXCEPT ![t] = IF @ = Nobody THEN pack ELSE @]
      /\ told' = [told EXCEPT ![t] = @ \cup {[pack |-> pack, alone |-> alone]}]
      /\ build' = [build EXCEPT ![h] = Nobody] /\ tree' = tree
      BY <1>1 DEF BuildSaves, Saved, Tells
<1>5. \A s \in Sessions : frozen'[s] = IF s = t /\ frozen[s] = Nobody THEN pack ELSE frozen[s]
      BY <1>2, <1>4 DEF PackInv, PackType
<1>6. \A s \in Sessions :
        told'[s] = IF s = t THEN told[s] \cup {[pack |-> pack, alone |-> alone]} ELSE told[s]
      BY <1>2, <1>4 DEF PackInv, PackType
<1>7. build'[h] = Nobody /\ \A g \in Hooks : g # h => build'[g] = build[g]
      BY <1>4 DEF PackInv, PackType
<1>8. PackType'
      <2>1. frozen' \in [Sessions -> Packs \cup {Nobody}]
            BY <1>2, <1>3, <1>4 DEF PackInv, PackType
      <2>2. [pack |-> pack, alone |-> alone] \in [pack : Packs, alone : BOOLEAN]
            BY <1>2, <1>3
      <2>3. told' \in [Sessions -> SUBSET [pack : Packs, alone : BOOLEAN]]
            BY <1>2, <1>4, <2>2 DEF PackInv, PackType
      <2>4. tree' \in Nat
            BY <1>4 DEF PackInv, PackType
      <2>5. build' \in [Hooks -> [session : Sessions, of : Nat, alone : BOOLEAN] \cup {Nobody}]
            BY <1>4 DEF PackInv, PackType
      <2>. QED  BY <2>1, <2>3, <2>4, <2>5 DEF PackType
<1>9. PackOfTheTree'
      <2> SUFFICES ASSUME NEW s \in Sessions, frozen'[s] # Nobody
                   PROVE  frozen'[s].of = tree \/ s \in stale'
          BY <1>4 DEF PackOfTheTree
      <2>1. CASE frozen[s] # Nobody
            BY <1>5, <2>1 DEF PackInv, PackOfTheTree, BuildSaves
      <2>2. CASE frozen[s] = Nobody
            <3>1. s = t /\ frozen'[s] = pack
                  BY <1>5, <2>2
            <3>. QED  BY <1>1, <1>3, <2>2, <3>1 DEF BuildSaves
      <2>. QED  BY <2>1, <2>2
<1>10. AloneInv'
      <2> SUFFICES ASSUME NEW g \in Hooks, build'[g] # Nobody, build'[g].alone
                   PROVE  /\ frozen'[build'[g].session] = Nobody
                          /\ \A k \in Hooks : build'[k] # Nobody /\ build'[k].session = build'[g].session
                                              => k = g
          BY DEF AloneInv, Beside
      <2>1. g # h /\ build'[g] = build[g]
            BY <1>7
      <2>2. /\ frozen[build[g].session] = Nobody
            /\ \A k \in Hooks : build[k] # Nobody /\ build[k].session = build[g].session => k = g
            BY <2>1 DEF PackInv, AloneInv, Beside
      <2>3. build[g].session # t
            BY <1>1, <1>2, <2>1, <2>2
      <2>4. build[g].session \in Sessions
            BY <2>1 DEF PackInv, PackType
      <2>. QED  BY <1>5, <1>7, <2>1, <2>2, <2>3, <2>4
<1>11. AllOne'
      <2> SUFFICES ASSUME NEW s \in Sessions, NEW r \in told'[s], r.alone
                   PROVE  r.pack = frozen'[s]
          BY DEF AllOne, OnePack
      <2>1. CASE r \in told[s]
            <3>1. r.pack = frozen[s] /\ r.pack \in Packs
                  BY <2>1 DEF PackInv, PackType, AllOne, OnePack
            <3>2. frozen[s] # Nobody
                  BY <3>1, SnapshotAssumption DEF Packs
            <3>. QED  BY <1>5, <3>1, <3>2
      <2>2. CASE r \notin told[s]
            <3>1. s = t /\ r = [pack |-> pack, alone |-> alone]
                  BY <1>6, <2>2
            <3>2. r.pack = pack /\ r.alone = alone
                  BY <3>1
            <3>3. frozen[t] = Nobody
                  BY <1>1, <1>2, <3>2 DEF PackInv, AloneInv
            <3>. QED  BY <1>5, <3>1, <3>2, <3>3
      <2>. QED  BY <2>1, <2>2
<1>. QED  BY <1>8, <1>9, <1>10, <1>11 DEF PackInv

LEMMA PackStepInv == ASSUME PackInv, [PackStep]_packVars PROVE PackInv'
<1>1. CASE UNCHANGED packVars
      BY <1>1 DEF packVars, PackInv, PackType, PackOfTheTree, AloneInv, Beside, AllOne, OnePack
<1>2. ASSUME NEW h \in Hooks, NEW s \in Sessions, NEW force \in BOOLEAN,
             BuildReads(h, s, force)
      PROVE  PackInv'
      BY <1>2, ReadInv
<1>3. ASSUME NEW s \in Sessions, Reuses(s) PROVE PackInv'
      <2>1. /\ frozen[s] # Nobody /\ frozen[s] \in Packs
            /\ told' = [told EXCEPT ![s] = @ \cup {[pack |-> frozen[s], alone |-> TRUE]}]
            /\ UNCHANGED <<frozen, tree, build, stale>>
            BY <1>3 DEF Reuses, Tells, PackInv, PackType
      <2>2. \A r \in Sessions :
                told'[r] = IF r = s THEN told[r] \cup {[pack |-> frozen[s], alone |-> TRUE]}
                           ELSE told[r]
            BY <2>1 DEF PackInv, PackType
      <2>3. told' \in [Sessions -> SUBSET [pack : Packs, alone : BOOLEAN]]
            <3>1. [pack |-> frozen[s], alone |-> TRUE] \in [pack : Packs, alone : BOOLEAN]
                  BY <2>1
            <3>. QED  BY <2>1, <3>1 DEF PackInv, PackType
      <2>4. AllOne'
            BY <2>1, <2>2 DEF PackInv, AllOne, OnePack
      <2>5. PackType' /\ PackOfTheTree' /\ AloneInv'
            BY <2>1, <2>3 DEF PackInv, PackType, PackOfTheTree, AloneInv, Beside
      <2>. QED  BY <2>4, <2>5 DEF PackInv
<1>4. ASSUME NEW h \in Hooks, BuildSaves(h) PROVE PackInv'
      BY <1>4, SaveInv
<1>5. ASSUME NEW h \in Hooks, BuildDies(h) PROVE PackInv'
      <2>1. /\ build' = [build EXCEPT ![h] = Nobody]
            /\ UNCHANGED <<frozen, tree, told, stale>>
            BY <1>5 DEF BuildDies
      <2>2. \A g \in Hooks : build'[g] # Nobody => build'[g] = build[g]
            BY <2>1 DEF PackInv, PackType
      <2>3. PackType' /\ PackOfTheTree' /\ AllOne'
            BY <2>1 DEF PackInv, PackType, PackOfTheTree, AllOne, OnePack
      <2>4. AloneInv'
            BY <2>1, <2>2 DEF PackInv, AloneInv, Beside
      <2>. QED  BY <2>3, <2>4 DEF PackInv
<1>6. ASSUME NEW heard \in BOOLEAN, BranchChange(heard) PROVE PackInv'
      <2>1. build' = build /\ tree' = tree + 1 /\ \A s \in Sessions : frozen'[s] \in {frozen[s], Nobody}
            BY <1>6 DEF BranchChange, Invalidated, PackInv, PackType
      <2>2. AloneInv'
            BY <2>1 DEF PackInv, PackType, AloneInv, Beside
      <2>3. CASE heard
            <3>1. PackType' /\ PackOfTheTree'
                  BY <1>6, <2>3 DEF BranchChange, Invalidated, PackInv, PackType, PackOfTheTree
            <3>2. AllOne'
                  BY <1>6, <2>3 DEF BranchChange, AllOne, OnePack
            <3>. QED  BY <2>2, <3>1, <3>2 DEF PackInv
      <2>4. CASE ~heard
            <3>1. PackType' /\ PackOfTheTree'
                  BY <1>6, <2>4 DEF BranchChange, PackInv, PackType, PackOfTheTree
            <3>2. AllOne'
                  BY <1>6, <2>4 DEF BranchChange, PackInv, AllOne, OnePack
            <3>. QED  BY <2>2, <3>1, <3>2 DEF PackInv
      <2>. QED  BY <2>3, <2>4
<1>. QED  BY <1>1, <1>2, <1>3, <1>4, <1>5, <1>6 DEF PackStep

\* A pack that outlives a branch change is one that was being built when the
\* tree changed, or one whose hooks git did not run (git_note.py:787).
THEOREM PacksFollowTree == Spec => []PackOfTheTree
<1>1. BothInit => PackInv
      BY PackInitInv
<1>2. PackInv /\ [Next]_vars => PackInv'
      BY NextIsPackStep, PackStepInv
<1>3. PackInv => PackOfTheTree
      BY DEF PackInv
<1>. QED  BY <1>1, <1>2, <1>3, PTL DEF Spec

\* No step of any hook replaces the pack of a session while the tree stays
\* (snapshot.py:328, 350), and every hook that has no other beside it, and is no
\* PostCompact, tells the session that one.
THEOREM PacksAreFrozen == Spec => FrozenPack
<1> DEFINE Stays == \A s \in Sessions :
                        frozen[s] # Nobody => frozen'[s] = frozen[s] \/ tree' # tree
           Frozen == \A s \in Sessions :
                        /\ frozen[s] # Nobody => frozen'[s] = frozen[s] \/ tree' # tree
                        /\ OnePack(s)'
<1>1. BothInit => PackInv
      BY PackInitInv
<1>2. PackInv /\ [Next]_vars => PackInv'
      BY NextIsPackStep, PackStepInv
<1>3. PackInv /\ [Next]_vars => [Frozen]_packVars
      <2> SUFFICES ASSUME PackInv, PackStep, PackInv' PROVE Frozen
          BY <1>2, NextIsPackStep
      <2>1. ASSUME NEW h \in Hooks, BuildSaves(h) PROVE Stays
            BY <2>1 DEF BuildSaves, Saved, PackInv, PackType
      <2>2. ASSUME NEW heard \in BOOLEAN, BranchChange(heard) PROVE Stays
            BY <2>2 DEF BranchChange, PackInv, PackType
      <2>3. Stays
            BY <2>1, <2>2 DEF PackStep, BuildReads, Reuses, BuildDies
      <2>4. \A s \in Sessions : OnePack(s)'
            BY DEF PackInv, AllOne
      <2>. QED  BY <2>3, <2>4
<1>. QED  BY <1>1, <1>2, <1>3, PTL DEF Spec, FrozenPack
=============================================================================
