------------------------- MODULE NeuronStoreProofs -------------------------
(***************************************************************************)
(* Proofs about the life of a neuron for every set of neurons and of       *)
(* processes.  Everything rests on two facts: ids are used once, and what  *)
(* a process holds between its read and its write still exists when it     *)
(* writes, though it may have been retired.                                *)
(***************************************************************************)
EXTENDS NeuronStore, TLAPS

Events == {"created", "superseded", "forgotten"}

\* A log that has events grows into one that is not that of an active neuron.
LEMMA Appended ==
    ASSUME NEW s \in Seq(Events), NEW e \in Events
    PROVE  /\ Append(s, e) \in Seq(Events)
           /\ Append(s, e) # <<>>
           /\ s # <<>> => Append(s, e) # <<"created">>
<1>1. Append(s, e) \in Seq(Events) /\ Len(Append(s, e)) = Len(s) + 1 /\ Len(s) \in Nat
  OBVIOUS
<1>2. Append(s, e) # <<>>
  BY <1>1
<1>3. ASSUME s # <<>> PROVE Append(s, e) # <<"created">>
  <2>1. Len(s) # 0
    BY <1>3
  <2>2. Len(<<"created">>) = 1
    OBVIOUS
  <2>. QED
    BY <1>1, <2>1, <2>2
<1>. QED
  BY <1>1, <1>2, <1>3

-----------------------------------------------------------------------------
\* An id in any use has been handed out; a draft has not been committed.
FreshInv ==
    \A n \in Neurons :
        /\ Exists(n) \/ n \in DOMAIN draft \/ n \in file \/ n \in captured => n \in used
        /\ n \in DOMAIN draft => ~Exists(n)

\* What has a successor is retired.
SuccInv == \A e \in succ : Exists(e[2]) /\ ~Active(e[2])

Single == {"archive", "approve", "reject", "reject write",
           "unlink approved", "unlink rejected"}

\* What process p works on, step by step.
Held(p) ==
    /\ pc[p] \in Single => \E t \in Neurons : arg[p] = {t}
    /\ \A t \in arg[p] :
          /\ pc[p] \in Single => t \in used
          /\ pc[p] \in {"archive", "consolidate", "reject write", "unlink rejected"}
                => Exists(t)
          /\ pc[p] = "unlink rejected" => ~Active(t)
          /\ pc[p] = "unlink approved" => /\ t \notin DOMAIN draft
                                          /\ Exists(t) => conf[t] = "high"

ArgInv == \A p \in Procs : Held(p)

\* Drafts belong to an open transaction; one that will need a review has it.
DraftInv ==
    /\ writer = None => DOMAIN draft = {}
    /\ \A n \in DOMAIN draft : draft[n] = "low" => n \in file

\* A verdict is the end of the review.
VerdictInv == \A v \in verdicts : v[3] \in used /\ v[3] \notin file

IInv ==
    /\ TypeOK /\ FreshInv /\ SuccInv /\ ArgInv /\ DraftInv /\ VerdictInv
    /\ OneSuccessor /\ ReviewNotLost /\ OneVerdict /\ RejectedRetired

-----------------------------------------------------------------------------
(* What the writes do to the logs.                                         *)

\* Forgetting an existing neuron retires it and touches no other.
LEMMA ForgetLog ==
    ASSUME TypeOK, NEW t \in Neurons, log[t] # <<>>, Forget(t)
    PROVE  /\ log' \in [Neurons -> Seq(Events)]
           /\ \A m \in Neurons : /\ log'[m] # <<>> <=> log[m] # <<>>
                                 /\ log'[m] = <<"created">> <=>
                                        log[m] = <<"created">> /\ m # t
<1>1. log \in [Neurons -> Seq(Events)] /\ "forgotten" \in Events
  BY DEF TypeOK, Events
<1>2. log' = [log EXCEPT ![t] = Append(log[t], "forgotten")]
  BY DEF Forget
<1>3. /\ Append(log[t], "forgotten") \in Seq(Events)
      /\ Append(log[t], "forgotten") # <<>>
      /\ Append(log[t], "forgotten") # <<"created">>
  BY <1>1, Appended
<1>. QED
  BY <1>1, <1>2, <1>3

\* Replacing active neurons by a fresh one retires them and no other.
LEMMA ReplaceLog ==
    ASSUME TypeOK, NEW n \in Neurons, NEW olds \in SUBSET Neurons, NEW c, NEW parents,
           log[n] = <<>>, \A o \in olds : log[o] = <<"created">>,
           Replace(n, olds, c, parents)
    PROVE  /\ log' \in [Neurons -> Seq(Events)]
           /\ \A m \in Neurons : /\ log'[m] # <<>> <=> log[m] # <<>> \/ m = n
                                 /\ log'[m] = <<"created">> <=>
                                        m = n \/ (log[m] = <<"created">> /\ m \notin olds)
<1>1. log \in [Neurons -> Seq(Events)] /\ "superseded" \in Events
  BY DEF TypeOK, Events
<1>2. <<"created">> \in Seq(Events) /\ <<"created">> # <<>>
  BY DEF Events
<1>3. n \notin olds
  BY <1>2
<1>4. log' = [m \in Neurons |-> IF m = n THEN <<"created">>
                                ELSE IF m \in olds THEN Append(log[m], "superseded")
                                ELSE log[m]]
  BY DEF Replace
<1>5. \A m \in olds : /\ Append(log[m], "superseded") \in Seq(Events)
                      /\ Append(log[m], "superseded") # <<>>
                      /\ Append(log[m], "superseded") # <<"created">>
  BY <1>1, <1>2, Appended
<1>. QED
  BY <1>1, <1>2, <1>3, <1>4, <1>5

\* Committing a capture creates its drafts and retires what was noisy.
LEMMA CommitLog ==
    ASSUME TypeOK, FreshInv, NEW p \in Procs, NEW noisy \in SUBSET Neurons,
           CaptureCommit(p, noisy)
    PROVE  /\ log' \in [Neurons -> Seq(Events)]
           /\ \A m \in Neurons :
                 /\ log'[m] # <<>> <=> log[m] # <<>> \/ m \in DOMAIN draft
                 /\ log'[m] = <<"created">> <=>
                        (log[m] = <<"created">> \/ m \in DOMAIN draft) /\ m \notin noisy
<1>. DEFINE kept(m) == IF m \in DOMAIN draft THEN <<"created">> ELSE log[m]
<1>1. log \in [Neurons -> Seq(Events)] /\ "forgotten" \in Events
  BY DEF TypeOK, Events
<1>2. <<"created">> \in Seq(Events) /\ <<"created">> # <<>>
  BY DEF Events
<1>3. log' = [m \in Neurons |-> IF m \in noisy THEN Append(kept(m), "forgotten")
                                ELSE kept(m)]
  BY DEF CaptureCommit
<1>4. \A m \in Neurons : /\ kept(m) \in Seq(Events)
                         /\ kept(m) # <<>> <=> log[m] # <<>> \/ m \in DOMAIN draft
                         /\ kept(m) = <<"created">> <=>
                                log[m] = <<"created">> \/ m \in DOMAIN draft
  BY <1>1, <1>2
<1>5. \A m \in noisy : kept(m) # <<>>
  BY <1>2, <1>4 DEF CaptureCommit, Active
<1>. HIDE DEF kept
<1>6. \A m \in noisy : /\ Append(kept(m), "forgotten") \in Seq(Events)
                       /\ Append(kept(m), "forgotten") # <<>>
                       /\ Append(kept(m), "forgotten") # <<"created">>
  BY <1>1, <1>4, <1>5, Appended
<1>. QED
  BY <1>1, <1>3, <1>4, <1>5, <1>6

-----------------------------------------------------------------------------
(* What a step leaves to the other processes.                              *)

Kept ==
    /\ used \subseteq used'
    /\ \A n \in Neurons : Exists(n) => /\ log'[n] # <<>>
                                       /\ ~Active(n) => log'[n] # <<"created">>
    /\ \A n \in used : /\ n \in DOMAIN draft' => n \in DOMAIN draft
                       /\ n \notin DOMAIN draft /\ log'[n] # <<>> => Exists(n)
                       /\ Exists(n) /\ conf[n] = "high" => conf'[n] = "high"

\* A process that does not move still holds what it held.
LEMMA OthersHold ==
    ASSUME TypeOK, ArgInv, Kept, NEW q \in Procs, pc'[q] = pc[q], arg'[q] = arg[q]
    PROVE  Held(q)'
<1>1. Held(q) /\ arg[q] \subseteq Neurons
  BY DEF ArgInv, TypeOK
<1>. QED
  BY <1>1 DEF Held, Kept, Exists, Active, Single

\* So the mover's hold is what has to be shown.
LEMMA MoverHolds ==
    ASSUME TypeOK, ArgInv, Kept, NEW p \in Procs, NEW l, NEW s, Goto(p, l, s), Held(p)'
    PROVE  ArgInv'
<1>1. \A q \in Procs : q # p => pc'[q] = pc[q] /\ arg'[q] = arg[q]
  BY DEF Goto, TypeOK
<1>. QED
  BY <1>1, OthersHold DEF ArgInv

\* The object of a step on one neuron.
LEMMA TheTarget ==
    ASSUME ArgInv, NEW p \in Procs, pc[p] \in Single
    PROVE  Target(p) \in Neurons /\ arg[p] = {Target(p)} /\ Target(p) \in used
<1>1. PICK t \in Neurons : arg[p] = {t}
  BY DEF ArgInv, Held
<1>2. Target(p) = t
  BY <1>1 DEF Target
<1>. QED
  BY <1>1, <1>2 DEF ArgInv, Held

-----------------------------------------------------------------------------
(* The steps.                                                              *)

\* A step that changes nothing but its process's own state.
LEMMA ReadStep ==
    ASSUME IInv, NEW p \in Procs, pc[p] # "capture",
           NEW l \in Steps \ {"capture"}, NEW s \in SUBSET Neurons, Goto(p, l, s),
           UNCHANGED <<dbVars, file, used, txVars, verdicts>>, Held(p)'
    PROVE  IInv'
<1>. USE DEF dbVars, txVars, Exists, Active
<1>1. TypeOK'
  <2>1. /\ pc' \in [Procs -> Steps] /\ arg' \in [Procs -> SUBSET Neurons]
        /\ \A q \in Procs : pc'[q] = "capture" <=> pc[q] = "capture"
    BY DEF IInv, TypeOK, Goto
  <2>. QED
    BY <2>1 DEF IInv, TypeOK
<1>2. FreshInv' /\ SuccInv' /\ DraftInv' /\ VerdictInv'
  BY DEF IInv, FreshInv, SuccInv, DraftInv, VerdictInv
<1>3. ArgInv'
  <2>1. Kept
    BY DEF Kept
  <2>. QED
    BY <2>1, MoverHolds DEF IInv
<1>4. OneSuccessor' /\ ReviewNotLost' /\ OneVerdict' /\ RejectedRetired'
  BY DEF IInv, OneSuccessor, ReviewNotLost, OneVerdict, RejectedRetired
<1>. QED
  BY <1>1, <1>2, <1>3, <1>4 DEF IInv

\* A fresh neuron, and perhaps one retired in its favour.
LEMMA RememberStep ==
    ASSUME IInv, NEW p \in Procs, NEW n \in Neurons, NEW olds \in SUBSET Neurons,
           Remember(p, n, olds)
    PROVE  IInv'
<1>. USE StoreAssumption DEF IInv, Exists, Active
<1>a. log[n] = <<>> /\ n \notin used /\ n \notin DOMAIN draft
  BY DEF Remember, Fresh, FreshInv
<1>b. /\ log' \in [Neurons -> Seq(Events)]
      /\ \A m \in Neurons : /\ log'[m] # <<>> <=> log[m] # <<>> \/ m = n
                            /\ log'[m] = <<"created">> <=>
                                   m = n \/ (log[m] = <<"created">> /\ m \notin olds)
  BY <1>a, ReplaceLog DEF Remember
<1>c. /\ succ' = succ \cup {<<n, o>> : o \in olds}
      /\ conf' = [conf EXCEPT ![n] = "high"]
      /\ from' = [from EXCEPT ![n] = {}]
      /\ used' = used \cup {n}
      /\ \A o \in olds : log[o] = <<"created">>
  BY DEF Remember, Replace
<1>g. /\ writer = None
      /\ UNCHANGED <<captured, file, txVars, pc, arg, verdicts>>
  BY DEF Remember, Free
<1>h. \A o \in olds : o \in Neurons /\ <<n, o>>[2] = o /\ <<n, o>> \in Neurons \X Neurons
  BY <1>a
<1>1. TypeOK'
  <2>1. log' \in [Neurons -> Seq({"created", "superseded", "forgotten"})]
    BY <1>b DEF Events
  <2>2. succ' \subseteq Neurons \X Neurons
    BY <1>c, <1>h DEF TypeOK
  <2>3. conf' \in [Neurons -> {"low", "high"}] /\ from' \in [Neurons -> SUBSET Neurons]
    BY <1>c, <1>a DEF TypeOK
  <2>4. /\ captured' \subseteq Neurons /\ file' \subseteq Neurons /\ used' \subseteq Neurons
        /\ verdicts' \subseteq Procs \X {"approve", "reject"} \X Neurons
    BY <1>c, <1>g DEF TypeOK
  <2>5. /\ writer' \in Procs \cup {None} /\ DOMAIN draft' \subseteq Neurons
        /\ \A m \in DOMAIN draft' : draft'[m] \in {"low", "high"}
    BY <1>g DEF TypeOK, txVars
  <2>6. pc' \in [Procs -> Steps] /\ arg' \in [Procs -> SUBSET Neurons]
    BY <1>g DEF TypeOK, Steps
  <2>7. (writer # None <=> \E q \in Procs : pc[q] = "capture" /\ writer = q)'
    BY <1>g DEF TypeOK, txVars
  <2>. QED
    BY <2>1, <2>2, <2>3, <2>4, <2>5, <2>6, <2>7 DEF TypeOK
<1>2. FreshInv'
  BY <1>a, <1>b, <1>c, <1>g DEF FreshInv, TypeOK, txVars
<1>3. SuccInv'
  <2>1. ASSUME NEW e \in succ' PROVE log'[e[2]] # <<>> /\ log'[e[2]] # <<"created">>
    <3>1. CASE e \in succ
      <4>1. e[2] \in Neurons
        BY <3>1 DEF TypeOK
      <4>. QED
        BY <3>1, <4>1, <1>a, <1>b DEF SuccInv
    <3>2. CASE \E o \in olds : e = <<n, o>>
      <4>1. PICK o \in olds : e = <<n, o>>
        BY <3>2
      <4>2. e[2] = o /\ o \in Neurons /\ log[o] = <<"created">> /\ o # n
        BY <4>1, <1>a, <1>c, <1>h
      <4>. QED
        BY <4>2, <1>b
    <3>. QED
      BY <3>1, <3>2, <1>c
  <2>. QED
    BY <2>1 DEF SuccInv
<1>4. ArgInv'
  <2>1. Kept
    BY <1>a, <1>b, <1>c, <1>g DEF Kept, FreshInv, TypeOK, txVars
  <2>. QED
    BY <1>g, <2>1, OthersHold DEF ArgInv
<1>5. DraftInv'
  BY <1>a, <1>b, <1>c, <1>g DEF DraftInv, TypeOK, FreshInv, txVars
<1>6. VerdictInv'
  BY <1>a, <1>b, <1>c, <1>g DEF VerdictInv, TypeOK, FreshInv, txVars
<1>7. OneSuccessor'
  <2>1. ASSUME NEW e \in succ, NEW o \in olds PROVE e[2] # o
    BY <1>c DEF SuccInv
  <2>2. \A e \in succ' : e \in succ \/ \E o \in olds : e = <<n, o>> /\ e[2] = o
    BY <1>c, <1>h
  <2>. QED
    BY <2>1, <2>2 DEF OneSuccessor
<1>8. ReviewNotLost'
  BY <1>a, <1>b, <1>c, <1>g DEF ReviewNotLost, TypeOK, DraftInv, FreshInv, txVars
<1>9. OneVerdict'
  BY <1>a, <1>b, <1>c, <1>g DEF OneVerdict, TypeOK, VerdictInv, txVars
<1>10. RejectedRetired'
  BY <1>a, <1>b, <1>c, <1>g
  DEF RejectedRetired, TypeOK, VerdictInv, FreshInv, txVars
<1>. QED
  BY <1>1, <1>2, <1>3, <1>4, <1>5, <1>6, <1>7, <1>8, <1>9, <1>10

\* An active neuron read, to be archived.
LEMMA ArchiveReadStep ==
    ASSUME IInv, NEW p \in Procs, NEW n \in Neurons, ArchiveRead(p, n)
    PROVE  IInv'
<1>1. /\ pc[p] = "idle" /\ Goto(p, "archive", {n})
      /\ UNCHANGED <<dbVars, file, used, txVars, verdicts>>
  BY DEF ArchiveRead, Idle
<1>2. log[n] # <<>> /\ n \in used
  <2>1. log[n] = <<"created">> /\ <<"created">> # <<>>
    BY DEF ArchiveRead, Active
  <2>. QED
    BY <2>1 DEF IInv, FreshInv, Exists
<1>3. Held(p)'
  <2>1. pc'[p] = "archive" /\ arg'[p] = {n}
    BY <1>1 DEF IInv, TypeOK, Goto
  <2>2. \E t \in Neurons : arg'[p] = {t}
    BY <2>1
  <2>. QED
    BY <1>1, <1>2, <2>1, <2>2 DEF Held, Single, Exists, dbVars
<1>. QED
  BY <1>1, <1>3, ReadStep DEF Steps

\* An existing neuron retired, perhaps for the second time.
LEMMA ArchiveWriteStep ==
    ASSUME IInv, NEW p \in Procs, ArchiveWrite(p)
    PROVE  IInv'
<1>. USE StoreAssumption DEF IInv, Exists, Active
<1>. DEFINE t == Target(p)
<1>a. t \in Neurons /\ arg[p] = {t} /\ t \in used /\ log[t] # <<>>
  <2>1. pc[p] \in Single
    BY DEF ArchiveWrite, Single
  <2>. QED
    BY <2>1, TheTarget DEF ArchiveWrite, ArgInv, Held
<1>b. /\ log' \in [Neurons -> Seq(Events)]
      /\ \A m \in Neurons : /\ log'[m] # <<>> <=> log[m] # <<>>
                            /\ log'[m] = <<"created">> <=> log[m] = <<"created">> /\ m # t
  BY <1>a, ForgetLog DEF ArchiveWrite
<1>. HIDE DEF t
<1>g. /\ writer = None /\ pc[p] = "archive" /\ Goto(p, "idle", {})
      /\ UNCHANGED <<conf, succ, from, captured, file, used, txVars, verdicts>>
  BY DEF ArchiveWrite, Free
<1>1. TypeOK'
  BY <1>a, <1>b, <1>g DEF TypeOK, Steps, Events, Goto, txVars
<1>2. FreshInv'
  BY <1>a, <1>b, <1>g DEF FreshInv, TypeOK, Goto, txVars
<1>3. SuccInv'
  BY <1>a, <1>b, <1>g DEF SuccInv, TypeOK, FreshInv, Goto, txVars
<1>4. ArgInv'
  <2>1. Kept
    BY <1>a, <1>b, <1>g DEF Kept, FreshInv, TypeOK, Goto, txVars
  <2>2. Held(p)'
    BY <1>a, <1>b, <1>g DEF TypeOK, FreshInv, Goto, txVars, Held, Single
  <2>3. PICK l, s : Goto(p, l, s)
    BY <1>a, <1>b, <1>g DEF ArchiveWrite
  <2>. QED
    BY <2>1, <2>2, <2>3, MoverHolds
<1>5. DraftInv'
  BY <1>a, <1>b, <1>g DEF DraftInv, TypeOK, FreshInv, Goto, txVars
<1>6. VerdictInv'
  BY <1>a, <1>b, <1>g DEF VerdictInv, TypeOK, FreshInv, Goto, txVars
<1>7. OneSuccessor'
  BY <1>a, <1>b, <1>g DEF OneSuccessor, TypeOK, SuccInv, FreshInv, Goto, txVars
<1>8. ReviewNotLost'
  BY <1>a, <1>b, <1>g DEF ReviewNotLost, TypeOK, DraftInv, FreshInv, Goto, txVars
<1>9. OneVerdict'
  BY <1>a, <1>b, <1>g DEF OneVerdict, TypeOK, VerdictInv, Goto, txVars
<1>10. RejectedRetired'
  BY <1>a, <1>b, <1>g
  DEF RejectedRetired, TypeOK, VerdictInv, FreshInv, Goto, txVars
<1>. QED
  BY <1>1, <1>2, <1>3, <1>4, <1>5, <1>6, <1>7, <1>8, <1>9, <1>10

\* Active neurons read, to be merged.
LEMMA ConsolidateReadStep ==
    ASSUME IInv, NEW p \in Procs, ConsolidateRead(p)
    PROVE  IInv'
<1>1. PICK olds \in SUBSET {n \in Neurons : Active(n)} : Goto(p, "consolidate", olds)
  BY DEF ConsolidateRead
<1>2. pc[p] = "idle" /\ UNCHANGED <<dbVars, file, used, txVars, verdicts>>
  BY DEF ConsolidateRead, Idle
<1>3. Held(p)'
  <2>1. pc'[p] = "consolidate" /\ arg'[p] = olds
    BY <1>1 DEF IInv, TypeOK, Goto
  <2>2. \A o \in olds : log[o] # <<>>
    BY <1>1 DEF Active
  <2>. QED
    BY <1>2, <2>1, <2>2 DEF Held, Single, Exists, dbVars
<1>. QED
  BY <1>1, <1>2, <1>3, ReadStep DEF Steps

\* A fresh neuron; those of its cluster still active retired.
LEMMA ConsolidateWriteStep ==
    ASSUME IInv, NEW p \in Procs, ConsolidateWrite(p)
    PROVE  IInv'
<1>. USE StoreAssumption DEF IInv, Exists, Active
<1>. PICK n \in Neurons, c \in {"low", "high"} :
        /\ Fresh(n)
        /\ Replace(n, {o \in arg[p] : Active(o)}, c, UNION {{o} \cup from[o] : o \in arg[p]})
  BY DEF ConsolidateWrite
<1>. DEFINE olds == {o \in arg[p] : Active(o)}
            parents == UNION {{o} \cup from[o] : o \in arg[p]}
<1>a. log[n] = <<>> /\ n \notin used /\ n \notin DOMAIN draft
  BY DEF Fresh, FreshInv
<1>d. olds \in SUBSET Neurons /\ parents \in SUBSET Neurons /\ \A o \in olds : log[o] = <<"created">>
  BY DEF TypeOK
<1>e. Replace(n, olds, c, parents)
  OBVIOUS
<1>. HIDE DEF olds, parents
<1>b. /\ log' \in [Neurons -> Seq(Events)]
      /\ \A m \in Neurons : /\ log'[m] # <<>> <=> log[m] # <<>> \/ m = n
                            /\ log'[m] = <<"created">> <=>
                                   m = n \/ (log[m] = <<"created">> /\ m \notin olds)
  BY <1>a, <1>d, <1>e, ReplaceLog
<1>c. /\ succ' = succ \cup {<<n, o>> : o \in olds}
      /\ conf' = [conf EXCEPT ![n] = c]
      /\ from' = [from EXCEPT ![n] = parents]
      /\ used' = used \cup {n}
  BY <1>e DEF Replace
<1>f. c \in {"low", "high"}
  OBVIOUS
<1>g. /\ writer = None /\ pc[p] = "consolidate" /\ Goto(p, "idle", {})
      /\ UNCHANGED <<captured, file, txVars, verdicts>>
  BY DEF ConsolidateWrite, Free
<1>h. \A o \in olds : o \in Neurons /\ <<n, o>>[2] = o /\ <<n, o>> \in Neurons \X Neurons
  BY <1>d
<1>1. TypeOK'
  <2>1. log' \in [Neurons -> Seq({"created", "superseded", "forgotten"})]
    BY <1>b DEF Events
  <2>2. succ' \subseteq Neurons \X Neurons
    BY <1>c, <1>h DEF TypeOK
  <2>3. conf' \in [Neurons -> {"low", "high"}] /\ from' \in [Neurons -> SUBSET Neurons]
    BY <1>c, <1>d, <1>f, <1>a DEF TypeOK
  <2>4. /\ captured' \subseteq Neurons /\ file' \subseteq Neurons /\ used' \subseteq Neurons
        /\ verdicts' \subseteq Procs \X {"approve", "reject"} \X Neurons
    BY <1>c, <1>g DEF TypeOK
  <2>5. /\ writer' \in Procs \cup {None} /\ DOMAIN draft' \subseteq Neurons
        /\ \A m \in DOMAIN draft' : draft'[m] \in {"low", "high"}
    BY <1>g DEF TypeOK, txVars
  <2>6. pc' \in [Procs -> Steps] /\ arg' \in [Procs -> SUBSET Neurons]
    BY <1>g DEF TypeOK, Steps, Goto
  <2>7. (writer # None <=> \E q \in Procs : pc[q] = "capture" /\ writer = q)'
    BY <1>g DEF TypeOK, txVars, Goto
  <2>. QED
    BY <2>1, <2>2, <2>3, <2>4, <2>5, <2>6, <2>7 DEF TypeOK
<1>2. FreshInv'
  BY <1>a, <1>b, <1>c, <1>d, <1>f, <1>g DEF FreshInv, TypeOK, Goto, txVars
<1>3. SuccInv'
  <2>1. ASSUME NEW e \in succ' PROVE log'[e[2]] # <<>> /\ log'[e[2]] # <<"created">>
    <3>1. CASE e \in succ
      <4>1. e[2] \in Neurons
        BY <3>1 DEF TypeOK
      <4>. QED
        BY <3>1, <4>1, <1>a, <1>b DEF SuccInv
    <3>2. CASE \E o \in olds : e = <<n, o>>
      <4>1. PICK o \in olds : e = <<n, o>>
        BY <3>2
      <4>2. e[2] = o /\ o \in Neurons /\ log[o] = <<"created">> /\ o # n
        BY <4>1, <1>a, <1>c, <1>h, <1>d
      <4>. QED
        BY <4>2, <1>b
    <3>. QED
      BY <3>1, <3>2, <1>c
  <2>. QED
    BY <2>1 DEF SuccInv
<1>4. ArgInv'
  <2>1. Kept
    BY <1>a, <1>b, <1>c, <1>d, <1>f, <1>g DEF Kept, FreshInv, TypeOK, Goto, txVars
  <2>2. Held(p)'
    BY <1>a, <1>b, <1>c, <1>d, <1>f, <1>g
    DEF TypeOK, FreshInv, Goto, txVars, Held, Single
  <2>3. PICK l, s : Goto(p, l, s)
    BY <1>a, <1>b, <1>c, <1>d, <1>f, <1>g DEF ConsolidateWrite
  <2>. QED
    BY <2>1, <2>2, <2>3, MoverHolds
<1>5. DraftInv'
  BY <1>a, <1>b, <1>c, <1>d, <1>f, <1>g DEF DraftInv, TypeOK, FreshInv, Goto, txVars
<1>6. VerdictInv'
  BY <1>a, <1>b, <1>c, <1>d, <1>f, <1>g
  DEF VerdictInv, TypeOK, FreshInv, Goto, txVars
<1>7. OneSuccessor'
  <2>1. ASSUME NEW e \in succ, NEW o \in olds PROVE e[2] # o
    BY <1>c, <1>d DEF SuccInv
  <2>2. \A e \in succ' : e \in succ \/ \E o \in olds : e = <<n, o>> /\ e[2] = o
    BY <1>c, <1>h
  <2>. QED
    BY <2>1, <2>2 DEF OneSuccessor
<1>8. ReviewNotLost'
  BY <1>a, <1>b, <1>c, <1>d, <1>f, <1>g
  DEF ReviewNotLost, TypeOK, DraftInv, FreshInv, Goto, txVars
<1>9. OneVerdict'
  BY <1>a, <1>b, <1>c, <1>d, <1>f, <1>g
  DEF OneVerdict, TypeOK, VerdictInv, Goto, txVars
<1>10. RejectedRetired'
  BY <1>a, <1>b, <1>c, <1>d, <1>f, <1>g
  DEF RejectedRetired, TypeOK, VerdictInv, FreshInv, Goto, txVars
<1>. QED
  BY <1>1, <1>2, <1>3, <1>4, <1>5, <1>6, <1>7, <1>8, <1>9, <1>10

\* The write lock taken.
LEMMA CaptureBeginStep ==
    ASSUME IInv, NEW p \in Procs, CaptureBegin(p)
    PROVE  IInv'
<1>. USE StoreAssumption DEF IInv, Exists, Active
<1>1. TypeOK'
  BY DEF TypeOK, Steps, CaptureBegin, Goto, Idle, Free, dbVars
<1>2. FreshInv'
  BY DEF FreshInv, TypeOK, CaptureBegin, Goto, Idle, Free, dbVars
<1>3. SuccInv'
  BY DEF SuccInv, TypeOK, FreshInv, CaptureBegin, Goto, Idle, Free, dbVars
<1>4. ArgInv'
  <2>1. Kept
    BY DEF Kept, FreshInv, TypeOK, CaptureBegin, Goto, Idle, Free, dbVars
  <2>2. Held(p)'
    BY DEF TypeOK, FreshInv, CaptureBegin, Goto, Idle, Free, dbVars, Held, Single
  <2>3. PICK l, s : Goto(p, l, s)
    BY DEF CaptureBegin
  <2>. QED
    BY <2>1, <2>2, <2>3, MoverHolds
<1>5. DraftInv'
  BY DEF DraftInv, TypeOK, FreshInv, CaptureBegin, Goto, Idle, Free, dbVars
<1>6. VerdictInv'
  BY DEF VerdictInv, TypeOK, FreshInv, CaptureBegin, Goto, Idle, Free, dbVars
<1>7. OneSuccessor'
  BY
  DEF OneSuccessor, TypeOK, SuccInv, FreshInv, CaptureBegin, Goto, Idle, Free, dbVars
<1>8. ReviewNotLost'
  BY
  DEF ReviewNotLost, TypeOK, DraftInv, FreshInv, CaptureBegin, Goto, Idle, Free, dbVars
<1>9. OneVerdict'
  BY DEF OneVerdict, TypeOK, VerdictInv, CaptureBegin, Goto, Idle, Free, dbVars
<1>10. RejectedRetired'
  BY
  DEF RejectedRetired, TypeOK, VerdictInv, FreshInv, CaptureBegin, Goto, Idle, Free, dbVars
<1>. QED
  BY <1>1, <1>2, <1>3, <1>4, <1>5, <1>6, <1>7, <1>8, <1>9, <1>10

\* A draft on a fresh id, with its review.
LEMMA CaptureNeuronStep ==
    ASSUME IInv, NEW p \in Procs, NEW n \in Neurons, NEW c \in {"low", "high"},
           CaptureNeuron(p, n, c)
    PROVE  IInv'
<1>. USE StoreAssumption DEF IInv, Exists, Active
<1>1. TypeOK'
  BY DEF TypeOK, Steps, CaptureNeuron, Fresh, dbVars
<1>2. FreshInv'
  BY DEF FreshInv, TypeOK, CaptureNeuron, Fresh, dbVars
<1>3. SuccInv'
  BY DEF SuccInv, TypeOK, FreshInv, CaptureNeuron, Fresh, dbVars
<1>4. ArgInv'
  <2>1. Kept
    BY DEF Kept, FreshInv, TypeOK, CaptureNeuron, Fresh, dbVars
  <2>2. UNCHANGED <<pc, arg>>
    BY DEF CaptureNeuron
  <2>. QED
    BY <2>1, <2>2, OthersHold DEF ArgInv
<1>5. DraftInv'
  BY DEF DraftInv, TypeOK, FreshInv, CaptureNeuron, Fresh, dbVars
<1>6. VerdictInv'
  BY DEF VerdictInv, TypeOK, FreshInv, CaptureNeuron, Fresh, dbVars
<1>7. OneSuccessor'
  BY DEF OneSuccessor, TypeOK, SuccInv, FreshInv, CaptureNeuron, Fresh, dbVars
<1>8. ReviewNotLost'
  BY DEF ReviewNotLost, TypeOK, DraftInv, FreshInv, CaptureNeuron, Fresh, dbVars
<1>9. OneVerdict'
  BY DEF OneVerdict, TypeOK, VerdictInv, CaptureNeuron, Fresh, dbVars
<1>10. RejectedRetired'
  BY DEF RejectedRetired, TypeOK, VerdictInv, FreshInv, CaptureNeuron, Fresh, dbVars
<1>. QED
  BY <1>1, <1>2, <1>3, <1>4, <1>5, <1>6, <1>7, <1>8, <1>9, <1>10

\* The drafts committed.
LEMMA CaptureCommitStep ==
    ASSUME IInv, NEW p \in Procs, NEW noisy \in SUBSET Neurons, CaptureCommit(p, noisy)
    PROVE  IInv'
<1>. USE StoreAssumption DEF IInv, Exists, Active
<1>b. /\ log' \in [Neurons -> Seq(Events)]
      /\ \A m \in Neurons :
            /\ log'[m] # <<>> <=> log[m] # <<>> \/ m \in DOMAIN draft
            /\ log'[m] = <<"created">> <=>
                   (log[m] = <<"created">> \/ m \in DOMAIN draft) /\ m \notin noisy
  BY CommitLog
<1>c. /\ conf' = [n \in Neurons |-> IF n \in DOMAIN draft THEN draft[n] ELSE conf[n]]
      /\ captured' = captured \cup DOMAIN draft
      /\ writer = p /\ writer' = None /\ draft' = NoDraft
      /\ pc[p] = "capture" /\ Goto(p, "idle", {})
      /\ UNCHANGED <<succ, from, file, used, verdicts>>
  BY DEF CaptureCommit
<1>d. DOMAIN NoDraft = {}
  BY DEF NoDraft
<1>1. TypeOK'
  BY <1>b, <1>c, <1>d DEF TypeOK, Steps, Events, Goto
<1>2. FreshInv'
  BY <1>b, <1>c, <1>d DEF FreshInv, TypeOK, Goto
<1>3. SuccInv'
  BY <1>b, <1>c, <1>d DEF SuccInv, TypeOK, FreshInv, Goto
<1>4. ArgInv'
  <2>1. Kept
    BY <1>b, <1>c, <1>d DEF Kept, FreshInv, TypeOK, Goto
  <2>2. Held(p)'
    BY <1>b, <1>c, <1>d DEF TypeOK, FreshInv, Goto, Held, Single
  <2>3. PICK l, s : Goto(p, l, s)
    BY <1>b, <1>c, <1>d DEF CaptureCommit
  <2>. QED
    BY <2>1, <2>2, <2>3, MoverHolds
<1>5. DraftInv'
  BY <1>b, <1>c, <1>d DEF DraftInv, TypeOK, FreshInv, Goto
<1>6. VerdictInv'
  BY <1>b, <1>c, <1>d DEF VerdictInv, TypeOK, FreshInv, Goto
<1>7. OneSuccessor'
  BY <1>b, <1>c, <1>d DEF OneSuccessor, TypeOK, SuccInv, FreshInv, Goto
<1>8. ReviewNotLost'
  BY <1>b, <1>c, <1>d DEF ReviewNotLost, TypeOK, DraftInv, FreshInv, Goto
<1>9. OneVerdict'
  BY <1>b, <1>c, <1>d DEF OneVerdict, TypeOK, VerdictInv, Goto
<1>10. RejectedRetired'
  BY <1>b, <1>c, <1>d DEF RejectedRetired, TypeOK, VerdictInv, FreshInv, Goto
<1>. QED
  BY <1>1, <1>2, <1>3, <1>4, <1>5, <1>6, <1>7, <1>8, <1>9, <1>10

\* A review opened.
LEMMA ReviewOpensStep ==
    ASSUME IInv, NEW p \in Procs, NEW n \in Neurons,
           NEW v \in {"approve", "reject"}, ReviewOpens(p, n, v)
    PROVE  IInv'
<1>1. /\ pc[p] = "idle" /\ Goto(p, v, {n})
      /\ UNCHANGED <<dbVars, file, used, txVars, verdicts>>
  BY DEF ReviewOpens, Idle
<1>2. n \in used
  BY DEF ReviewOpens, IInv, FreshInv
<1>3. Held(p)'
  <2>1. pc'[p] = v /\ arg'[p] = {n}
    BY <1>1 DEF IInv, TypeOK, Goto
  <2>2. \E t \in Neurons : arg'[p] = {t}
    BY <2>1
  <2>. QED
    BY <1>1, <1>2, <2>1, <2>2 DEF Held, Single
<1>. QED
  BY <1>1, <1>3, ReadStep DEF Steps

\* The confidence raised.
LEMMA ApproveStep ==
    ASSUME IInv, NEW p \in Procs, Approve(p)
    PROVE  IInv'
<1>. USE StoreAssumption DEF IInv, Exists, Active
<1>. DEFINE t == Target(p)
<1>a. t \in Neurons /\ arg[p] = {t} /\ t \in used
  <2>1. pc[p] \in Single
    BY DEF Approve, Single
  <2>. QED
    BY <2>1, TheTarget
<1>b. Held(p)
  BY DEF ArgInv
<1>. HIDE DEF t
<1>1. TypeOK'
  BY <1>a, <1>b DEF TypeOK, Steps, Approve, Goto, Free, txVars, Held, Single
<1>2. FreshInv'
  BY <1>a, <1>b DEF FreshInv, TypeOK, Approve, Goto, Free, txVars, Held, Single
<1>3. SuccInv'
  BY <1>a, <1>b
  DEF SuccInv, TypeOK, FreshInv, Approve, Goto, Free, txVars, Held, Single
<1>4. ArgInv'
  <2>1. Kept
    BY <1>a, <1>b DEF Kept, FreshInv, TypeOK, Approve, Goto, Free, txVars
  <2>2. Held(p)'
    <3>1. /\ pc'[p] = "unlink approved" /\ arg'[p] = {t} /\ t \in used'
          /\ log[t] # <<>> => conf'[t] = "high"
          /\ writer = None /\ UNCHANGED <<log, draft>>
      BY <1>a DEF Approve, Goto, TypeOK, Free, txVars
    <3>2. t \notin DOMAIN draft
      BY <3>1, <1>a DEF TypeOK, DraftInv
    <3>. QED
      BY <1>a, <3>1, <3>2 DEF Held, Single
  <2>3. PICK l, s : Goto(p, l, s)
    BY <1>a, <1>b DEF Approve
  <2>. QED
    BY <2>1, <2>2, <2>3, MoverHolds
<1>5. DraftInv'
  BY <1>a, <1>b
  DEF DraftInv, TypeOK, FreshInv, Approve, Goto, Free, txVars, Held, Single
<1>6. VerdictInv'
  BY <1>a, <1>b
  DEF VerdictInv, TypeOK, FreshInv, Approve, Goto, Free, txVars, Held, Single
<1>7. OneSuccessor'
  BY <1>a, <1>b
  DEF OneSuccessor, TypeOK, SuccInv, FreshInv, Approve, Goto, Free, txVars, Held, Single
<1>8. ReviewNotLost'
  BY <1>a, <1>b
  DEF ReviewNotLost, TypeOK, DraftInv, FreshInv, Approve, Goto, Free, txVars, Held, Single
<1>9. OneVerdict'
  BY <1>a, <1>b
  DEF OneVerdict, TypeOK, VerdictInv, Approve, Goto, Free, txVars, Held, Single
<1>10. RejectedRetired'
  BY <1>a, <1>b
  DEF RejectedRetired, TypeOK, VerdictInv, FreshInv, Approve, Goto, Free, txVars, Held,
     Single
<1>. QED
  BY <1>1, <1>2, <1>3, <1>4, <1>5, <1>6, <1>7, <1>8, <1>9, <1>10

\* forget_neuron's read: it finds the neuron active, retired or missing.
LEMMA RejectReadStep ==
    ASSUME IInv, NEW p \in Procs, RejectRead(p)
    PROVE  IInv'
<1>. DEFINE t == Target(p)
<1>1. t \in Neurons /\ arg[p] = {t} /\ t \in used
  <2>1. pc[p] \in Single
    BY DEF RejectRead, Single
  <2>. QED
    BY <2>1, TheTarget DEF IInv
<1>. HIDE DEF t
<1>2. /\ pc[p] = "reject" /\ UNCHANGED <<dbVars, file, used, txVars, verdicts>>
      /\ Goto(p, IF Active(t) THEN "reject write"
                 ELSE IF Exists(t) THEN "unlink rejected" ELSE "idle",
              IF Exists(t) THEN arg[p] ELSE {})
  BY DEF RejectRead, t
<1>3. Active(t) => Exists(t)
  BY DEF Active, Exists
<1>4. CASE Active(t)
  <2>1. Goto(p, "reject write", {t})
    BY <1>1, <1>2, <1>3, <1>4
  <2>2. pc'[p] = "reject write" /\ arg'[p] = {t} /\ \E x \in Neurons : arg'[p] = {x}
    BY <1>1, <2>1 DEF IInv, TypeOK, Goto
  <2>3. Held(p)'
    BY <1>1, <1>2, <1>3, <1>4, <2>2 DEF Held, Single, Exists, dbVars
  <2>. QED
    BY <1>1, <1>2, <2>1, <2>3, ReadStep DEF Steps
<1>5. CASE Exists(t) /\ ~Active(t)
  <2>1. Goto(p, "unlink rejected", {t})
    BY <1>1, <1>2, <1>5
  <2>2. pc'[p] = "unlink rejected" /\ arg'[p] = {t} /\ \E x \in Neurons : arg'[p] = {x}
    BY <1>1, <2>1 DEF IInv, TypeOK, Goto
  <2>3. Held(p)'
    BY <1>1, <1>2, <1>5, <2>2 DEF Held, Single, Exists, Active, dbVars
  <2>. QED
    BY <1>1, <1>2, <2>1, <2>3, ReadStep DEF Steps
<1>6. CASE ~Exists(t)
  <2>1. Goto(p, "idle", {})
    BY <1>2, <1>3, <1>6
  <2>2. pc'[p] = "idle" /\ arg'[p] = {}
    BY <2>1 DEF IInv, TypeOK, Goto
  <2>3. Held(p)'
    BY <2>2 DEF Held, Single
  <2>. QED
    BY <1>2, <2>1, <2>3, ReadStep DEF Steps
<1>. QED
  BY <1>3, <1>4, <1>5, <1>6

\* An existing neuron retired.
LEMMA RejectWriteStep ==
    ASSUME IInv, NEW p \in Procs, RejectWrite(p)
    PROVE  IInv'
<1>. USE StoreAssumption DEF IInv, Exists, Active
<1>. DEFINE t == Target(p)
<1>a. t \in Neurons /\ arg[p] = {t} /\ t \in used /\ log[t] # <<>>
  <2>1. pc[p] \in Single
    BY DEF RejectWrite, Single
  <2>. QED
    BY <2>1, TheTarget DEF RejectWrite, ArgInv, Held
<1>b. /\ log' \in [Neurons -> Seq(Events)]
      /\ \A m \in Neurons : /\ log'[m] # <<>> <=> log[m] # <<>>
                            /\ log'[m] = <<"created">> <=> log[m] = <<"created">> /\ m # t
  BY <1>a, ForgetLog DEF RejectWrite
<1>. HIDE DEF t
<1>g. /\ writer = None /\ pc[p] = "reject write" /\ Goto(p, "unlink rejected", arg[p])
      /\ UNCHANGED <<conf, succ, from, captured, file, used, txVars, verdicts>>
  BY DEF RejectWrite, Free
<1>1. TypeOK'
  BY <1>a, <1>b, <1>g DEF TypeOK, Steps, Events, Goto, txVars
<1>2. FreshInv'
  BY <1>a, <1>b, <1>g DEF FreshInv, TypeOK, Goto, txVars
<1>3. SuccInv'
  BY <1>a, <1>b, <1>g DEF SuccInv, TypeOK, FreshInv, Goto, txVars
<1>4. ArgInv'
  <2>1. Kept
    BY <1>a, <1>b, <1>g DEF Kept, FreshInv, TypeOK, Goto, txVars
  <2>2. Held(p)'
    BY <1>a, <1>b, <1>g DEF TypeOK, FreshInv, Goto, txVars, Held, Single
  <2>3. PICK l, s : Goto(p, l, s)
    BY <1>a, <1>b, <1>g DEF RejectWrite
  <2>. QED
    BY <2>1, <2>2, <2>3, MoverHolds
<1>5. DraftInv'
  BY <1>a, <1>b, <1>g DEF DraftInv, TypeOK, FreshInv, Goto, txVars
<1>6. VerdictInv'
  BY <1>a, <1>b, <1>g DEF VerdictInv, TypeOK, FreshInv, Goto, txVars
<1>7. OneSuccessor'
  BY <1>a, <1>b, <1>g DEF OneSuccessor, TypeOK, SuccInv, FreshInv, Goto, txVars
<1>8. ReviewNotLost'
  BY <1>a, <1>b, <1>g DEF ReviewNotLost, TypeOK, DraftInv, FreshInv, Goto, txVars
<1>9. OneVerdict'
  BY <1>a, <1>b, <1>g DEF OneVerdict, TypeOK, VerdictInv, Goto, txVars
<1>10. RejectedRetired'
  BY <1>a, <1>b, <1>g
  DEF RejectedRetired, TypeOK, VerdictInv, FreshInv, Goto, txVars
<1>. QED
  BY <1>1, <1>2, <1>3, <1>4, <1>5, <1>6, <1>7, <1>8, <1>9, <1>10

\* The review ended, by the one who finds the file.
LEMMA UnlinkStep ==
    ASSUME IInv, NEW p \in Procs, Unlink(p)
    PROVE  IInv'
<1>. USE StoreAssumption DEF IInv, Exists, Active
<1>. DEFINE t == Target(p)
<1>a. t \in Neurons /\ arg[p] = {t} /\ t \in used
  <2>1. pc[p] \in Single
    BY DEF Unlink, Single
  <2>. QED
    BY <2>1, TheTarget
<1>b. Held(p)
  BY DEF ArgInv
<1>. HIDE DEF t
<1>c. \/ t \notin file /\ UNCHANGED <<file, verdicts>>
      \/ /\ t \in file /\ file' = file \ {t}
         /\ verdicts' = verdicts \cup {<<p, Returned(p), t>>}
  BY <1>a DEF Unlink, t
<1>d. /\ Returned(p) \in {"approve", "reject"}
      /\ Returned(p) = "reject" => pc[p] = "unlink rejected"
      /\ pc[p] \in {"unlink approved", "unlink rejected"} /\ Goto(p, "idle", {})
      /\ UNCHANGED <<dbVars, used, txVars>>
  BY DEF Unlink, Returned
<1>e. \A v \in verdicts' :
         \/ v \in verdicts
         \/ /\ t \in file /\ t \notin file'
            /\ v = <<p, Returned(p), t>> /\ v[1] = p /\ v[2] = Returned(p) /\ v[3] = t
            /\ v \in Procs \X {"approve", "reject"} \X Neurons
  <2>. DEFINE v0 == <<p, Returned(p), t>>
  <2>2. v0[1] = p /\ v0[2] = Returned(p) /\ v0[3] = t
    OBVIOUS
  <2>3. v0 \in Procs \X {"approve", "reject"} \X Neurons
    BY <1>a, <1>d
  <2>. HIDE DEF v0
  <2>4. CASE t \notin file /\ UNCHANGED <<file, verdicts>>
    BY <2>4
  <2>5. CASE /\ t \in file /\ file' = file \ {t}
             /\ verdicts' = verdicts \cup {v0}
    <3>1. \A v \in verdicts' : v \in verdicts \/ v = v0
      BY <2>5
    <3>2. v0 = <<p, Returned(p), t>>
      BY DEF v0
    <3>. QED
      BY <2>2, <2>3, <2>5, <3>1, <3>2
  <2>. QED
    BY <1>c, <2>4, <2>5 DEF v0
<1>f. file' \subseteq file /\ file \ {t} \subseteq file'
  BY <1>c
<1>1. TypeOK'
  <2>1. verdicts' \subseteq Procs \X {"approve", "reject"} \X Neurons /\ file' \subseteq Neurons
    BY <1>e, <1>f DEF TypeOK
  <2>2. /\ pc' \in [Procs -> Steps] /\ arg' \in [Procs -> SUBSET Neurons]
        /\ (writer # None <=> \E q \in Procs : pc[q] = "capture" /\ writer = q)'
    BY <1>d DEF TypeOK, Goto, Steps, txVars
  <2>. QED
    BY <1>d, <2>1, <2>2 DEF TypeOK, dbVars, txVars
<1>2. FreshInv'
  BY <1>a, <1>b, <1>c, <1>d DEF FreshInv, TypeOK, Goto, dbVars, txVars, Held, Single
<1>3. SuccInv'
  BY <1>a, <1>b, <1>c, <1>d
  DEF SuccInv, TypeOK, FreshInv, Goto, dbVars, txVars, Held, Single
<1>4. ArgInv'
  <2>1. Kept
    BY <1>a, <1>b, <1>c, <1>d DEF Kept, FreshInv, TypeOK, Goto, dbVars, txVars
  <2>2. Held(p)'
    BY <1>a, <1>b, <1>c, <1>d
    DEF TypeOK, FreshInv, Goto, dbVars, txVars, Held, Single
  <2>3. PICK l, s : Goto(p, l, s)
    BY <1>a, <1>b, <1>c, <1>d DEF Unlink
  <2>. QED
    BY <2>1, <2>2, <2>3, MoverHolds
<1>5. DraftInv'
  BY <1>a, <1>b, <1>c, <1>d
  DEF DraftInv, TypeOK, FreshInv, Goto, dbVars, txVars, Held, Single
<1>6. VerdictInv'
  <2>1. ASSUME NEW v \in verdicts' PROVE v[3] \in used' /\ v[3] \notin file'
    BY <1>a, <1>d, <1>e, <1>f DEF VerdictInv
  <2>. QED
    BY <2>1 DEF VerdictInv
<1>7. OneSuccessor'
  BY <1>a, <1>b, <1>c, <1>d
  DEF OneSuccessor, TypeOK, SuccInv, FreshInv, Goto, dbVars, txVars, Held, Single
<1>8. ReviewNotLost'
  <2>1. ASSUME NEW n \in captured, log[n] = <<"created">>, conf[n] = "low"
        PROVE  n \in file'
    <3>1. n \in file
      BY <2>1 DEF ReviewNotLost
    <3>2. n # t
      <4>1. CASE pc[p] = "unlink approved"
        <5>1. log[t] # <<>> => conf[t] = "high"
          BY <1>a, <1>b, <4>1 DEF Held
        <5>2. <<"created">> # <<>>
          OBVIOUS
        <5>. QED
          BY <2>1, <5>1, <5>2
      <4>2. CASE pc[p] = "unlink rejected"
        BY <1>a, <1>b, <2>1, <4>2 DEF Held
      <4>. QED
        BY <1>d, <4>1, <4>2
    <3>. QED
      BY <1>f, <3>1, <3>2
  <2>. QED
    BY <1>d, <2>1 DEF ReviewNotLost, dbVars
<1>9. OneVerdict'
  <2>1. ASSUME NEW v \in verdicts', NEW w \in verdicts', v[3] = w[3] PROVE v = w
    <3>1. \A u \in verdicts : u[3] \notin file
      BY DEF VerdictInv
    <3>. QED
      BY <1>e, <2>1, <3>1 DEF OneVerdict
  <2>. QED
    BY <2>1 DEF OneVerdict
<1>10. RejectedRetired'
  <2>1. ASSUME NEW v \in verdicts', v[2] = "reject"
        PROVE  log[v[3]] # <<>> /\ log[v[3]] # <<"created">>
    BY <1>a, <1>b, <1>d, <1>e, <2>1 DEF RejectedRetired, Held
  <2>. QED
    BY <1>d, <2>1 DEF RejectedRetired, dbVars
<1>. QED
  BY <1>1, <1>2, <1>3, <1>4, <1>5, <1>6, <1>7, <1>8, <1>9, <1>10

\* A process gone, its drafts with it.
LEMMA CrashStep ==
    ASSUME IInv, NEW p \in Procs, Crash(p)
    PROVE  IInv'
<1>. USE StoreAssumption DEF IInv, Exists, Active
<1>a. DOMAIN NoDraft = {}
  BY DEF NoDraft
<1>b. \/ writer # p /\ UNCHANGED txVars
      \/ writer = p /\ writer' = None /\ draft' = NoDraft
  BY DEF Crash
<1>c. pc[p] # "idle" /\ Goto(p, "idle", {}) /\ UNCHANGED <<dbVars, file, used, verdicts>>
  BY DEF Crash, Idle
<1>1. TypeOK'
  <2>1. /\ log' \in [Neurons -> Seq({"created", "superseded", "forgotten"})]
        /\ conf' \in [Neurons -> {"low", "high"}] /\ succ' \subseteq Neurons \X Neurons
        /\ from' \in [Neurons -> SUBSET Neurons]
        /\ captured' \subseteq Neurons /\ file' \subseteq Neurons /\ used' \subseteq Neurons
        /\ verdicts' \subseteq Procs \X {"approve", "reject"} \X Neurons
    BY <1>c DEF TypeOK, dbVars
  <2>2. pc' \in [Procs -> Steps] /\ arg' \in [Procs -> SUBSET Neurons]
    BY <1>c DEF TypeOK, Steps, Goto
  <2>3. \A q \in Procs : q # p => pc'[q] = pc[q]
    BY <1>c DEF TypeOK, Goto
  <2>4. CASE writer # p /\ UNCHANGED txVars
    <3>1. (writer # None <=> \E q \in Procs : pc[q] = "capture" /\ writer = q)'
      BY <2>3, <2>4 DEF TypeOK, txVars
    <3>. QED
      BY <2>1, <2>2, <2>4, <3>1 DEF TypeOK, txVars
  <2>5. CASE writer = p /\ writer' = None /\ draft' = NoDraft
    <3>1. (writer # None <=> \E q \in Procs : pc[q] = "capture" /\ writer = q)'
      BY <2>5
    <3>2. DOMAIN draft' \subseteq Neurons /\ \A n \in DOMAIN draft' : draft'[n] \in {"low", "high"}
      BY <1>a, <2>5
    <3>. QED
      BY <2>1, <2>2, <2>5, <3>1, <3>2 DEF TypeOK
  <2>. QED
    BY <1>b, <2>4, <2>5
<1>2. FreshInv'
  BY <1>a, <1>b, <1>c DEF FreshInv, TypeOK, Goto, dbVars, txVars
<1>3. SuccInv'
  BY <1>a, <1>b, <1>c DEF SuccInv, TypeOK, FreshInv, Goto, dbVars, txVars
<1>4. ArgInv'
  <2>1. Kept
    BY <1>a, <1>b, <1>c DEF Kept, FreshInv, TypeOK, Goto, dbVars, txVars
  <2>2. Held(p)'
    BY <1>a, <1>b, <1>c DEF TypeOK, FreshInv, Goto, dbVars, txVars, Held, Single
  <2>3. PICK l, s : Goto(p, l, s)
    BY <1>a, <1>b, <1>c DEF Crash
  <2>. QED
    BY <2>1, <2>2, <2>3, MoverHolds
<1>5. DraftInv'
  BY <1>a, <1>b, <1>c DEF DraftInv, TypeOK, FreshInv, Goto, dbVars, txVars
<1>6. VerdictInv'
  BY <1>a, <1>b, <1>c DEF VerdictInv, TypeOK, FreshInv, Goto, dbVars, txVars
<1>7. OneSuccessor'
  BY <1>a, <1>b, <1>c
  DEF OneSuccessor, TypeOK, SuccInv, FreshInv, Goto, dbVars, txVars
<1>8. ReviewNotLost'
  BY <1>a, <1>b, <1>c
  DEF ReviewNotLost, TypeOK, DraftInv, FreshInv, Goto, dbVars, txVars
<1>9. OneVerdict'
  BY <1>a, <1>b, <1>c DEF OneVerdict, TypeOK, VerdictInv, Goto, dbVars, txVars
<1>10. RejectedRetired'
  BY <1>a, <1>b, <1>c
  DEF RejectedRetired, TypeOK, VerdictInv, FreshInv, Goto, dbVars, txVars
<1>. QED
  BY <1>1, <1>2, <1>3, <1>4, <1>5, <1>6, <1>7, <1>8, <1>9, <1>10

-----------------------------------------------------------------------------
(* The theorems.                                                           *)

\* The store starts empty.
LEMMA InitInv == Init => IInv
<1>. SUFFICES ASSUME Init PROVE IInv
  OBVIOUS
<1>. USE StoreAssumption DEF Init, Exists, Active, NoDraft
<1>1. TypeOK
  <2>1. log \in [Neurons -> Seq({"created", "superseded", "forgotten"})]
    OBVIOUS
  <2>2. (writer # None <=> \E p \in Procs : pc[p] = "capture" /\ writer = p)
    OBVIOUS
  <2>3. DOMAIN draft \subseteq Neurons /\ \A n \in DOMAIN draft : draft[n] \in {"low", "high"}
    OBVIOUS
  <2>4. pc \in [Procs -> Steps] /\ arg \in [Procs -> SUBSET Neurons]
    BY DEF Steps
  <2>5. conf \in [Neurons -> {"low", "high"}] /\ from \in [Neurons -> SUBSET Neurons]
    OBVIOUS
  <2>. QED
    BY <2>1, <2>2, <2>3, <2>4, <2>5 DEF TypeOK
<1>2. FreshInv
  BY DEF FreshInv
<1>3. ArgInv
  BY DEF ArgInv, Held, Single
<1>4. SuccInv /\ DraftInv /\ VerdictInv
  BY DEF SuccInv, DraftInv, VerdictInv
<1>5. OneSuccessor /\ ReviewNotLost /\ OneVerdict /\ RejectedRetired
  BY DEF OneSuccessor, ReviewNotLost, OneVerdict, RejectedRetired
<1>. QED
  BY <1>1, <1>2, <1>3, <1>4, <1>5 DEF IInv

\* The invariant speaks of the variables only.
LEMMA StutterStep ==
    ASSUME IInv, UNCHANGED vars
    PROVE  IInv'
<1>. USE DEF vars, dbVars, txVars, Exists, Active
<1>1. TypeOK'
  BY DEF IInv, TypeOK
<1>2. FreshInv' /\ SuccInv' /\ DraftInv' /\ VerdictInv'
  BY DEF IInv, FreshInv, SuccInv, DraftInv, VerdictInv
<1>3. ArgInv'
  BY DEF IInv, ArgInv, Held
<1>4. OneSuccessor' /\ ReviewNotLost' /\ OneVerdict' /\ RejectedRetired'
  BY DEF IInv, OneSuccessor, ReviewNotLost, OneVerdict, RejectedRetired
<1>. QED
  BY <1>1, <1>2, <1>3, <1>4 DEF IInv

\* Every step of every process keeps the invariant.
LEMMA NextStep ==
    ASSUME IInv, [Next]_vars
    PROVE  IInv'
<1>1. ASSUME NEW p \in Procs, NEW n \in Neurons, NEW olds \in SUBSET Neurons, Remember(p,
             n, olds)
      PROVE  IInv'
  BY <1>1, RememberStep
<1>2. ASSUME NEW p \in Procs, NEW n \in Neurons, ArchiveRead(p, n)
      PROVE  IInv'
  BY <1>2, ArchiveReadStep
<1>3. ASSUME NEW p \in Procs, NEW n \in Neurons, NEW c \in {"low", "high"},
             CaptureNeuron(p, n, c)
      PROVE  IInv'
  BY <1>3, CaptureNeuronStep
<1>4. ASSUME NEW p \in Procs, NEW n \in Neurons, NEW v \in {"approve", "reject"},
             ReviewOpens(p, n, v)
      PROVE  IInv'
  BY <1>4, ReviewOpensStep
<1>5. ASSUME NEW p \in Procs, ArchiveWrite(p) PROVE IInv'
  BY <1>5, ArchiveWriteStep
<1>6. ASSUME NEW p \in Procs, ConsolidateRead(p) PROVE IInv'
  BY <1>6, ConsolidateReadStep
<1>7. ASSUME NEW p \in Procs, ConsolidateWrite(p) PROVE IInv'
  BY <1>7, ConsolidateWriteStep
<1>8. ASSUME NEW p \in Procs, CaptureBegin(p) PROVE IInv'
  BY <1>8, CaptureBeginStep
<1>9. ASSUME NEW p \in Procs, NEW noisy \in SUBSET Neurons, CaptureCommit(p,
             noisy) PROVE IInv'
  BY <1>9, CaptureCommitStep
<1>10. ASSUME NEW p \in Procs, Approve(p) PROVE IInv'
  BY <1>10, ApproveStep
<1>11. ASSUME NEW p \in Procs, RejectRead(p) PROVE IInv'
  BY <1>11, RejectReadStep
<1>12. ASSUME NEW p \in Procs, RejectWrite(p) PROVE IInv'
  BY <1>12, RejectWriteStep
<1>13. ASSUME NEW p \in Procs, Unlink(p) PROVE IInv'
  BY <1>13, UnlinkStep
<1>14. ASSUME NEW p \in Procs, Crash(p) PROVE IInv'
  BY <1>14, CrashStep
<1>15. CASE UNCHANGED vars
  BY <1>15, StutterStep
<1>. QED
  BY <1>1, <1>2, <1>3, <1>4, <1>5, <1>6, <1>7, <1>8, <1>9, <1>10, <1>11, <1>12,
     <1>13, <1>14, <1>15 DEF Next

\* The inductive invariant holds throughout.
THEOREM Invariance == Spec => []IInv
<1>. QED
  BY InitInv, NextStep, PTL DEF Spec

\* Every state of the store is well formed; in particular an open transaction
\* that spans steps belongs to the one process that is capturing.
THEOREM TypeCorrect == Spec => []TypeOK
<1>1. IInv => TypeOK
  BY DEF IInv
<1>. QED
  BY <1>1, Invariance, PTL

\* For any number of processes that correct, supersede and consolidate, on
\* what they read at any time before: history never forks.
THEOREM LinearHistory == Spec => []OneSuccessor
<1>1. IInv => OneSuccessor
  BY DEF IInv
<1>. QED
  BY <1>1, Invariance, PTL

\* No crash, rollback or race makes a doubtful captured memory escape review:
\* its file is there before it is committed, and goes after its verdict.
THEOREM ReviewsKept == Spec => []ReviewNotLost
<1>1. IInv => ReviewNotLost
  BY DEF IInv
<1>. QED
  BY <1>1, Invariance, PTL

\* However many reviewers decide on a neuron at once, one hears of success.
THEOREM SingleVerdict == Spec => []OneVerdict
<1>1. IInv => OneVerdict
  BY DEF IInv
<1>. QED
  BY <1>1, Invariance, PTL

\* What a reviewer was told is rejected is retired and never comes back.
THEOREM RejectionHolds == Spec => []RejectedRetired
<1>1. IInv => RejectedRetired
  BY DEF IInv
<1>. QED
  BY <1>1, Invariance, PTL
=============================================================================
