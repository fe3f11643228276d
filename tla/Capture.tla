------------------------------ MODULE Capture ------------------------------
(***************************************************************************)
(* How transcripts get into the brain.  A host appends rounds to the       *)
(* transcripts of its sessions; SessionEnd, `brainkm capture` and the      *)
(* Codex sweep capture one unless its bytes were ingested before, and      *)
(* PreCompact, PreInvocation, idle Stop and the checkpoint tool hand one   *)
(* over, whatever was ingested.  Captors run side by side.  Each reads the *)
(* file twice before its first write takes the database's lock; the rest,  *)
(* distilling included, is one transaction.  What the distiller makes of a *)
(* round is any choice; how a transcript is parsed and redacted, the       *)
(* episode's digest and the review queue (NeuronStore) are left out.       *)
(***************************************************************************)
EXTENDS Integers, Sequences, FiniteSets, SequencesExt

CONSTANTS
    Captors, Scripts, Ids, \* hook, command and server processes; transcripts; session ids
    Talk,                  \* what a round can say; equal rounds have equal bytes
    Long, Durable,         \* compressed when stored; of the subtypes of a handover
    Nil,                   \* no fingerprint; a body that no distilled one equals
    Recent,                \* existing_neuron_fingerprints' limit
    MaxRounds, MaxMade, MaxCopies \* bounds: rounds of a transcript, neurons,
                                  \* copies of a message

ASSUME CaptureAssumption ==
    /\ Long \subseteq Talk /\ Durable \subseteq Talk
    /\ Nil \notin Talk
    /\ Recent \in Nat \ {0}
    /\ MaxRounds \in Nat /\ MaxMade \in Nat /\ MaxCopies \in Nat

VARIABLES
    script,    \* script[t]: the rounds of a transcript so far
    chunks,    \* chunks[s][c]: how often a message is stored for a session
    ingested,  \* ingested[s]: the fingerprint of what was captured last
    made,      \* the memories, by updated_at
    captor     \* captor[p]: what a process has read

brain == <<chunks, ingested, made>>
captureVars == <<script, brain, captor>>

Resting == [at |-> "rest"]

CaptureInit ==
    /\ script = [t \in Scripts |-> << >>]
    /\ chunks = [s \in Ids |-> [c \in Talk |-> 0]] /\ ingested = [s \in Ids |-> Nil]
    /\ made = << >>
    /\ captor = [p \in Captors |-> Resting]

Moves(p, what) == captor' = [captor EXCEPT ![p] = what]

\* The agent and its user go on.
Round(t, c) ==
    /\ Len(script[t]) < MaxRounds
    /\ script' = [script EXCEPT ![t] = Append(@, c)]
    /\ UNCHANGED <<brain, captor>>

-----------------------------------------------------------------------------
(* capture_transcript_file                                                 *)

\* The bytes are read for the fingerprint ...
CaptureBegins(p, t, s, by) ==
    /\ captor[p] = Resting
    /\ Moves(p, [at |-> "parse", script |-> t, session |-> s, by |-> by,
                 mark |-> script[t], rounds |-> << >>])
    /\ UNCHANGED <<script, brain>>

Duplicate(p) == captor[p].by = "end" /\ \E s \in Ids : ingested[s] = captor[p].mark

\* ... and once more to be parsed; what was ingested ends the capture here.
CaptureParses(p) ==
    /\ captor[p].at = "parse"
    /\ Moves(p, IF Duplicate(p) THEN Resting
                ELSE [captor[p] EXCEPT !.at = "write", !.rounds = script[captor[p].script]])
    /\ UNCHANGED <<script, brain>>

\* Faulty form: the file is read for its fingerprint when all is done.
MarkedAtTheEnd(p) == script[captor[p].script]

Marked(p) == captor[p].mark

\* ORDER BY updated_at DESC LIMIT Recent.
Latest ==
    {i \in DOMAIN made :
        made[i].active /\ Cardinality({k \in DOMAIN made : k > i /\ made[k].active}) < Recent}

\* The fingerprints of the latest memories, of the bodies as they are stored.
Seen == {made[i].of : i \in Latest}

\* A handover keeps the durable subtypes only.
Allowed(p) == IF captor[p].by = "end" THEN Talk ELSE Durable

Memory(c) == [of |-> c, active |-> TRUE]

\* A body that is compressed when it is stored is not the distilled one any more.
Made(c) == Memory(IF c \in Long THEN Nil ELSE c)

Times(c, q) == Cardinality({k \in DOMAIN q : q[k] = c})

\* persist_message_chunks: every message, under fresh ids, stored before or not.
Stored(s, q) == [chunks EXCEPT ![s] = [c \in Talk |-> chunks[s][c] + Times(c, q)]]

\* Chunks, what the distiller (or the rules, when it is too slow) made of the
\* rounds and was not there yet, and the fingerprint, in one transaction.
CaptureWrites(p) ==
    /\ captor[p].at = "write"
    /\ \A s \in Ids \ {captor[p].session} : ingested[s] # Marked(p)
    /\ chunks' = Stored(captor[p].session, captor[p].rounds)
    /\ \A c \in Talk : chunks'[captor[p].session][c] <= MaxCopies
    /\ ingested' = [ingested EXCEPT ![captor[p].session] = Marked(p)]
    /\ \E distilled \in SUBSET ToSet(captor[p].rounds) :
          LET new == (distilled \ Seen) \cap Allowed(p)
          IN /\ Len(made) + Cardinality(new) <= MaxMade
             /\ made' = made \o [k \in 1 .. Cardinality(new) |-> Made(SetToSeq(new)[k])]
             /\ Moves(p, IF captor[p].by # "end" /\ new = {} /\ captor[p].rounds # << >>
                         THEN [captor[p] EXCEPT !.at = "context"] ELSE Resting)
    /\ UNCHANGED script

\* _maybe_add_context_neuron: a handover without a new neuron notes the latest
\* turn, in words of its own and looking at no fingerprint.
AddContextNeuron(p) ==
    /\ captor[p].at = "context" /\ Len(made) < MaxMade
    /\ made' = Append(made, Memory(Nil))
    /\ Moves(p, Resting)
    /\ UNCHANGED <<script, chunks, ingested>>

\* Killed, locked out for too long, or a fingerprint that another session has
\* (the column is UNIQUE, the upsert is by session): the transaction is rolled
\* back.
CaptureFails(p) ==
    /\ captor[p] # Resting /\ Moves(p, Resting)
    /\ UNCHANGED <<script, brain>>

\* Any other memory: remembered, observed, merged.
Remembers ==
    /\ Len(made) < MaxMade
    /\ made' = Append(made, Memory(Nil))
    /\ UNCHANGED <<script, chunks, ingested, captor>>

\* A recall touches a memory: it becomes the latest.
Touches(i) ==
    /\ made[i].active /\ i # Len(made)
    /\ made' = [k \in DOMAIN made |-> IF k < i THEN made[k]
                                      ELSE IF k = Len(made) THEN made[i] ELSE made[k + 1]]
    /\ UNCHANGED <<script, chunks, ingested, captor>>

\* A review, a consolidation or the decay retires a neuron.
Retires(i) ==
    /\ made[i].active
    /\ made' = [made EXCEPT ![i] = [of |-> Nil, active |-> FALSE]]
    /\ UNCHANGED <<script, chunks, ingested, captor>>

CaptureNext ==
    \/ \E t \in Scripts, c \in Talk : Round(t, c)
    \/ \E p \in Captors :
          \/ \E t \in Scripts, s \in Ids, by \in {"end", "handover"} :
                CaptureBegins(p, t, s, by)
          \/ CaptureParses(p) \/ CaptureWrites(p) \/ AddContextNeuron(p) \/ CaptureFails(p)
    \/ \E i \in DOMAIN made : Retires(i) \/ Touches(i)
    \/ Remembers

CaptureSpec == CaptureInit /\ [][CaptureNext]_captureVars

-----------------------------------------------------------------------------
\* Every variable keeps its type.
CaptureTypeOK ==
    /\ script \in [Scripts -> Seq(Talk)] /\ chunks \in [Ids -> [Talk -> Nat]]
    /\ ingested \in [Ids -> Seq(Talk) \cup {Nil}]
    /\ made \in Seq([of : Talk \cup {Nil}, active : BOOLEAN])

\* A transcript that counts as ingested is stored to its last message, each as
\* often as it was said, even if it grew while it was captured: the next
\* SessionEnd will skip it.  (It may be stored more than once: every capture of
\* it and every handover stores all its messages again.)
IngestedIsStored ==
    \A s \in Ids : ingested[s] # Nil =>
        \A c \in Talk : Times(c, ingested[s]) <= chunks[s][c]

\* "Capture fingerprints title+body to skip duplicates"
\* (docs/AI_PROJECT_BRIEF.md:333): no two active neurons say the same, however
\* often and from however many processes a transcript is captured.  That is
\* so while there are no more than Recent memories (500), and of bodies that are
\* stored as they are, not of compressed ones and of a handover's context.
CapturedOnce ==
    Len(made) <= Recent =>
        \A i, j \in DOMAIN made :
            i # j /\ made[i].active /\ made[j].active => made[i].of # made[j].of \/ made[i].of = Nil

\* What is captured is captured whole and, within the window of the fingerprints,
\* distilled once.
WholeAndOnce == IngestedIsStored /\ CapturedOnce
=============================================================================
