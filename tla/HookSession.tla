---------------------------- MODULE HookSession ----------------------------
(***************************************************************************)
(* Which session the last hook ran for.  Hooks write it, with its          *)
(* transcript, to one row of brain_runtime; the server reads the row, or a *)
(* copy of some seconds ago, twice for a checkpoint: to know the session   *)
(* of a call that names none, and, once the write queue runs the call, its *)
(* transcript.  What a checkpoint then does is a handover of Capture.      *)
(***************************************************************************)
EXTENDS Integers, FiniteSets

CONSTANTS HookIds, Paths, Blank \* session ids, transcripts, and none of them

VARIABLES
    lastHook,  \* the row
    cached,    \* the server's copy of it, Blank when that is too old
    announced, \* history: announced[s], the transcripts hooks named for s
    asked,     \* the sessions of the checkpoints that wait, Blank for none
    handed     \* history: what checkpoints handed over, and filed for whom

hookVars == <<lastHook, cached, announced, asked, handed>>

HookInit ==
    /\ lastHook = Blank /\ cached = Blank
    /\ announced = [s \in HookIds |-> {}] /\ asked = {} /\ handed = {}

\* Faulty form: the path stays when another session takes the row.
KeptPath(s, t) == IF t = Blank /\ lastHook # Blank THEN lastHook.script ELSE t

\* A hook that names no transcript keeps the one its session had in the row.
PathToKeep(s, t) ==
    IF t = Blank /\ lastHook # Blank /\ lastHook.session = s THEN lastHook.script ELSE t

\* SessionStart, UserPromptSubmit and PreInvocation; t is Blank when the payload
\* has no path.  The server's copy stays.
SetLastHookSession(s, t) ==
    /\ lastHook' = [session |-> s, script |-> PathToKeep(s, t)]
    /\ announced' = [announced EXCEPT ![s] = @ \cup ({t} \ {Blank})]
    /\ UNCHANGED <<cached, asked, handed>>

CacheExpires ==
    /\ cached # Blank /\ cached' = Blank
    /\ UNCHANGED <<lastHook, announced, asked, handed>>

GetLastHookSession == IF cached = Blank THEN lastHook ELSE cached

\* What a look at the row finds: nothing when it is older than a day.
Found == {GetLastHookSession, Blank}

Copied(row) == cached' = IF cached = Blank THEN row ELSE cached

\* A call names its session ...
Asks(s) ==
    /\ asked' = asked \cup {s}
    /\ UNCHANGED <<lastHook, cached, announced, handed>>

\* ... or is taken for the one that the row names, if there is one.
AsksInferred ==
    \E row \in Found :
        /\ Copied(row)
        /\ asked' = asked \cup {IF row = Blank THEN Blank ELSE row.session}
        /\ UNCHANGED <<lastHook, announced, handed>>

\* Only the row's own session gets its transcript, but a call without one gets
\* whatever is there.
Accepted(s, row) == row # Blank /\ row.script # Blank /\ s \in {row.session, Blank}

\* run_handover files what has no session under the transcript's own name.
FiledFor(s, t) == IF s = Blank THEN t ELSE s

Checkpoint(s) ==
    \E row \in Found :
        /\ s \in asked /\ asked' = asked \ {s}
        /\ Copied(row)
        /\ handed' = IF Accepted(s, row)
                     THEN handed \cup {<<FiledFor(s, row.script), row.script>>} ELSE handed
        /\ UNCHANGED <<lastHook, announced>>

HookNext ==
    \/ \E s \in HookIds :
          \/ \E t \in Paths \cup {Blank} : SetLastHookSession(s, t)
          \/ Asks(s)
    \/ AsksInferred
    \/ \E s \in HookIds \cup {Blank} : Checkpoint(s)
    \/ CacheExpires

HookSpec == HookInit /\ [][HookNext]_hookVars

-----------------------------------------------------------------------------
Rows == [session : HookIds, script : Paths \cup {Blank}] \cup {Blank}

\* Every variable keeps its type.
HookTypeOK ==
    /\ lastHook \in Rows /\ cached \in Rows
    /\ announced \in [HookIds -> SUBSET Paths] /\ asked \subseteq HookIds \cup {Blank}
    /\ handed \subseteq (HookIds \cup Paths) \X Paths

\* "An old session's transcript path must never leak into a new one"
\* (services/hook_session.py:96): what a checkpoint files for a session is a
\* transcript that a hook named for that very session, whichever sessions take
\* turns, however old the server's copy is and however long the call waits.
\* A call that names no session, made when no hook was known, has none: it gets
\* the transcript of whoever has the row by then, under that transcript's name.
OwnTranscript ==
    \A h \in handed :
        h[1] = h[2] \/ (h[1] \in HookIds /\ h[2] \in announced[h[1]])
=============================================================================
