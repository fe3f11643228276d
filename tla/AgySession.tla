----------------------------- MODULE AgySession -----------------------------
(***************************************************************************)
(* What Antigravity's hooks know of a conversation from hook to hook.      *)
(* PreInvocation injects the pack unless the conversation has it, idle     *)
(* Stop distills unless that was done a moment ago; both go by an entry of *)
(* one JSON file that every hook of every conversation reads, changes and  *)
(* writes whole, without a lock and truncating it first.  A conversation's *)
(* hooks may overlap, for a handover takes as long as its distiller.       *)
(* Which pack a hook finds, and whether a PreInvocation hands over first,  *)
(* are any choice; what a handover does is Capture.                        *)
(***************************************************************************)
EXTENDS Integers, FiniteSets

CONSTANTS
    Agents, Talks,     \* hook processes, the conversations that are followed
    Packs, NoPack,     \* pack hashes
    EveryN, Debounce,  \* agy_reinject_every_n; DEFAULT_STOP_DEBOUNCE_SECONDS
    MaxTurns, MaxClock \* bounds

ASSUME AgyAssumption ==
    /\ EveryN \in Nat /\ Debounce \in Nat \ {0} /\ NoPack \notin Packs
    /\ MaxTurns \in Nat \ {0} /\ MaxClock \in Nat \ {0}

VARIABLES
    file,     \* agy_sessions.json; a conversation without an entry has New
    shadow,   \* the file an older installation left in .agents/.brain
    agent,    \* agent[p]: what a hook process is about to do
    turn,     \* turn[c]: the invocations so far
    clock,
    sent,     \* history: sent[c][k], the last invocation that injected k, or -1
    tried     \* history: tried[c], when the last handover of a Stop ended or failed

history == <<sent, tried>>
agyVars == <<file, shadow, agent, turn, clock, history>>

New == [inject |-> -1, pack |-> NoPack, boot |-> FALSE, distill |-> 0]
Empty == [c \in Talks |-> New]
Out == [at |-> "out"]

\* The shadow's conversations had a pack, and some of them a distill.
AgyInit ==
    /\ file = Empty /\ clock = 1
    /\ \E known \in SUBSET Talks, k \in Packs, at \in 0 .. 1 :
          /\ shadow = [c \in Talks |->
                         IF c \in known THEN [inject |-> 0, pack |-> k, boot |-> TRUE,
                                              distill |-> at]
                         ELSE New]
          /\ turn = [c \in Talks |-> IF c \in known THEN 1 ELSE 0]
          /\ sent = [c \in Talks |-> [h \in Packs |-> IF c \in known /\ h = k THEN 0 ELSE -1]]
          /\ tried = [c \in Talks |-> IF c \in known THEN at ELSE 0]
    /\ agent = [p \in Agents |-> Out]

Turns(p, what) == agent' = [agent EXCEPT ![p] = what]

Time ==
    /\ clock < MaxClock /\ clock' = clock + 1
    /\ UNCHANGED <<file, shadow, agent, turn, history>>

-----------------------------------------------------------------------------
(* The file                                                                *)

\* save_agy_session loads what others have written ...
SaveLoads(p) ==
    /\ agent[p].at = "save"
    /\ Turns(p, [agent[p] EXCEPT !.at = "truncate",
                                 !.all = [file EXCEPT ![agent[p].talk] = agent[p].entry]])
    /\ UNCHANGED <<file, shadow, turn, clock, history>>

\* ... and write_text truncates: until it is written, whoever loads the file
\* finds no entry (the JSON does not parse).
Truncates(p) ==
    /\ agent[p].at = "truncate"
    /\ file' = Empty
    /\ Turns(p, [agent[p] EXCEPT !.at = "write"])
    /\ UNCHANGED <<shadow, turn, clock, history>>

\* What PreInvocation injects is printed once its entry is written.
Writes(p) ==
    /\ agent[p].at = "write"
    /\ file' = agent[p].all
    /\ Turns(p, IF agent[p].next = "out" THEN Out
                ELSE [agent[p] EXCEPT !.at = agent[p].next, !.all = Empty])
    /\ sent' = IF agent[p].hook = "inject"
               THEN [sent EXCEPT ![agent[p].talk][agent[p].entry.pack] =
                                     IF @ > agent[p].turn THEN @ ELSE agent[p].turn]
               ELSE sent
    /\ UNCHANGED <<shadow, turn, clock, tried>>

\* The same from a hook of a conversation outside Talks: it writes back what it
\* loaded of theirs.
OtherTalkSaves(p) ==
    /\ agent[p] = Out
    /\ Turns(p, [at |-> "truncate", hook |-> "other", all |-> file, next |-> "out"])
    /\ UNCHANGED <<file, shadow, turn, clock, history>>

\* _merge_agy_session_states: the fresher distill wins.
Fresher == {c \in Talks : shadow[c] # New /\ shadow[c].distill >= file[c].distill}
MergedStates == [c \in Talks |-> IF c \in Fresher THEN shadow[c] ELSE file[c]]

-----------------------------------------------------------------------------
(* PreInvocation                                                           *)

Holds(at, hook, c, n, next) ==
    [at |-> at, hook |-> hook, talk |-> c, turn |-> n, entry |-> New, all |-> Empty,
     next |-> next]

\* heal_antigravity_wiring comes first and merges the shadow's file ...
PreInvocation(p, c) ==
    /\ agent[p] = Out /\ turn[c] < MaxTurns
    /\ turn' = [turn EXCEPT ![c] = @ + 1]
    /\ Turns(p, IF shadow = Empty THEN Holds("load", "inject?", c, turn[c], "out")
                ELSE [Holds(IF Fresher = {} THEN "rmtree" ELSE "truncate",
                            "heal", c, turn[c], "rmtree") EXCEPT !.all = MergedStates])
    /\ UNCHANGED <<file, shadow, clock, history>>

\* ... before it removes the shadow.
HealEnds(p) ==
    /\ agent[p].at = "rmtree"
    /\ shadow' = Empty
    /\ Turns(p, Holds("load", "inject?", agent[p].talk, agent[p].turn, "out"))
    /\ UNCHANGED <<file, turn, clock, history>>

Loads(p) ==
    /\ agent[p].at = "load"
    /\ \E next \in {"decide", "save"} :
          Turns(p, [agent[p] EXCEPT !.at = next, !.entry = file[agent[p].talk],
                                    !.next = IF next = "save" THEN "decide" ELSE "out"])
    /\ UNCHANGED <<file, shadow, turn, clock, history>>

\* Faulty form: the same pack is not sent again.
Forever(entry, n, k) == ~entry.boot \/ n = 0 \/ k # entry.pack

ShouldInjectPack(entry, n, k) ==
    \/ ~entry.boot \/ n = 0
    \/ k # entry.pack
    \/ EveryN > 0 /\ n - entry.inject >= EveryN

\* k is the hash of the frozen pack, or of a new one after a handover.
Decides(p) ==
    /\ agent[p].at = "decide"
    /\ \E k \in Packs :
          LET had == agent[p].entry IN
          Turns(p, IF ShouldInjectPack(had, agent[p].turn, k)
                   THEN [agent[p] EXCEPT !.at = "save", !.hook = "inject", !.next = "out",
                            !.entry = [had EXCEPT !.inject = agent[p].turn, !.pack = k,
                                                  !.boot = TRUE]]
                   ELSE [at |-> "throttled", talk |-> agent[p].talk,
                         turn |-> agent[p].turn, pack |-> k])
    /\ UNCHANGED <<file, shadow, turn, clock, history>>

-----------------------------------------------------------------------------
(* Stop                                                                    *)

ShouldRunDistill(entry, idle, force) ==
    \/ force
    \/ idle /\ (entry.distill = 0 \/ clock - entry.distill >= Debounce)

\* The entry is read, and after a transaction of Observations looked at.
StopLoads(p, c) ==
    /\ agent[p] = Out
    /\ Turns(p, [Holds("stop", "distill", c, turn[c], "out") EXCEPT !.entry = file[c]])
    /\ UNCHANGED <<file, shadow, turn, clock, history>>

StopDecides(p) ==
    /\ agent[p].at = "stop"
    /\ \E idle, force \in BOOLEAN :
          Turns(p, CASE ShouldRunDistill(agent[p].entry, idle, force)
                          -> [agent[p] EXCEPT !.at = "handover"]
                     [] ~ShouldRunDistill(agent[p].entry, idle, force) /\ idle
                          -> [at |-> "debounced", talk |-> agent[p].talk, since |-> clock]
                     [] OTHER -> Out)
    /\ UNCHANGED <<file, shadow, turn, clock, history>>

\* All transcripts were handed over, or not: a handover may raise, which is only
\* logged, or be switched off.  The entry is stamped as distilled either way.
HandoverEnds(p) ==
    /\ agent[p].at = "handover"
    /\ tried' = [tried EXCEPT ![agent[p].talk] = clock]
    /\ Turns(p, [agent[p] EXCEPT !.at = "save", !.entry.distill = clock])
    /\ UNCHANGED <<file, shadow, turn, clock, sent>>

\* A hook ends, throttled, debounced or killed, or a Stop finds no transcript.
Ends(p) ==
    /\ agent[p] # Out /\ Turns(p, Out)
    /\ UNCHANGED <<file, shadow, turn, clock, history>>

AgyNext ==
    \/ Time
    \/ \E p \in Agents :
          \/ OtherTalkSaves(p)
          \/ \E c \in Talks : PreInvocation(p, c) \/ StopLoads(p, c)
          \/ HealEnds(p) \/ Loads(p) \/ Decides(p)
          \/ StopDecides(p) \/ HandoverEnds(p)
          \/ SaveLoads(p) \/ Truncates(p) \/ Writes(p) \/ Ends(p)

AgySpec == AgyInit /\ [][AgyNext]_agyVars

-----------------------------------------------------------------------------
Entry == [inject : -1 .. MaxTurns, pack : Packs \cup {NoPack}, boot : BOOLEAN,
          distill : 0 .. MaxClock]

\* Every variable keeps its type.
AgyTypeOK ==
    /\ file \in [Talks -> Entry] /\ shadow \in [Talks -> Entry]
    /\ turn \in [Talks -> 0 .. MaxTurns] /\ clock \in 0 .. MaxClock
    /\ sent \in [Talks -> [Packs -> -1 .. MaxTurns]]
    /\ tried \in [Talks -> 0 .. MaxClock]

\* What the hooks skip was done, or tried: a throttled PreInvocation has a pack
\* that its conversation was sent within the last agy_reinject_every_n
\* invocations (or ever, when that is 0), and an idle Stop that does not distill
\* follows a handover by less than the debounce, though maybe one that failed,
\* which is not tried again before the debounce is over.  Entries that are
\* overwritten, torn, forgotten or merged from the shadow cost repeats, never a
\* pack or an attempt.  (A hook killed after it wrote its entry printed nothing.)
SkippedWasTried ==
    \A p \in Agents :
        /\ agent[p].at = "throttled" =>
              LET last == sent[agent[p].talk][agent[p].pack]
              IN last >= 0 /\ (EveryN = 0 \/ agent[p].turn - last < EveryN)
        /\ agent[p].at = "debounced" =>
              /\ tried[agent[p].talk] > 0
              /\ agent[p].since - tried[agent[p].talk] < Debounce
=============================================================================
