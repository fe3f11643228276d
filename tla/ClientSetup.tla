---------------------------- MODULE ClientSetup ----------------------------
(***************************************************************************)
(* The wiring of a project's AI clients: the configuration files they      *)
(* share with the user, which `brainkm install`, `connect` and `uninstall` *)
(* edit file by file, and the git hooks.  A JSON or text file is rewritten *)
(* in place: it is empty between the truncation and the write, and stays   *)
(* so if the command dies there.  Meanwhile every SessionStart of a Claude *)
(* session mends settings.local.json and settings.json behind the          *)
(* command's back, from what it read.  No lock orders the two.             *)
(*                                                                         *)
(* A file is the sequence of the entries in it: an MCP server, a group of  *)
(* hooks, a passage of text; << >> is no file, or an empty text file.      *)
(* Left out: rules and skills, which are brainkm's own files and written   *)
(* whole, .brain and .gitignore, ~/.claude.json, hook groups in which the  *)
(* user's commands and brainkm's share a matcher, and the post-commit and  *)
(* post-merge hooks, which come and go with post-checkout.                 *)
(***************************************************************************)
EXTENDS Integers, Sequences, FiniteSets, SequencesExt, TLC

CONSTANTS
    Clients, Claude, \* clients; the one whose sessions heal their settings
    Lenient,         \* whose MCP file is taken for an empty one when it is cut off
    Dropping,        \* of which an older version had hooks that this one has not
    Md,              \* the CLAUDE.md or AGENTS.md of each client
    Healers,         \* SessionStarts of Claude sessions
    None,
    MaxCommands      \* bound

VARIABLES
    file,    \* what is in each file
    cmd,     \* the command that is running: its client or clients, what it has
             \* yet to do, client by client, and what it is writing
    heal,    \* a SessionStart's look at the file it is about to replace
    status,  \* what the last command about a client came to
    mine,    \* history: <<f, e>>: the user has e in f, and nothing has cost it
    back,    \* history: files a heal has written since they were last stripped
    commands \* how many have been run

setupVars == <<file, cmd, heal, status, mine, back, commands>>

Mcp(c) == <<c, "mcp">>
HookFile(c) == <<c, "hooks">>
Local == <<Claude, "local">>
Json == {Mcp(c) : c \in Clients} \cup {HookFile(c) : c \in Clients} \cup {Local}
PostCheckout == <<"git", "post-checkout">>
Guides == {Md[c] : c \in Clients}
Texts == Guides \cup {PostCheckout}
Files == Json \cup Texts

\* "notes": what the user adds to the snippet's section, "chapter": below it,
\* under a heading of its own; "stray": the `fi` that the strip of a post-checkout
\* block leaves; "stale": hooks of an older version that this one has others for;
\* "dropped": those under an event that this version does not wire any more.
Entries == {"user", "notes", "chapter", "ours", "stale", "dropped", "stray", "torn"}
Brainkm == {"ours", "stale", "dropped"}
Replaced == {"ours", "stale"}
Has(f, e) == e \in ToSet(file[f])

Tasks == [do : {"merge", "snippet", "permit", "strip"}, on : Files, force : BOOLEAN]
Doings == [of : SUBSET Clients, todo : Seq(Seq(Tasks)), new : Seq(Entries) \cup {None},
           result : {"installed", "removed"}]
Looks == [on : Files, read : Seq(Entries)]

ASSUME SetupAssumption ==
    /\ IsFiniteSet(Clients) /\ Claude \in Clients \ Lenient /\ Lenient \subseteq Clients
    /\ Dropping \subseteq Clients
    /\ DOMAIN Md = Clients /\ MaxCommands \in Nat
    \* CLAUDE.md and AGENTS.md are files of their own
    /\ \A c \in Clients : Md[c] \notin Json \cup {PostCheckout}
    \* None is no command, no text and no look at a file
    /\ None \notin Doings /\ None \notin Seq(Entries) /\ None \notin Looks

\* Cut off between the truncation and the write: JSON does not parse.
Torn(f) == IF f \in Json THEN <<"torn">> ELSE << >>

\* The user has entries in all of the files or in none; in the first case an
\* older version of brainkm may be installed for every client.
Earlier(own, old, f) ==
    (IF own THEN <<"user">> ELSE << >>) \o
    (CASE \E c \in old \cap Dropping : f = HookFile(c) -> <<"stale", "dropped">>
       [] \E c \in old \ Dropping : f = HookFile(c) -> <<"stale">>
       [] \E c \in old : f \in {Mcp(c), Md[c], PostCheckout} -> <<"ours">>
       [] f = Local /\ Claude \in old -> <<"ours">>
       [] OTHER -> << >>)

Init ==
    /\ \E own \in BOOLEAN : \E old \in IF own THEN {{}, Clients} ELSE {{}} :
        /\ file = [f \in Files |-> Earlier(own, old, f)]
        /\ mine = IF own THEN Files \X {"user"} ELSE {}
        /\ status = [c \in Clients |-> IF c \in old THEN "pending" ELSE "never"]
    /\ cmd = None /\ heal = [h \in Healers |-> None]
    /\ back = {} /\ commands = 0

-----------------------------------------------------------------------------
(* What is done to a file                                                  *)

\* What is in x and not in S, in its order: SelectSeq in a closed form, which
\* proofs can use.
Without(x, S) ==
    LET kept == {i \in DOMAIN x : x[i] \notin S}
        Nth(n) == CHOOSE i \in kept : Cardinality({j \in kept : j <= i}) = n
    IN [n \in 1 .. Cardinality(kept) |-> x[Nth(n)]]

\* Faulty form: only what this version has written is brainkm's.
StrippedCurrent(f, x) == Without(x, {"ours"})

\* The block of post-checkout ends in two `fi`; who takes it out takes the first.
Cleaned(f, x, gone) ==
    LET kept == Without(x, gone)
    IN IF f = PostCheckout /\ "ours" \in ToSet(x) /\ "stray" \notin ToSet(x)
       THEN Append(kept, "stray") ELSE kept

\* The snippet's section: to the next heading of its level, or to the end.
Section(x) ==
    {x[i] : i \in {j \in DOMAIN x : \E k \in 1 .. j :
        x[k] = "ours" /\ \A l \in k .. j : x[l] # "chapter"}}

\* Without brainkm's groups or block, whatever version's; the snippet goes with
\* its section.
Stripped(f, x) == Cleaned(f, x, IF f \in Guides THEN Brainkm \cup Section(x) ELSE Brainkm)

\* Faulty form: appended to what is there.
MergedAgain(f, x) == Append(x, "ours")

\* Faulty form: the groups of an older version are left in place.
MergedBeside(f, x) == IF "ours" \in ToSet(x) THEN x ELSE Append(x, "ours")

\* Event by event of those that this version wires: groups under another stay.
Merged(f, x) == Append(Cleaned(f, x, Replaced), "ours")

\* Faulty form: the replaced file starts with the snippet.
SnippetOnly(x, force) ==
    IF "ours" \in ToSet(x) /\ ~force THEN x ELSE <<"ours">>

\* Without --force a snippet that is there stays; with it, it is replaced
\* together with everything below.
Snippet(x, force) ==
    CASE "ours" \notin ToSet(x) -> Append(x, "ours")
      [] "ours" \in ToSet(x) /\ ~force -> x
      [] OTHER -> SubSeq(x, 1, CHOOSE i \in DOMAIN x : x[i] = "ours")

\* settings.local.json: what does not parse counts as nothing.
Permitted(x) ==
    IF "ours" \in ToSet(x) THEN x
    ELSE IF x = Torn(Local) THEN <<"ours">> ELSE Append(x, "ours")

Edited(task, x) ==
    CASE task.do = "merge" -> Merged(task.on, IF x = <<"torn">> THEN << >> ELSE x)
      [] task.do = "snippet" -> Snippet(x, task.force)
      [] task.do = "permit" -> Permitted(x)
      [] task.do = "strip" -> Stripped(task.on, x)

-----------------------------------------------------------------------------
(* Commands                                                                *)

Task(do, f, force) == [do |-> do, on |-> f, force |-> force]
Each(do, fs) == [i \in DOMAIN fs |-> Task(do, fs[i], FALSE)]
GitTasks(do) == Each(do, <<PostCheckout>>)

Wire(c, force) ==
    <<Task("merge", Mcp(c), FALSE)>>
    \o (IF c = Claude THEN <<Task("permit", Local, FALSE)>> ELSE << >>)
    \o <<Task("merge", HookFile(c), FALSE), Task("snippet", Md[c], force)>>

Unwire(c) ==
    Each("strip", <<Mcp(c), HookFile(c)>>
                  \o (IF c = Claude THEN <<Local>> ELSE << >>) \o <<Md[c]>>)

Run(cs, todo, result) ==
    /\ cmd = None /\ commands < MaxCommands
    /\ commands' = commands + 1
    /\ cmd' = [of |-> cs, todo |-> todo, new |-> None, result |-> result]
    /\ status' = [c \in Clients |-> IF c \in cs THEN "pending" ELSE status[c]]
    /\ UNCHANGED <<file, heal, mine, back>>

\* git.commit_trace decides whether the git hook goes in or out; --force is
\* for a snippet that is there.
Install(c, force, trace) ==
    /\ force => Has(Md[c], "ours")
    /\ Run({c}, <<Wire(c, force), GitTasks(IF trace THEN "merge" ELSE "strip")>>, "installed")

Connect(c) == Run({c}, <<Wire(c, FALSE)>>, "installed")

\* A client is wired that has an MCP file or a hooks file, whoever's it is.
Wired(c) == file[Mcp(c)] # << >> \/ file[HookFile(c)] # << >>

LastOneOut(cs) == {c \in Clients : Wired(c)} \subseteq cs

Uninstall(cs) ==
    LET order == SetToSeq(cs)
    IN Run(cs, [i \in DOMAIN order |-> Unwire(order[i])]
               \o (IF LastOneOut(cs) THEN <<GitTasks("strip")>> ELSE << >>), "removed")

Current == Head(Head(cmd.todo))
Going == cmd # None /\ cmd.todo # << >> /\ cmd.new = None
Rest(todo) == IF Len(Head(todo)) = 1 THEN Tail(todo) ELSE [todo EXCEPT ![1] = Tail(@)]
Done == [cmd EXCEPT !.todo = Rest(@), !.new = None]

Refused(task) ==
    /\ task.do = "merge" /\ file[task.on] = <<"torn">>
    /\ task.on \notin {Mcp(c) : c \in Lenient}

Idle(task) ==
    \/ task.do = "strip" /\ ToSet(file[task.on]) \cap Brainkm = {}
    \/ task.do = "snippet" /\ Edited(task, file[task.on]) = file[task.on] /\ ~task.force

\* A file that does not parse is left alone by uninstall; install gives up.
Refuse ==
    /\ Going /\ Refused(Current)
    /\ cmd' = None
    /\ UNCHANGED <<file, heal, status, mine, back, commands>>

Skip ==
    /\ Going /\ Idle(Current)
    /\ cmd' = Done
    /\ UNCHANGED <<file, heal, status, mine, back, commands>>

\* What the user loses by a command: what is below the snippet that --force
\* replaces, and in the section that uninstall takes out.
Below(x) ==
    {x[i] : i \in {j \in DOMAIN x : \E k \in 1 .. j - 1 : x[k] = "ours"}}

Costs(task, x) ==
    CASE task.force -> Below(x)
      [] task.do = "strip" /\ task.on \in Guides -> Section(x)
      [] OTHER -> {}

\* Without an interruption: the last entry gone, the file is deleted; a
\* settings.local.json is renamed over.
EditAtOnce ==
    /\ Going /\ ~Idle(Current)
    /\ LET f == Current.on new == Edited(Current, file[f])
       IN /\ Current.do = "permit" \/ (Current.do = "strip" /\ new = << >>)
          /\ file' = [file EXCEPT ![f] = new]
          /\ back' = IF Current.do = "strip" THEN back \ {f} ELSE back
          /\ mine' = mine \ ({f} \X Costs(Current, file[f]))
    /\ cmd' = Done
    /\ UNCHANGED <<heal, status, commands>>

Truncate ==
    /\ Going /\ ~Idle(Current) /\ ~Refused(Current) /\ Current.do # "permit"
    /\ LET f == Current.on new == Edited(Current, file[f])
       IN /\ Current.do = "strip" => new # << >>
          /\ file' = [file EXCEPT ![f] = Torn(f)]
          /\ cmd' = [cmd EXCEPT !.new = new]
          /\ back' = IF Current.do = "strip" THEN back \ {f} ELSE back
          /\ mine' = mine \ ({f} \X Costs(Current, file[f]))
    /\ UNCHANGED <<heal, status, commands>>

\* A heal that has put another file in its place makes the write vanish.
WriteOut ==
    /\ cmd # None /\ cmd.new # None
    /\ LET f == Current.on
       IN file' = [file EXCEPT ![f] = IF @ = Torn(f) THEN cmd.new ELSE @]
    /\ cmd' = Done
    /\ UNCHANGED <<heal, status, mine, back, commands>>

Finish ==
    /\ cmd # None /\ cmd.todo = << >>
    /\ status' = [c \in Clients |-> IF c \in cmd.of THEN cmd.result ELSE status[c]]
    /\ cmd' = None
    /\ UNCHANGED <<file, heal, mine, back, commands>>

Die ==
    /\ cmd # None
    /\ mine' = IF cmd.new # None /\ file[Current.on] = Torn(Current.on)
               THEN mine \ ({Current.on} \X Entries) ELSE mine
    /\ cmd' = None
    /\ UNCHANGED <<file, heal, status, back, commands>>

\* The user writes below the snippet, with a heading of its own or without.
TakeNotes(f, e) ==
    /\ cmd = None
    /\ Has(f, "ours") /\ ~Has(f, e)
    /\ file' = [file EXCEPT ![f] = Append(@, e)]
    /\ mine' = mine \cup {<<f, e>>}
    /\ UNCHANGED <<cmd, heal, status, back, commands>>

Command ==
    \/ \E c \in Clients, force, trace \in BOOLEAN : Install(c, force, trace)
    \/ \E c \in Clients : Connect(c)
    \/ \E cs \in SUBSET Clients \ {{}} : Uninstall(cs)
    \/ Refuse \/ Skip \/ EditAtOnce \/ Truncate \/ WriteOut \/ Finish \/ Die
    \/ \E f \in Guides, e \in {"notes", "chapter"} : TakeNotes(f, e)

-----------------------------------------------------------------------------
(* SessionStart of a Claude session                                        *)

Look(f, x) == [on |-> f, read |-> x]

\* A running session keeps the hooks it loaded, whatever becomes of them.
HealBegins(h) ==
    /\ heal[h] = None /\ status[Claude] # "never"
    /\ heal' = [heal EXCEPT ![h] = Look(Local, file[Local])]
    /\ UNCHANGED <<file, cmd, status, mine, back, commands>>

HealPermissions(h) ==
    /\ heal[h] # None /\ heal[h].on = Local
    /\ file' = [file EXCEPT ![Local] = Permitted(heal[h].read)]
    /\ back' = back \cup {Local}
    /\ mine' = IF heal[h].read = Torn(Local) THEN mine \ ({Local} \X Entries) ELSE mine
    /\ heal' = [heal EXCEPT ![h] = Look(HookFile(Claude), << >>)]
    /\ UNCHANGED <<cmd, status, commands>>

\* Only a stale matcher is widened.
HealLooks(h) ==
    /\ heal[h] = Look(HookFile(Claude), << >>)
    /\ LET x == file[HookFile(Claude)]
       IN heal' = [heal EXCEPT ![h] =
                      IF "stale" \in ToSet(x) THEN Look(HookFile(Claude), x) ELSE None]
    /\ UNCHANGED <<file, cmd, status, mine, back, commands>>

HealHooks(h) ==
    /\ heal[h] # None /\ heal[h].on = HookFile(Claude) /\ heal[h].read # << >>
    /\ LET x == heal[h].read
       IN file' = [file EXCEPT ![HookFile(Claude)] =
                      [i \in DOMAIN x |-> IF x[i] = "stale" THEN "ours" ELSE x[i]]]
    /\ back' = back \cup {HookFile(Claude)}
    /\ heal' = [heal EXCEPT ![h] = None]
    /\ UNCHANGED <<cmd, status, mine, commands>>

HealDies(h) ==
    /\ heal[h] # None
    /\ heal' = [heal EXCEPT ![h] = None]
    /\ UNCHANGED <<file, cmd, status, mine, back, commands>>

Heal(h) ==
    \/ HealBegins(h) \/ HealPermissions(h) \/ HealLooks(h) \/ HealHooks(h)
    \/ HealDies(h)

SetupNext == Command \/ \E h \in Healers : Heal(h)

SetupSpec == Init /\ [][SetupNext]_setupVars

-----------------------------------------------------------------------------
(* Properties                                                              *)

\* Every file holds a known sequence of entries, none of them twice; only a
\* client's JSON files are ever cut off; a command writes one file at a time.
SetupTypeOK ==
    /\ \A f \in Files :
        /\ file[f] \in Seq(Entries) /\ IsInjective(file[f])
        /\ "torn" \in ToSet(file[f]) => f \in Json /\ file[f] = <<"torn">>
    /\ cmd = None \/ cmd.new = None \/ cmd.todo # << >>
    /\ status \in [Clients -> {"never", "pending", "installed", "removed"}]
    /\ mine \subseteq Files \X Entries /\ back \subseteq Files
    /\ commands \in 0 .. MaxCommands

\* What the user has in a file is in it, or in the hands of the command that is
\* rewriting it.  It is lost only when a command dies between the truncation and
\* the write, below the snippet by --force, in the snippet's section, without a
\* heading of its own, by an uninstall (uninstall.py:392), and in
\* settings.local.json by a SessionStart that looked while uninstall rewrote it
\* (install.py:430).
UserEntriesKept ==
    \A m \in mine :
        \/ Has(m[1], m[2])
        \/ /\ cmd # None /\ cmd.new # None /\ Current.on = m[1]
           /\ m[2] \in ToSet(cmd.new)

\* Of brainkm's entries under the events it wires one, and that one current.
OursAlone(x) ==
    \E i \in DOMAIN x : /\ x[i] = "ours"
                       /\ \A j \in DOMAIN x : x[j] \in Replaced => j = i

\* Once an install or a connect of a client has returned, after whatever had
\* died half way before, each of its files has exactly one current entry of
\* brainkm's under what this version wires, whatever SessionStarts write to
\* them.  (Groups of an older version under other events stay until an
\* uninstall.)  Only the snippet in a shared AGENTS.md goes when another client
\* of it is removed.
InstallComplete ==
    \A c \in Clients : status[c] = "installed" =>
        /\ \A f \in {Mcp(c), HookFile(c)} \cup (IF c = Claude THEN {Local} ELSE {}) :
            OursAlone(file[f])
        /\ \/ Has(Md[c], "ours")
           \/ \E d \in Clients \ {c} : Md[d] = Md[c] /\ status[d] # "installed"

\* Once an uninstall that names a client has returned, nothing of brainkm's is
\* left in its files, but what a SessionStart put back from an earlier look,
\* and the snippet that another client of the AGENTS.md has put in again.
FilesCleared ==
    \A c \in Clients : status[c] = "removed" =>
        /\ \A f \in {Mcp(c), HookFile(c)} \cup (IF c = Claude THEN {Local} ELSE {}) :
            ToSet(file[f]) \cap Brainkm # {} => f \in back
        /\ Has(Md[c], "ours") =>
            \E d \in Clients \ {c} : Md[d] = Md[c] /\ status[d] # "removed"

\* "Git hooks are cleaned up only once no host is still wired"
\* (docs/INSTALL.md:274): an uninstall that goes at the git hooks has left no
\* client with an MCP server or a hook, but what a SessionStart put back.
HooksOutlastClients ==
    cmd # None /\ cmd.result = "removed" /\ cmd.todo # << >> /\ Current.on = PostCheckout =>
        \A c \in Clients : \A f \in {Mcp(c), HookFile(c)} :
            ToSet(file[f]) \cap Brainkm # {} => f \in back

\* Uninstalls, in whatever order they name the clients, take all of brainkm
\* along, and nothing before its time.
UninstallComplete == FilesCleared /\ HooksOutlastClients
=============================================================================
