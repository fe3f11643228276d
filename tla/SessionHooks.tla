---------------------------- MODULE SessionHooks ----------------------------
(***************************************************************************)
(* A project's wiring and its sessions.  Claude's SessionStart first heals *)
(* the settings and then builds the pack; a `git checkout` finds the       *)
(* post-checkout hook that install and uninstall have left, and only one   *)
(* that the shell can run to the end tells brainkm of the new tree.        *)
(* A pack's build touches nothing of what commands and heals do: the       *)
(* builds between two steps of a command are those before or after it.     *)
(***************************************************************************)
EXTENDS ClientSetup, Snapshots

vars == <<setupVars, packVars>>

BothInit == Init /\ PackInit

Quiet == cmd = None /\ \A h \in Healers : heal[h] = None

\* The user's own checkout, after the command that ran in the terminal.
Checkout ==
    /\ Quiet
    /\ BranchChange(Has(PostCheckout, "ours") /\ ~Has(PostCheckout, "stray"))
    /\ UNCHANGED setupVars

Building ==
    /\ Quiet
    /\ \E h \in Hooks :
        \/ \E s \in Sessions, force \in BOOLEAN : BuildReads(h, s, force)
        \/ BuildSaves(h) \/ BuildDies(h)
    /\ UNCHANGED setupVars

Telling ==
    /\ Quiet
    /\ \E s \in Sessions : Reuses(s)
    /\ UNCHANGED setupVars

Settling ==
    /\ \A h \in Hooks : build[h] = Nobody
    /\ SetupNext
    /\ UNCHANGED packVars

Next == Settling \/ Building \/ Telling \/ Checkout

Spec == BothInit /\ [][Next]_vars
=============================================================================
