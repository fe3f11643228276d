----------------------------- MODULE Snapshots -----------------------------
(***************************************************************************)
(* The frozen packs.  The first hook that needs a pack for its session     *)
(* selects the neurons, saves the pack and tells it to the session, and    *)
(* the hooks after it tell the same one, until a branch change throws all  *)
(* of them away.  A hook reads that there is no pack, selects, and saves,  *)
(* with other hooks, and a branch change, in between; it tells what it has *)
(* built, saved or not.  (The SessionStart that inserts the session's      *)
(* cohort does so first, and holds the lock while it builds: the two steps *)
(* below, with nothing in between.)                                        *)
(***************************************************************************)
EXTENDS Integers

CONSTANTS
    Sessions, Hooks, \* Hooks: hook processes that build packs
    Nobody,
    MaxTrees         \* bound: branch changes

\* Nobody is no hook, and no pack.
ASSUME SnapshotAssumption == MaxTrees \in Nat /\ Nobody \notin [by : Hooks, of : Nat]

VARIABLES
    frozen, \* session_snapshots: the pack of each session
    tree,   \* the checked-out tree
    build,  \* what a hook is building a pack for, and from which tree
    told,   \* history: the packs a session was told since the last branch change,
            \* and whether by a hook that was alone with its build
    stale   \* history: sessions with a pack of another tree that could not be told

packVars == <<frozen, tree, build, told, stale>>

\* No two builds need agree on the neurons: a pack is known by who built it.
Pack(h) == [by |-> h, of |-> build[h].of]

PackInit ==
    /\ frozen = [s \in Sessions |-> Nobody]
    /\ tree = 0 /\ stale = {} /\ told = [s \in Sessions |-> {}]
    /\ build = [h \in Hooks |-> Nobody]

Beside(s) == {h \in Hooks : build[h] # Nobody /\ build[h].session = s}

\* SessionStart, SubagentStart and Antigravity's first PreInvocation, unless
\* there is a pack; PostCompact in any case.  Hooks that build beside one another
\* are not alone, nor is PostCompact.
BuildReads(h, s, force) ==
    /\ build[h] = Nobody
    /\ frozen[s] = Nobody \/ force
    /\ build' = [g \in Hooks |->
                    IF g = h THEN [session |-> s, of |-> tree,
                                   alone |-> ~force /\ Beside(s) = {}]
                    ELSE IF g \in Beside(s) THEN [build[g] EXCEPT !.alone = FALSE]
                    ELSE build[g]]
    /\ UNCHANGED <<frozen, tree, told, stale>>

Tells(s, pack, alone) ==
    told' = [told EXCEPT ![s] = @ \cup {[pack |-> pack, alone |-> alone]}]

\* A hook that finds a pack tells it.
Reuses(s) ==
    /\ frozen[s] # Nobody
    /\ Tells(s, frozen[s], TRUE)
    /\ UNCHANGED <<frozen, tree, build, stale>>

\* Faulty form: the later pack wins.
SavedAnyway(s, pack) == [frozen EXCEPT ![s] = pack]

\* ON CONFLICT(session_id) DO NOTHING
Saved(s, pack) == [frozen EXCEPT ![s] = IF @ = Nobody THEN pack ELSE @]

\* The hook tells its own pack, even if another one is there and stays.
BuildSaves(h) ==
    /\ build[h] # Nobody
    /\ frozen' = Saved(build[h].session, Pack(h))
    /\ Tells(build[h].session, Pack(h), build[h].alone)
    /\ stale' = IF build[h].of # tree /\ frozen[build[h].session] = Nobody
                THEN stale \cup {build[h].session} ELSE stale
    /\ build' = [build EXCEPT ![h] = Nobody]
    /\ UNCHANGED tree

BuildDies(h) ==
    /\ build[h] # Nobody
    /\ build' = [build EXCEPT ![h] = Nobody]
    /\ UNCHANGED <<frozen, tree, told, stale>>

\* Faulty form: sessions with a build under way keep their packs.
InvalidatedIdle ==
    [s \in Sessions |->
        IF \E h \in Hooks : build[h] # Nobody THEN frozen[s] ELSE Nobody]

Invalidated == [s \in Sessions |-> Nobody]

\* The git hook runs `brainkm branch-changed`, or there is none.
BranchChange(heard) ==
    /\ tree < MaxTrees /\ tree' = tree + 1
    /\ frozen' = IF heard THEN Invalidated ELSE frozen
    /\ told' = IF heard THEN [s \in Sessions |-> {}] ELSE told
    /\ stale' = IF heard THEN {} ELSE {s \in Sessions : frozen[s] # Nobody}
    /\ UNCHANGED build

\* Whoever tells a session anything but its pack is a PostCompact, or built
\* beside another hook that found no pack either.
OnePack(s) == \A t \in told[s] : t.alone => t.pack = frozen[s]

\* A saved pack stays as it is until a branch change (snapshot.py:328), and one
\* hook after another tells the session that one.  PostCompact tells one of its
\* own, which is not kept: the hooks after it tell the first again; and of two
\* hooks that overlap, one tells a pack that was not saved.
FrozenPack ==
    [][\A s \in Sessions :
        /\ frozen[s] # Nobody => frozen'[s] = frozen[s] \/ tree' # tree
        /\ OnePack(s)']_packVars

\* "Every cached snapshot" goes with a branch change (git_note.py:796): a pack
\* describes the checked-out tree, unless a hook that had begun before the
\* change saved it after, or git told nobody.
PackOfTheTree ==
    \A s \in Sessions :
        frozen[s] # Nobody => frozen[s].of = tree \/ s \in stale
=============================================================================
