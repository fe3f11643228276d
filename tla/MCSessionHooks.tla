--------------------------- MODULE MCSessionHooks ---------------------------
(* Claude, and two clients that share AGENTS.md; Codex and Antigravity are  *)
(* the lenient ones.                                                        *)
EXTENDS SessionHooks

CONSTANTS claude, codex, antigravity, claudeMd, agentsMd

MCMd == [c \in Clients |-> IF c = claude THEN claudeMd ELSE agentsMd]

\* Packs depend on the wiring by the post-checkout hook alone, and the wiring
\* on no pack: as there is one checkout, whatever is done to the wiring before it
\* can be done before the first pack, and what is done after matters to no pack.
\* Nor do the user's entries matter to one.
WiringFirst == Settling /\ tree = 0 /\ \A s \in Sessions : told[s] = {}
PacksThen == mine = {} /\ (Building \/ Telling \/ Checkout)

MCSpec == BothInit /\ [][WiringFirst \/ PacksThen]_vars

Symmetry == Permutations(Hooks)
=============================================================================
