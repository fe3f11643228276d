------------------------------- MODULE Packing -------------------------------
(***************************************************************************)
(* What goes into a pack, in tokens.  A context pack cuts the memories,    *)
(* the code and the procedures it was given to the slots of its query,     *)
(* hands out what is left, and drops lines until the text fits; the frozen *)
(* pack of a session takes sections of neurons, each against its budget.   *)
(* A line has a rank (its priority, 0 the highest, and its score), a cost, *)
(* and the cost of its title alone; its text may be cut at any token.      *)
(* Which lines are found, in which order and at what cost (compressed,     *)
(* deduplicated, diversified) is any choice, and so is the pack's frame.   *)
(***************************************************************************)
EXTENDS Integers, Sequences, FiniteSets, SequencesExt

CONSTANTS
    Costs,  \* bound: what lines cost
    Title,  \* and their titles
    Totals, \* bound: budget.total_tokens
    Nothing

ASSUME PackingAssumption ==
    Costs \subseteq Nat \ {0} /\ Title \in Nat \ {0} /\ Totals \subseteq Nat \ 0 .. 99

VARIABLES
    asked,  \* the pack that is being made: of what, and within which budget
    packed  \* its lines

packingVars == <<asked, packed>>

Channels == <<"neurons", "graph", "procedures">>
Parts(f) == f.neurons \o f.graph \o f.procedures

Tokens(lines) ==
    LET first[n \in 0 .. Len(lines)] == IF n = 0 THEN 0 ELSE first[n - 1] + lines[n].cost
    IN first[Len(lines)]

\* The lines at some positions, in their order.
Picked(lines, at) ==
    LET Nth(n) == CHOOSE i \in at : Cardinality({j \in at : j <= i}) = n
    IN [n \in 1 .. Cardinality(at) |-> lines[Nth(n)]]

Ids(lines) == {lines[i].id : i \in DOMAIN lines}
Smaller(m, n) == IF m < n THEN m ELSE n
Larger(m, n) == IF m > n THEN m ELSE n

-----------------------------------------------------------------------------
(* The slots of a query                                                    *)

\* adaptive_token_budget, for a query that is worth percent of the total.
Budget(total, percent) == Larger(200, Smaller(total, (total * percent) \div 100))

\* context_pack_slots with dynamic_reallocation and the default pack_quotas;
\* pre is budget.pre_tool.
ContextPackSlots(type, total, pre) ==
    LET Percent(n) == (total * n) \div 100
        Split(neurons, graph) ==
            [neurons |-> neurons, graph |-> graph, procedures |-> total - neurons - graph]
        code == Smaller(pre.graph, Percent(45))
    IN CASE type = "code" ->
              LET procedures == Smaller(pre.procedure, (total - code) \div 5)
              IN Split(total - code - procedures, code)
         [] type = "debug" -> Split(Smaller(600, Percent(55)), Smaller(pre.graph, Percent(25)))
         [] type = "decision" ->
              Split(Smaller(700, Percent(60)), Smaller(pre.graph, Percent(20)))
         [] type = "general" -> Split(Percent(40), Percent(40))

\* compile_context_pack, for a query about procedures.
ProcedureSlots(slot) ==
    LET steal == Smaller(280, slot.neurons \div 2)
    IN [slot EXCEPT !.neurons = @ - steal, !.procedures = @ + steal]

\* pre_tool_pack_slots
PreToolPackSlots(pre, recallTop) ==
    [neurons |-> Smaller(200, recallTop), graph |-> pre.graph, procedures |-> pre.procedure]

Whole(slot) == slot.neurons + slot.graph + slot.procedures

\* PACK_FRAMING_OVERHEAD_TOKENS and MCP_JSON_OVERHEAD_TOKENS
Framing == 50
Envelope == 200

\* What of the budget the pack's framing leaves to its lines, custom slots or
\* not, and what the text may come to with it.
HardCap(budget, slot) == Larger(0, Smaller(budget, Whole(slot)) - Framing)
TextCap(budget) == Larger(100, budget - Envelope)

-----------------------------------------------------------------------------
(* Cutting the lines                                                       *)

Before(l, m) ==
    \/ l.prio < m.prio
    \/ l.prio = m.prio /\ l.score > m.score
    \/ l.prio = m.prio /\ l.score = m.score /\ l.cost > m.cost

Earlier(lines, i, j) ==
    \/ Before(lines[i], lines[j])
    \/ ~Before(lines[j], lines[i]) /\ i < j

\* The lines in an order of their positions.
Ordered(lines, order) ==
    LET Ahead(i) == {j \in DOMAIN lines : <<j, i>> \in order}
        Nth(n) == CHOOSE i \in DOMAIN lines : Cardinality(Ahead(i)) = n - 1
    IN [n \in DOMAIN lines |-> lines[Nth(n)]]

Places(lines) == (DOMAIN lines) \X (DOMAIN lines)

Ranked(lines) == Ordered(lines, {p \in Places(lines) : Earlier(lines, p[1], p[2])})

\* _fit_line_to_budget: the whole line, what of its text fits behind the title,
\* the title, or nothing.
Fitted(l, room) ==
    CASE l.cost <= room -> l.cost
      [] l.cost > room /\ room > l.title + 1 -> room
      [] OTHER -> IF l.title <= room THEN l.title ELSE 0

Take(taken, l, max) ==
    LET room == max - Tokens(taken)
        cost == IF taken = << >> THEN Fitted(l, room) ELSE l.cost
    IN IF room > 0 /\ cost \in 1 .. room
       THEN Append(taken, [l EXCEPT !.cost = cost]) ELSE taken

\* greedy_truncate: in the order of rank what fits whole; only the first line
\* that is taken may be cut.
GreedyTruncate(lines, max) ==
    LET ranked == Ranked(lines)
        taken[n \in 0 .. Len(lines)] ==
            IF n = 0 THEN << >> ELSE Take(taken[n - 1], ranked[n], max)
    IN taken[Len(lines)]

Refill(got, c, lines, slot) ==
    LET omitted == Picked(lines[c], {i \in DOMAIN lines[c] : lines[c][i].id \notin Ids(got[c])})
    IN [got EXCEPT ![c] = @ \o GreedyTruncate(omitted, Whole(slot) - Tokens(Parts(got)))]

\* truncate_by_channels: each channel against its slot, then in turn what it
\* had to omit against what is left over, then all of it against the cap.
TruncateByChannels(lines, slot, cap) ==
    LET first == [c \in DOMAIN slot |-> GreedyTruncate(lines[c], slot[c])]
        second == Refill(first, "neurons", lines, slot)
        third == Refill(second, "graph", lines, slot)
        all == Parts(Refill(third, "procedures", lines, slot))
    IN IF Tokens(all) > cap THEN GreedyTruncate(all, cap) ELSE all

\* What survives of a channel, in the order in which it was given.
Kept(lines, included) ==
    LET at == {i \in DOMAIN lines : lines[i].id \in Ids(included)}
    IN Picked([i \in at |-> CHOOSE l \in ToSet(included) : l.id = lines[i].id], at)

\* _fit_pack_text: lines go from the end of the procedures, then of the code,
\* then of the memories, until the text fits; for a query about procedures the
\* memories go first.
FitPackText(kept, total, frame, procedureQuery) ==
    LET order == IF procedureQuery THEN Channels ELSE Reverse(Channels)
        Len3(i) == Len(kept[order[i]])
        Gone(n) == [i \in 1 .. 3 |->
                      CASE i = 1 -> Smaller(n, Len3(1))
                        [] i = 2 -> Smaller(Larger(0, n - Len3(1)), Len3(2))
                        [] i = 3 -> Larger(0, n - Len3(1) - Len3(2))]
        After(n) == [c \in DOMAIN kept |->
                       LET i == CHOOSE k \in 1 .. 3 : order[k] = c
                       IN SubSeq(kept[c], 1, Len(kept[c]) - Gone(n)[i])]
        Fits(n) == frame + Tokens(Parts(After(n))) <= total
        most == Len3(1) + Len3(2) + Len3(3)
    IN After(CHOOSE n \in 0 .. most :
               (Fits(n) \/ n = most) /\ \A m \in 0 .. n - 1 : ~Fits(m))

\* trim_neurons_to_budget: whole lines, and of the first that does not fit what
\* is left, its title at least, if that is 20 tokens.
Trimmed(lines, budget) ==
    LET fit == CHOOSE n \in 0 .. Len(lines) :
                  /\ Tokens(SubSeq(lines, 1, n)) <= budget
                  /\ n = Len(lines) \/ Tokens(SubSeq(lines, 1, n + 1)) > budget
        whole == SubSeq(lines, 1, fit)
        left == budget - Tokens(whole)
    IN IF budget <= 0 THEN << >>
       ELSE IF fit = Len(lines) \/ left < 20 THEN whole
       ELSE Append(whole, [lines[fit + 1] EXCEPT
                             !.cost = Larger(lines[fit + 1].title, left)])

\* Faulty form: each of the arrays may take what the text leaves.
StructuredEach(pack, used, budget) ==
    LET left == Larger(0, budget - Envelope - used)
    IN IF left < 50 THEN << >> ELSE Trimmed(pack.neurons, left) \o Trimmed(pack.graph, left)

\* The structured arrays share what the text leaves.
Structured(pack, used, budget) ==
    LET left == Larger(0, budget - Envelope - used)
        half == Larger(25, left \div 2)
    IN IF left < 50 THEN << >>
       ELSE Trimmed(pack.neurons, half) \o Trimmed(pack.graph, left - half)

-----------------------------------------------------------------------------
(* The frozen pack                                                         *)

AddRow(acc, row, budget) ==
    CASE row.id \in Ids(acc.sel) \/ acc.full -> acc
      [] row.id \notin Ids(acc.sel) /\ ~acc.full ->
            IF acc.used + row.cost > budget /\ acc.sel # << >> THEN [acc EXCEPT !.full = TRUE]
            ELSE [acc EXCEPT !.sel = Append(@, row), !.used = @ + row.cost]

\* add_rows: a section ends with the first row that does not fit; the first row
\* of the pack is taken whatever it costs.
AddRows(sel, rows, budget) ==
    LET acc[n \in 0 .. Len(rows)] ==
            IF n = 0 THEN [sel |-> sel, used |-> 0, full |-> FALSE]
            ELSE AddRow(acc[n - 1], rows[n], budget)
    IN acc[Len(rows)].sel

\* The stable sort by _hint_boost, which is a row's score; without a hint no row
\* has any.
Nearer(rows, i, j) ==
    \/ rows[i].score > rows[j].score
    \/ rows[i].score = rows[j].score /\ i < j

ByHint(rows) == Ordered(rows, {p \in Places(rows) : Nearer(rows, p[1], p[2])})

\* select_injection_neurons
SelectInjectionNeurons(sections, budgets) ==
    LET sel[n \in 0 .. Len(sections)] ==
            IF n = 0 THEN << >> ELSE AddRows(sel[n - 1], sections[n], budgets[n])
    IN ByHint(sel[Len(sections)])

\* clamp_injection_pack
ClampInjectionPack(neurons, total, frame) ==
    SubSeq(neurons, 1,
           CHOOSE n \in 0 .. Len(neurons) :
               /\ n = 0 \/ frame + Tokens(SubSeq(neurons, 1, n)) <= total
               /\ \A m \in n + 1 .. Len(neurons) :
                     frame + Tokens(SubSeq(neurons, 1, m)) > total)

-----------------------------------------------------------------------------
(* Packs on demand                                                         *)

PackingInit == asked = Nothing /\ packed = Nothing

Pre == [graph |-> 400, procedure |-> 250]
Line(id, cost, prio, score) ==
    [id |-> id, cost |-> cost, title |-> Title, prio |-> prio, score |-> score]

\* Two memories, of which either may rank higher, a symbol and a procedure.
Found ==
    {[neurons |-> <<Line(1, a, p, 2), Line(2, b, 3, 1)>>, graph |-> <<Line(3, g, 7, 0)>>,
      procedures |-> <<Line(4, c, 6, 0)>>] :
        a, b, g, c \in Costs, p \in {0, 4}}

\* Pinned rows, of which the second is a decision, rules, decisions, contexts and
\* procedures; of each there may be none, and a hint may name some rows.
Sections(shown, cost, named) ==
    LET Row(n) == Line(n, cost[n], 0, IF n \in named THEN 1 ELSE 0)
        all == <<<<Row(1), Row(2)>>, <<Row(3)>>, <<Row(2), Row(4)>>, <<Row(5)>>, <<Row(6)>>>>
    IN [n \in 1 .. 5 |-> IF n \in shown THEN all[n] ELSE << >>]

\* budget.session_start: pinned_rules three times, session_status, procedure_stubs
SessionStart == <<300, 300, 300, 150, 60>>

Slots(budget) ==
    LET own == {ContextPackSlots(type, budget, Pre) :
                   type \in {"code", "debug", "decision", "general"}}
    IN own \cup {ProcedureSlots(s) : s \in own} \cup {PreToolPackSlots(Pre, 200)}

\* A query, or a hook before a tool call; frame is what the pack's text costs
\* without a line.  Or a session begins.
Ask ==
    /\ asked = Nothing
    /\ \/ \E total \in Totals, percent \in {55, 100}, procedures \in BOOLEAN, lines \in Found,
             frame \in {40, 150} :
             \E slot \in Slots(Budget(total, percent)) :
                asked' = [what |-> "context", lines |-> lines, slot |-> slot,
                          budget |-> Budget(total, percent), frame |-> frame,
                          procedures |-> procedures]
       \/ \E a, b, c \in Costs, total \in Totals, shown \in SUBSET (1 .. 5),
             named \in SUBSET {2, 3, 6} :
             asked' = [what |-> "frozen", total |-> total, budgets |-> SessionStart,
                       sections |-> Sections(shown, <<a, b, c, c, b, a>>, named)]
    /\ UNCHANGED packed

\* The text is clipped if it is too long without a line.
Packed(included) ==
    LET kept == [c \in DOMAIN asked.lines |-> Kept(asked.lines[c], included)]
        pack == FitPackText(kept, TextCap(asked.budget), asked.frame, asked.procedures)
        used == Smaller(TextCap(asked.budget), asked.frame + Tokens(Parts(pack)))
    IN [included |-> included, used |-> used,
        structured |-> Structured(pack, used, asked.budget)]

CompileContextPack ==
    /\ asked # Nothing /\ packed = Nothing /\ asked.what = "context"
    /\ packed' = Packed(TruncateByChannels(asked.lines, asked.slot,
                                           HardCap(asked.budget, asked.slot)))
    /\ UNCHANGED asked

Frozen(selected) ==
    [selected |-> selected, kept |-> ClampInjectionPack(selected, asked.total, Framing)]

FreezePack ==
    /\ asked # Nothing /\ packed = Nothing /\ asked.what = "frozen"
    /\ packed' = Frozen(SelectInjectionNeurons(asked.sections, asked.budgets))
    /\ UNCHANGED asked

Answer == packed # Nothing /\ asked' = Nothing /\ packed' = Nothing

PackingNext == Ask \/ CompileContextPack \/ FreezePack \/ Answer

PackingSpec == PackingInit /\ [][PackingNext]_packingVars

-----------------------------------------------------------------------------
(* What a pack promises                                                    *)

\* No slot is negative and no line comes twice; the lines and their framing
\* fit the slots and the budget, custom slots or not; and of the memories the
\* first in rank is kept, cut to its slot if it must be.
LinesFit ==
    packed # Nothing /\ asked.what = "context" =>
        LET pack == packed.included
            room == Smaller(asked.budget, Whole(asked.slot)) - Framing
            first == Ranked(asked.lines.neurons)[1]
        IN /\ \A c \in DOMAIN asked.slot : asked.slot[c] >= 0
           /\ Cardinality(Ids(pack)) = Len(pack)
           /\ Tokens(pack) <= room
           /\ first.title <= Smaller(room, asked.slot.neurons) => first.id \in Ids(pack)

\* "Combined agent-facing estimate must stay within total budget"
\* (tests/test_outbound_trust.py:304): the text and the structured arrays
\* together, but for the 100 tokens that the text may always have, and for the
\* title of the line that is cut last of an array, if it has more than 20.
TextFits ==
    packed # Nothing /\ asked.what = "context" =>
        packed.used + Tokens(packed.structured)
            <= Larger(100, asked.budget - Envelope) + 2 * Larger(0, Title - 20)

\* The first row that a session start finds.
Leading(sections, i) == sections[i] # << >> /\ \A j \in 1 .. i - 1 : sections[j] = << >>

\* A frozen pack is within its sections' budgets, but for its leading row, which
\* is taken whatever it costs; no row goes before one that the hint names more,
\* and no more is cut off its end than must be.
FrozenFits ==
    packed # Nothing /\ asked.what = "frozen" =>
        LET pack == packed.selected
            all == asked.budgets[1] + asked.budgets[2] + asked.budgets[3]
                     + asked.budgets[4] + asked.budgets[5]
            fits(n) == Framing + Tokens(SubSeq(pack, 1, n)) <= asked.total
        IN /\ Cardinality(Ids(pack)) = Len(pack)
           /\ \A i \in 1 .. 5 : Leading(asked.sections, i) =>
                 LET first == asked.sections[i][1]
                 IN /\ first \in ToSet(pack)
                    /\ \/ Tokens(pack) <= all
                       \/ first.cost > asked.budgets[i] /\ Tokens(pack) <= all + first.cost
           /\ \A m, n \in DOMAIN pack : m < n => pack[m].score >= pack[n].score
           /\ IsPrefix(packed.kept, pack)
           /\ packed.kept = << >> \/ fits(Len(packed.kept))
           /\ packed.kept # pack => ~fits(Len(packed.kept) + 1)

\* "Hard cap on agent-facing packs" (docs/FEATURES.md:186): whatever the
\* query, its slots, the total and the mix of lines, a pack stays within its
\* budgets; a pack on demand has the memory that ranks first, and a frozen pack
\* loses nothing that the session's hint names more than what it keeps.
PackFits == LinesFit /\ TextFits /\ FrozenFits
=============================================================================
