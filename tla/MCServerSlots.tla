----------------------------- MODULE MCServerSlots -----------------------------
(* Instances of ServerSlots for TLC.                                        *)
EXTENDS ServerSlots

CONSTANTS r1, r2, r3

(* Requests are interchangeable, so one order of each mix is enough; this   *)
(* leaves TLC free to check liveness.                                       *)
Gen      == [kind |-> "gen",    slot |-> 0, empty |-> FALSE]
Pinned   == [kind |-> "gen",    slot |-> 1, empty |-> FALSE]
Pair     == [kind |-> "pair",   slot |-> 0, empty |-> FALSE]
Embd     == [kind |-> "embd",   slot |-> 0, empty |-> FALSE]
Action   == [kind |-> "action", slot |-> 1, empty |-> FALSE]
Query    == [kind |-> "query",  slot |-> 0, empty |-> FALSE]
NoPrompt == [kind |-> "gen",    slot |-> 0, empty |-> TRUE]

Mix(a, b) == [r \in {r1, r2} |-> IF r = r1 THEN a ELSE b]

TwoRequests == { Mix(Gen, Pinned), Mix(Gen, Embd), Mix(Pinned, Pinned), Mix(Pinned, Pair),
                 Mix(Pair, Pair), Mix(Pair, Action), Mix(Pinned, Action), Mix(Gen, Query),
                 Mix(Embd, NoPrompt) }
ThreeGens   == { [r \in {r1, r2, r3} |-> Gen] }
=============================================================================
