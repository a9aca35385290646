---------------------------- MODULE MCMarketCache ----------------------------
(* MarketCache for TLC: two pairs, so that a vendor may list a pair another *)
(* vendor lists too, in an order of its own, or not list it at all.         *)
EXTENDS MarketCache

CONSTANTS p1, p2, Arena1, Arena2

PairsDef == {p1, p2}
OppositeDef == [p \in PairsDef |-> IF p = p1 THEN p2 ELSE p1]
GoalsDef == {p2}
ListingsDef == {<<p1>>, <<p2, p1>>}
OneListing == {<<p1, p2>>}

(* An allocator with an arena for each thread: a cell that was just freed   *)
(* is handed out again at once.                                             *)
ArenaCell(v, free) ==
  LET mine == {a \in free : a \in IF v = 1 THEN Arena1 ELSE Arena2}
  IN  IF mine = {} THEN {} ELSE {CHOOSE a \in mine : TRUE}
=============================================================================
