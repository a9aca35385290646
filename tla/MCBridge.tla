------------------------------ MODULE MCBridge ------------------------------
(* Bridge for TLC: commands of one byte in chunks of two, one listing.      *)
EXTENDS Bridge, TLC

CONSTANTS p1

PAIRS == [kind |-> "pairs", len |-> 1]
EXIT  == [kind |-> "exit", len |-> 1]
RequestsDef == {PAIRS, EXIT}

PairsDef    == {p1}
OppositeDef == [p \in {p1} |-> p1]
ListingsDef == {<<p1>>}

AnyCell(v, free)   == free
FirstCell(v, free) == IF free = {} THEN {} ELSE {CHOOSE a \in free : TRUE}

(* Peers are interchangeable, and so are cells when any may be handed out.  *)
ClientsAndCells == Permutations(Clients) \cup Permutations(Addr)
=============================================================================
