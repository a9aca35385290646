------------------------------ MODULE MCServer ------------------------------
(* Server for TLC, with commands of one and two bytes and chunks of three:  *)
(* a trading_pairs request that is one short read, one that fills a chunk,  *)
(* one that is cut off at the buffer limit, an EXIT and a command unknown;  *)
(* for liveness, with chunks of two bytes, a request of two chunks of       *)
(* which the last is short.                                                 *)
EXTENDS Server, TLC

Pairs(n) == [kind |-> "pairs", len |-> n]
EXIT     == [kind |-> "exit", len |-> 1]
Unknown  == [kind |-> "other", len |-> 1]

AllRequests   == {Pairs(2), Pairs(3), Pairs(9), EXIT, Unknown}
ShortRequests == {Pairs(2), EXIT}
LastReadShort == {Pairs(3), EXIT}

(* Peers are interchangeable. *)
ClientPermutations == Permutations(Clients)
=============================================================================
