---------------------------- MODULE MCWireFormat ----------------------------
(* WireFormat for TLC: lists of up to three trading pairs of two lengths, and *)
(* one of six.  Records of 11 and 13 bytes end at the buffer's 24, before it  *)
(* and beyond it.                                                             *)
EXTENDS WireFormat, SequencesExt

Short == [base |-> 1, market |-> 1]
Long  == [base |-> 3, market |-> 1]

ListsDef == SeqOf({Short, Long}, 3) \cup {[i \in 1 .. 6 |-> Short]}
=============================================================================
