--------------------------- MODULE MCVendorCalls ----------------------------
(* VendorCalls for TLC: up to four levels a side, lists of up to three      *)
(* markets of any kind, and accounts of up to three currencies, two of      *)
(* which btc38 takes for the same; and documents that end at a key, lack a  *)
(* key or the last number, tell more of an error, or begin with the key     *)
(* behind a name.                                                           *)
EXTENDS VendorCalls, SequencesExt

LevelsDef  == 0 .. 4
MarketsDef == SeqOf({"active", "inactive", "null", "unsplit"}, 3)
CutDef     == [btc |-> "btc", dog |-> "dog", doge |-> "dog", dash |-> "das"]
AccountsDef == {a \in SeqOf(DOMAIN CutDef, 3) : \A i, j \in DOMAIN a : a[i] = a[j] => i = j}

Samples ==
  UNION {{BookTokens(v, 1, 1), BalanceTokens(v, "dog", <<"dog">>),
          MarketTokens(v, <<"active", "active">>)} : v \in Vendors}
Strings(t) == {i \in DOMAIN t : t[i].type = "string"}
Reasons(n) == Flat([k \in 1 .. n |-> <<Key("why"), Key("so")>>])

OthersDef ==
  UNION {{SubSeq(t, 1, n) : n \in {0, Len(t) - 1} \cup Strings(t)} : t \in Samples}
    \cup UNION {{RemoveAt(t, i) : i \in Strings(t)} : t \in Samples}
    \cup {ErrorTokens("btc38") \o Reasons(n) : n \in 1 .. 3}
    \cup {<<Object, Key(k), Object>> : k \in {"ticker", "id"}}
=============================================================================
