---------------------------- MODULE AnswerProofs ----------------------------
(***************************************************************************)
(* Theorems about the answers of VendorCalls other than order books: the   *)
(* market lists and the balances that the vendors return, for documents of *)
(* any length in the shapes of the exchanges.  VendorProofs has shown how a *)
(* call goes, whatever the document (BookInv).                              *)
(***************************************************************************)
EXTENDS VendorProofs

-----------------------------------------------------------------------------
(* Documents made of blocks: where each token of each block is. *)

LEMMA InBlock ==
  ASSUME NEW m \in {4, 6, 8, 11}, NEW n \in Nat, NEW k \in 1 .. n, NEW j \in 1 .. m
  PROVE  /\ (k - 1) * m + j \in 1 .. n * m
         /\ 1 + (((k - 1) * m + j - 1) \div m) = k
         /\ 1 + (((k - 1) * m + j - 1) % m) = j
  <1>1. CASE m = 4
    BY <1>1
  <1>2. CASE m = 6
    BY <1>2
  <1>3. CASE m = 8
    BY <1>3
  <1>4. CASE m = 11
    BY <1>4
  <1> QED
    BY <1>1, <1>2, <1>3, <1>4

HasBlocks(t, h, bs, m) ==
  /\ IsSeq(t) /\ Len(t) = Len(h) + Len(bs) * m
  /\ \A i \in 1 .. Len(h) : t[i] = h[i]
  /\ \A k \in 1 .. Len(bs) : \A j \in 1 .. m : t[Len(h) + (k - 1) * m + j] = bs[k][j]

LEMMA Blocks ==
  ASSUME NEW bs, IsSeq(bs), NEW m \in {4, 6, 8, 11}, \A k \in 1 .. Len(bs) : Len(bs[k]) = m,
         NEW h, IsSeq(h)
  PROVE  HasBlocks(h \o Flat(bs), h, bs, m)
  <1> DEFINE B == Flat(bs)
             t == h \o B
             N == Len(bs) * m
  <1>1. m \in Nat /\ Len(bs) \in Nat /\ Len(h) \in Nat /\ N \in Nat
    BY SeqFacts
  <1>2. /\ IsSeq(B) /\ Len(B) = N
        /\ \A i \in 1 .. N : B[i] = bs[1 + ((i - 1) \div m)][1 + ((i - 1) % m)]
    BY <1>1, FlatFacts, Zenon
  <1> HIDE DEF B
  <1>3. /\ IsSeq(t) /\ Len(t) = Len(h) + Len(B)
        /\ \A i \in 1 .. Len(h) : t[i] = h[i]
        /\ \A i \in Len(h) + 1 .. Len(h) + Len(B) : t[i] = B[i - Len(h)]
    BY <1>2, ConcatFacts
  <1> HIDE DEF t
  <1>4. ASSUME NEW k \in 1 .. Len(bs), NEW j \in 1 .. m
        PROVE  t[Len(h) + (k - 1) * m + j] = bs[k][j]
    <2> DEFINE i == (k - 1) * m + j
    <2>1. i \in 1 .. N /\ 1 + ((i - 1) \div m) = k /\ 1 + ((i - 1) % m) = j
      BY <1>1, InBlock
    <2>2. Len(h) + (k - 1) * m + j = Len(h) + i
      BY <1>1
    <2> HIDE DEF i, N
    <2>3. B[i] = bs[k][j]
      BY <1>2, <2>1
    <2>4. Len(h) + i \in Len(h) + 1 .. Len(h) + Len(B) /\ (Len(h) + i) - Len(h) = i
      BY <1>1, <1>2, <2>1
    <2> QED
      BY <1>3, <2>2, <2>3, <2>4
  <1>5. Len(t) = Len(h) + Len(bs) * m
    BY <1>2, <1>3
  <1> QED
    BY <1>3, <1>4, <1>5 DEF HasBlocks, t, B

LEMMA MarketDocument ==
  ASSUME NEW v \in Vendors, NEW items, Len(items) \in Nat
  PROVE  LET h  == IF v = "bittrex"
                   THEN <<Object, Key("success"), Bool(TRUE), Key("message"), Key(""),
                          Key("result"), Array>>
                   ELSE <<Object>>
             bs == [k \in 1 .. Len(items) |-> MarketBlock(v, items, k)]
             m  == IF v = "btc38" THEN 6 ELSE IF v = "poloniex" THEN 4 ELSE 11
         IN  Len(bs) = Len(items) /\ HasBlocks(MarketTokens(v, items), h, bs, m)
  <1> DEFINE bs == [k \in 1 .. Len(items) |-> MarketBlock(v, items, k)]
             h  == IF v = "bittrex"
                   THEN <<Object, Key("success"), Bool(TRUE), Key("message"), Key(""),
                          Key("result"), Array>>
                   ELSE <<Object>>
             m  == IF v = "btc38" THEN 6 ELSE IF v = "poloniex" THEN 4 ELSE 11
  <1>1. MarketTokens(v, items) = h \o Flat(bs)
    BY Zenon DEF MarketTokens
  <1>2. IsSeq(bs) /\ Len(bs) = Len(items)
    <2>1. DOMAIN bs = 1 .. Len(items) /\ bs = [k \in 1 .. Len(items) |-> bs[k]]
      OBVIOUS
    <2> HIDE DEF bs
    <2> QED
      BY <2>1, IndexedIsSeq
  <1>3. \A k \in 1 .. Len(bs) : Len(bs[k]) = m
    <2>1. ASSUME NEW k \in 1 .. Len(items) PROVE Len(MarketBlock(v, items, k)) = m
      BY MarketBlocks DEF Vendors
    <2> QED
      BY <1>2, <2>1
  <1>4. IsSeq(h)
    BY Tuples
  <1>5. m \in {4, 6, 8, 11}
    OBVIOUS
  <1> HIDE DEF bs, h, m
  <1>6. Len(bs) = Len(items) /\ HasBlocks(MarketTokens(v, items), h, bs, m)
    BY <1>1, <1>2, <1>3, <1>4, <1>5, Blocks
  <1> QED
    BY <1>6 DEF bs, h, m

(* Tokens that differ: of another type, or with more or fewer parts. *)
LEMMA Different ==
  /\ \A k : Object # Key(k) /\ Array # Key(k) /\ Null # Key(k)
  /\ \A k, b : Bool(b) # Key(k)
  /\ \A k, w, n : Coin(w, n) # Key(k)
  /\ \A w, n : Coin(w, n).type = "string" /\ Coin(w, n).text = <<w, n>>
  /\ \A k, c, w : Held(c, w) # Key(k)
  /\ \A k, c, w : Btc38Key(c, w) # Key(k)
  /\ \A c, w, d, x : Held(c, w) # Btc38Key(d, x)
  /\ \A d, x : Object # Btc38Key(d, x)
  /\ \A c, w, d, x : Btc38Key(c, w) = Btc38Key(d, x) => c = d /\ w = x
  /\ Null.type = "primitive" /\ Bool(TRUE) # Bool(FALSE)
  <1>1. /\ \A k : Key(k).type = "string" /\ Key(k).text = <<k>>
        /\ \A w, n : Coin(w, n).type = "string" /\ Coin(w, n).text = <<w, n>>
        /\ \A c, w : Held(c, w).type = "string" /\ Held(c, w).text = <<c, w, "number">>
        /\ \A c, w : Btc38Key(c, w).type = "string" /\ Btc38Key(c, w).text = <<c, w>>
        /\ Object.type = "object" /\ Array.type = "array" /\ Null.type = "primitive"
        /\ \A b : Bool(b).type = "primitive"
    BY DEF Key, Coin, Held, Btc38Key, Object, Array, Null, Bool, Token
  <1>2. \A a, b, c, d, e, f : <<a>> # <<b, c>> /\ <<a>> # <<d, e, f>> /\ <<b, c>> # <<d, e, f>>
    <2> SUFFICES ASSUME NEW a, NEW b, NEW c, NEW d, NEW e, NEW f
                 PROVE  <<a>> # <<b, c>> /\ <<a>> # <<d, e, f>> /\ <<b, c>> # <<d, e, f>>
      OBVIOUS
    <2>1. Len(<<a>>) = 1 /\ Len(<<b, c>>) = 2 /\ Len(<<d, e, f>>) = 3
      OBVIOUS
    <2>2. 1 # 2 /\ 1 # 3 /\ 2 # 3
      OBVIOUS
    <2> QED
      BY <2>1, <2>2, Zenon
  <1>3. \A a, b, c, d : <<a, b>> = <<c, d>> => a = c /\ b = d
    OBVIOUS
  <1>4. Bool(TRUE) # Bool(FALSE)
    <2>1. Bool(TRUE).text = <<"true">> /\ Bool(FALSE).text = <<"false">>
      BY DEF Bool, Token
    <2>2. <<"true">>[1] # <<"false">>[1]
      OBVIOUS
    <2> QED
      BY <2>1, <2>2, Zenon
  <1>5. "string" # "object" /\ "string" # "array" /\ "string" # "primitive"
    OBVIOUS
  <1>6. \A k : Object # Key(k) /\ Array # Key(k) /\ Null # Key(k)
    BY <1>1, <1>5
  <1>7. \A k, b : Bool(b) # Key(k)
    BY <1>1, <1>5
  <1>8. \A k, w, n : Coin(w, n) # Key(k)
    <2> SUFFICES ASSUME NEW k, NEW w, NEW n, Coin(w, n) = Key(k) PROVE FALSE
      OBVIOUS
    <2>1. <<w, n>> = <<k>>
      BY <1>1
    <2> QED
      BY <1>2, <2>1, Zenon
  <1>9. \A k, c, w : Held(c, w) # Key(k)
    <2> SUFFICES ASSUME NEW k, NEW c, NEW w, Held(c, w) = Key(k) PROVE FALSE
      OBVIOUS
    <2>1. <<c, w, "number">> = <<k>>
      BY <1>1
    <2> QED
      BY <1>2, <2>1, Zenon
  <1>10. \A k, c, w : Btc38Key(c, w) # Key(k)
    <2> SUFFICES ASSUME NEW k, NEW c, NEW w, Btc38Key(c, w) = Key(k) PROVE FALSE
      OBVIOUS
    <2>1. <<c, w>> = <<k>>
      BY <1>1
    <2> QED
      BY <1>2, <2>1, Zenon
  <1>11. \A c, w, d, x : Held(c, w) # Btc38Key(d, x)
    <2> SUFFICES ASSUME NEW c, NEW w, NEW d, NEW x, Held(c, w) = Btc38Key(d, x) PROVE FALSE
      OBVIOUS
    <2>1. <<c, w, "number">> = <<d, x>>
      BY <1>1
    <2> QED
      BY <1>2, <2>1, Zenon
  <1>12. \A d, x : Object # Btc38Key(d, x)
    BY <1>1, <1>5
  <1>13. \A c, w, d, x : Btc38Key(c, w) = Btc38Key(d, x) => c = d /\ w = x
    <2> SUFFICES ASSUME NEW c, NEW w, NEW d, NEW x, Btc38Key(c, w) = Btc38Key(d, x)
                 PROVE  c = d /\ w = x
      OBVIOUS
    <2>1. <<c, w>> = <<d, x>>
      BY <1>1
    <2> QED
      BY <1>3, <2>1, Zenon
  <1>14. /\ \A w, n : Coin(w, n).type = "string" /\ Coin(w, n).text = <<w, n>>
         /\ Null.type = "primitive"
    BY <1>1
  <1> QED
    BY <1>4, <1>6, <1>7, <1>8, <1>9, <1>10, <1>11, <1>12, <1>13, <1>14, ZenonT(60)

-----------------------------------------------------------------------------
(* The documents, numbered from 0 as the code does. *)

LEMMA PoloniexMarkets ==
  ASSUME NEW items, Len(items) \in Nat, tokens = MarketTokens("poloniex", items)
  PROVE  /\ IsSeq(tokens) /\ tokNo = 1 + 4 * Len(items)
         /\ \A k \in 1 .. Len(items) :
              /\ Tok(4 * k - 3) = Coin(items[k], k) /\ Tok(4 * k - 2) = Object
              /\ Tok(4 * k - 1) = Key("id") /\ Tok(4 * k) = Bool(TRUE)
  <1> DEFINE bs == [k \in 1 .. Len(items) |-> MarketBlock("poloniex", items, k)]
             h  == <<Object>>
  <1>1. Len(bs) = Len(items) /\ HasBlocks(tokens, h, bs, 4)
    BY MarketDocument DEF Vendors
  <1>2. Len(h) = 1
    OBVIOUS
  <1>3. \A k \in 1 .. Len(items) :
          bs[k] = <<Coin(items[k], k), Object, Key("id"), Bool(TRUE)>>
    BY DEF MarketBlock
  <1> HIDE DEF bs, h
  <1>4. ASSUME NEW k \in 1 .. Len(items)
        PROVE  /\ bs[k][1] = Coin(items[k], k) /\ bs[k][2] = Object
               /\ bs[k][3] = Key("id") /\ bs[k][4] = Bool(TRUE)
    <2>1. bs[k] = <<Coin(items[k], k), Object, Key("id"), Bool(TRUE)>>
      BY <1>3
    <2> QED
      BY <2>1
  <1>5. IsSeq(tokens) /\ tokNo = 1 + 4 * Len(items)
    BY <1>1, <1>2 DEF HasBlocks, tokNo
  <1>6. ASSUME NEW k \in 1 .. Len(items)
        PROVE  /\ Tok(4 * k - 3) = Coin(items[k], k) /\ Tok(4 * k - 2) = Object
               /\ Tok(4 * k - 1) = Key("id") /\ Tok(4 * k) = Bool(TRUE)
    <2>1. \A j \in 1 .. 4 : tokens[1 + (k - 1) * 4 + j] = bs[k][j]
      BY <1>1, <1>2 DEF HasBlocks
    <2>2. /\ (4 * k - 3) + 1 = 1 + (k - 1) * 4 + 1 /\ (4 * k - 2) + 1 = 1 + (k - 1) * 4 + 2
          /\ (4 * k - 1) + 1 = 1 + (k - 1) * 4 + 3 /\ 4 * k + 1 = 1 + (k - 1) * 4 + 4
      OBVIOUS
    <2>3. /\ Tok(4 * k - 3) = bs[k][1] /\ Tok(4 * k - 2) = bs[k][2]
          /\ Tok(4 * k - 1) = bs[k][3] /\ Tok(4 * k) = bs[k][4]
      BY <2>1, <2>2 DEF Tok
    <2> QED
      BY <1>4, <2>3
  <1> QED
    BY <1>5, <1>6

LEMMA Btc38Markets ==
  ASSUME NEW items, Len(items) \in Nat, tokens = MarketTokens("btc38", items)
  PROVE  /\ IsSeq(tokens) /\ tokNo = 1 + 6 * Len(items)
         /\ \A k \in 1 .. Len(items) :
              /\ Tok(6 * k - 5) = Coin(items[k], k) /\ Tok(6 * k - 4) = Object
              /\ Tok(6 * k - 3) = Key("ticker") /\ Tok(6 * k - 2) = Object
              /\ Tok(6 * k - 1) = Key("last") /\ Tok(6 * k) = Bool(TRUE)
  <1> DEFINE bs == [k \in 1 .. Len(items) |-> MarketBlock("btc38", items, k)]
             h  == <<Object>>
  <1>1. Len(bs) = Len(items) /\ HasBlocks(tokens, h, bs, 6)
    BY MarketDocument DEF Vendors
  <1>2. Len(h) = 1
    OBVIOUS
  <1>3. \A k \in 1 .. Len(items) :
          bs[k] = <<Coin(items[k], k), Object, Key("ticker"), Object, Key("last"), Bool(TRUE)>>
    BY DEF MarketBlock
  <1> HIDE DEF bs, h
  <1>4. ASSUME NEW k \in 1 .. Len(items)
        PROVE  /\ bs[k][1] = Coin(items[k], k) /\ bs[k][2] = Object
               /\ bs[k][3] = Key("ticker") /\ bs[k][4] = Object
               /\ bs[k][5] = Key("last") /\ bs[k][6] = Bool(TRUE)
    <2>1. bs[k] = <<Coin(items[k], k), Object, Key("ticker"), Object, Key("last"), Bool(TRUE)>>
      BY <1>3
    <2> QED
      BY <2>1
  <1>5. IsSeq(tokens) /\ tokNo = 1 + 6 * Len(items)
    BY <1>1, <1>2 DEF HasBlocks, tokNo
  <1>6. ASSUME NEW k \in 1 .. Len(items)
        PROVE  /\ Tok(6 * k - 5) = Coin(items[k], k) /\ Tok(6 * k - 4) = Object
               /\ Tok(6 * k - 3) = Key("ticker") /\ Tok(6 * k - 2) = Object
               /\ Tok(6 * k - 1) = Key("last") /\ Tok(6 * k) = Bool(TRUE)
    <2>1. \A j \in 1 .. 6 : tokens[1 + (k - 1) * 6 + j] = bs[k][j]
      BY <1>1, <1>2 DEF HasBlocks
    <2>2. /\ (6 * k - 5) + 1 = 1 + (k - 1) * 6 + 1 /\ (6 * k - 4) + 1 = 1 + (k - 1) * 6 + 2
          /\ (6 * k - 3) + 1 = 1 + (k - 1) * 6 + 3 /\ (6 * k - 2) + 1 = 1 + (k - 1) * 6 + 4
          /\ (6 * k - 1) + 1 = 1 + (k - 1) * 6 + 5 /\ 6 * k + 1 = 1 + (k - 1) * 6 + 6
      OBVIOUS
    <2>3. /\ Tok(6 * k - 5) = bs[k][1] /\ Tok(6 * k - 4) = bs[k][2]
          /\ Tok(6 * k - 3) = bs[k][3] /\ Tok(6 * k - 2) = bs[k][4]
          /\ Tok(6 * k - 1) = bs[k][5] /\ Tok(6 * k) = bs[k][6]
      BY <2>1, <2>2 DEF Tok
    <2> QED
      BY <1>4, <2>3
  <1> QED
    BY <1>5, <1>6

BaseToken(items, k) == IF items[k] = "null" THEN Null ELSE Coin("base", k)

LEMMA BittrexMarkets ==
  ASSUME NEW items, Len(items) \in Nat, tokens = MarketTokens("bittrex", items)
  PROVE  /\ IsSeq(tokens) /\ tokNo = 7 + 11 * Len(items)
         /\ Tok(0) = Object /\ Tok(1) = Key("success") /\ Tok(2) = Bool(TRUE)
         /\ Tok(3) = Key("message") /\ Tok(4) = Key("") /\ Tok(5) = Key("result")
         /\ Tok(6) = Array
         /\ \A k \in 1 .. Len(items) :
              /\ Tok(11 * k - 4) = Object /\ Tok(11 * k - 3) = Key("MarketCurrency")
              /\ Tok(11 * k - 2) = Coin("market", k) /\ Tok(11 * k - 1) = Key("BaseCurrency")
              /\ Tok(11 * k) = BaseToken(items, k)
              /\ Tok(11 * k + 1) = Key("MinTradeSize") /\ Tok(11 * k + 2) = Bool(TRUE)
              /\ Tok(11 * k + 3) = Key("MarketName") /\ Tok(11 * k + 4) = Coin("name", k)
              /\ Tok(11 * k + 5) = Key("IsActive") /\ Tok(11 * k + 6) = Bool(items[k] # "inactive")
  <1> DEFINE bs == [k \in 1 .. Len(items) |-> MarketBlock("bittrex", items, k)]
             h  == <<Object, Key("success"), Bool(TRUE), Key("message"), Key(""),
                     Key("result"), Array>>
             block(k) == <<Object, Key("MarketCurrency"), Coin("market", k), Key("BaseCurrency"),
                           BaseToken(items, k), Key("MinTradeSize"), Bool(TRUE),
                           Key("MarketName"), Coin("name", k),
                           Key("IsActive"), Bool(items[k] # "inactive")>>
  <1>1. Len(bs) = Len(items) /\ HasBlocks(tokens, h, bs, 11)
    BY MarketDocument DEF Vendors
  <1>2. /\ Len(h) = 7 /\ h[1] = Object /\ h[2] = Key("success") /\ h[3] = Bool(TRUE)
        /\ h[4] = Key("message") /\ h[5] = Key("") /\ h[6] = Key("result") /\ h[7] = Array
    OBVIOUS
  <1>3. ASSUME NEW k \in 1 .. Len(items) PROVE bs[k] = block(k)
    <2>1. MarketBlock("bittrex", items, k) = block(k)
      BY Zenon DEF MarketBlock, BaseToken
    <2>2. bs[k] = MarketBlock("bittrex", items, k)
      OBVIOUS
    <2> QED
      BY <2>1, <2>2, Zenon
  <1> HIDE DEF bs, h
  <1>4. ASSUME NEW k \in 1 .. Len(items)
        PROVE  /\ bs[k][1] = Object /\ bs[k][2] = Key("MarketCurrency")
               /\ bs[k][3] = Coin("market", k) /\ bs[k][4] = Key("BaseCurrency")
               /\ bs[k][5] = BaseToken(items, k)
               /\ bs[k][6] = Key("MinTradeSize") /\ bs[k][7] = Bool(TRUE)
               /\ bs[k][8] = Key("MarketName") /\ bs[k][9] = Coin("name", k)
               /\ bs[k][10] = Key("IsActive") /\ bs[k][11] = Bool(items[k] # "inactive")
    <2>1. bs[k] = block(k)
      BY <1>3
    <2> QED
      BY <2>1
  <1> HIDE DEF block
  <1>5. IsSeq(tokens) /\ tokNo = 7 + 11 * Len(items)
    <2>1. Len(h) = 7
      BY <1>2
    <2> QED
      BY <1>1, <2>1 DEF HasBlocks, tokNo
  <1>6. /\ Tok(0) = Object /\ Tok(1) = Key("success") /\ Tok(2) = Bool(TRUE)
        /\ Tok(3) = Key("message") /\ Tok(4) = Key("") /\ Tok(5) = Key("result")
        /\ Tok(6) = Array
    <2>1. \A i \in 1 .. 7 : tokens[i] = h[i]
      BY <1>1, <1>2 DEF HasBlocks
    <2>2. /\ Tok(0) = tokens[1] /\ Tok(1) = tokens[2] /\ Tok(2) = tokens[3] /\ Tok(3) = tokens[4]
          /\ Tok(4) = tokens[5] /\ Tok(5) = tokens[6] /\ Tok(6) = tokens[7]
      BY DEF Tok
    <2>3. /\ 1 \in 1 .. 7 /\ 2 \in 1 .. 7 /\ 3 \in 1 .. 7 /\ 4 \in 1 .. 7
          /\ 5 \in 1 .. 7 /\ 6 \in 1 .. 7 /\ 7 \in 1 .. 7
      OBVIOUS
    <2> QED
      BY <1>2, <2>1, <2>2, <2>3, Zenon
  <1>7. ASSUME NEW k \in 1 .. Len(items)
        PROVE  /\ Tok(11 * k - 4) = Object /\ Tok(11 * k - 3) = Key("MarketCurrency")
               /\ Tok(11 * k - 2) = Coin("market", k) /\ Tok(11 * k - 1) = Key("BaseCurrency")
               /\ Tok(11 * k) = BaseToken(items, k)
               /\ Tok(11 * k + 1) = Key("MinTradeSize") /\ Tok(11 * k + 2) = Bool(TRUE)
               /\ Tok(11 * k + 3) = Key("MarketName") /\ Tok(11 * k + 4) = Coin("name", k)
               /\ Tok(11 * k + 5) = Key("IsActive") /\ Tok(11 * k + 6) = Bool(items[k] # "inactive")
    <2>1. \A j \in 1 .. 11 : tokens[7 + (k - 1) * 11 + j] = bs[k][j]
      BY <1>1, <1>2 DEF HasBlocks
    <2>2. /\ (11 * k - 4) + 1 = 7 + (k - 1) * 11 + 1 /\ (11 * k - 3) + 1 = 7 + (k - 1) * 11 + 2
          /\ (11 * k - 2) + 1 = 7 + (k - 1) * 11 + 3 /\ (11 * k - 1) + 1 = 7 + (k - 1) * 11 + 4
          /\ (11 * k) + 1 = 7 + (k - 1) * 11 + 5 /\ (11 * k + 1) + 1 = 7 + (k - 1) * 11 + 6
          /\ (11 * k + 2) + 1 = 7 + (k - 1) * 11 + 7 /\ (11 * k + 3) + 1 = 7 + (k - 1) * 11 + 8
          /\ (11 * k + 4) + 1 = 7 + (k - 1) * 11 + 9 /\ (11 * k + 5) + 1 = 7 + (k - 1) * 11 + 10
          /\ (11 * k + 6) + 1 = 7 + (k - 1) * 11 + 11
      OBVIOUS
    <2>3. /\ Tok(11 * k - 4) = bs[k][1] /\ Tok(11 * k - 3) = bs[k][2]
          /\ Tok(11 * k - 2) = bs[k][3] /\ Tok(11 * k - 1) = bs[k][4]
          /\ Tok(11 * k) = bs[k][5] /\ Tok(11 * k + 1) = bs[k][6]
          /\ Tok(11 * k + 2) = bs[k][7] /\ Tok(11 * k + 3) = bs[k][8]
          /\ Tok(11 * k + 4) = bs[k][9] /\ Tok(11 * k + 5) = bs[k][10]
          /\ Tok(11 * k + 6) = bs[k][11]
      BY <2>1, <2>2 DEF Tok
    <2>4. /\ bs[k][1] = Object /\ bs[k][2] = Key("MarketCurrency")
          /\ bs[k][3] = Coin("market", k) /\ bs[k][4] = Key("BaseCurrency")
          /\ bs[k][5] = BaseToken(items, k)
          /\ bs[k][6] = Key("MinTradeSize") /\ bs[k][7] = Bool(TRUE)
          /\ bs[k][8] = Key("MarketName") /\ bs[k][9] = Coin("name", k)
          /\ bs[k][10] = Key("IsActive") /\ bs[k][11] = Bool(items[k] # "inactive")
      BY <1>4
    <2> QED
      BY <2>3, <2>4, Zenon
  <1> QED
    BY <1>5, <1>6, <1>7

LEMMA BalanceDocument ==
  ASSUME NEW account, Len(account) \in Nat, NEW c
  PROVE  /\ LET bs == [k \in 1 .. Len(account) |-> PoloniexBlock(account[k])]
            IN  /\ Len(bs) = Len(account)
                /\ HasBlocks(BalanceTokens("poloniex", c, account), <<Object>>, bs, 8)
         /\ LET bs == [k \in 1 .. Len(account) |-> Btc38Block(account[k])]
            IN  /\ Len(bs) = Len(account)
                /\ HasBlocks(BalanceTokens("btc38", c, account), <<Object>>, bs, 4)
  <1> DEFINE ps == [k \in 1 .. Len(account) |-> PoloniexBlock(account[k])]
             bs == [k \in 1 .. Len(account) |-> Btc38Block(account[k])]
             h  == <<Object>>
  <1>1. BalanceTokens("poloniex", c, account) = h \o Flat(ps)
    BY Zenon DEF BalanceTokens
  <1>2. BalanceTokens("btc38", c, account) = h \o Flat(bs)
    BY Zenon DEF BalanceTokens
  <1>3. IsSeq(ps) /\ Len(ps) = Len(account)
    <2>1. DOMAIN ps = 1 .. Len(account) /\ ps = [k \in 1 .. Len(account) |-> ps[k]]
      OBVIOUS
    <2> HIDE DEF ps
    <2> QED
      BY <2>1, IndexedIsSeq
  <1>4. IsSeq(bs) /\ Len(bs) = Len(account)
    <2>1. DOMAIN bs = 1 .. Len(account) /\ bs = [k \in 1 .. Len(account) |-> bs[k]]
      OBVIOUS
    <2> HIDE DEF bs
    <2> QED
      BY <2>1, IndexedIsSeq
  <1>5. \A k \in 1 .. Len(ps) : Len(ps[k]) = 8
    <2>1. \A k \in 1 .. Len(account) : Len(PoloniexBlock(account[k])) = 8
      BY DEF PoloniexBlock
    <2> QED
      BY <1>3, <2>1
  <1>6. \A k \in 1 .. Len(bs) : Len(bs[k]) = 4
    <2>1. \A k \in 1 .. Len(account) : Len(Btc38Block(account[k])) = 4
      BY DEF Btc38Block
    <2> QED
      BY <1>4, <2>1
  <1>7. IsSeq(h) /\ 8 \in {4, 6, 8, 11} /\ 4 \in {4, 6, 8, 11}
    BY Tuples
  <1> HIDE DEF ps, bs, h
  <1>8. HasBlocks(BalanceTokens("poloniex", c, account), h, ps, 8)
    BY <1>1, <1>3, <1>5, <1>7, Blocks
  <1>9. HasBlocks(BalanceTokens("btc38", c, account), h, bs, 4)
    BY <1>2, <1>4, <1>6, <1>7, Blocks
  <1> QED
    BY <1>3, <1>4, <1>8, <1>9 DEF ps, bs, h

LEMMA PoloniexBalances ==
  ASSUME NEW account, Len(account) \in Nat, NEW c, tokens = BalanceTokens("poloniex", c, account)
  PROVE  /\ IsSeq(tokens) /\ tokNo = 1 + 8 * Len(account) /\ Tok(0) = Object
         /\ \A k \in 1 .. Len(account) :
              /\ Tok(8 * k - 7) = Key(account[k]) /\ Tok(8 * k - 6) = Object
              /\ Tok(8 * k - 5) = Key("available") /\ Tok(8 * k - 4) = Held(account[k], "available")
              /\ Tok(8 * k - 3) = Key("onOrders") /\ Tok(8 * k - 2) = Held(account[k], "onOrders")
              /\ Tok(8 * k - 1) = Key("btcValue") /\ Tok(8 * k) = Held(account[k], "btcValue")
  <1> DEFINE bs == [k \in 1 .. Len(account) |-> PoloniexBlock(account[k])]
             h  == <<Object>>
  <1>1. Len(bs) = Len(account) /\ HasBlocks(tokens, h, bs, 8)
    BY BalanceDocument
  <1>2. Len(h) = 1 /\ h[1] = Object
    OBVIOUS
  <1>3. \A k \in 1 .. Len(account) : bs[k] = PoloniexBlock(account[k])
    OBVIOUS
  <1> HIDE DEF bs, h
  <1>4. ASSUME NEW k \in 1 .. Len(account)
        PROVE  /\ bs[k][1] = Key(account[k]) /\ bs[k][2] = Object
               /\ bs[k][3] = Key("available") /\ bs[k][4] = Held(account[k], "available")
               /\ bs[k][5] = Key("onOrders") /\ bs[k][6] = Held(account[k], "onOrders")
               /\ bs[k][7] = Key("btcValue") /\ bs[k][8] = Held(account[k], "btcValue")
    BY <1>3 DEF PoloniexBlock
  <1>5. IsSeq(tokens) /\ tokNo = 1 + 8 * Len(account) /\ Tok(0) = Object
    BY <1>1, <1>2 DEF HasBlocks, tokNo, Tok
  <1>6. ASSUME NEW k \in 1 .. Len(account)
        PROVE  /\ Tok(8 * k - 7) = Key(account[k]) /\ Tok(8 * k - 6) = Object
               /\ Tok(8 * k - 5) = Key("available") /\ Tok(8 * k - 4) = Held(account[k], "available")
               /\ Tok(8 * k - 3) = Key("onOrders") /\ Tok(8 * k - 2) = Held(account[k], "onOrders")
               /\ Tok(8 * k - 1) = Key("btcValue") /\ Tok(8 * k) = Held(account[k], "btcValue")
    <2>1. \A j \in 1 .. 8 : tokens[1 + (k - 1) * 8 + j] = bs[k][j]
      BY <1>1, <1>2 DEF HasBlocks
    <2>2. /\ (8 * k - 7) + 1 = 1 + (k - 1) * 8 + 1 /\ (8 * k - 6) + 1 = 1 + (k - 1) * 8 + 2
          /\ (8 * k - 5) + 1 = 1 + (k - 1) * 8 + 3 /\ (8 * k - 4) + 1 = 1 + (k - 1) * 8 + 4
          /\ (8 * k - 3) + 1 = 1 + (k - 1) * 8 + 5 /\ (8 * k - 2) + 1 = 1 + (k - 1) * 8 + 6
          /\ (8 * k - 1) + 1 = 1 + (k - 1) * 8 + 7 /\ 8 * k + 1 = 1 + (k - 1) * 8 + 8
      OBVIOUS
    <2>3. /\ Tok(8 * k - 7) = bs[k][1] /\ Tok(8 * k - 6) = bs[k][2]
          /\ Tok(8 * k - 5) = bs[k][3] /\ Tok(8 * k - 4) = bs[k][4]
          /\ Tok(8 * k - 3) = bs[k][5] /\ Tok(8 * k - 2) = bs[k][6]
          /\ Tok(8 * k - 1) = bs[k][7] /\ Tok(8 * k) = bs[k][8]
      BY <2>1, <2>2 DEF Tok
    <2> QED
      BY <1>4, <2>3
  <1> QED
    BY <1>5, <1>6

LEMMA Btc38Balances ==
  ASSUME NEW account, Len(account) \in Nat, NEW c, tokens = BalanceTokens("btc38", c, account)
  PROVE  /\ IsSeq(tokens) /\ tokNo = 1 + 4 * Len(account) /\ Tok(0) = Object
         /\ \A k \in 1 .. Len(account) :
              /\ Tok(4 * k - 3) = Btc38Key(account[k], "_balance")
              /\ Tok(4 * k - 2) = Held(account[k], "balance")
              /\ Tok(4 * k - 1) = Btc38Key(account[k], "_balance_lock")
              /\ Tok(4 * k) = Held(account[k], "lock")
  <1> DEFINE bs == [k \in 1 .. Len(account) |-> Btc38Block(account[k])]
             h  == <<Object>>
  <1>1. Len(bs) = Len(account) /\ HasBlocks(tokens, h, bs, 4)
    BY BalanceDocument
  <1>2. Len(h) = 1 /\ h[1] = Object
    OBVIOUS
  <1>3. \A k \in 1 .. Len(account) : bs[k] = Btc38Block(account[k])
    OBVIOUS
  <1> HIDE DEF bs, h
  <1>4. ASSUME NEW k \in 1 .. Len(account)
        PROVE  /\ bs[k][1] = Btc38Key(account[k], "_balance") /\ bs[k][2] = Held(account[k], "balance")
               /\ bs[k][3] = Btc38Key(account[k], "_balance_lock") /\ bs[k][4] = Held(account[k], "lock")
    BY <1>3 DEF Btc38Block
  <1>5. IsSeq(tokens) /\ tokNo = 1 + 4 * Len(account) /\ Tok(0) = Object
    BY <1>1, <1>2 DEF HasBlocks, tokNo, Tok
  <1>6. ASSUME NEW k \in 1 .. Len(account)
        PROVE  /\ Tok(4 * k - 3) = Btc38Key(account[k], "_balance")
               /\ Tok(4 * k - 2) = Held(account[k], "balance")
               /\ Tok(4 * k - 1) = Btc38Key(account[k], "_balance_lock")
               /\ Tok(4 * k) = Held(account[k], "lock")
    <2>1. \A j \in 1 .. 4 : tokens[1 + (k - 1) * 4 + j] = bs[k][j]
      BY <1>1, <1>2 DEF HasBlocks
    <2>2. /\ (4 * k - 3) + 1 = 1 + (k - 1) * 4 + 1 /\ (4 * k - 2) + 1 = 1 + (k - 1) * 4 + 2
          /\ (4 * k - 1) + 1 = 1 + (k - 1) * 4 + 3 /\ 4 * k + 1 = 1 + (k - 1) * 4 + 4
      OBVIOUS
    <2>3. /\ Tok(4 * k - 3) = bs[k][1] /\ Tok(4 * k - 2) = bs[k][2]
          /\ Tok(4 * k - 1) = bs[k][3] /\ Tok(4 * k) = bs[k][4]
      BY <2>1, <2>2 DEF Tok
    <2> QED
      BY <1>4, <2>3
  <1> QED
    BY <1>5, <1>6

(* The answer of bittrex, which has one currency. *)
LEMMA BittrexBalances ==
  ASSUME NEW account, NEW c, tokens = BalanceTokens("bittrex", c, account)
  PROVE  /\ IsSeq(tokens) /\ tokNo = 15
         /\ Tok(0) = Object /\ Tok(1) = Key("success") /\ Tok(2) = Bool(TRUE)
         /\ Tok(3) = Key("message") /\ Tok(4) = Key("") /\ Tok(5) = Key("result")
         /\ Tok(6) = Object /\ Tok(7) = Key("Currency") /\ Tok(8) = Key(c)
         /\ Tok(9) = Key("Balance") /\ Tok(10) = Held(c, "Balance")
         /\ Tok(11) = Key("Available") /\ Tok(12) = Held(c, "Available")
         /\ Tok(13) = Key("Pending") /\ Tok(14) = Held(c, "Pending")
  <1> DEFINE t == <<Object, Key("success"), Bool(TRUE), Key("message"), Key(""), Key("result"),
                    Object, Key("Currency"), Key(c), Key("Balance"), Held(c, "Balance"),
                    Key("Available"), Held(c, "Available"), Key("Pending"), Held(c, "Pending")>>
  <1>1. tokens = t
    BY Zenon DEF BalanceTokens
  <1>2. /\ Len(t) = 15
        /\ t[1] = Object /\ t[2] = Key("success") /\ t[3] = Bool(TRUE) /\ t[4] = Key("message")
        /\ t[5] = Key("") /\ t[6] = Key("result") /\ t[7] = Object /\ t[8] = Key("Currency")
        /\ t[9] = Key(c) /\ t[10] = Key("Balance") /\ t[11] = Held(c, "Balance")
        /\ t[12] = Key("Available") /\ t[13] = Held(c, "Available")
        /\ t[14] = Key("Pending") /\ t[15] = Held(c, "Pending")
    OBVIOUS
  <1>3. IsSeq(tokens)
    <2>1. 0 \in Nat /\ "bittrex" \in Vendors
      BY DEF Vendors
    <2>2. tokens = BalanceTokens("bittrex", c, <<>>) /\ Len(<<>>) = 0
      BY Zenon, <1>1 DEF BalanceTokens
    <2> QED
      BY <2>1, <2>2, BalanceTokensIsSeq
  <1> HIDE DEF t
  <1>4. /\ Tok(0) = t[1] /\ Tok(1) = t[2] /\ Tok(2) = t[3] /\ Tok(3) = t[4] /\ Tok(4) = t[5]
        /\ Tok(5) = t[6] /\ Tok(6) = t[7] /\ Tok(7) = t[8] /\ Tok(8) = t[9] /\ Tok(9) = t[10]
        /\ Tok(10) = t[11] /\ Tok(11) = t[12] /\ Tok(12) = t[13] /\ Tok(13) = t[14]
        /\ Tok(14) = t[15]
    BY <1>1 DEF Tok
  <1> QED
    BY <1>1, <1>2, <1>3, <1>4, Zenon DEF tokNo

-----------------------------------------------------------------------------
(* What the parsers of a balance find. *)

LEMMA FindNext ==
  ASSUME IsSeq(tokens), NEW t, NEW i \in Nat, NEW p \in Nat, p = i + 1, p < tokNo,
         Tok(i) # t, Tok(p) = t
  PROVE  FindToken(i, t) = p
  <1>1. i <= p /\ \A j \in Nat : i <= j /\ j < p => j = i
    OBVIOUS
  <1>2. \A j \in Nat : i <= j /\ j < p => Tok(j) # t
    BY <1>1, Zenon
  <1> QED
    BY <1>1, <1>2, FindIs

LEMMA FindSecond ==
  ASSUME IsSeq(tokens), NEW t, NEW i \in Nat, NEW p \in Nat, p = i + 2, p < tokNo,
         Tok(i) # t, Tok(i + 1) # t, Tok(p) = t
  PROVE  FindToken(i, t) = p
  <1>1. i <= p /\ \A j \in Nat : i <= j /\ j < p => j = i \/ j = i + 1
    OBVIOUS
  <1>2. \A j \in Nat : i <= j /\ j < p => Tok(j) # t
    BY <1>1, Zenon
  <1> QED
    BY <1>1, <1>2, FindIs

LEMMA FirstOf ==
  ASSUME NEW s, Len(s) \in Nat, NEW x, \E k \in 1 .. Len(s) : s[k] = x
  PROVE  \E f \in 1 .. Len(s) : s[f] = x /\ \A k \in 1 .. f - 1 : s[k] # x
  <1> DEFINE K == {k \in 1 .. Len(s) : s[k] = x}
  <1>1. K \subseteq Nat /\ K # {}
    OBVIOUS
  <1>2. PICK f \in K : \A k \in K : f <= k
    BY <1>1, LeastNat
  <1>3. f \in 1 .. Len(s) /\ s[f] = x
    OBVIOUS
  <1>4. \A k \in 1 .. f - 1 : k \in 1 .. Len(s) /\ ~(f <= k)
    BY <1>3
  <1> QED
    BY <1>2, <1>3, <1>4

(* The first entry of the account for the currency, f, is the one that is read. *)
LEMMA PoloniexFindsBalance ==
  ASSUME NEW account, Len(account) \in Nat, NEW c,
         tokens = BalanceTokens("poloniex", c, account),
         c \notin {"available", "onOrders", "btcValue"}
  PROVE  /\ (\A k \in 1 .. Len(account) : account[k] # c) => FindToken(0, Key(c)) = -1
         /\ \A f \in 1 .. Len(account) :
              account[f] = c /\ (\A k \in 1 .. f - 1 : account[k] # c) =>
                /\ FindToken(0, Key(c)) = 8 * f - 7
                /\ FindToken(8 * f - 7, Key("available")) = 8 * f - 5
                /\ FindToken(8 * f - 4, Key("onOrders")) = 8 * f - 3
                /\ FindToken(8 * f - 2, Key("btcValue")) = 8 * f - 1
  <1> DEFINE N == Len(account)
  <1>1. /\ IsSeq(tokens) /\ tokNo = 1 + 8 * N /\ Tok(0) = Object
        /\ \A k \in 1 .. N :
             /\ Tok(8 * k - 7) = Key(account[k]) /\ Tok(8 * k - 6) = Object
             /\ Tok(8 * k - 5) = Key("available") /\ Tok(8 * k - 4) = Held(account[k], "available")
             /\ Tok(8 * k - 3) = Key("onOrders") /\ Tok(8 * k - 2) = Held(account[k], "onOrders")
             /\ Tok(8 * k - 1) = Key("btcValue") /\ Tok(8 * k) = Held(account[k], "btcValue")
    BY PoloniexBalances
  <1> HIDE DEF N
  <1>2. N \in Nat
    BY DEF N
  <1>3. /\ Key("available") # Key(c) /\ Key("onOrders") # Key(c) /\ Key("btcValue") # Key(c)
        /\ Object # Key(c)
        /\ \A x, w : Held(x, w) # Key(c)
    BY Strings, Different
  <1>4. ASSUME NEW k \in 1 .. N, account[k] # c,
               NEW j \in {8 * k - 7, 8 * k - 6, 8 * k - 5, 8 * k - 4,
                          8 * k - 3, 8 * k - 2, 8 * k - 1, 8 * k}
        PROVE  Tok(j) # Key(c)
    <2>1. Key(account[k]) # Key(c)
      BY <1>4, Strings
    <2>2. Tok(j) \in {Key(account[k]), Object, Key("available"), Held(account[k], "available"),
                      Key("onOrders"), Held(account[k], "onOrders"),
                      Key("btcValue"), Held(account[k], "btcValue")}
      BY <1>1
    <2> QED
      BY <1>3, <2>1, <2>2
  <1>5. ASSUME NEW f \in 0 .. N, \A k \in 1 .. f : account[k] # c,
               NEW j \in Nat, j < 8 * f + 1
        PROVE  Tok(j) # Key(c)
    <2>1. CASE j = 0
      BY <1>1, <1>3, <2>1
    <2>2. CASE j # 0
      <3> DEFINE k == (j + 7) \div 8
      <3>1. /\ k \in 1 .. f
            /\ j \in {8 * k - 7, 8 * k - 6, 8 * k - 5, 8 * k - 4,
                      8 * k - 3, 8 * k - 2, 8 * k - 1, 8 * k}
        BY <1>2, <1>5, <2>2
      <3> HIDE DEF k
      <3>2. k \in 1 .. N /\ account[k] # c
        BY <1>2, <1>5, <3>1
      <3> QED
        BY <1>4, <3>1, <3>2
    <2> QED
      BY <2>1, <2>2
  <1>6. ASSUME \A k \in 1 .. N : account[k] # c PROVE FindToken(0, Key(c)) = -1
    <2>1. N \in 0 .. N /\ tokNo = 8 * N + 1 /\ 0 \in Nat
      BY <1>1, <1>2
    <2>2. \A j \in Nat : 0 <= j /\ j < tokNo => Tok(j) # Key(c)
      BY <1>5, <1>6, <2>1
    <2> QED
      BY <1>1, <2>1, <2>2, FindNone
  <1>7. ASSUME NEW f \in 1 .. N, account[f] = c, \A k \in 1 .. f - 1 : account[k] # c
        PROVE  /\ FindToken(0, Key(c)) = 8 * f - 7
               /\ FindToken(8 * f - 7, Key("available")) = 8 * f - 5
               /\ FindToken(8 * f - 4, Key("onOrders")) = 8 * f - 3
               /\ FindToken(8 * f - 2, Key("btcValue")) = 8 * f - 1
    <2>1. /\ f - 1 \in 0 .. N /\ 8 * f - 7 = 8 * (f - 1) + 1
          /\ 8 * f - 7 \in Nat /\ 8 * f - 5 \in Nat /\ 8 * f - 4 \in Nat /\ 8 * f - 3 \in Nat
          /\ 8 * f - 2 \in Nat /\ 8 * f - 1 \in Nat /\ 0 <= 8 * f - 7 /\ 0 \in Nat
          /\ 8 * f - 7 < tokNo /\ 8 * f - 5 < tokNo /\ 8 * f - 3 < tokNo /\ 8 * f - 1 < tokNo
          /\ 8 * f - 5 = (8 * f - 7) + 2 /\ 8 * f - 6 = (8 * f - 7) + 1
          /\ 8 * f - 3 = (8 * f - 4) + 1 /\ 8 * f - 1 = (8 * f - 2) + 1
      BY <1>1, <1>2
    <2>2. /\ Tok(8 * f - 7) = Key(c) /\ Tok(8 * f - 6) = Object
          /\ Tok(8 * f - 5) = Key("available") /\ Tok(8 * f - 4) = Held(c, "available")
          /\ Tok(8 * f - 3) = Key("onOrders") /\ Tok(8 * f - 2) = Held(c, "onOrders")
          /\ Tok(8 * f - 1) = Key("btcValue")
      BY <1>1, <1>7
    <2>3. FindToken(0, Key(c)) = 8 * f - 7
      <3>1. \A j \in Nat : 0 <= j /\ j < 8 * f - 7 => Tok(j) # Key(c)
        BY <1>5, <1>7, <2>1
      <3> QED
        BY <1>1, <2>1, <2>2, <3>1, FindIs
    <2>4. FindToken(8 * f - 7, Key("available")) = 8 * f - 5
      <3>1. Key(c) # Key("available") /\ Object # Key("available")
        BY <1>3, Different
      <3> QED
        BY <1>1, <2>1, <2>2, <3>1, FindSecond
    <2>5. FindToken(8 * f - 4, Key("onOrders")) = 8 * f - 3
      <3>1. Held(c, "available") # Key("onOrders")
        BY Different
      <3> QED
        BY <1>1, <2>1, <2>2, <3>1, FindNext
    <2>6. FindToken(8 * f - 2, Key("btcValue")) = 8 * f - 1
      <3>1. Held(c, "onOrders") # Key("btcValue")
        BY Different
      <3> QED
        BY <1>1, <2>1, <2>2, <3>1, FindNext
    <2> QED
      BY <2>3, <2>4, <2>5, <2>6
  <1> QED
    BY <1>6, <1>7 DEF N

LEMMA Btc38FindsBalance ==
  ASSUME NEW account, Len(account) \in Nat, NEW u, NEW c,
         tokens = BalanceTokens("btc38", u, account)
  PROVE  LET key  == Btc38Key(c, "_balance")
             lock == Btc38Key(c, "_balance_lock")
         IN  /\ (\A k \in 1 .. Len(account) : account[k] # c) => FindToken(0, key) = -1
             /\ \A f \in 1 .. Len(account) :
                  account[f] = c /\ (\A k \in 1 .. f - 1 : account[k] # c) =>
                    FindToken(0, key) = 4 * f - 3 /\ FindToken(4 * f - 2, lock) = 4 * f - 1
  <1> DEFINE N    == Len(account)
             key  == Btc38Key(c, "_balance")
             lock == Btc38Key(c, "_balance_lock")
  <1>1. /\ IsSeq(tokens) /\ tokNo = 1 + 4 * N /\ Tok(0) = Object
        /\ \A k \in 1 .. N :
             /\ Tok(4 * k - 3) = Btc38Key(account[k], "_balance")
             /\ Tok(4 * k - 2) = Held(account[k], "balance")
             /\ Tok(4 * k - 1) = Btc38Key(account[k], "_balance_lock")
             /\ Tok(4 * k) = Held(account[k], "lock")
    BY Btc38Balances
  <1>2. N \in Nat
    OBVIOUS
  <1>3. /\ Object # key /\ Object # lock
        /\ \A x, w : Held(x, w) # key /\ Held(x, w) # lock
        /\ \A x : Btc38Key(x, "_balance_lock") # key
        /\ \A x : x # c => Btc38Key(x, "_balance") # key
    BY Different
  <1> HIDE DEF N, key, lock
  <1>4. ASSUME NEW k \in 1 .. N, account[k] # c, NEW j \in {4 * k - 3, 4 * k - 2, 4 * k - 1, 4 * k}
        PROVE  Tok(j) # key
    <2>1. Tok(j) \in {Btc38Key(account[k], "_balance"), Held(account[k], "balance"),
                      Btc38Key(account[k], "_balance_lock"), Held(account[k], "lock")}
      BY <1>1
    <2> QED
      BY <1>3, <1>4, <2>1
  <1>5. ASSUME NEW f \in 0 .. N, \A k \in 1 .. f : account[k] # c,
               NEW j \in Nat, j < 4 * f + 1
        PROVE  Tok(j) # key
    <2>1. CASE j = 0
      BY <1>1, <1>3, <2>1
    <2>2. CASE j # 0
      <3> DEFINE k == (j + 3) \div 4
      <3>1. k \in 1 .. f /\ j \in {4 * k - 3, 4 * k - 2, 4 * k - 1, 4 * k}
        BY <1>2, <1>5, <2>2
      <3> HIDE DEF k
      <3>2. k \in 1 .. N /\ account[k] # c
        BY <1>2, <1>5, <3>1
      <3> QED
        BY <1>4, <3>1, <3>2
    <2> QED
      BY <2>1, <2>2
  <1>6. ASSUME \A k \in 1 .. N : account[k] # c PROVE FindToken(0, key) = -1
    <2>1. N \in 0 .. N /\ tokNo = 4 * N + 1 /\ 0 \in Nat
      BY <1>1, <1>2
    <2>2. \A j \in Nat : 0 <= j /\ j < tokNo => Tok(j) # key
      BY <1>5, <1>6, <2>1
    <2> QED
      BY <1>1, <2>1, <2>2, FindNone
  <1>7. ASSUME NEW f \in 1 .. N, account[f] = c, \A k \in 1 .. f - 1 : account[k] # c
        PROVE  FindToken(0, key) = 4 * f - 3 /\ FindToken(4 * f - 2, lock) = 4 * f - 1
    <2>1. /\ f - 1 \in 0 .. N /\ 4 * f - 3 = 4 * (f - 1) + 1
          /\ 4 * f - 3 \in Nat /\ 4 * f - 2 \in Nat /\ 4 * f - 1 \in Nat
          /\ 0 <= 4 * f - 3 /\ 0 \in Nat
          /\ 4 * f - 3 < tokNo /\ 4 * f - 1 < tokNo /\ 4 * f - 1 = (4 * f - 2) + 1
      BY <1>1, <1>2
    <2>2. Tok(4 * f - 3) = key /\ Tok(4 * f - 2) = Held(c, "balance") /\ Tok(4 * f - 1) = lock
      BY <1>1, <1>7 DEF key, lock
    <2>3. \A j \in Nat : 0 <= j /\ j < 4 * f - 3 => Tok(j) # key
      BY <1>5, <1>7, <2>1
    <2>4. FindToken(0, key) = 4 * f - 3
      BY <1>1, <2>1, <2>2, <2>3, FindIs
    <2>5. FindToken(4 * f - 2, lock) = 4 * f - 1
      BY <1>1, <1>3, <2>1, <2>2, FindNext
    <2> QED
      BY <2>4, <2>5
  <1> QED
    BY <1>6, <1>7 DEF N, key, lock

LEMMA BittrexFindsBalance ==
  ASSUME NEW account, NEW c, tokens = BalanceTokens("bittrex", c, account), c # "Balance"
  PROVE  /\ FindToken(0, Key("Currency")) = 7 /\ FindToken(8, Key("Balance")) = 9
         /\ FindToken(10, Key("Available")) = 11 /\ FindToken(12, Key("Pending")) = 13
  <1>1. /\ IsSeq(tokens) /\ tokNo = 15
        /\ Tok(0) = Object /\ Tok(1) = Key("success") /\ Tok(2) = Bool(TRUE)
        /\ Tok(3) = Key("message") /\ Tok(4) = Key("") /\ Tok(5) = Key("result")
        /\ Tok(6) = Object /\ Tok(7) = Key("Currency") /\ Tok(8) = Key(c)
        /\ Tok(9) = Key("Balance") /\ Tok(10) = Held(c, "Balance")
        /\ Tok(11) = Key("Available") /\ Tok(12) = Held(c, "Available")
        /\ Tok(13) = Key("Pending")
    BY BittrexBalances
  <1>2. FindToken(0, Key("Currency")) = 7
    <2> DEFINE t == Key("Currency")
    <2>1. /\ Object # t /\ Key("success") # t /\ Bool(TRUE) # t /\ Key("message") # t
          /\ Key("") # t /\ Key("result") # t
      BY Strings, Different
    <2>2. \A j \in Nat : 0 <= j /\ j < 7 => j = 0 \/ j = 1 \/ j = 2 \/ j = 3 \/ j = 4 \/ j = 5 \/ j = 6
      OBVIOUS
    <2> HIDE DEF t
    <2>3. \A j \in Nat : 0 <= j /\ j < 7 => Tok(j) # t
      BY <1>1, <2>1, <2>2
    <2>4. tokNo = 15 /\ IsSeq(tokens) /\ Tok(7) = t
      BY <1>1 DEF t
    <2>5. 0 \in Nat /\ 7 \in Nat /\ 0 <= 7 /\ 7 < tokNo
      BY <2>4
    <2> QED
      BY <2>3, <2>4, <2>5, FindIs DEF t
  <1>3. /\ Key(c) # Key("Balance") /\ Held(c, "Balance") # Key("Available")
        /\ Held(c, "Available") # Key("Pending")
    BY Strings, Different
  <1>4. /\ 8 \in Nat /\ 9 \in Nat /\ 9 = 8 + 1 /\ 9 < tokNo
        /\ 10 \in Nat /\ 11 \in Nat /\ 11 = 10 + 1 /\ 11 < tokNo
        /\ 12 \in Nat /\ 13 \in Nat /\ 13 = 12 + 1 /\ 13 < tokNo
    <2>1. tokNo = 15
      BY <1>1
    <2> QED
      BY <2>1
  <1>5. FindToken(8, Key("Balance")) = 9
    BY <1>1, <1>3, <1>4, FindNext
  <1>6. FindToken(10, Key("Available")) = 11
    BY <1>1, <1>3, <1>4, FindNext
  <1>7. FindToken(12, Key("Pending")) = 13
    BY <1>1, <1>3, <1>4, FindNext
  <1> QED
    BY <1>2, <1>5, <1>6, <1>7

(* An error has none of the keys, nor those of a market. *)
LEMMA ErrorHasNone ==
  ASSUME NEW v \in Vendors, tokens = ErrorTokens(v), NEW i \in Nat
  PROVE  /\ \A k \in {"Currency", "available", "id", "ticker", "MarketCurrency"} :
              FindToken(i, Key(k)) = -1
         /\ v # "bittrex" => \A c, x : FindToken(i, Btc38Key(c, x)) = -1
  <1> DEFINE T == {Object, Key("error"), Key("no"), Key("success"), Bool(FALSE), Key("message"),
                   Key("result"), Null}
  <1>1. IsSeq(tokens) /\ \A j \in Nat : j < tokNo => Tok(j) \in T
    <2>1. CASE v = "bittrex"
      <3> DEFINE t == <<Object, Key("success"), Bool(FALSE), Key("message"), Key("no"),
                        Key("result"), Null>>
      <3>1. tokens = t
        BY <2>1, Zenon DEF ErrorTokens
      <3>2. IsSeq(t)
        BY Tuples
      <3>3. /\ Len(t) = 7 /\ t[1] = Object /\ t[2] = Key("success") /\ t[3] = Bool(FALSE)
            /\ t[4] = Key("message") /\ t[5] = Key("no") /\ t[6] = Key("result") /\ t[7] = Null
        OBVIOUS
      <3> HIDE DEF t
      <3>4. \A j \in 1 .. 7 : t[j] \in T
        <4>1. \A j \in 1 .. 7 : j = 1 \/ j = 2 \/ j = 3 \/ j = 4 \/ j = 5 \/ j = 6 \/ j = 7
          OBVIOUS
        <4> QED
          BY <3>3, <4>1
      <3> HIDE DEF T
      <3> QED
        BY <3>1, <3>2, <3>3, <3>4 DEF tokNo, Tok
    <2>2. CASE v # "bittrex"
      <3> DEFINE t == <<Object, Key("error"), Key("no")>>
      <3>1. tokens = t
        BY <2>2, Zenon DEF ErrorTokens
      <3>2. IsSeq(t)
        BY Tuples
      <3>3. Len(t) = 3 /\ t[1] = Object /\ t[2] = Key("error") /\ t[3] = Key("no")
        OBVIOUS
      <3> HIDE DEF t
      <3>4. \A j \in 1 .. 3 : t[j] \in T
        <4>1. \A j \in 1 .. 3 : j = 1 \/ j = 2 \/ j = 3
          OBVIOUS
        <4> QED
          BY <3>3, <4>1
      <3> HIDE DEF T
      <3> QED
        BY <3>1, <3>2, <3>3, <3>4 DEF tokNo, Tok
    <2> QED
      BY <2>1, <2>2
  <1>2. ASSUME NEW k \in {"Currency", "available", "id", "ticker", "MarketCurrency"}, NEW t \in T PROVE t # Key(k)
    <2>1. /\ Key("error") # Key(k) /\ Key("no") # Key(k) /\ Key("success") # Key(k)
          /\ Key("message") # Key(k) /\ Key("result") # Key(k)
      BY Strings
    <2>2. Object # Key(k) /\ Bool(FALSE) # Key(k) /\ Null # Key(k)
      BY Different
    <2> QED
      BY <2>1, <2>2
  <1>3. v # "bittrex" => \A j \in Nat : j < tokNo => Tok(j) \in {Object, Key("error"), Key("no")}
    <2> SUFFICES ASSUME v # "bittrex"
                 PROVE  \A j \in Nat : j < tokNo => Tok(j) \in {Object, Key("error"), Key("no")}
      OBVIOUS
    <2> DEFINE t == <<Object, Key("error"), Key("no")>>
    <2>1. tokens = t
      BY Zenon DEF ErrorTokens
    <2>2. Len(t) = 3 /\ \A j \in 1 .. 3 : t[j] \in {Object, Key("error"), Key("no")}
      OBVIOUS
    <2> HIDE DEF t
    <2> QED
      BY <2>1, <2>2 DEF tokNo, Tok
  <1> HIDE DEF T
  <1>4. ASSUME NEW t, \A u \in T : u # t PROVE FindToken(i, t) = -1
    <2>1. \A j \in Nat : i <= j /\ j < tokNo => Tok(j) # t
      BY <1>1, <1>4
    <2> QED
      BY <1>1, <2>1, FindNone
  <1>5. ASSUME v # "bittrex", NEW c, NEW x PROVE FindToken(i, Btc38Key(c, x)) = -1
    <2>1. \A t \in {Object, Key("error"), Key("no")} : t # Btc38Key(c, x)
      BY Different
    <2>2. \A j \in Nat : i <= j /\ j < tokNo => Tok(j) # Btc38Key(c, x)
      BY <1>3, <1>5, <2>1
    <2> QED
      BY <1>1, <2>2, FindNone
  <1>6. \A k \in {"Currency", "available", "id", "ticker", "MarketCurrency"} : FindToken(i, Key(k)) = -1
    BY <1>2, <1>4
  <1> QED
    BY <1>5, <1>6

-----------------------------------------------------------------------------
(* What is asked for, and what may be answered. *)

LEMMA CallAnswers ==
  ASSUME NEW c \in Calls
  PROVE  /\ c.op = "markets" =>
              /\ Len(c.answers) = IF c.vendor = "btc38" THEN 2 ELSE 1
              /\ \A n \in DOMAIN c.answers : c.answers[n] \in MarketAnswers(c.vendor)
         /\ c.op = "balance" => c.currency \in Currencies /\ c.answers[1] \in BalanceAnswers
  <1> DEFINE One(a)    == <<a>>
             Two(a, b) == <<a, b>>
             P == /\ c.op = "markets" =>
                       /\ Len(c.answers) = IF c.vendor = "btc38" THEN 2 ELSE 1
                       /\ \A n \in DOMAIN c.answers : c.answers[n] \in MarketAnswers(c.vendor)
                  /\ c.op = "balance" => c.currency \in Currencies /\ c.answers[1] \in BalanceAnswers
             C1 == {ACall("books", v, "none", One(a)) : v \in Vendors, a \in BookAnswers}
             C2 == {ACall("markets", "btc38", "none", Two(a, b)) :
                      a \in MarketAnswers("btc38"), b \in MarketAnswers("btc38")}
             C3 == UNION {{ACall("markets", v, "none", One(a)) : a \in MarketAnswers(v)} :
                            v \in {"bittrex", "poloniex"}}
             C4 == {ACall("balance", v, u, One(a)) :
                      v \in Vendors, u \in Currencies, a \in BalanceAnswers}
  <1>1. c \in C1 \cup C2 \cup C3 \cup C4
    BY DEF Calls
  <1>2. /\ \A a : Len(One(a)) = 1 /\ One(a)[1] = a /\ DOMAIN One(a) = {1}
        /\ \A a, b : /\ Len(Two(a, b)) = 2 /\ Two(a, b)[1] = a /\ Two(a, b)[2] = b
                     /\ DOMAIN Two(a, b) = {1, 2}
    OBVIOUS
  <1> HIDE DEF One, Two
  <1>3. CASE c \in C1
    <2>1. PICK v \in Vendors, a \in BookAnswers : c = ACall("books", v, "none", One(a))
      BY <1>3
    <2> QED
      BY <2>1 DEF ACall
  <1>4. CASE c \in C2
    <2>1. PICK a \in MarketAnswers("btc38"), b \in MarketAnswers("btc38") :
            c = ACall("markets", "btc38", "none", Two(a, b))
      BY <1>4
    <2>2. c.op = "markets" /\ c.vendor = "btc38" /\ c.answers = Two(a, b)
      BY <2>1 DEF ACall
    <2>3. Len(Two(a, b)) = 2 /\ \A n \in DOMAIN Two(a, b) : Two(a, b)[n] = a \/ Two(a, b)[n] = b
      BY <1>2
    <2> QED
      BY <2>2, <2>3
  <1>5. CASE c \in C3
    <2>1. PICK v \in {"bittrex", "poloniex"} :
            c \in {ACall("markets", v, "none", One(a)) : a \in MarketAnswers(v)}
      BY <1>5, Zenon
    <2>2. PICK a \in MarketAnswers(v) : c = ACall("markets", v, "none", One(a))
      BY <2>1, Zenon
    <2>3. c.op = "markets" /\ c.vendor = v /\ c.answers = One(a) /\ v # "btc38"
      BY <2>2 DEF ACall
    <2>4. Len(One(a)) = 1 /\ \A n \in DOMAIN One(a) : One(a)[n] = a
      BY <1>2
    <2> QED
      BY <2>3, <2>4
  <1>6. CASE c \in C4
    <2>1. PICK v \in Vendors, u \in Currencies, a \in BalanceAnswers :
            c = ACall("balance", v, u, One(a))
      BY <1>6
    <2>2. c.op = "balance" /\ c.currency = u /\ c.answers = One(a)
      BY <2>1 DEF ACall
    <2> QED
      BY <1>2, <2>2
  <1> HIDE DEF C1, C2, C3, C4, P
  <1>7. P
    BY <1>1, <1>3, <1>4, <1>5, <1>6 DEF P
  <1> QED
    BY <1>7 DEF P

LEMMA NoItems ==
  ASSUME NEW d \in Failures \cup OtherAnswers PROVE d.items = <<>> /\ Len(d.items) = 0
  <1>1. CASE d \in Failures
    <2>1. PICK f \in FailureKinds : d = Answer(f, 0, 0, <<>>)
      BY <1>1, Zenon DEF Failures, Empty, FailureKinds
    <2>2. d.items = <<>>
      BY <2>1 DEF Answer
    <2> QED
      BY <2>2
  <1>2. CASE d \in OtherAnswers
    <2>1. PICK t \in Others :
            d = [kind |-> "other", bids |-> 0, asks |-> 0, items |-> <<>>, tokens |-> t]
      BY <1>2, Zenon DEF OtherAnswers
    <2>2. d.items = <<>>
      BY <2>1
    <2> QED
      BY <2>2
  <1> QED
    BY <1>1, <1>2

LEMMA ItemKinds ==
  ASSUME NEW v \in Vendors, NEW d \in MarketAnswers(v), NEW k \in 1 .. Len(d.items)
  PROVE  /\ v = "btc38"    => d.items[k] = "active"
         /\ v = "poloniex" => d.items[k] \in {"active", "unsplit"}
         /\ v = "bittrex"  => d.items[k] \in {"active", "inactive", "null"}
  <1>1. CASE d \in Failures \cup OtherAnswers
    BY <1>1, NoItems
  <1>2. CASE d \notin Failures \cup OtherAnswers
    <2> DEFINE kinds == CASE v = "btc38"    -> {"active"}
                          [] v = "poloniex" -> {"active", "unsplit"}
                          [] v = "bittrex"  -> {"active", "inactive", "null"}
    <2>1. PICK m \in Markets : (\A i \in DOMAIN m : m[i] \in kinds) /\ d = Answer("markets", 0, 0, m)
      BY <1>2, Zenon DEF MarketAnswers
    <2>2. d.items = m
      BY <2>1 DEF Answer
    <2>3. k \in DOMAIN m
      BY <2>2, MarketsAssumption
    <2>4. m[k] \in kinds
      BY <2>1, <2>3
    <2> QED
      BY <2>2, <2>4
  <1> QED
    BY <1>1, <1>2

LEMMA AccountFacts ==
  ASSUME NEW d \in BalanceAnswers
  PROVE  DOMAIN d.items = 1 .. Len(d.items) /\ \A k \in 1 .. Len(d.items) : d.items[k] \in Currencies
  <1>1. CASE d \in Failures \cup OtherAnswers
    BY <1>1, NoItems
  <1>2. CASE d \notin Failures \cup OtherAnswers
    <2>1. PICK m \in Accounts : d = Answer("balances", 0, 0, m)
      BY <1>2, Zenon DEF BalanceAnswers
    <2>2. d.items = m /\ m \in Seq(Currencies)
      BY <2>1, AccountsAssumption DEF Answer
    <2> QED
      BY <2>2
  <1> QED
    BY <1>1, <1>2

-----------------------------------------------------------------------------
(* Listing: a function that is defined by its values below, and its values. *)

LEMMA SetInduction ==
  ASSUME NEW S, 0 \in S, \A n \in Nat : n \in S => n + 1 \in S
  PROVE  Nat \subseteq S
  <1> SUFFICES ASSUME Nat \ S # {} PROVE FALSE
    OBVIOUS
  <1>1. PICK n \in Nat \ S : \A m \in Nat \ S : n <= m
    <2>1. Nat \ S \subseteq Nat
      OBVIOUS
    <2> QED
      BY <2>1, LeastNat
  <1>2. n # 0
    BY <1>1
  <1>3. n - 1 \in Nat /\ n - 1 \in S
    BY <1>1, <1>2
  <1> QED
    BY <1>1, <1>3

(* Adds(g, N, on, x): g[k] is g[k - 1], with x[k] behind it if k is in on. *)
Adds(g, N, on, x) ==
  g = [k \in 0 .. N |-> IF k = 0 THEN <<>> ELSE IF k \in on THEN Append(g[k - 1], x[k]) ELSE g[k - 1]]

LEMMA AddsExists ==
  ASSUME NEW N \in Nat, NEW on, NEW x
  PROVE  \E g : Adds(g, N, on, x)
  <1> DEFINE then(l, k) == IF k \in on THEN Append(l, x[k]) ELSE l
             Sums(j, g) == g = [k \in 0 .. j |-> IF k = 0 THEN <<>> ELSE then(g[k - 1], k)]
             S == {j \in Nat : \E g : Sums(j, g)}
  <1>1. 0 \in S
    <2> DEFINE g == [k \in 0 .. 0 |-> <<>>]
    <2>1. Sums(0, g)
      <3>1. \A k \in 0 .. 0 : k = 0
        OBVIOUS
      <3> QED
        BY <3>1
    <2> HIDE DEF g, Sums
    <2> QED
      BY <2>1
  <1>2. ASSUME NEW j \in Nat, j \in S PROVE j + 1 \in S
    <2>1. PICK g : Sums(j, g)
      BY <1>2
    <2> HIDE DEF then
    <2> DEFINE h == [k \in 0 .. j + 1 |-> IF k = j + 1 THEN then(g[j], j + 1) ELSE g[k]]
    <2>2. \A k \in 0 .. j + 1 : h[k] = IF k = 0 THEN <<>> ELSE then(h[k - 1], k)
      <3> SUFFICES ASSUME NEW k \in 0 .. j + 1
                   PROVE  h[k] = IF k = 0 THEN <<>> ELSE then(h[k - 1], k)
        OBVIOUS
      <3>1. CASE k = j + 1
        <4>1. h[k] = then(g[j], j + 1) /\ k # 0 /\ k - 1 = j
          BY <3>1
        <4>2. h[j] = g[j]
          OBVIOUS
        <4> HIDE DEF h
        <4> QED
          BY <3>1, <4>1, <4>2
      <3>2. CASE k # j + 1
        <4>1. k \in 0 .. j /\ h[k] = g[k]
          BY <3>2
        <4>2. k # 0 => h[k - 1] = g[k - 1]
          BY <3>2
        <4>3. g[k] = IF k = 0 THEN <<>> ELSE then(g[k - 1], k)
          BY <2>1, <4>1
        <4> HIDE DEF h
        <4> QED
          BY <4>1, <4>2, <4>3
      <3> QED
        BY <3>1, <3>2
    <2>3. h = [k \in 0 .. j + 1 |-> h[k]]
      OBVIOUS
    <2> HIDE DEF h
    <2>4. Sums(j + 1, h)
      BY <2>2, <2>3
    <2> HIDE DEF Sums
    <2> QED
      BY <2>4
  <1>3. Nat \subseteq S
    <2> HIDE DEF S
    <2> QED
      BY <1>1, <1>2, SetInduction
  <1>4. PICK g : Sums(N, g)
    <2>1. N \in S
      <3> HIDE DEF S
      <3> QED
        BY <1>3
    <2> HIDE DEF Sums
    <2> QED
      BY <2>1
  <1>5. Adds(g, N, on, x)
    BY <1>4 DEF Adds
  <1> QED
    BY <1>5

LEMMA ListingIs ==
  ASSUME NEW n, Len(call.answers[n].items) \in Nat
  PROVE  LET items == call.answers[n].items
         IN  /\ Listing(n)[0] = <<>>
             /\ \A k \in 1 .. Len(items) :
                  Listing(n)[k] = IF Active(items, k) THEN Append(Listing(n)[k - 1], Named(n, k))
                                  ELSE Listing(n)[k - 1]
  <1> DEFINE items  == call.answers[n].items
             N      == Len(items)
             Def(g) == [k \in 0 .. N |->
                          IF k = 0 THEN <<>>
                          ELSE IF Active(items, k) THEN Append(g[k - 1], Named(n, k)) ELSE g[k - 1]]
             F      == CHOOSE g : g = Def(g)
  <1>1. Listing(n) = F
    BY DEF Listing
  <1>2. \E g : g = Def(g)
    <2> DEFINE on == {k \in 1 .. N : Active(items, k)}
               x  == [k \in 1 .. N |-> Named(n, k)]
    <2>1. PICK g : Adds(g, N, on, x)
      <3> HIDE DEF on, x, items
      <3> QED
        BY AddsExists
    <2>2. \A k \in 0 .. N : k # 0 => (k \in on <=> Active(items, k)) /\ x[k] = Named(n, k)
      OBVIOUS
    <2> HIDE DEF on, x, N
    <2>3. g = Def(g)
      BY <2>1, <2>2 DEF Adds
    <2> QED
      BY <2>3
  <1> HIDE DEF Def
  <1>3. F = Def(F)
    BY <1>2
  <1> HIDE DEF F
  <1>4. /\ F[0] = <<>>
        /\ \A k \in 1 .. N : F[k] = IF Active(items, k) THEN Append(F[k - 1], Named(n, k))
                                    ELSE F[k - 1]
    <2>1. F = [k \in 0 .. N |->
                 IF k = 0 THEN <<>>
                 ELSE IF Active(items, k) THEN Append(F[k - 1], Named(n, k)) ELSE F[k - 1]]
      BY <1>3 DEF Def
    <2> HIDE DEF N, items
    <2>2. N \in Nat
      BY DEF N, items
    <2> DEFINE then(k) == IF Active(items, k) THEN Append(F[k - 1], Named(n, k)) ELSE F[k - 1]
    <2> HIDE DEF then
    <2>3. F = [k \in 0 .. N |-> IF k = 0 THEN <<>> ELSE then(k)]
      BY <2>1, Zenon DEF then
    <2>4. F[0] = <<>> /\ \A k \in 1 .. N : F[k] = then(k)
      BY <2>2, <2>3
    <2> QED
      BY <2>4 DEF then
  <1> QED
    BY <1>1, <1>4

(* Behind a market with a null currency nothing is listed. *)
LEMMA ListingEnds ==
  ASSUME NEW n, Len(call.answers[n].items) \in Nat,
         NEW j \in 0 .. Len(call.answers[n].items) - 1, call.answers[n].items[j + 1] = "null"
  PROVE  Listed(n) = Listing(n)[j]
  <1> DEFINE items == call.answers[n].items
             N     == Len(items)
             L     == Listing(n)
             S     == {d \in Nat : j + d <= N => L[j + d] = L[j]}
  <1>1. \A k \in 1 .. N : L[k] = IF Active(items, k) THEN Append(L[k - 1], Named(n, k)) ELSE L[k - 1]
    BY ListingIs
  <1>2. \A k \in 1 .. N : k > j => ~Active(items, k)
    BY DEF Active
  <1> HIDE DEF L
  <1>3. 0 \in S
    BY j + 0 = j
  <1>4. ASSUME NEW d \in Nat, d \in S PROVE d + 1 \in S
    <2> SUFFICES ASSUME j + (d + 1) <= N PROVE L[j + (d + 1)] = L[j]
      OBVIOUS
    <2>1. j + (d + 1) \in 1 .. N /\ j + (d + 1) > j /\ (j + (d + 1)) - 1 = j + d /\ j + d <= N
      OBVIOUS
    <2>2. L[j + d] = L[j]
      BY <1>4, <2>1
    <2> QED
      BY <1>1, <1>2, <2>1, <2>2
  <1>5. Nat \subseteq S
    <2> HIDE DEF S
    <2> QED
      BY <1>3, <1>4, SetInduction
  <1>6. N - j \in Nat /\ j + (N - j) = N /\ N <= N
    OBVIOUS
  <1>7. L[N] = L[j]
    BY <1>5, <1>6
  <1> QED
    BY <1>7 DEF Listed, L

-----------------------------------------------------------------------------
(* One step of the walk over a list, from behind its n-th market. *)

LEMMA PoloniexNext ==
  ASSUME NEW items, Len(items) \in Nat, tokens = MarketTokens("poloniex", items),
         NEW n \in 0 .. Len(items), pos \in Nat,
         \/ pos = IF n = 0 THEN 1 ELSE 4 * n
         \/ pos = 4 * n + 3 /\ n < Len(items)
  PROVE  /\ n = Len(items) => NameOfNext("id") = 0
         /\ n < Len(items) => /\ NameOfNext("id") = 4 * n + 3
                              /\ Tok((4 * n + 3) - 2).text = <<items[n + 1], n + 1>>
  <1> DEFINE t == Key("id")
  <1>1. /\ IsSeq(tokens) /\ tokNo = 1 + 4 * Len(items)
        /\ \A k \in 1 .. Len(items) :
             /\ Tok(4 * k - 3) = Coin(items[k], k) /\ Tok(4 * k - 2) = Object
             /\ Tok(4 * k - 1) = Key("id") /\ Tok(4 * k) = Bool(TRUE)
    BY PoloniexMarkets
  <1>2. Object # t /\ Bool(TRUE) # t /\ \A x, k : Coin(x, k) # t
    BY Different
  <1> HIDE DEF t
  <1>3. CASE n = Len(items)
    <2>1. \A j \in Nat : pos <= j /\ j < tokNo => n # 0 /\ j = 4 * n
      BY <1>1, <1>3
    <2>2. n # 0 => n \in 1 .. Len(items)
      OBVIOUS
    <2>3. n # 0 => Tok(4 * n) = Bool(TRUE)
      BY <1>1, <2>2
    <2>4. \A j \in Nat : pos <= j /\ j < tokNo => Tok(j) # t
      BY <1>2, <2>1, <2>3
    <2>5. FindToken(pos, t) = -1
      BY <1>1, <2>4, FindNone
    <2>6. -1 < 1 /\ ~(n < Len(items))
      BY <1>3
    <2>7. NameOfNext("id") = 0
      BY <2>5, <2>6, Zenon DEF NameOfNext, Find, t
    <2> QED
      BY <2>6, <2>7
  <1>4. CASE n < Len(items)
    <2> DEFINE p == 4 * n + 3
    <2>1. /\ n + 1 \in 1 .. Len(items) /\ 4 * (n + 1) - 3 = 4 * n + 1 /\ 4 * (n + 1) - 2 = 4 * n + 2
          /\ 4 * (n + 1) - 1 = p /\ p \in Nat /\ p < tokNo /\ pos <= p /\ ~(p < 1)
          /\ p - 2 = 4 * n + 1 /\ p # 0 /\ p - 2 \in 0 .. tokNo - 1
      BY <1>1, <1>4
    <2>2. Tok(4 * n + 1) = Coin(items[n + 1], n + 1) /\ Tok(4 * n + 2) = Object /\ Tok(p) = t
      BY <1>1, <2>1 DEF t
    <2>3. \A j \in Nat : pos <= j /\ j < p => j = 4 * n + 1 \/ j = 4 * n + 2 \/ (n # 0 /\ j = 4 * n)
      OBVIOUS
    <2>4. n # 0 => Tok(4 * n) = Bool(TRUE)
      <3>1. n # 0 => n \in 1 .. Len(items)
        OBVIOUS
      <3> QED
        BY <1>1, <3>1
    <2>5. \A j \in Nat : pos <= j /\ j < p => Tok(j) # t
      BY <1>2, <2>2, <2>3, <2>4
    <2> HIDE DEF p
    <2>6. FindToken(pos, t) = p
      BY <1>1, <2>1, <2>2, <2>5, FindIs
    <2>7. Tok(p - 2).type = "string" /\ Tok(p - 2).text = <<items[n + 1], n + 1>>
      BY <2>1, <2>2, Different
    <2>8. NameOfNext("id") = p
      BY <2>1, <2>6, <2>7, Zenon DEF NameOfNext, Find, Parsed, t
    <2>9. n # Len(items)
      BY <1>4
    <2> QED
      BY <2>7, <2>8, <2>9 DEF p
  <1> QED
    BY <1>3, <1>4

LEMMA Btc38Next ==
  ASSUME NEW items, Len(items) \in Nat, tokens = MarketTokens("btc38", items),
         NEW n \in 0 .. Len(items), pos = IF n = 0 THEN 1 ELSE 6 * n - 2
  PROVE  /\ n = Len(items) => NameOfNext("ticker") = 0
         /\ n < Len(items) => /\ NameOfNext("ticker") = 6 * n + 3
                              /\ Tok((6 * n + 3) - 2).text = <<items[n + 1], n + 1>>
  <1> DEFINE t == Key("ticker")
  <1>1. /\ IsSeq(tokens) /\ tokNo = 1 + 6 * Len(items)
        /\ \A k \in 1 .. Len(items) :
             /\ Tok(6 * k - 5) = Coin(items[k], k) /\ Tok(6 * k - 4) = Object
             /\ Tok(6 * k - 3) = Key("ticker") /\ Tok(6 * k - 2) = Object
             /\ Tok(6 * k - 1) = Key("last") /\ Tok(6 * k) = Bool(TRUE)
    BY Btc38Markets
  <1>2. Object # t /\ Bool(TRUE) # t /\ Key("last") # t /\ \A x, k : Coin(x, k) # t
    BY Strings, Different
  <1> HIDE DEF t
  <1>3. pos \in Nat
    OBVIOUS
  <1>4. n # 0 => Tok(6 * n - 2) = Object /\ Tok(6 * n - 1) = Key("last") /\ Tok(6 * n) = Bool(TRUE)
    <2>1. n # 0 => n \in 1 .. Len(items)
      OBVIOUS
    <2> QED
      BY <1>1, <2>1
  <1>5. CASE n = Len(items)
    <2>1. \A j \in Nat : pos <= j /\ j < tokNo =>
            n # 0 /\ (j = 6 * n - 2 \/ j = 6 * n - 1 \/ j = 6 * n)
      BY <1>1, <1>5
    <2>2. \A j \in Nat : pos <= j /\ j < tokNo => Tok(j) # t
      BY <1>2, <1>4, <2>1
    <2>3. FindToken(pos, t) = -1
      BY <1>1, <1>3, <2>2, FindNone
    <2>4. -1 < 1 /\ ~(n < Len(items))
      BY <1>5
    <2>5. NameOfNext("ticker") = 0
      BY <2>3, <2>4, Zenon DEF NameOfNext, Find, t
    <2> QED
      BY <2>4, <2>5
  <1>6. CASE n < Len(items)
    <2> DEFINE p == 6 * n + 3
    <2>1. /\ n + 1 \in 1 .. Len(items) /\ 6 * (n + 1) - 5 = 6 * n + 1 /\ 6 * (n + 1) - 4 = 6 * n + 2
          /\ 6 * (n + 1) - 3 = p /\ p \in Nat /\ p < tokNo /\ pos <= p /\ ~(p < 1)
          /\ p - 2 = 6 * n + 1 /\ p # 0 /\ p - 2 \in 0 .. tokNo - 1
      BY <1>1, <1>6
    <2>2. Tok(6 * n + 1) = Coin(items[n + 1], n + 1) /\ Tok(6 * n + 2) = Object /\ Tok(p) = t
      BY <1>1, <2>1 DEF t
    <2>3. \A j \in Nat : pos <= j /\ j < p =>
            \/ j = 6 * n + 1 \/ j = 6 * n + 2
            \/ n # 0 /\ (j = 6 * n - 2 \/ j = 6 * n - 1 \/ j = 6 * n)
      OBVIOUS
    <2>4. \A j \in Nat : pos <= j /\ j < p => Tok(j) # t
      BY <1>2, <1>4, <2>2, <2>3
    <2> HIDE DEF p
    <2>5. FindToken(pos, t) = p
      BY <1>1, <1>3, <2>1, <2>2, <2>4, FindIs
    <2>6. Tok(p - 2).type = "string" /\ Tok(p - 2).text = <<items[n + 1], n + 1>>
      BY <2>1, <2>2, Different
    <2>7. NameOfNext("ticker") = p
      BY <2>1, <2>5, <2>6, Zenon DEF NameOfNext, Find, Parsed, t
    <2>8. n # Len(items)
      BY <1>6
    <2> QED
      BY <2>6, <2>7, <2>8 DEF p
  <1> QED
    BY <1>5, <1>6

(* The five values of a market of bittrex, one behind the other. *)
MarketAt == Value(pos, "MarketCurrency", "string")
BaseAt   == ValueAfter(MarketAt, "BaseCurrency", "string")
TradeAt  == ValueAfter(BaseAt, "MinTradeSize", "primitive")
NameAt   == ValueAfter(TradeAt, "MarketName", "string")
ActiveAt == ValueAfter(NameAt, "IsActive", "primitive")

LEMMA BittrexNone ==
  ASSUME Find(pos, "MarketCurrency") = -1 \/ BaseAt = 0 PROVE ActiveAt = 0
  <1>1. CASE Find(pos, "MarketCurrency") = -1
    <2>1. MarketAt = 0
      BY <1>1, ValueNone, Zenon DEF MarketAt
    <2>2. BaseAt = 0
      BY <2>1, Zenon DEF BaseAt, ValueAfter
    <2> QED
      BY <2>2, Zenon DEF TradeAt, NameAt, ActiveAt, ValueAfter
  <1>2. CASE BaseAt = 0
    BY <1>2, Zenon DEF TradeAt, NameAt, ActiveAt, ValueAfter
  <1> QED
    BY <1>1, <1>2

(* A key right behind the position i, and its value. *)
LEMMA ValueNext ==
  ASSUME IsSeq(tokens), NEW k, NEW type, NEW i \in Nat, i # 0, NEW p \in Nat, p = i + 1,
         NEW v, v = i + 2, v < tokNo, Tok(i) # Key(k), Tok(p) = Key(k)
  PROVE  /\ Tok(v).type = type => ValueAfter(i, k, type) = v
         /\ Tok(v).type # type => ValueAfter(i, k, type) = 0
  <1>1. tokNo \in Nat
    BY SeqFacts DEF tokNo
  <1>2. p < tokNo /\ p # -1 /\ p # Beyond /\ i # Beyond /\ p + 1 = v /\ Parsed(v)
    BY <1>1 DEF Beyond, Parsed
  <1>3. Find(i, k) = p
    BY <1>2, FindNext DEF Find
  <1>4. ValueAfter(i, k, type) = Value(i, k, type)
    BY <1>2, Zenon DEF ValueAfter
  <1>5. Value(i, k, type) = IF Tok(v).type = type THEN v ELSE 0
    BY <1>2, <1>3, Zenon DEF Value
  <1> QED
    BY <1>4, <1>5, Zenon

LEMMA BittrexNext ==
  ASSUME NEW items, Len(items) \in Nat, tokens = MarketTokens("bittrex", items),
         NEW n \in 0 .. Len(items), pos = IF n = 0 THEN 2 ELSE 11 * n + 6
  PROVE  /\ n = Len(items) => ActiveAt = 0
         /\ n < Len(items) /\ items[n + 1] = "null" => ActiveAt = 0
         /\ n < Len(items) /\ items[n + 1] # "null" =>
              /\ ActiveAt = 11 * n + 17
              /\ Tok(ActiveAt) = Bool(items[n + 1] # "inactive")
              /\ Tok(MarketAt).text = <<"market", n + 1>> /\ Tok(BaseAt).text = <<"base", n + 1>>
  <1> DEFINE t == Key("MarketCurrency")
  <1>1. /\ IsSeq(tokens) /\ tokNo = 7 + 11 * Len(items)
        /\ Tok(2) = Bool(TRUE)
        /\ Tok(3) = Key("message") /\ Tok(4) = Key("") /\ Tok(5) = Key("result")
        /\ Tok(6) = Array
        /\ \A k \in 1 .. Len(items) : Tok(11 * k + 6) = Bool(items[k] # "inactive")
    BY BittrexMarkets
  <1>2. /\ Object # t /\ Array # t /\ Key("message") # t /\ Key("") # t /\ Key("result") # t
        /\ \A b : Bool(b) # t
    BY Strings, Different
  <1> HIDE DEF t
  <1>3. pos \in Nat
    OBVIOUS
  <1>4. n # 0 => Tok(11 * n + 6) = Bool(items[n] # "inactive")
    <2>1. n # 0 => n \in 1 .. Len(items)
      OBVIOUS
    <2> QED
      BY <1>1, <2>1
  <1>5. ASSUME NEW j \in Nat, pos <= j, j < 7 + 11 * n PROVE Tok(j) # t
    <2>1. \/ n = 0 /\ (j = 2 \/ j = 3 \/ j = 4 \/ j = 5 \/ j = 6)
          \/ n # 0 /\ j = 11 * n + 6
      BY <1>5
    <2> QED
      BY <1>1, <1>2, <1>4, <2>1
  <1>6. CASE n = Len(items)
    <2>1. \A j \in Nat : pos <= j /\ j < tokNo => Tok(j) # t
      BY <1>1, <1>5, <1>6
    <2>2. Find(pos, "MarketCurrency") = -1
      BY <1>1, <1>3, <2>1, FindNone DEF Find, t
    <2> QED
      BY <1>6, <2>2, BittrexNone
  <1>7. CASE n < Len(items)
    <2> DEFINE q == 11 * n + 8
    <2>1. PICK k \in 1 .. Len(items) : k = n + 1
      BY <1>7
    <2> HIDE DEF q
    <2>size. q = 11 * n + 8 /\ tokNo = 7 + 11 * Len(items) /\ tokNo \in Nat
      <3>1. tokNo = 7 + 11 * Len(items)
        BY <1>1
      <3> QED
        BY <3>1 DEF q
    <2>2. /\ Tok(11 * k - 4) = Object /\ Tok(11 * k - 3) = Key("MarketCurrency")
          /\ Tok(11 * k - 2) = Coin("market", k) /\ Tok(11 * k - 1) = Key("BaseCurrency")
          /\ Tok(11 * k) = BaseToken(items, k)
          /\ Tok(11 * k + 1) = Key("MinTradeSize") /\ Tok(11 * k + 2) = Bool(TRUE)
          /\ Tok(11 * k + 3) = Key("MarketName") /\ Tok(11 * k + 4) = Coin("name", k)
          /\ Tok(11 * k + 5) = Key("IsActive") /\ Tok(11 * k + 6) = Bool(items[k] # "inactive")
      BY BittrexMarkets
    <2>3. /\ 11 * k - 4 = 11 * n + 7 /\ 11 * k - 3 = q /\ 11 * k - 2 = q + 1 /\ 11 * k - 1 = q + 2
          /\ 11 * k = q + 3 /\ 11 * k + 1 = q + 4 /\ 11 * k + 2 = q + 5 /\ 11 * k + 3 = q + 6
          /\ 11 * k + 4 = q + 7 /\ 11 * k + 5 = q + 8 /\ 11 * k + 6 = q + 9
          /\ q \in Nat /\ pos <= q /\ q + 9 < tokNo /\ q + 9 = 11 * n + 17
      BY <1>7, <2>1, <2>size
    <2>at. q \in Nat /\ q + 9 < tokNo
      BY <2>3
    <2>4. /\ Tok(11 * n + 7) = Object /\ Tok(q) = t /\ Tok(q + 1) = Coin("market", k)
          /\ Tok(q + 2) = Key("BaseCurrency") /\ Tok(q + 3) = BaseToken(items, k)
          /\ Tok(q + 4) = Key("MinTradeSize") /\ Tok(q + 5) = Bool(TRUE)
          /\ Tok(q + 6) = Key("MarketName") /\ Tok(q + 7) = Coin("name", k)
          /\ Tok(q + 8) = Key("IsActive") /\ Tok(q + 9) = Bool(items[k] # "inactive")
      BY <2>2, <2>3, Zenon DEF t
    <2>5. \A j \in Nat : pos <= j /\ j < q => j < 7 + 11 * n \/ j = 11 * n + 7
      BY <2>size
    <2>6. \A j \in Nat : pos <= j /\ j < q => Tok(j) # t
      BY <1>2, <1>5, <2>4, <2>5
    <2>7. MarketAt = q + 1 /\ Tok(MarketAt).text = <<"market", k>>
      <3>1. q < tokNo
        BY <2>3, <2>size
      <3>2. FindToken(pos, t) = q
        BY <1>1, <1>3, <2>3, <2>4, <2>6, <3>1, FindIs
      <3>3. Tok(q + 1).type = "string" /\ Tok(q + 1).text = <<"market", k>>
        <4>1. Tok(q + 1) = Coin("market", k)
          BY <2>4
        <4> QED
          BY <4>1, Different
      <3>4. MarketAt = q + 1
        <4>1. Find(pos, "MarketCurrency") = q
          BY <3>2 DEF Find, t
        <4>2. q + 1 < tokNo
          BY <2>at, <2>size
        <4>3. q \in Nat /\ IsSeq(tokens)
          BY <1>1, <2>at
        <4>4. Value(pos, "MarketCurrency", "string") = q + 1
          BY <3>3, <4>1, <4>2, <4>3, ValueIs
        <4> QED
          BY <4>4 DEF MarketAt
      <3> QED
        BY <3>3, <3>4
    <2>8. /\ q + 1 \in Nat /\ q + 1 # 0 /\ q + 2 \in Nat /\ q + 2 = (q + 1) + 1
          /\ q + 3 = (q + 1) + 2 /\ q + 3 < tokNo
      BY <2>size, <2>at
    <2>9. IsSeq(tokens) /\ Tok(q + 1) # Key("BaseCurrency") /\ Tok(q + 2) = Key("BaseCurrency")
      <3>1. Tok(q + 1) = Coin("market", k) /\ Tok(q + 2) = Key("BaseCurrency")
        BY <2>4
      <3>2. Tok(q + 1) # Key("BaseCurrency")
        BY <3>1, Different
      <3> QED
        BY <1>1, <3>1, <3>2
    <2>10. CASE items[k] = "null"
      <3>1. Tok(q + 3).type = "primitive" /\ "primitive" # "string"
        <4>1. BaseToken(items, k) = Null
          BY <2>10, Zenon DEF BaseToken
        <4>2. Tok(q + 3) = Null
          BY <2>4, <4>1, Zenon
        <4> QED
          BY <4>2, Different
      <3>2. ValueAfter(q + 1, "BaseCurrency", "string") = 0
        BY <2>8, <2>9, <3>1, ValueNext
      <3>3. BaseAt = 0
        BY <2>7, <3>2 DEF BaseAt
      <3>4. ActiveAt = 0
        BY <3>3, BittrexNone
      <3>5. n # Len(items)
        BY <1>7
      <3> QED
        BY <2>1, <2>10, <3>4, <3>5
    <2>11. CASE items[k] # "null"
      <3>1. /\ Tok(q + 3).type = "string" /\ Tok(q + 3).text = <<"base", k>>
            /\ Tok(q + 3) # Key("MinTradeSize")
        <4>1. BaseToken(items, k) = Coin("base", k)
          BY <2>11, Zenon DEF BaseToken
        <4>2. Tok(q + 3) = Coin("base", k)
          BY <2>4, <4>1, Zenon
        <4>3. /\ Coin("base", k).type = "string" /\ Coin("base", k).text = <<"base", k>>
              /\ Coin("base", k) # Key("MinTradeSize")
          BY Different
        <4> QED
          BY <4>2, <4>3, Zenon
      <3>2. BaseAt = q + 3
        <4>1. ValueAfter(q + 1, "BaseCurrency", "string") = q + 3
          BY <2>8, <2>9, <3>1, ValueNext
        <4> QED
          BY <2>7, <4>1 DEF BaseAt
      <3>3. TradeAt = q + 5
        <4>1. Tok(q + 5).type = "primitive" /\ Tok(q + 4) = Key("MinTradeSize")
          BY <2>4, Strings
        <4>2. /\ q + 3 \in Nat /\ q + 3 # 0 /\ q + 4 \in Nat /\ q + 4 = (q + 3) + 1
              /\ q + 5 = (q + 3) + 2 /\ q + 5 < tokNo
          BY <2>size, <2>at
        <4>3. ValueAfter(q + 3, "MinTradeSize", "primitive") = q + 5
          BY <2>9, <3>1, <4>1, <4>2, ValueNext
        <4> QED
          BY <3>2, <4>3 DEF TradeAt
      <3>4. NameAt = q + 7
        <4>1. Tok(q + 5) = Bool(TRUE) /\ Tok(q + 6) = Key("MarketName") /\ Tok(q + 7) = Coin("name", k)
          BY <2>4
        <4>2. Tok(q + 7).type = "string" /\ Tok(q + 5) # Key("MarketName")
          BY <4>1, Different
        <4>3. /\ q + 5 \in Nat /\ q + 5 # 0 /\ q + 6 \in Nat /\ q + 6 = (q + 5) + 1
              /\ q + 7 = (q + 5) + 2 /\ q + 7 < tokNo
          BY <2>size, <2>at
        <4>4. ValueAfter(q + 5, "MarketName", "string") = q + 7
          BY <2>9, <4>1, <4>2, <4>3, ValueNext
        <4> QED
          BY <3>3, <4>4 DEF NameAt
      <3>5. ActiveAt = q + 9
        <4>1. /\ Tok(q + 7) = Coin("name", k) /\ Tok(q + 8) = Key("IsActive")
              /\ Tok(q + 9) = Bool(items[k] # "inactive")
          BY <2>4
        <4>2. Tok(q + 9).type = "primitive" /\ Tok(q + 7) # Key("IsActive")
          BY <4>1, Strings, Different
        <4>3. /\ q + 7 \in Nat /\ q + 7 # 0 /\ q + 8 \in Nat /\ q + 8 = (q + 7) + 1
              /\ q + 9 = (q + 7) + 2 /\ q + 9 < tokNo
          BY <2>size, <2>at
        <4>4. ValueAfter(q + 7, "IsActive", "primitive") = q + 9
          BY <2>9, <4>1, <4>2, <4>3, ValueNext
        <4> QED
          BY <3>4, <4>4 DEF ActiveAt
      <3>6. n # Len(items)
        BY <1>7
      <3> QED
        BY <2>1, <2>3, <2>4, <2>7, <2>11, <3>1, <3>2, <3>5, <3>6
    <2> QED
      BY <2>10, <2>11
  <1> QED
    BY <1>6, <1>7

-----------------------------------------------------------------------------
(* The invariant, action by action. *)

Answered == MarketsWalked /\ MarketsListed /\ BalanceRead /\ BalanceOfLetters

LEMMA CallKept ==
  ASSUME call' = call
  PROVE  /\ \A n : Listing(n)' = Listing(n) /\ Listed(n)' = Listed(n)
         /\ \A n : Past(n)' = Past(n)
  <1>1. ASSUME NEW n PROVE Listing(n)' = Listing(n)
    <2> DEFINE NamedOf(c, k) ==
                 CASE c.vendor = "btc38"    -> Market(<<"base", n>>, <<"active", k>>)
                   [] c.vendor = "poloniex" -> Market(<<"active", k>>, <<"active", k>>)
                   [] c.vendor = "bittrex"  -> Market(<<"base", k>>, <<"market", k>>)
               ListingOf(c) ==
                 CHOOSE f : f = [k \in 0 .. Len(c.answers[n].items) |->
                   IF k = 0 THEN <<>>
                   ELSE IF Active(c.answers[n].items, k) THEN Append(f[k - 1], NamedOf(c, k))
                        ELSE f[k - 1]]
    <2>1. Listing(n) = ListingOf(call)
      BY DEF Listing, Named
    <2>2. Listing(n)' = ListingOf(call')
      BY DEF Listing, Named, Active
    <2> HIDE DEF ListingOf
    <2> QED
      BY <2>1, <2>2
  <1>2. \A n : Listed(n)' = Listed(n)
    BY <1>1 DEF Listed
  <1>3. \A n : Past(n)' = Past(n)
    BY Zenon DEF Past
  <1> QED
    BY <1>1, <1>2, <1>3

(* What is about another kind of call. *)
LEMMA Aside ==
  ASSUME call' = call
  PROVE  /\ call.op # "markets" => MarketsWalked' /\ MarketsListed'
         /\ call.op # "balance" => BalanceRead' /\ BalanceOfLetters'
  BY DEF MarketsWalked, MarketsListed, BalanceRead, BalanceOfLetters

LEMMA BookAnswered == ASSUME call' = call, call.op = "books" PROVE Answered'
  BY Aside DEF Answered

LEMMA Concatenated ==
  ASSUME NEW s, IsSeq(s) PROVE s \o <<>> = s /\ <<>> \o s = s
  <1> DEFINE t == s \o <<>>
             u == <<>> \o s
             e == <<>>
  <1>1. IsSeq(e) /\ Len(e) = 0
    BY EmptyIsSeq
  <1> HIDE DEF e
  <1>2. Len(s) \in Nat
    BY SeqFacts
  <1>3. s \o e = s
    <2>1. /\ IsSeq(s \o e) /\ Len(s \o e) = Len(s) + Len(e)
          /\ \A i \in 1 .. Len(s) : (s \o e)[i] = s[i]
      BY <1>1, ConcatFacts
    <2> DEFINE v == s \o e
    <2>2. IsSeq(v) /\ Len(v) = Len(s) /\ \A i \in 1 .. Len(s) : s[i] = v[i]
      BY <1>1, <1>2, <2>1
    <2> HIDE DEF v
    <2>3. s = v
      BY <2>2, SameSeq
    <2> QED
      BY <2>3 DEF v
  <1>4. e \o s = s
    <2>1. /\ IsSeq(e \o s) /\ Len(e \o s) = Len(e) + Len(s)
          /\ \A i \in Len(e) + 1 .. Len(e) + Len(s) : (e \o s)[i] = s[i - Len(e)]
      BY <1>1, ConcatFacts
    <2> DEFINE v == e \o s
    <2>2. IsSeq(v) /\ Len(v) = Len(s) /\ \A i \in 1 .. Len(s) : v[i] = s[i - 0]
      BY <1>1, <1>2, <2>1
    <2>3. \A i \in 1 .. Len(s) : i - 0 = i
      BY <1>2
    <2> HIDE DEF v
    <2>4. s = v
      BY <2>2, <2>3, SameSeq
    <2> QED
      BY <2>4 DEF v
  <1> QED
    BY <1>3, <1>4 DEF e

(* Where a list of markets is walked. *)
LEMMA MarketFacts ==
  ASSUME BookInv, call.op = "markets", pc \in {"start", "markets"}, Doc.kind # "other"
  PROVE  /\ call.vendor \in Vendors /\ IsSeq(tokens) /\ IsSeq(list) /\ pos \in Nat
         /\ nth \in DOMAIN call.answers /\ Doc \in MarketAnswers(call.vendor)
         /\ Doc = call.answers[nth] /\ Len(Doc.items) \in Nat
         /\ Doc.kind \in {"markets", "error"}
         /\ Doc.kind = "markets" => tokens = MarketTokens(call.vendor, Doc.items)
         /\ Doc.kind = "error" => tokens = ErrorTokens(call.vendor) /\ Doc.items = <<>>
  <1>1. /\ call.vendor \in Vendors /\ Answers("markets", Doc) /\ pos \in Nat
        /\ IsSeq(tokens) /\ IsSeq(list) /\ tokens = TokensOf(Doc) /\ call \in Calls
        /\ nth \in DOMAIN call.answers
    BY InvFacts DEF BookInv, Handled, TypeOK
  <1>2. Doc \in MarketAnswers(call.vendor)
    BY <1>1, CallAnswers DEF Doc
  <1>3. Doc.kind \in {"markets", "error"} /\ Len(Doc.items) \in Nat
    BY <1>1 DEF BookInv, Kinds, Answers, AnyKinds, FailureKinds
  <1>4. /\ Doc.kind = "markets" => TokensOf(Doc) = MarketTokens(call.vendor, Doc.items)
        /\ Doc.kind = "error" => TokensOf(Doc) = ErrorTokens(call.vendor)
    BY Zenon DEF TokensOf
  <1>5. Doc.kind = "error" => Doc.items = <<>>
    BY <1>1 DEF Answers, AnyKinds, FailureKinds
  <1>6. Doc = call.answers[nth]
    BY DEF Doc
  <1> QED
    BY <1>1, <1>2, <1>3, <1>4, <1>5, <1>6

(* A step of the walk. *)
LEMMA WalkKept ==
  ASSUME Answered, UNCHANGED <<call, nth, first>>, call.op = "markets",
         pc' = "markets",
         \/ pos' = 0 /\ list' = Listed(nth)
         \/ \E n \in 0 .. Len(Doc.items) :
              /\ list' = Listing(nth)[n] /\ \A k \in 1 .. n : Doc.items[k] # "null"
              /\ \/ pos' = Past(n)
                 \/ /\ call.vendor = "poloniex" /\ pos' = 4 * n + 3
                    /\ n < Len(Doc.items) /\ Doc.items[n + 1] = "unsplit"
  PROVE  Answered'
  <1>1. /\ \A n : Listing(n)' = Listing(n) /\ Listed(n)' = Listed(n) /\ Past(n)' = Past(n)
        /\ Doc' = Doc
    BY CallKept DEF Doc
  <1>2. \A n : Behind(n)' <=>
          /\ list' = Listing(nth)[n] /\ \A k \in 1 .. n : Doc.items[k] # "null"
          /\ \/ pos' = Past(n)
             \/ /\ call.vendor = "poloniex" /\ pos' = 4 * n + 3
                /\ n < Len(Doc.items) /\ Doc.items[n + 1] = "unsplit"
    <2>1. \A n : Listing(nth)'[n] = Listing(nth)[n]
      BY <1>1
    <2> QED
      BY <1>1, <2>1 DEF Behind
  <1>3. MarketsWalked'
    <2>1. (pos' = 0 /\ list' = Listed(nth)') \/ \E n \in 0 .. Len(Doc'.items) : Behind(n)'
      BY <1>1, <1>2
    <2>2. nth' = 2 => /\ call'.answers[1].kind # "failed"
                      /\ (call'.answers[1].kind # "other" => first' = Listed(1)')
      BY <1>1 DEF Answered, MarketsWalked
    <2> QED
      BY <2>1, <2>2 DEF MarketsWalked
  <1>4. MarketsListed'
    BY DEF MarketsListed
  <1> QED
    BY <1>3, <1>4, Aside DEF Answered

LEMMA ParsedKept ==
  ASSUME Answered, UNCHANGED <<call, nth, first>>, call.op = "markets",
         pc' = "parsed", list' = Listed(nth), Doc.kind # "failed"
  PROVE  Answered'
  <1>1. (\A n : Listed(n)' = Listed(n)) /\ Doc' = Doc
    BY CallKept DEF Doc
  <1>2. MarketsWalked'
    <2>1. nth' = 2 => /\ call'.answers[1].kind # "failed"
                      /\ (call'.answers[1].kind # "other" => first' = Listed(1)')
      BY <1>1 DEF Answered, MarketsWalked
    <2>2. list' = Listed(nth)'
      BY <1>1
    <2> QED
      BY <1>1, <2>1, <2>2 DEF MarketsWalked
  <1>3. MarketsListed'
    BY DEF MarketsListed
  <1> QED
    BY <1>2, <1>3, Aside DEF Answered

(* Of a document of another shape nothing is said; nor of a call that met   *)
(* undefined behaviour.                                                     *)
LEMMA OtherAnswered ==
  ASSUME BookInv, Answered, UNCHANGED <<call, nth, first>>, call.op = "markets",
         Doc.kind = "other"
  PROVE  Answered'
  <1>1. Doc' = Doc /\ Listed(1)' = Listed(1)
    BY CallKept DEF Doc
  <1>2. MarketsWalked'
    BY <1>1 DEF Answered, MarketsWalked
  <1>3. ~Usual'
    <2>1. nth \in DOMAIN call.answers /\ call.answers[nth].kind = "other"
      BY DEF BookInv, TypeOK, Doc
    <2>2. nth \in DOMAIN call'.answers /\ call'.answers[nth].kind = "other"
      BY <2>1
    <2> QED
      BY <2>2, Zenon DEF Usual
  <1>4. MarketsListed'
    BY <1>3 DEF MarketsListed
  <1> QED
    BY <1>2, <1>4, Aside DEF Answered

LEMMA FaultAnswered ==
  ASSUME Answered, UNCHANGED <<call, nth, first>>, call.op = "markets", pc' = "fault"
  PROVE  Answered'
  <1>1. Listed(1)' = Listed(1)
    BY CallKept
  <1>2. MarketsWalked'
    BY <1>1 DEF Answered, MarketsWalked
  <1>3. MarketsListed'
    BY DEF MarketsListed
  <1> QED
    BY <1>2, <1>3, Aside DEF Answered

LEMMA UsualDoc == ASSUME BookInv, Usual PROVE Doc.kind # "other"
  <1>1. nth \in DOMAIN call.answers
    BY DEF BookInv, TypeOK
  <1> QED
    BY <1>1, Zenon DEF Usual, Doc

LEMMA NothingListed ==
  ASSUME NEW n, call.answers[n].items = <<>> PROVE Listed(n) = <<>>
  <1>1. Len(call.answers[n].items) = 0
    OBVIOUS
  <1>2. Listing(n)[0] = <<>>
    BY <1>1, ListingIs
  <1> QED
    BY <1>1, <1>2 DEF Listed

LEMMA StartMarketsAnswered == ASSUME BookInv, Answered, StartMarkets PROVE Answered'
  <1> DEFINE s == Value(0, "success", "primitive")
  <1>0. pc = "start" /\ call.op = "markets" /\ UNCHANGED <<call, tokens, nth, first>>
    BY DEF StartMarkets
  <1> SUFFICES ASSUME Doc.kind # "other" PROVE Answered'
    BY <1>0, OtherAnswered
  <1>1. /\ call.vendor = "bittrex" /\ s # Beyond =>
             /\ pos' = s /\ list' = list
             /\ pc' = IF s # 0 /\ Tok(s) = Bool(TRUE) THEN "markets" ELSE "parsed"
        /\ call.vendor # "bittrex" => pos' = 1 /\ pc' = "markets" /\ list' = list
    BY Zenon DEF StartMarkets
  <1>2. /\ call.vendor \in Vendors /\ IsSeq(tokens) /\ Doc = call.answers[nth]
        /\ Len(Doc.items) \in Nat /\ Doc.kind \in {"markets", "error"}
        /\ Doc.kind = "markets" => tokens = MarketTokens(call.vendor, Doc.items)
        /\ Doc.kind = "error" => tokens = ErrorTokens(call.vendor) /\ Doc.items = <<>>
    BY <1>0, MarketFacts
  <1>3. list = <<>> /\ Listing(nth)[0] = <<>>
    BY <1>0, <1>2, ListingIs DEF BookInv, Kinds
  <1>4. ASSUME pc' = "markets", pos' = Past(0), list' = list PROVE Answered'
    <2>1. 0 \in 0 .. Len(Doc.items) /\ \A k \in 1 .. 0 : Doc.items[k] # "null"
      BY <1>2
    <2>2. list' = Listing(nth)[0]
      BY <1>3, <1>4
    <2> QED
      BY <1>0, <1>4, <2>1, <2>2, WalkKept
  <1>5. CASE call.vendor # "bittrex"
    <2>1. Past(0) = 1
      BY <1>2, <1>5 DEF Past, Vendors
    <2> QED
      BY <1>1, <1>4, <1>5, <2>1
  <1>6. CASE call.vendor = "bittrex" /\ Doc.kind = "markets"
    <2>1. /\ tokNo = 7 + 11 * Len(Doc.items)
          /\ Tok(0) = Object /\ Tok(1) = Key("success") /\ Tok(2) = Bool(TRUE)
      BY <1>2, <1>6, BittrexMarkets
    <2>2. 0 \in Nat /\ 1 \in Nat /\ 1 = 0 + 1 /\ 1 < tokNo /\ 1 + 1 < tokNo /\ 1 + 1 = 2 /\ 2 # 0
      BY <1>2, <2>1
    <2>3. FindToken(0, Key("success")) = 1
      <3>1. Tok(0) # Key("success")
        BY <2>1, Different
      <3> QED
        BY <1>2, <2>1, <2>2, <3>1, FindNext
    <2>4. s = 2
      <3>1. Tok(2).type = "primitive"
        BY <2>1, Strings
      <3>2. Find(0, "success") = 1
        BY <2>3 DEF Find
      <3>3. Tok(1 + 1).type = "primitive"
        BY <2>2, <3>1, Zenon
      <3> QED
        BY <1>2, <2>2, <3>2, <3>3, ValueIs
    <2>5. pos' = 2 /\ pc' = "markets" /\ list' = list
      <3>1. s # Beyond
        BY <2>4 DEF Beyond
      <3> HIDE DEF s
      <3> QED
        BY <1>1, <1>6, <2>1, <2>2, <2>4, <3>1
    <2>6. Past(0) = 2
      BY <1>6 DEF Past
    <2> QED
      BY <1>4, <2>5, <2>6
  <1>7. CASE call.vendor = "bittrex" /\ Doc.kind = "error"
    <2>1. s = 2 /\ Tok(2) # Bool(TRUE)
      BY <1>2, <1>7, BittrexError
    <2>2. pc' = "parsed" /\ list' = list
      <3>1. s # Beyond
        BY <2>1 DEF Beyond
      <3> HIDE DEF s
      <3> QED
        BY <1>1, <1>7, <2>1, <3>1
    <2>3. list' = Listed(nth) /\ Doc.kind # "failed"
      BY <1>2, <1>3, <1>7, <2>2, NothingListed
    <2> QED
      BY <1>0, <2>2, <2>3, ParsedKept
  <1> QED
    BY <1>2, <1>5, <1>6, <1>7

LEMMA EndMarketsAnswered == ASSUME BookInv, Answered, EndMarkets PROVE Answered'
  <1>1. /\ pc = "markets" /\ pos = 0 /\ pc' = "parsed" /\ call.op = "markets"
        /\ UNCHANGED <<call, nth, list, first>>
    BY DEF EndMarkets, BookInv, Kinds
  <1> SUFFICES ASSUME Doc.kind # "other" PROVE Answered'
    BY <1>1, OtherAnswered
  <1>2. Doc.kind # "failed" /\ call.vendor \in Vendors
    BY <1>1, MarketFacts
  <1>3. ASSUME NEW n \in 0 .. Len(Doc.items), Behind(n) PROVE FALSE
    <2>1. n \in Nat
      BY <1>1, MarketFacts
    <2>2. Past(n) # 0 /\ 4 * n + 3 # 0
      BY <1>2, <2>1 DEF Past, Vendors
    <2> QED
      BY <1>1, <1>3, <2>2 DEF Behind
  <1>4. list = Listed(nth)
    BY <1>1, <1>3 DEF Answered, MarketsWalked
  <1> QED
    BY <1>1, <1>2, <1>4, ParsedKept

LEMMA NextListed ==
  ASSUME call.op = "markets", Doc = call.answers[nth], Len(Doc.items) \in Nat,
         NEW n \in 0 .. Len(Doc.items) - 1, \A k \in 1 .. n : Doc.items[k] # "null"
  PROVE  /\ Doc.items[n + 1] = "active" =>
              Listing(nth)[n + 1] = Append(Listing(nth)[n], Named(nth, n + 1))
         /\ Doc.items[n + 1] # "active" => Listing(nth)[n + 1] = Listing(nth)[n]
         /\ Doc.items[n + 1] # "null" => \A k \in 1 .. n + 1 : Doc.items[k] # "null"
  <1>1. /\ n + 1 \in 1 .. Len(Doc.items) /\ (n + 1) - 1 = n
        /\ \A k \in 1 .. n + 1 : k \in 1 .. n \/ k = n + 1
    OBVIOUS
  <1>2. Listing(nth)[n + 1] = IF Active(Doc.items, n + 1)
                              THEN Append(Listing(nth)[n], Named(nth, n + 1)) ELSE Listing(nth)[n]
    BY <1>1, ListingIs
  <1>3. Doc.items[n + 1] # "null" => \A k \in 1 .. n + 1 : Doc.items[k] # "null"
    BY <1>1
  <1>4. Active(Doc.items, n + 1) <=> Doc.items[n + 1] = "active"
    BY <1>3 DEF Active
  <1> QED
    BY <1>2, <1>3, <1>4

LEMMA PoloniexMarketAnswered == ASSUME BookInv, Answered, PoloniexMarket PROVE Answered'
  <1> DEFINE p     == NameOfNext("id")
             split == p # 0 /\ Tok(p - 2).text[1] # "unsplit"
             N     == Len(Doc.items)
  <1>0. /\ pc = "markets" /\ pos # 0 /\ call.op = "markets" /\ call.vendor = "poloniex"
        /\ UNCHANGED <<call, nth, first>>
        /\ p = Beyond => pc' = "fault"
    BY DEF PoloniexMarket, Is, ReadsBeyond
  <1> SUFFICES ASSUME Doc.kind # "other", p # Beyond PROVE Answered'
    BY <1>0, OtherAnswered, FaultAnswered
  <1>1. /\ pc = "markets" /\ pos # 0 /\ call.op = "markets" /\ call.vendor = "poloniex"
        /\ pos' = IF split THEN p + 1 ELSE p
        /\ list' = IF split THEN Append(list, Market(Tok(p - 2).text, Tok(p - 2).text)) ELSE list
        /\ pc' = "markets" /\ UNCHANGED <<call, nth, first>>
    BY <1>0 DEF PoloniexMarket, Is
  <1>2. /\ IsSeq(tokens) /\ Doc = call.answers[nth] /\ Doc \in MarketAnswers("poloniex")
        /\ N \in Nat /\ Doc.kind \in {"markets", "error"} /\ pos \in Nat
        /\ Doc.kind = "markets" => tokens = MarketTokens("poloniex", Doc.items)
        /\ Doc.kind = "error" => tokens = ErrorTokens("poloniex") /\ Doc.items = <<>>
    BY <1>1, MarketFacts
  <1>3. PICK n \in 0 .. N : Behind(n)
    BY <1>1 DEF Answered, MarketsWalked
  <1>4. /\ list = Listing(nth)[n] /\ \A k \in 1 .. n : Doc.items[k] # "null"
        /\ \/ pos = IF n = 0 THEN 1 ELSE 4 * n
           \/ pos = 4 * n + 3 /\ n < N
    BY <1>1, <1>3 DEF Behind, Past
  <1> HIDE DEF p
  <1>5. ASSUME p = 0, n = N PROVE Answered'
    <2>1. pos' = 0 /\ list' = list
      BY <1>1, <1>5
    <2>2. list' = Listed(nth)
      BY <1>2, <1>4, <1>5, <2>1 DEF Listed
    <2> QED
      BY <1>1, <2>1, <2>2, WalkKept
  <1>6. CASE Doc.kind = "error"
    <2>1. FindToken(pos, Key("id")) = -1
      BY <1>2, <1>6, ErrorHasNone DEF Vendors
    <2>2. -1 < 1
      OBVIOUS
    <2>3. p = 0
      BY <2>1, <2>2, Zenon DEF p, NameOfNext, Find
    <2>4. N = 0
      BY <1>2, <1>6
    <2> QED
      BY <1>5, <2>3, <2>4
  <1>7. CASE Doc.kind = "markets" /\ n = N
    <2>1. p = 0
      BY <1>2, <1>4, <1>7, PoloniexNext DEF p
    <2> QED
      BY <1>5, <1>7, <2>1
  <1>8. CASE Doc.kind = "markets" /\ n # N
    <2>1. n < N /\ n + 1 \in 1 .. N /\ n \in 0 .. N - 1 /\ n + 1 \in 0 .. N
      BY <1>2, <1>8
    <2>2. p = 4 * n + 3 /\ Tok(p - 2).text = <<Doc.items[n + 1], n + 1>>
      BY <1>2, <1>4, <1>8, <2>1, PoloniexNext DEF p
    <2>3. p # 0 /\ p + 1 = 4 * (n + 1) /\ n + 1 # 0
      BY <2>2
    <2>4. Doc.items[n + 1] \in {"active", "unsplit"}
      BY <1>2, <2>1, ItemKinds DEF Vendors
    <2>5. split <=> Doc.items[n + 1] # "unsplit"
      BY <2>2, <2>3
    <2> HIDE DEF split
    <2>6. CASE Doc.items[n + 1] = "active"
      <3>1. pos' = Past(n + 1)
        BY <1>1, <2>3, <2>5, <2>6 DEF Past
      <3>2. list' = Append(list, Named(nth, n + 1))
        BY <1>1, <2>2, <2>5, <2>6 DEF Named
      <3>3. list' = Listing(nth)[n + 1] /\ \A k \in 1 .. n + 1 : Doc.items[k] # "null"
        BY <1>1, <1>2, <1>4, <2>1, <2>6, <3>2, NextListed
      <3> QED
        BY <1>1, <2>1, <3>1, <3>3, WalkKept
    <2>7. CASE Doc.items[n + 1] = "unsplit"
      <3>1. pos' = 4 * n + 3 /\ list' = Listing(nth)[n]
        BY <1>1, <1>4, <2>2, <2>5, <2>7
      <3> QED
        BY <1>1, <1>4, <2>1, <2>7, <3>1, WalkKept
    <2> QED
      BY <2>4, <2>6, <2>7
  <1> QED
    BY <1>2, <1>6, <1>7, <1>8

LEMMA Btc38MarketAnswered == ASSUME BookInv, Answered, Btc38Market PROVE Answered'
  <1> DEFINE p == NameOfNext("ticker")
             N == Len(Doc.items)
  <1>0. /\ pc = "markets" /\ pos # 0 /\ call.op = "markets" /\ call.vendor = "btc38"
        /\ UNCHANGED <<call, nth, first>>
        /\ p = Beyond => pc' = "fault"
    BY DEF Btc38Market, Is, ReadsBeyond
  <1> SUFFICES ASSUME Doc.kind # "other", p # Beyond PROVE Answered'
    BY <1>0, OtherAnswered, FaultAnswered
  <1>1. /\ pc = "markets" /\ pos # 0 /\ call.op = "markets" /\ call.vendor = "btc38"
        /\ pos' = IF p = 0 THEN 0 ELSE p + 1
        /\ list' = IF p = 0 THEN list
                   ELSE Append(list, Market(<<"base", nth>>, Tok(p - 2).text))
        /\ pc' = "markets" /\ UNCHANGED <<call, nth, first>>
    BY <1>0 DEF Btc38Market, Is
  <1>2. /\ IsSeq(tokens) /\ Doc = call.answers[nth] /\ Doc \in MarketAnswers("btc38")
        /\ N \in Nat /\ Doc.kind \in {"markets", "error"} /\ pos \in Nat
        /\ Doc.kind = "markets" => tokens = MarketTokens("btc38", Doc.items)
        /\ Doc.kind = "error" => tokens = ErrorTokens("btc38") /\ Doc.items = <<>>
    BY <1>1, MarketFacts
  <1>3. PICK n \in 0 .. N : Behind(n)
    BY <1>1 DEF Answered, MarketsWalked
  <1>4. /\ list = Listing(nth)[n] /\ \A k \in 1 .. n : Doc.items[k] # "null"
        /\ pos = IF n = 0 THEN 1 ELSE 6 * n - 2
    BY <1>1, <1>3 DEF Behind, Past
  <1> HIDE DEF p
  <1>5. ASSUME p = 0, n = N PROVE Answered'
    <2>1. pos' = 0 /\ list' = list
      BY <1>1, <1>5
    <2>2. list' = Listed(nth)
      BY <1>2, <1>4, <1>5, <2>1 DEF Listed
    <2> QED
      BY <1>1, <2>1, <2>2, WalkKept
  <1>6. CASE Doc.kind = "error"
    <2>1. FindToken(pos, Key("ticker")) = -1
      BY <1>2, <1>6, ErrorHasNone DEF Vendors
    <2>2. -1 < 1
      OBVIOUS
    <2>3. p = 0
      BY <2>1, <2>2, Zenon DEF p, NameOfNext, Find
    <2>4. N = 0
      BY <1>2, <1>6
    <2> QED
      BY <1>5, <2>3, <2>4
  <1>7. CASE Doc.kind = "markets" /\ n = N
    <2>1. p = 0
      BY <1>2, <1>4, <1>7, Btc38Next DEF p
    <2> QED
      BY <1>5, <1>7, <2>1
  <1>8. CASE Doc.kind = "markets" /\ n # N
    <2>1. n < N /\ n + 1 \in 1 .. N /\ n \in 0 .. N - 1 /\ n + 1 \in 0 .. N
      BY <1>2, <1>8
    <2>2. p = 6 * n + 3 /\ Tok(p - 2).text = <<Doc.items[n + 1], n + 1>>
      BY <1>2, <1>4, <1>8, <2>1, Btc38Next DEF p
    <2>3. p # 0 /\ p + 1 = 6 * (n + 1) - 2 /\ n + 1 # 0
      BY <2>2
    <2>4. Doc.items[n + 1] = "active"
      BY <1>2, <2>1, ItemKinds DEF Vendors
    <2>5. pos' = Past(n + 1)
      BY <1>1, <2>3 DEF Past
    <2>6. list' = Append(list, Named(nth, n + 1))
      BY <1>1, <2>2, <2>3, <2>4 DEF Named
    <2>7. list' = Listing(nth)[n + 1] /\ \A k \in 1 .. n + 1 : Doc.items[k] # "null"
      BY <1>1, <1>2, <1>4, <2>1, <2>4, <2>6, NextListed
    <2> QED
      BY <1>1, <2>1, <2>5, <2>7, WalkKept
  <1> QED
    BY <1>2, <1>6, <1>7, <1>8

LEMMA BittrexMarketAnswered == ASSUME BookInv, Answered, BittrexMarket PROVE Answered'
  <1> DEFINE N == Len(Doc.items)
  <1>0. /\ pc = "markets" /\ pos # 0 /\ call.op = "markets" /\ call.vendor = "bittrex"
        /\ UNCHANGED <<call, nth, first>>
    BY DEF BittrexMarket, Is, BookInv, Kinds
  <1>found. IF ActiveAt = Beyond THEN ReadsBeyond
            ELSE /\ pos' = ActiveAt
                 /\ list' = IF ActiveAt # 0 /\ Tok(ActiveAt) = Bool(TRUE)
                            THEN Append(list, Market(Tok(BaseAt).text, Tok(MarketAt).text)) ELSE list
                 /\ UNCHANGED <<pc, cur>>
    BY Zenon DEF BittrexMarket, ActiveAt, NameAt, TradeAt, BaseAt, MarketAt
  <1> SUFFICES ASSUME Doc.kind # "other", ActiveAt # Beyond PROVE Answered'
    BY <1>0, <1>found, OtherAnswered, FaultAnswered, Zenon DEF ReadsBeyond
  <1>1. /\ pc = "markets" /\ pos # 0 /\ call.op = "markets" /\ call.vendor = "bittrex"
        /\ pc' = "markets" /\ UNCHANGED <<call, nth, first>>
    BY <1>0, <1>found
  <1>2. /\ pos' = ActiveAt
        /\ list' = IF ActiveAt # 0 /\ Tok(ActiveAt) = Bool(TRUE)
                   THEN Append(list, Market(Tok(BaseAt).text, Tok(MarketAt).text)) ELSE list
    BY <1>found, Zenon
  <1>3. /\ IsSeq(tokens) /\ Doc = call.answers[nth] /\ Doc \in MarketAnswers("bittrex")
        /\ N \in Nat /\ Doc.kind \in {"markets", "error"} /\ pos \in Nat
        /\ Doc.kind = "markets" => tokens = MarketTokens("bittrex", Doc.items)
        /\ Doc.kind = "error" => tokens = ErrorTokens("bittrex") /\ Doc.items = <<>>
    BY <1>1, MarketFacts
  <1>4. PICK n \in 0 .. N : Behind(n)
    BY <1>1 DEF Answered, MarketsWalked
  <1>5. /\ list = Listing(nth)[n] /\ \A k \in 1 .. n : Doc.items[k] # "null"
        /\ pos = IF n = 0 THEN 2 ELSE 11 * n + 6
    BY <1>1, <1>4 DEF Behind, Past
  <1>6. ASSUME ActiveAt = 0, Listed(nth) = Listing(nth)[n] PROVE Answered'
    <2>1. pos' = 0 /\ list' = Listed(nth)
      BY <1>2, <1>5, <1>6
    <2> QED
      BY <1>1, <2>1, WalkKept
  <1>7. CASE Doc.kind = "error"
    <2>1. Find(pos, "MarketCurrency") = -1
      BY <1>3, <1>7, ErrorHasNone DEF Vendors, Find
    <2>2. N = 0
      BY <1>3, <1>7
    <2>3. Listed(nth) = Listing(nth)[n]
      BY <1>3, <2>2 DEF Listed
    <2> QED
      BY <1>6, <2>1, <2>3, BittrexNone
  <1>8. CASE Doc.kind = "markets" /\ n = N
    <2>1. ActiveAt = 0
      BY <1>3, <1>5, <1>8, BittrexNext
    <2>2. Listed(nth) = Listing(nth)[n]
      BY <1>3, <1>8 DEF Listed
    <2> QED
      BY <1>6, <2>1, <2>2
  <1>9. CASE Doc.kind = "markets" /\ n # N
    <2>1. n < N /\ n + 1 \in 1 .. N /\ n \in 0 .. N - 1 /\ n + 1 \in 0 .. N
      BY <1>3, <1>9
    <2>2. Doc.items[n + 1] \in {"active", "inactive", "null"}
      BY <1>3, <2>1, ItemKinds DEF Vendors
    <2>3. CASE Doc.items[n + 1] = "null"
      <3>1. ActiveAt = 0
        BY <1>3, <1>5, <1>9, <2>1, <2>3, BittrexNext
      <3>2. Listed(nth) = Listing(nth)[n]
        BY <1>3, <2>1, <2>3, ListingEnds
      <3> QED
        BY <1>6, <3>1, <3>2
    <2>4. CASE Doc.items[n + 1] # "null"
      <3>1. /\ ActiveAt = 11 * n + 17
            /\ Tok(ActiveAt) = Bool(Doc.items[n + 1] # "inactive")
            /\ Tok(MarketAt).text = <<"market", n + 1>> /\ Tok(BaseAt).text = <<"base", n + 1>>
        BY <1>3, <1>5, <1>9, <2>1, <2>4, BittrexNext
      <3>2. ActiveAt # 0 /\ pos' = Past(n + 1)
        <4>1. 11 * n + 17 # 0 /\ 11 * (n + 1) + 6 = 11 * n + 17 /\ n + 1 # 0
          BY <2>1
        <4> QED
          BY <1>1, <1>2, <3>1, <4>1 DEF Past
      <3>3. list' = Listing(nth)[n + 1] /\ \A k \in 1 .. n + 1 : Doc.items[k] # "null"
        <4>1. CASE Doc.items[n + 1] = "active"
          <5>1. Tok(ActiveAt) = Bool(TRUE)
            BY <3>1, <4>1
          <5>2. list' = Append(list, Named(nth, n + 1))
            BY <1>1, <1>2, <3>1, <3>2, <5>1 DEF Named
          <5> QED
            BY <1>1, <1>3, <1>5, <2>1, <4>1, <5>2, NextListed
        <4>2. CASE Doc.items[n + 1] = "inactive"
          <5>1. Tok(ActiveAt) = Bool(FALSE)
            BY <3>1, <4>2
          <5>2. list' = list
            BY <1>2, <5>1, Different
          <5> QED
            BY <1>1, <1>3, <1>5, <2>1, <4>2, <5>2, NextListed
        <4> QED
          BY <2>2, <2>4, <4>1, <4>2
      <3> QED
        BY <1>1, <2>1, <3>2, <3>3, WalkKept
    <2> QED
      BY <2>3, <2>4
  <1> QED
    BY <1>3, <1>7, <1>8, <1>9

(* A step that ends a call for the markets, or makes the next download. *)
LEMMA ReturnKept ==
  ASSUME Answered, UNCHANGED <<call, nth, first>>, call.op = "markets",
         pc' \notin {"markets", "parsed"},
         pc' = "return" /\ Usual =>
           list' = IF call.answers[1].kind = "failed" THEN <<>>
                   ELSE IF Len(call.answers) = 1 THEN Listed(1) ELSE Listed(1) \o Listed(2)
  PROVE  Answered'
  <1>1. Listed(1)' = Listed(1) /\ Listed(2)' = Listed(2)
    BY CallKept
  <1>2. MarketsWalked'
    BY <1>1 DEF Answered, MarketsWalked
  <1>3. Usual' <=> Usual
    BY DEF Usual
  <1>4. MarketsListed'
    BY <1>1, <1>3 DEF MarketsListed
  <1> QED
    BY <1>2, <1>4, Aside DEF Answered

(* The downloads of a list of markets. *)
LEMMA Downloads ==
  ASSUME BookInv, Answered, call.op = "markets"
  PROVE  /\ call.vendor = "btc38"  => Len(call.answers) = 2
         /\ call.vendor # "btc38" => nth = 1 /\ Len(call.answers) = 1
         /\ nth = 1 => first = <<>> /\ Doc = call.answers[1]
         /\ nth = 2 => /\ call.vendor = "btc38" /\ (Usual => first = Listed(1))
                       /\ call.answers[1].kind # "failed" /\ Doc = call.answers[2]
         /\ nth \in {1, 2}
  <1>1. /\ nth \in {1, 2} /\ (nth = 2 => Is("markets", "btc38")) /\ call \in Calls
        /\ (nth = 1 => first = <<>>)
    BY InvFacts DEF BookInv, Handled, Kinds
  <1>2. Len(call.answers) = IF call.vendor = "btc38" THEN 2 ELSE 1
    BY <1>1, CallAnswers
  <1>3. nth = 2 => (Usual => first = Listed(1)) /\ call.answers[1].kind # "failed"
    <2>1. Usual => call.answers[1].kind # "other"
      BY InvFacts, Zenon DEF Usual
    <2> QED
      BY <2>1 DEF Answered, MarketsWalked
  <1>4. Doc = call.answers[nth]
    BY DEF Doc
  <1> QED
    BY <1>1, <1>2, <1>3, <1>4 DEF Is

LEMMA ListedIsSeq ==
  ASSUME BookInv, Answered, call.op = "markets", nth = 2, Usual
  PROVE  IsSeq(Listed(1))
  <1>1. first = Listed(1)
    BY Downloads
  <1> QED
    BY <1>1 DEF BookInv, Handled

LEMMA GetAnswered == ASSUME BookInv, Answered, Get PROVE Answered'
  <1>1. /\ pc = "get" /\ UNCHANGED <<call, nth, first>>
        /\ list' = IF Returned(Doc.kind) # 0 THEN first ELSE list
    BY Zenon DEF Get
  <1>2. /\ pc' \in {"return", "fault", "parsed", "start"}
        /\ pc' = "return" => Checked /\ Returned(Doc.kind) # 0
        /\ pc' = "parsed" => Doc.kind = "garbled"
    BY Zenon DEF Get
  <1>3. /\ call.op \in {"books", "markets", "balance"} /\ Answers(call.op, Doc)
        /\ list = <<>> /\ (nth = 1 => first = <<>>) /\ (nth = 2 => Is("markets", "btc38"))
        /\ nth \in {1, 2}
    BY <1>1, InvFacts DEF BookInv, Kinds
  <1>4. Doc.kind = "garbled" => list' = <<>> /\ Doc.items = <<>>
    BY <1>1, <1>3 DEF Returned, Answers, AnyKinds, FailureKinds
  <1>5. CASE call.op = "markets" /\ pc' = "parsed"
    <2>1. Doc = call.answers[nth]
      BY DEF Doc
    <2>2. Doc.kind # "failed" /\ Listed(nth) = <<>> /\ list' = <<>>
      BY <1>2, <1>4, <1>5, <2>1, NothingListed
    <2> QED
      BY <1>1, <1>5, <2>2, ParsedKept
  <1>6. CASE call.op = "markets" /\ pc' # "parsed"
    <2>1. ASSUME pc' = "return", Usual
          PROVE  list' = IF call.answers[1].kind = "failed" THEN <<>>
                         ELSE IF Len(call.answers) = 1 THEN Listed(1) ELSE Listed(1) \o Listed(2)
      <3>1. Doc.kind = "failed" /\ list' = first
        BY <1>1, <1>2, <2>1 DEF Returned
      <3>2. CASE nth = 1
        BY <1>6, <3>1, <3>2, Downloads
      <3>3. CASE nth = 2
        <4>1. Doc.items = <<>>
          BY <1>3, <3>1 DEF Answers, AnyKinds, FailureKinds
        <4>2. Listed(2) = <<>>
          BY <1>6, <3>3, <4>1, Downloads, NothingListed
        <4>3. Listed(1) \o Listed(2) = Listed(1)
          BY <1>6, <2>1, <3>3, <4>2, ListedIsSeq, Concatenated
        <4> QED
          BY <1>6, <2>1, <3>1, <3>3, <4>3, Downloads
      <3> QED
        BY <1>3, <3>2, <3>3
    <2> QED
      BY <1>1, <1>2, <1>6, <2>1, ReturnKept
  <1>7. CASE call.op = "balance"
    <2>1. pc' # "return"
      BY <1>2, <1>7 DEF Checked
    <2>2. BalanceRead' /\ BalanceOfLetters'
      <3>1. Doc' = Doc
        BY <1>1 DEF Doc
      <3> QED
        BY <1>2, <1>4, <2>1, <3>1 DEF BalanceRead, BalanceOfLetters
    <2> QED
      BY <1>1, <1>7, <2>2, Aside DEF Answered
  <1>8. CASE call.op = "books"
    BY <1>1, <1>8, BookAnswered
  <1> QED
    BY <1>3, <1>5, <1>6, <1>7, <1>8

LEMMA MergeAnswered == ASSUME BookInv, Answered, Merge PROVE Answered'
  <1>1. /\ pc = "parsed" /\ call' = call
        /\ Is("markets", "btc38") /\ nth = 1 =>
             nth' = 2 /\ first' = list /\ list' = <<>> /\ pc' = "get"
        /\ ~(Is("markets", "btc38") /\ nth = 1) =>
             /\ nth' = nth /\ first' = first /\ list' = first \o list
             /\ pc' = IF Is("markets", "btc38") /\ first = <<>> THEN "fault" ELSE "return"
    BY DEF Merge
  <1>2. call.op \in {"books", "markets", "balance"} /\ IsSeq(list) /\ IsSeq(first)
    BY InvFacts DEF BookInv, Handled
  <1>3. CASE Is("markets", "btc38") /\ nth = 1
    <2>1. /\ call.answers[1].kind # "failed" /\ call.op = "markets"
          /\ call.answers[1].kind # "other" => list = Listed(1)
      BY <1>1, <1>3 DEF Answered, MarketsWalked, Is, Doc
    <2>2. Listed(1)' = Listed(1)
      BY <1>1, CallKept
    <2>3. MarketsWalked' /\ MarketsListed'
      BY <1>1, <1>3, <2>1, <2>2 DEF MarketsWalked, MarketsListed
    <2> QED
      BY <1>1, <2>1, <2>3, Aside DEF Answered
  <1>4. CASE call.op = "markets" /\ ~(Is("markets", "btc38") /\ nth = 1)
    <2>1. UNCHANGED <<call, nth, first>> /\ list' = first \o list /\ pc' \in {"fault", "return"}
      BY <1>1, <1>4
    <2>2. Doc.kind # "failed" /\ (Usual => list = Listed(nth))
      BY <1>1, <1>4, UsualDoc DEF Answered, MarketsWalked
    <2>3. ASSUME Usual
          PROVE  list' = IF call.answers[1].kind = "failed" THEN <<>>
                         ELSE IF Len(call.answers) = 1 THEN Listed(1) ELSE Listed(1) \o Listed(2)
      <3>1. CASE nth = 1
        <4>1. /\ first = <<>> /\ Doc = call.answers[1] /\ call.vendor # "btc38"
              /\ Len(call.answers) = 1
          BY <1>4, <3>1, Downloads DEF Is
        <4>2. <<>> \o list = list
          BY <1>2, Concatenated
        <4> QED
          BY <2>1, <2>2, <2>3, <3>1, <4>1, <4>2
      <3>2. CASE nth = 2
        <4>1. Len(call.answers) = 2 /\ first = Listed(1) /\ call.answers[1].kind # "failed"
          BY <1>4, <2>3, <3>2, Downloads
        <4>2. Len(call.answers) # 1
          BY <4>1
        <4> QED
          BY <2>1, <2>2, <2>3, <3>2, <4>1, <4>2, Zenon
      <3> QED
        BY <1>4, <3>1, <3>2, Downloads
    <2> QED
      BY <1>4, <2>1, <2>3, ReturnKept
  <1>5. CASE call.op = "balance"
    <2>1. list = <<>> /\ Doc.kind # "balances"
      BY <1>1, <1>5 DEF Answered, BalanceRead
    <2>2. nth = 1 /\ first = <<>>
      BY <1>5, InvFacts DEF BookInv, Kinds, Is
    <2>3. first \o list = <<>>
      BY <1>2, <2>1, <2>2, Concatenated
    <2>4. list' = <<>> /\ Doc' = Doc /\ pc' = "return"
      BY <1>1, <1>5, <2>3 DEF Is, Doc
    <2>5. Holding(Asked)' = <<>>
      <3>1. Doc'.kind # "balances"
        BY <2>1, <2>4
      <3> QED
        BY <3>1, Zenon DEF Holding
    <2>6. BalanceRead' /\ BalanceOfLetters'
      BY <2>1, <2>4, <2>5 DEF BalanceRead, BalanceOfLetters
    <2> QED
      BY <1>1, <1>5, <2>6, Aside DEF Answered
  <1>6. CASE call.op = "books"
    BY <1>1, <1>6, BookAnswered
  <1> QED
    BY <1>2, <1>3, <1>4, <1>5, <1>6 DEF Is

(* What is to be returned for a balance. *)
RightBalance == Holding(Asked)

LEMMA BalanceEnds ==
  ASSUME UNCHANGED <<call, nth>>, call.op = "balance", pc' = "return",
         Usual => list' = RightBalance
  PROVE  Answered'
  <1>1. RightBalance' = RightBalance
    <2>1. Doc' = Doc /\ Asked' = Asked /\ call' = call
      BY DEF Doc, Asked
    <2>2. /\ \A w : Number(Asked, w)' = Number(Asked, w)
          /\ \A x, y, z : Balance(x, y, z)' = Balance(x, y, z)
      BY <2>1, Zenon DEF Number, Balance
    <2>3. call'.vendor = call.vendor /\ Doc'.kind = Doc.kind /\ Doc'.items = Doc.items
      BY <2>1
    <2>4. CASE Doc.kind # "balances" \/ (call.vendor # "bittrex"
                 /\ \A k \in DOMAIN Doc.items : Doc.items[k] # Asked)
      <3>1. RightBalance = <<>>
        BY <2>4, Zenon DEF RightBalance, Holding
      <3>2. RightBalance' = <<>>
        BY <2>1, <2>3, <2>4 DEF RightBalance, Holding
      <3> QED
        BY <3>1, <3>2
    <2>5. CASE ~(Doc.kind # "balances" \/ (call.vendor # "bittrex"
                   /\ \A k \in DOMAIN Doc.items : Doc.items[k] # Asked))
      <3> DEFINE X == Balance(Number(Asked, "Balance"), Number(Asked, "Available"), Number(Asked, "Pending"))
                 Y == Balance(Number(Asked, "btcValue"), Number(Asked, "available"), Number(Asked, "onOrders"))
                 Z == Balance(Number(Asked, "balance"),
                              <<Number(Asked, "balance"), "less", Number(Asked, "lock")>>, Number(Asked, "lock"))
                 One(v, x, y, z) == <<CASE v = "bittrex" -> x [] v = "poloniex" -> y
                                        [] v = "btc38" -> z>>
      <3>1. RightBalance = One(call.vendor, X, Y, Z)
        BY <2>5, Zenon DEF RightBalance, Holding
      <3>2. ~(Doc'.kind # "balances" \/ (call'.vendor # "bittrex"
                /\ \A k \in DOMAIN Doc'.items : Doc'.items[k] # Asked'))
        BY <2>1, <2>3, <2>5
      <3>3. RightBalance' = One(call'.vendor, X', Y', Z')
        BY <3>2, Zenon DEF RightBalance, Holding
      <3>4. X' = X /\ Y' = Y /\ Z' = Z
        BY <2>2
      <3> HIDE DEF X, Y, Z, One
      <3> QED
        BY <2>3, <3>1, <3>3, <3>4, Zenon
    <2> QED
      BY <2>4, <2>5
  <1>2. BalanceOfLetters'
    <2>1. Usual' <=> Usual
      BY DEF Usual
    <2> QED
      BY <1>1, <2>1, Zenon DEF BalanceOfLetters, RightBalance
  <1>3. BalanceRead'
    BY DEF BalanceRead
  <1> QED
    BY <1>2, <1>3, Aside DEF Answered

LEMMA BalanceFacts ==
  ASSUME BookInv, call.op = "balance", pc = "start", Doc.kind # "other"
  PROVE  /\ call.vendor \in Vendors /\ call.currency \in Currencies /\ IsSeq(tokens)
         /\ Doc.kind \in {"balances", "error"} /\ Len(Doc.items) \in Nat
         /\ DOMAIN Doc.items = 1 .. Len(Doc.items)
         /\ Doc.kind = "balances" =>
              tokens = BalanceTokens(call.vendor, call.currency, Doc.items)
         /\ Doc.kind = "error" => tokens = ErrorTokens(call.vendor)
  <1>1. /\ call.vendor \in Vendors /\ Answers("balance", Doc) /\ IsSeq(tokens)
        /\ tokens = TokensOf(Doc) /\ call \in Calls /\ nth \in {1, 2}
        /\ (nth = 2 => call.op = "markets")
    BY InvFacts DEF BookInv, Handled, Is
  <1>2. call.currency \in Currencies /\ Doc \in BalanceAnswers
    BY <1>1, CallAnswers DEF Doc
  <1>3. Doc.kind \in {"balances", "error"} /\ Len(Doc.items) \in Nat
    BY <1>1 DEF BookInv, Kinds, Answers, AnyKinds, FailureKinds
  <1>4. /\ Doc.kind = "balances" =>
             TokensOf(Doc) = BalanceTokens(call.vendor, call.currency, Doc.items)
        /\ Doc.kind = "error" => TokensOf(Doc) = ErrorTokens(call.vendor)
    BY Zenon DEF TokensOf
  <1> QED
    BY <1>1, <1>2, <1>3, <1>4, AccountFacts

(* A key that is there, and one that is not. *)
LEMMA Found ==
  ASSUME NEW at \in Nat, NEW t, NEW q \in Nat, FindToken(at, t) = q, tokNo \in Nat, q + 1 < tokNo
  PROVE  BehindKey(at, t) = q + 1 /\ BehindKey(at, t) \in Nat
  <1>1. ~(at < 0) /\ ~(q < 0) /\ q + 1 \in 0 .. tokNo - 1 /\ q + 1 \in Nat
    OBVIOUS
  <1> QED
    BY <1>1, Zenon DEF BehindKey, Parsed

LEMMA NotFound ==
  ASSUME NEW at, NEW t, at = -1 \/ (at \in Nat /\ FindToken(at, t) = -1)
  PROVE  BehindKey(at, t) = -1
  <1>1. -1 < 0 /\ (at \in Nat => ~(at < 0))
    OBVIOUS
  <1> QED
    BY <1>1, Zenon DEF BehindKey

(* A balance is made of the last of the values, or none without it. *)
LEMMA BalanceMade ==
  ASSUME NEW last, NEW x, EndBalance(last, x)
  PROVE  /\ UNCHANGED <<call, nth>> /\ pc' # "parsed"
         /\ last = -1 => pc' = "return" /\ list' = <<>>
         /\ last \in Nat => pc' = "return" /\ list' = <<x>>
  <1>1. /\ UNCHANGED <<call, nth>>
        /\ list' = IF last < 0 THEN <<>> ELSE <<x>>
        /\ pc' = IF last = Beyond THEN "fault" ELSE "return"
    BY DEF EndBalance
  <1>2. -1 < 0 /\ -1 # Beyond /\ (last \in Nat => ~(last < 0) /\ last # Beyond)
    BY DEF Beyond
  <1> QED
    BY <1>1, <1>2, Zenon

LEMMA OtherBalance ==
  ASSUME BookInv, UNCHANGED <<call, nth>>, call.op = "balance", Doc.kind = "other", pc' # "parsed"
  PROVE  Answered'
  <1>1. nth \in DOMAIN call.answers /\ call.answers[nth].kind = "other"
    BY DEF BookInv, TypeOK, Doc
  <1>2. nth \in DOMAIN call'.answers /\ call'.answers[nth].kind = "other"
    BY <1>1
  <1>3. ~Usual'
    BY <1>2, Zenon DEF Usual
  <1>4. BalanceOfLetters' /\ BalanceRead'
    BY <1>3 DEF BalanceOfLetters, BalanceRead
  <1> QED
    BY <1>4, Aside DEF Answered

LEMMA PoloniexBalanceAnswered == ASSUME BookInv, Answered, PoloniexBalance PROVE Answered'
  <1> DEFINE c == FindToken(0, Key(call.currency))
             a == BehindKey(c, Key("available"))
             p == BehindKey(a, Key("onOrders"))
             b == BehindKey(p, Key("btcValue"))
             x == Balance(Tok(b).text, Tok(a).text, Tok(p).text)
             s == Doc.items
  <1>1. pc = "start" /\ Is("balance", "poloniex") /\ EndBalance(b, x)
    BY Zenon DEF PoloniexBalance
  <1> HIDE DEF x
  <1>2. /\ call.op = "balance" /\ call.vendor = "poloniex" /\ pc' # "parsed"
        /\ UNCHANGED <<call, nth>>
        /\ b = -1 => pc' = "return" /\ list' = <<>>
        /\ b \in Nat => pc' = "return" /\ list' = <<x>>
    BY <1>1, BalanceMade DEF Is
  <1> SUFFICES ASSUME Doc.kind # "other" PROVE Answered'
    BY <1>1, <1>2, OtherBalance
  <1> HIDE DEF b
  <1>3. /\ call.currency \in Currencies /\ IsSeq(tokens) /\ Doc.kind \in {"balances", "error"}
        /\ Len(s) \in Nat /\ DOMAIN s = 1 .. Len(s)
        /\ Doc.kind = "balances" => tokens = BalanceTokens("poloniex", call.currency, s)
        /\ Doc.kind = "error" => tokens = ErrorTokens("poloniex")
    BY <1>1, <1>2, BalanceFacts
  <1>4. Asked = call.currency /\ Asked \notin {"available", "onOrders", "btcValue"}
    BY <1>2, <1>3, CurrenciesAssumption DEF Asked
  <1>5. ASSUME a = -1 PROVE pc' = "return" /\ list' = <<>>
    <2>1. p = -1
      BY <1>5, NotFound
    <2>2. b = -1
      BY <2>1, NotFound DEF b
    <2> QED
      BY <1>2, <2>2
  <1> HIDE DEF a, p, c
  <1>6. CASE Doc.kind = "error"
    <2>1. c = -1 \/ c \in Nat
      <3>1. c = -1 \/ c \in 0 .. tokNo - 1
        BY <1>3, FindBound DEF c
      <3> QED
        BY <3>1
    <2>2. c \in Nat => FindToken(c, Key("available")) = -1
      BY <1>3, <1>6, ErrorHasNone DEF Vendors
    <2>3. a = -1
      BY <2>1, <2>2, NotFound DEF a
    <2>4. RightBalance = <<>>
      BY <1>6, Zenon DEF RightBalance, Holding
    <2> QED
      BY <1>2, <1>5, <2>3, <2>4, BalanceEnds
  <1>7. CASE Doc.kind = "balances" /\ \A k \in DOMAIN s : s[k] # Asked
    <2>1. c = -1
      BY <1>3, <1>4, <1>7, PoloniexFindsBalance DEF c
    <2>2. a = -1
      BY <2>1, NotFound DEF a
    <2>3. RightBalance = <<>>
      <3>1. call.vendor # "bittrex"
        BY <1>2
      <3> QED
        BY <1>7, <3>1, Zenon DEF RightBalance, Holding
    <2> QED
      BY <1>2, <1>5, <2>2, <2>3, BalanceEnds
  <1>8. CASE Doc.kind = "balances" /\ \E k \in DOMAIN s : s[k] = Asked
    <2>1. PICK f \in 1 .. Len(s) : s[f] = Asked /\ \A k \in 1 .. f - 1 : s[k] # Asked
      BY <1>3, <1>8, FirstOf
    <2>2. /\ FindToken(0, Key(Asked)) = 8 * f - 7
          /\ FindToken(8 * f - 7, Key("available")) = 8 * f - 5
          /\ FindToken(8 * f - 4, Key("onOrders")) = 8 * f - 3
          /\ FindToken(8 * f - 2, Key("btcValue")) = 8 * f - 1
      <3>1. tokens = BalanceTokens("poloniex", call.currency, s) /\ Len(s) \in Nat
        BY <1>3, <1>8
      <3>2. s[f] = call.currency /\ \A k \in 1 .. f - 1 : s[k] # call.currency
        BY <1>4, <2>1
      <3>3. call.currency \notin {"available", "onOrders", "btcValue"}
        BY <1>4
      <3> HIDE DEF s
      <3>4. /\ FindToken(0, Key(call.currency)) = 8 * f - 7
            /\ FindToken(8 * f - 7, Key("available")) = 8 * f - 5
            /\ FindToken(8 * f - 4, Key("onOrders")) = 8 * f - 3
            /\ FindToken(8 * f - 2, Key("btcValue")) = 8 * f - 1
        BY <3>1, <3>2, <3>3, PoloniexFindsBalance
      <3> QED
        BY <1>4, <3>4
    <2>3. /\ Tok(8 * f - 4) = Held(Asked, "available") /\ Tok(8 * f - 2) = Held(Asked, "onOrders")
          /\ Tok(8 * f) = Held(Asked, "btcValue")
      BY <1>3, <1>8, <2>1, PoloniexBalances
    <2>4. /\ 8 * f - 7 \in Nat /\ 8 * f - 5 \in Nat /\ 8 * f - 3 \in Nat /\ 8 * f - 1 \in Nat
          /\ (8 * f - 5) + 1 = 8 * f - 4 /\ (8 * f - 3) + 1 = 8 * f - 2 /\ (8 * f - 1) + 1 = 8 * f
          /\ tokNo \in Nat /\ (8 * f - 5) + 1 < tokNo /\ (8 * f - 3) + 1 < tokNo
          /\ (8 * f - 1) + 1 < tokNo
      <3>1. tokNo = 1 + 8 * Len(s)
        BY <1>3, <1>8, PoloniexBalances
      <3> QED
        BY <1>3, <3>1
    <2>5. c = 8 * f - 7
      BY <1>4, <2>2 DEF c
    <2>6. a = 8 * f - 4 /\ a \in Nat
      BY <2>2, <2>4, <2>5, Found DEF a
    <2>7. p = 8 * f - 2 /\ p \in Nat
      BY <2>2, <2>4, <2>6, Found DEF p
    <2>8. b = 8 * f /\ b \in Nat
      BY <2>2, <2>4, <2>7, Found DEF b
    <2>9. x = Balance(Number(Asked, "btcValue"), Number(Asked, "available"), Number(Asked, "onOrders"))
      BY <2>3, <2>6, <2>7, <2>8, Zenon DEF x, Number
    <2>10. RightBalance = <<Balance(Number(Asked, "btcValue"), Number(Asked, "available"), Number(Asked, "onOrders"))>>
      <3>1. /\ ~(Doc.kind # "balances" \/ (call.vendor # "bittrex"
                  /\ \A k \in DOMAIN Doc.items : Doc.items[k] # Asked))
            /\ call.vendor = "poloniex" /\ call.vendor # "bittrex" /\ call.vendor # "btc38"
        BY <1>2, <1>8
      <3> QED
        BY <3>1, Zenon DEF RightBalance, Holding
    <2> QED
      BY <1>2, <2>8, <2>9, <2>10, BalanceEnds
  <1> QED
    BY <1>3, <1>6, <1>7, <1>8

LEMMA Btc38BalanceAnswered == ASSUME BookInv, Answered, Btc38Balance PROVE Answered'
  <1> DEFINE key  == Btc38Key(Asked, "_balance")
             lock == Btc38Key(Asked, "_balance_lock")
             b == BehindKey(0, key)
             p == BehindKey(b, lock)
             x == Balance(Tok(b).text, <<Tok(b).text, "less", Tok(p).text>>, Tok(p).text)
             s == Doc.items
  <1>1. pc = "start" /\ call.op = "balance" /\ call.vendor = "btc38"
    BY DEF Btc38Balance, Is
  <1>2. Asked = Cut[call.currency]
    BY <1>1 DEF Asked
  <1>3. EndBalance(p, x)
    BY <1>2, Zenon DEF Btc38Balance
  <1> HIDE DEF x
  <1>4. /\ UNCHANGED <<call, nth>> /\ pc' # "parsed"
        /\ p = -1 => pc' = "return" /\ list' = <<>>
        /\ p \in Nat => pc' = "return" /\ list' = <<x>>
    BY <1>3, BalanceMade
  <1> HIDE DEF p
  <1> SUFFICES ASSUME Doc.kind # "other" PROVE Answered'
    BY <1>1, <1>4, OtherBalance
  <1>5. /\ IsSeq(tokens) /\ Doc.kind \in {"balances", "error"}
        /\ Len(s) \in Nat /\ DOMAIN s = 1 .. Len(s)
        /\ Doc.kind = "balances" => tokens = BalanceTokens("btc38", call.currency, s)
        /\ Doc.kind = "error" => tokens = ErrorTokens("btc38")
    BY <1>1, BalanceFacts
  <1>6. ASSUME FindToken(0, key) = -1 PROVE pc' = "return" /\ list' = <<>>
    <2>1. b = -1
      <3>1. 0 \in Nat
        OBVIOUS
      <3> QED
        BY <1>6, <3>1, NotFound
    <2>2. p = -1
      BY <2>1, NotFound DEF p
    <2> QED
      BY <1>4, <2>2
  <1> HIDE DEF b
  <1>7. CASE Doc.kind = "error"
    <2>1. FindToken(0, key) = -1
      <3>1. 0 \in Nat /\ "btc38" \in Vendors /\ "btc38" # "bittrex" /\ tokens = ErrorTokens("btc38")
        BY <1>5, <1>7 DEF Vendors
      <3> QED
        BY <3>1, ErrorHasNone
    <2>2. RightBalance = <<>>
      BY <1>7, Zenon DEF RightBalance, Holding
    <2> QED
      BY <1>1, <1>4, <1>6, <2>1, <2>2, BalanceEnds
  <1>8. CASE Doc.kind = "balances" /\ \A k \in DOMAIN s : s[k] # Asked
    <2>1. FindToken(0, key) = -1
      <3>1. tokens = BalanceTokens("btc38", call.currency, s) /\ Len(s) \in Nat
        BY <1>5, <1>8
      <3>2. \A k \in 1 .. Len(s) : s[k] # Asked
        BY <1>5, <1>8
      <3> HIDE DEF s
      <3> QED
        BY <3>1, <3>2, Btc38FindsBalance
    <2>2. RightBalance = <<>>
      <3>1. call.vendor # "bittrex"
        BY <1>1
      <3> QED
        BY <1>8, <3>1, Zenon DEF RightBalance, Holding
    <2> QED
      BY <1>1, <1>4, <1>6, <2>1, <2>2, BalanceEnds
  <1>9. CASE Doc.kind = "balances" /\ \E k \in DOMAIN s : s[k] = Asked
    <2>1. PICK f \in 1 .. Len(s) : s[f] = Asked /\ \A k \in 1 .. f - 1 : s[k] # Asked
      BY <1>5, <1>9, FirstOf
    <2>2. FindToken(0, key) = 4 * f - 3 /\ FindToken(4 * f - 2, lock) = 4 * f - 1
      <3>1. tokens = BalanceTokens("btc38", call.currency, s) /\ Len(s) \in Nat
        BY <1>5, <1>9
      <3> HIDE DEF s
      <3> QED
        BY <2>1, <3>1, Btc38FindsBalance
    <2>3. Tok(4 * f - 2) = Held(Asked, "balance") /\ Tok(4 * f) = Held(Asked, "lock")
      BY <1>5, <1>9, <2>1, Btc38Balances
    <2>4. /\ 4 * f - 3 \in Nat /\ 4 * f - 1 \in Nat /\ 0 \in Nat
          /\ (4 * f - 3) + 1 = 4 * f - 2 /\ (4 * f - 1) + 1 = 4 * f
          /\ tokNo \in Nat /\ (4 * f - 3) + 1 < tokNo /\ (4 * f - 1) + 1 < tokNo
      <3>1. tokNo = 1 + 4 * Len(s)
        BY <1>5, <1>9, Btc38Balances
      <3> QED
        BY <1>5, <3>1
    <2> HIDE DEF key, lock
    <2>5. b = 4 * f - 2 /\ b \in Nat
      BY <2>2, <2>4, Found DEF b
    <2>6. p = 4 * f /\ p \in Nat
      BY <2>2, <2>4, <2>5, Found DEF p
    <2> DEFINE r == Balance(Number(Asked, "balance"),
                            <<Number(Asked, "balance"), "less", Number(Asked, "lock")>>, Number(Asked, "lock"))
    <2>7. x = r
      BY <2>3, <2>5, <2>6, Zenon DEF x, Number
    <2>8. RightBalance = <<r>>
      <3>1. /\ ~(Doc.kind # "balances" \/ (call.vendor # "bittrex"
                  /\ \A k \in DOMAIN Doc.items : Doc.items[k] # Asked))
            /\ call.vendor = "btc38" /\ call.vendor # "bittrex" /\ call.vendor # "poloniex"
        BY <1>1, <1>9
      <3> QED
        BY <3>1, Zenon DEF RightBalance, Holding
    <2> HIDE DEF r
    <2> QED
      BY <1>1, <1>4, <2>6, <2>7, <2>8, BalanceEnds
  <1> QED
    BY <1>5, <1>7, <1>8, <1>9

LEMMA BittrexBalanceAnswered == ASSUME BookInv, Answered, BittrexBalance PROVE Answered'
  <1> DEFINE c == BehindKey(0, Key("Currency"))
             b == BehindKey(c, Key("Balance"))
             a == BehindKey(b, Key("Available"))
             p == BehindKey(a, Key("Pending"))
             x == [currency  |-> Tok(c).text[1],  balance |-> Tok(b).text,
                   available |-> Tok(a).text, pending |-> Tok(p).text]
  <1>1. pc = "start" /\ call.op = "balance" /\ call.vendor = "bittrex" /\ EndBalance(p, x)
    BY Zenon DEF BittrexBalance, Is
  <1> HIDE DEF x
  <1>2. /\ UNCHANGED <<call, nth>> /\ pc' # "parsed"
        /\ p = -1 => pc' = "return" /\ list' = <<>>
        /\ p \in Nat => pc' = "return" /\ list' = <<x>>
    BY <1>1, BalanceMade
  <1> HIDE DEF p
  <1> SUFFICES ASSUME Doc.kind # "other" PROVE Answered'
    BY <1>1, <1>2, OtherBalance
  <1>3. /\ call.currency \in Currencies /\ Doc.kind \in {"balances", "error"}
        /\ Doc.kind = "balances" => tokens = BalanceTokens("bittrex", call.currency, Doc.items)
        /\ Doc.kind = "error" => tokens = ErrorTokens("bittrex")
    BY <1>1, BalanceFacts
  <1>4. Asked = call.currency /\ Asked # "Balance"
    BY <1>1, <1>3, CurrenciesAssumption DEF Asked
  <1>5. ASSUME c = -1 PROVE pc' = "return" /\ list' = <<>>
    <2>1. b = -1
      BY <1>5, NotFound
    <2>2. a = -1
      BY <2>1, NotFound
    <2>3. p = -1
      BY <2>2, NotFound DEF p
    <2> QED
      BY <1>2, <2>3
  <1> HIDE DEF a, b, c
  <1>6. CASE Doc.kind = "error"
    <2>1. FindToken(0, Key("Currency")) = -1 /\ 0 \in Nat
      BY <1>3, <1>6, ErrorHasNone DEF Vendors
    <2>2. c = -1
      BY <2>1, NotFound DEF c
    <2>3. RightBalance = <<>>
      BY <1>6, Zenon DEF RightBalance, Holding
    <2> QED
      BY <1>1, <1>2, <1>5, <2>2, <2>3, BalanceEnds
  <1>7. CASE Doc.kind = "balances"
    <2>1. tokens = BalanceTokens("bittrex", Asked, Doc.items)
      BY <1>3, <1>4, <1>7
    <2>2. /\ FindToken(0, Key("Currency")) = 7 /\ FindToken(8, Key("Balance")) = 9
          /\ FindToken(10, Key("Available")) = 11 /\ FindToken(12, Key("Pending")) = 13
      BY <1>4, <2>1, BittrexFindsBalance
    <2>3. /\ Tok(8) = Key(Asked) /\ Tok(10) = Held(Asked, "Balance")
          /\ Tok(12) = Held(Asked, "Available") /\ Tok(14) = Held(Asked, "Pending")
      BY <2>1, BittrexBalances
    <2>4. /\ 7 \in Nat /\ 9 \in Nat /\ 11 \in Nat /\ 13 \in Nat /\ 0 \in Nat
          /\ 7 + 1 = 8 /\ 9 + 1 = 10 /\ 11 + 1 = 12 /\ 13 + 1 = 14
          /\ tokNo \in Nat /\ 7 + 1 < tokNo /\ 9 + 1 < tokNo /\ 11 + 1 < tokNo /\ 13 + 1 < tokNo
      <3>1. tokNo = 15
        BY <2>1, BittrexBalances
      <3> QED
        BY <3>1
    <2>5. c = 8 /\ c \in Nat
      BY <2>2, <2>4, Found DEF c
    <2>6. b = 10 /\ b \in Nat
      BY <2>2, <2>4, <2>5, Found DEF b
    <2>7. a = 12 /\ a \in Nat
      BY <2>2, <2>4, <2>6, Found DEF a
    <2>8. p = 14 /\ p \in Nat
      BY <2>2, <2>4, <2>7, Found DEF p
    <2> DEFINE r == Balance(Number(Asked, "Balance"), Number(Asked, "Available"), Number(Asked, "Pending"))
    <2>9. x = r
      <3>1. Tok(8).text[1] = Asked
        BY <2>3 DEF Key, Token
      <3>2. /\ Tok(10).text = Number(Asked, "Balance") /\ Tok(12).text = Number(Asked, "Available")
            /\ Tok(14).text = Number(Asked, "Pending")
        BY <2>3, Zenon DEF Number
      <3> QED
        BY <1>4, <2>5, <2>6, <2>7, <2>8, <3>1, <3>2, Zenon DEF x, Balance
    <2>10. RightBalance = <<r>>
      <3>1. /\ ~(Doc.kind # "balances" \/ (call.vendor # "bittrex"
                  /\ \A k \in DOMAIN Doc.items : Doc.items[k] # Asked))
            /\ call.vendor = "bittrex" /\ call.vendor # "btc38" /\ call.vendor # "poloniex"
        BY <1>1, <1>7
      <3> QED
        BY <3>1, Zenon DEF RightBalance, Holding
    <2> HIDE DEF r
    <2> QED
      BY <1>1, <1>2, <2>8, <2>9, <2>10, BalanceEnds
  <1> QED
    BY <1>3, <1>6, <1>7

LEMMA BookStepAnswered ==
  ASSUME BookInv,
         \/ StartBook \/ MakePair \/ MakeEntry \/ EndMaking
         \/ FillBtc38 \/ FillPoloniex \/ FillEntry \/ EndFilling
  PROVE  Answered'
  <1>1. CASE StartBook
    BY <1>1, BookAnswered DEF StartBook
  <1>2. CASE MakePair \/ MakeEntry \/ EndMaking
    <2>1. pc = "making" /\ call' = call
      BY <1>2 DEF MakePair, MakeEntry, EndMaking
    <2> QED
      BY <2>1, BookAnswered DEF BookInv, Kinds
  <1>3. CASE FillBtc38 \/ FillPoloniex \/ FillEntry \/ EndFilling
    <2>1. pc = "filling" /\ call' = call
      BY <1>3 DEF FillBtc38, FillPoloniex, FillEntry, EndFilling
    <2> QED
      BY <2>1, BookAnswered DEF BookInv, Kinds
  <1> QED
    BY <1>1, <1>2, <1>3

LEMMA StutterAnswered == ASSUME BookInv, Answered, UNCHANGED vars PROVE Answered'
  <1>1. UNCHANGED <<call, nth, pc, pos, list, first>>
    BY DEF vars
  <1>other. CASE Doc.kind = "other"
    <2>1. CASE call.op = "markets"
      BY <1>1, <1>other, <2>1, OtherAnswered
    <2>2. CASE call.op = "balance"
      <3>1. Doc' = Doc
        BY <1>1 DEF Doc
      <3>2. ~Usual'
        <4>1. nth \in DOMAIN call.answers /\ call.answers[nth].kind = "other"
          BY <1>other DEF BookInv, TypeOK, Doc
        <4>2. nth \in DOMAIN call'.answers /\ call'.answers[nth].kind = "other"
          BY <1>1, <4>1
        <4> QED
          BY <4>2, Zenon DEF Usual
      <3>3. BalanceOfLetters' /\ BalanceRead'
        BY <1>1, <3>1, <3>2 DEF BalanceOfLetters, BalanceRead, Answered
      <3> QED
        BY <1>1, <2>2, <3>3, Aside DEF Answered
    <2>3. CASE call.op \notin {"markets", "balance"}
      BY <1>1, <2>3, Aside DEF Answered
    <2> QED
      BY <2>1, <2>2, <2>3
  <1> SUFFICES ASSUME Doc.kind # "other" PROVE Answered'
    BY <1>other
  <1>2. CASE call.op = "markets" /\ pc = "markets"
    <2>1. (pos = 0 /\ list = Listed(nth)) \/ \E n \in 0 .. Len(Doc.items) : Behind(n)
      BY <1>2 DEF Answered, MarketsWalked
    <2> QED
      BY <1>1, <1>2, <2>1, WalkKept DEF Behind
  <1>3. CASE call.op = "markets" /\ pc = "parsed"
    BY <1>1, <1>3, ParsedKept DEF Answered, MarketsWalked
  <1>4. CASE call.op = "markets" /\ pc \notin {"markets", "parsed"}
    BY <1>1, <1>4, ReturnKept DEF Answered, MarketsListed
  <1>5. CASE call.op = "balance" /\ pc = "return"
    <2>1. Usual => list = RightBalance
      BY <1>5, Zenon DEF Answered, BalanceOfLetters, RightBalance
    <2> QED
      BY <1>1, <1>5, <2>1, BalanceEnds
  <1>6. CASE call.op = "balance" /\ pc # "return"
    <2>1. Doc' = Doc
      BY <1>1 DEF Doc
    <2>2. BalanceRead' /\ BalanceOfLetters'
      BY <1>1, <1>6, <2>1 DEF Answered, BalanceRead, BalanceOfLetters
    <2> QED
      BY <1>1, <1>6, <2>2, Aside DEF Answered
  <1>7. CASE call.op \notin {"markets", "balance"}
    BY <1>1, <1>7, Aside DEF Answered
  <1> QED
    BY <1>2, <1>3, <1>4, <1>5, <1>6, <1>7

-----------------------------------------------------------------------------
(* The theorems. *)

(* Wherever a call stands that was answered in the shape of the exchange,    *)
(* the list under construction holds exactly what the markets behind         *)
(* start_pos contribute, and nothing has been read of a balance; so that     *)
(* what is returned in the end is what the exchange sent.                    *)
THEOREM AnswersInductive == Spec => []IndInv
  <1>1. Init => Answered
    BY DEF Init, Answered, MarketsWalked, MarketsListed, BalanceRead, BalanceOfLetters
  <1>2. BookInv /\ Answered /\ [Next]_vars => Answered'
    <2> SUFFICES ASSUME BookInv, Answered, [Next]_vars PROVE Answered'
      OBVIOUS
    <2>1. CASE Get
      BY <2>1, GetAnswered
    <2>2. CASE Merge
      BY <2>2, MergeAnswered
    <2>3. CASE StartMarkets
      BY <2>3, StartMarketsAnswered
    <2>4. CASE BittrexMarket
      BY <2>4, BittrexMarketAnswered
    <2>5. CASE Btc38Market
      BY <2>5, Btc38MarketAnswered
    <2>6. CASE PoloniexMarket
      BY <2>6, PoloniexMarketAnswered
    <2>7. CASE EndMarkets
      BY <2>7, EndMarketsAnswered
    <2>8. CASE \/ StartBook \/ MakePair \/ MakeEntry \/ EndMaking
               \/ FillBtc38 \/ FillPoloniex \/ FillEntry \/ EndFilling
      BY <2>8, BookStepAnswered
    <2>9. CASE BittrexBalance
      BY <2>9, BittrexBalanceAnswered
    <2>10. CASE PoloniexBalance
      BY <2>10, PoloniexBalanceAnswered
    <2>11. CASE Btc38Balance
      BY <2>11, Btc38BalanceAnswered
    <2>12. CASE UNCHANGED vars
      BY <2>12, StutterAnswered
    <2> QED
      BY <2>1, <2>2, <2>3, <2>4, <2>5, <2>6, <2>7, <2>8, <2>9, <2>10, <2>11, <2>12 DEF Next
  <1>3. BookInv /\ Answered => IndInv
    BY DEF Answered, IndInv
  <1> QED
    BY <1>1, <1>2, <1>3, Inductive, PTL DEF Spec

(* markets_get returns just the active markets of the exchange, in order,    *)
(* each with its own two names, of lists of any length; of btc38 the second  *)
(* list behind the first, and of bittrex those before the first null.        *)
THEOREM MarketsTrue == Spec => []MarketsListed
  <1>1. IndInv => MarketsListed
    BY DEF IndInv
  <1> QED
    BY <1>1, AnswersInductive, PTL

(* balance returns the numbers of the currency that was asked for, all of    *)
(* them of its own part of the document, wherever in an account of any size  *)
(* that part stands, and NULL when it is not there; of btc38 this is said of *)
(* a currency whose name has three letters, since with a longer name that of *)
(* another currency is returned (BalanceOfLetters).                          *)
THEOREM BalancesTrue == Spec => []BalanceOfCurrency
  <1>1. IndInv => BalanceOfCurrency
    <2> SUFFICES ASSUME BalanceOfLetters, pc = "return", call.op = "balance", Usual,
                        call.vendor = "btc38" => Cut[call.currency] = call.currency
                 PROVE  list = Holding(call.currency)
      BY Zenon DEF IndInv, BalanceOfCurrency
    <2>1. Asked = call.currency
      BY Zenon DEF Asked
    <2>2. list = Holding(Asked)
      BY Zenon DEF BalanceOfLetters
    <2> QED
      BY <2>1, <2>2, Zenon
  <1> QED
    BY <1>1, AnswersInductive, PTL
=============================================================================
