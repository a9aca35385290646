----------------------------- MODULE VendorCalls -----------------------------
(***************************************************************************)
(* What the vendors' markets_get, books_get and balance (btc38.c,          *)
(* bittrex.c and poloniex.c) ask of the exchanges and make of the          *)
(* documents that come back: the downloads of one call, the walk over the  *)
(* tokens of each document, and the list or record that is returned.       *)
(*                                                                         *)
(* A document is the sequence of its JSON tokens, numbered from 0 as the   *)
(* code does.  Of a string or a number the model keeps what it stands for: *)
(* a key, or the second number of the third bid.  Apart from the documents *)
(* that the exchanges send there are Others, of any shape.  Reading what is *)
(* no token of the document, an uninitialized pointer or a null pointer is *)
(* undefined behaviour ("fault").                                          *)
(***************************************************************************)
EXTENDS Https

CONSTANTS
  Levels,   \* how many bids, and how many asks, an order book may have
  Markets,  \* sequences of markets, each "active", "inactive", "null" or "unsplit"
  Accounts, \* sequences of the currencies of an account
  Cut,      \* for each currency, what its first three letters name
  Others    \* other documents, as sequences of tokens

ASSUME LevelsAssumption  == Levels \subseteq Nat
ASSUME MarketsAssumption ==
  Markets \subseteq Seq({"active", "inactive", "null", "unsplit"})

Currencies == DOMAIN Cut
ASSUME AccountsAssumption == Accounts \subseteq Seq(Currencies)

IsSeq(s) == s \in Seq({s[i] : i \in DOMAIN s})
ASSUME OthersAssumption == \A t \in Others : IsSeq(t)

(* The parsers look for the name of a currency as for any key. *)
ASSUME CurrenciesAssumption ==
  Currencies \cap {"available", "onOrders", "btcValue", "Balance"} = {}

Vendors == {"btc38", "bittrex", "poloniex"}

-----------------------------------------------------------------------------
(* Documents. *)

Token(type, text) == [type |-> type, text |-> text]
Key(k)     == Token("string", <<k>>)
Object     == Token("object", <<"{">>)
Array      == Token("array", <<"[">>)
Null       == Token("primitive", <<"null">>)
(* Where a truth value is expected, true stands for a number that is not 0. *)
Bool(b)    == Token("primitive", <<IF b THEN "true" ELSE "false">>)

(* Level k of one side: a pair of numbers, or an object. *)
Pair(side, k) ==
  <<Array, Token("primitive", <<side, k, 1>>), Token("primitive", <<side, k, 2>>)>>
Entry(side, k) ==
  <<Object, Key("Quantity"), Token("primitive", <<side, k, 1>>),
            Key("Rate"),     Token("primitive", <<side, k, 2>>)>>
(* Blocks of tokens, one behind the other, all as long as the first. *)
Flat(blocks) ==
  IF blocks = <<>> THEN <<>>
  ELSE LET m == Len(blocks[1])
       IN  [i \in 1 .. Len(blocks) * m |-> blocks[1 + ((i - 1) \div m)][1 + ((i - 1) % m)]]

PairSide(side, n)  == <<Array>> \o Flat([k \in 1 .. n |-> Pair(side, k)])
EntrySide(side, n) == <<Array>> \o Flat([k \in 1 .. n |-> Entry(side, k)])

BookTokens(vendor, bids, asks) ==
  CASE vendor = "btc38" ->
         <<Object, Key("bids")>> \o PairSide("bid", bids)
                  \o <<Key("asks")>> \o PairSide("ask", asks)
    [] vendor = "poloniex" ->
         <<Object, Key("asks")>> \o PairSide("ask", asks)
                  \o <<Key("bids")>> \o PairSide("bid", bids)
                  \o <<Key("isFrozen"), Key("0"), Key("seq"), Bool(TRUE)>>
    [] vendor = "bittrex" ->
         <<Object, Key("success"), Bool(TRUE), Key("message"), Key(""), Key("result"), Object>>
                  \o <<Key("buy")>> \o EntrySide("bid", bids)
                  \o <<Key("sell")>> \o EntrySide("ask", asks)

Coin(what, k) == Token("string", <<what, k>>)

(* Market k of a list of items. *)
MarketBlock(vendor, items, k) ==
  CASE vendor = "btc38"    -> <<Coin(items[k], k), Object, Key("ticker"), Object,
                                Key("last"), Bool(TRUE)>>
    [] vendor = "poloniex" -> <<Coin(items[k], k), Object, Key("id"), Bool(TRUE)>>
    [] vendor = "bittrex"  -> <<Object, Key("MarketCurrency"), Coin("market", k),
                                Key("BaseCurrency"),
                                IF items[k] = "null" THEN Null ELSE Coin("base", k),
                                Key("MinTradeSize"), Bool(TRUE),
                                Key("MarketName"), Coin("name", k),
                                Key("IsActive"), Bool(items[k] # "inactive")>>

MarketTokens(vendor, items) ==
  (IF vendor = "bittrex"
   THEN <<Object, Key("success"), Bool(TRUE), Key("message"), Key(""), Key("result"), Array>>
   ELSE <<Object>>)
    \o Flat([k \in 1 .. Len(items) |-> MarketBlock(vendor, items, k)])

(* What an account holds of a currency, and the key of btc38 for it. *)
Held(c, what) == Token("string", <<c, what, "number">>)
Btc38Key(c, what) == Token("string", <<c, what>>)

PoloniexBlock(c) == <<Key(c), Object, Key("available"), Held(c, "available"),
                                      Key("onOrders"),  Held(c, "onOrders"),
                                      Key("btcValue"),  Held(c, "btcValue")>>
Btc38Block(c) == <<Btc38Key(c, "_balance"), Held(c, "balance"),
                   Btc38Key(c, "_balance_lock"), Held(c, "lock")>>

(* bittrex tells of the one currency it was asked for. *)
BalanceTokens(vendor, c, account) ==
  CASE vendor = "bittrex"  -> <<Object, Key("success"), Bool(TRUE), Key("message"), Key(""),
                                Key("result"), Object, Key("Currency"), Key(c),
                                Key("Balance"), Held(c, "Balance"),
                                Key("Available"), Held(c, "Available"),
                                Key("Pending"), Held(c, "Pending")>>
    [] vendor = "poloniex" ->
         <<Object>> \o Flat([k \in 1 .. Len(account) |-> PoloniexBlock(account[k])])
    [] vendor = "btc38"    ->
         <<Object>> \o Flat([k \in 1 .. Len(account) |-> Btc38Block(account[k])])

(* An answer that says that the call failed. *)
ErrorTokens(vendor) ==
  IF vendor = "bittrex"
  THEN <<Object, Key("success"), Bool(FALSE), Key("message"), Key("no"), Key("result"), Null>>
  ELSE <<Object, Key("error"), Key("no")>>

(* What a download may yield: nothing, what is no JSON or has more tokens   *)
(* than there is room for, an error, data, or any other document.  How the  *)
(* first kinds end is told in Https.                                        *)
Answer(kind, bids, asks, items) ==
  [kind |-> kind, bids |-> bids, asks |-> asks, items |-> items]
Empty(kind) == Answer(kind, 0, 0, <<>>)
Failures    == {Empty(k) : k \in {"failed", "unset", "empty", "garbled", "error"}}
OtherAnswers ==
  {[kind |-> "other", bids |-> 0, asks |-> 0, items |-> <<>>, tokens |-> t] : t \in Others}
BookAnswers ==
  Failures \cup OtherAnswers \cup {Answer("book", b, a, <<>>) : b \in Levels, a \in Levels}
MarketAnswers(vendor) ==
  Failures \cup OtherAnswers \cup {Answer("markets", 0, 0, m) : m \in
    {m \in Markets : \A k \in DOMAIN m : m[k] \in
       CASE vendor = "btc38"    -> {"active"}
         [] vendor = "poloniex" -> {"active", "unsplit"}
         [] vendor = "bittrex"  -> {"active", "inactive", "null"}}}

BalanceAnswers ==
  Failures \cup OtherAnswers \cup {Answer("balances", 0, 0, a) : a \in Accounts}

-----------------------------------------------------------------------------
VARIABLES
  call,    \* the call: records [op, vendor, currency, answers], of which the
           \* exchange decides the answers
  nth,     \* which of its downloads is being handled
  pc,      \* where the call is
  tokens,  \* the tokens of the document, as json_parse leaves them
  pos,     \* start_pos
  list,    \* book or market list under construction, as a sequence
  cur,     \* current: the entry of the book that takes the next level
  first,   \* btc_market, while btc38 downloads its second list
  sent     \* the requests that were sent

vars == <<call, nth, pc, tokens, pos, list, cur, first, sent>>

(* btc38 downloads one list for each of its base currencies. *)
ACall(op, vendor, currency, answers) ==
  [op |-> op, vendor |-> vendor, currency |-> currency, answers |-> answers]

Calls ==
  {ACall("books", v, "none", <<a>>) : v \in Vendors, a \in BookAnswers}
    \cup {ACall("markets", "btc38", "none", <<a, b>>) :
             a \in MarketAnswers("btc38"), b \in MarketAnswers("btc38")}
    \cup (UNION {{ACall("markets", v, "none", <<a>>) : a \in MarketAnswers(v)} :
                    v \in {"bittrex", "poloniex"}})
    \cup {ACall("balance", v, c, <<a>>) : v \in Vendors, c \in Currencies, a \in BalanceAnswers}

Init ==
  /\ call \in Calls
  /\ nth = 1 /\ pc = "get" /\ tokens = <<>> /\ pos = 0
  /\ list = <<>> /\ cur = 1 /\ first = <<>> /\ sent = <<>>

Is(op, vendor) == call.op = op /\ call.vendor = vendor
Doc == call.answers[nth]

(* json_parse: what is no JSON has no tokens. *)
TokensOf(d) ==
  CASE d.kind = "book"    -> BookTokens(call.vendor, d.bids, d.asks)
    [] d.kind = "markets" -> MarketTokens(call.vendor, d.items)
    [] d.kind = "balances" -> BalanceTokens(call.vendor, call.currency, d.items)
    [] d.kind = "error"   -> ErrorTokens(call.vendor)
    [] d.kind = "other"   -> d.tokens
    [] OTHER              -> <<>>

tokNo == Len(tokens)
Tok(i) == tokens[i + 1]
Parsed(i) == i \in 0 .. tokNo - 1

(* What is outside the tokens that were parsed. *)
Beyond == -2

(* json_find_token, which begins wherever it is told to. *)
FindToken(from, t) ==
  LET found == {i \in from .. tokNo - 1 : Tok(i) = t}
  IN  IF from < 0 THEN Beyond
      ELSE IF found = {} THEN -1 ELSE CHOOSE i \in found : \A j \in found : i <= j
Find(from, k) == FindToken(from, Key(k))

(* json_get_string_value, json_get_double_value and json_get_int_value: the *)
(* position of the value, 0 when the key or the type is not as expected;    *)
(* that there is a token behind the key is not looked at.                   *)
Value(from, k, type) ==
  LET p == Find(from, k)
  IN  IF p = -1 THEN 0
      ELSE IF p = Beyond \/ ~Parsed(p + 1) THEN Beyond
      ELSE IF Tok(p + 1).type = type THEN p + 1 ELSE 0

(* The same, from a position that the key before was found at; once a key   *)
(* is missing the ones after it are not looked for.                         *)
ValueAfter(at, k, type) == IF at \in {0, Beyond} THEN at ELSE Value(at, k, type)

ReadsBeyond == pc' = "fault" /\ UNCHANGED <<pos, list, cur>>

-----------------------------------------------------------------------------
(* The requests. *)

Public(what) == GetRequest(<<call.vendor, what>>, NewConnection)

(* bittrex_balance signs the url, which holds the nonce. *)
BittrexAsks ==
  LET url == <<"bittrex", "getbalance", "apikey", "nonce", call.currency>>
  IN  GetRequest(url, AddHeader(NewConnection, "apisign", Sign("bittrex", url)))

(* Mutant: the parameters are signed before the nonce is among them. *)
PoloniexAsksSignedEarly ==
  LET command == AddPostParameter(NewConnection, "command", "returnCompleteBalances")
      key     == AddHeader(command, "Key", "apikey")
      signed  == AddHeader(key, "Sign", Sign("poloniex", key.parameters))
  IN  PostRequest(<<"poloniex", "tradingApi">>, AddPostParameter(signed, "nonce", "now"))

(* poloniex_balance signs the parameters. *)
PoloniexAsks ==
  LET command == AddPostParameter(NewConnection, "command", "returnCompleteBalances")
      nonce   == AddPostParameter(command, "nonce", "now")
      key     == AddHeader(nonce, "Key", "apikey")
  IN  PostRequest(<<"poloniex", "tradingApi">>,
                  AddHeader(key, "Sign", Sign("poloniex", key.parameters)))

(* btc38_balance sends the time, and a digest of it with the secret. *)
Btc38Asks ==
  LET key  == AddPostParameter(NewConnection, "key", "apikey")
      time == AddPostParameter(key, "time", "now")
  IN  PostRequest(<<"btc38", "getMyBalance">>,
                  AddPostParameter(time, "md5", <<"apikey", "userid", "apisecret", "now">>))

ItsRequest ==
  CASE call.op = "balance" /\ call.vendor = "bittrex"  -> BittrexAsks
    [] call.op = "balance" /\ call.vendor = "poloniex" -> PoloniexAsks
    [] call.op = "balance" /\ call.vendor = "btc38"    -> Btc38Asks
    [] OTHER -> Public(call.op)

-----------------------------------------------------------------------------
(* The download. *)

Checked == call.op = "markets" /\ call.vendor \in {"btc38", "poloniex"}

(* Mutant: nobody looks at what utils_https_get returns. *)
GetUnchecked ==
  /\ pc = "get"
  /\ pc' = CASE ~Terminated(Doc.kind) -> "fault"
             [] Doc.kind = "garbled"  -> "parsed"
             [] OTHER                 -> "start"
  /\ tokens' = TokensOf(Doc) /\ sent' = Append(sent, ItsRequest)
  /\ UNCHANGED <<call, nth, pos, list, cur, first>>

(* utils_https_get or utils_https_post: what it returns is looked at by two *)
(* vendors' markets_get only, which return the markets already there;       *)
(* elsewhere results stays uninitialized, and is parsed and freed.  What is *)
(* no JSON leaves no tokens.                                                *)
Get ==
  /\ pc = "get"
  /\ pc' = CASE Checked /\ Returned(Doc.kind) # 0 -> "return"
             [] ~(Checked /\ Returned(Doc.kind) # 0) /\ ~Terminated(Doc.kind) -> "fault"
             [] Doc.kind = "garbled"              -> "parsed"
             [] OTHER                             -> "start"
  /\ list' = IF Returned(Doc.kind) # 0 THEN first ELSE list
  /\ tokens' = TokensOf(Doc) /\ sent' = Append(sent, ItsRequest)
  /\ UNCHANGED <<call, nth, pos, cur, first>>

(* btc38_get_markets appends the second list to the first, which must have *)
(* an end to append to.                                                    *)
Merge ==
  /\ pc = "parsed"
  /\ IF Is("markets", "btc38") /\ nth = 1
     THEN nth' = 2 /\ first' = list /\ list' = <<>> /\ pc' = "get"
     ELSE /\ list' = first \o list
          /\ pc' = IF Is("markets", "btc38") /\ first = <<>> THEN "fault" ELSE "return"
          /\ UNCHANGED <<nth, first>>
  /\ UNCHANGED <<call, tokens, pos, cur, sent>>

-----------------------------------------------------------------------------
(* Market lists. *)

Market(base, market) == [base |-> base, market |-> market]

(* btc38 and poloniex start at token 1; bittrex looks for success. *)
StartMarkets ==
  /\ pc = "start" /\ call.op = "markets"
  /\ IF call.vendor = "bittrex"
     THEN LET s == Value(0, "success", "primitive")
          IN  IF s = Beyond THEN ReadsBeyond
              ELSE /\ pos' = s
                   /\ pc' = IF s # 0 /\ Tok(s) = Bool(TRUE) THEN "markets" ELSE "parsed"
                   /\ UNCHANGED <<list, cur>>
     ELSE pos' = 1 /\ pc' = "markets" /\ UNCHANGED <<list, cur>>
  /\ UNCHANGED <<call, tokens, nth, first, sent>>

EndMarkets ==
  /\ pc = "markets" /\ pos = 0
  /\ pc' = "parsed"
  /\ UNCHANGED <<call, tokens, nth, pos, list, cur, first, sent>>

(* Mutant: inactive markets are listed too. *)
BittrexMarketAnyState ==
  /\ pc = "markets" /\ pos # 0 /\ Is("markets", "bittrex")
  /\ \E m \in {Value(pos, "MarketCurrency", "string")} :
     \E b \in {ValueAfter(m, "BaseCurrency", "string")} :
     \E t \in {ValueAfter(b, "MinTradeSize", "primitive")} :
     \E n \in {ValueAfter(t, "MarketName", "string")} :
     \E a \in {ValueAfter(n, "IsActive", "primitive")} :
       IF a = Beyond THEN ReadsBeyond
       ELSE /\ pos' = a
            /\ list' = IF a # 0 THEN Append(list, Market(Tok(b).text, Tok(m).text)) ELSE list
            /\ UNCHANGED <<pc, cur>>
  /\ UNCHANGED <<call, tokens, nth, first, sent>>

(* book_bittrex_parse_market: five keys, each looked for behind the value   *)
(* of the one before.  A market that lacks one ends the list, an inactive   *)
(* one is skipped.                                                          *)
BittrexMarket ==
  /\ pc = "markets" /\ pos # 0 /\ Is("markets", "bittrex")
  /\ \E m \in {Value(pos, "MarketCurrency", "string")} :
     \E b \in {ValueAfter(m, "BaseCurrency", "string")} :
     \E t \in {ValueAfter(b, "MinTradeSize", "primitive")} :
     \E n \in {ValueAfter(t, "MarketName", "string")} :
     \E a \in {ValueAfter(n, "IsActive", "primitive")} :
       IF a = Beyond THEN ReadsBeyond
       ELSE /\ pos' = a
            /\ list' = IF a # 0 /\ Tok(a) = Bool(TRUE)
                       THEN Append(list, Market(Tok(b).text, Tok(m).text)) ELSE list
            /\ UNCHANGED <<pc, cur>>
  /\ UNCHANGED <<call, tokens, nth, first, sent>>

(* find_next_market_type: the name is two tokens before the key. *)
NameOfNext(k) ==
  LET p == Find(pos, k)
  IN  IF p < 1 THEN 0
      ELSE IF ~Parsed(p - 2) THEN Beyond
      ELSE IF Tok(p - 2).type = "string" THEN p ELSE 0

Btc38Market ==
  /\ pc = "markets" /\ pos # 0 /\ Is("markets", "btc38")
  /\ LET p == NameOfNext("ticker")
     IN  IF p = Beyond THEN ReadsBeyond
         ELSE /\ pos' = IF p = 0 THEN 0 ELSE p + 1
              /\ list' = IF p = 0 THEN list
                         ELSE Append(list, Market(<<"base", nth>>, Tok(p - 2).text))
              /\ UNCHANGED <<pc, cur>>
  /\ UNCHANGED <<call, tokens, nth, first, sent>>

(* Mutant: the position is not advanced. *)
PoloniexMarketStays ==
  /\ pc = "markets" /\ pos # 0 /\ Is("markets", "poloniex")
  /\ LET p == NameOfNext("id")
     IN  IF p = Beyond THEN ReadsBeyond ELSE pos' = p /\ UNCHANGED <<pc, list, cur>>
  /\ UNCHANGED <<call, tokens, nth, first, sent>>

(* A name with no '_' in it is skipped, but the position is not advanced. *)
PoloniexMarket ==
  /\ pc = "markets" /\ pos # 0 /\ Is("markets", "poloniex")
  /\ LET p == NameOfNext("id")
         split == p # 0 /\ Tok(p - 2).text[1] # "unsplit"
     IN  IF p = Beyond THEN ReadsBeyond
         ELSE /\ pos' = IF split THEN p + 1 ELSE p
              /\ list' = IF split THEN Append(list, Market(Tok(p - 2).text, Tok(p - 2).text))
                         ELSE list
              /\ UNCHANGED <<pc, cur>>
  /\ UNCHANGED <<call, tokens, nth, first, sent>>

-----------------------------------------------------------------------------
(* Balances: keys that are looked for one behind the value of the other;    *)
(* without one of them there is no balance.                                 *)

BehindKey(at, t) ==
  LET p == IF at < 0 THEN at ELSE FindToken(at, t)
  IN  IF p < 0 THEN p ELSE IF Parsed(p + 1) THEN p + 1 ELSE Beyond

Balance(balance, available, pending) ==
  [currency |-> call.currency, balance |-> balance, available |-> available, pending |-> pending]

EndBalance(last, balance) ==
  /\ list' = IF last < 0 THEN <<>> ELSE <<balance>>
  /\ pc' = IF last = Beyond THEN "fault" ELSE "return"
  /\ UNCHANGED <<call, tokens, nth, pos, cur, first, sent>>

(* bittrex_parse_balance takes the currency from the answer. *)
BittrexBalance ==
  /\ pc = "start" /\ Is("balance", "bittrex")
  /\ \E c \in {BehindKey(0, Key("Currency"))} :
     \E b \in {BehindKey(c, Key("Balance"))} :
     \E a \in {BehindKey(b, Key("Available"))} :
     \E p \in {BehindKey(a, Key("Pending"))} :
       EndBalance(p, [currency  |-> Tok(c).text[1],  balance |-> Tok(b).text,
                      available |-> Tok(a).text, pending |-> Tok(p).text])

(* Mutant: one of the keys is looked for from the beginning. *)
PoloniexBalanceFromStart ==
  /\ pc = "start" /\ Is("balance", "poloniex")
  /\ \E c \in {FindToken(0, Key(call.currency))} :
     \E a \in {BehindKey(c, Key("available"))} :
     \E p \in {IF a = -1 THEN -1 ELSE BehindKey(0, Key("onOrders"))} :
     \E b \in {BehindKey(p, Key("btcValue"))} :
       EndBalance(b, Balance(Tok(b).text, Tok(a).text, Tok(p).text))

(* poloniex_parse_balance goes to the currency first. *)
PoloniexBalance ==
  /\ pc = "start" /\ Is("balance", "poloniex")
  /\ \E c \in {FindToken(0, Key(call.currency))} :
     \E a \in {BehindKey(c, Key("available"))} :
     \E p \in {BehindKey(a, Key("onOrders"))} :
     \E b \in {BehindKey(p, Key("btcValue"))} :
       EndBalance(b, Balance(Tok(b).text, Tok(a).text, Tok(p).text))

(* btc38_parse_balance makes the keys of the first three letters, whatever  *)
(* follows them, and subtracts.                                             *)
Btc38Balance ==
  /\ pc = "start" /\ Is("balance", "btc38")
  /\ \E b \in {BehindKey(0, Btc38Key(Cut[call.currency], "_balance"))} :
     \E p \in {BehindKey(b, Btc38Key(Cut[call.currency], "_balance_lock"))} :
       EndBalance(p, Balance(Tok(b).text, <<Tok(b).text, "less", Tok(p).text>>, Tok(p).text))

-----------------------------------------------------------------------------
(* Order books: one side makes the entries, the other fills them in. *)

QuantityAt == ValueAfter(pos, "Quantity", "primitive")
RateAt     == ValueAfter(QuantityAt, "Rate", "primitive")

NoLevel == <<>>
Level(i, j) == <<Tok(i).text, Tok(j).text>>
Bid(l) == [bid |-> l, ask |-> NoLevel]
Ask(l) == [bid |-> NoLevel, ask |-> l]

(* current and last: the entry at cur, or a new one at the end. *)
FillAsk(l) == IF cur <= Len(list) THEN [list EXCEPT ![cur].ask = l] ELSE Append(list, Ask(l))
FillBid(l) == IF cur <= Len(list) THEN [list EXCEPT ![cur].bid = l] ELSE Append(list, Bid(l))

(* The comparisons with 0 are the code's: a missing key is at -1. *)
SellPos ==
  IF call.vendor = "bittrex" THEN Find(Value(0, "success", "primitive"), "sell")
  ELSE IF Find(0, "asks") = 0 THEN tokNo ELSE Find(0, "asks")
BidPos == Find(0, "bids")

StartBook ==
  /\ pc = "start" /\ call.op = "books"
  /\ CASE call.vendor = "btc38"    -> pos' = BidPos + 3 /\ pc' = "making"
       [] call.vendor = "poloniex" -> pos' = SellPos + 3 /\ pc' = IF BidPos = 0 THEN "parsed" ELSE "making"
       [] call.vendor = "bittrex"  ->
            LET s == Value(0, "success", "primitive")
            IN  IF s = Beyond THEN pc' = "fault" /\ pos' = pos
                ELSE /\ pos' = s
                     /\ pc' = IF s # 0 /\ Tok(s) = Bool(TRUE) THEN "making" ELSE "parsed"
  /\ UNCHANGED <<call, tokens, nth, list, cur, first, sent>>

(* Where the side that makes the entries ends. *)
Boundary == IF call.vendor = "poloniex" THEN BidPos ELSE SellPos

EndMaking ==
  /\ pc = "making" /\ (pos = 0 \/ pos >= Boundary)
  /\ pc' = "filling"
  /\ pos' = CASE call.vendor = "btc38"    -> SellPos + 3
              [] call.vendor = "poloniex" -> BidPos + 3
              [] call.vendor = "bittrex"  -> SellPos
  /\ UNCHANGED <<call, tokens, nth, list, cur, first, sent>>

(* Mutant: the array token between two levels is not skipped. *)
MakePairPosOne ==
  /\ pc = "making" /\ pos # 0 /\ pos < Boundary /\ call.vendor # "bittrex"
  /\ \/ /\ ~(Parsed(pos) /\ Parsed(pos + 1))
        /\ ReadsBeyond
     \/ /\ Parsed(pos) /\ Parsed(pos + 1)
        /\ LET l == Level(pos, pos + 1)
           IN  IF pos + 2 < Boundary
               THEN /\ list' = Append(list, IF call.vendor = "btc38" THEN Bid(l) ELSE Ask(l))
                    /\ pos' = pos + 2
               ELSE pos' = 0 /\ UNCHANGED list
        /\ UNCHANGED <<pc, cur>>
  /\ UNCHANGED <<call, tokens, nth, first, sent>>

(* The first loop of btc38 and poloniex: a level is added when the next     *)
(* level, not this one, begins before the boundary.                         *)
MakePair ==
  /\ pc = "making" /\ pos # 0 /\ pos < Boundary /\ call.vendor # "bittrex"
  /\ \/ /\ ~(Parsed(pos) /\ Parsed(pos + 1))
        /\ ReadsBeyond
     \/ /\ Parsed(pos) /\ Parsed(pos + 1)
        /\ LET l == Level(pos, pos + 1)
           IN  IF pos + 3 < Boundary
               THEN /\ list' = Append(list, IF call.vendor = "btc38" THEN Bid(l) ELSE Ask(l))
                    /\ pos' = pos + 3
               ELSE pos' = 0 /\ UNCHANGED list
        /\ UNCHANGED <<pc, cur>>
  /\ UNCHANGED <<call, tokens, nth, first, sent>>

(* The first loop of bittrex. *)
MakeEntry ==
  /\ pc = "making" /\ pos # 0 /\ pos < Boundary /\ call.vendor = "bittrex"
  /\ \/ RateAt = Beyond /\ ReadsBeyond
     \/ /\ RateAt # Beyond
        /\ pos' = RateAt
        /\ list' = IF RateAt # 0 /\ RateAt < Boundary
                   THEN Append(list, Bid(Level(QuantityAt, RateAt))) ELSE list
        /\ UNCHANGED <<pc, cur>>
  /\ UNCHANGED <<call, tokens, nth, first, sent>>

(* The asks of btc38: nothing keeps the walk from the tokens beyond the last. *)
FillBtc38 ==
  /\ pc = "filling" /\ pos # 0 /\ call.vendor = "btc38"
  /\ \/ /\ ~(Parsed(pos) /\ Parsed(pos + 1))
        /\ ReadsBeyond
     \/ /\ IF pos + 3 > tokNo
           THEN pos' = 0 /\ UNCHANGED <<list, cur>>
           ELSE pos' = pos + 3 /\ list' = FillAsk(Level(pos, pos + 1)) /\ cur' = cur + 1
        /\ UNCHANGED pc
  /\ UNCHANGED <<call, tokens, nth, first, sent>>

(* The bids of poloniex. *)
FillPoloniex ==
  /\ pc = "filling" /\ pos # 0 /\ pos < tokNo /\ call.vendor = "poloniex"
  /\ IF pos + 3 >= tokNo
     THEN pos' = 0 /\ UNCHANGED <<list, cur>>
     ELSE pos' = pos + 3 /\ list' = FillBid(Level(pos, pos + 1)) /\ cur' = cur + 1
  /\ UNCHANGED <<call, tokens, nth, pc, first, sent>>

(* Mutant: current is advanced twice. *)
FillEntryTwice ==
  /\ pc = "filling" /\ pos # 0 /\ call.vendor = "bittrex"
  /\ \/ RateAt = Beyond /\ ReadsBeyond
     \/ /\ RateAt # Beyond
        /\ pos' = RateAt
        /\ IF RateAt = 0 THEN UNCHANGED <<list, cur>>
           ELSE list' = FillAsk(Level(QuantityAt, RateAt)) /\ cur' = cur + 2
        /\ UNCHANGED pc
  /\ UNCHANGED <<call, tokens, nth, first, sent>>

(* The asks of bittrex. *)
FillEntry ==
  /\ pc = "filling" /\ pos # 0 /\ call.vendor = "bittrex"
  /\ \/ RateAt = Beyond /\ ReadsBeyond
     \/ /\ RateAt # Beyond
        /\ pos' = RateAt
        /\ IF RateAt = 0 THEN UNCHANGED <<list, cur>>
           ELSE list' = FillAsk(Level(QuantityAt, RateAt)) /\ cur' = cur + 1
        /\ UNCHANGED pc
  /\ UNCHANGED <<call, tokens, nth, first, sent>>

EndFilling ==
  /\ pc = "filling"
  /\ pos = 0 \/ (call.vendor = "poloniex" /\ pos >= tokNo)
  /\ pc' = "parsed"
  /\ UNCHANGED <<call, tokens, nth, pos, list, cur, first, sent>>

Next ==
  \/ Get \/ Merge
  \/ StartMarkets \/ BittrexMarket \/ Btc38Market \/ PoloniexMarket \/ EndMarkets
  \/ StartBook \/ MakePair \/ MakeEntry \/ EndMaking
  \/ FillBtc38 \/ FillPoloniex \/ FillEntry \/ EndFilling
  \/ BittrexBalance \/ PoloniexBalance \/ Btc38Balance

Spec == Init /\ [][Next]_vars /\ WF_vars(Next)

-----------------------------------------------------------------------------
(* Properties. *)

(* Every variable stays within its type. *)
TypeOK ==
  /\ call.op \in {"books", "markets", "balance"} /\ call.vendor \in Vendors
  /\ nth \in DOMAIN call.answers
  /\ pc \in {"get", "start", "markets", "making", "filling", "parsed", "return", "fault"}
  /\ pos \in -1 .. tokNo + 3
  /\ cur \in 1 .. Len(list) + 1
  /\ Len(sent) = IF pc = "get" THEN nth - 1 ELSE nth

(* The book that books_get returns is aligned: its k-th entry holds the k-th *)
(* bid and the k-th ask of the exchange, whichever side is longer, and no    *)
(* level is missing but the deepest one: btc38 drops the last of each side,  *)
(* poloniex the last ask, bittrex none.  Nothing is said of other documents: *)
(* where a key is missing, levels are made of whatever stands there.         *)
ButLast(n) == IF n = 0 THEN 0 ELSE n - 1
BidsKept(d) == IF call.vendor = "btc38" THEN ButLast(d.bids) ELSE d.bids
AsksKept(d) == IF call.vendor = "bittrex" THEN d.asks ELSE ButLast(d.asks)

LevelOf(side, k, kept) == IF k > kept THEN NoLevel ELSE <<<<side, k, 1>>, <<side, k, 2>>>>

Aligned(bids, asks) ==
  [k \in 1 .. IF bids > asks THEN bids ELSE asks |->
     [bid |-> LevelOf("bid", k, bids), ask |-> LevelOf("ask", k, asks)]]

(* Every document has the shape of what the exchange sends. *)
Usual == \A n \in DOMAIN call.answers : call.answers[n].kind # "other"

BookAligned ==
  pc = "return" /\ call.op = "books" /\ Usual =>
    list = Aligned(BidsKept(Doc), AsksKept(Doc))

(* markets_get returns the active markets of the exchange, each with the two *)
(* currencies of one and the same market, in order; of btc38 those of both   *)
(* downloads, or of the first when the second failed; and of bittrex those   *)
(* before the first market with a null currency.                             *)
Named(n, k) ==
  CASE call.vendor = "btc38"    -> Market(<<"base", n>>, <<"active", k>>)
    [] call.vendor = "poloniex" -> Market(<<"active", k>>, <<"active", k>>)
    [] call.vendor = "bittrex"  -> Market(<<"base", k>>, <<"market", k>>)

Active(items, k) == items[k] = "active" /\ \A j \in 1 .. k : items[j] # "null"

(* What the first k markets of document n contribute. *)
Listing(n) ==
  LET items == call.answers[n].items
      f[k \in 0 .. Len(items)] ==
        IF k = 0 THEN <<>>
        ELSE IF Active(items, k) THEN Append(f[k - 1], Named(n, k)) ELSE f[k - 1]
  IN  f
Listed(n) == Listing(n)[Len(call.answers[n].items)]

MarketsListed ==
  pc = "return" /\ call.op = "markets" /\ Usual =>
    list = IF call.answers[1].kind = "failed" THEN <<>>
           ELSE IF Len(call.answers) = 1 THEN Listed(1) ELSE Listed(1) \o Listed(2)

(* What the account of the document holds of currency c, as a list. *)
Number(c, what) == Held(c, what).text
Holding(c) ==
  IF Doc.kind # "balances" \/ (call.vendor # "bittrex"
       /\ \A k \in DOMAIN Doc.items : Doc.items[k] # c)
  THEN <<>>
  ELSE <<CASE call.vendor = "bittrex"  ->
                Balance(Number(c, "Balance"), Number(c, "Available"), Number(c, "Pending"))
           [] call.vendor = "poloniex" ->
                Balance(Number(c, "btcValue"), Number(c, "available"), Number(c, "onOrders"))
           [] call.vendor = "btc38"    ->
                Balance(Number(c, "balance"),
                        <<Number(c, "balance"), "less", Number(c, "lock")>>, Number(c, "lock"))>>

(* balance returns what the account holds of the currency that was asked    *)
(* for, all of it from that currency's part of the document wherever it     *)
(* stands, and NULL when the account does not have it; of btc38 this is so  *)
(* only for a currency whose name has three letters.                        *)
BalanceOfCurrency ==
  /\ pc = "return" /\ call.op = "balance" /\ Usual
  /\ call.vendor = "btc38" => Cut[call.currency] = call.currency
  => list = Holding(call.currency)

(* What an exchange checks of a request for a balance: that it tells the    *)
(* time, and that its signature was made with the secret, of the very url,  *)
(* parameters or time that have arrived.                                    *)
Carries(fields, name, value) == \E i \in DOMAIN fields : fields[i] = <<name, value>>

Authentic(r) ==
  CASE call.vendor = "bittrex"  ->
         /\ \E i \in DOMAIN r.url : r.url[i] = "nonce"
         /\ Carries(r.headers, "apisign", Sign("bittrex", r.url))
    [] call.vendor = "poloniex" ->
         /\ r.method = "POST" /\ Carries(r.body, "nonce", "now")
         /\ Carries(r.headers, "Key", "apikey")
         /\ Carries(r.headers, "Sign", Sign("poloniex", r.body))
    [] call.vendor = "btc38"    ->
         /\ r.method = "POST" /\ Carries(r.body, "key", "apikey")
         /\ Carries(r.body, "time", "now")
         /\ Carries(r.body, "md5", <<"apikey", "userid", "apisecret", "now">>)

RequestsAuthentic == call.op = "balance" => \A i \in DOMAIN sent : Authentic(sent[i])

(* The keys that the parsers look for. *)
Sought ==
  {Key(k) : k \in {"success", "MarketCurrency", "BaseCurrency", "MinTradeSize", "MarketName",
                   "IsActive", "Quantity", "Rate", "Currency", "Balance", "Available",
                   "Pending", "available", "onOrders", "btcValue"}}
    \cup {Btc38Key(c, what) : c \in {Cut[d] : d \in Currencies},
                              what \in {"_balance", "_balance_lock"}}

(* Where memory does not run out, undefined behaviour has these causes only, *)
(* whatever a document holds: a download that failed and was not looked at,  *)
(* or that returned 0 although it set no result or an empty one; a first     *)
(* document of btc38 that lists no market; an order book of btc38 with no    *)
(* "asks" or anything but whole levels behind it.  The exchanges send none   *)
(* of the rest: a book of bittrex without "sell", a list of markets that     *)
(* begins with the key behind a name, a key that nothing follows.            *)
FaultsKnown ==
  pc = "fault" =>
    \/ Doc.kind = "failed" /\ ~Checked
    \/ Doc.kind \in {"unset", "empty"}
    \/ /\ Is("markets", "btc38") /\ nth = 2
       /\ first = <<>> /\ call.answers[1].items = <<>>
    \/ Is("books", "btc38") /\ ~\E a \in 1 .. tokNo : tokNo = SellPos + 2 + 3 * a
    \/ /\ Doc.kind = "other"
       /\ \/ Is("books", "bittrex") /\ SellPos = -1
          \/ call.op = "markets" /\ tokNo > 1 /\ Tok(1) \in {Key("ticker"), Key("id")}
          \/ tokNo > 0 /\ Tok(tokNo - 1) \in Sought

(***************************************************************************)
(* Why: how far a call has come shows in the numbers of the tokens.        *)
(***************************************************************************)
(* Each document is asked for once, and walked only when it has tokens. *)
Handled ==
  /\ call \in Calls /\ IsSeq(list) /\ IsSeq(first)
  /\ IsSeq(tokens) /\ (pc # "get" => tokens = TokensOf(Doc))
  /\ IsSeq(sent) /\ \A i \in DOMAIN sent : sent[i] = ItsRequest

(* What belongs to one kind of call is not touched by the others. *)
Kinds ==
  /\ nth = 2 => Is("markets", "btc38")
  /\ nth = 1 => first = <<>>
  /\ pc \in {"get", "start"} => list = <<>> /\ pos = 0 /\ cur = 1
  /\ pc \in {"start", "markets", "making", "filling"} =>
       Doc.kind \in {"book", "markets", "balances", "error", "other"}
  /\ pc = "markets" => call.op = "markets"
  /\ pc \in {"making", "filling"} => call.op = "books"
  /\ call.op # "books" => cur = 1

(* btc38 has listed a market of each document that has one. *)
MarketsFound ==
  Is("markets", "btc38") =>
    /\ nth = 2 /\ call.answers[1].items # <<>> => first # <<>>
    /\ pc = "markets" /\ Doc.items # <<>> => list # <<>> \/ pos = 1
    /\ pc = "parsed" => pos = 0 /\ (Doc.items # <<>> => list # <<>>)

(* The first loop of a book has made n entries; the second one has filled    *)
(* in f of them.  An error is no book: both loops are left at once.          *)
Walked(n, f, b, a) ==
  /\ Is("books", "btc38") =>
       /\ pc = "making"  => /\ n <= ButLast(b) /\ list = Aligned(n, 0)
                            /\ pos = 4 + 3 * n \/ (pos = 0 /\ n = ButLast(b))
       /\ pc = "filling" => /\ f <= ButLast(a) /\ list = Aligned(ButLast(b), f)
                            /\ pos = 6 + 3 * (b + f) \/ (pos = 0 /\ f = ButLast(a))
  /\ Is("books", "poloniex") =>
       /\ pc = "making"  => /\ n <= ButLast(a) /\ list = Aligned(0, n)
                            /\ pos = 4 + 3 * n \/ (pos = 0 /\ n = ButLast(a))
       /\ pc = "filling" => /\ f <= b /\ list = Aligned(f, ButLast(a))
                            /\ pos = 6 + 3 * (a + f) \/ (pos = 0 /\ f = b)
  /\ Is("books", "bittrex") =>
       /\ pc = "making"  => /\ n <= b /\ list = Aligned(n, 0)
                            /\ \/ pos = IF n = 0 THEN 2 ELSE 8 + 5 * n
                               \/ n = b /\ pos \in {0, 15 + 5 * b}
       /\ pc = "filling" => /\ f <= a /\ list = Aligned(b, f)
                            /\ \/ pos = IF f = 0 THEN 9 + 5 * b ELSE 10 + 5 * (b + f)
                               \/ pos = 0 /\ f = a

BookWalked ==
  call.op = "books" /\ Doc.kind # "other" =>
    /\ pc \in {"making", "filling"} =>
         IF Doc.kind = "book" THEN Walked(Len(list), cur - 1, Doc.bids, Doc.asks)
         ELSE list = <<>> /\ cur = 1 /\ pos \in {0, 2} /\ call.vendor # "bittrex"
    /\ pc \in {"parsed", "return"} => list = Aligned(BidsKept(Doc), AsksKept(Doc))
    /\ pc = "parsed" \/ pc = "return" => cur <= Len(list) + 1

(* What holds of the walk over any document: it stands before the tokens    *)
(* only where a book of bittrex has no "sell", and the second loop of btc38  *)
(* goes on from there by whole levels.                                       *)
Stands ==
  /\ pos = -1 => Is("books", "bittrex") /\ SellPos = -1 /\ Doc.kind = "other"
                   /\ pc \in {"filling", "fault"}
  /\ pc = "making" => cur = 1 /\ (call.vendor = "bittrex" => SellPos # Beyond)
  /\ pc = "filling" /\ Is("books", "btc38") /\ pos # 0 =>
       pos = SellPos + 3 * cur /\ (cur = 1 \/ pos <= tokNo)

BookInv ==
  TypeOK /\ Handled /\ Kinds /\ MarketsFound /\ Stands /\ BookWalked /\ FaultsKnown

(* Where the walk over a market list stands behind the n-th market; that of *)
(* poloniex stays at the key of a market that has no '_' in its name.       *)
Past(n) ==
  CASE call.vendor = "btc38"    -> IF n = 0 THEN 1 ELSE 6 * n - 2
    [] call.vendor = "poloniex" -> IF n = 0 THEN 1 ELSE 4 * n
    [] call.vendor = "bittrex"  -> IF n = 0 THEN 2 ELSE 11 * n + 6

Behind(n) ==
  /\ list = Listing(nth)[n] /\ \A k \in 1 .. n : Doc.items[k] # "null"
  /\ \/ pos = Past(n)
     \/ /\ call.vendor = "poloniex" /\ pos = 4 * n + 3
        /\ n < Len(Doc.items) /\ Doc.items[n + 1] = "unsplit"

MarketsWalked ==
  call.op = "markets" =>
    /\ nth = 2 => call.answers[1].kind # "failed"
                    /\ (call.answers[1].kind # "other" => first = Listed(1))
    /\ pc = "markets" /\ Doc.kind # "other" =>
         \/ pos = 0 /\ list = Listed(nth)
         \/ \E n \in 0 .. Len(Doc.items) : Behind(n)
    /\ pc = "parsed" => Doc.kind # "failed" /\ (Doc.kind # "other" => list = Listed(nth))

BalanceRead ==
  call.op = "balance" /\ pc = "parsed" => list = <<>> /\ Doc.kind # "balances"

(* btc38 answers for the currency that the first three letters name. *)
Asked == IF call.vendor = "btc38" THEN Cut[call.currency] ELSE call.currency
BalanceOfLetters ==
  pc = "return" /\ call.op = "balance" /\ Usual => list = Holding(Asked)

IndInv == BookInv /\ MarketsWalked /\ MarketsListed /\ BalanceRead /\ BalanceOfLetters

(* Every call ends: each of the loops, which are left by setting start_pos  *)
(* to 0, is left, whatever a document holds, unless poloniex lists a ticker  *)
(* that has no '_' in it.                                                    *)
Splits(d) == \A i \in DOMAIN TokensOf(d) : TokensOf(d)[i].text[1] # "unsplit"

CallEnds ==
  (\A n \in DOMAIN call.answers : Splits(call.answers[n])) ~> pc \in {"return", "fault"}
=============================================================================
