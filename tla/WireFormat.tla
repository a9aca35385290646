----------------------------- MODULE WireFormat -----------------------------
(***************************************************************************)
(* An answer on its way: get_trading_pairs (main.c) encodes the list of    *)
(* trading pairs (market.c) and the connection thread writes it; TCP hands *)
(* the bytes over in pieces of any size; the CGI client (cgi_client.c)     *)
(* reads once, decodes what it has and prints it.                          *)
(*                                                                         *)
(* A byte is what it stands for: the number of a field, a length, a letter *)
(* of a name, half of the fee.  Numbers of fields and lengths take one     *)
(* byte (a record is shorter than 128 bytes), the fee, 700, takes two.  Of *)
(* the protobuf library the model keeps that a field can be decoded when   *)
(* all of its bytes are there.                                             *)
(***************************************************************************)
EXTENDS Integers, Sequences

CONSTANTS
  Lists,   \* the lists asked for: sequences of records [base, market], the
           \* lengths of the two names of a trading pair
  Cap      \* the size of the client's buffer, 5000 in the code

ASSUME ListsAssumption == Lists \subseteq Seq([base : Nat, market : Nat])
ASSUME CapAssumption   == Cap \in Nat \ {0}

VARIABLES
  markets,  \* the list of trading pairs
  server,   \* where the connection thread is
  current,  \* the number of the market to encode next
  room,     \* market_protobuf_len, the bytes reserved for the answer
  sent,     \* the bytes encoded so far, and then those written
  line,     \* "open", "closed" or "reset"
  arrived,  \* how many of them the client's host has
  client,   \* where the client is
  buffer,   \* what the client read
  pos,      \* pos in market_list_protobuf_decode
  record,   \* the market_buffer being decoded
  rpos,     \* pos in market_protobuf_decode
  pair,     \* this_market, the fields decoded so far
  output    \* the list decoded so far, and then the one printed

wireVars   == <<markets, line, arrived>>
serverVars == <<server, current, room, sent>>
clientVars == <<client, buffer, pos, record, rpos, pair, output>>
vars       == <<wireVars, serverVars, clientVars>>

-----------------------------------------------------------------------------
(* Encoding. *)

Field(n)       == <<"field", n>>
Length(n)      == <<"length", n>>
Letter(k, f, i) == <<"letter", k, f, i>>

Name(k, f, len) == <<Field(f), Length(len)>> \o [i \in 1 .. len |-> Letter(k, f, i)]

(* market_protobuf_encode: the k-th market of the list. *)
Record(k) ==
  Name(k, 1, markets[k].base) \o Name(k, 2, markets[k].market)
    \o <<Field(3), <<"fee", k, 1>>, <<"fee", k, 2>>>>

Delimited(k) == <<Field(1), Length(Len(Record(k)))>> \o Record(k)

(* market_protobuf_encode_size: 11 bytes for each field's number and length. *)
MarketSize(m) == m.base + 11 + m.market + 11 + 11

SizeOfFirst[k \in 0 .. Len(markets)] ==
  IF k = 0 THEN 0 ELSE SizeOfFirst[k - 1] + MarketSize(markets[k]) + 11

(* Mutant: the list is not traversed. *)
ListSizeOfHead == SizeOfFirst[1]

(* market_list_protobuf_encode_size *)
ListSize == SizeOfFirst[Len(markets)]

NoResults == [i \in 1 .. 10 |-> Letter(0, 0, i)]

Init ==
  /\ markets \in Lists
  /\ server = "size" /\ current = 1 /\ room = 0 /\ sent = <<>>
  /\ line = "open" /\ arrived = 0
  /\ client = "read" /\ buffer = <<>> /\ pos = 0
  /\ record = <<>> /\ rpos = 0 /\ pair = <<>> /\ output = <<>>

(* get_trading_pairs up to the encoding.  Without a list, or without memory, *)
(* there is no answer, and do_connect writes "No Results".                   *)
Reserve ==
  /\ server = "size"
  /\ \/ markets # <<>> /\ server' = "encode" /\ room' = ListSize /\ UNCHANGED sent
     \/ server' = "written" /\ sent' = NoResults /\ UNCHANGED room
  /\ UNCHANGED <<wireVars, current, clientVars>>

(* market_list_protobuf_encode.  When what is left of a buffer is too small *)
(* the encoding stops, which get_trading_pairs does not look at: what there *)
(* is is sent.                                                              *)
Encode ==
  /\ server = "encode"
  /\ IF /\ current <= Len(markets)
        /\ Len(Record(current)) <= MarketSize(markets[current])
        /\ Len(sent) + Len(Delimited(current)) <= room
     THEN sent' = sent \o Delimited(current) /\ current' = current + 1 /\ UNCHANGED server
     ELSE server' = "write" /\ UNCHANGED <<sent, current>>
  /\ UNCHANGED <<wireVars, room, clientVars>>

(* The write of do_connect, and "No Results" for an answer without a byte. *)
Write ==
  /\ server = "write"
  /\ sent' = IF sent = <<>> THEN NoResults ELSE sent
  /\ server' = "written"
  /\ UNCHANGED <<wireVars, current, room, clientVars>>

(* TCP: any number of bytes arrives; after the last one the end does. *)
Deliver ==
  /\ line = "open" /\ server = "written"
  /\ \/ \E n \in arrived + 1 .. Len(sent) : arrived' = n /\ UNCHANGED line
     \/ arrived = Len(sent) /\ line' = "closed" /\ UNCHANGED arrived
  /\ UNCHANGED <<markets, serverVars, clientVars>>

Reset ==
  /\ line = "open"
  /\ line' = "reset" /\ arrived' = 0
  /\ UNCHANGED <<markets, serverVars, clientVars>>

-----------------------------------------------------------------------------
(* The client. *)

AtMost(a, b) == IF a <= b THEN a ELSE b

(* Mutant: everything that arrived is read. *)
ReadEverything ==
  /\ client = "read"
  /\ \/ /\ arrived > 0 \/ line = "closed"
        /\ buffer' = SubSeq(sent, 1, arrived)
        /\ client' = "list"
     \/ line = "reset" /\ client' = "fault" /\ UNCHANGED buffer
  /\ UNCHANGED <<wireVars, serverVars, pos, record, rpos, pair, output>>

(* main of cgi_client.c reads once.  The -1 of a read that fails is stored in *)
(* a size_t: it passes the test n < 0 and is the length of the decoder's      *)
(* buffer, which it reads beyond.                                             *)
Read ==
  /\ client = "read"
  /\ \/ /\ arrived > 0 \/ line = "closed"
        /\ buffer' = SubSeq(sent, 1, AtMost(arrived, Cap))
        /\ client' = "list"
     \/ line = "reset" /\ client' = "fault" /\ UNCHANGED buffer
  /\ UNCHANGED <<wireVars, serverVars, pos, record, rpos, pair, output>>

(* A list, or a market, that cannot be decoded is thrown away as a whole. *)
Fail ==
  /\ client' = "printed" /\ output' = <<>>
  /\ UNCHANGED <<pos, record, rpos, pair>>

Whole(bytes, at) ==
  /\ at + 2 <= Len(bytes)
  /\ at + 2 + bytes[at + 2][2] <= Len(bytes)

(* protobuf_decode_length_delimited at the field whose number is at at. *)
Body(bytes, at) == SubSeq(bytes, at + 3, at + 2 + bytes[at + 2][2])

(* Mutant: a record that is not whole ends the list, which is then printed. *)
ListFieldOrEnd ==
  /\ client = "list"
  /\ IF pos >= Len(buffer) \/ (buffer[pos + 1] = Field(1) /\ ~Whole(buffer, pos))
     THEN client' = "printed" /\ UNCHANGED <<pos, record, rpos, pair, output>>
     ELSE IF buffer[pos + 1] # Field(1)
     THEN pos' = pos + 2 /\ UNCHANGED <<client, record, rpos, pair, output>>
     ELSE /\ record' = Body(buffer, pos) /\ rpos' = 0
          /\ pair' = <<>> /\ client' = "market"
          /\ UNCHANGED <<pos, output>>
  /\ UNCHANGED <<wireVars, serverVars, buffer>>

(* Mutant: an unknown field is not skipped. *)
ListFieldStays ==
  /\ client = "list"
  /\ CASE pos >= Len(buffer) ->
            client' = "printed" /\ UNCHANGED <<pos, record, rpos, pair, output>>
       [] pos < Len(buffer) /\ buffer[pos + 1] # Field(1) ->
            UNCHANGED <<client, pos, record, rpos, pair, output>>
       [] pos < Len(buffer) /\ buffer[pos + 1] = Field(1) ->
            IF ~Whole(buffer, pos) THEN Fail
            ELSE /\ record' = Body(buffer, pos) /\ rpos' = 0
                 /\ pair' = <<>> /\ client' = "market"
                 /\ UNCHANGED <<pos, output>>
  /\ UNCHANGED <<wireVars, serverVars, buffer>>

(* market_list_protobuf_decode: bytes_read is added a second time behind a *)
(* field that is not a market.                                             *)
ListField ==
  /\ client = "list"
  /\ CASE pos >= Len(buffer) ->
            client' = "printed" /\ UNCHANGED <<pos, record, rpos, pair, output>>
       [] pos < Len(buffer) /\ buffer[pos + 1] # Field(1) ->
            pos' = pos + 2 /\ UNCHANGED <<client, record, rpos, pair, output>>
       [] pos < Len(buffer) /\ buffer[pos + 1] = Field(1) ->
            IF ~Whole(buffer, pos) THEN Fail
            ELSE /\ record' = Body(buffer, pos) /\ rpos' = 0
                 /\ pair' = <<>> /\ client' = "market"
                 /\ UNCHANGED <<pos, output>>
  /\ UNCHANGED <<wireVars, serverVars, buffer>>

(* The number of bytes of the field at rpos: the fee's, or those of a name. *)
FieldSize == IF record[rpos + 1] = Field(3) THEN 3 ELSE 2 + record[rpos + 2][2]

(* market_protobuf_decode, whose record is whole. *)
MarketField ==
  /\ client = "market" /\ rpos < Len(record)
  /\ rpos' = rpos + FieldSize
  /\ pair' = Append(pair, SubSeq(record, rpos + 1, rpos + FieldSize))
  /\ UNCHANGED <<wireVars, serverVars, client, buffer, pos, record, output>>

(* The market is appended to the list. *)
MarketDone ==
  /\ client = "market" /\ rpos >= Len(record)
  /\ output' = Append(output, pair)
  /\ pos' = pos + 2 + Len(record)
  /\ client' = "list"
  /\ UNCHANGED <<wireVars, serverVars, buffer, record, rpos, pair>>

Server == Reserve \/ Encode \/ Write
Client == Read \/ ListField \/ MarketField \/ MarketDone
Next   == Server \/ Deliver \/ Reset \/ Client

(* The thread and the client run; TCP delivers what is written. *)
Spec == Init /\ [][Next]_vars /\ WF_vars(Server) /\ WF_vars(Deliver) /\ WF_vars(Client)

-----------------------------------------------------------------------------
(* Properties. *)

(* Every variable stays within its type: the client reads no more than its *)
(* buffer holds, and neither decoder walks off what it was given.           *)
TypeOK ==
  /\ server \in {"size", "encode", "write", "written"}
  /\ current \in 1 .. Len(markets) + 1
  /\ line \in {"open", "closed", "reset"}
  /\ arrived \in 0 .. Len(sent)
  /\ client \in {"read", "list", "market", "printed", "fault"}
  /\ Len(buffer) <= Cap
  /\ pos \in 0 .. Len(buffer) + 1
  /\ rpos \in 0 .. Len(record)

(* The length of the first k markets on the wire. *)
LengthOfFirst[k \in 0 .. Len(markets)] ==
  IF k = 0 THEN 0 ELSE LengthOfFirst[k - 1] + Len(Delimited(k))

(* The buffer that market_list_protobuf_encode_size asks for always suffices: *)
(* the bridge sends the whole list or "No Results", never a part of the list, *)
(* although nobody looks at what market_list_protobuf_encode returns.         *)
AnswerWhole ==
  server = "written" => sent = NoResults \/ Len(sent) = LengthOfFirst[Len(markets)]

Pair(k) == <<Name(k, 1, markets[k].base), Name(k, 2, markets[k].market),
             <<Field(3), <<"fee", k, 1>>, <<"fee", k, 2>>>>>>

(* Of what TCP hands over at once, and the client's buffer holds, the client *)
(* prints all markets when it ends where a market ends, though more of them  *)
(* may follow, and none otherwise: never a damaged market, nor one taken     *)
(* from "No Results".                                                        *)
PrintsWholeMarkets ==
  client = "printed" =>
    IF sent # NoResults /\ \E k \in DOMAIN markets : LengthOfFirst[k] = Len(buffer)
    THEN \E k \in DOMAIN markets :
           LengthOfFirst[k] = Len(buffer) /\ output = [i \in 1 .. k |-> Pair(i)]
    ELSE output = <<>>

(***************************************************************************)
(* Why: whatever was encoded lies market behind market, and each decoder   *)
(* stands where a market, or a field of one, begins.                       *)
(***************************************************************************)
IsSeq(s) == s \in Seq({s[i] : i \in DOMAIN s})

(* sent holds the first n markets and nothing else. *)
Encoded(n) ==
  /\ Len(sent) = LengthOfFirst[n]
  /\ \A k \in 1 .. n : \A i \in 1 .. Len(Delimited(k)) :
       sent[LengthOfFirst[k - 1] + i] = Delimited(k)[i]

Sending ==
  /\ markets \in Lists /\ IsSeq(sent)
  /\ server = "size" => sent = <<>> /\ current = 1
  /\ server = "encode" => markets # <<>> /\ room = ListSize /\ Encoded(current - 1)
  /\ server = "write" => markets # <<>> /\ Encoded(Len(markets))
  /\ server = "written" => sent = NoResults \/ (markets # <<>> /\ Encoded(Len(markets)))
  /\ server # "written" => arrived = 0 /\ line # "closed"
  /\ line = "closed" => arrived = Len(sent)

(* What the client has read is where the answer begins. *)
Receiving ==
  /\ client = "read" =>
       buffer = <<>> /\ pos = 0 /\ record = <<>> /\ rpos = 0 /\ output = <<>>
  /\ client \in {"list", "market", "printed"} =>
       /\ server = "written" /\ Len(buffer) \in 1 .. Len(sent)
       /\ buffer = SubSeq(sent, 1, Len(buffer))

(* Where the first n fields of market k end. *)
FieldsEnd(k, n) ==
  CASE n = 0 -> 0
    [] n = 1 -> 2 + markets[k].base
    [] n = 2 -> 4 + markets[k].base + markets[k].market
    [] n = 3 -> 7 + markets[k].base + markets[k].market

Decoding ==
  LET n == Len(output)
  IN  /\ client \in {"list", "market"} =>
           IF sent = NoResults THEN client = "list" /\ output = <<>>
           ELSE /\ n \in 0 .. Len(markets) /\ output = [i \in 1 .. n |-> Pair(i)]
                /\ pos = LengthOfFirst[n] /\ pos <= Len(buffer)
      /\ client = "market" =>
           /\ n < Len(markets) /\ LengthOfFirst[n + 1] <= Len(buffer)
           /\ record = Record(n + 1)
           /\ Len(pair) \in 0 .. 3 /\ pair = SubSeq(Pair(n + 1), 1, Len(pair))
           /\ rpos = FieldsEnd(n + 1, Len(pair))

IndInv == TypeOK /\ Sending /\ Receiving /\ Decoding /\ PrintsWholeMarkets

(* The client prints something unless the connection is reset: it waits for *)
(* no more than the first bytes, and both decoders come to their ends.      *)
ClientPrints == client = "read" ~> client = "printed" \/ line = "reset"
=============================================================================
