# Verification of the bridge

TLA+ specifications of the bridge (a server that answers for the trading pairs
of several cryptocurrency exchanges), the TLC configurations that check them,
and theorems about every part that TLAPS checks: the market cache, the server,
the process that both make up, the websocket client, the vendors and the wire
format. Every definition is translated from the C source; `PROJECT.json` maps
each one to its lines.

## 1. The system

| part | source | state | operations | works with |
|---|---|---|---|---|
| TCP server | `main/main.c` | `run`, the main socket, one thread per connection, never joined nor detached, and its buffer | accept loop, `do_connect`, SIGTERM handler, `EXIT` | peers over TCP; calls the cache |
| market cache | `book/vendor.c` | per vendor `current_market`, `IsInitialized`, `running`; in the update thread `to_be_deleted`, `sTotal` | `vendor_update_loop`, `vendor_get_all_trading_pairs`, `vendors_with_market`, `vendor_free`, `vendor_list_free` | its pointers are shared by update threads, connection threads and the main thread, with no lock |
| vendors | `book/btc38.c`, `bittrex.c`, `poloniex.c`, `utils/json.c` | none between calls | `markets_get`, `books_get`, `balance` (and trading stubs) | downloads through `utils/https.c`; called by the update threads |
| wire format | `book/market.c` | none | encode and decode a list of markets | between server and client |
| CGI client | `client/cgi_client.c` | one buffer of 5000 bytes | one write, one read, decode, print | a peer of the server |
| websocket client | `utils/websocket.c` | `recv_buf`, `recv_size`, the wslay queue, the socket, the thread | `websocket_connect` with the HTTP handshake, `websocket_call`, `websocket_recv`, the service thread and its callbacks, `websocket_client_free` | service thread and caller share the buffer, with no lock |
| HTTPS client | `utils/https.c` | one connection record per call | headers, parameters, signature, GET and POST | libcurl; used by the vendors |
| JSON tokenizer, hash table, logging, base64, wslay | `utils/` | - | - | third party, or output only |
| mock vendor, tests, `test_client` | `book/mock.c`, `test/`, `client/` | - | - | read for what they expect |

What is hard here, and to test:

* **Concurrency without locks.** A replaced market list is freed while a
  connection thread may still walk it; only the time between the swap and the
  free protects the walk. `recv_size` is advanced by one thread and reduced by
  another, a load and a store each. `websocket_client_free` cancels a thread it
  does not wait for.
* **Shutdown.** `SIGTERM` and `EXIT` meet the main thread anywhere in its loop;
  the vendors are freed while connection threads still use them.
* **Limits.** Descriptors, threads that are never joined, a 64 kB request, a
  receive buffer of fixed size, a client buffer of 5000 bytes.
* **Late answers.** A websocket call that times out leaves its answer to the
  next one.
* **Failures.** A download without result, `malloc`, `read` and `write` whose
  errors are stored in unsigned variables, connections that are reset.
* **Boundaries.** TCP has no messages; order books are walked by token numbers
  that are compared with 0 where -1 means "not found".

What makes each part correct:

* cache: an answer consists of one whole listing of every vendor; nothing that
  was freed is read; no list is lost or freed twice; every call returns; markets
  are refreshed for ever; a shutdown ends;
* server: it stops when told to, and only then or for want of resources; it
  leaks no connection; it answers whole questions, and nothing else;
* vendors: every level of a book is kept and bids stay with bids; exactly the
  active markets are listed; a balance is that of the currency asked for (of btc38
  that of the currency which its first three letters name); what is signed is what
  is sent; no answer that the exchanges are known to send breaks the walk, but the
  few that section 3 lists;
* wire: what is printed is what was sent, or nothing; the encoder's estimate is
  enough;
* websocket: the handshake takes the header and nothing else from the socket; the
  buffer does not overflow, only received bytes are returned, every call returns,
  and a call returns the answer to its own request; nothing is used once freed.

## 2. The modules

| module | models | composed of |
|---|---|---|
| `TradingPairs` | the promise of `vendor_get_all_trading_pairs` and `vendors_with_market`: listings are adopted, or looked through, whole, in one step | |
| `MarketCache` | update threads, callers, `vendor_list_free`, the heap | implements `TradingPairs` |
| `MarketCacheProofs` | theorems about `MarketCache` | |
| `PromiseProofs` | that `MarketCache` implements `TradingPairs` | extends `MarketCacheProofs` |
| `Server` | main thread, connection threads, SIGTERM, peers | |
| `ServerProofs` | theorems about `Server` | |
| `Bridge` | the process | `Server` and `MarketCache`; implements `Server` |
| `BridgeProofs` | theorems about `Bridge` | takes the step lemmas of `ServerProofs` and `MarketCacheProofs` through `INSTANCE` |
| `WebSocket` | `websocket_call` and the service thread | |
| `WebSocketClient` | `websocket_connect`, the handshake and `websocket_client_free` | extends `WebSocket` |
| `WebSocketProofs` | theorems about `WebSocketClient` | |
| `Https` | requests, signatures and the ends of a transfer (no state) | |
| `VendorCalls` | the vendors' `markets_get`, `books_get` and `balance` | extends `Https` |
| `VendorProofs` | theorems about `VendorCalls`: order books, requests, faults | |
| `AnswerProofs` | theorems about `VendorCalls`: market lists and balances | extends `VendorProofs` |
| `WireFormat` | encoding, TCP, the CGI client | |
| `WireProofs` | theorems about `WireFormat` | |

Each `MC...` module gives TLC the constants a `.cfg` file cannot write down.

**MarketCache.** One action per step of a thread that another thread can see:
the free of the replaced list and the shift of the pointers (`Reclaim`), the
publication of a new list (`Publish`), the flag (`MarkInitialized`), each test
and each second of the sleeping loop; and for a caller the wait and the one load
of `current_market` (`Load`), each node visited (`Visit`), the step to the next
vendor. `vendors_with_market` is the other call: it passes over a vendor that is
not initialized (`Look`), compares node after node (`Compare`), and when the pair
is not there loads the pointer again to try the opposite one (`LookAgain`). A
list is one cell of the heap: its nodes are allocated together, never
change and are freed together. A read of a list that is no longer the vendor's
own, or of a vendor that was freed, is undefined behaviour: the reader goes to
`"fault"` (`Dangling`, `Fault`). A cell that was freed may be handed out again.
Time passes in ticks of a second. `MaxHold` bounds the ticks a walk over one
list takes: that is the assumption the code rests on ("keeping the old one
around for a bit"), made explicit.

**Server.** Bytes are counted, not stored: a request is a kind and a length.
Reads return any number of the bytes that have arrived, an error, or nothing.
`got` is the number of bytes in a thread's buffer. It is `buffer_length` but for
the -1 that `buffer_append` leaves there when `malloc` fails: the loop ends at
once, nobody reads that variable again, and the buffer keeps what it had
(`ReadNothing`). The -1 of a failed `read` is passed on as a length: as many bytes
are copied, which kills the process, unless `malloc` finds no memory for the new
buffer and the loop ends in the same way (`ReadError`). A buffer that was never
filled is compared uninitialized, so that `Dispatch` may take it for anything. A
write to a peer that has reset the connection may kill the process (SIGPIPE).
Linux prefers the main thread for a signal sent to the process, and `accept` fails
with EINTR; the handler stays installed, so that every SIGTERM that finds the main
thread in `accept` ends that call. One that arrives while no `accept` is blocked
only clears `run`.

**Bridge.** Each action is one of `Server`, one of `MarketCache`, or one of each:
the call of the query and its return, the call of `vendor_list_free` and its
return.

**WebSocket.** A byte is a pair of message and offset, so that properties can
tell whose bytes were returned. Each load, store and copy is a step. The service
thread goes round its loop: `epoll_wait`, the receipt of what has come, one
message after the other with the callback of each, the sending of what is
queued. It may end (`SvcEnd`), and nobody is told. `calm` is a history variable:
the calls that were made when nothing of an earlier one was left anywhere.

**WebSocketClient.** The life of one client around it. The answer to the upgrade
request is a sequence of units that reads cut anywhere; a message of the server
may follow at once. `websocket_client_free` meets the service thread anywhere: a
thread in a system call is cancelled there, any other goes on to its next one
with memory that is freed under it (`SvcUsesFreed`). Undefined behaviour sets
`fault`, and the model stops.

**VendorCalls.** A document is the sequence of its JSON tokens, at the positions
the code computes with; an array or object takes one token and its contents
follow. Each turn of each loop is an action. A download may fail, or yield no
JSON, an error object, data in the exchange's shape, or any other document that
the constant `Others` lists. `FindToken` begins at whatever position it is given,
as `json_find_token` does. Reading what is none of the document's tokens is
a fault (`Beyond`, `ReadsBeyond`): what lies before the
first, where the walk over the asks of a bittrex book without "sell" begins, or
behind the last. So are an uninitialized `results` and the null list of the
merge. A request is a
record of its method, url, headers and body, built by the operators of `Https` in
the order of the code (`sent`); a signature is a term that names what it signs.
No currency has the name of a key that the balance parsers look for
(`CurrenciesAssumption`): they compare strings, not places, and would take the
one for the other. It is an assumption about the exchanges, whose currencies have
names like "BTC".

**WireFormat.** A byte is what it stands for, and the length of a record takes
one byte, as protobuf encodes it up to 127. Any cut of the stream can be what the
client's single `read` returns.

## 3. The runs

| run | question | bounds |
|---|---|---|
| `cache_promise` | does the cache implement `TradingPairs`, with its liveness, and is the invariant of its refinement proof true? | 2 vendors, 1 caller that asks for all pairs or searches for one, 2 pairs, each the opposite of the other, 2 listings, 4 cells, refresh every second, walks that end within it, downloads may fail |
| `cache_shutdown` | safety and the liveness of cache and shutdown | the same with one listing, refresh every 2 s, walks of up to 1 s, and the shutdown at any moment |
| `cache_dealloc` | (violation) does `vendor_list_free` deallocate everything? | 2 vendors, 1 listing |
| `server_requests` | safety of the server | 2 peers, 1 descriptor, 1 thread, every kind of request, resets, failing `malloc` |
| `server_stops` | do EXIT, SIGTERM and whole requests have their effect? | 2 peers served at a time, chunks of 2 bytes, a request of 3 |
| `server_sigterm` | (violation) does SIGTERM alone end the process? | 1 peer |
| `bridge_safety` | do server and cache together read freed memory before a stop, and is their joint invariant true? | 2 clients, 1 vendor, any cell handed out |
| `bridge_server` | does the process implement `Server`, and does EXIT still end it? | 1 client, failures and resets |
| `bridge_shutdown` | (violation) is the shutdown graceful? | 1 client |
| `ws_calls` | handshake, buffer, bytes, answers, liveness and freeing of a websocket client, with the inductive invariant | buffer of 4, 2 bytes offered, 3 calls, 1 notice, messages of 1, 4 and 5 bytes, time-outs, a connection that may end, 5 answers to the handshake, reads of up to 4 units, a header of up to 7 |
| `vendor_calls` | books, market lists, balances, requests, faults and termination of the vendors, and is the invariant of their proofs true? | up to 4 bids and 4 asks, up to 3 markets of 4 kinds, accounts of up to 3 of 4 currencies, every failure, and other documents: cut behind a key, without a key or the last number, errors that tell more, the key behind a name at the beginning |
| `wire_format` | is what the client prints what the bridge sent, and is the invariant of the proof true? | up to 3 pairs of 2 lengths, one list of 6, client buffer of 24 bytes |

Why the bounds are enough:

* *Cache.* Vendors interact only through the order in which a caller visits them
  and through the heap, so that two show every overlap of lists and every reuse
  of a cell; the listings overlap, in different orders. Two cells for each
  vendor are what it can hold (`EveryListOwned`), so a freed cell comes back at
  once. `MaxHold` is one less than `MarketTimeout`, the tightest case the
  assumption allows. In `cache_promise`, which asks about lists and not about
  time, a walk ends within a second; lists are swapped under it all the same.
  Searches are for the pair that a listing may lack and whose opposite it has. The theorems below remove all of these bounds for safety.
* *Server.* What matters of a length is on which side of a chunk (3 bytes here,
  255 in the code), of the command and of the buffer limit it lies: there is a
  request for each. One descriptor and one thread run out at once with two
  peers; `server_stops` has enough of both, and its request takes two reads, the
  first of which fills its chunk. Each peer makes one connection: what a connection
  leaves behind is its unjoined thread, which `MaxThreads` counts.
* *WebSocket.* Messages shorter than what the caller offers, as long as the
  buffer holds, so that one message needs two calls and two do not fit, and longer,
  which keep the service thread in its callback for ever; three
  calls, so that a late answer meets the next call and the one after it. The
  five answers are one that agrees, alone and with a message behind it, one whose
  first key is wrong, one without a key, and one that never ends its header in
  time; each is read in every segmentation.
* *Vendors.* The walk over a level depends on whether it is the first, the last
  or in between, and on which side is longer. The account's currency stands
  first, in the middle, last or not at all, and two currencies have the same
  first three letters. The other documents are those of each vendor with one string
  taken out, or cut behind any string or before the last token, and errors with one
  to three more pairs, which the walks over a book take for levels.
* *Wire.* Record ends fall on, before and behind the end of the client's buffer.
  A list of six exceeds an estimate made for one, in spite of its generous
  allowance.

`CHECK_DEADLOCK FALSE` stands where the program really may stop: a server that
waits for nobody, a call that is over.

### Fairness

Weak fairness of each thread: the scheduler runs a thread that can run. Seconds
pass (`Tick`), and a download ends, with a list or with an error: `https.c` sets
no time-out, so this is an assumption about the exchanges, on which
`CallReturns` and `ShutdownEnds` rest. Peers have no fairness in `Server`: they
need neither connect nor send nor close; only properties that hold all the same
are stated. In `WebSocket` the exchange answers each request that reaches it
(`Reply`) and wslay delivers; unasked notices are never forced, nor is the end of
a connection. A call needs its own time-out only when the service thread has
ended, or waits for room for a message larger than `recv_buf`: strong fairness of
`TimeOut` in these two cases (`Stuck`), because the caller alternates between
looking and sleeping and the clock is looked at again and again; with every other
message `EveryCallReturns` holds without it. In `WebSocketClient` this fairness is that
of the time between connect and free; nobody has to free. In `WireFormat`
TCP delivers what was written, until a reset.

### What was found

* `server_sigterm`: a SIGTERM between the test of `run` (main.c:184) and the
  `accept` clears `run` and wakes nobody; the process stays until the next
  connection. The comment promises to handle SIGTERM gracefully. What does hold
  is `SigtermEndsWithAConnection`.
* `bridge_shutdown`: the main thread frees the vendors while connection threads,
  which nobody joins, still walk their lists or wait for them.
* `cache_dealloc`: the list in `to_be_deleted` of a thread that ends is never
  freed, though vendor.h says that the memory is deallocated.

Behaviour that is described by properties rather than reported as a
divergence, since no document promises otherwise: btc38 drops the deepest level
of each side of a book and poloniex the deepest ask (`BookAligned`); a null
currency ends bittrex's market list (`MarketsListed`); an unchecked failed
download, an empty first list of btc38, a btc38 book without asks or with anything
but whole levels behind "asks", and of documents that no exchange is known to send
a bittrex book without "sell", a list that begins with the key behind a name and a
document that ends with a key are undefined behaviour (`FaultsKnown`); other
documents that lack a key or tell more of an error are walked without a fault, and
levels or markets are made of what stands there, so that `BookAligned`,
`MarketsListed` and `BalanceOfCurrency` speak of documents in the exchange's shape
(`Usual`); a poloniex ticker without `_` makes the
loop run for ever (`CallEnds` excludes it); a list that the client's read cuts
where a market ends is printed as if it were whole (`PrintsWholeMarkets`);
a btc38 balance is that of the currency which the first three letters name
(`BalanceOfLetters`; `BalanceOfCurrency` speaks of names of three letters only), and
the poloniex balance is the value in bitcoin; a vendor that
lists a pair may be missed by `vendors_with_market` when its list is replaced
between the two looks, by one that has the pair the other way round
(`KeepsPromise`); a handshake read that fills its buffer, a message that arrives
with the header, a failed `pthread_create` and a `websocket_client_free` that
meets the service thread at work are undefined behaviour (`ClientFaultsKnown`); a
late websocket answer is returned to the next call (`AnswersItsCall` excludes it);
requests that fill their last chunk leave both sides waiting
(`WaitsAtChunkBoundary`).

## 4. The proofs

TLAPS checks the theorems of this section for every value of the constants; TLC
checks the inductive invariants on the runs named with them: those of the cache
and of the server are conjuncts of the one of the process. All of them have the
same form: an invariant `IndInv` that implies the properties, a lemma that the
initial states satisfy it, lemmas that each step preserves each of its parts
(one step of the proof per action), and the theorems that follow.

### The market cache (`MarketCacheProofs`, TLC: `bridge_safety`, `cache_promise`)

For any number of vendors and readers, any sets of pairs, listings and cells, any
pairs searched for, and any allocator:

* `TypeCorrect`: `Spec => []TypeOK`;
* `NoLeakNoDoubleFree`: `Spec => []EveryListOwned`;
* `GracePeriodSuffices`: `Spec => []NoReadAfterFree`;
* `Inductive`: `Spec => []IndInv`, from which the others follow.

Assumptions: at least one vendor, listings are not empty, NULL is neither a pair,
nor a cell, nor a listing, the allocator hands out free cells only, and
`MaxHold < MarketTimeout`.

None of the properties is inductive. That a list is not freed twice needs that
a vendor's current and replaced list differ except between the shift and the
publication, when both are the same (`HandOver`). That no reader comes to a
freed list needs the history that the state keeps implicitly: a reader's list is
the current one, or the replaced one, and then the reader has held it for at
least as many seconds as the update thread has slept since the swap
(`Protected`). The update thread reclaims when `sTotal = MarketTimeout`
(`GracePeriod`); a reader of the replaced list would have held it for
`MarketTimeout` ticks, more than `MaxHold`. The seconds slept include the one in
progress that has already passed but has not been counted (`Elapsed`). The
invariant holds during the shutdown, too: what it then says is that only a
reader at a vendor that is freed already can come to freed memory.

### The promise of the cache (`PromiseProofs`, TLC: `cache_promise`)

`PromiseKept`: `ServingSpec` implies that the state, seen through the refinement
mapping of `Promised`, starts in an initial state of `TradingPairs` and takes
steps of `TradingPairs` or stutters. This is the safety part of `KeepsPromise`:
an answer is built from one whole listing of each vendor, in spite of nodes that
are visited one by one while lists are swapped and freed. The mapping is not a
projection: a reader counts as having adopted a listing, whole, when it loads
the pointer (`Answer`, `Ahead`), and as having searched it whole (`Hits`). That
the nodes still ahead are those of the listing loaded needs `Intact`, hence the
invariant of the cache, and `Reading`: what a caller looks for goes with where it
is, it reads only of initialized vendors, its cursor is inside its list
(`Serving`: `ServingSpec => []ServingInv`). The proof has one lemma for each
action that moves a reader, which says what the step does to `Ahead`, `Answer`,
`Hits` and `NextVendor`, and one for each that changes a list under the readers.

### The server (`ServerProofs`, TLC: `bridge_safety`)

For any set of peers, any requests, chunk, limit and backlog, any number of
descriptors and threads, with or without resets and failing allocations:

* `NoDescriptorLeaks`: `[]SocketsOwned`; needs that the queue names each
  connection once (`Queued`) and that what `accept` returned has no thread yet
  (`Accepted`);
* `NeverStopsByItself`: `[]StopsForAReason`, from `StoppedForGood`: a main thread
  that gave up for want of a thread never comes to `accept` again, which would
  overwrite `newsock`, the witness of the reason;
* `AbortsOnlyExhausted`: `[]OnlyExhaustionAborts`, from what the error of `accept`
  says about `run` (`Accepted`): `EINTR` and `EINVAL` come after `run` was
  cleared;
* `WaitsForChunks`: `[]WaitsAtChunkBoundary`, `AnswersOnlyQuestions`:
  `[]AnswersAQuestion`;
* `TypeCorrect`: `[]TypeOK`, by which a buffer never holds more than the limit and
  one chunk: a thread that reads on is within the limit (`WaitsAtChunkBoundary`).

That threads never exceed `MaxThreads` (`ThreadsCounted`) is an argument about
cardinalities, with the facts of `FiniteSetTheorems`.

### The process (`BridgeProofs`, TLC: `bridge_safety`)

The parts are proved once: `BridgeProofs` takes the lemmas of `ServerProofs` and
`MarketCacheProofs` through `INSTANCE`, shows that every step of `Bridge` is a
step or a stutter of `Server` and of `MarketCache`, and adds only what ties the
two (`Ties`: a connection thread is in the cache if and only if its query lasts;
the vendors are freed only by a server that was told to stop):

* `ServerKept`, `CacheKept`: `Spec` implies the initial predicate and the steps of
  both parts (the safety part of `KeepsServer`); `ServerSound`: hence the five
  properties above hold in the process;
* `ServesSoundly`: `[]SoundWhileServing`;
* `FaultsWhileFreeing`: without an assumption on the peers, freed memory is read
  only when the main thread frees the vendors or has freed them, which is what
  `bridge_shutdown` shows to happen;
* `AnswersAreFull`: `[]NoEmptyAnswer`, from `Collecting`: a query has collected a
  listing of each vendor it has left, and of the one it is at the nodes passed;
* `TypeCorrect`, `Inductive`.

Assumptions: those of the two parts; a connection thread is never a value that
stands for an error of `accept` or for the absence of a connection.

### The websocket client (`WebSocketProofs`, TLC: `ws_calls`)

For any capacity, any length that the caller offers, any number of calls and
notices, any lengths of messages and answers to the handshake, in any cut:

* `TypeCorrect`: `[]ClientTypeOK`, by which `recv_buf` never overflows. The room is
  measured, filled and counted in steps between which the other thread loads and
  stores `recv_size`; `Sizes` is why that is harmless: what the service thread
  has loaded is never less than what is stored meanwhile, and what the caller
  has loaded is never more;
* `BytesReceived`: `[]OnlyReceivedBytes`: the bytes below `recv_size` were filled
  (`Copied`), also when one thread overwrites the other's store;
* `AnswersMatch`: `[]AnswersItsCall`: the request of a call made when nothing was
  under way, or its answer, is in one place at a time (`OnItsWay`, `Arrived`);
* `UpgradeClean`: `[]UpgradesCleanly`, `FaultsListed`: `[]ClientFaultsKnown`.

Assumptions: what the caller offers and the sizes of the handshake are positive,
messages have at least one byte, and behind the header a server sends notices only
(`NoticesAssumption`; it constrains the answers that are enumerated, not the
code).

### The vendors (`VendorProofs`, TLC: `vendor_calls`)

For any numbers of levels, lists of markets and accounts of any length, any
currencies, every failure of a download, and other documents of any shape:

* `BooksAligned`: `[]BookAligned`;
* `VendorFaults`: `[]FaultsKnown`, which speaks of every document: a search that
  begins at a token ends at a token or at none, and what is read next to the one
  found is a token, too, unless that one is the last or, of the names in a list,
  among the first two;
* `BalancesSigned`: `[]RequestsAuthentic`;
* `TypeCorrect`: `[]TypeOK`, by which `start_pos` is never more than three tokens
  behind the document, nor more than one before it.

The only assumptions used are that numbers of levels are naturals, and lists,
accounts and other documents sequences. The invariant of this module is `BookInv`; the theorem
`Inductive` says that it holds; it is the first conjunct of the `IndInv` that the run
checks. First come the documents: `TwoSidesTokens` and
`BittrexTokens` say which token is where, for every length, and `Btc38Finds`,
`PoloniexFinds`, `BittrexStarts`, `BittrexBid`, `BittrexAsk`, `BittrexBeyond` and
`BittrexEnds` what `json_find_token` then finds from each position. The invariant
(`BookWalked`) ties the length of the book under construction to `start_pos`:
behind `n` levels btc38 and poloniex stand at token `4 + 3 * n`, bittrex at
`8 + 5 * n`, and the book is `Aligned(n, 0)` or `Aligned(0, n)`. The second loop
is the delicate one: for its first entries it overwrites halves, for the rest it
appends (`FillsAsk`, `FillsBid`), and btc38 compares the *next* position with the
number of tokens, so that only the empty side runs over the end. bittrex's first
loop may find the quantity of the first ask when the bids are used up
(`BittrexBeyond`); it stands behind "sell", and the level is not taken.
`MarketsFound` is why the merge of btc38's lists faults only when the first
document has no market: whatever it is called, the first one is found
(`FirstMarket`). Of a document of another shape nothing is known but where the walk
stands (`Stands`): before the tokens in the second loop of a bittrex book without
"sell" only, and in that of btc38 a whole number of levels behind "asks". Requests are the same for each download of a call (`Handled`).

### Market lists and balances (`AnswerProofs`, TLC: `vendor_calls`)

For lists and accounts of any length, in any order, with any names:

* `MarketsTrue`: `[]MarketsListed`;
* `BalancesTrue`: `[]BalanceOfCurrency`;
* `AnswersInductive`: `[]IndInv`, from which the others follow.

Assumptions: the kinds of markets are those of `MarketsAssumption`, and
`CurrenciesAssumption` (section 2).

`IndInv` adds to `BookInv` how far a walk over a list of markets has come
(`MarketsWalked`): behind `n` markets the list under construction is
`Listing(nth)[n]` and `start_pos` is `Past(n)`, which is `6 * n - 2` for btc38,
`4 * n` for poloniex and `11 * n + 6` for bittrex; a walk of poloniex may also
stay at the key of a market without `_`, as often as it likes. Once `start_pos`
is 0 the list is complete, because nothing behind a null currency counts
(`ListingEnds`). Of btc38, the second walk starts with the first list put aside
(`first`), and a second download that fails returns it as it is. A balance is
read in one step, and `BalanceRead` keeps its call from bringing a list along;
`BalanceOfLetters` says which currency each vendor answers for, and
`BalanceOfCurrency` is what it comes to where that is the one asked for. `MarketsTrue`
and `BalancesTrue` speak of documents in the exchange's shape.

The proofs go in three stages. `Blocks` says where each token of each block of a
document is, for any number of blocks, by division and remainder; from it follow
the documents of each vendor (`BittrexMarkets`, `PoloniexBalances` and so on).
`PoloniexNext`, `Btc38Next` and `BittrexNext` say what one turn of the loop finds
from behind the `n`-th market, and `PoloniexFindsBalance`, `Btc38FindsBalance`
and `BittrexFindsBalance` what the parsers of a balance find: that no token
before the currency's block equals its key is where `CurrenciesAssumption` is
used. The last stage has one lemma per action (`GetAnswered` and so on).
`Listing` is defined by recursion over a list. The library's induction theorems
take an operator, which the provers cannot instantiate; induction is done with
a set instead (`SetInduction`, from the least element of a set of naturals), and
`AddsExists` and `ListingIs` show with it that the recursive function has the
values its definition announces.

### The wire format (`WireProofs`, TLC: `wire_format`)

For any lists of any length, names of any length, any size of the client's
buffer, and any cut of the stream:

* `AnswersWhole`: `[]AnswerWhole`;
* `WholeMarketsPrinted`: `[]PrintsWholeMarkets`;
* `TypeCorrect`: `[]TypeOK`, by which neither decoder walks off what it was given;
* `Inductive`: `[]IndInv`, from which the others follow.

Assumptions: lengths of names are naturals and the client's buffer is not empty.
What the module says of bytes limits the theorems: a name so long that its
record's length takes two bytes is encoded in one here. For the encoder the bytes
left out do not matter, since it allows 11 for each number and length; for the
decoder the library is assumed to handle them.

`Fits` is the reason for `AnswersWhole`: a record with its header is shorter than
what `market_list_protobuf_encode_size` adds for it, hence, by induction over the
list, so are the first `n` records together (`SizeFacts`, `LengthFacts`), and the
encoder never stops early. What was sent lies record behind record (`Encoded`), and
what was read is where it begins (`Receiving`). The client's decoder stands where
record `n + 1` begins, with `n` markets decoded, and the decoder of a market where
one of its fields begins (`Decoding`, `FieldsEnd`). The buffer ends where a market
ends if and only if no record is cut, because the lengths of the first `n` records
grow with `n` (`LengthFacts`); the decoder then prints what it has, and throws all of
it away otherwise. "No Results" is ten letters, read two at a time, of which
none is the number of a field (`NoResultsFacts`).

### What stays with TLC

Every invariant that a run checks is a theorem. What the prover does not reach is
liveness under fairness: `CallReturns`, `KeepsRefreshing`, `ShutdownEnds`,
`ExitStops`, `SigtermEndsWithAConnection`, `WholeRequestAnswered`,
`EveryCallReturns`, `CallEnds`, `ClientPrints`, and the fairness of `KeepsPromise`
and `KeepsServer`, whose steps are proved. The violations of `cache_dealloc`,
`server_sigterm` and `bridge_shutdown` are behaviours that TLC shows.

## 5. What is not modelled

* The build with `SINGLE_THREADED`: `do_connect` gets a pointer of another type.
* A `write` that blocks because the peer does not read, descriptors used by
  libcurl.
* A download that never ends; the failure of `pthread_create` in `vendor_get`,
  after which callers wait for a vendor for ever.
* Of the websocket client: what wslay does inside, and with it the race of both
  threads for its queue and the masks it makes; failed allocations in
  `websocket_client_new`; the `exit(EXIT_FAILURE)` of the process when `epoll_ctl`
  fails (websocket.c:438-441); the result of `make_non_block`, which nobody looks at.
  The test `websocket_client_on_read_event(ws) == -1` (websocket.c:516) is never
  true: wslay returns -400 and the like.
* Order placement (stubs that return 0), the mock vendor; `market_get` but for its
  use by `vendors_with_market`; allocation and release of books and balances.
* Of the vendors: allocations that fail (`book_new()` and `market_new()`, whose
  results are used unchecked) and `malloc(0)` returning NULL; strings too long for
  the stack. A document with more tokens than its parser has room for
  (`strlen(json) / 4`, 1000 or 65535) is "garbled", like one that is no JSON.
* Third-party code (jsmn, khash, wslay, curl) and the protobuf library, of which
  `WireFormat` assumes that a field can be decoded if and only if all of its
  bytes are there.
* Numbers and strings are not computed with: prices, quantities and names are
  identities that show where a value came from.

## 6. Plan

In the order of importance:

1. Models still missing: vendors whose thread could not be created, and
   allocations that fail outside the server and the encoder.
2. Lengths of more than one byte in `WireFormat`.
3. The queue of wslay, which the caller and the service thread change without a
   lock.
