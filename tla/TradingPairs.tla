---------------------------- MODULE TradingPairs ----------------------------
(***************************************************************************)
(* What the market cache promises to a caller of                           *)
(* vendor_get_all_trading_pairs: the answer is put together from one       *)
(* complete listing of every vendor, each the vendor's latest at some      *)
(* moment of the call, and a pair that several vendors list is taken from  *)
(* the first of them.  And to a caller of vendors_with_market: each vendor *)
(* that has been heard of is asked for the pair and, at a later moment,    *)
(* for its opposite.  There are no threads, no pointers and no memory      *)
(* here: a listing is looked through whole, in one step.                   *)
(***************************************************************************)
EXTENDS Naturals, Sequences, Functions

CONSTANTS
  NumVendors,   \* vendors are 1 .. NumVendors, in the order of the vendor list
  Readers,      \* callers
  Pairs,        \* trading pairs
  Opposite,     \* for each pair, the one with its two currencies swapped
  Goals,        \* the pairs that searches look for
  Listings,     \* what a vendor may list: non-empty sequences of pairs
  NULL,         \* the empty listing left by a failed download
  Pending       \* the listing of a vendor that has not been heard of yet

VARIABLES
  listing,      \* the latest listing of each vendor
  next,         \* the vendor each caller turns to next; 0 when not calling
  answer,       \* for each caller and pair, the vendor it was taken from (0: none)
  sought,       \* the pair each caller looks for, NULL when it wants them all
  swapped,      \* whether the next vendor has been asked for the pair itself
  listedBy      \* the vendors that list the pair

searchVars == <<sought, swapped, listedBy>>
absVars    == <<listing, next, answer, searchVars>>

Vendors == 1 .. NumVendors

(* Pairs of listing l that nobody earlier in the list has offered go to v. *)
Adopted(table, l, v) ==
  [p \in Pairs |-> IF table[p] = 0 /\ l # NULL /\ p \in Range(l) THEN v ELSE table[p]]

Init ==
  /\ listing = [v \in Vendors |-> Pending]
  /\ next = [r \in Readers |-> 0]
  /\ answer = [r \in Readers |-> [p \in Pairs |-> 0]]
  /\ sought = [r \in Readers |-> NULL]
  /\ swapped = [r \in Readers |-> FALSE]
  /\ listedBy = [r \in Readers |-> {}]

Refresh(v) ==
  /\ \E l \in Listings \cup {NULL} : listing' = [listing EXCEPT ![v] = l]
  /\ UNCHANGED <<next, answer, searchVars>>

Begin(r) ==
  /\ next[r] = 0
  /\ next' = [next EXCEPT ![r] = 1]
  /\ answer' = [answer EXCEPT ![r] = [p \in Pairs |-> 0]]
  /\ UNCHANGED <<listing, searchVars>>

Adopt(r) ==
  /\ sought[r] = NULL
  /\ next[r] \in Vendors
  /\ listing[next[r]] # Pending
  /\ answer' = [answer EXCEPT ![r] = Adopted(@, listing[next[r]], next[r])]
  /\ next' = [next EXCEPT ![r] = @ + 1]
  /\ UNCHANGED <<listing, searchVars>>

Return(r) ==
  /\ next[r] = NumVendors + 1
  /\ next' = [next EXCEPT ![r] = 0]
  /\ sought' = [sought EXCEPT ![r] = NULL]
  /\ listedBy' = [listedBy EXCEPT ![r] = {}]
  /\ UNCHANGED <<listing, answer, swapped>>

BeginSearch(r) ==
  /\ next[r] = 0
  /\ next' = [next EXCEPT ![r] = 1]
  /\ answer' = [answer EXCEPT ![r] = [p \in Pairs |-> 0]]
  /\ \E p \in Goals : sought' = [sought EXCEPT ![r] = p]
  /\ UNCHANGED <<listing, swapped, listedBy>>

(* Whether the next vendor lists what it is asked for: the pair first, and  *)
(* its opposite then.                                                      *)
Lists(r) ==
  LET p == IF swapped[r] THEN Opposite[sought[r]] ELSE sought[r]
  IN  listing[next[r]] \notin {Pending, NULL} /\ p \in Range(listing[next[r]])

(* A vendor that has not been heard of is not asked at all. *)
Leaves(r) == Lists(r) \/ swapped[r] \/ listing[next[r]] = Pending

Ask(r) ==
  /\ sought[r] # NULL
  /\ next[r] \in Vendors
  /\ listedBy' = [listedBy EXCEPT ![r] = IF Lists(r) THEN @ \cup {next[r]} ELSE @]
  /\ next' = [next EXCEPT ![r] = IF Leaves(r) THEN @ + 1 ELSE @]
  /\ swapped' = [swapped EXCEPT ![r] = ~Leaves(r)]
  /\ UNCHANGED <<listing, answer, sought>>

Next ==
  \/ \E v \in Vendors : Refresh(v)
  \/ \E r \in Readers : Begin(r) \/ Adopt(r) \/ BeginSearch(r) \/ Ask(r) \/ Return(r)

(* A call that has begun goes on: every vendor is heard of at some time,   *)
(* and the caller keeps turning to the next one.                           *)
Fairness ==
  /\ \A v \in Vendors : WF_absVars(listing[v] = Pending /\ Refresh(v))
  /\ \A r \in Readers : WF_absVars(Adopt(r) \/ Ask(r) \/ Return(r))

Spec == Init /\ [][Next]_absVars /\ Fairness
=============================================================================
