---------------------------- MODULE VendorProofs ----------------------------
(***************************************************************************)
(* Theorems about VendorCalls, for books of any number of levels, market   *)
(* lists and accounts of any length, and any other documents: the books of *)
(* the exchanges are aligned, undefined behaviour comes from the places    *)
(* that FaultsKnown lists, and requests for a balance are authentic.       *)
(***************************************************************************)
EXTENDS VendorCalls, SequenceTheorems, WellFoundedInduction, TLAPS

-----------------------------------------------------------------------------
(* Sequences of anything. *)

LEMMA SeqIsSeq == ASSUME NEW S, NEW s \in Seq(S) PROVE IsSeq(s)
  <1>1. s \in [1 .. Len(s) -> {s[i] : i \in DOMAIN s}] /\ Len(s) \in Nat
    OBVIOUS
  <1> QED
    BY <1>1 DEF IsSeq

LEMMA EmptyIsSeq == IsSeq(<<>>)
  <1>1. <<>> \in Seq({})
    OBVIOUS
  <1> QED
    BY <1>1, SeqIsSeq

LEMMA SeqFacts ==
  ASSUME NEW s, IsSeq(s)
  PROVE  Len(s) \in Nat /\ DOMAIN s = 1 .. Len(s) /\ (s = <<>> <=> Len(s) = 0)
  BY DEF IsSeq

LEMMA AppendFacts ==
  ASSUME NEW s, IsSeq(s), NEW x
  PROVE  /\ IsSeq(Append(s, x)) /\ Len(Append(s, x)) = Len(s) + 1
         /\ Append(s, x)[Len(s) + 1] = x
         /\ \A i \in 1 .. Len(s) : Append(s, x)[i] = s[i]
  <1> DEFINE S == {s[i] : i \in DOMAIN s} \cup {x}
  <1>1. s \in Seq(S) /\ x \in S
    <2>1. s \in [1 .. Len(s) -> S] /\ Len(s) \in Nat
      BY DEF IsSeq
    <2> QED
      BY <2>1
  <1> HIDE DEF S
  <1>2. /\ Append(s, x) \in Seq(S) /\ Len(Append(s, x)) = Len(s) + 1
        /\ Append(s, x)[Len(s) + 1] = x
        /\ \A i \in 1 .. Len(s) : Append(s, x)[i] = s[i]
    BY <1>1
  <1> QED
    BY <1>2, SeqIsSeq

LEMMA ConcatFacts ==
  ASSUME NEW s, IsSeq(s), NEW t, IsSeq(t)
  PROVE  /\ IsSeq(s \o t) /\ Len(s \o t) = Len(s) + Len(t)
         /\ \A i \in 1 .. Len(s) : (s \o t)[i] = s[i]
         /\ \A i \in Len(s) + 1 .. Len(s) + Len(t) : (s \o t)[i] = t[i - Len(s)]
  <1> DEFINE S == {s[i] : i \in DOMAIN s} \cup {t[i] : i \in DOMAIN t}
  <1>1. s \in Seq(S) /\ t \in Seq(S)
    <2>1. s \in [1 .. Len(s) -> S] /\ Len(s) \in Nat /\ t \in [1 .. Len(t) -> S] /\ Len(t) \in Nat
      BY DEF IsSeq
    <2> QED
      BY <2>1
  <1> HIDE DEF S
  <1>2. /\ s \o t \in Seq(S) /\ Len(s \o t) = Len(s) + Len(t)
        /\ \A i \in 1 .. Len(s) : (s \o t)[i] = s[i]
        /\ \A i \in Len(s) + 1 .. Len(s) + Len(t) : (s \o t)[i] = t[i - Len(s)]
    BY <1>1
  <1> QED
    BY <1>2, SeqIsSeq


LEMMA Tuples ==
  ASSUME NEW a, NEW b, NEW c, NEW d, NEW e, NEW f, NEW g, NEW h
  PROVE  /\ IsSeq(<<a>>) /\ IsSeq(<<a, b>>) /\ IsSeq(<<a, b, c>>) /\ IsSeq(<<a, b, c, d>>)
         /\ IsSeq(<<a, b, c, d, e>>) /\ IsSeq(<<a, b, c, d, e, f>>)
         /\ IsSeq(<<a, b, c, d, e, f, g>>) /\ IsSeq(<<a, b, c, d, e, f, g, h>>)
  <1> DEFINE S == {a, b, c, d, e, f, g, h}
  <1>1. /\ <<a>> \in Seq(S) /\ <<a, b>> \in Seq(S) /\ <<a, b, c>> \in Seq(S)
        /\ <<a, b, c, d>> \in Seq(S) /\ <<a, b, c, d, e>> \in Seq(S)
        /\ <<a, b, c, d, e, f>> \in Seq(S) /\ <<a, b, c, d, e, f, g>> \in Seq(S)
        /\ <<a, b, c, d, e, f, g, h>> \in Seq(S)
    OBVIOUS
  <1> HIDE DEF S
  <1> QED
    BY <1>1, SeqIsSeq

-----------------------------------------------------------------------------
(* Documents.  Blocks of one length make a sequence, and of the levels of a *)
(* book each token is known.                                                *)

LEMMA FlatFacts ==
  ASSUME NEW bs, IsSeq(bs), NEW m \in Nat, \A k \in 1 .. Len(bs) : Len(bs[k]) = m
  PROVE  /\ IsSeq(Flat(bs)) /\ Len(Flat(bs)) = Len(bs) * m
         /\ \A i \in 1 .. Len(bs) * m :
              Flat(bs)[i] = bs[1 + ((i - 1) \div m)][1 + ((i - 1) % m)]
  <1>1. CASE bs = <<>>
    <2>1. Flat(bs) = <<>> /\ Len(bs) = 0
      BY <1>1 DEF Flat
    <2>2. Len(bs) * m = 0
      BY <2>1
    <2> QED
      BY <2>1, <2>2, EmptyIsSeq
  <1>2. CASE bs # <<>>
    <2> DEFINE n == Len(bs) * m
    <2>1. 1 \in 1 .. Len(bs)
      BY <1>2, SeqFacts
    <2>2. Flat(bs) = [i \in 1 .. n |-> bs[1 + ((i - 1) \div m)][1 + ((i - 1) % m)]]
      BY <1>2, <2>1 DEF Flat
    <2>3. n \in Nat
      BY SeqFacts
    <2> HIDE DEF n
    <2> DEFINE S == {Flat(bs)[i] : i \in 1 .. n}
    <2>4. Flat(bs) \in [1 .. n -> S]
      BY <2>2
    <2> HIDE DEF S
    <2>5. Flat(bs) \in Seq(S) /\ Len(Flat(bs)) = n
      BY <2>3, <2>4
    <2>6. /\ IsSeq(Flat(bs)) /\ Len(Flat(bs)) = n
          /\ \A i \in 1 .. n : Flat(bs)[i] = bs[1 + ((i - 1) \div m)][1 + ((i - 1) % m)]
      BY <2>2, <2>5, SeqIsSeq
    <2> QED
      BY <2>6 DEF n
  <1> QED
    BY <1>1, <1>2

Quantity(side, k) == Token("primitive", <<side, k, 1>>)
Rate(side, k)     == Token("primitive", <<side, k, 2>>)

LEMMA PairSideTokens ==
  ASSUME NEW side, NEW n \in Nat
  PROVE  LET s == PairSide(side, n)
         IN  /\ IsSeq(s) /\ Len(s) = 1 + 3 * n /\ s[1] = Array
             /\ \A k \in 1 .. n : /\ s[3 * k - 1] = Array
                                  /\ s[3 * k]     = Quantity(side, k)
                                  /\ s[3 * k + 1] = Rate(side, k)
  <1> DEFINE bs == [k \in 1 .. n |-> Pair(side, k)]
             B  == Flat(bs)
  <1>1. \A k \in 1 .. n : Len(bs[k]) = 3
    BY DEF Pair
  <1>2. IsSeq(bs) /\ Len(bs) = n
    <2>1. bs \in Seq({bs[k] : k \in 1 .. n}) /\ Len(bs) = n
      OBVIOUS
    <2> QED
      BY <2>1, SeqIsSeq
  <1>3. \A k \in 1 .. n : bs[k] = Pair(side, k)
    OBVIOUS
  <1> HIDE DEF bs
  <1>4. /\ IsSeq(B) /\ Len(B) = 3 * n
        /\ \A i \in 1 .. 3 * n : B[i] = bs[1 + ((i - 1) \div 3)][1 + ((i - 1) % 3)]
    <2>1. /\ IsSeq(B) /\ Len(B) = Len(bs) * 3
          /\ \A i \in 1 .. Len(bs) * 3 : B[i] = bs[1 + ((i - 1) \div 3)][1 + ((i - 1) % 3)]
      <3>1. 3 \in Nat /\ \A k \in 1 .. Len(bs) : Len(bs[k]) = 3
        BY <1>1, <1>2
      <3> HIDE DEF B
      <3>2. Flat(bs) = B
        BY DEF B
      <3> QED
        BY <1>2, <3>1, <3>2, FlatFacts, Zenon
    <2>2. Len(bs) * 3 = 3 * n
      BY <1>2
    <2> HIDE DEF B
    <2> QED
      BY <2>1, <2>2, Zenon
  <1>5. PairSide(side, n) = <<Array>> \o B
    BY DEF PairSide, bs
  <1> HIDE DEF B
  <1>6. IsSeq(<<Array>>) /\ Len(<<Array>>) = 1 /\ <<Array>>[1] = Array
    BY Tuples
  <1>7. ASSUME NEW k \in 1 .. n
        PROVE  B[3 * k - 2] = Array /\ B[3 * k - 1] = Quantity(side, k) /\ B[3 * k] = Rate(side, k)
    <2>1. ASSUME NEW i \in 1 .. 3 * n, NEW r \in 1 .. 3, i = 3 * (k - 1) + r
          PROVE  B[i] = bs[k][r]
      <3>1. 1 + ((i - 1) \div 3) = k /\ 1 + ((i - 1) % 3) = r
        BY <2>1
      <3> QED
        BY <1>4, <3>1
    <2>2. 3 * k - 2 \in 1 .. 3 * n /\ 3 * k - 1 \in 1 .. 3 * n /\ 3 * k \in 1 .. 3 * n
      OBVIOUS
    <2>3. B[3 * k - 2] = bs[k][1] /\ B[3 * k - 1] = bs[k][2] /\ B[3 * k] = bs[k][3]
      BY <2>1, <2>2
    <2> QED
      BY <1>3, <2>3 DEF Pair, Quantity, Rate
  <1> HIDE DEF B
  <1>8. /\ IsSeq(<<Array>> \o B) /\ Len(<<Array>> \o B) = 1 + 3 * n /\ (<<Array>> \o B)[1] = Array
        /\ \A i \in 2 .. 1 + 3 * n : (<<Array>> \o B)[i] = B[i - 1]
    <2> DEFINE h == <<Array>>
               u == h \o B
    <2>1. IsSeq(h) /\ Len(h) = 1 /\ h[1] = Array /\ IsSeq(B) /\ Len(B) = 3 * n
      BY <1>4, <1>6
    <2>2. /\ IsSeq(u) /\ Len(u) = Len(h) + Len(B)
          /\ \A i \in 1 .. Len(h) : u[i] = h[i]
          /\ \A i \in Len(h) + 1 .. Len(h) + Len(B) : u[i] = B[i - Len(h)]
      <3> HIDE DEF h
      <3> QED
        BY <2>1, ConcatFacts
    <2> HIDE DEF u, h
    <2>3. /\ IsSeq(u) /\ Len(u) = 1 + 3 * n /\ u[1] = Array
          /\ \A i \in 2 .. 1 + 3 * n : u[i] = B[i - 1]
      BY <2>1, <2>2
    <2> QED
      BY <2>3, Zenon DEF u, h
  <1>9. ASSUME NEW k \in 1 .. n
        PROVE  /\ (<<Array>> \o B)[3 * k - 1] = B[3 * k - 2]
               /\ (<<Array>> \o B)[3 * k] = B[3 * k - 1]
               /\ (<<Array>> \o B)[3 * k + 1] = B[3 * k]
    <2>1. 3 * k - 1 \in 2 .. 1 + 3 * n /\ 3 * k \in 2 .. 1 + 3 * n /\ 3 * k + 1 \in 2 .. 1 + 3 * n
      OBVIOUS
    <2>2. (3 * k - 1) - 1 = 3 * k - 2 /\ (3 * k + 1) - 1 = 3 * k
      OBVIOUS
    <2> QED
      BY <1>8, <2>1, <2>2
  <1> QED
    BY <1>5, <1>7, <1>8, <1>9

LEMMA EntrySideTokens ==
  ASSUME NEW side, NEW n \in Nat
  PROVE  LET s == EntrySide(side, n)
         IN  /\ IsSeq(s) /\ Len(s) = 1 + 5 * n /\ s[1] = Array
             /\ \A k \in 1 .. n : /\ s[5 * k - 3] = Object
                                  /\ s[5 * k - 2] = Key("Quantity")
                                  /\ s[5 * k - 1] = Quantity(side, k)
                                  /\ s[5 * k]     = Key("Rate")
                                  /\ s[5 * k + 1] = Rate(side, k)
  <1> DEFINE bs == [k \in 1 .. n |-> Entry(side, k)]
             B  == Flat(bs)
  <1>1. \A k \in 1 .. n : Len(bs[k]) = 5
    BY DEF Entry
  <1>2. IsSeq(bs) /\ Len(bs) = n
    <2>1. bs \in Seq({bs[k] : k \in 1 .. n}) /\ Len(bs) = n
      OBVIOUS
    <2> QED
      BY <2>1, SeqIsSeq
  <1>3. \A k \in 1 .. n : bs[k] = Entry(side, k)
    OBVIOUS
  <1>4. EntrySide(side, n) = <<Array>> \o B
    BY DEF EntrySide
  <1> HIDE DEF bs
  <1>5. /\ IsSeq(B) /\ Len(B) = 5 * n
        /\ \A i \in 1 .. 5 * n : B[i] = bs[1 + ((i - 1) \div 5)][1 + ((i - 1) % 5)]
    <2>1. /\ IsSeq(B) /\ Len(B) = Len(bs) * 5
          /\ \A i \in 1 .. Len(bs) * 5 : B[i] = bs[1 + ((i - 1) \div 5)][1 + ((i - 1) % 5)]
      <3>1. 5 \in Nat /\ \A k \in 1 .. Len(bs) : Len(bs[k]) = 5
        BY <1>1, <1>2
      <3> HIDE DEF B
      <3>2. Flat(bs) = B
        BY DEF B
      <3> QED
        BY <1>2, <3>1, <3>2, FlatFacts, Zenon
    <2> QED
      BY <1>2, <2>1
  <1> HIDE DEF B
  <1>6. IsSeq(<<Array>>) /\ Len(<<Array>>) = 1 /\ <<Array>>[1] = Array
    BY Tuples
  <1>7. /\ IsSeq(<<Array>> \o B) /\ Len(<<Array>> \o B) = 1 + 5 * n /\ (<<Array>> \o B)[1] = Array
        /\ \A i \in 2 .. 1 + 5 * n : (<<Array>> \o B)[i] = B[i - 1]
    BY <1>5, <1>6, ConcatFacts
  <1>8. ASSUME NEW k \in 1 .. n, NEW r \in 1 .. 5, NEW i \in 2 .. 1 + 5 * n, i = 5 * k - 4 + r
        PROVE  (<<Array>> \o B)[i] = Entry(side, k)[r]
    <2>1. 1 + (((i - 1) - 1) \div 5) = k /\ 1 + (((i - 1) - 1) % 5) = r
      BY <1>8
    <2>2. B[i - 1] = bs[k][r]
      BY <1>5, <2>1
    <2> QED
      BY <1>3, <1>7, <2>2
  <1>9. ASSUME NEW k \in 1 .. n
        PROVE  LET s == <<Array>> \o B
               IN  /\ s[5 * k - 3] = Object
                   /\ s[5 * k - 2] = Key("Quantity")
                   /\ s[5 * k - 1] = Quantity(side, k)
                   /\ s[5 * k]     = Key("Rate")
                   /\ s[5 * k + 1] = Rate(side, k)
    <2> DEFINE s == <<Array>> \o B
    <2>1. /\ 5 * k - 3 \in 2 .. 1 + 5 * n /\ 5 * k - 2 \in 2 .. 1 + 5 * n
          /\ 5 * k - 1 \in 2 .. 1 + 5 * n /\ 5 * k \in 2 .. 1 + 5 * n
          /\ 5 * k + 1 \in 2 .. 1 + 5 * n
      OBVIOUS
    <2>2. \A r \in 1 .. 5, i \in 2 .. 1 + 5 * n : i = 5 * k - 4 + r => s[i] = Entry(side, k)[r]
      BY <1>8
    <2> HIDE DEF s
    <2>3. s[5 * k - 3] = Entry(side, k)[1]
      BY <2>1, <2>2
    <2>4. s[5 * k - 2] = Entry(side, k)[2]
      BY <2>1, <2>2
    <2>5. s[5 * k - 1] = Entry(side, k)[3]
      BY <2>1, <2>2
    <2>6. s[5 * k] = Entry(side, k)[4]
      BY <2>1, <2>2
    <2>7. s[5 * k + 1] = Entry(side, k)[5]
      BY <2>1, <2>2
    <2> QED
      BY <2>3, <2>4, <2>5, <2>6, <2>7 DEF s, Entry, Quantity, Rate
  <1> QED
    BY <1>4, <1>7, <1>9

(* What btc38 and poloniex have in common: two keys, each with its side. *)
TwoSides(x, sideX, n, y, sideY, m) ==
  <<Object, x>> \o PairSide(sideX, n) \o <<y>> \o PairSide(sideY, m)

AreTwoSides(t, x, sideX, n, y, sideY, m) ==
  /\ IsSeq(t) /\ Len(t) = 5 + 3 * n + 3 * m
  /\ t[1] = Object /\ t[2] = x /\ t[3] = Array
  /\ t[4 + 3 * n] = y /\ t[5 + 3 * n] = Array
  /\ \A k \in 1 .. n : /\ t[3 * k + 1] = Array
                       /\ t[3 * k + 2] = Quantity(sideX, k)
                       /\ t[3 * k + 3] = Rate(sideX, k)
  /\ \A k \in 1 .. m : /\ t[3 * n + 3 * k + 3] = Array
                       /\ t[3 * n + 3 * k + 4] = Quantity(sideY, k)
                       /\ t[3 * n + 3 * k + 5] = Rate(sideY, k)
  /\ \A i \in 1 .. 5 + 3 * n + 3 * m : i # 2 /\ i # 4 + 3 * n => t[i].type # "string"

LEMMA TwoSidesTokens ==
  ASSUME NEW x, NEW sideX, NEW n \in Nat, NEW y, NEW sideY, NEW m \in Nat
  PROVE  AreTwoSides(TwoSides(x, sideX, n, y, sideY, m), x, sideX, n, y, sideY, m)
  <1> DEFINE p  == PairSide(sideX, n)
             q  == PairSide(sideY, m)
             h  == <<Object, x>>
             e  == <<y>>
             t1 == h \o p
             t2 == t1 \o e
             t  == t2 \o q
  <1>1. TwoSides(x, sideX, n, y, sideY, m) = t
    BY DEF TwoSides
  <1>2. /\ IsSeq(p) /\ Len(p) = 1 + 3 * n /\ p[1] = Array
        /\ \A k \in 1 .. n : /\ p[3 * k - 1] = Array
                             /\ p[3 * k]     = Quantity(sideX, k)
                             /\ p[3 * k + 1] = Rate(sideX, k)
    BY PairSideTokens
  <1>3. /\ IsSeq(q) /\ Len(q) = 1 + 3 * m /\ q[1] = Array
        /\ \A k \in 1 .. m : /\ q[3 * k - 1] = Array
                             /\ q[3 * k]     = Quantity(sideY, k)
                             /\ q[3 * k + 1] = Rate(sideY, k)
    BY PairSideTokens
  <1>4. /\ IsSeq(h) /\ Len(h) = 2 /\ h[1] = Object /\ h[2] = x
        /\ IsSeq(e) /\ Len(e) = 1 /\ e[1] = y
    BY Tuples
  <1> HIDE DEF p, q, h, e, t1, t2, t
  <1>5. /\ IsSeq(t1) /\ Len(t1) = 3 + 3 * n /\ t1[1] = Object /\ t1[2] = x
        /\ \A i \in 3 .. 3 + 3 * n : t1[i] = p[i - 2]
    <2>1. /\ IsSeq(t1) /\ Len(t1) = Len(h) + Len(p)
          /\ \A i \in 1 .. Len(h) : t1[i] = h[i]
          /\ \A i \in Len(h) + 1 .. Len(h) + Len(p) : t1[i] = p[i - Len(h)]
      BY <1>2, <1>4, ConcatFacts DEF t1
    <2>2. Len(h) = 2 /\ Len(p) = 1 + 3 * n /\ h[1] = Object /\ h[2] = x
      BY <1>2, <1>4
    <2> QED
      BY <2>1, <2>2
  <1>6. /\ IsSeq(t2) /\ Len(t2) = 4 + 3 * n /\ t2[4 + 3 * n] = y
        /\ \A i \in 1 .. 3 + 3 * n : t2[i] = t1[i]
    <2>1. /\ IsSeq(t2) /\ Len(t2) = Len(t1) + Len(e)
          /\ \A i \in 1 .. Len(t1) : t2[i] = t1[i]
          /\ \A i \in Len(t1) + 1 .. Len(t1) + Len(e) : t2[i] = e[i - Len(t1)]
      BY <1>4, <1>5, ConcatFacts DEF t2
    <2>2. Len(t1) = 3 + 3 * n /\ Len(e) = 1 /\ e[1] = y
      BY <1>4, <1>5
    <2> QED
      BY <2>1, <2>2
  <1>7. /\ IsSeq(t) /\ Len(t) = 5 + 3 * n + 3 * m
        /\ \A i \in 1 .. 4 + 3 * n : t[i] = t2[i]
        /\ \A i \in 5 + 3 * n .. 5 + 3 * n + 3 * m : t[i] = q[i - (4 + 3 * n)]
    <2>1. /\ IsSeq(t) /\ Len(t) = Len(t2) + Len(q)
          /\ \A i \in 1 .. Len(t2) : t[i] = t2[i]
          /\ \A i \in Len(t2) + 1 .. Len(t2) + Len(q) : t[i] = q[i - Len(t2)]
      BY <1>3, <1>6, ConcatFacts DEF t
    <2>2. Len(t2) = 4 + 3 * n /\ Len(q) = 1 + 3 * m
      BY <1>3, <1>6
    <2> QED
      BY <2>1, <2>2
  <1>8. /\ t[1] = Object /\ t[2] = x /\ t[3] = Array /\ t[4 + 3 * n] = y /\ t[5 + 3 * n] = Array
    BY <1>2, <1>3, <1>5, <1>6, <1>7
  <1>9. ASSUME NEW k \in 1 .. n
        PROVE  /\ t[3 * k + 1] = Array
               /\ t[3 * k + 2] = Quantity(sideX, k)
               /\ t[3 * k + 3] = Rate(sideX, k)
    <2>1. \A i \in 3 .. 3 + 3 * n : t[i] = p[i - 2]
      BY <1>5, <1>6, <1>7
    <2>2. /\ 3 * k + 1 \in 3 .. 3 + 3 * n /\ 3 * k + 2 \in 3 .. 3 + 3 * n /\ 3 * k + 3 \in 3 .. 3 + 3 * n
          /\ (3 * k + 1) - 2 = 3 * k - 1 /\ (3 * k + 2) - 2 = 3 * k /\ (3 * k + 3) - 2 = 3 * k + 1
      OBVIOUS
    <2>3. t[3 * k + 1] = p[3 * k - 1] /\ t[3 * k + 2] = p[3 * k] /\ t[3 * k + 3] = p[3 * k + 1]
      BY <2>1, <2>2
    <2> QED
      BY <1>2, <2>3
  <1>10. ASSUME NEW k \in 1 .. m
         PROVE  /\ t[3 * n + 3 * k + 3] = Array
                /\ t[3 * n + 3 * k + 4] = Quantity(sideY, k)
                /\ t[3 * n + 3 * k + 5] = Rate(sideY, k)
    <2>1. /\ 3 * n + 3 * k + 3 \in 5 + 3 * n .. 5 + 3 * n + 3 * m
          /\ 3 * n + 3 * k + 4 \in 5 + 3 * n .. 5 + 3 * n + 3 * m
          /\ 3 * n + 3 * k + 5 \in 5 + 3 * n .. 5 + 3 * n + 3 * m
          /\ (3 * n + 3 * k + 3) - (4 + 3 * n) = 3 * k - 1
          /\ (3 * n + 3 * k + 4) - (4 + 3 * n) = 3 * k
          /\ (3 * n + 3 * k + 5) - (4 + 3 * n) = 3 * k + 1
      OBVIOUS
    <2>2. /\ t[3 * n + 3 * k + 3] = q[3 * k - 1] /\ t[3 * n + 3 * k + 4] = q[3 * k]
          /\ t[3 * n + 3 * k + 5] = q[3 * k + 1]
      BY <1>7, <2>1
    <2> QED
      BY <1>3, <2>2
  <1>11. Array.type # "string" /\ Object.type # "string"
    BY DEF Array, Object, Token
  <1>12. \A s, k : Quantity(s, k).type # "string" /\ Rate(s, k).type # "string"
    BY DEF Quantity, Rate, Token
  <1>13. ASSUME NEW i \in 1 .. 5 + 3 * n + 3 * m, i # 2, i # 4 + 3 * n
         PROVE  t[i].type # "string"
    <2>1. CASE i \in 4 .. 3 + 3 * n
      <3> DEFINE k == (i - 1) \div 3
      <3>1. k \in 1 .. n /\ (i = 3 * k + 1 \/ i = 3 * k + 2 \/ i = 3 * k + 3)
        BY <2>1
      <3> HIDE DEF k
      <3> QED
        BY <1>9, <1>11, <1>12, <3>1
    <2>2. CASE i \in 6 + 3 * n .. 5 + 3 * n + 3 * m
      <3> DEFINE k == ((i - 3 * n) - 3) \div 3
      <3>1. /\ k \in 1 .. m
            /\ i = 3 * n + 3 * k + 3 \/ i = 3 * n + 3 * k + 4 \/ i = 3 * n + 3 * k + 5
        BY <2>2
      <3> HIDE DEF k
      <3> QED
        BY <1>10, <1>11, <1>12, <3>1
    <2>3. CASE i \in {1, 3, 5 + 3 * n}
      BY <1>8, <1>11, <2>3
    <2> QED
      BY <1>13, <2>1, <2>2, <2>3
  <1> QED
    BY <1>1, <1>7, <1>8, <1>9, <1>10, <1>13 DEF AreTwoSides

LEMMA Btc38Book ==
  ASSUME NEW b \in Nat, NEW a \in Nat
  PROVE  BookTokens("btc38", b, a) = TwoSides(Key("bids"), "bid", b, Key("asks"), "ask", a)
  BY Zenon DEF BookTokens, TwoSides

PoloniexTail == <<Key("isFrozen"), Key("0"), Key("seq"), Bool(TRUE)>>

LEMMA PoloniexBook ==
  ASSUME NEW b \in Nat, NEW a \in Nat
  PROVE  BookTokens("poloniex", b, a)
           = TwoSides(Key("asks"), "ask", a, Key("bids"), "bid", b) \o PoloniexTail
  BY Zenon DEF BookTokens, TwoSides, PoloniexTail

BittrexHead ==
  <<Object, Key("success"), Bool(TRUE), Key("message"), Key(""), Key("result"), Object>>

LEMMA BittrexBook ==
  ASSUME NEW b \in Nat, NEW a \in Nat
  PROVE  BookTokens("bittrex", b, a)
           = BittrexHead \o <<Key("buy")>> \o EntrySide("bid", b) \o <<Key("sell")>> \o EntrySide("ask", a)
  BY Zenon DEF BookTokens, BittrexHead

-----------------------------------------------------------------------------
(* Where a token is found. *)

LEMMA FindIs ==
  ASSUME NEW from \in Nat, NEW t, NEW p \in Nat, IsSeq(tokens),
         from <= p, p < tokNo, Tok(p) = t,
         \A j \in Nat : from <= j /\ j < p => Tok(j) # t
  PROVE  FindToken(from, t) = p
  <1> DEFINE found == {i \in from .. tokNo - 1 : Tok(i) = t}
  <1>1. tokNo \in Nat /\ ~(from < 0)
    BY SeqFacts DEF tokNo
  <1>2. p \in found
    BY <1>1
  <1>3. \A j \in found : j \in Nat /\ p <= j
    BY <1>1
  <1>4. found # {} /\ \A i \in found : (\A j \in found : i <= j) <=> i = p
    BY <1>2, <1>3
  <1>5. FindToken(from, t) = CHOOSE i \in found : \A j \in found : i <= j
    BY <1>1, <1>4, Zenon DEF FindToken
  <1>6. \A i \in found : (\A j \in found : i <= j) => i = p
    BY <1>4
  <1>7. \A j \in found : p <= j
    BY <1>3
  <1> HIDE DEF found
  <1> QED
    BY <1>2, <1>5, <1>6, <1>7, Zenon

LEMMA FindNone ==
  ASSUME NEW from \in Nat, NEW t, IsSeq(tokens),
         \A j \in Nat : from <= j /\ j < tokNo => Tok(j) # t
  PROVE  FindToken(from, t) = -1
  <1>1. tokNo \in Nat /\ ~(from < 0)
    BY SeqFacts DEF tokNo
  <1>2. {i \in from .. tokNo - 1 : Tok(i) = t} = {}
    BY <1>1
  <1> QED
    BY <1>1, <1>2, Zenon DEF FindToken

(* What is found is a token behind the position, the one looked for. *)
LEMMA LeastNat ==
  ASSUME NEW S, S \subseteq Nat, S # {}
  PROVE  \E x \in S : \A y \in S : x <= y
  <1>1. PICK x \in S : \A y \in S : ~(<<y, x>> \in OpToRel(<, Nat))
    BY WFMin, NatLessThanWellFounded, Zenon
  <1>2. \A y \in S : <<y, x>> \in OpToRel(<, Nat) <=> y < x
    BY DEF OpToRel
  <1>3. \A y \in S : ~(y < x)
    BY <1>1, <1>2, Zenon
  <1>4. x \in Nat /\ \A y \in S : y \in Nat
    OBVIOUS
  <1>5. \A y \in S : x <= y
    BY <1>3, <1>4
  <1> QED
    BY <1>5

LEMMA FindBound ==
  ASSUME NEW from \in Nat, NEW t, IsSeq(tokens)
  PROVE  LET p == FindToken(from, t)
         IN  p = -1 \/ (p \in 0 .. tokNo - 1 /\ p \in from .. tokNo - 1 /\ Tok(p) = t)
  <1> DEFINE found == {i \in from .. tokNo - 1 : Tok(i) = t}
  <1>1. tokNo \in Nat /\ ~(from < 0)
    BY SeqFacts DEF tokNo
  <1>2. CASE found = {}
    BY <1>1, <1>2, Zenon DEF FindToken
  <1>3. CASE found # {}
    <2>1. found \subseteq Nat
      BY <1>1
    <2>2. \E i \in found : \A j \in found : i <= j
      BY <1>3, <2>1, LeastNat, Zenon
    <2>3. FindToken(from, t) = CHOOSE i \in found : \A j \in found : i <= j
      BY <1>1, <1>3, Zenon DEF FindToken
    <2>4. FindToken(from, t) \in found
      <3> HIDE DEF found
      <3> QED
        BY <2>2, <2>3, Zenon
    <2> QED
      BY <1>1, <2>4
  <1> QED
    BY <1>2, <1>3

(* The value of a key that is found with a token behind it, and of one that *)
(* is not found.                                                            *)
LEMMA ValueIs ==
  ASSUME IsSeq(tokens), NEW from, NEW k, NEW type, NEW p \in Nat, Find(from, k) = p,
         p + 1 < tokNo, Tok(p + 1).type = type
  PROVE  /\ Value(from, k, type) = p + 1
         /\ from \notin {0, Beyond} => ValueAfter(from, k, type) = p + 1
  <1>1. tokNo \in Nat
    BY SeqFacts DEF tokNo
  <1>2. p # -1 /\ p # Beyond /\ Parsed(p + 1)
    BY <1>1 DEF Beyond, Parsed
  <1> QED
    BY <1>2, Zenon DEF Value, ValueAfter

LEMMA ValueNone ==
  ASSUME NEW from, NEW k, NEW type, Find(from, k) = -1
  PROVE  /\ Value(from, k, type) = 0
         /\ from # Beyond => ValueAfter(from, k, type) = 0
  BY Zenon DEF Value, ValueAfter

(* Where the value of a key is; it is beyond the tokens only where the key  *)
(* is the last of them.                                                     *)
EndsWith(k) == tokNo > 0 /\ Tok(tokNo - 1) = Key(k)

LEMMA ValueBound ==
  ASSUME IsSeq(tokens), NEW from \in Nat, NEW k, NEW type
  PROVE  LET v == Value(from, k, type)
         IN  v \in 0 .. tokNo - 1 \/ v = 0 \/ (v = Beyond /\ EndsWith(k))
  <1> DEFINE p == Find(from, k)
  <1>1. tokNo \in Nat
    BY SeqFacts DEF tokNo
  <1>2. p = -1 \/ (p \in 0 .. tokNo - 1 /\ Tok(p) = Key(k))
    BY FindBound DEF Find
  <1>3. CASE p = -1
    BY <1>3, ValueNone
  <1>4. CASE p # -1
    <2>1. p \in Nat /\ p <= tokNo - 1 /\ Tok(p) = Key(k) /\ p # Beyond
      BY <1>1, <1>2, <1>4 DEF Beyond
    <2>2. Value(from, k, type)
            = IF ~Parsed(p + 1) THEN Beyond ELSE IF Tok(p + 1).type = type THEN p + 1 ELSE 0
      BY <1>4, <2>1, Zenon DEF Value
    <2> HIDE DEF p
    <2>3. CASE Parsed(p + 1)
      <3>1. p + 1 \in 0 .. tokNo - 1
        BY <2>3 DEF Parsed
      <3> QED
        BY <2>2, <2>3, <3>1
    <2>4. CASE ~Parsed(p + 1)
      <3>1. tokNo > 0 /\ p = tokNo - 1
        BY <1>1, <2>1, <2>4 DEF Parsed
      <3> QED
        BY <2>1, <2>2, <2>4, <3>1 DEF EndsWith
    <2> QED
      BY <2>3, <2>4
  <1> QED
    BY <1>3, <1>4

LEMMA ValueAfterBound ==
  ASSUME IsSeq(tokens), NEW at, at \in Nat \/ at = Beyond, NEW k, NEW type
  PROVE  LET v == ValueAfter(at, k, type)
         IN  \/ v \in 0 .. tokNo - 1 \/ v = 0
             \/ v = Beyond /\ (at = Beyond \/ EndsWith(k))
  <1>1. CASE at \in {0, Beyond}
    BY <1>1, Zenon DEF ValueAfter
  <1>2. CASE at \notin {0, Beyond}
    <2>1. ValueAfter(at, k, type) = Value(at, k, type)
      BY <1>2, Zenon DEF ValueAfter
    <2> QED
      BY <1>2, <2>1, ValueBound
  <1> QED
    BY <1>1, <1>2

IsBittrexBook(t, b, a) ==
  /\ IsSeq(t) /\ Len(t) = 11 + 5 * b + 5 * a
  /\ t[1] = Object /\ t[2] = Key("success") /\ t[3] = Bool(TRUE)
  /\ t[4] = Key("message") /\ t[5] = Key("") /\ t[6] = Key("result") /\ t[7] = Object
  /\ t[8] = Key("buy") /\ t[9] = Array
  /\ t[10 + 5 * b] = Key("sell") /\ t[11 + 5 * b] = Array
  /\ \A k \in 1 .. b : /\ t[5 * k + 5] = Object
                       /\ t[5 * k + 6] = Key("Quantity")
                       /\ t[5 * k + 7] = Quantity("bid", k)
                       /\ t[5 * k + 8] = Key("Rate")
                       /\ t[5 * k + 9] = Rate("bid", k)
  /\ \A k \in 1 .. a : /\ t[5 * b + 5 * k + 7]  = Object
                       /\ t[5 * b + 5 * k + 8]  = Key("Quantity")
                       /\ t[5 * b + 5 * k + 9]  = Quantity("ask", k)
                       /\ t[5 * b + 5 * k + 10] = Key("Rate")
                       /\ t[5 * b + 5 * k + 11] = Rate("ask", k)

LEMMA BittrexTokens ==
  ASSUME NEW b \in Nat, NEW a \in Nat
  PROVE  IsBittrexBook(BookTokens("bittrex", b, a), b, a)
  <1> DEFINE p  == EntrySide("bid", b)
             q  == EntrySide("ask", a)
             h  == BittrexHead
             e1 == <<Key("buy")>>
             e2 == <<Key("sell")>>
             t1 == h \o e1
             t2 == t1 \o p
             t3 == t2 \o e2
             t  == t3 \o q
  <1>1. BookTokens("bittrex", b, a) = t
    BY BittrexBook
  <1>2. /\ IsSeq(p) /\ Len(p) = 1 + 5 * b /\ p[1] = Array
        /\ \A k \in 1 .. b : /\ p[5 * k - 3] = Object
                             /\ p[5 * k - 2] = Key("Quantity")
                             /\ p[5 * k - 1] = Quantity("bid", k)
                             /\ p[5 * k]     = Key("Rate")
                             /\ p[5 * k + 1] = Rate("bid", k)
    BY EntrySideTokens
  <1>3. /\ IsSeq(q) /\ Len(q) = 1 + 5 * a /\ q[1] = Array
        /\ \A k \in 1 .. a : /\ q[5 * k - 3] = Object
                             /\ q[5 * k - 2] = Key("Quantity")
                             /\ q[5 * k - 1] = Quantity("ask", k)
                             /\ q[5 * k]     = Key("Rate")
                             /\ q[5 * k + 1] = Rate("ask", k)
    BY EntrySideTokens
  <1>4. /\ IsSeq(h) /\ Len(h) = 7 /\ h[1] = Object /\ h[2] = Key("success") /\ h[3] = Bool(TRUE)
        /\ h[4] = Key("message") /\ h[5] = Key("") /\ h[6] = Key("result") /\ h[7] = Object
    <2>1. IsSeq(h)
      BY Tuples DEF BittrexHead
    <2> QED
      BY <2>1 DEF BittrexHead
  <1>5. /\ IsSeq(e1) /\ Len(e1) = 1 /\ e1[1] = Key("buy")
        /\ IsSeq(e2) /\ Len(e2) = 1 /\ e2[1] = Key("sell")
    BY Tuples
  <1> HIDE DEF p, q, h, e1, e2, t1, t2, t3, t
  <1>6. /\ IsSeq(t1) /\ Len(t1) = 8 /\ t1[8] = Key("buy") /\ \A i \in 1 .. 7 : t1[i] = h[i]
    <2>1. /\ IsSeq(t1) /\ Len(t1) = Len(h) + Len(e1)
          /\ \A i \in 1 .. Len(h) : t1[i] = h[i]
          /\ \A i \in Len(h) + 1 .. Len(h) + Len(e1) : t1[i] = e1[i - Len(h)]
      BY <1>4, <1>5, ConcatFacts DEF t1
    <2>2. Len(h) = 7 /\ Len(e1) = 1 /\ e1[1] = Key("buy")
      BY <1>4, <1>5
    <2> QED
      BY <2>1, <2>2
  <1>7. /\ IsSeq(t2) /\ Len(t2) = 9 + 5 * b /\ \A i \in 1 .. 8 : t2[i] = t1[i]
        /\ \A i \in 9 .. 9 + 5 * b : t2[i] = p[i - 8]
    <2>1. /\ IsSeq(t2) /\ Len(t2) = Len(t1) + Len(p)
          /\ \A i \in 1 .. Len(t1) : t2[i] = t1[i]
          /\ \A i \in Len(t1) + 1 .. Len(t1) + Len(p) : t2[i] = p[i - Len(t1)]
      BY <1>2, <1>6, ConcatFacts DEF t2
    <2>2. Len(t1) = 8 /\ Len(p) = 1 + 5 * b
      BY <1>2, <1>6
    <2> QED
      BY <2>1, <2>2
  <1>8. /\ IsSeq(t3) /\ Len(t3) = 10 + 5 * b /\ t3[10 + 5 * b] = Key("sell")
        /\ \A i \in 1 .. 9 + 5 * b : t3[i] = t2[i]
    <2>1. /\ IsSeq(t3) /\ Len(t3) = Len(t2) + Len(e2)
          /\ \A i \in 1 .. Len(t2) : t3[i] = t2[i]
          /\ \A i \in Len(t2) + 1 .. Len(t2) + Len(e2) : t3[i] = e2[i - Len(t2)]
      BY <1>5, <1>7, ConcatFacts DEF t3
    <2>2. Len(t2) = 9 + 5 * b /\ Len(e2) = 1 /\ e2[1] = Key("sell")
      BY <1>5, <1>7
    <2> QED
      BY <2>1, <2>2
  <1>9. /\ IsSeq(t) /\ Len(t) = 11 + 5 * b + 5 * a
        /\ \A i \in 1 .. 10 + 5 * b : t[i] = t3[i]
        /\ \A i \in 11 + 5 * b .. 11 + 5 * b + 5 * a : t[i] = q[i - (10 + 5 * b)]
    <2>1. /\ IsSeq(t) /\ Len(t) = Len(t3) + Len(q)
          /\ \A i \in 1 .. Len(t3) : t[i] = t3[i]
          /\ \A i \in Len(t3) + 1 .. Len(t3) + Len(q) : t[i] = q[i - Len(t3)]
      BY <1>3, <1>8, ConcatFacts DEF t
    <2>2. Len(t3) = 10 + 5 * b /\ Len(q) = 1 + 5 * a
      BY <1>3, <1>8
    <2> QED
      BY <2>1, <2>2
  <1>10. /\ \A i \in 1 .. 7 : t[i] = h[i]
         /\ t[8] = Key("buy") /\ t[9] = Array
         /\ t[10 + 5 * b] = Key("sell") /\ t[11 + 5 * b] = Array
    BY <1>2, <1>3, <1>6, <1>7, <1>8, <1>9
  <1>11. /\ t[1] = Object /\ t[2] = Key("success") /\ t[3] = Bool(TRUE)
         /\ t[4] = Key("message") /\ t[5] = Key("") /\ t[6] = Key("result") /\ t[7] = Object
    <2>1. /\ t[1] = h[1] /\ t[2] = h[2] /\ t[3] = h[3] /\ t[4] = h[4]
          /\ t[5] = h[5] /\ t[6] = h[6] /\ t[7] = h[7]
      BY <1>10
    <2> QED
      BY <1>4, <2>1, Zenon
  <1>12. ASSUME NEW k \in 1 .. b
         PROVE  /\ t[5 * k + 5] = Object
                /\ t[5 * k + 6] = Key("Quantity")
                /\ t[5 * k + 7] = Quantity("bid", k)
                /\ t[5 * k + 8] = Key("Rate")
                /\ t[5 * k + 9] = Rate("bid", k)
    <2>1. \A i \in 9 .. 9 + 5 * b : t[i] = p[i - 8]
      BY <1>7, <1>8, <1>9
    <2>2. \A i \in 5 * k + 5 .. 5 * k + 9 : i \in 9 .. 9 + 5 * b
      OBVIOUS
    <2>3. /\ t[5 * k + 5] = p[5 * k - 3] /\ t[5 * k + 6] = p[5 * k - 2]
          /\ t[5 * k + 7] = p[5 * k - 1] /\ t[5 * k + 8] = p[5 * k]
          /\ t[5 * k + 9] = p[5 * k + 1]
      BY <2>1, <2>2
    <2> QED
      BY <1>2, <2>3
  <1>13. ASSUME NEW k \in 1 .. a
         PROVE  /\ t[5 * b + 5 * k + 7]  = Object
                /\ t[5 * b + 5 * k + 8]  = Key("Quantity")
                /\ t[5 * b + 5 * k + 9]  = Quantity("ask", k)
                /\ t[5 * b + 5 * k + 10] = Key("Rate")
                /\ t[5 * b + 5 * k + 11] = Rate("ask", k)
    <2>1. \A i \in 5 * b + 5 * k + 7 .. 5 * b + 5 * k + 11 :
            i \in 11 + 5 * b .. 11 + 5 * b + 5 * a
      OBVIOUS
    <2>3. /\ (5 * b + 5 * k + 7) - (10 + 5 * b) = 5 * k - 3
          /\ (5 * b + 5 * k + 8) - (10 + 5 * b) = 5 * k - 2
          /\ (5 * b + 5 * k + 9) - (10 + 5 * b) = 5 * k - 1
          /\ (5 * b + 5 * k + 10) - (10 + 5 * b) = 5 * k
          /\ (5 * b + 5 * k + 11) - (10 + 5 * b) = 5 * k + 1
      OBVIOUS
    <2>4. \A i \in 5 * b + 5 * k + 7 .. 5 * b + 5 * k + 11 : t[i] = q[i - (10 + 5 * b)]
      BY <1>9, <2>1, Zenon
    <2>5. \A i : /\ i = 5 * b + 5 * k + 7 \/ i = 5 * b + 5 * k + 8 \/ i = 5 * b + 5 * k + 9
                   \/ i = 5 * b + 5 * k + 10 \/ i = 5 * b + 5 * k + 11
                 => t[i] = q[i - (10 + 5 * b)]
      BY <2>4
    <2>2. /\ t[5 * b + 5 * k + 7] = q[5 * k - 3] /\ t[5 * b + 5 * k + 8] = q[5 * k - 2]
          /\ t[5 * b + 5 * k + 9] = q[5 * k - 1] /\ t[5 * b + 5 * k + 10] = q[5 * k]
          /\ t[5 * b + 5 * k + 11] = q[5 * k + 1]
      BY <2>3, <2>5
    <2> QED
      BY <1>3, <2>2
  <1> QED
    BY <1>1, <1>9, <1>10, <1>11, <1>12, <1>13 DEF IsBittrexBook

-----------------------------------------------------------------------------
(* Every document is a sequence of tokens. *)

LEMMA BlocksIsSeq ==
  ASSUME NEW bs, IsSeq(bs), NEW m \in Nat, NEW h, IsSeq(h),
         \A k \in 1 .. Len(bs) : Len(bs[k]) = m
  PROVE  IsSeq(h \o Flat(bs))
  <1>1. IsSeq(Flat(bs))
    BY FlatFacts
  <1> QED
    BY <1>1, ConcatFacts

LEMMA IndexedIsSeq ==
  ASSUME NEW n \in Nat, NEW f, DOMAIN f = 1 .. n, f = [k \in 1 .. n |-> f[k]]
  PROVE  IsSeq(f) /\ Len(f) = n
  <1> DEFINE S == {f[k] : k \in 1 .. n}
  <1>1. f \in [1 .. n -> S]
    OBVIOUS
  <1> HIDE DEF S
  <1>2. f \in Seq(S) /\ Len(f) = n
    BY <1>1
  <1> QED
    BY <1>2, SeqIsSeq

LEMMA MarketBlocks ==
  ASSUME NEW items, NEW k
  PROVE  /\ MarketBlock("btc38", items, k)
              = <<Coin(items[k], k), Object, Key("ticker"), Object, Key("last"), Bool(TRUE)>>
         /\ Len(MarketBlock("btc38", items, k)) = 6
         /\ Len(MarketBlock("poloniex", items, k)) = 4
         /\ Len(MarketBlock("bittrex", items, k)) = 11
  <1>1. MarketBlock("btc38", items, k)
          = <<Coin(items[k], k), Object, Key("ticker"), Object, Key("last"), Bool(TRUE)>>
    BY Zenon DEF MarketBlock
  <1>2. MarketBlock("poloniex", items, k) = <<Coin(items[k], k), Object, Key("id"), Bool(TRUE)>>
    BY Zenon DEF MarketBlock
  <1>3. MarketBlock("bittrex", items, k)
          = <<Object, Key("MarketCurrency"), Coin("market", k), Key("BaseCurrency"),
              IF items[k] = "null" THEN Null ELSE Coin("base", k),
              Key("MinTradeSize"), Bool(TRUE), Key("MarketName"), Coin("name", k),
              Key("IsActive"), Bool(items[k] # "inactive")>>
    BY Zenon DEF MarketBlock
  <1>4. Len(MarketBlock("btc38", items, k)) = 6
    BY <1>1
  <1>5. Len(MarketBlock("poloniex", items, k)) = 4
    BY <1>2
  <1>6. Len(MarketBlock("bittrex", items, k)) = 11
    BY <1>3
  <1> QED
    BY <1>1, <1>4, <1>5, <1>6

LEMMA MarketTokensIsSeq ==
  ASSUME NEW v \in Vendors, NEW items, Len(items) \in Nat
  PROVE  IsSeq(MarketTokens(v, items))
  <1> DEFINE bs == [k \in 1 .. Len(items) |-> MarketBlock(v, items, k)]
             h  == IF v = "bittrex"
                   THEN <<Object, Key("success"), Bool(TRUE), Key("message"), Key(""),
                          Key("result"), Array>>
                   ELSE <<Object>>
             m  == IF v = "btc38" THEN 6 ELSE IF v = "poloniex" THEN 4 ELSE 11
  <1>1. MarketTokens(v, items) = h \o Flat(bs)
    BY Zenon DEF MarketTokens
  <1>2. IsSeq(bs) /\ Len(bs) = Len(items)
    <2>1. DOMAIN bs = 1 .. Len(items) /\ bs = [k \in 1 .. Len(items) |-> bs[k]]
      OBVIOUS
    <2> HIDE DEF bs
    <2> QED
      BY <2>1, IndexedIsSeq
  <1>3. \A k \in 1 .. Len(bs) : Len(bs[k]) = m
    <2>1. ASSUME NEW k \in 1 .. Len(items) PROVE Len(MarketBlock(v, items, k)) = m
      BY MarketBlocks DEF Vendors
    <2> QED
      BY <1>2, <2>1
  <1>4. IsSeq(h)
    BY Tuples
  <1>5. m \in Nat
    OBVIOUS
  <1> HIDE DEF bs, h, m
  <1> QED
    BY <1>1, <1>2, <1>3, <1>4, <1>5, BlocksIsSeq

LEMMA BalanceTokensIsSeq ==
  ASSUME NEW v \in Vendors, NEW c, NEW account, Len(account) \in Nat
  PROVE  IsSeq(BalanceTokens(v, c, account))
  <1>1. CASE v = "bittrex"
    <2> DEFINE t == <<Object, Key("success"), Bool(TRUE), Key("message"), Key(""),
                      Key("result"), Object, Key("Currency"), Key(c),
                      Key("Balance"), Held(c, "Balance"),
                      Key("Available"), Held(c, "Available"),
                      Key("Pending"), Held(c, "Pending")>>
    <2>1. BalanceTokens(v, c, account) = t
      BY <1>1, Zenon DEF BalanceTokens
    <2>2. Len(t) = 15 /\ DOMAIN t = 1 .. 15 /\ t = [k \in 1 .. 15 |-> t[k]]
      OBVIOUS
    <2> HIDE DEF t
    <2> QED
      BY <2>1, <2>2, IndexedIsSeq
  <1>2. CASE v = "poloniex"
    <2> DEFINE bs == [k \in 1 .. Len(account) |-> PoloniexBlock(account[k])]
    <2>1. BalanceTokens(v, c, account) = <<Object>> \o Flat(bs)
      BY <1>2, Zenon DEF BalanceTokens
    <2>2. DOMAIN bs = 1 .. Len(account) /\ bs = [k \in 1 .. Len(account) |-> bs[k]]
      OBVIOUS
    <2>3. \A k \in 1 .. Len(account) : Len(bs[k]) = 8
      BY DEF PoloniexBlock
    <2> HIDE DEF bs
    <2>4. IsSeq(bs) /\ Len(bs) = Len(account)
      BY <2>2, IndexedIsSeq
    <2> QED
      BY <2>1, <2>3, <2>4, Tuples, BlocksIsSeq
  <1>3. CASE v = "btc38"
    <2> DEFINE bs == [k \in 1 .. Len(account) |-> Btc38Block(account[k])]
    <2>1. BalanceTokens(v, c, account) = <<Object>> \o Flat(bs)
      BY <1>3, Zenon DEF BalanceTokens
    <2>2. DOMAIN bs = 1 .. Len(account) /\ bs = [k \in 1 .. Len(account) |-> bs[k]]
      OBVIOUS
    <2>3. \A k \in 1 .. Len(account) : Len(bs[k]) = 4
      BY DEF Btc38Block
    <2> HIDE DEF bs
    <2>4. IsSeq(bs) /\ Len(bs) = Len(account)
      BY <2>2, IndexedIsSeq
    <2> QED
      BY <2>1, <2>3, <2>4, Tuples, BlocksIsSeq
  <1> QED
    BY <1>1, <1>2, <1>3 DEF Vendors

-----------------------------------------------------------------------------
(* Books: what one more level makes of an aligned list. *)

LEMMA AlignedIsSeq ==
  ASSUME NEW n \in Nat, NEW m \in Nat
  PROVE  /\ IsSeq(Aligned(n, m))
         /\ Len(Aligned(n, m)) = IF n > m THEN n ELSE m
         /\ \A k \in 1 .. IF n > m THEN n ELSE m :
              Aligned(n, m)[k] = [bid |-> LevelOf("bid", k, n), ask |-> LevelOf("ask", k, m)]
  <1> DEFINE top == IF n > m THEN n ELSE m
             s   == Aligned(n, m)
  <1>1. /\ top \in Nat /\ DOMAIN s = 1 .. top /\ s = [k \in 1 .. top |-> s[k]]
        /\ \A k \in 1 .. top :
             s[k] = [bid |-> LevelOf("bid", k, n), ask |-> LevelOf("ask", k, m)]
    BY DEF Aligned
  <1>2. IsSeq(s) /\ Len(s) = top
    <2> HIDE DEF s, top
    <2> QED
      BY <1>1, IndexedIsSeq
  <1> QED
    BY <1>1, <1>2

LEMMA SameSeq ==
  ASSUME NEW s, IsSeq(s), NEW t, IsSeq(t), Len(s) = Len(t),
         \A i \in 1 .. Len(s) : s[i] = t[i]
  PROVE  s = t
  <1> DEFINE S == {s[i] : i \in DOMAIN s} \cup {t[i] : i \in DOMAIN t}
  <1>1. s \in Seq(S) /\ t \in Seq(S)
    <2>1. s \in [1 .. Len(s) -> S] /\ Len(s) \in Nat /\ t \in [1 .. Len(t) -> S] /\ Len(t) \in Nat
      BY DEF IsSeq
    <2> QED
      BY <2>1
  <1> HIDE DEF S
  <1> QED
    BY <1>1

LEMMA AppendBid ==
  ASSUME NEW n \in Nat
  PROVE  Append(Aligned(n, 0), Bid(LevelOf("bid", n + 1, n + 1))) = Aligned(n + 1, 0)
  <1> DEFINE s == Aligned(n, 0)
             t == Aligned(n + 1, 0)
             e == Bid(LevelOf("bid", n + 1, n + 1))
             u == Append(s, e)
  <1>1. /\ IsSeq(s) /\ Len(s) = n
        /\ \A k \in 1 .. n : s[k] = [bid |-> LevelOf("bid", k, n), ask |-> LevelOf("ask", k, 0)]
    BY AlignedIsSeq
  <1>2. /\ IsSeq(t) /\ Len(t) = n + 1
        /\ \A k \in 1 .. n + 1 :
             t[k] = [bid |-> LevelOf("bid", k, n + 1), ask |-> LevelOf("ask", k, 0)]
    BY AlignedIsSeq
  <1> HIDE DEF s, t
  <1>3. e = [bid |-> LevelOf("bid", n + 1, n + 1), ask |-> LevelOf("ask", n + 1, 0)]
    BY DEF Bid, LevelOf
  <1>4. \A k \in 1 .. n : LevelOf("bid", k, n) = LevelOf("bid", k, n + 1)
    BY DEF LevelOf
  <1> HIDE DEF e, u
  <1>5. /\ IsSeq(u) /\ Len(u) = n + 1 /\ u[n + 1] = e
        /\ \A i \in 1 .. n : u[i] = s[i]
    BY <1>1, AppendFacts DEF u
  <1>6. \A i \in 1 .. n + 1 : u[i] = t[i]
    <2>1. ASSUME NEW i \in 1 .. n PROVE u[i] = t[i]
      BY <1>1, <1>2, <1>4, <1>5
    <2>2. u[n + 1] = t[n + 1]
      BY <1>2, <1>3, <1>5
    <2> QED
      BY <2>1, <2>2
  <1> QED
    BY <1>2, <1>5, <1>6, SameSeq DEF s, t, u, e

LEMMA AppendAsk ==
  ASSUME NEW n \in Nat
  PROVE  Append(Aligned(0, n), Ask(LevelOf("ask", n + 1, n + 1))) = Aligned(0, n + 1)
  <1> DEFINE s == Aligned(0, n)
             t == Aligned(0, n + 1)
             e == Ask(LevelOf("ask", n + 1, n + 1))
             u == Append(s, e)
  <1>1. /\ IsSeq(s) /\ Len(s) = n
        /\ \A k \in 1 .. n : s[k] = [bid |-> LevelOf("bid", k, 0), ask |-> LevelOf("ask", k, n)]
    BY AlignedIsSeq
  <1>2. /\ IsSeq(t) /\ Len(t) = n + 1
        /\ \A k \in 1 .. n + 1 :
             t[k] = [bid |-> LevelOf("bid", k, 0), ask |-> LevelOf("ask", k, n + 1)]
    BY AlignedIsSeq
  <1> HIDE DEF s, t
  <1>3. e = [bid |-> LevelOf("bid", n + 1, 0), ask |-> LevelOf("ask", n + 1, n + 1)]
    BY DEF Ask, LevelOf
  <1>4. \A k \in 1 .. n : LevelOf("ask", k, n) = LevelOf("ask", k, n + 1)
    BY DEF LevelOf
  <1> HIDE DEF e, u
  <1>5. /\ IsSeq(u) /\ Len(u) = n + 1 /\ u[n + 1] = e
        /\ \A i \in 1 .. n : u[i] = s[i]
    BY <1>1, AppendFacts DEF u
  <1>6. \A i \in 1 .. n + 1 : u[i] = t[i]
    <2>1. ASSUME NEW i \in 1 .. n PROVE u[i] = t[i]
      BY <1>1, <1>2, <1>4, <1>5
    <2>2. u[n + 1] = t[n + 1]
      BY <1>2, <1>3, <1>5
    <2> QED
      BY <2>1, <2>2
  <1> QED
    BY <1>2, <1>5, <1>6, SameSeq DEF s, t, u, e

(* The second side: the entry at current is filled in, or one is added. *)
LEMMA FillsAsk ==
  ASSUME NEW b \in Nat, NEW f \in Nat, list = Aligned(b, f), cur = f + 1
  PROVE  /\ FillAsk(LevelOf("ask", f + 1, f + 1)) = Aligned(b, f + 1)
         /\ Len(Aligned(b, f + 1)) >= f + 1
  <1> DEFINE s == Aligned(b, f)
             t == Aligned(b, f + 1)
             l == LevelOf("ask", f + 1, f + 1)
             top == IF b > f + 1 THEN b ELSE f + 1
  <1>1. /\ IsSeq(s) /\ Len(s) = IF b > f THEN b ELSE f
        /\ \A k \in 1 .. Len(s) :
             s[k] = [bid |-> LevelOf("bid", k, b), ask |-> LevelOf("ask", k, f)]
    BY AlignedIsSeq
  <1>2. /\ IsSeq(t) /\ Len(t) = top
        /\ \A k \in 1 .. top :
             t[k] = [bid |-> LevelOf("bid", k, b), ask |-> LevelOf("ask", k, f + 1)]
    BY AlignedIsSeq
  <1>3. \A k \in Nat : k # f + 1 => LevelOf("ask", k, f) = LevelOf("ask", k, f + 1)
    BY DEF LevelOf
  <1> HIDE DEF s, t
  <1>4. CASE f < b
    <2> DEFINE u == [s EXCEPT ![f + 1].ask = l]
    <2>1. FillAsk(l) = u
      <3>1. cur <= Len(list) /\ list = s /\ cur = f + 1
        BY <1>1, <1>4 DEF s
      <3> HIDE DEF l
      <3> QED
        BY <3>1 DEF FillAsk
    <2>2. Len(s) = b /\ top = b /\ DOMAIN s = 1 .. b /\ f + 1 \in 1 .. b
      BY <1>1, <1>4, SeqFacts
    <2>3. /\ DOMAIN u = 1 .. b /\ u[f + 1] = [s[f + 1] EXCEPT !.ask = l]
          /\ \A k \in 1 .. b : k # f + 1 => u[k] = s[k]
          /\ u = [k \in 1 .. b |-> u[k]]
      BY <2>2
    <2> HIDE DEF u
    <2>4. IsSeq(u) /\ Len(u) = b
      BY <2>3, IndexedIsSeq
    <2>5. u[f + 1] = t[f + 1]
      <3>1. s[f + 1] = [bid |-> LevelOf("bid", f + 1, b), ask |-> LevelOf("ask", f + 1, f)]
        BY <1>1, <2>2
      <3>2. t[f + 1] = [bid |-> LevelOf("bid", f + 1, b), ask |-> l]
        BY <1>2, <2>2
      <3> HIDE DEF l
      <3> QED
        BY <2>3, <3>1, <3>2
    <2>6. ASSUME NEW k \in 1 .. b, k # f + 1 PROVE u[k] = t[k]
      <3>1. s[k] = [bid |-> LevelOf("bid", k, b), ask |-> LevelOf("ask", k, f)]
        BY <1>1, <2>2
      <3>2. t[k] = [bid |-> LevelOf("bid", k, b), ask |-> LevelOf("ask", k, f + 1)]
        BY <1>2, <2>2
      <3>3. LevelOf("ask", k, f) = LevelOf("ask", k, f + 1)
        BY <1>3, <2>6
      <3> QED
        BY <2>3, <2>6, <3>1, <3>2, <3>3, Zenon
    <2>7. \A k \in 1 .. b : u[k] = t[k]
      BY <2>5, <2>6
    <2> QED
      BY <1>2, <2>1, <2>2, <2>4, <2>7, SameSeq DEF t
  <1>5. CASE ~(f < b)
    <2> DEFINE u == Append(s, Ask(l))
    <2>1. FillAsk(l) = u
      BY <1>1, <1>5 DEF FillAsk, s
    <2>2. Len(s) = f /\ top = f + 1
      BY <1>1, <1>5
    <2>3. Ask(l) = [bid |-> LevelOf("bid", f + 1, b), ask |-> LevelOf("ask", f + 1, f + 1)]
      BY <1>5 DEF Ask, LevelOf
    <2>4. /\ IsSeq(u) /\ Len(u) = f + 1 /\ u[f + 1] = Ask(l)
          /\ \A k \in 1 .. f : u[k] = s[k]
      <3> HIDE DEF l
      <3> QED
        BY <1>1, <2>2, AppendFacts
    <2> HIDE DEF u, l
    <2>5. u[f + 1] = t[f + 1]
      BY <1>2, <2>2, <2>3, <2>4
    <2>6. ASSUME NEW k \in 1 .. f PROVE u[k] = t[k]
      <3>1. s[k] = [bid |-> LevelOf("bid", k, b), ask |-> LevelOf("ask", k, f)]
        BY <1>1, <2>2
      <3>2. k \in 1 .. top /\ k \in Nat /\ k # f + 1
        BY <2>2
      <3>3. t[k] = [bid |-> LevelOf("bid", k, b), ask |-> LevelOf("ask", k, f + 1)]
        BY <1>2, <3>2
      <3>4. LevelOf("ask", k, f) = LevelOf("ask", k, f + 1)
        BY <1>3, <3>2
      <3> QED
        BY <2>4, <3>1, <3>3, <3>4, Zenon
    <2>7. \A k \in 1 .. f + 1 : u[k] = t[k]
      BY <2>5, <2>6
    <2> QED
      BY <1>2, <2>1, <2>2, <2>4, <2>7, SameSeq DEF t, l
  <1> QED
    BY <1>4, <1>5

LEMMA FillsBid ==
  ASSUME NEW a \in Nat, NEW f \in Nat, list = Aligned(f, a), cur = f + 1
  PROVE  /\ FillBid(LevelOf("bid", f + 1, f + 1)) = Aligned(f + 1, a)
         /\ Len(Aligned(f + 1, a)) >= f + 1
  <1> DEFINE s == Aligned(f, a)
             t == Aligned(f + 1, a)
             l == LevelOf("bid", f + 1, f + 1)
             top == IF a > f + 1 THEN a ELSE f + 1
  <1>1. /\ IsSeq(s) /\ Len(s) = IF f > a THEN f ELSE a
        /\ \A k \in 1 .. Len(s) :
             s[k] = [bid |-> LevelOf("bid", k, f), ask |-> LevelOf("ask", k, a)]
    BY AlignedIsSeq
  <1>2. /\ IsSeq(t) /\ Len(t) = top
        /\ \A k \in 1 .. top :
             t[k] = [bid |-> LevelOf("bid", k, f + 1), ask |-> LevelOf("ask", k, a)]
    BY AlignedIsSeq
  <1>3. \A k \in Nat : k # f + 1 => LevelOf("bid", k, f) = LevelOf("bid", k, f + 1)
    BY DEF LevelOf
  <1> HIDE DEF s, t
  <1>4. CASE f < a
    <2> DEFINE u == [s EXCEPT ![f + 1].bid = l]
    <2>1. FillBid(l) = u
      <3>1. cur <= Len(list) /\ list = s /\ cur = f + 1
        BY <1>1, <1>4 DEF s
      <3> HIDE DEF l
      <3> QED
        BY <3>1 DEF FillBid
    <2>2. Len(s) = a /\ top = a /\ DOMAIN s = 1 .. a /\ f + 1 \in 1 .. a
      BY <1>1, <1>4, SeqFacts
    <2>3. /\ DOMAIN u = 1 .. a /\ u[f + 1] = [s[f + 1] EXCEPT !.bid = l]
          /\ \A k \in 1 .. a : k # f + 1 => u[k] = s[k]
          /\ u = [k \in 1 .. a |-> u[k]]
      BY <2>2
    <2> HIDE DEF u
    <2>4. IsSeq(u) /\ Len(u) = a
      BY <2>3, IndexedIsSeq
    <2>5. u[f + 1] = t[f + 1]
      <3>1. s[f + 1] = [bid |-> LevelOf("bid", f + 1, f), ask |-> LevelOf("ask", f + 1, a)]
        BY <1>1, <2>2
      <3>2. t[f + 1] = [bid |-> l, ask |-> LevelOf("ask", f + 1, a)]
        BY <1>2, <2>2
      <3> HIDE DEF l
      <3> QED
        BY <2>3, <3>1, <3>2
    <2>6. ASSUME NEW k \in 1 .. a, k # f + 1 PROVE u[k] = t[k]
      <3>1. s[k] = [bid |-> LevelOf("bid", k, f), ask |-> LevelOf("ask", k, a)]
        BY <1>1, <2>2
      <3>2. t[k] = [bid |-> LevelOf("bid", k, f + 1), ask |-> LevelOf("ask", k, a)]
        BY <1>2, <2>2
      <3>3. LevelOf("bid", k, f) = LevelOf("bid", k, f + 1)
        BY <1>3, <2>6
      <3> QED
        BY <2>3, <2>6, <3>1, <3>2, <3>3, Zenon
    <2>7. \A k \in 1 .. a : u[k] = t[k]
      BY <2>5, <2>6
    <2> QED
      BY <1>2, <2>1, <2>2, <2>4, <2>7, SameSeq DEF t
  <1>5. CASE ~(f < a)
    <2> DEFINE u == Append(s, Bid(l))
    <2>1. FillBid(l) = u
      BY <1>1, <1>5 DEF FillBid, s
    <2>2. Len(s) = f /\ top = f + 1
      BY <1>1, <1>5
    <2>3. Bid(l) = [bid |-> LevelOf("bid", f + 1, f + 1), ask |-> LevelOf("ask", f + 1, a)]
      BY <1>5 DEF Bid, LevelOf
    <2>4. /\ IsSeq(u) /\ Len(u) = f + 1 /\ u[f + 1] = Bid(l)
          /\ \A k \in 1 .. f : u[k] = s[k]
      <3> HIDE DEF l
      <3> QED
        BY <1>1, <2>2, AppendFacts
    <2> HIDE DEF u, l
    <2>5. u[f + 1] = t[f + 1]
      BY <1>2, <2>2, <2>3, <2>4
    <2>6. ASSUME NEW k \in 1 .. f PROVE u[k] = t[k]
      <3>1. s[k] = [bid |-> LevelOf("bid", k, f), ask |-> LevelOf("ask", k, a)]
        BY <1>1, <2>2
      <3>2. k \in 1 .. top /\ k \in Nat /\ k # f + 1
        BY <2>2
      <3>3. t[k] = [bid |-> LevelOf("bid", k, f + 1), ask |-> LevelOf("ask", k, a)]
        BY <1>2, <3>2
      <3>4. LevelOf("bid", k, f) = LevelOf("bid", k, f + 1)
        BY <1>3, <3>2
      <3> QED
        BY <2>4, <3>1, <3>3, <3>4, Zenon
    <2>7. \A k \in 1 .. f + 1 : u[k] = t[k]
      BY <2>5, <2>6
    <2> QED
      BY <1>2, <2>1, <2>2, <2>4, <2>7, SameSeq DEF t, l
  <1> QED
    BY <1>4, <1>5

-----------------------------------------------------------------------------
(* What the walks find in a book. *)

LEMMA Strings ==
  /\ \A k : Key(k).type = "string"
  /\ \A j, k : Key(j) = Key(k) => j = k
  /\ Object.type = "object" /\ Array.type = "array"
  /\ \A b : Bool(b).type = "primitive"
  /\ \A s, k : Quantity(s, k).type = "primitive" /\ Rate(s, k).type = "primitive"
  /\ \A s, k : Quantity(s, k).text = <<s, k, 1>> /\ Rate(s, k).text = <<s, k, 2>>
  <1>1. \A j, k : Key(j) = Key(k) => j = k
    <2> SUFFICES ASSUME NEW j, NEW k, Key(j) = Key(k) PROVE j = k
      OBVIOUS
    <2>1. Key(j).text = <<j>> /\ Key(k).text = <<k>>
      BY DEF Key, Token
    <2>2. <<j>>[1] = j /\ <<k>>[1] = k
      OBVIOUS
    <2> QED
      BY <2>1, <2>2
  <1> QED
    BY <1>1 DEF Key, Object, Array, Bool, Quantity, Rate, Token

LEMMA Levelling ==
  ASSUME NEW i, NEW j, NEW side, NEW k \in Nat,
         Tok(i) = Quantity(side, k), Tok(j) = Rate(side, k)
  PROVE  Level(i, j) = LevelOf(side, k, k)
  <1>1. ~(k > k)
    OBVIOUS
  <1>2. Level(i, j) = <<<<side, k, 1>>, <<side, k, 2>>>>
    BY Strings DEF Level
  <1> QED
    BY <1>1, <1>2 DEF LevelOf

(* The two keys of a book of btc38 or poloniex, and the levels behind them. *)
TwoSidesFound(x, sideX, n, y, sideY, m) ==
  /\ Find(0, x) = 1 /\ Find(0, y) = 3 + 3 * n
  /\ \A k \in 1 .. n : Level(3 * k + 1, 3 * k + 2) = LevelOf(sideX, k, k)
  /\ \A k \in 1 .. m : Level(3 * n + 3 * k + 3, 3 * n + 3 * k + 4) = LevelOf(sideY, k, k)

LEMMA TwoSidesFinds ==
  ASSUME NEW x, NEW sideX, NEW n \in Nat, NEW y, NEW sideY, NEW m \in Nat, x # y,
         NEW t, t = TwoSides(Key(x), sideX, n, Key(y), sideY, m),
         IsSeq(tokens), tokNo >= Len(t), \A i \in 1 .. Len(t) : tokens[i] = t[i]
  PROVE  TwoSidesFound(x, sideX, n, y, sideY, m)
  <1> DEFINE N == 5 + 3 * n + 3 * m
  <1>1. /\ Len(t) = N
        /\ t[1] = Object /\ t[2] = Key(x) /\ t[4 + 3 * n] = Key(y)
        /\ \A k \in 1 .. n : t[3 * k + 2] = Quantity(sideX, k) /\ t[3 * k + 3] = Rate(sideX, k)
        /\ \A k \in 1 .. m : /\ t[3 * n + 3 * k + 4] = Quantity(sideY, k)
                             /\ t[3 * n + 3 * k + 5] = Rate(sideY, k)
        /\ \A i \in 1 .. N : i # 2 /\ i # 4 + 3 * n => t[i].type # "string"
    <2>1. AreTwoSides(t, Key(x), sideX, n, Key(y), sideY, m)
      BY TwoSidesTokens, Zenon
    <2> QED
      BY <2>1 DEF AreTwoSides
  <1>2. tokNo \in Nat /\ N \in Nat /\ tokNo >= N /\ \A i \in 1 .. N : tokens[i] = t[i]
    BY <1>1, SeqFacts DEF tokNo
  <1>3. Find(0, x) = 1
    <2>1. Tok(1) = Key(x)
      BY <1>1, <1>2 DEF Tok
    <2>2. \A j \in Nat : 0 <= j /\ j < 1 => Tok(j) # Key(x)
      <3>1. Tok(0) = Object
        BY <1>1, <1>2 DEF Tok
      <3>2. Object # Key(x)
        BY Strings
      <3>3. \A j \in Nat : 0 <= j /\ j < 1 => j = 0
        OBVIOUS
      <3> QED
        BY <3>1, <3>2, <3>3, Zenon
    <2>3. 0 \in Nat /\ 1 \in Nat /\ 0 <= 1 /\ 1 < tokNo
      BY <1>2
    <2> QED
      BY <2>1, <2>2, <2>3, FindIs, Zenon DEF Find
  <1>4. Find(0, y) = 3 + 3 * n
    <2> DEFINE p == 3 + 3 * n
    <2>1. p \in Nat /\ 0 <= p /\ p < tokNo /\ 0 \in Nat /\ p + 1 = 4 + 3 * n /\ p + 1 \in 1 .. N
      BY <1>2
    <2>2. Tok(p) = Key(y)
      BY <1>1, <1>2, <2>1 DEF Tok
    <2>3. ASSUME NEW j \in Nat, j < p PROVE Tok(j) # Key(y)
      <3>1. j + 1 \in 1 .. N /\ j + 1 # 4 + 3 * n /\ Tok(j) = t[j + 1]
        BY <1>2, <2>1, <2>3 DEF Tok
      <3>2. CASE j + 1 = 2
        BY <1>1, <3>1, <3>2, Strings
      <3>3. CASE j + 1 # 2
        BY <1>1, <3>1, <3>3, Strings
      <3> QED
        BY <3>2, <3>3
    <2> HIDE DEF p
    <2>4. FindToken(0, Key(y)) = p
      <3>1. \A j \in Nat : 0 <= j /\ j < p => Tok(j) # Key(y)
        BY <2>3
      <3> QED
        BY <2>1, <2>2, <3>1, FindIs, Zenon
    <2> QED
      BY <2>4 DEF Find, p
  <1>5. ASSUME NEW k \in 1 .. n
        PROVE  Level(3 * k + 1, 3 * k + 2) = LevelOf(sideX, k, k)
    <2>1. /\ 3 * k + 2 \in 1 .. N /\ 3 * k + 3 \in 1 .. N
          /\ (3 * k + 1) + 1 = 3 * k + 2 /\ (3 * k + 2) + 1 = 3 * k + 3 /\ k \in Nat
      OBVIOUS
    <2>2. Tok(3 * k + 1) = Quantity(sideX, k) /\ Tok(3 * k + 2) = Rate(sideX, k)
      BY <1>1, <1>2, <2>1 DEF Tok
    <2> QED
      BY <2>1, <2>2, Levelling
  <1>6. ASSUME NEW k \in 1 .. m
        PROVE  Level(3 * n + 3 * k + 3, 3 * n + 3 * k + 4) = LevelOf(sideY, k, k)
    <2>1. /\ 3 * n + 3 * k + 4 \in 1 .. N /\ 3 * n + 3 * k + 5 \in 1 .. N
          /\ (3 * n + 3 * k + 3) + 1 = 3 * n + 3 * k + 4
          /\ (3 * n + 3 * k + 4) + 1 = 3 * n + 3 * k + 5 /\ k \in Nat
      OBVIOUS
    <2>2. /\ Tok(3 * n + 3 * k + 3) = Quantity(sideY, k)
          /\ Tok(3 * n + 3 * k + 4) = Rate(sideY, k)
      BY <1>1, <1>2, <2>1 DEF Tok
    <2> QED
      BY <2>1, <2>2, Levelling
  <1> QED
    BY <1>3, <1>4, <1>5, <1>6 DEF TwoSidesFound

LEMMA Btc38Finds ==
  ASSUME NEW b \in Nat, NEW a \in Nat, tokens = BookTokens("btc38", b, a),
         call.vendor = "btc38"
  PROVE  /\ IsSeq(tokens) /\ tokNo = 5 + 3 * b + 3 * a
         /\ BidPos = 1 /\ SellPos = 3 + 3 * b
         /\ \A k \in 1 .. b : Level(3 * k + 1, 3 * k + 2) = LevelOf("bid", k, k)
         /\ \A k \in 1 .. a : Level(3 * b + 3 * k + 3, 3 * b + 3 * k + 4) = LevelOf("ask", k, k)
  <1>1. tokens = TwoSides(Key("bids"), "bid", b, Key("asks"), "ask", a)
    BY Btc38Book
  <1>2. IsSeq(tokens) /\ Len(tokens) = 5 + 3 * b + 3 * a
    <2>1. AreTwoSides(tokens, Key("bids"), "bid", b, Key("asks"), "ask", a)
      BY <1>1, TwoSidesTokens, Zenon
    <2> QED
      BY <2>1 DEF AreTwoSides
  <1>3. tokNo >= Len(tokens) /\ "bids" # "asks"
    BY <1>2 DEF tokNo
  <1>4. TwoSidesFound("bids", "bid", b, "asks", "ask", a)
    BY <1>1, <1>2, <1>3, TwoSidesFinds
  <1>5. /\ Find(0, "bids") = 1 /\ Find(0, "asks") = 3 + 3 * b
        /\ \A k \in 1 .. b : Level(3 * k + 1, 3 * k + 2) = LevelOf("bid", k, k)
        /\ \A k \in 1 .. a : Level(3 * b + 3 * k + 3, 3 * b + 3 * k + 4) = LevelOf("ask", k, k)
    BY <1>4, Zenon DEF TwoSidesFound
  <1>6. SellPos = 3 + 3 * b /\ BidPos = 1
    BY <1>5 DEF SellPos, BidPos
  <1>7. tokNo = 5 + 3 * b + 3 * a
    BY <1>2 DEF tokNo
  <1> QED
    BY <1>2, <1>5, <1>6, <1>7, Zenon

LEMMA PoloniexFinds ==
  ASSUME NEW b \in Nat, NEW a \in Nat, tokens = BookTokens("poloniex", b, a),
         call.vendor = "poloniex"
  PROVE  /\ IsSeq(tokens) /\ tokNo = 9 + 3 * a + 3 * b
         /\ SellPos = 1 /\ BidPos = 3 + 3 * a
         /\ \A k \in 1 .. a : Level(3 * k + 1, 3 * k + 2) = LevelOf("ask", k, k)
         /\ \A k \in 1 .. b : Level(3 * a + 3 * k + 3, 3 * a + 3 * k + 4) = LevelOf("bid", k, k)
  <1> DEFINE t == TwoSides(Key("asks"), "ask", a, Key("bids"), "bid", b)
  <1>1. tokens = t \o PoloniexTail
    BY PoloniexBook, Zenon
  <1>2. IsSeq(t) /\ Len(t) = 5 + 3 * a + 3 * b
    <2>1. AreTwoSides(t, Key("asks"), "ask", a, Key("bids"), "bid", b)
      BY TwoSidesTokens, Zenon
    <2> QED
      BY <2>1 DEF AreTwoSides
  <1>3. IsSeq(PoloniexTail) /\ Len(PoloniexTail) = 4
    BY Tuples DEF PoloniexTail
  <1> HIDE DEF t
  <1>4. /\ IsSeq(tokens) /\ Len(tokens) = Len(t) + Len(PoloniexTail)
        /\ \A i \in 1 .. Len(t) : tokens[i] = t[i]
    <2> DEFINE u == t \o PoloniexTail
    <2>1. /\ IsSeq(u) /\ Len(u) = Len(t) + Len(PoloniexTail)
          /\ \A i \in 1 .. Len(t) : u[i] = t[i]
      BY <1>2, <1>3, ConcatFacts
    <2>2. tokens = u
      BY <1>1
    <2> HIDE DEF u
    <2> QED
      BY <2>1, <2>2
  <1>5. /\ Len(tokens) = 9 + 3 * a + 3 * b /\ tokNo >= Len(t) /\ "asks" # "bids"
    BY <1>2, <1>3, <1>4 DEF tokNo
  <1>6. TwoSidesFound("asks", "ask", a, "bids", "bid", b)
    BY <1>4, <1>5, TwoSidesFinds DEF t
  <1>7. /\ Find(0, "asks") = 1 /\ Find(0, "bids") = 3 + 3 * a
        /\ \A k \in 1 .. a : Level(3 * k + 1, 3 * k + 2) = LevelOf("ask", k, k)
        /\ \A k \in 1 .. b : Level(3 * a + 3 * k + 3, 3 * a + 3 * k + 4) = LevelOf("bid", k, k)
    BY <1>6, Zenon DEF TwoSidesFound
  <1>8. SellPos = 1 /\ BidPos = 3 + 3 * a
    BY <1>7 DEF SellPos, BidPos
  <1>9. tokNo = 9 + 3 * a + 3 * b
    BY <1>5 DEF tokNo
  <1> QED
    BY <1>4, <1>7, <1>8, <1>9, Zenon

(* One step of bittrex: the next quantity, and the rate behind it. *)
LEMMA NextLevel ==
  ASSUME IsSeq(tokens), pos \in Nat, pos # 0, NEW q \in Nat, NEW side, NEW k \in Nat,
         pos <= q, q + 3 < tokNo,
         Tok(q) = Key("Quantity"), Tok(q + 1) = Quantity(side, k),
         Tok(q + 2) = Key("Rate"), Tok(q + 3) = Rate(side, k),
         \A j \in Nat : pos <= j /\ j < q => Tok(j) # Key("Quantity")
  PROVE  /\ QuantityAt = q + 1 /\ RateAt = q + 3
         /\ Level(QuantityAt, RateAt) = LevelOf(side, k, k)
  <1>1. tokNo \in Nat
    BY SeqFacts DEF tokNo
  <1>2. Find(pos, "Quantity") = q
    <2>1. q < tokNo
      BY <1>1
    <2> QED
      BY <2>1, FindIs, ZenonT(60) DEF Find
  <1>3. q # -1 /\ q + 1 # 0
    OBVIOUS
  <1>4. QuantityAt = q + 1
    <2>1. Tok(q + 1).type = "primitive"
      BY Strings
    <2>2. QuantityAt = Value(pos, "Quantity", "primitive")
      <3>1. pos \notin {0, Beyond}
        BY DEF Beyond
      <3> QED
        BY <3>1, Zenon DEF QuantityAt, ValueAfter
    <2>3. q + 1 < tokNo
      BY <1>1
    <2> QED
      BY <1>2, <2>1, <2>2, <2>3, ValueIs, Zenon
  <1>5. Find(q + 1, "Rate") = q + 2
    <2>1. /\ q + 1 \in Nat /\ q + 2 \in Nat /\ q + 1 <= q + 2 /\ q + 2 < tokNo
          /\ \A j \in Nat : q + 1 <= j /\ j < q + 2 => j = q + 1
      BY <1>1
    <2>2. Tok(q + 1) # Key("Rate")
      BY Strings
    <2>3. \A j \in Nat : q + 1 <= j /\ j < q + 2 => Tok(j) # Key("Rate")
      BY <2>1, <2>2, Zenon
    <2> QED
      <3> DEFINE from == q + 1
                 p    == q + 2
      <3>1. /\ from \in Nat /\ p \in Nat /\ from <= p /\ p < tokNo /\ Tok(p) = Key("Rate")
            /\ \A j \in Nat : from <= j /\ j < p => Tok(j) # Key("Rate")
        BY <2>1, <2>3, Zenon
      <3> HIDE DEF from, p
      <3>2. FindToken(from, Key("Rate")) = p
        BY <3>1, FindIs
      <3> QED
        BY <3>2, Zenon DEF from, p, Find
  <1>6. RateAt = q + 3
    <2>1. Tok(q + 3).type = "primitive"
      BY Strings
    <2>2. RateAt = ValueAfter(q + 1, "Rate", "primitive") /\ q + 1 \notin {0, Beyond}
      BY <1>4 DEF RateAt, Beyond
    <2> DEFINE p == q + 2
    <2>3. p + 1 = q + 3 /\ p \in Nat /\ p + 1 < tokNo
      BY <1>1
    <2>4. Find(q + 1, "Rate") = p
      BY <1>5
    <2> HIDE DEF p
    <2> QED
      BY <2>1, <2>2, <2>3, <2>4, ValueIs
  <1> QED
    BY <1>4, <1>6, Levelling, Zenon

LEMMA NoNextLevel ==
  ASSUME IsSeq(tokens), pos \in Nat,
         \A j \in Nat : pos <= j /\ j < tokNo => Tok(j) # Key("Quantity")
  PROVE  RateAt = 0
  <1>1. Find(pos, "Quantity") = -1
    BY FindNone DEF Find
  <1>2. QuantityAt = 0
    <2>1. pos # Beyond
      BY DEF Beyond
    <2> QED
      BY <1>1, <2>1, ValueNone, Zenon DEF QuantityAt
  <1> QED
    BY <1>2, Zenon DEF RateAt, ValueAfter

(* The tokens of a book of bittrex, numbered as the code does. *)
LEMMA BittrexAt ==
  ASSUME NEW b \in Nat, NEW a \in Nat, tokens = BookTokens("bittrex", b, a)
  PROVE  /\ IsSeq(tokens) /\ tokNo = 11 + 5 * b + 5 * a
         /\ Tok(0) = Object /\ Tok(1) = Key("success") /\ Tok(2) = Bool(TRUE)
         /\ Tok(9 + 5 * b) = Key("sell")
         /\ \A j \in 2 .. 8 : Tok(j) # Key("Quantity") /\ Tok(j) # Key("sell")
         /\ \A k \in 1 .. b : /\ Tok(5 * k + 4) = Object
                              /\ Tok(5 * k + 5) = Key("Quantity")
                              /\ Tok(5 * k + 6) = Quantity("bid", k)
                              /\ Tok(5 * k + 7) = Key("Rate")
                              /\ Tok(5 * k + 8) = Rate("bid", k)
         /\ Tok(10 + 5 * b) = Array
         /\ \A k \in 1 .. a : /\ Tok(5 * b + 5 * k + 6)  = Object
                              /\ Tok(5 * b + 5 * k + 7)  = Key("Quantity")
                              /\ Tok(5 * b + 5 * k + 8)  = Quantity("ask", k)
                              /\ Tok(5 * b + 5 * k + 9)  = Key("Rate")
                              /\ Tok(5 * b + 5 * k + 10) = Rate("ask", k)
  <1>1. IsBittrexBook(tokens, b, a)
    BY BittrexTokens
  <1>2. IsSeq(tokens) /\ tokNo = 11 + 5 * b + 5 * a
    BY <1>1 DEF IsBittrexBook, tokNo
  <1>3. /\ Tok(0) = Object /\ Tok(1) = Key("success") /\ Tok(2) = Bool(TRUE)
        /\ Tok(3) = Key("message") /\ Tok(4) = Key("") /\ Tok(5) = Key("result")
        /\ Tok(6) = Object /\ Tok(7) = Key("buy") /\ Tok(8) = Array
    <2>1. /\ Tok(0) = tokens[1] /\ Tok(1) = tokens[2] /\ Tok(2) = tokens[3]
          /\ Tok(3) = tokens[4] /\ Tok(4) = tokens[5] /\ Tok(5) = tokens[6]
          /\ Tok(6) = tokens[7] /\ Tok(7) = tokens[8] /\ Tok(8) = tokens[9]
      BY DEF Tok
    <2> QED
      BY <1>1, <2>1, Zenon DEF IsBittrexBook
  <1>4. Tok(9 + 5 * b) = Key("sell") /\ Tok(10 + 5 * b) = Array
    <2>1. (9 + 5 * b) + 1 = 10 + 5 * b /\ (10 + 5 * b) + 1 = 11 + 5 * b
      OBVIOUS
    <2> QED
      BY <1>1, <2>1 DEF IsBittrexBook, Tok
  <1>5. \A j \in 2 .. 8 : Tok(j) # Key("Quantity") /\ Tok(j) # Key("sell")
    <2>1. \A k \in {"message", "", "result", "buy"} :
            Key(k) # Key("Quantity") /\ Key(k) # Key("sell")
      BY Strings
    <2>2. \A k : Object # Key(k) /\ Array # Key(k) /\ Bool(TRUE) # Key(k)
      BY Strings
    <2>3. ASSUME NEW j \in 2 .. 8
          PROVE  Tok(j) \in {Bool(TRUE), Key("message"), Key(""), Key("result"),
                             Object, Key("buy"), Array}
      <3>1. j = 2 \/ j = 3 \/ j = 4 \/ j = 5 \/ j = 6 \/ j = 7 \/ j = 8
        OBVIOUS
      <3> QED
        BY <1>3, <3>1, Zenon
    <2> QED
      BY <2>1, <2>2, <2>3
  <1>6. ASSUME NEW k \in 1 .. b
        PROVE  /\ Tok(5 * k + 4) = Object
               /\ Tok(5 * k + 5) = Key("Quantity")
               /\ Tok(5 * k + 6) = Quantity("bid", k)
               /\ Tok(5 * k + 7) = Key("Rate")
               /\ Tok(5 * k + 8) = Rate("bid", k)
    <2>1. /\ (5 * k + 4) + 1 = 5 * k + 5 /\ (5 * k + 5) + 1 = 5 * k + 6
          /\ (5 * k + 6) + 1 = 5 * k + 7 /\ (5 * k + 7) + 1 = 5 * k + 8
          /\ (5 * k + 8) + 1 = 5 * k + 9
      OBVIOUS
    <2>2. /\ tokens[5 * k + 5] = Object
          /\ tokens[5 * k + 6] = Key("Quantity")
          /\ tokens[5 * k + 7] = Quantity("bid", k)
          /\ tokens[5 * k + 8] = Key("Rate")
          /\ tokens[5 * k + 9] = Rate("bid", k)
      BY <1>1 DEF IsBittrexBook
    <2> QED
      BY <2>1, <2>2 DEF Tok
  <1>7. ASSUME NEW k \in 1 .. a
        PROVE  /\ Tok(5 * b + 5 * k + 6)  = Object
               /\ Tok(5 * b + 5 * k + 7)  = Key("Quantity")
               /\ Tok(5 * b + 5 * k + 8)  = Quantity("ask", k)
               /\ Tok(5 * b + 5 * k + 9)  = Key("Rate")
               /\ Tok(5 * b + 5 * k + 10) = Rate("ask", k)
    <2>1. /\ (5 * b + 5 * k + 6) + 1 = 5 * b + 5 * k + 7
          /\ (5 * b + 5 * k + 7) + 1 = 5 * b + 5 * k + 8
          /\ (5 * b + 5 * k + 8) + 1 = 5 * b + 5 * k + 9
          /\ (5 * b + 5 * k + 9) + 1 = 5 * b + 5 * k + 10
          /\ (5 * b + 5 * k + 10) + 1 = 5 * b + 5 * k + 11
      OBVIOUS
    <2>2. /\ tokens[5 * b + 5 * k + 7]  = Object
          /\ tokens[5 * b + 5 * k + 8]  = Key("Quantity")
          /\ tokens[5 * b + 5 * k + 9]  = Quantity("ask", k)
          /\ tokens[5 * b + 5 * k + 10] = Key("Rate")
          /\ tokens[5 * b + 5 * k + 11] = Rate("ask", k)
      BY <1>1 DEF IsBittrexBook
    <2> QED
      BY <2>1, <2>2 DEF Tok
  <1> QED
    BY <1>2, <1>3, <1>4, <1>5, <1>6, <1>7

LEMMA BittrexStarts ==
  ASSUME NEW b \in Nat, NEW a \in Nat, tokens = BookTokens("bittrex", b, a),
         call.vendor = "bittrex"
  PROVE  /\ Value(0, "success", "primitive") = 2 /\ Tok(2) = Bool(TRUE)
         /\ SellPos = 9 + 5 * b
  <1>1. /\ IsSeq(tokens) /\ tokNo = 11 + 5 * b + 5 * a
        /\ Tok(0) = Object /\ Tok(1) = Key("success") /\ Tok(2) = Bool(TRUE)
        /\ Tok(9 + 5 * b) = Key("sell")
        /\ \A j \in 2 .. 8 : Tok(j) # Key("sell")
        /\ \A k \in 1 .. b : /\ Tok(5 * k + 4) = Object
                             /\ Tok(5 * k + 5) = Key("Quantity")
                             /\ Tok(5 * k + 6) = Quantity("bid", k)
                             /\ Tok(5 * k + 7) = Key("Rate")
                             /\ Tok(5 * k + 8) = Rate("bid", k)
    BY BittrexAt
  <1>2. Value(0, "success", "primitive") = 2
    <2>1. \A j \in Nat : 0 <= j /\ j < 1 => Tok(j) # Key("success")
      <3>1. Tok(0) # Key("success")
        BY <1>1, Strings
      <3>2. \A j \in Nat : 0 <= j /\ j < 1 => j = 0
        OBVIOUS
      <3> QED
        BY <3>1, <3>2, Zenon
    <2>2. 0 \in Nat /\ 1 \in Nat /\ 0 <= 1 /\ 1 < tokNo /\ 1 + 1 = 2 /\ 1 # -1
      BY <1>1
    <2>3. Find(0, "success") = 1
      BY <1>1, <2>1, <2>2, FindIs, Zenon DEF Find
    <2>4. Tok(1 + 1).type = "primitive" /\ 1 + 1 < tokNo
      <3>1. Tok(2).type = "primitive"
        BY <1>1 DEF Bool, Token
      <3>2. 1 + 1 < tokNo
        BY <1>1
      <3> QED
        BY <2>2, <3>1, <3>2, Zenon
    <2> QED
      BY <1>1, <2>2, <2>3, <2>4, ValueIs
  <1>3. SellPos = 9 + 5 * b
    <2> DEFINE p == 9 + 5 * b
    <2>1. p \in Nat /\ 2 \in Nat /\ 2 <= p /\ p < tokNo
      BY <1>1
    <2>2. ASSUME NEW j \in Nat, 2 <= j, j < p PROVE Tok(j) # Key("sell")
      <3>1. CASE j \in 2 .. 8
        BY <1>1, <3>1
      <3>2. CASE j \in 9 .. 8 + 5 * b
        <4> DEFINE k == (j - 4) \div 5
        <4>1. /\ k \in 1 .. b
              /\ \/ j = 5 * k + 4 \/ j = 5 * k + 5 \/ j = 5 * k + 6
                 \/ j = 5 * k + 7 \/ j = 5 * k + 8
          BY <3>2
        <4> HIDE DEF k
        <4>2. Tok(j) \in {Object, Key("Quantity"), Quantity("bid", k), Key("Rate"), Rate("bid", k)}
          BY <1>1, <4>1
        <4> QED
          BY <4>2, Strings
      <3> QED
        BY <2>2, <3>1, <3>2
    <2>3. Tok(p) = Key("sell") /\ \A j \in Nat : 2 <= j /\ j < p => Tok(j) # Key("sell")
      BY <1>1, <2>2
    <2> HIDE DEF p
    <2>4. Find(2, "sell") = p
      BY <1>1, <2>1, <2>3, FindIs, Zenon DEF Find
    <2> QED
      BY <1>2, <2>4 DEF SellPos, p
  <1> QED
    BY <1>1, <1>2, <1>3

LEMMA BittrexBid ==
  ASSUME NEW b \in Nat, NEW a \in Nat, tokens = BookTokens("bittrex", b, a),
         NEW n \in Nat, n < b, pos = IF n = 0 THEN 2 ELSE 8 + 5 * n
  PROVE  /\ RateAt = 8 + 5 * (n + 1)
         /\ Level(QuantityAt, RateAt) = LevelOf("bid", n + 1, n + 1)
  <1> DEFINE k == n + 1
             q == 5 * k + 5
  <1>1. /\ IsSeq(tokens) /\ tokNo = 11 + 5 * b + 5 * a
        /\ \A j \in 2 .. 8 : Tok(j) # Key("Quantity")
        /\ \A i \in 1 .. b : /\ Tok(5 * i + 4) = Object
                             /\ Tok(5 * i + 5) = Key("Quantity")
                             /\ Tok(5 * i + 6) = Quantity("bid", i)
                             /\ Tok(5 * i + 7) = Key("Rate")
                             /\ Tok(5 * i + 8) = Rate("bid", i)
    BY BittrexAt
  <1>2. k \in 1 .. b /\ q \in Nat /\ pos \in Nat /\ pos # 0 /\ pos <= q /\ q + 3 < tokNo /\ k \in Nat
    BY <1>1
  <1>3. /\ Tok(q) = Key("Quantity") /\ Tok(q + 1) = Quantity("bid", k)
        /\ Tok(q + 2) = Key("Rate") /\ Tok(q + 3) = Rate("bid", k)
    <2>1. q + 1 = 5 * k + 6 /\ q + 2 = 5 * k + 7 /\ q + 3 = 5 * k + 8
      OBVIOUS
    <2> HIDE DEF k, q
    <2> QED
      BY <1>1, <1>2, <2>1 DEF q
  <1>4. ASSUME NEW j \in Nat, pos <= j, j < q PROVE Tok(j) # Key("Quantity")
    <2>1. Tok(5 * k + 4) = Object
      BY <1>1, <1>2
    <2>2. CASE n = 0
      <3>1. j \in 2 .. 8 \/ j = 5 * k + 4
        BY <1>4, <2>2
      <3> QED
        BY <1>1, <2>1, <3>1, Strings
    <2>3. CASE n # 0
      <3>1. j = 5 * n + 8 \/ j = 5 * k + 4
        BY <1>4, <2>3
      <3>2. n \in 1 .. b
        BY <2>3
      <3>3. Tok(5 * n + 8) = Rate("bid", n)
        BY <1>1, <3>2
      <3> QED
        BY <2>1, <3>1, <3>3, Strings
    <2> QED
      BY <2>2, <2>3
  <1>5. q + 3 = 8 + 5 * (n + 1)
    OBVIOUS
  <1> HIDE DEF k, q
  <1>6. RateAt = q + 3 /\ Level(QuantityAt, RateAt) = LevelOf("bid", k, k)
    BY <1>1, <1>2, <1>3, <1>4, NextLevel
  <1> QED
    BY <1>5, <1>6 DEF k

LEMMA BittrexAsk ==
  ASSUME NEW b \in Nat, NEW a \in Nat, tokens = BookTokens("bittrex", b, a),
         NEW f \in Nat, f < a,
         pos = IF f = 0 THEN 9 + 5 * b ELSE 10 + 5 * (b + f)
  PROVE  /\ RateAt = 10 + 5 * (b + (f + 1))
         /\ Level(QuantityAt, RateAt) = LevelOf("ask", f + 1, f + 1)
  <1> DEFINE k == f + 1
             q == 5 * b + 5 * k + 7
  <1>1. /\ IsSeq(tokens) /\ tokNo = 11 + 5 * b + 5 * a
        /\ Tok(9 + 5 * b) = Key("sell") /\ Tok(10 + 5 * b) = Array
        /\ \A i \in 1 .. a : /\ Tok(5 * b + 5 * i + 6)  = Object
                             /\ Tok(5 * b + 5 * i + 7)  = Key("Quantity")
                             /\ Tok(5 * b + 5 * i + 8)  = Quantity("ask", i)
                             /\ Tok(5 * b + 5 * i + 9)  = Key("Rate")
                             /\ Tok(5 * b + 5 * i + 10) = Rate("ask", i)
    BY BittrexAt
  <1>2. k \in 1 .. a /\ q \in Nat /\ pos \in Nat /\ pos # 0 /\ pos <= q /\ q + 3 < tokNo /\ k \in Nat
    BY <1>1
  <1>3. /\ Tok(q) = Key("Quantity") /\ Tok(q + 1) = Quantity("ask", k)
        /\ Tok(q + 2) = Key("Rate") /\ Tok(q + 3) = Rate("ask", k)
    <2>1. /\ q + 1 = 5 * b + 5 * k + 8 /\ q + 2 = 5 * b + 5 * k + 9
          /\ q + 3 = 5 * b + 5 * k + 10
      OBVIOUS
    <2> HIDE DEF k, q
    <2> QED
      BY <1>1, <1>2, <2>1 DEF q
  <1>4. ASSUME NEW j \in Nat, pos <= j, j < q PROVE Tok(j) # Key("Quantity")
    <2>1. Tok(5 * b + 5 * k + 6) = Object
      BY <1>1, <1>2
    <2>2. CASE f = 0
      <3>1. j = 9 + 5 * b \/ j = 10 + 5 * b \/ j = 5 * b + 5 * k + 6
        BY <1>4, <2>2
      <3> QED
        BY <1>1, <2>1, <3>1, Strings
    <2>3. CASE f # 0
      <3>1. j = 5 * b + 5 * f + 10 \/ j = 5 * b + 5 * k + 6
        BY <1>4, <2>3
      <3>2. f \in 1 .. a
        BY <2>3
      <3>3. Tok(5 * b + 5 * f + 10) = Rate("ask", f)
        BY <1>1, <3>2
      <3> QED
        BY <2>1, <3>1, <3>3, Strings
    <2> QED
      BY <2>2, <2>3
  <1>5. q + 3 = 10 + 5 * (b + (f + 1))
    OBVIOUS
  <1> HIDE DEF k, q
  <1>6. RateAt = q + 3 /\ Level(QuantityAt, RateAt) = LevelOf("ask", k, k)
    BY <1>1, <1>2, <1>3, <1>4, NextLevel
  <1> QED
    BY <1>5, <1>6 DEF k

(* Behind the last bid the walk comes to the first ask, if there is one. *)
LEMMA BittrexBeyond ==
  ASSUME NEW b \in Nat, NEW a \in Nat, tokens = BookTokens("bittrex", b, a),
         pos = IF b = 0 THEN 2 ELSE 8 + 5 * b
  PROVE  RateAt = IF a = 0 THEN 0 ELSE 15 + 5 * b
  <1>1. /\ IsSeq(tokens) /\ tokNo = 11 + 5 * b + 5 * a
        /\ \A j \in 2 .. 8 : Tok(j) # Key("Quantity")
        /\ Tok(9 + 5 * b) = Key("sell") /\ Tok(10 + 5 * b) = Array
        /\ \A i \in 1 .. b : Tok(5 * i + 8) = Rate("bid", i)
        /\ \A i \in 1 .. a : /\ Tok(5 * b + 5 * i + 6)  = Object
                             /\ Tok(5 * b + 5 * i + 7)  = Key("Quantity")
                             /\ Tok(5 * b + 5 * i + 8)  = Quantity("ask", i)
                             /\ Tok(5 * b + 5 * i + 9)  = Key("Rate")
                             /\ Tok(5 * b + 5 * i + 10) = Rate("ask", i)
    BY BittrexAt
  <1>2. ASSUME NEW j \in Nat, pos <= j, j < 11 + 5 * b PROVE Tok(j) # Key("Quantity")
    <2>1. j \in 2 .. 8 \/ j = 9 + 5 * b \/ j = 10 + 5 * b \/ (b # 0 /\ j = 5 * b + 8)
      BY <1>2
    <2>2. b # 0 => Tok(5 * b + 8) = Rate("bid", b)
      BY <1>1
    <2> QED
      BY <1>1, <2>1, <2>2, Strings
  <1>3. CASE a = 0
    <2>1. tokNo = 11 + 5 * b /\ pos \in Nat
      BY <1>1, <1>3
    <2>2. \A j \in Nat : pos <= j /\ j < tokNo => Tok(j) # Key("Quantity")
      BY <1>2, <2>1
    <2>3. RateAt = 0
      BY <1>1, <2>1, <2>2, NoNextLevel, Zenon
    <2> QED
      BY <1>3, <2>3
  <1>4. CASE a # 0
    <2> DEFINE q == 12 + 5 * b
    <2>1. 1 \in 1 .. a /\ 5 * b + 5 * 1 + 6 = 11 + 5 * b
      BY <1>4
    <2>2. /\ Tok(11 + 5 * b) = Object
          /\ Tok(q) = Key("Quantity") /\ Tok(q + 1) = Quantity("ask", 1)
          /\ Tok(q + 2) = Key("Rate") /\ Tok(q + 3) = Rate("ask", 1)
      <3>1. /\ q = 5 * b + 5 * 1 + 7 /\ q + 1 = 5 * b + 5 * 1 + 8
            /\ q + 2 = 5 * b + 5 * 1 + 9 /\ q + 3 = 5 * b + 5 * 1 + 10
        OBVIOUS
      <3> HIDE DEF q
      <3> QED
        BY <1>1, <2>1, <3>1
    <2>3. ASSUME NEW j \in Nat, pos <= j, j < q PROVE Tok(j) # Key("Quantity")
      <3>1. j < 11 + 5 * b \/ j = 11 + 5 * b
        BY <2>3
      <3> QED
        BY <1>2, <2>2, <2>3, <3>1, Strings
    <2>4. q \in Nat /\ 1 \in Nat /\ pos \in Nat /\ pos # 0 /\ pos <= q /\ q + 3 < tokNo
      BY <1>1, <1>4
    <2>5. q + 3 = 15 + 5 * b
      OBVIOUS
    <2> HIDE DEF q
    <2>6. RateAt = q + 3
      BY <1>1, <2>2, <2>3, <2>4, NextLevel
    <2> QED
      BY <1>4, <2>5, <2>6
  <1> QED
    BY <1>3, <1>4

LEMMA BittrexEnds ==
  ASSUME NEW b \in Nat, NEW a \in Nat, tokens = BookTokens("bittrex", b, a),
         pos = IF a = 0 THEN 9 + 5 * b ELSE 10 + 5 * (b + a)
  PROVE  RateAt = 0
  <1>1. /\ IsSeq(tokens) /\ tokNo = 11 + 5 * b + 5 * a
        /\ Tok(9 + 5 * b) = Key("sell") /\ Tok(10 + 5 * b) = Array
        /\ \A i \in 1 .. a : Tok(5 * b + 5 * i + 10) = Rate("ask", i)
    BY BittrexAt
  <1>2. ASSUME NEW j \in Nat, pos <= j, j < tokNo PROVE Tok(j) # Key("Quantity")
    <2>1. \/ j = 9 + 5 * b \/ j = 10 + 5 * b
          \/ a # 0 /\ j = 5 * b + 5 * a + 10
      BY <1>1, <1>2
    <2>2. a # 0 => Tok(5 * b + 5 * a + 10) = Rate("ask", a)
      BY <1>1
    <2> QED
      BY <1>1, <2>1, <2>2, Strings
  <1>3. pos \in Nat
    OBVIOUS
  <1> QED
    BY <1>1, <1>2, <1>3, NoNextLevel

-----------------------------------------------------------------------------
(* The ends of the documents that the exchanges send. *)

(* The last token of a document made of blocks, and its second one. *)
LEMMA BlocksEnd ==
  ASSUME NEW h, IsSeq(h), NEW bs, IsSeq(bs), NEW m \in {4, 6, 8, 11},
         \A k \in 1 .. Len(bs) : Len(bs[k]) = m
  PROVE  LET t == h \o Flat(bs)
         IN  /\ Len(bs) = 0 => Len(t) = Len(h) /\ \A i \in 1 .. Len(h) : t[i] = h[i]
             /\ Len(bs) > 0 => t[Len(t)] = bs[Len(bs)][m] /\ t[Len(h) + 1] = bs[1][1]
  <1> DEFINE B == Flat(bs)
             t == h \o B
             n == Len(bs)
  <1>1. n \in Nat /\ Len(h) \in Nat
    BY SeqFacts
  <1>2. /\ IsSeq(B) /\ Len(B) = n * m
        /\ \A i \in 1 .. n * m : B[i] = bs[1 + ((i - 1) \div m)][1 + ((i - 1) % m)]
    <2>1. m \in Nat
      OBVIOUS
    <2> QED
      BY <2>1, FlatFacts, Zenon
  <1>3. /\ Len(t) = Len(h) + Len(B)
        /\ \A i \in 1 .. Len(h) : t[i] = h[i]
        /\ \A i \in Len(h) + 1 .. Len(h) + Len(B) : t[i] = B[i - Len(h)]
    BY <1>2, ConcatFacts
  <1> HIDE DEF B, t, n
  <1>4. CASE n = 0
    <2>1. Len(B) = 0
      BY <1>2, <1>4
    <2> QED
      BY <1>1, <1>3, <1>4, <2>1 DEF t, n, B
  <1>5. CASE n > 0
    <2>1. /\ n * m \in 1 .. n * m /\ 1 \in 1 .. n * m
          /\ 1 + ((n * m - 1) \div m) = n /\ 1 + ((n * m - 1) % m) = m
          /\ 1 + ((1 - 1) \div m) = 1 /\ 1 + ((1 - 1) % m) = 1
      <3>1. CASE m = 4
        BY <1>1, <1>5, <3>1
      <3>2. CASE m = 6
        BY <1>1, <1>5, <3>2
      <3>3. CASE m = 8
        BY <1>1, <1>5, <3>3
      <3>4. CASE m = 11
        BY <1>1, <1>5, <3>4
      <3> QED
        BY <3>1, <3>2, <3>3, <3>4
    <2> DEFINE z == n * m
    <2>2. B[z] = bs[n][m] /\ B[1] = bs[1][1]
      <3>1. /\ B[z] = bs[1 + ((z - 1) \div m)][1 + ((z - 1) % m)]
            /\ B[1] = bs[1 + ((1 - 1) \div m)][1 + ((1 - 1) % m)]
        BY <1>2, <2>1
      <3> QED
        BY <2>1, <3>1
    <2>3. z \in Nat /\ z >= 1 /\ Len(B) = z
      BY <1>2, <2>1
    <2> HIDE DEF z
    <2>4. t[Len(t)] = B[z] /\ t[Len(h) + 1] = B[1]
      <3>1. Len(t) = Len(h) + z /\ Len(t) \in Len(h) + 1 .. Len(h) + Len(B)
            /\ Len(h) + 1 \in Len(h) + 1 .. Len(h) + Len(B)
            /\ Len(t) - Len(h) = z /\ (Len(h) + 1) - Len(h) = 1
        BY <1>1, <1>3, <2>3
      <3>2. t[Len(t)] = B[Len(t) - Len(h)] /\ t[Len(h) + 1] = B[(Len(h) + 1) - Len(h)]
        BY <1>3, <3>1
      <3> QED
        BY <3>1, <3>2
    <2> QED
      BY <1>5, <2>2, <2>4 DEF t, n, B
  <1> QED
    BY <1>1, <1>4, <1>5 DEF t, n, B

(* What no parser looks for. *)
LEMMA NotSought ==
  ASSUME NEW t, t.type # "string" \/ Len(t.text) = 3 \/ t = Key("no")
  PROVE  t \notin Sought
  <1> DEFINE S == {"success", "MarketCurrency", "BaseCurrency", "MinTradeSize", "MarketName",
                   "IsActive", "Quantity", "Rate", "Currency", "Balance", "Available",
                   "Pending", "available", "onOrders", "btcValue"}
  <1>1. ASSUME NEW k \in S PROVE t # Key(k)
    <2>1. Key(k).type = "string" /\ Key(k).text = <<k>> /\ Len(<<k>>) = 1
      BY DEF Key, Token
    <2>2. k # "no"
      OBVIOUS
    <2> HIDE DEF S
    <2> QED
      BY <2>1, <2>2, Strings
  <1>2. ASSUME NEW c, NEW what PROVE t # Btc38Key(c, what)
    <2>1. Btc38Key(c, what).type = "string" /\ Btc38Key(c, what).text = <<c, what>>
      BY DEF Btc38Key, Token
    <2>2. Len(<<c, what>>) = 2
      OBVIOUS
    <2>3. Key("no").text = <<"no">> /\ Len(<<"no">>) = 1
      BY DEF Key, Token
    <2> QED
      BY <2>1, <2>2, <2>3
  <1> HIDE DEF S
  <1>3. Sought = {Key(k) : k \in S} \cup
                   {Btc38Key(c, what) : c \in {Cut[d] : d \in Currencies},
                                        what \in {"_balance", "_balance_lock"}}
    BY DEF Sought, S
  <1> QED
    BY <1>1, <1>2, <1>3

Ends(t) == t # <<>> => t[Len(t)] \notin Sought

LEMMA BookEnds ==
  ASSUME NEW v \in Vendors, NEW b \in Nat, NEW a \in Nat
  PROVE  Ends(BookTokens(v, b, a))
  <1>1. Array \notin Sought /\ Bool(TRUE) \notin Sought /\ \A s, k : Rate(s, k) \notin Sought
    <2>1. /\ Array.type # "string" /\ Bool(TRUE).type # "string"
          /\ \A s, k : Rate(s, k).type # "string"
      BY Strings
    <2> QED
      BY <2>1, NotSought
  <1>2. CASE v = "btc38"
    <2> DEFINE t == BookTokens("btc38", b, a)
    <2>1. AreTwoSides(t, Key("bids"), "bid", b, Key("asks"), "ask", a)
      BY Btc38Book, TwoSidesTokens, Zenon
    <2> HIDE DEF t
    <2>2. CASE a = 0
      <3>1. Len(t) = 5 + 3 * b /\ t[5 + 3 * b] = Array
        BY <2>1, <2>2 DEF AreTwoSides
      <3> QED
        BY <1>1, <1>2, <3>1 DEF Ends, t
    <2>3. CASE a # 0
      <3>1. Len(t) = 3 * b + 3 * a + 5 /\ a \in 1 .. a
        BY <2>1, <2>3 DEF AreTwoSides
      <3>2. t[3 * b + 3 * a + 5] = Rate("ask", a)
        BY <2>1, <3>1 DEF AreTwoSides
      <3> QED
        BY <1>1, <1>2, <3>1, <3>2 DEF Ends, t
    <2> QED
      BY <2>2, <2>3
  <1>3. CASE v = "poloniex"
    <2> DEFINE t == TwoSides(Key("asks"), "ask", a, Key("bids"), "bid", b)
               u == t \o PoloniexTail
    <2>1. BookTokens(v, b, a) = u
      BY <1>3, PoloniexBook, Zenon
    <2>2. IsSeq(t) /\ Len(t) \in Nat
      <3>1. AreTwoSides(t, Key("asks"), "ask", a, Key("bids"), "bid", b)
        BY TwoSidesTokens, Zenon
      <3>2. IsSeq(t)
        BY <3>1 DEF AreTwoSides
      <3> QED
        BY <3>2, SeqFacts
    <2>3. IsSeq(PoloniexTail) /\ Len(PoloniexTail) = 4 /\ PoloniexTail[4] = Bool(TRUE)
      BY Tuples DEF PoloniexTail
    <2> HIDE DEF t
    <2>4. Len(u) = Len(t) + 4 /\ u[Len(t) + 4] = PoloniexTail[4]
      <3>1. /\ Len(u) = Len(t) + Len(PoloniexTail)
            /\ \A i \in Len(t) + 1 .. Len(t) + Len(PoloniexTail) : u[i] = PoloniexTail[i - Len(t)]
        BY <2>2, <2>3, ConcatFacts
      <3>2. Len(t) + 4 \in Len(t) + 1 .. Len(t) + 4 /\ (Len(t) + 4) - Len(t) = 4
        BY <2>2
      <3> HIDE DEF u
      <3> QED
        BY <2>3, <3>1, <3>2
    <2> HIDE DEF u
    <2> QED
      BY <1>1, <2>1, <2>3, <2>4 DEF Ends
  <1>4. CASE v = "bittrex"
    <2> DEFINE t == BookTokens("bittrex", b, a)
    <2>1. IsBittrexBook(t, b, a)
      BY BittrexTokens
    <2> HIDE DEF t
    <2>2. CASE a = 0
      <3>1. Len(t) = 11 + 5 * b /\ t[11 + 5 * b] = Array
        <4>1. Len(t) = 11 + 5 * b + 5 * a /\ t[11 + 5 * b] = Array
          BY <2>1, Zenon DEF IsBittrexBook
        <4> QED
          BY <2>2, <4>1
      <3> QED
        BY <1>1, <1>4, <3>1 DEF Ends, t
    <2>3. CASE a # 0
      <3>1. Len(t) = 5 * b + 5 * a + 11 /\ a \in 1 .. a
        <4>1. Len(t) = 11 + 5 * b + 5 * a
          BY <2>1, Zenon DEF IsBittrexBook
        <4> QED
          BY <2>3, <4>1
      <3>2. t[5 * b + 5 * a + 11] = Rate("ask", a)
        BY <2>1, <3>1 DEF IsBittrexBook
      <3> QED
        BY <1>1, <1>4, <3>1, <3>2 DEF Ends, t
    <2> QED
      BY <2>2, <2>3
  <1> QED
    BY <1>2, <1>3, <1>4 DEF Vendors

LEMMA ErrorEnds == ASSUME NEW v \in Vendors PROVE Ends(ErrorTokens(v))
  <1>1. Null \notin Sought /\ Key("no") \notin Sought
    <2>1. Null.type = "primitive"
      BY DEF Null, Token
    <2> QED
      BY <2>1, NotSought
  <1>2. CASE v = "bittrex"
    <2> DEFINE No == Bool(FALSE)
               t  == <<Object, Key("success"), No, Key("message"), Key("no"), Key("result"), Null>>
    <2>1. ErrorTokens(v) = t
      BY <1>2, Zenon DEF ErrorTokens
    <2>2. Len(t) = 7 /\ t[7] = Null
      OBVIOUS
    <2> HIDE DEF t
    <2> QED
      BY <1>1, <2>1, <2>2 DEF Ends
  <1>3. CASE v # "bittrex"
    <2> DEFINE t == <<Object, Key("error"), Key("no")>>
    <2>1. ErrorTokens(v) = t
      BY <1>3, Zenon DEF ErrorTokens
    <2>2. Len(t) = 3 /\ t[3] = Key("no")
      OBVIOUS
    <2> HIDE DEF t
    <2> QED
      BY <1>1, <2>1, <2>2 DEF Ends
  <1> QED
    BY <1>2, <1>3

(* In a list of markets, nothing that is looked for ends the document or is *)
(* its second token.                                                        *)
LEMMA MarketEnds ==
  ASSUME NEW v \in Vendors, NEW items, Len(items) \in Nat
  PROVE  LET t == MarketTokens(v, items)
         IN  /\ Ends(t)
             /\ v # "bittrex" /\ Len(t) > 1 => t[2] \notin {Key("ticker"), Key("id")}
  <1> DEFINE bs == [k \in 1 .. Len(items) |-> MarketBlock(v, items, k)]
             h  == IF v = "bittrex"
                   THEN <<Object, Key("success"), Bool(TRUE), Key("message"), Key(""),
                          Key("result"), Array>>
                   ELSE <<Object>>
             m  == IF v = "btc38" THEN 6 ELSE IF v = "poloniex" THEN 4 ELSE 11
             t  == h \o Flat(bs)
             y(k) == Bool(items[k] # "inactive")
  <1>1. MarketTokens(v, items) = t
    BY Zenon DEF MarketTokens
  <1>2. IsSeq(bs) /\ Len(bs) = Len(items) /\ \A k \in 1 .. Len(items) : bs[k] = MarketBlock(v, items, k)
    <2>1. /\ DOMAIN bs = 1 .. Len(items) /\ bs = [k \in 1 .. Len(items) |-> bs[k]]
          /\ \A k \in 1 .. Len(items) : bs[k] = MarketBlock(v, items, k)
      OBVIOUS
    <2> HIDE DEF bs
    <2> QED
      BY <2>1, IndexedIsSeq
  <1>3. ASSUME NEW k \in 1 .. Len(items)
        PROVE  /\ Len(bs[k]) = m /\ bs[k][m].type = "primitive"
               /\ v # "bittrex" => bs[k][1] = Coin(items[k], k)
    <2>1. CASE v = "btc38"
      <3>1. bs[k] = <<Coin(items[k], k), Object, Key("ticker"), Object, Key("last"), Bool(TRUE)>>
        BY <1>2, <2>1, MarketBlocks
      <3>2. m = 6 /\ Bool(TRUE).type = "primitive"
        BY <2>1, Strings
      <3> HIDE DEF bs, m
      <3>3. Len(bs[k]) = 6 /\ bs[k][6] = Bool(TRUE) /\ bs[k][1] = Coin(items[k], k)
        BY <3>1
      <3> QED
        BY <3>2, <3>3, Zenon
    <2>2. CASE v = "poloniex"
      <3>1. bs[k] = <<Coin(items[k], k), Object, Key("id"), Bool(TRUE)>>
        BY <1>2, <2>2, Zenon DEF MarketBlock
      <3>2. m = 4 /\ Bool(TRUE).type = "primitive"
        BY <2>2, Strings
      <3> HIDE DEF bs, m
      <3>3. Len(bs[k]) = 4 /\ bs[k][4] = Bool(TRUE) /\ bs[k][1] = Coin(items[k], k)
        BY <3>1
      <3> QED
        BY <3>2, <3>3, Zenon
    <2>3. CASE v = "bittrex"
      <3> DEFINE x == IF items[k] = "null" THEN Null ELSE Coin("base", k)
      <3>1. bs[k] = <<Object, Key("MarketCurrency"), Coin("market", k), Key("BaseCurrency"), x,
                      Key("MinTradeSize"), Bool(TRUE), Key("MarketName"), Coin("name", k),
                      Key("IsActive"), y(k)>>
        BY <1>2, <2>3, Zenon DEF MarketBlock
      <3>2. y(k).type = "primitive"
        BY DEF Bool, Token
      <3> HIDE DEF bs, x, y
      <3> QED
        BY <2>3, <3>1, <3>2
    <2> QED
      BY <2>1, <2>2, <2>3 DEF Vendors
  <1>4. IsSeq(h) /\ Len(h) \in {1, 7} /\ h[Len(h)].type # "string" /\ (v # "bittrex" => Len(h) = 1)
    <2>1. CASE v = "bittrex"
      <3> DEFINE g == <<Object, Key("success"), Bool(TRUE), Key("message"), Key(""), Key("result"), Array>>
      <3>1. IsSeq(g) /\ Len(g) = 7 /\ g[7].type = "array"
        BY Tuples, Strings
      <3>2. h = g
        BY <2>1
      <3> HIDE DEF g, h
      <3> QED
        BY <2>1, <3>1, <3>2
    <2>2. CASE v # "bittrex"
      <3>1. IsSeq(<<Object>>) /\ Len(<<Object>>) = 1 /\ <<Object>>[1].type = "object"
        BY Tuples, Strings
      <3>2. h = <<Object>>
        BY <2>2
      <3> QED
        BY <3>1, <3>2
    <2> QED
      BY <2>1, <2>2
  <1>5. m \in {4, 6, 8, 11}
    OBVIOUS
  <1> HIDE DEF bs, h, m
  <1>6. /\ Len(bs) = 0 => Len(t) = Len(h) /\ \A i \in 1 .. Len(h) : t[i] = h[i]
        /\ Len(bs) > 0 => t[Len(t)] = bs[Len(bs)][m] /\ t[Len(h) + 1] = bs[1][1]
    <2>1. \A k \in 1 .. Len(bs) : Len(bs[k]) = m
      BY <1>2, <1>3
    <2>2. IsSeq(h) /\ IsSeq(bs)
      BY <1>2, <1>4
    <2> QED
      BY <1>5, <2>1, <2>2, BlocksEnd, Zenon
  <1> HIDE DEF t
  <1>7. CASE Len(items) = 0
    <2>1. Len(t) = Len(h) /\ t[Len(h)] = h[Len(h)]
      BY <1>2, <1>4, <1>6, <1>7
    <2>2. t[Len(t)] \notin Sought
      BY <1>4, <2>1, NotSought
    <2> QED
      BY <1>1, <1>4, <2>1, <2>2 DEF Ends
  <1>8. CASE Len(items) > 0
    <2>1. t[Len(t)].type = "primitive" /\ t[Len(h) + 1] = bs[1][1]
      BY <1>2, <1>3, <1>6, <1>8
    <2>2. t[Len(t)] \notin Sought
      BY <2>1, NotSought
    <2>3. v # "bittrex" => t[2] = Coin(items[1], 1)
      <3>1. v # "bittrex" => bs[1][1] = Coin(items[1], 1)
        BY <1>3, <1>8
      <3>2. v # "bittrex" => Len(h) + 1 = 2
        <4>1. 1 + 1 = 2
          OBVIOUS
        <4> QED
          BY <1>4, <4>1, Zenon
      <3> QED
        BY <2>1, <3>1, <3>2
    <2>4. Coin(items[1], 1) \notin {Key("ticker"), Key("id")}
      <3>1. /\ Coin(items[1], 1).text = <<items[1], 1>> /\ Len(<<items[1], 1>>) = 2
            /\ \A k : Key(k).text = <<k>> /\ Len(<<k>>) = 1
        BY DEF Coin, Key, Token
      <3> QED
        BY <3>1
    <2> QED
      BY <1>1, <2>2, <2>3, <2>4 DEF Ends
  <1> QED
    BY <1>7, <1>8

LEMMA BalanceDocEnds ==
  ASSUME NEW v \in Vendors, NEW c, NEW account, Len(account) \in Nat
  PROVE  Ends(BalanceTokens(v, c, account))
  <1>1. \A d, what : Held(d, what) \notin Sought
    <2>1. ASSUME NEW d, NEW what PROVE Held(d, what) \notin Sought
      <3>1. Held(d, what).text = <<d, what, "number">> /\ Len(<<d, what, "number">>) = 3
        BY DEF Held, Token
      <3> QED
        BY <3>1, NotSought
    <2> QED
      BY <2>1
  <1>2. Object \notin Sought
    BY Strings, NotSought
  <1>3. CASE v = "bittrex"
    <2> DEFINE t == <<Object, Key("success"), Bool(TRUE), Key("message"), Key(""),
                      Key("result"), Object, Key("Currency"), Key(c),
                      Key("Balance"), Held(c, "Balance"),
                      Key("Available"), Held(c, "Available"),
                      Key("Pending"), Held(c, "Pending")>>
    <2>1. BalanceTokens(v, c, account) = t
      BY <1>3, Zenon DEF BalanceTokens
    <2>2. Len(t) = 15 /\ t[15] = Held(c, "Pending")
      OBVIOUS
    <2> HIDE DEF t
    <2> QED
      BY <1>1, <2>1, <2>2 DEF Ends
  <1>4. ASSUME NEW bs, IsSeq(bs), NEW m \in {4, 8},
               BalanceTokens(v, c, account) = <<Object>> \o Flat(bs),
               \A k \in 1 .. Len(bs) : Len(bs[k]) = m /\ bs[k][m] \notin Sought
        PROVE  Ends(BalanceTokens(v, c, account))
    <2> DEFINE h == <<Object>>
               t == h \o Flat(bs)
    <2>1. IsSeq(h) /\ Len(h) = 1 /\ h[1] = Object
      BY Tuples
    <2>2. Len(bs) \in Nat
      BY <1>4, SeqFacts
    <2> HIDE DEF h
    <2>3. /\ Len(bs) = 0 => Len(t) = Len(h) /\ \A i \in 1 .. Len(h) : t[i] = h[i]
          /\ Len(bs) > 0 => t[Len(t)] = bs[Len(bs)][m] /\ t[Len(h) + 1] = bs[1][1]
      <3>1. m \in {4, 6, 8, 11} /\ \A k \in 1 .. Len(bs) : Len(bs[k]) = m
        BY <1>4
      <3> QED
        BY <1>4, <2>1, <3>1, BlocksEnd, Zenon
    <2>4. BalanceTokens(v, c, account) = t
      BY <1>4 DEF h
    <2> HIDE DEF t
    <2>5. t[Len(t)] \notin Sought
      BY <1>2, <1>4, <2>1, <2>2, <2>3
    <2> QED
      BY <2>4, <2>5 DEF Ends
  <1>5. CASE v = "poloniex"
    <2> DEFINE bs == [k \in 1 .. Len(account) |-> PoloniexBlock(account[k])]
    <2>1. BalanceTokens(v, c, account) = <<Object>> \o Flat(bs)
      BY <1>5, Zenon DEF BalanceTokens
    <2>2. DOMAIN bs = 1 .. Len(account) /\ bs = [k \in 1 .. Len(account) |-> bs[k]]
      OBVIOUS
    <2>3. \A k \in 1 .. Len(account) : Len(bs[k]) = 8 /\ bs[k][8] = Held(account[k], "btcValue")
      BY DEF PoloniexBlock
    <2> HIDE DEF bs
    <2>4. IsSeq(bs) /\ Len(bs) = Len(account)
      BY <2>2, IndexedIsSeq
    <2>5. \A k \in 1 .. Len(bs) : Len(bs[k]) = 8 /\ bs[k][8] \notin Sought
      BY <1>1, <2>3, <2>4
    <2> QED
      BY <1>4, <2>1, <2>4, <2>5
  <1>6. CASE v = "btc38"
    <2> DEFINE bs == [k \in 1 .. Len(account) |-> Btc38Block(account[k])]
    <2>1. BalanceTokens(v, c, account) = <<Object>> \o Flat(bs)
      BY <1>6, Zenon DEF BalanceTokens
    <2>2. DOMAIN bs = 1 .. Len(account) /\ bs = [k \in 1 .. Len(account) |-> bs[k]]
      OBVIOUS
    <2>3. \A k \in 1 .. Len(account) : Len(bs[k]) = 4 /\ bs[k][4] = Held(account[k], "lock")
      BY DEF Btc38Block
    <2> HIDE DEF bs
    <2>4. IsSeq(bs) /\ Len(bs) = Len(account)
      BY <2>2, IndexedIsSeq
    <2>5. \A k \in 1 .. Len(bs) : Len(bs[k]) = 4 /\ bs[k][4] \notin Sought
      BY <1>1, <2>3, <2>4
    <2> QED
      BY <1>4, <2>1, <2>4, <2>5
  <1> QED
    BY <1>3, <1>5, <1>6 DEF Vendors
-----------------------------------------------------------------------------
(* What the exchanges may answer. *)

FailureKinds == {"failed", "unset", "empty", "garbled", "error"}
AnyKinds     == FailureKinds \cup {"other"}

Answers(op, d) ==
  /\ op = "books"   => d.kind \in AnyKinds \cup {"book"}
  /\ op = "markets" => d.kind \in AnyKinds \cup {"markets"}
  /\ op = "balance" => d.kind \in AnyKinds \cup {"balances"}
  /\ d.kind \in AnyKinds => d.bids = 0 /\ d.asks = 0 /\ d.items = <<>>
  /\ d.kind = "other" => IsSeq(d.tokens)
  /\ d.bids \in Nat /\ d.asks \in Nat
  /\ Len(d.items) \in Nat /\ (d.items # <<>> => Len(d.items) >= 1)

LEMMA EmptyItems == Len(<<>>) \in Nat
  OBVIOUS

LEMMA FailureAnswers ==
  ASSUME NEW d \in Failures, NEW op \in {"books", "markets", "balance"} PROVE Answers(op, d)
  <1>1. PICK k \in FailureKinds : d = Answer(k, 0, 0, <<>>)
    BY Zenon DEF Failures, Empty, FailureKinds
  <1>2. d.kind = k /\ d.bids = 0 /\ d.asks = 0 /\ d.items = <<>>
    BY <1>1 DEF Answer
  <1> QED
    BY <1>2, EmptyItems DEF Answers, FailureKinds, AnyKinds

LEMMA OtherAnswersAre ==
  ASSUME NEW d \in OtherAnswers, NEW op \in {"books", "markets", "balance"}
  PROVE  Answers(op, d)
  <1>1. PICK t \in Others :
          d = [kind |-> "other", bids |-> 0, asks |-> 0, items |-> <<>>, tokens |-> t]
    BY Zenon DEF OtherAnswers
  <1>2. d.kind = "other" /\ d.bids = 0 /\ d.asks = 0 /\ d.items = <<>> /\ d.tokens = t
    BY <1>1
  <1>3. IsSeq(t)
    BY OthersAssumption
  <1> QED
    BY <1>2, <1>3, EmptyItems DEF Answers, AnyKinds, FailureKinds

LEMMA LongEnough ==
  ASSUME NEW S, NEW s \in Seq(S) PROVE Len(s) \in Nat /\ (s # <<>> => Len(s) >= 1)
  OBVIOUS

LEMMA BookAnswersAre == ASSUME NEW d \in BookAnswers PROVE Answers("books", d)
  <1>1. CASE d \in Failures \cup OtherAnswers
    BY <1>1, FailureAnswers, OtherAnswersAre
  <1>2. CASE d \notin Failures \cup OtherAnswers
    <2>1. PICK b \in Levels, a \in Levels : d = Answer("book", b, a, <<>>)
      BY <1>2 DEF BookAnswers
    <2>2. d.kind = "book" /\ d.bids = b /\ d.asks = a /\ d.items = <<>>
      BY <2>1 DEF Answer
    <2>3. b \in Nat /\ a \in Nat
      BY LevelsAssumption
    <2> QED
      BY <2>2, <2>3 DEF Answers, AnyKinds, FailureKinds
  <1> QED
    BY <1>1, <1>2

LEMMA MarketAnswersAre ==
  ASSUME NEW v, NEW d \in MarketAnswers(v) PROVE Answers("markets", d)
  <1>1. CASE d \in Failures \cup OtherAnswers
    BY <1>1, FailureAnswers, OtherAnswersAre
  <1>2. CASE d \notin Failures \cup OtherAnswers
    <2>1. PICK m \in Markets : d = Answer("markets", 0, 0, m)
      BY <1>2, Zenon DEF MarketAnswers
    <2>2. d.kind = "markets" /\ d.bids = 0 /\ d.asks = 0 /\ d.items = m
      BY <2>1 DEF Answer
    <2>3. Len(m) \in Nat /\ (m # <<>> => Len(m) >= 1)
      BY MarketsAssumption, LongEnough
    <2> QED
      BY <2>2, <2>3 DEF Answers, AnyKinds, FailureKinds
  <1> QED
    BY <1>1, <1>2

LEMMA BalanceAnswersAre == ASSUME NEW d \in BalanceAnswers PROVE Answers("balance", d)
  <1>1. CASE d \in Failures \cup OtherAnswers
    BY <1>1, FailureAnswers, OtherAnswersAre
  <1>2. CASE d \notin Failures \cup OtherAnswers
    <2>1. PICK m \in Accounts : d = Answer("balances", 0, 0, m)
      BY <1>2, Zenon DEF BalanceAnswers
    <2>2. d.kind = "balances" /\ d.bids = 0 /\ d.asks = 0 /\ d.items = m
      BY <2>1 DEF Answer
    <2>3. Len(m) \in Nat /\ (m # <<>> => Len(m) >= 1)
      BY AccountsAssumption, LongEnough
    <2> QED
      BY <2>2, <2>3 DEF Answers, AnyKinds, FailureKinds
  <1> QED
    BY <1>1, <1>2

(* A call has one download, and that of the markets of btc38 has two. *)
LEMMA CallFacts ==
  ASSUME NEW c \in Calls
  PROVE  /\ c.op \in {"books", "markets", "balance"} /\ c.vendor \in Vendors
         /\ DOMAIN c.answers = IF c.op = "markets" /\ c.vendor = "btc38" THEN {1, 2} ELSE {1}
         /\ \A n \in DOMAIN c.answers : Answers(c.op, c.answers[n])
         /\ c.op = "balance" => c.currency \in Currencies
  <1> DEFINE P == /\ c.op \in {"books", "markets", "balance"} /\ c.vendor \in Vendors
                  /\ DOMAIN c.answers = IF c.op = "markets" /\ c.vendor = "btc38" THEN {1, 2} ELSE {1}
                  /\ \A n \in DOMAIN c.answers : Answers(c.op, c.answers[n])
                  /\ c.op = "balance" => c.currency \in Currencies
  <1>1. ASSUME NEW v \in Vendors, NEW a \in BookAnswers, c = ACall("books", v, "none", <<a>>)
        PROVE  P
    <2>1. c.op = "books" /\ c.vendor = v /\ c.answers = <<a>>
      BY <1>1 DEF ACall
    <2>2. DOMAIN c.answers = {1} /\ c.answers[1] = a
      BY <2>1
    <2> QED
      BY <2>1, <2>2, BookAnswersAre
  <1>2. ASSUME NEW a \in MarketAnswers("btc38"), NEW b \in MarketAnswers("btc38"),
               c = ACall("markets", "btc38", "none", <<a, b>>)
        PROVE  P
    <2>1. c.op = "markets" /\ c.vendor = "btc38" /\ c.answers = <<a, b>>
      BY <1>2 DEF ACall
    <2>2. DOMAIN c.answers = {1, 2} /\ c.answers[1] = a /\ c.answers[2] = b
      BY <2>1
    <2> QED
      BY <2>1, <2>2, MarketAnswersAre DEF Vendors
  <1>3. ASSUME NEW v \in {"bittrex", "poloniex"}, NEW a \in MarketAnswers(v),
               c = ACall("markets", v, "none", <<a>>)
        PROVE  P
    <2>1. c.op = "markets" /\ c.vendor = v /\ c.answers = <<a>>
      BY <1>3 DEF ACall
    <2>2. DOMAIN c.answers = {1} /\ c.answers[1] = a
      BY <2>1
    <2> QED
      BY <2>1, <2>2, MarketAnswersAre DEF Vendors
  <1>4. ASSUME NEW v \in Vendors, NEW u \in Currencies, NEW a \in BalanceAnswers,
               c = ACall("balance", v, u, <<a>>)
        PROVE  P
    <2>1. c.op = "balance" /\ c.vendor = v /\ c.answers = <<a>> /\ c.currency = u
      BY <1>4 DEF ACall
    <2>2. DOMAIN c.answers = {1} /\ c.answers[1] = a
      BY <2>1
    <2> QED
      BY <2>1, <2>2, BalanceAnswersAre
  <1> HIDE DEF P
  <1>5. P
    <2> DEFINE One(a)    == <<a>>
               Two(a, b) == <<a, b>>
               C1 == {ACall("books", v, "none", One(a)) : v \in Vendors, a \in BookAnswers}
               C2 == {ACall("markets", "btc38", "none", Two(a, b)) :
                        a \in MarketAnswers("btc38"), b \in MarketAnswers("btc38")}
               C3 == UNION {{ACall("markets", v, "none", One(a)) : a \in MarketAnswers(v)} :
                              v \in {"bittrex", "poloniex"}}
               C4 == {ACall("balance", v, u, One(a)) :
                        v \in Vendors, u \in Currencies, a \in BalanceAnswers}
    <2>1. c \in C1 \cup C2 \cup C3 \cup C4
      BY DEF Calls
    <2>2. /\ \A a : One(a) = <<a>>
          /\ \A a, b : Two(a, b) = <<a, b>>
      OBVIOUS
    <2> HIDE DEF One, Two
    <2>3. CASE c \in C1
      <3>1. PICK v \in Vendors, a \in BookAnswers : c = ACall("books", v, "none", One(a))
        BY <2>3
      <3> QED
        BY <1>1, <2>2, <3>1, Zenon
    <2>4. CASE c \in C2
      <3>1. PICK a \in MarketAnswers("btc38"), b \in MarketAnswers("btc38") :
              c = ACall("markets", "btc38", "none", Two(a, b))
        BY <2>4
      <3> QED
        BY <1>2, <2>2, <3>1, Zenon
    <2>5. CASE c \in C3
      <3>1. PICK v \in {"bittrex", "poloniex"} :
              c \in {ACall("markets", v, "none", One(a)) : a \in MarketAnswers(v)}
        BY <2>5, Zenon
      <3>2. PICK a \in MarketAnswers(v) : c = ACall("markets", v, "none", One(a))
        BY <3>1, Zenon
      <3> QED
        BY <1>3, <2>2, <3>2, Zenon
    <2>6. CASE c \in C4
      <3>1. PICK v \in Vendors, u \in Currencies, a \in BalanceAnswers :
              c = ACall("balance", v, u, One(a))
        BY <2>6
      <3> QED
        BY <1>4, <2>2, <3>1, Zenon
    <2> HIDE DEF C1, C2, C3, C4
    <2> QED
      BY <2>1, <2>3, <2>4, <2>5, <2>6, Zenon
  <1> QED
    BY <1>5 DEF P

(* The documents of a call are sequences of tokens. *)
LEMMA DocIsSeq ==
  ASSUME NEW d, Answers(call.op, d), call.vendor \in Vendors
  PROVE  IsSeq(TokensOf(d))
  <1>1. CASE d.kind = "book"
    <2>1. TokensOf(d) = BookTokens(call.vendor, d.bids, d.asks) /\ d.bids \in Nat /\ d.asks \in Nat
      BY <1>1, Zenon DEF TokensOf, Answers
    <2>2. CASE call.vendor = "btc38"
      <3>1. AreTwoSides(TokensOf(d), Key("bids"), "bid", d.bids, Key("asks"), "ask", d.asks)
        BY <2>1, <2>2, Btc38Book, TwoSidesTokens, Zenon
      <3> QED
        BY <3>1 DEF AreTwoSides
    <2>3. CASE call.vendor = "poloniex"
      <3> DEFINE t == TwoSides(Key("asks"), "ask", d.asks, Key("bids"), "bid", d.bids)
      <3>1. TokensOf(d) = t \o PoloniexTail
        BY <2>1, <2>3, PoloniexBook, Zenon
      <3>2. AreTwoSides(t, Key("asks"), "ask", d.asks, Key("bids"), "bid", d.bids)
        BY <2>1, TwoSidesTokens, Zenon
      <3> HIDE DEF t
      <3>3. IsSeq(t) /\ IsSeq(PoloniexTail)
        BY <3>2, Tuples DEF AreTwoSides, PoloniexTail
      <3> QED
        BY <3>1, <3>3, ConcatFacts
    <2>4. CASE call.vendor = "bittrex"
      <3>1. IsBittrexBook(TokensOf(d), d.bids, d.asks)
        BY <2>1, <2>4, BittrexTokens, Zenon
      <3> QED
        BY <3>1 DEF IsBittrexBook
    <2> QED
      BY <2>2, <2>3, <2>4 DEF Vendors
  <1>2. CASE d.kind = "markets"
    <2>1. TokensOf(d) = MarketTokens(call.vendor, d.items) /\ Len(d.items) \in Nat
      BY <1>2, Zenon DEF TokensOf, Answers
    <2> QED
      BY <2>1, MarketTokensIsSeq
  <1>3. CASE d.kind = "balances"
    <2>1. /\ TokensOf(d) = BalanceTokens(call.vendor, call.currency, d.items)
          /\ Len(d.items) \in Nat
      BY <1>3, Zenon DEF TokensOf, Answers
    <2> QED
      BY <2>1, BalanceTokensIsSeq
  <1>4. CASE d.kind = "error"
    <2>1. TokensOf(d) = ErrorTokens(call.vendor)
      BY <1>4, Zenon DEF TokensOf
    <2> QED
      BY <2>1, Tuples DEF ErrorTokens
  <1>5. CASE d.kind = "other"
    <2>1. TokensOf(d) = d.tokens
      BY <1>5, Zenon DEF TokensOf
    <2> QED
      BY <1>5, <2>1 DEF Answers
  <1>6. CASE d.kind \notin {"book", "markets", "balances", "error", "other"}
    <2>1. TokensOf(d) = <<>>
      BY <1>6, Zenon DEF TokensOf
    <2> QED
      BY <2>1, EmptyIsSeq
  <1> QED
    BY <1>1, <1>2, <1>3, <1>4, <1>5, <1>6

LEMMA ErrorFinds ==
  ASSUME call.vendor \in {"btc38", "poloniex"}, tokens = ErrorTokens(call.vendor)
  PROVE  IsSeq(tokens) /\ tokNo = 3 /\ BidPos = -1 /\ SellPos = -1
  <1>1. tokens = <<Object, Key("error"), Key("no")>>
    BY DEF ErrorTokens
  <1>2. IsSeq(tokens) /\ tokNo = 3
    BY <1>1, Tuples DEF tokNo
  <1>3. Tok(0) = Object /\ Tok(1) = Key("error") /\ Tok(2) = Key("no")
    <2>1. tokens[1] = Object /\ tokens[2] = Key("error") /\ tokens[3] = Key("no")
      BY <1>1
    <2> QED
      BY <2>1 DEF Tok
  <1>4. ASSUME NEW k \in {"bids", "asks"} PROVE Find(0, k) = -1
    <2>1. \A j \in Nat : 0 <= j /\ j < tokNo => j = 0 \/ j = 1 \/ j = 2
      BY <1>2
    <2>2. Object # Key(k) /\ Key("error") # Key(k) /\ Key("no") # Key(k)
      BY Strings
    <2>3. \A j \in Nat : 0 <= j /\ j < tokNo => Tok(j) # Key(k)
      BY <1>3, <2>1, <2>2, Zenon
    <2> QED
      BY <1>2, <2>3, FindNone DEF Find
  <1>5. Find(0, "bids") = -1 /\ Find(0, "asks") = -1
    BY <1>4
  <1> QED
    BY <1>2, <1>5 DEF BidPos, SellPos

LEMMA BittrexError ==
  ASSUME call.vendor = "bittrex", tokens = ErrorTokens(call.vendor)
  PROVE  LET s == Value(0, "success", "primitive") IN s = 2 /\ Tok(s) # Bool(TRUE)
  <1> DEFINE No == Bool(FALSE)
             t  == <<Object, Key("success"), No, Key("message"), Key("no"), Key("result"), Null>>
  <1>1. tokens = t
    BY Zenon DEF ErrorTokens
  <1>2. No.type = "primitive" /\ No # Bool(TRUE)
    <2>1. No.text = <<"false">> /\ Bool(TRUE).text = <<"true">> /\ No.type = "primitive"
      BY DEF Bool, Token
    <2>2. <<"false">>[1] = "false" /\ <<"true">>[1] = "true" /\ "false" # "true"
      OBVIOUS
    <2> QED
      BY <2>1, <2>2, Zenon
  <1> HIDE DEF No
  <1>3. /\ IsSeq(t) /\ Len(t) = 7
        /\ t[1] = Object /\ t[2] = Key("success") /\ t[3] = No
    BY Tuples
  <1> HIDE DEF t
  <1>4. IsSeq(tokens) /\ tokNo = 7
    BY <1>1, <1>3 DEF tokNo
  <1>5. Tok(0) = Object /\ Tok(1) = Key("success") /\ Tok(2) = No
    BY <1>1, <1>3 DEF Tok
  <1>6. Find(0, "success") = 1
    <2>1. \A j \in Nat : 0 <= j /\ j < 1 => Tok(j) # Key("success")
      <3>1. Tok(0) # Key("success")
        BY <1>5, Strings
      <3>2. \A j \in Nat : 0 <= j /\ j < 1 => j = 0
        OBVIOUS
      <3> QED
        BY <3>1, <3>2, Zenon
    <2>2. 0 \in Nat /\ 1 \in Nat /\ 0 <= 1 /\ 1 < tokNo
      BY <1>4
    <2> QED
      BY <1>4, <1>5, <2>1, <2>2, FindIs, Zenon DEF Find
  <1>7. Value(0, "success", "primitive") = 2
    <2>1. 1 + 1 = 2 /\ 1 \in Nat /\ 1 + 1 < tokNo
      BY <1>4
    <2> QED
      BY <1>2, <1>4, <1>5, <1>6, <2>1, ValueIs
  <1> QED
    BY <1>2, <1>5, <1>7, Zenon

(* The first market of btc38 is found, whatever it is called. *)
LEMMA FirstMarket ==
  ASSUME NEW items, Len(items) \in Nat, Len(items) >= 1, tokens = MarketTokens("btc38", items),
         pos = 1
  PROVE  NameOfNext("ticker") = 3
  <1> DEFINE bs == [k \in 1 .. Len(items) |-> MarketBlock("btc38", items, k)]
             h  == <<Object>>
             B  == Flat(bs)
  <1>1. tokens = h \o B
    BY Zenon DEF MarketTokens
  <1>2. IsSeq(bs) /\ Len(bs) = Len(items) /\ bs[1] = MarketBlock("btc38", items, 1)
    <2>1. /\ DOMAIN bs = 1 .. Len(items) /\ bs = [k \in 1 .. Len(items) |-> bs[k]]
          /\ bs[1] = MarketBlock("btc38", items, 1)
      OBVIOUS
    <2> HIDE DEF bs
    <2> QED
      BY <2>1, IndexedIsSeq
  <1>3. \A k \in 1 .. Len(bs) : Len(bs[k]) = 6
    BY <1>2, MarketBlocks
  <1>4. IsSeq(h) /\ Len(h) = 1 /\ h[1] = Object
    BY Tuples
  <1> HIDE DEF bs, h, B
  <1>5. /\ IsSeq(B) /\ Len(B) = Len(items) * 6
        /\ \A i \in 1 .. Len(items) * 6 : B[i] = bs[1 + ((i - 1) \div 6)][1 + ((i - 1) % 6)]
    <2>1. 6 \in Nat
      OBVIOUS
    <2>2. /\ IsSeq(B) /\ Len(B) = Len(bs) * 6
          /\ \A i \in 1 .. Len(bs) * 6 : B[i] = bs[1 + ((i - 1) \div 6)][1 + ((i - 1) % 6)]
      BY <1>2, <1>3, <2>1, FlatFacts, Zenon DEF B
    <2> QED
      BY <1>2, <2>2
  <1>6. B[1] = bs[1][1] /\ B[2] = bs[1][2] /\ B[3] = bs[1][3]
    <2>1. 1 \in 1 .. Len(items) * 6 /\ 2 \in 1 .. Len(items) * 6 /\ 3 \in 1 .. Len(items) * 6
      OBVIOUS
    <2>2. /\ 1 + ((1 - 1) \div 6) = 1 /\ 1 + ((1 - 1) % 6) = 1
          /\ 1 + ((2 - 1) \div 6) = 1 /\ 1 + ((2 - 1) % 6) = 2
          /\ 1 + ((3 - 1) \div 6) = 1 /\ 1 + ((3 - 1) % 6) = 3
      OBVIOUS
    <2>3. /\ B[1] = bs[1 + ((1 - 1) \div 6)][1 + ((1 - 1) % 6)]
          /\ B[2] = bs[1 + ((2 - 1) \div 6)][1 + ((2 - 1) % 6)]
          /\ B[3] = bs[1 + ((3 - 1) \div 6)][1 + ((3 - 1) % 6)]
      BY <1>5, <2>1
    <2> QED
      BY <2>2, <2>3
  <1>7. bs[1][1] = Coin(items[1], 1) /\ bs[1][2] = Object /\ bs[1][3] = Key("ticker")
    <2>1. bs[1] = <<Coin(items[1], 1), Object, Key("ticker"), Object, Key("last"), Bool(TRUE)>>
      BY <1>2, MarketBlocks
    <2> QED
      BY <2>1
  <1>8. /\ IsSeq(tokens) /\ Len(tokens) = Len(items) * 6 + 1 /\ tokens[1] = Object
        /\ tokens[2] = B[1] /\ tokens[3] = B[2] /\ tokens[4] = B[3]
    <2>1. /\ IsSeq(h \o B) /\ Len(h \o B) = Len(h) + Len(B)
          /\ \A i \in 1 .. Len(h) : (h \o B)[i] = h[i]
          /\ \A i \in Len(h) + 1 .. Len(h) + Len(B) : (h \o B)[i] = B[i - Len(h)]
      BY <1>4, <1>5, ConcatFacts
    <2> DEFINE u == h \o B
    <2>2. tokens = u
      BY <1>1
    <2>3. /\ IsSeq(u) /\ Len(u) = Len(h) + Len(B)
          /\ \A i \in 1 .. Len(h) : u[i] = h[i]
          /\ \A i \in Len(h) + 1 .. Len(h) + Len(B) : u[i] = B[i - Len(h)]
      BY <2>1
    <2> HIDE DEF u
    <2>4. /\ Len(h) = 1 /\ h[1] = Object /\ Len(B) = Len(items) * 6
      BY <1>4, <1>5
    <2>5. /\ IsSeq(u) /\ Len(u) = Len(items) * 6 + 1 /\ u[1] = Object
          /\ u[2] = B[1] /\ u[3] = B[2] /\ u[4] = B[3]
      BY <2>3, <2>4
    <2> QED
      BY <2>2, <2>5
  <1>9. Tok(1) = Coin(items[1], 1) /\ Tok(2) = Object /\ Tok(3) = Key("ticker")
    BY <1>6, <1>7, <1>8 DEF Tok
  <1>10. Tok(1).type = "string" /\ Tok(1) # Key("ticker") /\ Tok(2) # Key("ticker")
    <2>1. Coin(items[1], 1).type = "string" /\ Coin(items[1], 1).text = <<items[1], 1>>
          /\ Key("ticker").text = <<"ticker">>
      BY DEF Coin, Key, Token
    <2>2. Len(<<items[1], 1>>) = 2 /\ Len(<<"ticker">>) = 1
      OBVIOUS
    <2> QED
      BY <1>9, <2>1, <2>2, Strings
  <1>11. Find(1, "ticker") = 3
    <2>1. /\ \A j \in Nat : 1 <= j /\ j < 3 => j = 1 \/ j = 2
          /\ 1 \in Nat /\ 3 \in Nat /\ 1 <= 3 /\ 3 < tokNo
      BY <1>8 DEF tokNo
    <2>2. \A j \in Nat : 1 <= j /\ j < 3 => Tok(j) # Key("ticker")
      BY <1>10, <2>1, Zenon
    <2> QED
      BY <1>8, <1>9, <2>1, <2>2, FindIs, Zenon DEF Find
  <1>12. ~(3 < 1) /\ 3 - 2 = 1 /\ Parsed(1)
    BY <1>8 DEF Parsed, tokNo
  <1> QED
    BY <1>10, <1>11, <1>12 DEF NameOfNext

-----------------------------------------------------------------------------
(* The invariant, action by action. *)

LEMMA Kept ==
  ASSUME call' = call, nth' = nth
  PROVE  /\ Doc' = Doc /\ TokensOf(Doc)' = TokensOf(Doc) /\ ItsRequest' = ItsRequest
         /\ \A op, v : Is(op, v)' <=> Is(op, v)
  <1>1. Doc' = Doc
    BY DEF Doc
  <1>2. TokensOf(Doc)' = TokensOf(Doc)
    BY <1>1, Zenon DEF TokensOf, Doc
  <1>3. ItsRequest' = ItsRequest
    BY Zenon DEF ItsRequest, BittrexAsks, Public
  <1>4. \A op, v : Is(op, v)' <=> Is(op, v)
    BY DEF Is
  <1> QED
    BY <1>1, <1>2, <1>3, <1>4

LEMMA InvFacts ==
  ASSUME BookInv
  PROVE  /\ call.op \in {"books", "markets", "balance"} /\ call.vendor \in Vendors
         /\ nth \in {1, 2} /\ (nth = 2 => Is("markets", "btc38")) /\ 1 \in DOMAIN call.answers
         /\ \A n \in DOMAIN call.answers : Answers(call.op, call.answers[n])
         /\ Answers(call.op, Doc)
         /\ (Is("markets", "btc38") => 2 \in DOMAIN call.answers)
         /\ tokNo \in Nat /\ Len(list) \in Nat /\ cur \in Nat \ {0} /\ pos \in -1 .. tokNo + 3
         /\ (Doc.kind # "other" \/ pc \notin {"filling", "fault"} => pos \in Nat)
         /\ Len(sent) \in Nat
  <1>1. /\ call.op \in {"books", "markets", "balance"} /\ call.vendor \in Vendors
        /\ DOMAIN call.answers = IF call.op = "markets" /\ call.vendor = "btc38" THEN {1, 2} ELSE {1}
        /\ \A n \in DOMAIN call.answers : Answers(call.op, call.answers[n])
    BY CallFacts, Zenon DEF BookInv, Handled
  <1>2. nth \in DOMAIN call.answers
    BY DEF BookInv, TypeOK
  <1>3. tokNo \in Nat /\ Len(list) \in Nat /\ Len(sent) \in Nat
    BY SeqFacts DEF BookInv, Handled, tokNo
  <1>4. cur \in Nat \ {0} /\ pos \in -1 .. tokNo + 3
    BY <1>3 DEF BookInv, TypeOK
  <1>5. pos = -1 => Doc.kind = "other" /\ pc \in {"filling", "fault"}
    BY DEF BookInv, Stands
  <1>6. Doc.kind # "other" \/ pc \notin {"filling", "fault"} => pos \in Nat
    BY <1>3, <1>4, <1>5
  <1>7. nth = 2 => Is("markets", "btc38")
    BY DEF BookInv, Kinds
  <1> QED
    BY <1>1, <1>2, <1>3, <1>4, <1>6, <1>7 DEF Doc, Is

LEMMA FindKept ==
  ASSUME tokens' = tokens, NEW from, NEW t
  PROVE  FindToken(from, t)' = FindToken(from, t)
  BY SMT DEF FindToken, Tok, tokNo

LEMMA SellPosKept ==
  ASSUME call' = call, tokens' = tokens
  PROVE  SellPos' = SellPos
  <1>1. \A from, k : Find(from, k)' = Find(from, k)
    BY FindKept DEF Find
  <1>2. Value(0, "success", "primitive")' = Value(0, "success", "primitive")
    BY <1>1, Zenon DEF Value, Tok, Parsed, tokNo
  <1>3. CASE call.vendor = "bittrex"
    <2> DEFINE s == Value(0, "success", "primitive")
    <2>1. SellPos = Find(s, "sell")
      BY <1>3, Zenon DEF SellPos
    <2>2. SellPos' = Find(s, "sell")'
      BY <1>3, Zenon DEF SellPos
    <2>3. s' = s
      BY <1>2, Zenon
    <2> HIDE DEF s
    <2>4. Find(s, "sell")' = Find(s, "sell")
      BY <2>3, SMT DEF Find, FindToken, Tok, tokNo
    <2> QED
      BY <2>1, <2>2, <2>4, Zenon
  <1>4. CASE call.vendor # "bittrex"
    BY <1>1, <1>4, Zenon DEF SellPos, tokNo
  <1> QED
    BY <1>3, <1>4

LEMMA HandledKept ==
  ASSUME Handled, UNCHANGED <<call, tokens, nth, sent>>, pc # "get",
         IsSeq(list'), IsSeq(first')
  PROVE  Handled'
  <1>1. TokensOf(Doc)' = TokensOf(Doc) /\ ItsRequest' = ItsRequest
    BY Kept
  <1>2. call' \in Calls' /\ IsSeq(tokens') /\ IsSeq(sent') /\ tokens' = TokensOf(Doc)'
    BY <1>1 DEF Handled, Calls
  <1>3. \A i \in DOMAIN sent' : sent'[i] = ItsRequest'
    BY <1>1 DEF Handled
  <1> QED
    BY <1>2, <1>3, Zenon DEF Handled

(* What a step that leaves the call alone leaves of the invariant. *)
LEMMA OthersKept ==
  ASSUME BookInv, call' = call, nth' = nth
  PROVE  /\ call.op # "books" => BookWalked'
         /\ ~Is("markets", "btc38") => MarketsFound'
         /\ pc' # "fault" => FaultsKnown'
  <1>1. Is("markets", "btc38")' <=> Is("markets", "btc38")
    BY Kept
  <1> QED
    BY <1>1 DEF BookWalked, MarketsFound, FaultsKnown

LEMMA GetKeeps == ASSUME BookInv, Get PROVE BookInv'
  <1>1. /\ pc = "get" /\ call' = call /\ nth' = nth /\ pos' = pos /\ cur' = cur /\ first' = first
        /\ tokens' = TokensOf(Doc) /\ sent' = Append(sent, ItsRequest)
        /\ list' = IF Returned(Doc.kind) # 0 THEN first ELSE list
    BY Zenon DEF Get
  <1>2. /\ pc' \in {"return", "fault", "parsed", "start"}
        /\ pc' = "return" => Checked
        /\ pc' = "fault" => ~(Checked /\ Returned(Doc.kind) # 0) /\ ~Terminated(Doc.kind)
        /\ pc' = "parsed" => Doc.kind = "garbled"
        /\ pc' = "start" => ~(Checked /\ Returned(Doc.kind) # 0) /\ Terminated(Doc.kind)
                              /\ Doc.kind # "garbled"
    BY Zenon DEF Get
  <1>3. /\ list = <<>> /\ pos = 0 /\ cur = 1 /\ (nth = 1 => first = <<>>)
        /\ Len(sent) = nth - 1
    BY <1>1 DEF BookInv, Kinds, TypeOK
  <1>4. /\ call.op \in {"books", "markets", "balance"} /\ call.vendor \in Vendors
        /\ Answers(call.op, Doc) /\ nth \in {1, 2} /\ Len(sent) \in Nat
        /\ (nth = 2 => Is("markets", "btc38"))
    BY InvFacts
  <1>5. Doc' = Doc /\ TokensOf(Doc)' = TokensOf(Doc) /\ ItsRequest' = ItsRequest
          /\ (Is("markets", "btc38")' <=> Is("markets", "btc38"))
    BY <1>1, Kept
  <1>6. IsSeq(list') /\ IsSeq(first') /\ IsSeq(tokens')
    BY <1>1, <1>4, DocIsSeq DEF BookInv, Handled
  <1>7. /\ IsSeq(sent') /\ Len(sent') = nth
        /\ \A i \in DOMAIN sent' : sent'[i] = ItsRequest
    <2>1. /\ IsSeq(sent') /\ Len(sent') = Len(sent) + 1 /\ sent'[Len(sent) + 1] = ItsRequest
          /\ \A i \in 1 .. Len(sent) : sent'[i] = sent[i]
      BY <1>1, AppendFacts DEF BookInv, Handled
    <2>2. DOMAIN sent = 1 .. Len(sent) /\ DOMAIN sent' = 1 .. Len(sent) + 1
      BY <2>1, SeqFacts DEF BookInv, Handled
    <2>3. \A i \in 1 .. Len(sent) : sent[i] = ItsRequest
      BY <2>2 DEF BookInv, Handled
    <2>4. \A i \in 1 .. Len(sent) + 1 : sent'[i] = ItsRequest
      BY <1>4, <2>1, <2>3
    <2> QED
      BY <1>3, <1>4, <2>1, <2>2, <2>4
  <1>8. Len(list') \in Nat /\ tokNo' \in Nat
    BY <1>6, SeqFacts DEF tokNo
  <1>9. TypeOK'
    <2>1. call.op' \in {"books", "markets", "balance"} /\ call.vendor' \in Vendors'
      BY <1>1 DEF BookInv, TypeOK, Vendors
    <2>2. nth' \in DOMAIN call'.answers
      BY <1>1 DEF BookInv, TypeOK
    <2>3. pc' \in {"get", "start", "markets", "making", "filling", "parsed", "return", "fault"}
      BY <1>2
    <2>4. pos' \in -1 .. tokNo' + 3 /\ cur' \in 1 .. Len(list') + 1
      <3>1. pos' = 0 /\ cur' = 1
        BY <1>1, <1>3
      <3> QED
        BY <1>8, <3>1 DEF tokNo
    <2>5. Len(sent') = IF pc' = "get" THEN nth' - 1 ELSE nth'
      BY <1>1, <1>2, <1>7
    <2> QED
      BY <2>1, <2>2, <2>3, <2>4, <2>5, Zenon DEF TypeOK
  <1>10. Handled'
    <2>1. call' \in Calls
      BY <1>1 DEF BookInv, Handled
    <2>2. tokens' = TokensOf(Doc)' /\ \A i \in DOMAIN sent' : sent'[i] = ItsRequest'
      BY <1>1, <1>5, <1>7, Zenon
    <2> QED
      BY <1>6, <1>7, <2>1, <2>2, Zenon DEF Handled
  <1>11. Doc.kind \in AnyKinds \cup {"book", "markets", "balances"}
    BY <1>4 DEF Answers
  <1>12. pc' = "start" =>
           list' = <<>> /\ Doc.kind \in {"book", "markets", "balances", "error", "other"}
    BY <1>1, <1>2, <1>3, <1>11 DEF Terminated, Returned, AnyKinds, FailureKinds
  <1>13. Kinds'
    BY <1>1, <1>2, <1>3, <1>4, <1>5, <1>12 DEF Kinds, BookInv, Is
  <1>14. pc' = "parsed" => list' = <<>> /\ Doc.bids = 0 /\ Doc.asks = 0 /\ Doc.items = <<>>
    BY <1>1, <1>2, <1>3, <1>4 DEF Answers, AnyKinds, FailureKinds, Returned
  <1>15. MarketsFound'
    BY <1>1, <1>2, <1>3, <1>5, <1>14 DEF MarketsFound, BookInv
  <1>16. BookWalked'
    <2>1. pc' = "return" => call.op # "books"
      BY <1>2 DEF Checked
    <2>2. ASSUME pc' = "parsed" PROVE list' = Aligned(BidsKept(Doc), AsksKept(Doc))' /\ cur' <= Len(list') + 1
      <3>1. Doc'.bids = 0 /\ Doc'.asks = 0 /\ list' = <<>>
        BY <1>5, <1>14, <2>2
      <3>2. BidsKept(Doc)' = 0 /\ AsksKept(Doc)' = 0
        BY <3>1 DEF BidsKept, AsksKept, ButLast
      <3>3. Aligned(0, 0) = <<>>
        <4>1. IsSeq(Aligned(0, 0)) /\ Len(Aligned(0, 0)) = 0
          BY AlignedIsSeq
        <4> QED
          BY <4>1, SeqFacts
      <3>4. Aligned(BidsKept(Doc), AsksKept(Doc))' = Aligned(0, 0)
        BY <3>2, Zenon DEF Aligned, LevelOf, NoLevel
      <3>5. Len(list') \in Nat /\ cur' = 1
        BY <1>1, <1>3, <1>8
      <3> QED
        BY <3>1, <3>3, <3>4, <3>5
    <2> QED
      BY <1>1, <1>2, <2>1, <2>2 DEF BookWalked
  <1>17. FaultsKnown'
    <2>1. pc' = "fault" => (Doc.kind = "failed" /\ ~Checked) \/ Doc.kind \in {"unset", "empty"}
      BY <1>2 DEF Terminated, Returned
    <2> QED
      BY <1>1, <1>5, <2>1 DEF FaultsKnown, Checked
  <1>18. Stands'
    BY <1>1, <1>2, <1>3 DEF Stands
  <1> QED
    BY <1>9, <1>10, <1>13, <1>15, <1>16, <1>17, <1>18 DEF BookInv

(* A step within one document. *)
LEMMA StepKept ==
  ASSUME BookInv, UNCHANGED <<call, tokens, nth, first, sent>>,
         pc \notin {"get", "return", "fault"},
         pc' \in {"markets", "making", "filling", "parsed", "return", "fault"},
         pc' \in {"markets", "making", "filling"} => pc # "parsed",
         pc' = "markets" => call.op = "markets",
         pc' \in {"making", "filling"} => call.op = "books",
         IsSeq(list'), pos' \in -1 .. tokNo + 3, cur' \in 1 .. Len(list') + 1,
         call.op # "books" => cur' = 1
  PROVE  TypeOK' /\ Handled' /\ Kinds'
  <1>1. Doc' = Doc /\ \A op, v : Is(op, v)' <=> Is(op, v)
    BY Kept
  <1>2. TypeOK'
    <2>1. call'.op \in {"books", "markets", "balance"} /\ call'.vendor \in Vendors
      BY DEF BookInv, TypeOK
    <2>2. nth' \in DOMAIN call'.answers
      BY DEF BookInv, TypeOK
    <2>3. pc' \in {"get", "start", "markets", "making", "filling", "parsed", "return", "fault"}
      OBVIOUS
    <2>4. pos' \in -1 .. tokNo' + 3 /\ cur' \in 1 .. Len(list') + 1
      BY DEF tokNo
    <2>5. Len(sent') = IF pc' = "get" THEN nth' - 1 ELSE nth'
      BY DEF BookInv, TypeOK
    <2> QED
      BY <2>1, <2>2, <2>3, <2>4, <2>5, Zenon DEF TypeOK, Vendors
  <1>3. Handled'
    BY HandledKept DEF BookInv, Handled
  <1>4. Kinds'
    <2>1. /\ nth' = 2 => Is("markets", "btc38")'
          /\ nth' = 1 => first' = <<>>
      BY <1>1 DEF BookInv, Kinds
    <2>2. pc' \in {"markets", "making", "filling"} =>
            Doc.kind \in {"book", "markets", "balances", "error", "other"}
      BY DEF BookInv, Kinds, TypeOK
    <2> QED
      BY <1>1, <2>1, <2>2 DEF Kinds
  <1> QED
    BY <1>2, <1>3, <1>4

(* A step that reads beyond the tokens leaves the rest of the invariant. *)
LEMMA FaultKept ==
  ASSUME BookInv, UNCHANGED <<call, tokens, nth, first, sent>>, ReadsBeyond,
         pc \in {"start", "markets", "making", "filling"}, FaultsKnown'
  PROVE  BookInv'
  <1>1. pc' = "fault" /\ UNCHANGED <<pos, list, cur>>
    BY DEF ReadsBeyond
  <1>2. TypeOK' /\ Handled' /\ Kinds'
    <2>1. /\ IsSeq(list') /\ pos' \in -1 .. tokNo + 3 /\ cur' \in 1 .. Len(list') + 1
          /\ call.op # "books" => cur' = 1
      BY <1>1 DEF BookInv, Handled, TypeOK, Kinds
    <2> QED
      BY <1>1, <2>1, StepKept
  <1>3. Doc' = Doc /\ SellPos' = SellPos /\ \A op, v : Is(op, v)' <=> Is(op, v)
    BY Kept, SellPosKept
  <1>4. MarketsFound' /\ BookWalked'
    BY <1>1, <1>3 DEF BookInv, MarketsFound, BookWalked
  <1>5. Stands'
    BY <1>1, <1>3 DEF BookInv, Stands
  <1> QED
    BY <1>2, <1>4, <1>5 DEF BookInv

(* The documents of the exchanges end with nothing that is looked for, and   *)
(* a list of markets of btc38 or poloniex does not begin with a key.         *)
LEMMA UsualEnds ==
  ASSUME BookInv, pc \in {"start", "markets", "making", "filling"}, Doc.kind # "other"
  PROVE  /\ tokNo > 0 => Tok(tokNo - 1) \notin Sought
         /\ call.op = "markets" /\ call.vendor # "bittrex" /\ tokNo > 1 =>
              Tok(1) \notin {Key("ticker"), Key("id")}
  <1>1. /\ call.vendor \in Vendors /\ Answers(call.op, Doc) /\ tokNo \in Nat
        /\ Doc.kind \in {"book", "markets", "balances", "error"} /\ tokens = TokensOf(Doc)
        /\ call.op \in {"books", "markets", "balance"} /\ IsSeq(tokens)
    BY InvFacts DEF BookInv, Kinds, Handled
  <1>2. /\ Ends(tokens)
        /\ call.op = "markets" /\ call.vendor # "bittrex" /\ Len(tokens) > 1 =>
             tokens[2] \notin {Key("ticker"), Key("id")}
    <2>1. CASE Doc.kind = "book"
      <3>1. tokens = BookTokens(call.vendor, Doc.bids, Doc.asks)
        BY <1>1, <2>1, Zenon DEF TokensOf
      <3>2. Doc.bids \in Nat /\ Doc.asks \in Nat /\ call.op = "books"
        BY <1>1, <2>1 DEF Answers, AnyKinds, FailureKinds
      <3> QED
        BY <1>1, <3>1, <3>2, BookEnds
    <2>2. CASE Doc.kind = "markets"
      <3>1. tokens = MarketTokens(call.vendor, Doc.items) /\ Len(Doc.items) \in Nat
        BY <1>1, <2>2, Zenon DEF TokensOf, Answers
      <3> QED
        BY <1>1, <3>1, MarketEnds
    <2>3. CASE Doc.kind = "balances"
      <3>1. tokens = BalanceTokens(call.vendor, call.currency, Doc.items) /\ Len(Doc.items) \in Nat
        BY <1>1, <2>3, Zenon DEF TokensOf, Answers
      <3>2. call.op = "balance"
        BY <1>1, <2>3 DEF Answers, AnyKinds, FailureKinds
      <3> QED
        BY <1>1, <3>1, <3>2, BalanceDocEnds
    <2>4. CASE Doc.kind = "error"
      <3>1. tokens = ErrorTokens(call.vendor)
        BY <1>1, <2>4, Zenon DEF TokensOf
      <3>2. ASSUME call.vendor # "bittrex" PROVE tokens[2] \notin {Key("ticker"), Key("id")}
        <4>1. tokens = <<Object, Key("error"), Key("no")>>
          BY <3>1, <3>2, Zenon DEF ErrorTokens
        <4>2. tokens[2] = Key("error")
          BY <4>1
        <4> QED
          BY <4>2, Strings
      <3> QED
        BY <1>1, <3>1, <3>2, ErrorEnds
    <2> QED
      BY <1>1, <2>1, <2>2, <2>3, <2>4
  <1>3. tokNo > 0 => tokens # <<>> /\ Tok(tokNo - 1) = tokens[Len(tokens)]
    BY <1>1, SeqFacts DEF tokNo, Tok
  <1>4. tokNo = Len(tokens) /\ Tok(1) = tokens[2]
    BY DEF tokNo, Tok
  <1> QED
    BY <1>2, <1>3, <1>4 DEF Ends

(* A key that is looked for and ends the document is beyond what the        *)
(* exchanges send.                                                          *)
LEMMA KeyEnds ==
  ASSUME BookInv, pc \in {"start", "markets", "making", "filling"},
         tokNo > 0, Tok(tokNo - 1) \in Sought,
         UNCHANGED <<call, tokens, nth, first, sent>>, ReadsBeyond
  PROVE  BookInv'
  <1>1. Doc.kind = "other" /\ Doc' = Doc
    BY UsualEnds, Kept
  <1>2. tokNo' = tokNo /\ Tok(tokNo - 1)' = Tok(tokNo - 1) /\ Sought' = Sought
    BY DEF tokNo, Tok, Sought
  <1>3. FaultsKnown'
    BY <1>1, <1>2 DEF FaultsKnown, Tok
  <1> QED
    BY <1>3, FaultKept

LEMMA KeysSought ==
  ASSUME NEW k \in {"success", "MarketCurrency", "BaseCurrency", "MinTradeSize", "MarketName",
                    "IsActive", "Quantity", "Rate", "Currency", "Balance", "Available",
                    "Pending", "available", "onOrders", "btcValue"}
  PROVE  Key(k) \in Sought
  BY DEF Sought

LEMMA NameOfNextBound ==
  ASSUME IsSeq(tokens), pos \in Nat \ {0}, NEW k
  PROVE  LET p == NameOfNext(k)
         IN  \/ p \in 0 .. tokNo /\ p + 1 \in 0 .. tokNo + 1
             \/ p = Beyond /\ tokNo > 1 /\ Tok(1) = Key(k)
  <1> DEFINE p == Find(pos, k)
  <1>1. tokNo \in Nat
    BY SeqFacts DEF tokNo
  <1>2. p = -1 \/ (p \in 0 .. tokNo - 1 /\ p >= pos /\ Tok(p) = Key(k))
    BY FindBound DEF Find
  <1>3. NameOfNext(k) = IF p < 1 THEN 0
                        ELSE IF ~Parsed(p - 2) THEN Beyond
                        ELSE IF Tok(p - 2).type = "string" THEN p ELSE 0
    BY Zenon DEF NameOfNext
  <1> HIDE DEF p
  <1>4. CASE p < 1 \/ Parsed(p - 2)
    BY <1>1, <1>2, <1>3, <1>4
  <1>5. CASE ~(p < 1) /\ ~Parsed(p - 2)
    <2>1. p = 1
      BY <1>1, <1>2, <1>5 DEF Parsed
    <2> QED
      BY <1>1, <1>2, <1>3, <1>5, <2>1
  <1> QED
    BY <1>4, <1>5

LEMMA MergeKeeps == ASSUME BookInv, Merge PROVE BookInv'
  <1>1. pc = "parsed" /\ call' = call /\ tokens' = tokens /\ pos' = pos /\ cur' = cur /\ sent' = sent
    BY DEF Merge
  <1>2. /\ call.op \in {"books", "markets", "balance"} /\ call.vendor \in Vendors
        /\ nth \in {1, 2} /\ (nth = 2 => Is("markets", "btc38"))
        /\ (Is("markets", "btc38") => 2 \in DOMAIN call.answers)
        /\ Len(list) \in Nat
    BY InvFacts
  <1>3. CASE Is("markets", "btc38") /\ nth = 1
    <2>1. nth' = 2 /\ first' = list /\ list' = <<>> /\ pc' = "get"
      BY <1>3 DEF Merge
    <2>2. pos = 0 /\ cur = 1 /\ (Doc.items # <<>> => list # <<>>)
      BY <1>1, <1>3 DEF BookInv, MarketsFound, Kinds, Is
    <2>3. Is("markets", "btc38")' /\ call.op # "books"
      BY <1>1, <1>3 DEF Is
    <2>4. Len(list') = 0 /\ IsSeq(list') /\ IsSeq(first') /\ IsSeq(tokens') /\ IsSeq(sent')
      BY <1>1, <2>1, EmptyIsSeq, SeqFacts DEF BookInv, Handled
    <2>5. TypeOK'
      <3>1. call'.op \in {"books", "markets", "balance"} /\ call'.vendor \in Vendors
        BY <1>1, <1>2
      <3>2. nth' \in DOMAIN call'.answers
        BY <1>1, <1>2, <1>3, <2>1
      <3>3. pc' \in {"get", "start", "markets", "making", "filling", "parsed", "return", "fault"}
        BY <2>1
      <3>4. pos' \in -1 .. tokNo' + 3 /\ cur' \in 1 .. Len(list') + 1
        BY <1>1, <2>2, <2>4, SeqFacts DEF tokNo
      <3>5. Len(sent') = IF pc' = "get" THEN nth' - 1 ELSE nth'
        BY <1>1, <1>3, <2>1 DEF BookInv, TypeOK
      <3> QED
        BY <3>1, <3>2, <3>3, <3>4, <3>5, Zenon DEF TypeOK, Vendors
    <2>6. Handled'
      <3>1. ItsRequest' = ItsRequest
        BY <1>1, Zenon DEF ItsRequest, BittrexAsks, Public
      <3>2. call' \in Calls
        BY <1>1 DEF BookInv, Handled
      <3>3. \A i \in DOMAIN sent' : sent'[i] = ItsRequest'
        BY <1>1, <3>1 DEF BookInv, Handled
      <3> QED
        BY <2>1, <2>4, <3>2, <3>3, Zenon DEF Handled
    <2>7. Kinds'
      BY <1>1, <2>1, <2>2, <2>3 DEF Kinds
    <2>8. MarketsFound'
      BY <1>1, <1>3, <2>1, <2>2, <2>3 DEF MarketsFound, Doc
    <2>9. BookWalked' /\ FaultsKnown' /\ Stands'
      BY <1>1, <2>1, <2>2, <2>3 DEF BookWalked, FaultsKnown, Stands
    <2> QED
      BY <2>5, <2>6, <2>7, <2>8, <2>9 DEF BookInv
  <1>4. CASE ~(Is("markets", "btc38") /\ nth = 1)
    <2>1. /\ nth' = nth /\ first' = first /\ list' = first \o list
          /\ pc' = IF Is("markets", "btc38") /\ first = <<>> THEN "fault" ELSE "return"
      BY <1>4 DEF Merge
    <2>2. IsSeq(list') /\ Len(list') \in Nat
      BY <2>1, ConcatFacts, SeqFacts DEF BookInv, Handled
    <2>3. ~Is("markets", "btc38") => list' = list
      <3>1. ASSUME ~Is("markets", "btc38") PROVE list' = list
        <4>1. first = <<>>
          BY <1>2, <3>1 DEF BookInv, Kinds
        <4>2. Len(first) = 0 /\ IsSeq(first) /\ IsSeq(list)
          BY <4>1, SeqFacts DEF BookInv, Handled
        <4>3. /\ Len(first \o list) = Len(first) + Len(list)
              /\ \A i \in Len(first) + 1 .. Len(first) + Len(list) : (first \o list)[i] = list[i - Len(first)]
          BY <4>2, ConcatFacts
        <4>4. Len(list') = Len(list) /\ \A i \in 1 .. Len(list) : list'[i] = list[i - 0]
          BY <1>2, <2>1, <4>2, <4>3
        <4>5. \A i \in 1 .. Len(list) : i - 0 = i
          BY <1>2
        <4>6. \A i \in 1 .. Len(list') : list'[i] = list[i]
          BY <4>4, <4>5
        <4> QED
          BY <2>2, <4>2, <4>4, <4>6, SameSeq
      <3> QED
        BY <3>1
    <2>4. cur' \in 1 .. Len(list') + 1 /\ (call.op # "books" => cur' = 1)
      <3>1. CASE call.op = "books"
        <4>1. list' = list
          BY <2>3, <3>1 DEF Is
        <4> QED
          BY <1>1, <3>1, <4>1 DEF BookInv, TypeOK
      <3>2. CASE call.op # "books"
        BY <1>1, <2>2, <3>2 DEF BookInv, Kinds
      <3> QED
        BY <3>1, <3>2
    <2>5. TypeOK' /\ Handled' /\ Kinds'
      BY <1>1, <2>1, <2>2, <2>4, StepKept DEF BookInv, TypeOK
    <2>6. MarketsFound'
      <3>1. Is("markets", "btc38")' <=> Is("markets", "btc38")
        BY <1>1, <2>1, Kept
      <3> QED
        BY <1>1, <2>1, <3>1 DEF MarketsFound, BookInv
    <2>7. BookWalked'
      <3>1. ASSUME call.op = "books", Doc.kind # "other"
            PROVE  list' = Aligned(BidsKept(Doc), AsksKept(Doc))'
        <4>1. list' = Aligned(BidsKept(Doc), AsksKept(Doc))
          BY <1>1, <2>3, <3>1 DEF BookInv, BookWalked, Is
        <4>2. Aligned(BidsKept(Doc), AsksKept(Doc))' = Aligned(BidsKept(Doc), AsksKept(Doc))
          BY <1>1, <2>1, Zenon DEF Aligned, BidsKept, AsksKept, Doc
        <4> QED
          BY <4>1, <4>2
      <3>2. Doc' = Doc
        BY <1>1, <2>1, Kept
      <3> QED
        BY <1>1, <2>1, <2>2, <2>4, <3>1, <3>2 DEF BookWalked
    <2>8. FaultsKnown'
      <3>1. ASSUME pc' = "fault"
            PROVE  Is("markets", "btc38")' /\ nth' = 2 /\ first' = <<>> /\ call'.answers[1].items = <<>>
        <4>1. Is("markets", "btc38") /\ first = <<>>
          BY <2>1, <3>1
        <4>2. nth = 2
          BY <1>2, <1>4, <4>1
        <4>3. call.answers[1].items = <<>>
          BY <4>1, <4>2 DEF BookInv, MarketsFound
        <4> QED
          BY <1>1, <2>1, <4>1, <4>2, <4>3 DEF Is
      <3> QED
        BY <3>1 DEF FaultsKnown
    <2>9. Stands'
      <3>1. pos' # -1
        BY <1>1, InvFacts
      <3> QED
        BY <2>1, <3>1 DEF Stands
    <2> QED
      BY <2>5, <2>6, <2>7, <2>8, <2>9 DEF BookInv
  <1> QED
    BY <1>3, <1>4

(* A step within a market list of btc38. *)
LEMMA MarketsKept ==
  ASSUME BookInv, UNCHANGED <<call, tokens, nth, first, sent>>, call.op = "markets",
         pc \notin {"get", "return", "fault"}, pc' \in {"markets", "parsed"},
         pc' = "markets" => pc # "parsed",
         cur' = 1, pos' \in 0 .. tokNo + 3, IsSeq(list'),
         Is("markets", "btc38") =>
           /\ pc' = "markets" /\ Doc.items # <<>> => list' # <<>> \/ pos' = 1
           /\ pc' = "parsed" => pos' = 0 /\ (Doc.items # <<>> => list' # <<>>)
  PROVE  BookInv'
  <1>1. Len(list') \in Nat
    BY SeqFacts
  <1>2. TypeOK' /\ Handled' /\ Kinds'
    BY <1>1, StepKept
  <1>3. BookWalked' /\ FaultsKnown'
    BY OthersKept
  <1>4. MarketsFound'
    <2>1. Doc' = Doc /\ (Is("markets", "btc38")' <=> Is("markets", "btc38"))
      BY Kept
    <2>2. Is("markets", "btc38") => (nth' = 2 /\ call'.answers[1].items # <<>> => first' # <<>>)
      BY DEF BookInv, MarketsFound
    <2> QED
      BY <2>1, <2>2 DEF MarketsFound
  <1>5. Stands'
    <2>1. pos' # -1
      OBVIOUS
    <2> QED
      BY <2>1 DEF Stands
  <1> QED
    BY <1>2, <1>3, <1>4, <1>5 DEF BookInv

LEMMA StartMarketsKeeps == ASSUME BookInv, StartMarkets PROVE BookInv'
  <1> DEFINE s == Value(0, "success", "primitive")
  <1>1. pc = "start" /\ call.op = "markets" /\ UNCHANGED <<call, tokens, nth, first, sent>>
    BY DEF StartMarkets
  <1>2. tokNo \in Nat /\ cur = 1 /\ IsSeq(tokens) /\ IsSeq(list)
    BY <1>1, InvFacts DEF BookInv, Kinds, Handled
  <1>3. CASE call.vendor = "bittrex" /\ s = Beyond
    <2>1. ReadsBeyond
      BY <1>3, Zenon DEF StartMarkets
    <2>2. 0 \in Nat /\ s \notin 0 .. tokNo - 1 /\ s # 0
      BY <1>3 DEF Beyond
    <2>3. EndsWith("success")
      BY <1>2, <2>2, ValueBound
    <2> QED
      BY <1>1, <2>1, <2>3, KeyEnds, KeysSought DEF EndsWith
  <1>4. CASE ~(call.vendor = "bittrex" /\ s = Beyond)
    <2>1. /\ pc' \in {"markets", "parsed"} /\ UNCHANGED <<list, cur>>
          /\ pos' = 1 \/ (pos' = s /\ s # Beyond)
          /\ call.vendor # "bittrex" => pos' = 1 /\ pc' = "markets"
      <3>1. CASE call.vendor = "bittrex"
        <4>1. /\ pos' = s /\ pc' = IF s # 0 /\ Tok(s) = Bool(TRUE) THEN "markets" ELSE "parsed"
              /\ UNCHANGED <<list, cur>>
          BY <1>4, <3>1, Zenon DEF StartMarkets
        <4> HIDE DEF s
        <4> QED
          BY <1>4, <3>1, <4>1
      <3>2. CASE call.vendor # "bittrex"
        <4>1. pos' = 1 /\ pc' = "markets" /\ UNCHANGED <<list, cur>>
          BY <3>2, Zenon DEF StartMarkets
        <4> QED
          BY <3>2, <4>1
      <3> QED
        BY <3>1, <3>2
    <2>2. s \in 0 .. tokNo - 1 \/ s = 0 \/ s = Beyond
      BY <1>2, ValueBound
    <2> HIDE DEF s
    <2>3. pos' \in 0 .. tokNo + 3 /\ cur' = 1 /\ IsSeq(list')
      BY <1>2, <2>1, <2>2
    <2>4. Is("markets", "btc38") => pos' = 1 /\ pc' = "markets"
      BY <2>1 DEF Is
    <2> QED
      BY <1>1, <2>1, <2>3, <2>4, MarketsKept
  <1> QED
    BY <1>3, <1>4

LEMMA EndMarketsKeeps == ASSUME BookInv, EndMarkets PROVE BookInv'
  <1>1. /\ pc = "markets" /\ pos = 0 /\ pc' = "parsed"
        /\ UNCHANGED <<call, tokens, nth, pos, list, cur, first, sent>>
    BY DEF EndMarkets
  <1>2. call.op = "markets" /\ tokNo \in Nat /\ cur = 1 /\ IsSeq(list)
    BY <1>1, InvFacts DEF BookInv, Kinds, Handled
  <1>3. Is("markets", "btc38") => (Doc.items # <<>> => list' # <<>>)
    BY <1>1 DEF BookInv, MarketsFound
  <1>4. pos' \in 0 .. tokNo + 3
    BY <1>1, <1>2
  <1> QED
    BY <1>1, <1>2, <1>3, <1>4, MarketsKept

LEMMA BittrexMarketKeeps == ASSUME BookInv, BittrexMarket PROVE BookInv'
  <1> DEFINE m == Value(pos, "MarketCurrency", "string")
             b == ValueAfter(m, "BaseCurrency", "string")
             t == ValueAfter(b, "MinTradeSize", "primitive")
             n == ValueAfter(t, "MarketName", "string")
             a == ValueAfter(n, "IsActive", "primitive")
             x == Market(Tok(b).text, Tok(m).text)
  <1>1. /\ pc = "markets" /\ Is("markets", "bittrex")
        /\ UNCHANGED <<call, tokens, nth, first, sent>>
    BY DEF BittrexMarket
  <1>2. IF a = Beyond THEN ReadsBeyond
        ELSE /\ pos' = a /\ pc' = pc /\ cur' = cur
             /\ list' = list \/ list' = Append(list, x)
    BY Zenon DEF BittrexMarket
  <1>3. /\ call.op = "markets" /\ tokNo \in Nat /\ cur = 1 /\ IsSeq(tokens) /\ IsSeq(list)
        /\ pos \in Nat
    BY <1>1, InvFacts DEF BookInv, Kinds, Handled, Is
  <1> DEFINE In(i)  == i \in 0 .. tokNo - 1 \/ i = 0
             keys   == {"MarketCurrency", "BaseCurrency", "MinTradeSize", "MarketName", "IsActive"}
             ended  == \E k \in keys : EndsWith(k)
  <1>4. In(a) \/ (a = Beyond /\ ended)
    <2>1. In(m) \/ (m = Beyond /\ EndsWith("MarketCurrency"))
      BY <1>3, ValueBound
    <2> HIDE DEF m
    <2>2. In(b) \/ (b = Beyond /\ (m = Beyond \/ EndsWith("BaseCurrency")))
      BY <1>3, <2>1, ValueAfterBound
    <2> HIDE DEF b
    <2>3. In(t) \/ (t = Beyond /\ (b = Beyond \/ EndsWith("MinTradeSize")))
      BY <1>3, <2>2, ValueAfterBound
    <2> HIDE DEF t
    <2>4. In(n) \/ (n = Beyond /\ (t = Beyond \/ EndsWith("MarketName")))
      BY <1>3, <2>3, ValueAfterBound
    <2> HIDE DEF n
    <2>5. In(a) \/ (a = Beyond /\ (n = Beyond \/ EndsWith("IsActive")))
      BY <1>3, <2>4, ValueAfterBound
    <2> HIDE DEF a
    <2>6. \A i : In(i) => i # Beyond
      BY <1>3 DEF Beyond
    <2> HIDE DEF In
    <2> QED
      BY <2>1, <2>2, <2>3, <2>4, <2>5, <2>6
  <1> HIDE DEF a, x
  <1>5. CASE a = Beyond
    <2>1. ~In(a)
      BY <1>3, <1>5 DEF Beyond
    <2>2. PICK k \in keys : EndsWith(k)
      BY <1>4, <2>1
    <2>3. Key(k) \in Sought
      BY KeysSought
    <2> QED
      BY <1>1, <1>2, <1>5, <2>2, <2>3, KeyEnds DEF EndsWith
  <1>6. CASE a # Beyond
    <2>1. IsSeq(Append(list, x))
      BY <1>3, AppendFacts
    <2>2. pos' \in 0 .. tokNo + 3
      BY <1>2, <1>3, <1>4, <1>6
    <2>3. IsSeq(list')
      BY <1>2, <1>3, <1>6, <2>1, Zenon
    <2>4. ~Is("markets", "btc38") /\ pc' = "markets" /\ cur' = 1
      BY <1>1, <1>2, <1>3, <1>6 DEF Is
    <2> QED
      BY <1>1, <1>3, <2>2, <2>3, <2>4, MarketsKept
  <1> QED
    BY <1>5, <1>6

(* A document that begins with the key behind a name is no list of markets. *)
LEMMA NameBeyond ==
  ASSUME BookInv, pc = "markets", call.op = "markets", call.vendor # "bittrex",
         tokNo > 1, Tok(1) \in {Key("ticker"), Key("id")},
         UNCHANGED <<call, tokens, nth, first, sent>>, ReadsBeyond
  PROVE  BookInv'
  <1>1. Doc.kind = "other" /\ Doc' = Doc
    BY UsualEnds, Kept
  <1>2. tokNo' = tokNo /\ Tok(1)' = Tok(1)
    BY DEF tokNo, Tok
  <1>3. FaultsKnown'
    BY <1>1, <1>2 DEF FaultsKnown
  <1> QED
    BY <1>3, FaultKept

LEMMA PoloniexMarketKeeps == ASSUME BookInv, PoloniexMarket PROVE BookInv'
  <1> DEFINE p == NameOfNext("id")
  <1> DEFINE x == Market(Tok(p - 2).text, Tok(p - 2).text)
  <1>1. /\ pc = "markets" /\ Is("markets", "poloniex") /\ pos # 0
        /\ UNCHANGED <<call, tokens, nth, first, sent>>
    BY DEF PoloniexMarket
  <1>2. IF p = Beyond THEN ReadsBeyond
        ELSE /\ pos' = p \/ pos' = p + 1
             /\ list' = list \/ list' = Append(list, x)
             /\ pc' = pc /\ cur' = cur
    BY Zenon DEF PoloniexMarket
  <1>3. /\ call.op = "markets" /\ call.vendor = "poloniex" /\ tokNo \in Nat /\ cur = 1
        /\ IsSeq(tokens) /\ IsSeq(list) /\ pos \in Nat \ {0}
    BY <1>1, InvFacts DEF BookInv, Kinds, Handled, Is
  <1>4. p \in 0 .. tokNo \/ (p = Beyond /\ tokNo > 1 /\ Tok(1) = Key("id"))
    BY <1>3, NameOfNextBound
  <1> HIDE DEF p, x
  <1>5. CASE p = Beyond
    <2>1. tokNo > 1 /\ Tok(1) \in {Key("ticker"), Key("id")}
      BY <1>3, <1>4, <1>5 DEF Beyond
    <2> QED
      BY <1>1, <1>2, <1>3, <1>5, <2>1, NameBeyond
  <1>6. CASE p # Beyond
    <2>1. IsSeq(Append(list, x))
      BY <1>3, AppendFacts
    <2>2. IsSeq(list')
      BY <1>2, <1>3, <1>6, <2>1, Zenon
    <2>3. pos' \in 0 .. tokNo + 3 /\ pc' = "markets" /\ cur' = 1
      BY <1>1, <1>2, <1>3, <1>4, <1>6
    <2>4. ~Is("markets", "btc38")
      BY <1>1 DEF Is
    <2> QED
      BY <1>1, <1>3, <2>2, <2>3, <2>4, MarketsKept
  <1> QED
    BY <1>5, <1>6

(* The walk begins at the first market; no later step makes the list empty. *)
LEMMA Btc38MarketKeeps == ASSUME BookInv, Btc38Market PROVE BookInv'
  <1> DEFINE p == NameOfNext("ticker")
             x == Market(<<"base", nth>>, Tok(p - 2).text)
  <1>1. /\ pc = "markets" /\ pos # 0 /\ Is("markets", "btc38")
        /\ UNCHANGED <<call, tokens, nth, first, sent>>
    BY DEF Btc38Market
  <1>2. IF p = Beyond THEN ReadsBeyond
        ELSE /\ pos' = IF p = 0 THEN 0 ELSE p + 1
             /\ list' = IF p = 0 THEN list ELSE Append(list, x)
             /\ pc' = pc /\ cur' = cur
    BY Zenon DEF Btc38Market
  <1>3. /\ call.op = "markets" /\ call.vendor = "btc38" /\ tokNo \in Nat /\ cur = 1
        /\ IsSeq(tokens) /\ IsSeq(list) /\ Len(list) \in Nat /\ Answers(call.op, Doc)
        /\ Doc.kind \in {"book", "markets", "balances", "error", "other"} /\ tokens = TokensOf(Doc)
        /\ pos \in Nat \ {0}
    BY <1>1, InvFacts DEF BookInv, Kinds, Handled, Is
  <1>4. p \in 0 .. tokNo \/ (p = Beyond /\ tokNo > 1 /\ Tok(1) = Key("ticker"))
    BY <1>3, NameOfNextBound
  <1>5. ASSUME Doc.items # <<>>, pos = 1 PROVE p # 0
    <2>1. Doc.kind = "markets" /\ Len(Doc.items) \in Nat /\ Len(Doc.items) >= 1
      BY <1>3, <1>5 DEF Answers, AnyKinds, FailureKinds
    <2>2. tokens = MarketTokens("btc38", Doc.items)
      BY <1>3, <2>1, Zenon DEF TokensOf
    <2>3. p = 3
      BY <1>5, <2>1, <2>2, FirstMarket
    <2> QED
      BY <2>3
  <1> HIDE DEF p, x
  <1>6. CASE p = Beyond
    <2>1. tokNo > 1 /\ Tok(1) \in {Key("ticker"), Key("id")}
      BY <1>3, <1>4, <1>6 DEF Beyond
    <2> QED
      BY <1>1, <1>2, <1>3, <1>6, <2>1, NameBeyond
  <1>7. CASE p # Beyond
    <2>1. /\ pos' = IF p = 0 THEN 0 ELSE p + 1
          /\ list' = IF p = 0 THEN list ELSE Append(list, x)
          /\ pc' = "markets" /\ cur' = 1 /\ p \in 0 .. tokNo
      BY <1>1, <1>2, <1>3, <1>4, <1>7
    <2>2. IsSeq(list') /\ pos' \in 0 .. tokNo + 3
      BY <1>3, <2>1, AppendFacts
    <2>3. p # 0 \/ list # <<>> => list' # <<>>
      <3>1. p # 0 => Len(list') = Len(list) + 1
        BY <1>3, <2>1, AppendFacts
      <3>2. p # 0 => list' # <<>>
        BY <1>3, <2>2, <3>1, SeqFacts
      <3> QED
        BY <2>1, <3>2
    <2>4. Doc.items # <<>> => list # <<>> \/ pos = 1
      BY <1>1 DEF BookInv, MarketsFound
    <2>5. Doc.items # <<>> => list' # <<>>
      BY <1>5, <2>3, <2>4
    <2> QED
      BY <1>1, <1>3, <2>1, <2>2, <2>5, MarketsKept
  <1> QED
    BY <1>6, <1>7

(* Behind a key that ends the document there is nothing to read. *)
LEMMA BehindBound ==
  ASSUME IsSeq(tokens), NEW at, at \in Nat \/ at \in {-1, Beyond}, NEW t
  PROVE  LET p == BehindKey(at, t)
         IN  \/ p \in Nat \/ p = -1
             \/ p = Beyond /\ (at = Beyond \/ (tokNo > 0 /\ Tok(tokNo - 1) = t))
  <1> DEFINE p == FindToken(at, t)
  <1>1. tokNo \in Nat
    BY SeqFacts DEF tokNo
  <1>2. CASE at \in {-1, Beyond}
    <2>1. at < 0
      BY <1>2 DEF Beyond
    <2>2. BehindKey(at, t) = at
      BY <2>1, Zenon DEF BehindKey
    <2> QED
      BY <1>2, <2>2
  <1>3. CASE at \in Nat
    <2>1. ~(at < 0)
      BY <1>3
    <2>2. BehindKey(at, t) = IF p < 0 THEN p ELSE IF Parsed(p + 1) THEN p + 1 ELSE Beyond
      BY <2>1, Zenon DEF BehindKey
    <2>3. p = -1 \/ (p \in 0 .. tokNo - 1 /\ Tok(p) = t)
      BY <1>3, FindBound
    <2> HIDE DEF p
    <2>4. CASE p = -1
      BY <2>2, <2>4
    <2>5. CASE p # -1 /\ Parsed(p + 1)
      BY <1>1, <2>2, <2>3, <2>5
    <2>6. CASE p # -1 /\ ~Parsed(p + 1)
      <3>1. p = tokNo - 1 /\ tokNo > 0 /\ ~(p < 0)
        BY <1>1, <2>3, <2>6 DEF Parsed
      <3> QED
        BY <2>2, <2>3, <2>6, <3>1
    <2> QED
      BY <2>4, <2>5, <2>6
  <1> QED
    BY <1>2, <1>3

(* A balance ends the call at once. *)
LEMMA BalanceKeeps ==
  ASSUME BookInv, BittrexBalance \/ PoloniexBalance \/ Btc38Balance
  PROVE  BookInv'
  <1> DEFINE ended == tokNo > 0 /\ Tok(tokNo - 1) \in Sought
             P(i)  == i \in Nat \/ i = -1 \/ (i = Beyond /\ ended)
  <1>1. pc = "start" /\ call.op = "balance"
    BY Zenon DEF BittrexBalance, PoloniexBalance, Btc38Balance, Is
  <1>2. /\ pos = 0 /\ cur = 1 /\ tokNo \in Nat /\ IsSeq(tokens) /\ IsSeq(list)
        /\ Len(list) \in Nat
    BY <1>1, InvFacts DEF BookInv, Kinds, Handled
  <1>3. ASSUME NEW i, P(i), NEW t \in Sought PROVE P(BehindKey(i, t))
    <2>1. LET p == BehindKey(i, t)
          IN  \/ p \in Nat \/ p = -1
              \/ p = Beyond /\ (i = Beyond \/ (tokNo > 0 /\ Tok(tokNo - 1) = t))
      BY <1>2, <1>3, BehindBound
    <2> DEFINE p == BehindKey(i, t)
    <2>2. \/ p \in Nat \/ p = -1
          \/ p = Beyond /\ (i = Beyond \/ (tokNo > 0 /\ Tok(tokNo - 1) = t))
      BY <2>1
    <2>3. i = Beyond => ended
      <3>1. Beyond \notin Nat /\ Beyond # -1
        BY DEF Beyond
      <3> QED
        BY <1>3, <3>1
    <2> HIDE DEF p
    <2>4. P(p)
      BY <2>2, <2>3
    <2> QED
      BY <2>4 DEF p
  <1>4. PICK last, x : P(last) /\ EndBalance(last, x)
    <2>1. P(0)
      OBVIOUS
    <2>2. CASE BittrexBalance
      <3> DEFINE c == BehindKey(0, Key("Currency"))
                 b == BehindKey(c, Key("Balance"))
                 a == BehindKey(b, Key("Available"))
                 p == BehindKey(a, Key("Pending"))
      <3>1. PICK x : EndBalance(p, x)
        BY <2>2, Zenon DEF BittrexBalance
      <3>2. P(p)
        <4> HIDE DEF P
        <4>1. P(c)
          BY <1>3, <2>1, KeysSought
        <4> HIDE DEF c
        <4>2. P(b)
          BY <1>3, <4>1, KeysSought
        <4> HIDE DEF b
        <4>3. P(a)
          BY <1>3, <4>2, KeysSought
        <4> HIDE DEF a
        <4> QED
          BY <1>3, <4>3, KeysSought
      <3> QED
        BY <3>1, <3>2, Zenon
    <2>3. CASE PoloniexBalance
      <3> DEFINE c == FindToken(0, Key(call.currency))
                 a == BehindKey(c, Key("available"))
                 p == BehindKey(a, Key("onOrders"))
                 b == BehindKey(p, Key("btcValue"))
      <3>1. PICK x : EndBalance(b, x)
        BY <2>3, Zenon DEF PoloniexBalance
      <3>2. P(c)
        <4>1. c = -1 \/ c \in 0 .. tokNo - 1
          BY <1>2, FindBound
        <4> QED
          BY <4>1
      <3>3. P(b)
        <4> HIDE DEF P, c
        <4>1. P(a)
          BY <1>3, <3>2, KeysSought
        <4> HIDE DEF a
        <4>2. P(p)
          BY <1>3, <4>1, KeysSought
        <4> HIDE DEF p
        <4> QED
          BY <1>3, <4>2, KeysSought
      <3> QED
        BY <3>1, <3>3, Zenon
    <2>4. CASE Btc38Balance
      <3> DEFINE b == BehindKey(0, Btc38Key(Cut[call.currency], "_balance"))
                 p == BehindKey(b, Btc38Key(Cut[call.currency], "_balance_lock"))
      <3>1. PICK x : EndBalance(p, x)
        BY <2>4, Zenon DEF Btc38Balance
      <3>2. \A w \in {"_balance", "_balance_lock"} : Btc38Key(Cut[call.currency], w) \in Sought
        <4>1. Cut[call.currency] \in {Cut[d] : d \in Currencies}
          BY <1>1, CallFacts DEF BookInv, Handled
        <4> QED
          BY <4>1 DEF Sought
      <3>3. P(p)
        <4> HIDE DEF P
        <4>1. P(b)
          BY <1>3, <2>1, <3>2
        <4> HIDE DEF b
        <4> QED
          BY <1>3, <3>2, <4>1
      <3> QED
        BY <3>1, <3>3, Zenon
    <2> QED
      BY <2>2, <2>3, <2>4
  <1>5. CASE last # Beyond
    <2>1. /\ list' = <<>> \/ list' = <<x>>
          /\ pc' = "return" /\ UNCHANGED <<call, tokens, nth, pos, cur, first, sent>>
      BY <1>4, <1>5, Zenon DEF EndBalance
    <2>2. IsSeq(list')
      BY <2>1, EmptyIsSeq, Tuples
    <2>3. Len(list') \in Nat
      BY <2>2, SeqFacts
    <2>4. TypeOK' /\ Handled' /\ Kinds'
      BY <1>1, <1>2, <2>1, <2>2, <2>3, StepKept
    <2>5. BookWalked' /\ MarketsFound' /\ FaultsKnown'
      BY <1>1, <2>1, OthersKept DEF Is
    <2>6. Stands'
      BY <1>2, <2>1 DEF Stands
    <2> QED
      BY <2>4, <2>5, <2>6 DEF BookInv
  <1>6. CASE last = Beyond
    <2>1. /\ pc' = "fault" /\ list' = <<>> /\ UNCHANGED <<call, tokens, nth, pos, cur, first, sent>>
      <3>1. last < 0
        BY <1>6 DEF Beyond
      <3> QED
        BY <1>4, <1>6, <3>1, Zenon DEF EndBalance
    <2>2. list = <<>>
      BY <1>1 DEF BookInv, Kinds
    <2>3. ended
      BY <1>4, <1>6 DEF Beyond
    <2> QED
      BY <1>1, <2>1, <2>2, <2>3, KeyEnds DEF ReadsBeyond
  <1> QED
    BY <1>5, <1>6

-----------------------------------------------------------------------------
(* The invariant of an order book. *)

LEMMA BookFacts ==
  ASSUME BookInv, call.op = "books", pc \in {"start", "making", "filling"}, Doc.kind # "other"
  PROVE  /\ call.vendor \in Vendors /\ Doc.kind \in {"book", "error"}
         /\ Doc.bids \in Nat /\ Doc.asks \in Nat
         /\ Doc.kind = "book"  => tokens = BookTokens(call.vendor, Doc.bids, Doc.asks)
         /\ Doc.kind = "error" => /\ tokens = ErrorTokens(call.vendor)
                                  /\ Doc.bids = 0 /\ Doc.asks = 0
         /\ IsSeq(tokens) /\ tokNo \in Nat /\ IsSeq(list) /\ Len(list) \in Nat
         /\ cur \in Nat \ {0} /\ cur <= Len(list) + 1 /\ pos \in Nat
  <1>1. /\ call.vendor \in Vendors /\ Answers("books", Doc) /\ tokNo \in Nat /\ pos \in Nat
        /\ Len(list) \in Nat /\ cur \in Nat \ {0} /\ IsSeq(tokens) /\ IsSeq(list)
    BY InvFacts DEF BookInv, Handled
  <1>2. Doc.kind \in {"book", "error"}
    BY <1>1 DEF BookInv, Kinds, Answers, AnyKinds, FailureKinds
  <1>3. tokens = TokensOf(Doc)
    BY DEF BookInv, Handled
  <1>4. /\ Doc.kind = "book"  => TokensOf(Doc) = BookTokens(call.vendor, Doc.bids, Doc.asks)
        /\ Doc.kind = "error" => TokensOf(Doc) = ErrorTokens(call.vendor)
    BY Zenon DEF TokensOf
  <1>5. Doc.kind = "error" => Doc.bids = 0 /\ Doc.asks = 0
    BY <1>1 DEF Answers, AnyKinds, FailureKinds
  <1>6. Doc.bids \in Nat /\ Doc.asks \in Nat
    BY <1>1 DEF Answers
  <1>7. cur <= Len(list) + 1
    BY <1>1 DEF BookInv, TypeOK
  <1> QED
    BY <1>1, <1>2, <1>3, <1>4, <1>5, <1>6, <1>7

(* Where the parts of a book are, whatever the document is. *)
LEMMA Positions ==
  ASSUME BookInv
  PROVE  /\ tokNo \in Nat
         /\ BidPos = -1 \/ BidPos \in 0 .. tokNo - 1
         /\ call.vendor # "bittrex" => SellPos = -1 \/ SellPos \in 1 .. tokNo
         /\ call.vendor = "bittrex" =>
              SellPos = -1 \/ SellPos = Beyond \/ SellPos \in 0 .. tokNo - 1
  <1>1. IsSeq(tokens) /\ tokNo \in Nat
    BY InvFacts DEF BookInv, Handled
  <1>2. ASSUME NEW k PROVE Find(0, k) = -1 \/ Find(0, k) \in 0 .. tokNo - 1
    BY <1>1, FindBound DEF Find
  <1>3. CASE call.vendor = "bittrex"
    <2> DEFINE s == Value(0, "success", "primitive")
    <2>1. s \in Nat \/ s = Beyond
      BY <1>1, ValueBound
    <2>2. SellPos = Find(s, "sell")
      BY <1>3, Zenon DEF SellPos
    <2> HIDE DEF s
    <2>3. CASE s \in Nat
      <3>1. SellPos = -1 \/ SellPos \in 0 .. tokNo - 1
        BY <1>1, <2>2, <2>3, FindBound DEF Find
      <3> QED
        BY <1>1, <1>2, <1>3, <3>1 DEF BidPos
    <2>4. CASE s = Beyond
      <3>1. s < 0
        BY <2>4 DEF Beyond
      <3>2. SellPos = Beyond
        BY <2>2, <3>1, Zenon DEF Find, FindToken
      <3> QED
        BY <1>1, <1>2, <1>3, <3>2 DEF BidPos
    <2> QED
      BY <2>1, <2>3, <2>4
  <1>4. CASE call.vendor # "bittrex"
    <2> DEFINE p == Find(0, "asks")
    <2>1. SellPos = IF p = 0 THEN tokNo ELSE p
      BY <1>4, Zenon DEF SellPos
    <2>2. p = -1 \/ p \in 0 .. tokNo - 1
      BY <1>2
    <2> HIDE DEF p
    <2>3. SellPos = -1 \/ SellPos \in 1 .. tokNo
      BY <1>1, <2>1, <2>2
    <2> QED
      BY <1>1, <1>2, <1>4, <2>3 DEF BidPos
  <1> QED
    BY <1>3, <1>4

LEMMA OneLess == ASSUME NEW n \in Nat, n >= 1 PROVE n - 1 \in Nat /\ n = n - 1 + 1
  OBVIOUS

(* A step within a book, or an error. *)
LEMMA BookKept ==
  ASSUME BookInv, UNCHANGED <<call, tokens, nth, first, sent>>, call.op = "books",
         Doc.kind # "other",
         pc \in {"start", "making", "filling"}, pc' \in {"making", "filling", "parsed"},
         IsSeq(list'), pos' \in 0 .. tokNo + 3, cur' \in 1 .. Len(list') + 1,
         pc' = "making" => cur' = 1,
         pc' \in {"making", "filling"} =>
           IF Doc.kind = "book" THEN Walked(Len(list), cur - 1, Doc.bids, Doc.asks)'
           ELSE list' = <<>> /\ cur' = 1 /\ pos' \in {0, 2} /\ call.vendor # "bittrex",
         pc' = "parsed" => list' = Aligned(BidsKept(Doc), AsksKept(Doc))
  PROVE  BookInv'
  <1>1. TypeOK' /\ Handled' /\ Kinds'
    <2>1. tokNo \in Nat
      BY InvFacts
    <2>2. pos' \in -1 .. tokNo + 3
      BY <2>1
    <2> QED
      BY <2>2, StepKept
  <1>2. MarketsFound' /\ FaultsKnown'
    BY OthersKept DEF Is
  <1>3. Doc' = Doc
    BY Kept
  <1>4. Aligned(BidsKept(Doc), AsksKept(Doc))' = Aligned(BidsKept(Doc), AsksKept(Doc))
    BY <1>3, Zenon DEF Aligned, BidsKept, AsksKept
  <1>5. BookWalked'
    BY <1>3, <1>4 DEF BookWalked
  <1>6. Stands'
    <2> DEFINE b == Doc.bids
               a == Doc.asks
    <2>1. /\ call.vendor \in Vendors /\ Doc.kind \in {"book", "error"} /\ b \in Nat /\ a \in Nat
          /\ Doc.kind = "book"  => tokens = BookTokens(call.vendor, b, a)
          /\ Doc.kind = "error" => tokens = ErrorTokens(call.vendor)
      BY BookFacts
    <2>2. SellPos' = SellPos /\ call'.vendor = call.vendor /\ tokNo' = tokNo
      BY SellPosKept DEF tokNo
    <2>3. pos' # -1
      OBVIOUS
    <2>4. ASSUME pc' = "making", call.vendor = "bittrex" PROVE SellPos # Beyond
      <3>1. Doc.kind = "book"
        BY <2>1, <2>4
      <3>2. SellPos = 9 + 5 * b
        BY <2>1, <2>4, <3>1, BittrexStarts
      <3> QED
        BY <2>1, <3>2 DEF Beyond
    <2>5. ASSUME pc' = "filling", call.vendor = "btc38", pos' # 0
          PROVE  pos' = SellPos + 3 * cur' /\ (cur' = 1 \/ pos' <= tokNo)
      <3>1. CASE Doc.kind = "error"
        <4>1. SellPos = -1 /\ cur' = 1 /\ pos' = 2
          BY <2>1, <2>5, <3>1, ErrorFinds
        <4> QED
          BY <4>1
      <3>2. CASE Doc.kind = "book"
        <4> DEFINE f == cur' - 1
        <4>1. SellPos = 3 + 3 * b /\ tokNo = 5 + 3 * b + 3 * a
          BY <2>1, <2>5, <3>2, Btc38Finds, Zenon
        <4>2. Walked(Len(list), cur - 1, Doc.bids, Doc.asks)'
          BY <2>5, <3>2
        <4>3. Is("books", "btc38")'
          BY <2>5 DEF Is
        <4>4. f <= ButLast(a) /\ pos' = 6 + 3 * (b + f)
          BY <1>3, <2>5, <4>2, <4>3 DEF Walked
        <4>5. f \in Nat /\ cur' = f + 1
          <5>1. Len(list') \in Nat /\ cur' \in 1 .. Len(list') + 1
            BY SeqFacts
          <5>2. cur' \in Nat /\ cur' >= 1
            BY <5>1
          <5> QED
            BY <5>2, OneLess, Zenon
        <4> HIDE DEF f, a, b
        <4>6. ButLast(a) = IF a = 0 THEN 0 ELSE a - 1
          BY DEF ButLast
        <4>7. pos' = SellPos + 3 * cur'
          BY <2>1, <4>1, <4>4, <4>5
        <4>8. f = 0 \/ pos' <= tokNo
          BY <2>1, <4>1, <4>4, <4>5, <4>6
        <4>9. f = 0 => cur' = 1
          BY <4>5
        <4> QED
          BY <4>7, <4>8, <4>9
      <3> QED
        BY <2>1, <3>1, <3>2
    <2> QED
      BY <2>2, <2>3, <2>4, <2>5 DEF Stands, Is
  <1> QED
    BY <1>1, <1>2, <1>5, <1>6 DEF BookInv

(* A step over any other document. *)
LEMMA OtherKept ==
  ASSUME BookInv, UNCHANGED <<call, tokens, nth, first, sent>>, call.op = "books",
         Doc.kind = "other",
         pc \in {"start", "making", "filling"}, pc' \in {"making", "filling", "parsed"},
         IsSeq(list'), pos' \in -1 .. tokNo + 3, cur' \in 1 .. Len(list') + 1,
         pos' = -1 => call.vendor = "bittrex" /\ SellPos = -1 /\ pc' = "filling",
         pc' = "making" => cur' = 1 /\ (call.vendor = "bittrex" => SellPos # Beyond),
         pc' = "filling" /\ call.vendor = "btc38" /\ pos' # 0 =>
           pos' = SellPos + 3 * cur' /\ (cur' = 1 \/ pos' <= tokNo)
  PROVE  BookInv'
  <1>1. TypeOK' /\ Handled' /\ Kinds'
    BY StepKept
  <1>2. MarketsFound' /\ FaultsKnown'
    BY OthersKept DEF Is
  <1>3. Doc' = Doc /\ SellPos' = SellPos /\ tokNo' = tokNo
    BY Kept, SellPosKept DEF tokNo
  <1>4. BookWalked'
    BY <1>3 DEF BookWalked
  <1>5. Stands'
    BY <1>3 DEF Stands, Is
  <1> QED
    BY <1>1, <1>2, <1>4, <1>5 DEF BookInv

(* What there is of a call that walks over any other document. *)
LEMMA OtherFacts ==
  ASSUME BookInv, pc \in {"start", "making", "filling"}, Doc.kind = "other"
  PROVE  /\ call.vendor \in Vendors /\ IsSeq(tokens) /\ tokNo \in Nat
         /\ IsSeq(list) /\ Len(list) \in Nat /\ cur \in 1 .. Len(list) + 1
         /\ pos \in -1 .. tokNo + 3
         /\ pos = -1 => Is("books", "bittrex") /\ SellPos = -1 /\ pc = "filling"
         /\ pc = "making" => call.op = "books" /\ cur = 1
                               /\ (call.vendor = "bittrex" => SellPos # Beyond)
         /\ pc = "filling" => call.op = "books"
         /\ pc = "filling" /\ call.vendor = "btc38" /\ pos # 0 =>
              pos = SellPos + 3 * cur /\ (cur = 1 \/ pos <= tokNo)
  <1>1. /\ call.vendor \in Vendors /\ IsSeq(tokens) /\ tokNo \in Nat /\ IsSeq(list)
        /\ Len(list) \in Nat /\ pos \in -1 .. tokNo + 3
    BY InvFacts DEF BookInv, Handled
  <1>2. cur \in 1 .. Len(list) + 1
    BY DEF BookInv, TypeOK
  <1>3. pc \in {"making", "filling"} => call.op = "books"
    BY DEF BookInv, Kinds
  <1> QED
    BY <1>1, <1>2, <1>3 DEF BookInv, Stands, Is

(* The next level of bittrex is beyond the tokens only where the document   *)
(* ends with a key.                                                         *)
LEMMA RateBound ==
  ASSUME IsSeq(tokens), pos \in Nat
  PROVE  RateAt \in 0 .. tokNo \/ (RateAt = Beyond /\ tokNo > 0 /\ Tok(tokNo - 1) \in Sought)
  <1> DEFINE q == QuantityAt
             r == RateAt
  <1>1. tokNo \in Nat /\ Key("Quantity") \in Sought /\ Key("Rate") \in Sought
    BY SeqFacts, KeysSought DEF tokNo
  <1>2. q \in 0 .. tokNo - 1 \/ q = 0 \/ (q = Beyond /\ EndsWith("Quantity"))
    <2>1. pos \in Nat \/ pos = Beyond
      OBVIOUS
    <2>2. pos # Beyond
      BY DEF Beyond
    <2> QED
      BY <2>1, <2>2, ValueAfterBound DEF QuantityAt
  <1>3. r = ValueAfter(q, "Rate", "primitive")
    BY Zenon DEF RateAt
  <1> HIDE DEF q, r
  <1>4. q \in Nat \/ q = Beyond
    BY <1>1, <1>2
  <1>5. r \in 0 .. tokNo - 1 \/ r = 0 \/ (r = Beyond /\ (q = Beyond \/ EndsWith("Rate")))
    BY <1>3, <1>4, ValueAfterBound
  <1>6. q = Beyond => EndsWith("Quantity")
    BY <1>1, <1>2 DEF Beyond
  <1>7. r \in 0 .. tokNo \/ (r = Beyond /\ (EndsWith("Quantity") \/ EndsWith("Rate")))
    BY <1>1, <1>5, <1>6
  <1> QED
    BY <1>1, <1>7, Zenon DEF r, EndsWith

LEMMA UsualRate ==
  ASSUME BookInv, pc \in {"making", "filling"}, Doc.kind # "other"
  PROVE  RateAt \in 0 .. tokNo
  <1>1. IsSeq(tokens) /\ pos \in Nat
    BY InvFacts DEF BookInv, Handled
  <1>2. ~(tokNo > 0 /\ Tok(tokNo - 1) \in Sought)
    BY UsualEnds
  <1> QED
    BY <1>1, <1>2, RateBound

(* Filling an entry keeps the list a sequence that ends at current or later. *)
LEMMA FillsIsSeq ==
  ASSUME IsSeq(list), cur \in 1 .. Len(list) + 1, NEW l
  PROVE  /\ IsSeq(FillAsk(l)) /\ IsSeq(FillBid(l))
         /\ cur + 1 \in 1 .. Len(FillAsk(l)) + 1 /\ cur + 1 \in 1 .. Len(FillBid(l)) + 1
  <1> DEFINE n == Len(list)
  <1>1. n \in Nat /\ DOMAIN list = 1 .. n
    BY SeqFacts
  <1>2. CASE cur <= n
    <2> DEFINE u == [list EXCEPT ![cur].ask = l]
               v == [list EXCEPT ![cur].bid = l]
    <2>1. FillAsk(l) = u /\ FillBid(l) = v
      BY <1>2, Zenon DEF FillAsk, FillBid
    <2>2. DOMAIN u = 1 .. n /\ u = [k \in 1 .. n |-> u[k]]
      BY <1>1
    <2>3. DOMAIN v = 1 .. n /\ v = [k \in 1 .. n |-> v[k]]
      BY <1>1
    <2> HIDE DEF u, v, n
    <2>4. IsSeq(u) /\ Len(u) = n
      BY <1>1, <2>2, IndexedIsSeq
    <2>5. IsSeq(v) /\ Len(v) = n
      BY <1>1, <2>3, IndexedIsSeq
    <2>6. cur + 1 \in 1 .. n + 1
      BY <1>1, <1>2
    <2> QED
      BY <2>1, <2>4, <2>5, <2>6
  <1>3. CASE ~(cur <= n)
    <2>1. FillAsk(l) = Append(list, Ask(l)) /\ FillBid(l) = Append(list, Bid(l))
      BY <1>3, Zenon DEF FillAsk, FillBid
    <2>2. /\ IsSeq(FillAsk(l)) /\ Len(FillAsk(l)) = n + 1
          /\ IsSeq(FillBid(l)) /\ Len(FillBid(l)) = n + 1
      BY <2>1, AppendFacts
    <2> QED
      BY <1>1, <2>2
  <1> QED
    BY <1>2, <1>3

LEMMA NoneAligned == Aligned(0, 0) = <<>>
  <1>1. IsSeq(Aligned(0, 0)) /\ Len(Aligned(0, 0)) = 0
    BY AlignedIsSeq
  <1> QED
    BY <1>1, SeqFacts

LEMMA StartBookKeeps == ASSUME BookInv, StartBook, Doc.kind # "other" PROVE BookInv'
  <1>1. /\ pc = "start" /\ call.op = "books"
        /\ UNCHANGED <<call, tokens, nth, list, cur, first, sent>>
    BY DEF StartBook
  <1>2. list = <<>> /\ cur = 1 /\ Len(list) = 0
    BY <1>1, EmptyIsSeq, SeqFacts DEF BookInv, Kinds
  <1>3. /\ call.vendor \in Vendors /\ Doc.kind \in {"book", "error"}
        /\ Doc.bids \in Nat /\ Doc.asks \in Nat
        /\ Doc.kind = "book"  => tokens = BookTokens(call.vendor, Doc.bids, Doc.asks)
        /\ Doc.kind = "error" => tokens = ErrorTokens(call.vendor) /\ Doc.bids = 0 /\ Doc.asks = 0
        /\ IsSeq(tokens) /\ tokNo \in Nat /\ IsSeq(list)
    BY <1>1, BookFacts
  <1>4. list' = Aligned(0, 0) /\ Len(list') = 0 /\ cur' = 1 /\ IsSeq(list')
    BY <1>1, <1>2, <1>3, NoneAligned
  <1>5. Doc' = Doc /\ call'.op = "books" /\ call'.vendor = call.vendor
    BY <1>1, Kept
  <1>6. CASE call.vendor = "btc38"
    <2>1. pos' = BidPos + 3 /\ pc' = "making"
      BY <1>6, Zenon DEF StartBook
    <2>2. CASE Doc.kind = "book"
      <3>1. pos' = 4 /\ tokNo >= 5
        BY <1>3, <1>6, <2>1, <2>2, Btc38Finds
      <3>2. Walked(Len(list), cur - 1, Doc.bids, Doc.asks)'
        BY <1>3, <1>4, <1>5, <1>6, <2>1, <3>1 DEF Walked, Is, ButLast
      <3> QED
        BY <1>1, <1>3, <1>4, <2>1, <2>2, <3>1, <3>2, BookKept
    <2>3. CASE Doc.kind = "error"
      <3>1. pos' = 2
        BY <1>3, <1>6, <2>1, <2>3, ErrorFinds
      <3> QED
        BY <1>1, <1>2, <1>3, <1>4, <1>6, <2>1, <2>3, <3>1, BookKept
    <2> QED
      BY <1>3, <2>2, <2>3
  <1>7. CASE call.vendor = "poloniex"
    <2>1. pos' = SellPos + 3 /\ pc' = IF BidPos = 0 THEN "parsed" ELSE "making"
      BY <1>7, Zenon DEF StartBook
    <2>2. CASE Doc.kind = "book"
      <3>1. pos' = 4 /\ tokNo >= 5 /\ pc' = "making"
        BY <1>3, <1>7, <2>1, <2>2, PoloniexFinds
      <3>2. Walked(Len(list), cur - 1, Doc.bids, Doc.asks)'
        BY <1>3, <1>4, <1>5, <1>7, <3>1 DEF Walked, Is, ButLast
      <3> QED
        BY <1>1, <1>3, <1>4, <2>2, <3>1, <3>2, BookKept
    <2>3. CASE Doc.kind = "error"
      <3>1. pos' = 2 /\ pc' = "making"
        BY <1>3, <1>7, <2>1, <2>3, ErrorFinds
      <3> QED
        BY <1>1, <1>2, <1>3, <1>4, <1>7, <2>3, <3>1, BookKept
    <2> QED
      BY <1>3, <2>2, <2>3
  <1>8. CASE call.vendor = "bittrex"
    <2> DEFINE s == Value(0, "success", "primitive")
    <2>4. Doc.kind = "book" => s = 2 /\ Tok(2) = Bool(TRUE)
      BY <1>3, <1>8, BittrexStarts, Zenon
    <2>5. Doc.kind = "error" => s = 2 /\ Tok(s) # Bool(TRUE)
      BY <1>3, <1>8, BittrexError, Zenon
    <2>6. s # Beyond
      <3>1. 2 # Beyond
        BY DEF Beyond
      <3> QED
        BY <1>3, <2>4, <2>5, <3>1, Zenon
    <2>1. pos' = s /\ pc' = IF s # 0 /\ Tok(s) = Bool(TRUE) THEN "making" ELSE "parsed"
      BY <1>8, <2>6, Zenon DEF StartBook
    <2> HIDE DEF s
    <2>2. CASE Doc.kind = "book"
      <3>2. pos' = 2 /\ pc' = "making"
        BY <2>1, <2>2, <2>4
      <3>1. pos' \in 0 .. tokNo + 3
        BY <1>3, <3>2
      <3>3. Walked(Len(list), cur - 1, Doc.bids, Doc.asks)'
        BY <1>3, <1>4, <1>5, <1>8, <3>2 DEF Walked, Is
      <3> QED
        BY <1>1, <1>3, <1>4, <2>2, <3>1, <3>2, <3>3, BookKept
    <2>3. CASE Doc.kind = "error"
      <3>2. pos' = 2 /\ pc' = "parsed"
        BY <2>1, <2>3, <2>5
      <3>3. list' = Aligned(BidsKept(Doc), AsksKept(Doc))
        BY <1>3, <1>4, <2>3 DEF BidsKept, AsksKept, ButLast
      <3>4. pos' \in 0 .. tokNo + 3
        BY <1>3, <3>2
      <3> QED
        BY <1>1, <1>3, <1>4, <2>3, <3>2, <3>3, <3>4, BookKept
    <2> QED
      BY <1>3, <2>2, <2>3
  <1> QED
    BY <1>3, <1>6, <1>7, <1>8 DEF Vendors

(* Both sides are made up to their last level but one, or to their last. *)
LEMMA Making ==
  ASSUME BookInv, call.op = "books", pc = "making", Doc.kind = "book", NEW n, n = Len(list)
  PROVE  /\ call.vendor = "btc38" =>
              /\ n <= ButLast(Doc.bids) /\ list = Aligned(n, 0)
              /\ pos = 4 + 3 * n \/ (pos = 0 /\ n = ButLast(Doc.bids))
         /\ call.vendor = "poloniex" =>
              /\ n <= ButLast(Doc.asks) /\ list = Aligned(0, n)
              /\ pos = 4 + 3 * n \/ (pos = 0 /\ n = ButLast(Doc.asks))
         /\ call.vendor = "bittrex" =>
              /\ n <= Doc.bids /\ list = Aligned(n, 0)
              /\ \/ pos = IF n = 0 THEN 2 ELSE 8 + 5 * n
                 \/ n = Doc.bids /\ pos \in {0, 15 + 5 * Doc.bids}
  <1>1. Walked(Len(list), cur - 1, Doc.bids, Doc.asks)
    BY DEF BookInv, BookWalked
  <1> QED
    BY <1>1 DEF Walked, Is

LEMMA Filling ==
  ASSUME BookInv, call.op = "books", pc = "filling", Doc.kind = "book", NEW f, f = cur - 1
  PROVE  /\ call.vendor = "btc38" =>
              /\ f <= ButLast(Doc.asks) /\ list = Aligned(ButLast(Doc.bids), f)
              /\ pos = 6 + 3 * (Doc.bids + f) \/ (pos = 0 /\ f = ButLast(Doc.asks))
         /\ call.vendor = "poloniex" =>
              /\ f <= Doc.bids /\ list = Aligned(f, ButLast(Doc.asks))
              /\ pos = 6 + 3 * (Doc.asks + f) \/ (pos = 0 /\ f = Doc.bids)
         /\ call.vendor = "bittrex" =>
              /\ f <= Doc.asks /\ list = Aligned(Doc.bids, f)
              /\ \/ pos = IF f = 0 THEN 9 + 5 * Doc.bids ELSE 10 + 5 * (Doc.bids + f)
                 \/ pos = 0 /\ f = Doc.asks
  <1>1. Walked(Len(list), cur - 1, Doc.bids, Doc.asks)
    BY DEF BookInv, BookWalked
  <1> QED
    BY <1>1 DEF Walked, Is

LEMMA NoBook ==
  ASSUME BookInv, call.op = "books", pc \in {"making", "filling"}, Doc.kind = "error"
  PROVE  list = <<>> /\ cur = 1 /\ pos \in {0, 2} /\ call.vendor # "bittrex"
  BY DEF BookInv, BookWalked

LEMMA ButLastFacts ==
  ASSUME NEW n \in Nat
  PROVE  ButLast(n) \in Nat /\ ButLast(n) <= n /\ (n > 0 => ButLast(n) = n - 1)
  BY DEF ButLast

LEMMA EndMakingKeeps == ASSUME BookInv, EndMaking, Doc.kind # "other" PROVE BookInv'
  <1>1. /\ pc = "making" /\ pc' = "filling"
        /\ UNCHANGED <<call, tokens, nth, list, cur, first, sent>>
        /\ pos = 0 \/ pos >= Boundary
    BY DEF EndMaking
  <1>2. call.op = "books" /\ cur = 1
    BY <1>1 DEF BookInv, Kinds, Stands
  <1>3. /\ call.vendor \in Vendors /\ Doc.kind \in {"book", "error"}
        /\ Doc.bids \in Nat /\ Doc.asks \in Nat
        /\ Doc.kind = "book"  => tokens = BookTokens(call.vendor, Doc.bids, Doc.asks)
        /\ Doc.kind = "error" => tokens = ErrorTokens(call.vendor) /\ Doc.bids = 0 /\ Doc.asks = 0
        /\ IsSeq(tokens) /\ tokNo \in Nat /\ IsSeq(list) /\ Len(list) \in Nat /\ pos \in Nat
    BY <1>1, <1>2, BookFacts
  <1>4. /\ Doc' = Doc /\ call'.op = "books" /\ call'.vendor = call.vendor
        /\ list' = list /\ cur' = 1 /\ IsSeq(list') /\ cur' \in 1 .. Len(list') + 1
    BY <1>1, <1>2, <1>3, Kept
  <1> DEFINE n == Len(list)
             b == Doc.bids
             a == Doc.asks
  <1>9. n \in Nat /\ b \in Nat /\ a \in Nat /\ pos \in Nat
    BY <1>3
  <1>5. CASE Doc.kind = "error"
    <2>1. list = <<>> /\ call.vendor \in {"btc38", "poloniex"}
      BY <1>1, <1>2, <1>3, <1>5, NoBook DEF Vendors
    <2>2. BidPos = -1 /\ SellPos = -1
      BY <1>3, <1>5, <2>1, ErrorFinds
    <2>3. pos' = SellPos + 3 \/ pos' = BidPos + 3
      BY <2>1, Zenon DEF EndMaking
    <2>4. pos' = 2
      BY <2>2, <2>3
    <2> QED
      BY <1>1, <1>2, <1>3, <1>4, <1>5, <2>1, <2>4, BookKept
  <1>6. CASE Doc.kind = "book" /\ call.vendor = "btc38"
    <2>1. BidPos = 1 /\ SellPos = 3 + 3 * b /\ tokNo = 5 + 3 * b + 3 * a
      BY <1>3, <1>6, Btc38Finds, Zenon
    <2>2. /\ n <= ButLast(b) /\ list = Aligned(n, 0)
          /\ pos = 4 + 3 * n \/ (pos = 0 /\ n = ButLast(b))
      BY <1>1, <1>2, <1>6, Making
    <2>3. pos' = SellPos + 3
      BY <1>6, Zenon DEF EndMaking
    <2>4. Boundary = SellPos
      BY <1>6 DEF Boundary
    <2>5. n = ButLast(b)
      <3>1. pos = 0 \/ pos >= 3 + 3 * b
        BY <1>1, <2>1, <2>4
      <3> HIDE DEF n, b, a
      <3>2. ButLast(b) \in Nat /\ (b > 0 => ButLast(b) = b - 1)
        BY <1>9, ButLastFacts
      <3>3. ButLast(0) = 0
        BY DEF ButLast
      <3> QED
        BY <1>9, <2>2, <3>1, <3>2, <3>3
    <2>6. pos' = 6 + 3 * (b + 0) /\ pos' \in 0 .. tokNo + 3
      <3> HIDE DEF n, b, a
      <3> QED
        BY <1>9, <2>1, <2>3
    <2>7. Walked(Len(list), cur - 1, Doc.bids, Doc.asks)'
      <3> HIDE DEF n, b, a
      <3>1. 0 <= ButLast(a)
        BY <1>9, ButLastFacts
      <3>2. list' = Aligned(ButLast(b), 0) /\ cur' - 1 = 0
        BY <1>4, <2>2, <2>5
      <3> QED
        BY <1>1, <1>4, <1>6, <2>6, <3>1, <3>2 DEF Walked, Is, a, b
    <2> QED
      BY <1>1, <1>2, <1>4, <1>6, <2>6, <2>7, BookKept
  <1>7. CASE Doc.kind = "book" /\ call.vendor = "poloniex"
    <2>1. SellPos = 1 /\ BidPos = 3 + 3 * a /\ tokNo = 9 + 3 * a + 3 * b
      BY <1>3, <1>7, PoloniexFinds, Zenon
    <2>2. /\ n <= ButLast(a) /\ list = Aligned(0, n)
          /\ pos = 4 + 3 * n \/ (pos = 0 /\ n = ButLast(a))
      BY <1>1, <1>2, <1>7, Making
    <2>3. pos' = BidPos + 3
      BY <1>7, Zenon DEF EndMaking
    <2>4. Boundary = BidPos
      BY <1>7 DEF Boundary
    <2>5. n = ButLast(a)
      <3>1. pos = 0 \/ pos >= 3 + 3 * a
        BY <1>1, <2>1, <2>4
      <3> HIDE DEF n, b, a
      <3>2. ButLast(a) \in Nat /\ (a > 0 => ButLast(a) = a - 1)
        BY <1>9, ButLastFacts
      <3>3. ButLast(0) = 0
        BY DEF ButLast
      <3> QED
        BY <1>9, <2>2, <3>1, <3>2, <3>3
    <2>6. pos' = 6 + 3 * (a + 0) /\ pos' \in 0 .. tokNo + 3
      <3> HIDE DEF n, b, a
      <3> QED
        BY <1>9, <2>1, <2>3
    <2>7. Walked(Len(list), cur - 1, Doc.bids, Doc.asks)'
      <3>1. 0 <= b /\ list' = Aligned(0, ButLast(a)) /\ cur' - 1 = 0
        BY <1>3, <1>4, <2>2, <2>5
      <3> QED
        BY <1>1, <1>4, <1>7, <2>6, <3>1 DEF Walked, Is
    <2> QED
      BY <1>1, <1>2, <1>4, <1>7, <2>6, <2>7, BookKept
  <1>8. CASE Doc.kind = "book" /\ call.vendor = "bittrex"
    <2>1. SellPos = 9 + 5 * b
      BY <1>3, <1>8, BittrexStarts, Zenon
    <2>2. tokNo = 11 + 5 * b + 5 * a
      <3>1. tokens = BookTokens("bittrex", b, a)
        BY <1>3, <1>8
      <3> HIDE DEF n, b, a
      <3> QED
        BY <1>9, <3>1, BittrexAt
    <2>3. /\ n <= b /\ list = Aligned(n, 0)
          /\ \/ pos = IF n = 0 THEN 2 ELSE 8 + 5 * n
             \/ n = b /\ pos \in {0, 15 + 5 * b}
      BY <1>1, <1>2, <1>8, Making
    <2>4. pos' = SellPos
      BY <1>8, Zenon DEF EndMaking
    <2>5. Boundary = SellPos
      BY <1>8 DEF Boundary
    <2>6. n = b
      BY <1>1, <1>3, <2>1, <2>3, <2>5
    <2>7. pos' = 9 + 5 * b /\ pos' \in 0 .. tokNo + 3
      <3> HIDE DEF n, b, a
      <3> QED
        BY <1>9, <2>1, <2>2, <2>4
    <2>8. Walked(Len(list), cur - 1, Doc.bids, Doc.asks)'
      <3>1. 0 <= a /\ list' = Aligned(b, 0) /\ cur' - 1 = 0
        BY <1>3, <1>4, <2>3, <2>6
      <3> QED
        BY <1>1, <1>4, <1>8, <2>7, <3>1 DEF Walked, Is
    <2> QED
      BY <1>1, <1>2, <1>4, <1>8, <2>7, <2>8, BookKept
  <1> QED
    BY <1>3, <1>5, <1>6, <1>7, <1>8 DEF Vendors

LEMMA EndFillingKeeps == ASSUME BookInv, EndFilling, Doc.kind # "other" PROVE BookInv'
  <1>1. /\ pc = "filling" /\ pc' = "parsed"
        /\ UNCHANGED <<call, tokens, nth, pos, list, cur, first, sent>>
        /\ pos = 0 \/ (call.vendor = "poloniex" /\ pos >= tokNo)
    BY DEF EndFilling
  <1>2. call.op = "books"
    BY <1>1 DEF BookInv, Kinds
  <1>3. /\ call.vendor \in Vendors /\ Doc.kind \in {"book", "error"}
        /\ Doc.bids \in Nat /\ Doc.asks \in Nat
        /\ Doc.kind = "book"  => tokens = BookTokens(call.vendor, Doc.bids, Doc.asks)
        /\ Doc.kind = "error" => tokens = ErrorTokens(call.vendor) /\ Doc.bids = 0 /\ Doc.asks = 0
        /\ IsSeq(tokens) /\ tokNo \in Nat /\ IsSeq(list) /\ Len(list) \in Nat /\ pos \in Nat
        /\ cur \in Nat \ {0}
    BY <1>1, <1>2, BookFacts
  <1>4. /\ IsSeq(list') /\ cur' \in 1 .. Len(list') + 1 /\ pos' \in 0 .. tokNo + 3
    BY <1>1, <1>3 DEF BookInv, Handled, TypeOK
  <1> DEFINE f == cur - 1
             b == Doc.bids
             a == Doc.asks
  <1>5. list = Aligned(BidsKept(Doc), AsksKept(Doc))
    <2>1. CASE Doc.kind = "error"
      <3>1. list = <<>>
        BY <1>1, <1>2, <2>1, NoBook
      <3> QED
        BY <1>3, <2>1, <3>1, NoneAligned DEF BidsKept, AsksKept, ButLast
    <2>2. CASE Doc.kind = "book" /\ call.vendor = "btc38"
      <3>1. /\ f <= ButLast(a) /\ list = Aligned(ButLast(b), f)
            /\ pos = 6 + 3 * (b + f) \/ (pos = 0 /\ f = ButLast(a))
        BY <1>1, <1>2, <2>2, Filling
      <3>2. f = ButLast(a)
        BY <1>1, <1>3, <2>2, <3>1
      <3> QED
        BY <2>2, <3>1, <3>2 DEF BidsKept, AsksKept
    <2>3. CASE Doc.kind = "book" /\ call.vendor = "poloniex"
      <3>1. /\ f <= b /\ list = Aligned(f, ButLast(a))
            /\ pos = 6 + 3 * (a + f) \/ (pos = 0 /\ f = b)
        BY <1>1, <1>2, <2>3, Filling
      <3>2. tokNo = 9 + 3 * a + 3 * b
        BY <1>3, <2>3, PoloniexFinds, Zenon
      <3>3. f = b
        <4>1. f \in Nat /\ b \in Nat /\ a \in Nat /\ (pos = 0 \/ pos >= tokNo)
          BY <1>1, <1>3
        <4> HIDE DEF f, b, a
        <4> QED
          BY <3>1, <3>2, <4>1
      <3> QED
        BY <2>3, <3>1, <3>3 DEF BidsKept, AsksKept
    <2>4. CASE Doc.kind = "book" /\ call.vendor = "bittrex"
      <3>1. /\ f <= a /\ list = Aligned(b, f)
            /\ \/ pos = IF f = 0 THEN 9 + 5 * b ELSE 10 + 5 * (b + f)
               \/ pos = 0 /\ f = a
        BY <1>1, <1>2, <2>4, Filling
      <3>2. f = a
        BY <1>1, <1>3, <2>4, <3>1
      <3> QED
        BY <2>4, <3>1, <3>2 DEF BidsKept, AsksKept
    <2> QED
      BY <1>3, <2>1, <2>2, <2>3, <2>4 DEF Vendors
  <1> QED
    BY <1>1, <1>2, <1>4, <1>5, BookKept

(* Of a book that the exchange sends, every level that is read is there. *)
LEMMA PairParsed ==
  ASSUME BookInv, Doc.kind # "other", pc = "making", pos # 0, pos < Boundary,
         call.vendor # "bittrex"
  PROVE  /\ Doc.kind = "book" /\ Parsed(pos) /\ Parsed(pos + 1)
         /\ pos = 4 + 3 * Len(list)
  <1> DEFINE n == Len(list)
             b == Doc.bids
             a == Doc.asks
  <1>1. call.op = "books"
    BY DEF BookInv, Kinds
  <1>2. /\ call.vendor \in {"btc38", "poloniex"} /\ Doc.kind \in {"book", "error"}
        /\ b \in Nat /\ a \in Nat /\ n \in Nat /\ pos \in Nat /\ tokNo \in Nat
        /\ Doc.kind = "book"  => tokens = BookTokens(call.vendor, b, a)
        /\ Doc.kind = "error" => tokens = ErrorTokens(call.vendor)
    BY <1>1, BookFacts DEF Vendors
  <1>3. Doc.kind = "book"
    <2>1. ASSUME Doc.kind = "error" PROVE FALSE
      <3>1. BidPos = -1 /\ SellPos = -1
        BY <1>2, <2>1, ErrorFinds
      <3>2. Boundary = -1
        BY <3>1 DEF Boundary
      <3> QED
        BY <1>2, <3>2
    <2> QED
      BY <1>2, <2>1
  <1>4. CASE call.vendor = "btc38"
    <2>1. /\ tokNo = 5 + 3 * b + 3 * a /\ SellPos = 3 + 3 * b
      BY <1>2, <1>3, <1>4, Btc38Finds, Zenon
    <2>2. pos = 4 + 3 * n \/ pos = 0
      BY <1>1, <1>3, <1>4, Making
    <2>3. Boundary = 3 + 3 * b
      BY <1>4, <2>1 DEF Boundary
    <2> HIDE DEF n, b, a
    <2>4. pos = 4 + 3 * n /\ 4 + 3 * n < 3 + 3 * b
      BY <2>2, <2>3
    <2>5. pos + 1 <= tokNo - 1
      BY <1>2, <2>1, <2>4
    <2> QED
      BY <1>2, <1>3, <2>4, <2>5 DEF Parsed, n
  <1>5. CASE call.vendor = "poloniex"
    <2>1. /\ tokNo = 9 + 3 * a + 3 * b /\ BidPos = 3 + 3 * a
      <3>1. tokens = BookTokens("poloniex", b, a)
        BY <1>2, <1>3, <1>5, Zenon
      <3> HIDE DEF n, b, a
      <3> QED
        BY <1>2, <1>5, <3>1, PoloniexFinds
    <2>2. pos = 4 + 3 * n \/ pos = 0
      BY <1>1, <1>3, <1>5, Making
    <2>3. Boundary = 3 + 3 * a
      BY <1>5, <2>1 DEF Boundary
    <2> HIDE DEF n, b, a
    <2>4. pos = 4 + 3 * n /\ 4 + 3 * n < 3 + 3 * a
      BY <2>2, <2>3
    <2>5. pos + 1 <= tokNo - 1
      BY <1>2, <2>1, <2>4
    <2> QED
      BY <1>2, <1>3, <2>4, <2>5 DEF Parsed, n
  <1> QED
    BY <1>2, <1>4, <1>5

LEMMA MakePairKeeps == ASSUME BookInv, MakePair, Doc.kind # "other" PROVE BookInv'
  <1> DEFINE l == Level(pos, pos + 1)
             e == IF call.vendor = "btc38" THEN Bid(l) ELSE Ask(l)
             n == Len(list)
             b == Doc.bids
             a == Doc.asks
  <1>0. /\ pc = "making" /\ pos # 0 /\ pos < Boundary /\ call.vendor # "bittrex"
        /\ UNCHANGED <<call, tokens, nth, first, sent>>
    BY Zenon DEF MakePair
  <1>2. /\ pc' = pc /\ cur' = cur
        /\ IF pos + 3 < Boundary THEN list' = Append(list, e) /\ pos' = pos + 3
           ELSE list' = list /\ pos' = 0
    <2>1. Parsed(pos) /\ Parsed(pos + 1)
      BY <1>0, PairParsed
    <2> QED
      BY <2>1, Zenon DEF MakePair
  <1>1. /\ pc = "making" /\ pc' = "making" /\ pos # 0 /\ pos < Boundary /\ call.vendor # "bittrex"
        /\ UNCHANGED <<call, tokens, nth, cur, first, sent>>
    BY <1>0, <1>2
  <1>3. call.op = "books" /\ cur = 1
    BY <1>1 DEF BookInv, Kinds, Stands
  <1>4. /\ call.vendor \in {"btc38", "poloniex"} /\ Doc.kind \in {"book", "error"}
        /\ b \in Nat /\ a \in Nat
        /\ Doc.kind = "book"  => tokens = BookTokens(call.vendor, b, a)
        /\ Doc.kind = "error" => tokens = ErrorTokens(call.vendor)
        /\ IsSeq(tokens) /\ tokNo \in Nat /\ IsSeq(list) /\ n \in Nat /\ pos \in Nat
    BY <1>1, <1>3, BookFacts DEF Vendors
  <1>5. Doc' = Doc /\ call'.op = "books" /\ call'.vendor = call.vendor /\ cur' = 1
    BY <1>1, <1>3, Kept
  <1>6. Doc.kind = "book"
    BY <1>0, PairParsed
  <1>7. IsSeq(Append(list, e)) /\ IsSeq(list')
    <2>1. IsSeq(Append(list, e))
      BY <1>4, AppendFacts
    <2> QED
      BY <1>2, <1>4, <2>1, Zenon
  <1> HIDE DEF l, e, n, b, a
  <1>8. Len(list') \in Nat /\ cur' \in 1 .. Len(list') + 1
    BY <1>5, <1>7, SeqFacts
  <1>9. CASE call.vendor = "btc38"
    <2>1. /\ tokNo = 5 + 3 * b + 3 * a /\ SellPos = 3 + 3 * b
          /\ \A k \in 1 .. b : Level(3 * k + 1, 3 * k + 2) = LevelOf("bid", k, k)
      BY <1>4, <1>6, <1>9, Btc38Finds, Zenon
    <2>2. Boundary = 3 + 3 * b
      BY <1>9, <2>1 DEF Boundary
    <2>3. /\ n <= ButLast(b) /\ list = Aligned(n, 0)
          /\ pos = 4 + 3 * n \/ (pos = 0 /\ n = ButLast(b))
      BY <1>1, <1>3, <1>6, <1>9, Making DEF n, b
    <2>4. ButLast(b) \in Nat /\ (b > 0 => ButLast(b) = b - 1)
      BY <1>4, ButLastFacts
    <2>5. pos = 4 + 3 * n /\ n < b /\ ButLast(b) = b - 1
      BY <1>1, <1>4, <2>2, <2>3, <2>4
    <2>6. CASE pos + 3 < Boundary
      <3>1. n + 1 <= ButLast(b) /\ pos' = 4 + 3 * (n + 1) /\ pos' \in 0 .. tokNo + 3
        BY <1>2, <1>4, <2>1, <2>2, <2>5, <2>6
      <3>2. l = LevelOf("bid", n + 1, n + 1)
        <4>1. 3 * (n + 1) + 1 = pos /\ 3 * (n + 1) + 2 = pos + 1 /\ n + 1 \in 1 .. b
          BY <1>4, <2>5
        <4>2. Level(3 * (n + 1) + 1, 3 * (n + 1) + 2) = LevelOf("bid", n + 1, n + 1)
          BY <2>1, <4>1
        <4> QED
          BY <4>1, <4>2, Zenon DEF l
      <3>3. list' = Aligned(n + 1, 0)
        <4>1. list' = Append(Aligned(n, 0), Bid(LevelOf("bid", n + 1, n + 1)))
          BY <1>2, <1>9, <2>3, <2>6, <3>2, Zenon DEF e
        <4> QED
          BY <1>4, <4>1, AppendBid, Zenon
      <3>4. Len(list') = n + 1
        <4>1. n + 1 \in Nat /\ 0 \in Nat /\ n + 1 > 0
          BY <1>4
        <4> QED
          BY <3>3, <4>1, AlignedIsSeq
      <3>5. Walked(Len(list), cur - 1, Doc.bids, Doc.asks)'
        BY <1>1, <1>5, <1>9, <3>1, <3>3, <3>4 DEF Walked, Is, b
      <3> QED
        BY <1>1, <1>3, <1>5, <1>6, <1>7, <1>8, <3>1, <3>5, BookKept
    <2>7. CASE ~(pos + 3 < Boundary)
      <3>1. list' = list /\ pos' = 0
        BY <1>2, <2>7
      <3>2. n = ButLast(b)
        BY <1>4, <2>2, <2>5, <2>7
      <3>3. Walked(Len(list), cur - 1, Doc.bids, Doc.asks)'
        BY <1>1, <1>4, <1>5, <1>9, <2>3, <3>1, <3>2 DEF Walked, Is, b, n
      <3>4. pos' \in 0 .. tokNo + 3
        BY <1>4, <3>1
      <3> QED
        BY <1>1, <1>3, <1>5, <1>6, <1>7, <1>8, <3>3, <3>4, BookKept
    <2> QED
      BY <2>6, <2>7
  <1>10. CASE call.vendor = "poloniex"
    <2>1. /\ tokNo = 9 + 3 * a + 3 * b /\ BidPos = 3 + 3 * a
          /\ \A k \in 1 .. a : Level(3 * k + 1, 3 * k + 2) = LevelOf("ask", k, k)
      BY <1>4, <1>6, <1>10, PoloniexFinds, Zenon
    <2>2. Boundary = 3 + 3 * a
      BY <1>10, <2>1 DEF Boundary
    <2>3. /\ n <= ButLast(a) /\ list = Aligned(0, n)
          /\ pos = 4 + 3 * n \/ (pos = 0 /\ n = ButLast(a))
      BY <1>1, <1>3, <1>6, <1>10, Making DEF n, a
    <2>4. ButLast(a) \in Nat /\ (a > 0 => ButLast(a) = a - 1)
      BY <1>4, ButLastFacts
    <2>5. pos = 4 + 3 * n /\ n < a /\ ButLast(a) = a - 1
      BY <1>1, <1>4, <2>2, <2>3, <2>4
    <2>6. CASE pos + 3 < Boundary
      <3>1. n + 1 <= ButLast(a) /\ pos' = 4 + 3 * (n + 1) /\ pos' \in 0 .. tokNo + 3
        BY <1>2, <1>4, <2>1, <2>2, <2>5, <2>6
      <3>2. l = LevelOf("ask", n + 1, n + 1)
        <4>1. 3 * (n + 1) + 1 = pos /\ 3 * (n + 1) + 2 = pos + 1 /\ n + 1 \in 1 .. a
          BY <1>4, <2>5
        <4>2. Level(3 * (n + 1) + 1, 3 * (n + 1) + 2) = LevelOf("ask", n + 1, n + 1)
          BY <2>1, <4>1
        <4> QED
          BY <4>1, <4>2, Zenon DEF l
      <3>3. list' = Aligned(0, n + 1)
        <4>1. e = Ask(LevelOf("ask", n + 1, n + 1))
          BY <1>10, <3>2 DEF e
        <4>2. list' = Append(Aligned(0, n), Ask(LevelOf("ask", n + 1, n + 1)))
          BY <1>2, <2>3, <2>6, <4>1, Zenon
        <4> QED
          BY <1>4, <4>2, AppendAsk, Zenon
      <3>4. Len(list') = n + 1
        <4>1. n + 1 \in Nat /\ 0 \in Nat /\ ~(0 > n + 1)
          BY <1>4
        <4> QED
          BY <3>3, <4>1, AlignedIsSeq
      <3>5. Walked(Len(list), cur - 1, Doc.bids, Doc.asks)'
        BY <1>1, <1>5, <1>10, <3>1, <3>3, <3>4 DEF Walked, Is, a
      <3> QED
        BY <1>1, <1>3, <1>5, <1>6, <1>7, <1>8, <3>1, <3>5, BookKept
    <2>7. CASE ~(pos + 3 < Boundary)
      <3>1. list' = list /\ pos' = 0
        BY <1>2, <2>7
      <3>2. n = ButLast(a)
        BY <1>4, <2>2, <2>5, <2>7
      <3>3. Walked(Len(list), cur - 1, Doc.bids, Doc.asks)'
        BY <1>1, <1>4, <1>5, <1>10, <2>3, <3>1, <3>2 DEF Walked, Is, a, n
      <3>4. pos' \in 0 .. tokNo + 3
        BY <1>4, <3>1
      <3> QED
        BY <1>1, <1>3, <1>5, <1>6, <1>7, <1>8, <3>3, <3>4, BookKept
    <2> QED
      BY <2>6, <2>7
  <1> QED
    BY <1>4, <1>9, <1>10

LEMMA MakeEntryKeeps == ASSUME BookInv, MakeEntry, Doc.kind # "other" PROVE BookInv'
  <1> DEFINE r == RateAt
             l == Level(QuantityAt, RateAt)
             n == Len(list)
             b == Doc.bids
             a == Doc.asks
  <1>0. /\ pc = "making" /\ pos # 0 /\ pos < Boundary /\ call.vendor = "bittrex"
        /\ UNCHANGED <<call, tokens, nth, first, sent>>
    BY Zenon DEF MakeEntry
  <1>8. r \in 0 .. tokNo
    BY <1>0, UsualRate
  <1>2. /\ pc' = pc /\ cur' = cur /\ pos' = r
        /\ list' = IF r # 0 /\ r < Boundary THEN Append(list, Bid(l)) ELSE list
    <2>1. r # Beyond
      BY <1>8 DEF Beyond
    <2> QED
      BY <2>1, Zenon DEF MakeEntry
  <1>1. /\ pc = "making" /\ pc' = "making" /\ pos # 0 /\ pos < Boundary /\ call.vendor = "bittrex"
        /\ UNCHANGED <<call, tokens, nth, cur, first, sent>>
        /\ pos' = r
    BY <1>0, <1>2
  <1>3. call.op = "books" /\ cur = 1
    BY <1>1 DEF BookInv, Kinds, Stands
  <1>4. /\ Doc.kind \in {"book", "error"} /\ b \in Nat /\ a \in Nat
        /\ Doc.kind = "book" => tokens = BookTokens(call.vendor, b, a)
        /\ IsSeq(tokens) /\ tokNo \in Nat /\ IsSeq(list) /\ n \in Nat /\ pos \in Nat
    BY <1>1, <1>3, BookFacts
  <1>5. Doc' = Doc /\ call'.op = "books" /\ call'.vendor = "bittrex" /\ cur' = 1
    BY <1>1, <1>3, Kept
  <1>6. Doc.kind = "book" /\ tokens = BookTokens("bittrex", b, a)
    BY <1>1, <1>3, <1>4, NoBook
  <1>7. IsSeq(Append(list, Bid(l))) /\ IsSeq(list')
    <2>1. IsSeq(Append(list, Bid(l)))
      BY <1>4, AppendFacts
    <2> QED
      BY <1>2, <1>4, <2>1, Zenon
  <1> HIDE DEF r, l, n, b, a
  <1>9. Len(list') \in Nat /\ cur' \in 1 .. Len(list') + 1 /\ pos' \in 0 .. tokNo + 3
    <2>1. Len(list') \in Nat
      BY <1>7, SeqFacts
    <2>2. pos' \in 0 .. tokNo + 3
      BY <1>1, <1>4, <1>8
    <2> QED
      BY <1>5, <2>1, <2>2
  <1>10. Boundary = 9 + 5 * b
    <2>1. SellPos = 9 + 5 * b
      BY <1>1, <1>4, <1>6, BittrexStarts, Zenon
    <2> QED
      BY <1>1, <2>1 DEF Boundary
  <1>11. /\ n <= b /\ list = Aligned(n, 0)
         /\ pos = IF n = 0 THEN 2 ELSE 8 + 5 * n
    <2>1. /\ n <= b /\ list = Aligned(n, 0)
          /\ \/ pos = IF n = 0 THEN 2 ELSE 8 + 5 * n
             \/ n = b /\ pos \in {0, 15 + 5 * b}
      BY <1>1, <1>3, <1>6, Making DEF n, b
    <2>2. pos # 0 /\ pos < 9 + 5 * b
      BY <1>1, <1>10
    <2>3. pos \notin {0, 15 + 5 * b}
      BY <1>4, <2>2
    <2> QED
      BY <2>1, <2>3
  <1>12. CASE n < b
    <2>1. r = 8 + 5 * (n + 1) /\ l = LevelOf("bid", n + 1, n + 1)
      BY <1>4, <1>6, <1>11, <1>12, BittrexBid, Zenon DEF r, l
    <2>2. r # 0 /\ r < Boundary /\ n + 1 <= b /\ n + 1 \in Nat /\ n + 1 # 0
      BY <1>4, <1>10, <1>12, <2>1
    <2>3. list' = Aligned(n + 1, 0)
      <3>1. list' = Append(Aligned(n, 0), Bid(LevelOf("bid", n + 1, n + 1)))
        BY <1>2, <1>11, <2>1, <2>2, Zenon
      <3> QED
        BY <1>4, <3>1, AppendBid, Zenon
    <2>4. Len(list') = n + 1
      <3>1. n + 1 > 0 /\ 0 \in Nat
        BY <1>4
      <3> QED
        BY <2>2, <2>3, <3>1, AlignedIsSeq
    <2>5. pos' = IF n + 1 = 0 THEN 2 ELSE 8 + 5 * (n + 1)
      BY <1>1, <2>1, <2>2
    <2>6. Walked(Len(list), cur - 1, Doc.bids, Doc.asks)'
      BY <1>1, <1>5, <2>2, <2>3, <2>4, <2>5 DEF Walked, Is, b
    <2> QED
      BY <1>1, <1>3, <1>5, <1>6, <1>7, <1>9, <2>6, BookKept
  <1>13. CASE n = b
    <2>1. r = IF a = 0 THEN 0 ELSE 15 + 5 * b
      <3>1. pos = IF b = 0 THEN 2 ELSE 8 + 5 * b
        BY <1>11, <1>13
      <3> QED
        BY <1>4, <1>6, <3>1, BittrexBeyond, Zenon DEF r
    <2>2. ~(r # 0 /\ r < Boundary) /\ r \in {0, 15 + 5 * b}
      BY <1>4, <1>10, <2>1
    <2>3. list' = list
      BY <1>2, <2>2
    <2>4. Walked(Len(list), cur - 1, Doc.bids, Doc.asks)'
      BY <1>1, <1>4, <1>5, <1>11, <1>13, <2>2, <2>3 DEF Walked, Is, b, n
    <2> QED
      BY <1>1, <1>3, <1>5, <1>6, <1>7, <1>9, <2>4, BookKept
  <1> QED
    BY <1>4, <1>11, <1>12, <1>13

(* The levels of the second side are filled in behind one another. *)
LEMMA FillEntryKeeps == ASSUME BookInv, FillEntry, Doc.kind # "other" PROVE BookInv'
  <1> DEFINE r == RateAt
             l == Level(QuantityAt, RateAt)
             f == cur - 1
             b == Doc.bids
             a == Doc.asks
  <1>0. /\ pc = "filling" /\ pos # 0 /\ call.vendor = "bittrex"
        /\ UNCHANGED <<call, tokens, nth, first, sent>>
    BY Zenon DEF FillEntry
  <1>7. r \in 0 .. tokNo
    BY <1>0, UsualRate
  <1>2. /\ pc' = pc /\ pos' = r
        /\ IF r = 0 THEN list' = list /\ cur' = cur ELSE list' = FillAsk(l) /\ cur' = cur + 1
    <2>1. r # Beyond
      BY <1>7 DEF Beyond
    <2> QED
      BY <2>1, Zenon DEF FillEntry
  <1>1. /\ pc = "filling" /\ pc' = "filling" /\ pos # 0 /\ call.vendor = "bittrex"
        /\ UNCHANGED <<call, tokens, nth, first, sent>>
        /\ pos' = r
    BY <1>0, <1>2
  <1>3. call.op = "books"
    BY <1>1 DEF BookInv, Kinds
  <1>4. /\ Doc.kind \in {"book", "error"} /\ b \in Nat /\ a \in Nat
        /\ Doc.kind = "book" => tokens = BookTokens(call.vendor, b, a)
        /\ IsSeq(tokens) /\ tokNo \in Nat /\ IsSeq(list) /\ Len(list) \in Nat /\ pos \in Nat
        /\ cur \in Nat \ {0} /\ cur <= Len(list) + 1
    BY <1>1, <1>3, BookFacts
  <1>5. Doc' = Doc /\ call'.op = "books" /\ call'.vendor = "bittrex"
    BY <1>1, <1>3, Kept
  <1>6. Doc.kind = "book" /\ tokens = BookTokens("bittrex", b, a)
    BY <1>1, <1>3, <1>4, NoBook
  <1>8. f \in Nat /\ cur = f + 1
    BY <1>4
  <1> HIDE DEF r, l, f, b, a
  <1>9. pos' \in 0 .. tokNo + 3
    BY <1>1, <1>4, <1>7
  <1>10. /\ f <= a /\ list = Aligned(b, f)
         /\ pos = IF f = 0 THEN 9 + 5 * b ELSE 10 + 5 * (b + f)
    BY <1>1, <1>3, <1>6, Filling DEF f, b, a
  <1>11. CASE f < a
    <2>1. r = 10 + 5 * (b + (f + 1)) /\ l = LevelOf("ask", f + 1, f + 1)
      BY <1>4, <1>6, <1>8, <1>10, <1>11, BittrexAsk, Zenon DEF r, l
    <2>2. r # 0 /\ f + 1 <= a /\ f + 1 \in Nat /\ f + 1 # 0
      BY <1>4, <1>8, <1>11, <2>1
    <2>3. list' = Aligned(b, f + 1) /\ Len(list') >= f + 1
      <3>1. /\ FillAsk(LevelOf("ask", f + 1, f + 1)) = Aligned(b, f + 1)
            /\ Len(Aligned(b, f + 1)) >= f + 1
        BY <1>4, <1>8, <1>10, FillsAsk, Zenon
      <3> QED
        BY <1>2, <2>1, <2>2, <3>1, Zenon
    <2>4. IsSeq(list')
      BY <1>4, <2>2, <2>3, AlignedIsSeq
    <2>5. cur' = f + 2 /\ cur' - 1 = f + 1
      BY <1>2, <1>8, <2>2
    <2>6. cur' \in 1 .. Len(list') + 1
      <3>1. Len(list') \in Nat
        BY <2>4, SeqFacts
      <3> QED
        BY <1>8, <2>3, <2>5, <3>1
    <2>7. pos' = IF f + 1 = 0 THEN 9 + 5 * b ELSE 10 + 5 * (b + (f + 1))
      BY <1>1, <2>1, <2>2
    <2>8. Walked(Len(list), cur - 1, Doc.bids, Doc.asks)'
      BY <1>1, <1>5, <2>2, <2>3, <2>5, <2>7 DEF Walked, Is, a, b
    <2> QED
      BY <1>1, <1>3, <1>6, <1>9, <2>4, <2>6, <2>8, BookKept
  <1>12. CASE f = a
    <2>1. r = 0
      <3>1. pos = IF a = 0 THEN 9 + 5 * b ELSE 10 + 5 * (b + a)
        BY <1>10, <1>12
      <3> QED
        BY <1>4, <1>6, <3>1, BittrexEnds, Zenon DEF r
    <2>2. list' = list /\ cur' = cur /\ pos' = 0
      BY <1>1, <1>2, <2>1
    <2>3. Walked(Len(list), cur - 1, Doc.bids, Doc.asks)'
      BY <1>1, <1>5, <1>8, <1>10, <1>12, <2>2 DEF Walked, Is, a, b
    <2>4. cur' \in 1 .. Len(list') + 1 /\ IsSeq(list')
      BY <1>4, <2>2
    <2> QED
      BY <1>1, <1>3, <1>6, <1>9, <2>3, <2>4, BookKept
  <1> QED
    BY <1>4, <1>8, <1>10, <1>11, <1>12

(* The asks of btc38 that are read beyond the tokens: of what is behind      *)
(* "asks" nothing is left but the two tokens of a level.                     *)
LEMMA Btc38Fault ==
  ASSUME BookInv, pc = "filling", pos # 0, call.vendor = "btc38",
         UNCHANGED <<call, tokens, nth, first, sent>>,
         ~(Parsed(pos) /\ Parsed(pos + 1)), ReadsBeyond
  PROVE  BookInv'
  <1>1. /\ call.op = "books" /\ tokNo \in Nat /\ cur \in Nat \ {0}
        /\ pos \in -1 .. tokNo + 3 /\ pos # -1
        /\ pos = SellPos + 3 * cur /\ (cur = 1 \/ pos <= tokNo)
    BY InvFacts DEF BookInv, Kinds, Stands, Is
  <1>2. SellPos = -1 \/ SellPos \in 1 .. tokNo
    BY Positions
  <1>3. pos > tokNo - 1 \/ pos + 1 > tokNo - 1
    BY <1>1 DEF Parsed
  <1>4. ASSUME NEW a \in 1 .. tokNo, tokNo = SellPos + 2 + 3 * a PROVE FALSE
    BY <1>1, <1>2, <1>3, <1>4
  <1>5. SellPos' = SellPos /\ tokNo' = tokNo
    BY SellPosKept DEF tokNo
  <1>6. FaultsKnown'
    <2>1. ~\E a \in 1 .. tokNo' : tokNo' = SellPos' + 2 + 3 * a
      BY <1>4, <1>5
    <2>2. Is("books", "btc38")'
      BY <1>1 DEF Is
    <2> QED
      BY <2>1, <2>2 DEF FaultsKnown
  <1> QED
    BY <1>6, FaultKept

LEMMA FillBtc38Keeps == ASSUME BookInv, FillBtc38, Doc.kind # "other" PROVE BookInv'
  <1> DEFINE l == Level(pos, pos + 1)
             f == cur - 1
             b == Doc.bids
             a == Doc.asks
  <1>1. /\ pc = "filling" /\ pos # 0 /\ call.vendor = "btc38"
        /\ UNCHANGED <<call, tokens, nth, first, sent>>
    BY Zenon DEF FillBtc38
  <1>2. \/ ~(Parsed(pos) /\ Parsed(pos + 1)) /\ ReadsBeyond
        \/ pc' = pc /\ IF pos + 3 > tokNo THEN pos' = 0 /\ list' = list /\ cur' = cur
                       ELSE pos' = pos + 3 /\ list' = FillAsk(l) /\ cur' = cur + 1
    BY Zenon DEF FillBtc38
  <1>3. call.op = "books"
    BY <1>1 DEF BookInv, Kinds
  <1>4. /\ Doc.kind \in {"book", "error"} /\ b \in Nat /\ a \in Nat
        /\ Doc.kind = "book"  => tokens = BookTokens(call.vendor, b, a)
        /\ Doc.kind = "error" => tokens = ErrorTokens(call.vendor) /\ b = 0 /\ a = 0
        /\ IsSeq(tokens) /\ tokNo \in Nat /\ IsSeq(list) /\ Len(list) \in Nat /\ pos \in Nat
        /\ cur \in Nat \ {0} /\ cur <= Len(list) + 1
    BY <1>1, <1>3, BookFacts
  <1>5. Doc' = Doc /\ call'.op = "books" /\ call'.vendor = "btc38"
    BY <1>1, <1>3, Kept
  <1>6. f \in Nat /\ cur = f + 1
    BY <1>4
  <1> HIDE DEF l, f, b, a
  <1>7. Doc.kind = "book" =>
          /\ tokNo = 5 + 3 * b + 3 * a
          /\ \A k \in 1 .. a : Level(3 * b + 3 * k + 3, 3 * b + 3 * k + 4) = LevelOf("ask", k, k)
    <2> SUFFICES ASSUME Doc.kind = "book"
                 PROVE  /\ tokNo = 5 + 3 * b + 3 * a
                        /\ \A k \in 1 .. a : Level(3 * b + 3 * k + 3, 3 * b + 3 * k + 4) = LevelOf("ask", k, k)
      OBVIOUS
    <2>1. tokens = BookTokens("btc38", b, a)
      BY <1>1, <1>4
    <2> QED
      BY <1>1, <1>4, <2>1, Btc38Finds, Zenon
  <1>8. Doc.kind = "book" =>
          /\ f <= ButLast(a) /\ list = Aligned(ButLast(b), f)
          /\ pos = 6 + 3 * (b + f)
    BY <1>1, <1>3, Filling DEF f, b, a
  <1>9. ButLast(a) \in Nat /\ (a > 0 => ButLast(a) = a - 1) /\ ButLast(b) \in Nat
    BY <1>4, ButLastFacts
  <1>10. CASE ~(Parsed(pos) /\ Parsed(pos + 1)) /\ ReadsBeyond
    BY <1>1, <1>10, Btc38Fault
  <1>11. CASE pc' = pc /\ IF pos + 3 > tokNo THEN pos' = 0 /\ list' = list /\ cur' = cur
                          ELSE pos' = pos + 3 /\ list' = FillAsk(l) /\ cur' = cur + 1
    <2>1. CASE Doc.kind = "error"
      <3>1. list = <<>> /\ cur = 1 /\ pos = 2 /\ tokNo = 3
        BY <1>1, <1>3, <1>4, <2>1, NoBook, ErrorFinds
      <3>2. pos' = 0 /\ list' = list /\ cur' = cur
        BY <1>11, <3>1
      <3> QED
        BY <1>1, <1>3, <1>4, <1>11, <2>1, <3>1, <3>2, BookKept
    <2>2. CASE Doc.kind = "book" /\ pos + 3 > tokNo
      <3>1. list' = list /\ cur' = cur /\ pos' = 0
        BY <1>11, <2>2
      <3>2. f = ButLast(a)
        <4>1. ButLast(0) = 0
          BY DEF ButLast
        <4> QED
          BY <1>4, <1>6, <1>7, <1>8, <1>9, <2>2, <4>1
      <3>3. Walked(Len(list), cur - 1, Doc.bids, Doc.asks)'
        BY <1>1, <1>5, <1>6, <1>8, <1>9, <1>11, <2>2, <3>1, <3>2 DEF Walked, Is, a, b, f
      <3>4. cur' \in 1 .. Len(list') + 1 /\ IsSeq(list') /\ pos' \in 0 .. tokNo + 3
        BY <1>4, <3>1
      <3> QED
        BY <1>1, <1>3, <1>11, <2>2, <3>3, <3>4, BookKept
    <2>3. CASE Doc.kind = "book" /\ ~(pos + 3 > tokNo)
      <3>1. list' = FillAsk(l) /\ cur' = cur + 1 /\ pos' = pos + 3
        BY <1>11, <2>3
      <3>2. /\ f + 1 <= ButLast(a) /\ f + 1 \in 1 .. a /\ f + 1 \in Nat
            /\ pos' = 6 + 3 * (b + (f + 1)) /\ pos' \in 0 .. tokNo + 3
            /\ 3 * b + 3 * (f + 1) + 3 = pos /\ 3 * b + 3 * (f + 1) + 4 = pos + 1
        BY <1>4, <1>6, <1>7, <1>8, <1>9, <2>3, <3>1
      <3>3. l = LevelOf("ask", f + 1, f + 1)
        <4>1. Level(3 * b + 3 * (f + 1) + 3, 3 * b + 3 * (f + 1) + 4) = LevelOf("ask", f + 1, f + 1)
          BY <1>7, <2>3, <3>2
        <4> QED
          BY <3>2, <4>1, Zenon DEF l
      <3>4. list' = Aligned(ButLast(b), f + 1) /\ Len(list') >= f + 1
        <4>1. /\ FillAsk(LevelOf("ask", f + 1, f + 1)) = Aligned(ButLast(b), f + 1)
              /\ Len(Aligned(ButLast(b), f + 1)) >= f + 1
          BY <1>6, <1>8, <1>9, <2>3, FillsAsk, Zenon
        <4> QED
          BY <3>1, <3>3, <4>1, Zenon
      <3>5. IsSeq(list')
        BY <1>9, <3>2, <3>4, AlignedIsSeq
      <3>6. cur' - 1 = f + 1 /\ cur' \in 1 .. Len(list') + 1
        <4>1. Len(list') \in Nat
          BY <3>5, SeqFacts
        <4> QED
          BY <1>6, <3>1, <3>4, <4>1
      <3>7. Walked(Len(list), cur - 1, Doc.bids, Doc.asks)'
        BY <1>1, <1>5, <1>11, <3>2, <3>4, <3>6 DEF Walked, Is, a, b
      <3> QED
        BY <1>1, <1>3, <1>11, <2>3, <3>2, <3>5, <3>6, <3>7, BookKept
    <2> QED
      BY <1>4, <2>1, <2>2, <2>3
  <1> QED
    BY <1>2, <1>10, <1>11

LEMMA FillPoloniexKeeps == ASSUME BookInv, FillPoloniex, Doc.kind # "other" PROVE BookInv'
  <1> DEFINE l == Level(pos, pos + 1)
             f == cur - 1
             b == Doc.bids
             a == Doc.asks
  <1>1. /\ pc = "filling" /\ pc' = "filling" /\ pos # 0 /\ pos < tokNo /\ call.vendor = "poloniex"
        /\ UNCHANGED <<call, tokens, nth, first, sent>>
    BY Zenon DEF FillPoloniex
  <1>2. IF pos + 3 >= tokNo THEN pos' = 0 /\ list' = list /\ cur' = cur
        ELSE pos' = pos + 3 /\ list' = FillBid(l) /\ cur' = cur + 1
    BY Zenon DEF FillPoloniex
  <1>3. call.op = "books"
    BY <1>1 DEF BookInv, Kinds
  <1>4. /\ Doc.kind \in {"book", "error"} /\ b \in Nat /\ a \in Nat
        /\ Doc.kind = "book"  => tokens = BookTokens(call.vendor, b, a)
        /\ Doc.kind = "error" => tokens = ErrorTokens(call.vendor)
        /\ IsSeq(tokens) /\ tokNo \in Nat /\ IsSeq(list) /\ Len(list) \in Nat /\ pos \in Nat
        /\ cur \in Nat \ {0} /\ cur <= Len(list) + 1
    BY <1>1, <1>3, BookFacts
  <1>5. Doc' = Doc /\ call'.op = "books" /\ call'.vendor = "poloniex"
    BY <1>1, <1>3, Kept
  <1>6. f \in Nat /\ cur = f + 1
    BY <1>4
  <1> HIDE DEF l, f, b, a
  <1>7. Doc.kind = "book" =>
          /\ tokNo = 9 + 3 * a + 3 * b
          /\ \A k \in 1 .. b : Level(3 * a + 3 * k + 3, 3 * a + 3 * k + 4) = LevelOf("bid", k, k)
    <2> SUFFICES ASSUME Doc.kind = "book"
                 PROVE  /\ tokNo = 9 + 3 * a + 3 * b
                        /\ \A k \in 1 .. b : Level(3 * a + 3 * k + 3, 3 * a + 3 * k + 4) = LevelOf("bid", k, k)
      OBVIOUS
    <2>1. tokens = BookTokens("poloniex", b, a)
      BY <1>1, <1>4
    <2> QED
      BY <1>1, <1>4, <2>1, PoloniexFinds, Zenon
  <1>8. Doc.kind = "book" =>
          /\ f <= b /\ list = Aligned(f, ButLast(a))
          /\ pos = 6 + 3 * (a + f)
    BY <1>1, <1>3, Filling DEF f, b, a
  <1>9. ButLast(a) \in Nat
    BY <1>4, ButLastFacts
  <1>10. CASE Doc.kind = "error"
    <2>1. list = <<>> /\ cur = 1 /\ pos = 2 /\ tokNo = 3
      BY <1>1, <1>3, <1>4, <1>10, NoBook, ErrorFinds
    <2>2. pos' = 0 /\ list' = list /\ cur' = cur
      BY <1>2, <2>1
    <2> QED
      BY <1>1, <1>3, <1>4, <1>10, <2>1, <2>2, BookKept
  <1>11. CASE Doc.kind = "book" /\ pos + 3 >= tokNo
    <2>1. list' = list /\ cur' = cur /\ pos' = 0
      BY <1>2, <1>11
    <2>2. f = b
      BY <1>4, <1>6, <1>7, <1>8, <1>11
    <2>3. Walked(Len(list), cur - 1, Doc.bids, Doc.asks)'
      BY <1>1, <1>5, <1>6, <1>8, <1>11, <2>1, <2>2 DEF Walked, Is, a, b, f
    <2>4. cur' \in 1 .. Len(list') + 1 /\ IsSeq(list') /\ pos' \in 0 .. tokNo + 3
      BY <1>4, <2>1
    <2> QED
      BY <1>1, <1>3, <1>11, <2>3, <2>4, BookKept
  <1>12. CASE Doc.kind = "book" /\ ~(pos + 3 >= tokNo)
    <2>1. list' = FillBid(l) /\ cur' = cur + 1 /\ pos' = pos + 3
      BY <1>2, <1>12
    <2>2. /\ f + 1 <= b /\ f + 1 \in 1 .. b /\ f + 1 \in Nat
          /\ pos' = 6 + 3 * (a + (f + 1)) /\ pos' \in 0 .. tokNo + 3
          /\ 3 * a + 3 * (f + 1) + 3 = pos /\ 3 * a + 3 * (f + 1) + 4 = pos + 1
      BY <1>4, <1>6, <1>7, <1>8, <1>12, <2>1
    <2>3. l = LevelOf("bid", f + 1, f + 1)
      <3>1. Level(3 * a + 3 * (f + 1) + 3, 3 * a + 3 * (f + 1) + 4) = LevelOf("bid", f + 1, f + 1)
        BY <1>7, <1>12, <2>2
      <3> QED
        BY <2>2, <3>1, Zenon DEF l
    <2>4. list' = Aligned(f + 1, ButLast(a)) /\ Len(list') >= f + 1
      <3>1. /\ FillBid(LevelOf("bid", f + 1, f + 1)) = Aligned(f + 1, ButLast(a))
            /\ Len(Aligned(f + 1, ButLast(a))) >= f + 1
        BY <1>6, <1>8, <1>9, <1>12, FillsBid, Zenon
      <3> QED
        BY <2>1, <2>3, <3>1, Zenon
    <2>5. IsSeq(list')
      BY <1>9, <2>2, <2>4, AlignedIsSeq
    <2>6. cur' - 1 = f + 1 /\ cur' \in 1 .. Len(list') + 1
      <3>1. Len(list') \in Nat
        BY <2>5, SeqFacts
      <3> QED
        BY <1>6, <2>1, <2>4, <3>1
    <2>7. Walked(Len(list), cur - 1, Doc.bids, Doc.asks)'
      BY <1>1, <1>5, <2>2, <2>4, <2>6 DEF Walked, Is, a, b
    <2> QED
      BY <1>1, <1>3, <1>12, <2>2, <2>5, <2>6, <2>7, BookKept
  <1> QED
    BY <1>4, <1>10, <1>11, <1>12

(* The same actions over any other document. *)
LEMMA StartBookOther == ASSUME BookInv, StartBook, Doc.kind = "other" PROVE BookInv'
  <1>1. /\ pc = "start" /\ call.op = "books"
        /\ UNCHANGED <<call, tokens, nth, list, cur, first, sent>>
    BY DEF StartBook
  <1>2. /\ call.vendor \in Vendors /\ IsSeq(tokens) /\ tokNo \in Nat
        /\ IsSeq(list) /\ Len(list) \in Nat
        /\ list = <<>> /\ pos = 0 /\ cur = 1
    BY <1>1, OtherFacts DEF BookInv, Kinds
  <1>3. IsSeq(list') /\ cur' = 1 /\ cur' \in 1 .. Len(list') + 1
    BY <1>1, <1>2
  <1>4. CASE call.vendor \in {"btc38", "poloniex"}
    <2>1. pos' \in {BidPos + 3, SellPos + 3} /\ pc' \in {"making", "parsed"}
      BY <1>4, Zenon DEF StartBook
    <2>2. pos' \in 2 .. tokNo + 3
      BY <1>2, <1>4, <2>1, Positions
    <2>3. pos' \in -1 .. tokNo + 3 /\ pos' # -1
      BY <1>2, <2>2
    <2> QED
      BY <1>1, <1>3, <1>4, <2>1, <2>3, OtherKept
  <1>5. CASE call.vendor = "bittrex"
    <2> DEFINE s == Value(0, "success", "primitive")
    <2>1. s \in 0 .. tokNo \/ (s = Beyond /\ EndsWith("success"))
      BY <1>2, ValueBound
    <2>2. IF s = Beyond THEN pc' = "fault" /\ pos' = pos
          ELSE /\ pos' = s
               /\ pc' = IF s # 0 /\ Tok(s) = Bool(TRUE) THEN "making" ELSE "parsed"
      BY <1>5, Zenon DEF StartBook
    <2>3. SellPos = Find(s, "sell")
      BY <1>5, Zenon DEF SellPos
    <2> HIDE DEF s
    <2>4. CASE s = Beyond
      <3>1. pc' = "fault" /\ pos' = pos
        BY <2>2, <2>4, Zenon
      <3>2. s \notin 0 .. tokNo
        BY <1>2, <2>4 DEF Beyond
      <3>3. tokNo > 0 /\ Tok(tokNo - 1) \in Sought
        BY <2>1, <3>2, KeysSought DEF EndsWith
      <3> QED
        BY <1>1, <3>1, <3>3, KeyEnds DEF ReadsBeyond
    <2>5. CASE s # Beyond
      <3>1. pos' = s /\ pc' \in {"making", "parsed"}
        BY <2>2, <2>5
      <3>2. s \in Nat /\ s \in -1 .. tokNo + 3 /\ s # -1
        BY <1>2, <2>1, <2>5
      <3>3. SellPos # Beyond
        BY <1>2, <2>3, <3>2, FindBound DEF Find, Beyond
      <3> QED
        BY <1>1, <1>3, <1>5, <3>1, <3>2, <3>3, OtherKept
    <2> QED
      BY <2>4, <2>5
  <1> QED
    BY <1>2, <1>4, <1>5 DEF Vendors

LEMMA EndMakingOther == ASSUME BookInv, EndMaking, Doc.kind = "other" PROVE BookInv'
  <1>1. /\ pc = "making" /\ pc' = "filling"
        /\ UNCHANGED <<call, tokens, nth, list, cur, first, sent>>
    BY DEF EndMaking
  <1>2. /\ call.op = "books" /\ call.vendor \in Vendors /\ tokNo \in Nat /\ IsSeq(list)
        /\ cur = 1 /\ cur \in 1 .. Len(list) + 1 /\ (call.vendor = "bittrex" => SellPos # Beyond)
    BY <1>1, OtherFacts
  <1>3. IsSeq(list') /\ cur' = 1 /\ cur' \in 1 .. Len(list') + 1
    BY <1>1, <1>2
  <1>4. CASE call.vendor = "btc38"
    <2>1. pos' = SellPos + 3
      BY <1>4, Zenon DEF EndMaking
    <2>2. SellPos = -1 \/ SellPos \in 1 .. tokNo
      BY <1>4, Positions
    <2>3. pos' \in -1 .. tokNo + 3 /\ pos' # -1 /\ pos' = SellPos + 3 * cur'
      BY <1>2, <1>3, <2>1, <2>2
    <2> QED
      BY <1>1, <1>2, <1>3, <1>4, <2>3, OtherKept
  <1>5. CASE call.vendor = "poloniex"
    <2>1. pos' = BidPos + 3
      BY <1>5, Zenon DEF EndMaking
    <2>2. pos' \in -1 .. tokNo + 3 /\ pos' # -1
      BY <1>2, <2>1, Positions
    <2> QED
      BY <1>1, <1>2, <1>3, <1>5, <2>2, OtherKept
  <1>6. CASE call.vendor = "bittrex"
    <2>1. pos' = SellPos
      BY <1>6, Zenon DEF EndMaking
    <2>2. SellPos = -1 \/ SellPos \in 0 .. tokNo - 1
      BY <1>2, <1>6, Positions
    <2>3. pos' \in -1 .. tokNo + 3
      BY <1>2, <2>1, <2>2
    <2> QED
      BY <1>1, <1>2, <1>3, <1>6, <2>1, <2>3, OtherKept
  <1> QED
    BY <1>2, <1>4, <1>5, <1>6 DEF Vendors

LEMMA EndFillingOther == ASSUME BookInv, EndFilling, Doc.kind = "other" PROVE BookInv'
  <1>1. /\ pc = "filling" /\ pc' = "parsed"
        /\ UNCHANGED <<call, tokens, nth, pos, list, cur, first, sent>>
        /\ pos = 0 \/ (call.vendor = "poloniex" /\ pos >= tokNo)
    BY DEF EndFilling
  <1>2. /\ call.op = "books" /\ IsSeq(list) /\ cur \in 1 .. Len(list) + 1 /\ tokNo \in Nat
        /\ pos \in -1 .. tokNo + 3
    BY <1>1, OtherFacts
  <1>3. IsSeq(list') /\ cur' \in 1 .. Len(list') + 1 /\ pos' \in -1 .. tokNo + 3 /\ pos' # -1
    BY <1>1, <1>2
  <1> QED
    BY <1>1, <1>2, <1>3, OtherKept

LEMMA MakePairOther == ASSUME BookInv, MakePair, Doc.kind = "other" PROVE BookInv'
  <1> DEFINE e == IF call.vendor = "btc38" THEN Bid(Level(pos, pos + 1))
                  ELSE Ask(Level(pos, pos + 1))
  <1>1. /\ pc = "making" /\ pos # 0 /\ pos < Boundary /\ call.vendor # "bittrex"
        /\ UNCHANGED <<call, tokens, nth, first, sent>>
    BY Zenon DEF MakePair
  <1>2. \/ ~(Parsed(pos) /\ Parsed(pos + 1)) /\ ReadsBeyond
        \/ /\ pc' = pc /\ cur' = cur
           /\ IF pos + 3 < Boundary THEN list' = Append(list, e) /\ pos' = pos + 3
              ELSE pos' = 0 /\ list' = list
    BY Zenon DEF MakePair
  <1>3. /\ call.op = "books" /\ call.vendor \in Vendors /\ tokNo \in Nat /\ IsSeq(list)
        /\ Len(list) \in Nat /\ cur = 1 /\ pos \in -1 .. tokNo + 3 /\ pos # -1
    BY <1>1, OtherFacts DEF Is
  <1> HIDE DEF e
  <1>4. \/ Boundary \in -1 .. tokNo - 1
        \/ Boundary = tokNo /\ call.vendor = "btc38" /\ SellPos = tokNo
    BY <1>1, <1>3, Positions DEF Boundary, Vendors
  <1>5. CASE ~(Parsed(pos) /\ Parsed(pos + 1)) /\ ReadsBeyond
    <2>1. call.vendor = "btc38" /\ SellPos = tokNo
      BY <1>1, <1>3, <1>4, <1>5 DEF Parsed
    <2>2. SellPos' = SellPos /\ tokNo' = tokNo
      BY <1>1, SellPosKept DEF tokNo
    <2>3. FaultsKnown'
      <3>1. ~\E a \in 1 .. tokNo' : tokNo' = SellPos' + 2 + 3 * a
        BY <1>3, <2>1, <2>2
      <3>2. Is("books", "btc38")'
        BY <1>1, <1>3, <2>1 DEF Is
      <3> QED
        BY <3>1, <3>2 DEF FaultsKnown
    <2> QED
      BY <1>1, <1>5, <2>3, FaultKept
  <1>6. CASE /\ pc' = pc /\ cur' = cur
             /\ IF pos + 3 < Boundary THEN list' = Append(list, e) /\ pos' = pos + 3
                ELSE pos' = 0 /\ list' = list
    <2>1. IsSeq(list')
      <3>1. IsSeq(Append(list, e))
        BY <1>3, AppendFacts
      <3> QED
        BY <1>3, <1>6, <3>1, Zenon
    <2>2. Len(list') \in Nat
      BY <2>1, SeqFacts
    <2>3. cur' = 1 /\ cur' \in 1 .. Len(list') + 1
      BY <1>3, <1>6, <2>2
    <2>4. pos' \in -1 .. tokNo + 3 /\ pos' # -1
      BY <1>3, <1>4, <1>6
    <2> QED
      BY <1>1, <1>3, <1>6, <2>1, <2>3, <2>4, OtherKept
  <1> QED
    BY <1>2, <1>5, <1>6

LEMMA MakeEntryOther == ASSUME BookInv, MakeEntry, Doc.kind = "other" PROVE BookInv'
  <1> DEFINE r == RateAt
             e == Bid(Level(QuantityAt, RateAt))
  <1>1. /\ pc = "making" /\ pos # 0 /\ call.vendor = "bittrex"
        /\ UNCHANGED <<call, tokens, nth, first, sent>>
    BY Zenon DEF MakeEntry
  <1>2. \/ r = Beyond /\ ReadsBeyond
        \/ /\ r # Beyond /\ pos' = r /\ pc' = pc /\ cur' = cur
           /\ list' = IF r # 0 /\ r < Boundary THEN Append(list, e) ELSE list
    BY Zenon DEF MakeEntry
  <1>3. /\ call.op = "books" /\ tokNo \in Nat /\ IsSeq(tokens) /\ IsSeq(list)
        /\ cur = 1 /\ SellPos # Beyond /\ pos \in -1 .. tokNo + 3 /\ pos # -1
    BY <1>1, OtherFacts
  <1>4. r \in 0 .. tokNo \/ (r = Beyond /\ tokNo > 0 /\ Tok(tokNo - 1) \in Sought)
    BY <1>3, RateBound
  <1> HIDE DEF r, e
  <1>5. CASE r = Beyond /\ ReadsBeyond
    <2>1. r \notin 0 .. tokNo
      BY <1>3, <1>5 DEF Beyond
    <2> QED
      BY <1>1, <1>4, <1>5, <2>1, KeyEnds
  <1>6. CASE /\ r # Beyond /\ pos' = r /\ pc' = pc /\ cur' = cur
             /\ list' = IF r # 0 /\ r < Boundary THEN Append(list, e) ELSE list
    <2>1. IsSeq(list')
      <3>1. IsSeq(Append(list, e))
        BY <1>3, AppendFacts
      <3> QED
        BY <1>3, <1>6, <3>1, Zenon
    <2>2. Len(list') \in Nat
      BY <2>1, SeqFacts
    <2>3. cur' = 1 /\ cur' \in 1 .. Len(list') + 1
      BY <1>3, <1>6, <2>2
    <2>4. pos' \in -1 .. tokNo + 3 /\ pos' # -1
      BY <1>3, <1>4, <1>6
    <2> QED
      BY <1>1, <1>3, <1>6, <2>1, <2>3, <2>4, OtherKept
  <1> QED
    BY <1>2, <1>5, <1>6

LEMMA FillEntryOther == ASSUME BookInv, FillEntry, Doc.kind = "other" PROVE BookInv'
  <1> DEFINE r == RateAt
             l == Level(QuantityAt, RateAt)
  <1>1. /\ pc = "filling" /\ pos # 0 /\ call.vendor = "bittrex"
        /\ UNCHANGED <<call, tokens, nth, first, sent>>
    BY Zenon DEF FillEntry
  <1>2. \/ r = Beyond /\ ReadsBeyond
        \/ /\ r # Beyond /\ pos' = r /\ pc' = pc
           /\ IF r = 0 THEN list' = list /\ cur' = cur ELSE list' = FillAsk(l) /\ cur' = cur + 1
    BY Zenon DEF FillEntry
  <1>3. /\ call.op = "books" /\ tokNo \in Nat /\ IsSeq(tokens) /\ IsSeq(list)
        /\ Len(list) \in Nat /\ cur \in 1 .. Len(list) + 1 /\ pos \in -1 .. tokNo + 3
        /\ pos = -1 => SellPos = -1
    BY <1>1, OtherFacts
  <1> HIDE DEF l
  <1>4. CASE pos = -1
    <2>1. Find(pos, "Quantity") = Beyond
      <3>1. pos < 0
        BY <1>4
      <3> QED
        BY <3>1, Zenon DEF Find, FindToken
    <2>2. Beyond # -1 /\ pos \notin {0, Beyond}
      BY <1>4 DEF Beyond
    <2>3. QuantityAt = Beyond
      BY <2>1, <2>2, Zenon DEF QuantityAt, ValueAfter, Value
    <2>4. r = Beyond
      BY <2>3, Zenon DEF RateAt, ValueAfter
    <2>5. ReadsBeyond
      BY <1>2, <2>4
    <2>6. SellPos' = SellPos /\ Doc' = Doc
      BY <1>1, SellPosKept, Kept
    <2>7. FaultsKnown'
      <3>1. Is("books", "bittrex")'
        BY <1>1, <1>3 DEF Is
      <3> QED
        BY <1>3, <1>4, <2>6, <3>1 DEF FaultsKnown
    <2> QED
      BY <1>1, <2>5, <2>7, FaultKept
  <1>5. CASE pos # -1
    <2>1. r \in 0 .. tokNo \/ (r = Beyond /\ tokNo > 0 /\ Tok(tokNo - 1) \in Sought)
      BY <1>3, <1>5, RateBound
    <2> HIDE DEF r
    <2>2. CASE r = Beyond /\ ReadsBeyond
      <3>1. r \notin 0 .. tokNo
        BY <1>3, <2>2 DEF Beyond
      <3> QED
        BY <1>1, <2>1, <2>2, <3>1, KeyEnds
    <2>3. CASE /\ r # Beyond /\ pos' = r /\ pc' = pc
               /\ IF r = 0 THEN list' = list /\ cur' = cur ELSE list' = FillAsk(l) /\ cur' = cur + 1
      <3>1. pos' \in -1 .. tokNo + 3 /\ pos' # -1
        BY <1>3, <2>1, <2>3
      <3>2. IsSeq(list') /\ cur' \in 1 .. Len(list') + 1
        <4>1. IsSeq(FillAsk(l)) /\ cur + 1 \in 1 .. Len(FillAsk(l)) + 1
          BY <1>3, FillsIsSeq
        <4> QED
          BY <1>3, <2>3, <4>1, Zenon
      <3> QED
        BY <1>1, <1>3, <2>3, <3>1, <3>2, OtherKept
    <2> QED
      BY <1>2, <2>2, <2>3
  <1> QED
    BY <1>4, <1>5

LEMMA FillBtc38Other == ASSUME BookInv, FillBtc38, Doc.kind = "other" PROVE BookInv'
  <1> DEFINE l == Level(pos, pos + 1)
  <1>1. /\ pc = "filling" /\ pos # 0 /\ call.vendor = "btc38"
        /\ UNCHANGED <<call, tokens, nth, first, sent>>
    BY Zenon DEF FillBtc38
  <1>2. \/ ~(Parsed(pos) /\ Parsed(pos + 1)) /\ ReadsBeyond
        \/ pc' = pc /\ IF pos + 3 > tokNo THEN pos' = 0 /\ list' = list /\ cur' = cur
                       ELSE pos' = pos + 3 /\ list' = FillAsk(l) /\ cur' = cur + 1
    BY Zenon DEF FillBtc38
  <1>3. /\ call.op = "books" /\ tokNo \in Nat /\ IsSeq(list)
        /\ Len(list) \in Nat /\ cur \in 1 .. Len(list) + 1 /\ pos \in -1 .. tokNo + 3
        /\ pos # -1 /\ pos = SellPos + 3 * cur
    BY <1>1, OtherFacts DEF Is
  <1>4. SellPos = -1 \/ SellPos \in 1 .. tokNo
    BY <1>1, Positions
  <1> HIDE DEF l
  <1>5. CASE ~(Parsed(pos) /\ Parsed(pos + 1)) /\ ReadsBeyond
    BY <1>1, <1>5, Btc38Fault
  <1>6. CASE pc' = pc /\ pos + 3 > tokNo /\ pos' = 0 /\ list' = list /\ cur' = cur
    <2>1. pos' \in -1 .. tokNo + 3 /\ pos' # -1
      BY <1>3, <1>6
    <2> QED
      BY <1>1, <1>3, <1>6, <2>1, OtherKept
  <1>7. CASE /\ pc' = pc /\ ~(pos + 3 > tokNo)
             /\ pos' = pos + 3 /\ list' = FillAsk(l) /\ cur' = cur + 1
    <2>1. /\ pos' \in -1 .. tokNo + 3 /\ pos' # -1 /\ pos' <= tokNo
          /\ pos' = SellPos + 3 * cur'
      BY <1>3, <1>4, <1>7
    <2>2. IsSeq(list') /\ cur' \in 1 .. Len(list') + 1
      BY <1>3, <1>7, FillsIsSeq
    <2> QED
      BY <1>1, <1>3, <1>7, <2>1, <2>2, OtherKept
  <1> QED
    BY <1>2, <1>5, <1>6, <1>7

LEMMA FillPoloniexOther == ASSUME BookInv, FillPoloniex, Doc.kind = "other" PROVE BookInv'
  <1> DEFINE l == Level(pos, pos + 1)
  <1>1. /\ pc = "filling" /\ pc' = "filling" /\ pos # 0 /\ pos < tokNo /\ call.vendor = "poloniex"
        /\ UNCHANGED <<call, tokens, nth, first, sent>>
    BY Zenon DEF FillPoloniex
  <1>2. IF pos + 3 >= tokNo THEN pos' = 0 /\ list' = list /\ cur' = cur
        ELSE pos' = pos + 3 /\ list' = FillBid(l) /\ cur' = cur + 1
    BY Zenon DEF FillPoloniex
  <1>3. /\ call.op = "books" /\ tokNo \in Nat /\ IsSeq(list)
        /\ Len(list) \in Nat /\ cur \in 1 .. Len(list) + 1 /\ pos \in -1 .. tokNo + 3
        /\ pos # -1
    BY <1>1, OtherFacts DEF Is
  <1> HIDE DEF l
  <1>4. pos' \in -1 .. tokNo + 3 /\ pos' # -1
    BY <1>1, <1>2, <1>3
  <1>5. IsSeq(list') /\ cur' \in 1 .. Len(list') + 1
    <2>1. IsSeq(FillBid(l)) /\ cur + 1 \in 1 .. Len(FillBid(l)) + 1
      BY <1>3, FillsIsSeq
    <2> QED
      BY <1>2, <1>3, <2>1, Zenon
  <1> QED
    BY <1>1, <1>3, <1>4, <1>5, OtherKept

(* The headers and the parameters of a connection, and what is added to     *)
(* them.                                                                     *)
Connection(c, hs, ps) == c = [headers |-> hs, parameters |-> ps] /\ IsSeq(hs) /\ IsSeq(ps)

LEMMA Carried ==
  ASSUME NEW s, IsSeq(s), NEW name, NEW value
  PROVE  /\ IsSeq(Append(s, <<name, value>>)) /\ Append(s, <<name, value>>) # <<>>
         /\ Carries(Append(s, <<name, value>>), name, value)
         /\ \A n, v : Carries(s, n, v) => Carries(Append(s, <<name, value>>), n, v)
  <1> DEFINE x == <<name, value>>
             t == Append(s, x)
  <1>1. x = <<name, value>>
    OBVIOUS
  <1> HIDE DEF x
  <1>2. /\ IsSeq(t) /\ Len(t) = Len(s) + 1 /\ t[Len(s) + 1] = x
        /\ \A i \in 1 .. Len(s) : t[i] = s[i]
    BY AppendFacts
  <1> HIDE DEF t
  <1>3. Len(s) \in Nat /\ DOMAIN s = 1 .. Len(s) /\ DOMAIN t = 1 .. Len(s) + 1 /\ t # <<>>
    BY <1>2, SeqFacts
  <1>4. Carries(t, name, value)
    <2>1. Len(s) + 1 \in DOMAIN t
      BY <1>3
    <2> QED
      BY <1>1, <1>2, <2>1, Zenon DEF Carries
  <1>5. \A n, v : Carries(s, n, v) => Carries(t, n, v)
    <2>1. \A i \in DOMAIN s : i \in DOMAIN t /\ t[i] = s[i]
      BY <1>2, <1>3
    <2> QED
      BY <2>1, Zenon DEF Carries
  <1> QED
    BY <1>1, <1>2, <1>3, <1>4, <1>5, Zenon DEF t

LEMMA Added ==
  ASSUME NEW c, NEW hs, NEW ps, Connection(c, hs, ps), NEW name, NEW value
  PROVE  /\ Connection(AddPostParameter(c, name, value), hs, Append(ps, <<name, value>>))
         /\ Connection(AddHeader(c, name, value), Append(hs, <<name, value>>), ps)
  <1> DEFINE x == <<name, value>>
             s == Append(ps, x)
             t == Append(hs, x)
  <1>1. c = [headers |-> hs, parameters |-> ps] /\ IsSeq(hs) /\ IsSeq(ps)
    BY DEF Connection
  <1>2. IsSeq(s) /\ IsSeq(t)
    BY <1>1, Carried
  <1>3. c.headers = hs /\ c.parameters = ps
    BY <1>1
  <1>4. /\ AddPostParameter(c, name, value) = [c EXCEPT !.parameters = s]
        /\ AddHeader(c, name, value) = [c EXCEPT !.headers = t]
    BY <1>3, Zenon DEF AddPostParameter, AddHeader
  <1> HIDE DEF x, s, t
  <1>5. /\ [c EXCEPT !.parameters = s] = [headers |-> hs, parameters |-> s]
        /\ [c EXCEPT !.headers = t] = [headers |-> t, parameters |-> ps]
    BY <1>1
  <1>6. /\ Connection(AddPostParameter(c, name, value), hs, s)
        /\ Connection(AddHeader(c, name, value), t, ps)
    BY <1>1, <1>2, <1>4, <1>5 DEF Connection
  <1> QED
    BY <1>6, Zenon DEF s, t, x

LEMMA NewIsConnection == Connection(NewConnection, <<>>, <<>>)
  BY EmptyIsSeq DEF Connection, NewConnection

LEMMA Gets ==
  ASSUME NEW c, NEW hs, NEW ps, Connection(c, hs, ps), NEW url
  PROVE  GetRequest(url, c).url = url /\ GetRequest(url, c).headers = hs
  <1>1. c.headers = hs
    BY DEF Connection
  <1> QED
    BY <1>1 DEF GetRequest, Request

LEMMA Posts ==
  ASSUME NEW c, NEW hs, NEW ps, Connection(c, hs, ps), ps # <<>>, NEW url
  PROVE  /\ PostRequest(url, c).method = "POST"
         /\ PostRequest(url, c).headers = hs /\ PostRequest(url, c).body = ps
  <1>1. c.headers = hs /\ c.parameters = ps
    BY DEF Connection
  <1> QED
    BY <1>1 DEF PostRequest, Request

LEMMA SignedRequest ==
  ASSUME call.op = "balance", call.vendor \in Vendors
  PROVE  Authentic(ItsRequest)
  <1>1. CASE call.vendor = "bittrex"
    <2> DEFINE url == <<"bittrex", "getbalance", "apikey", "nonce", call.currency>>
               sg  == Sign("bittrex", url)
               hs  == Append(<<>>, <<"apisign", sg>>)
    <2>1. ItsRequest = GetRequest(url, AddHeader(NewConnection, "apisign", sg))
      BY <1>1, Zenon DEF ItsRequest, BittrexAsks
    <2>2. url[4] = "nonce" /\ 4 \in DOMAIN url
      OBVIOUS
    <2> HIDE DEF url
    <2>3. Connection(AddHeader(NewConnection, "apisign", sg), hs, <<>>)
      BY NewIsConnection, Added
    <2>4. Carries(hs, "apisign", sg)
      BY EmptyIsSeq, Carried
    <2> HIDE DEF hs
    <2>5. ItsRequest.url = url /\ ItsRequest.headers = hs
      BY <2>1, <2>3, Gets
    <2> QED
      BY <1>1, <2>2, <2>4, <2>5, Zenon DEF Authentic
  <1>2. CASE call.vendor = "poloniex"
    <2> DEFINE p1 == Append(<<>>, <<"command", "returnCompleteBalances">>)
               p2 == Append(p1, <<"nonce", "now">>)
               k1 == Append(<<>>, <<"Key", "apikey">>)
               h1 == AddPostParameter(NewConnection, "command", "returnCompleteBalances")
               h2 == AddPostParameter(h1, "nonce", "now")
               h3 == AddHeader(h2, "Key", "apikey")
               sg == Sign("poloniex", h3.parameters)
               k2 == Append(k1, <<"Sign", sg>>)
               h4 == AddHeader(h3, "Sign", sg)
    <2>1. ItsRequest = PostRequest(<<"poloniex", "tradingApi">>, h4)
      BY <1>2, Zenon DEF ItsRequest, PoloniexAsks
    <2>2. Connection(h1, <<>>, p1)
      BY NewIsConnection, Added
    <2>3. Connection(h2, <<>>, p2)
      <3> HIDE DEF h1, p1
      <3> QED
        BY <2>2, Added
    <2>4. Connection(h3, k1, p2)
      <3> HIDE DEF h2, p2
      <3> QED
        BY <2>3, Added
    <2>5. Connection(h4, k2, p2)
      <3> HIDE DEF h3, p2, k1, sg
      <3> QED
        BY <2>4, Added
    <2>6. IsSeq(p1) /\ IsSeq(k1) /\ Carries(k1, "Key", "apikey")
      BY EmptyIsSeq, Carried
    <2>7. p2 # <<>> /\ Carries(p2, "nonce", "now")
      <3> HIDE DEF p1
      <3> QED
        BY <2>6, Carried
    <2>8. Carries(k2, "Key", "apikey") /\ Carries(k2, "Sign", sg)
      <3> HIDE DEF k1, sg
      <3> QED
        BY <2>6, Carried
    <2>9. sg = Sign("poloniex", p2)
      <3> HIDE DEF h3, p2, k1
      <3> QED
        BY <2>4 DEF Connection
    <2> HIDE DEF h4, p2, k2, sg
    <2>10. /\ ItsRequest.method = "POST" /\ ItsRequest.headers = k2
           /\ ItsRequest.body = p2
      BY <2>1, <2>5, <2>7, Posts
    <2> QED
      BY <1>2, <2>7, <2>8, <2>9, <2>10, Zenon DEF Authentic
  <1>3. CASE call.vendor = "btc38"
    <2> DEFINE d  == <<"apikey", "userid", "apisecret", "now">>
               p1 == Append(<<>>, <<"key", "apikey">>)
               p2 == Append(p1, <<"time", "now">>)
               p3 == Append(p2, <<"md5", d>>)
               h1 == AddPostParameter(NewConnection, "key", "apikey")
               h2 == AddPostParameter(h1, "time", "now")
               h3 == AddPostParameter(h2, "md5", d)
    <2>1. ItsRequest = PostRequest(<<"btc38", "getMyBalance">>, h3)
      BY <1>3, Zenon DEF ItsRequest, Btc38Asks
    <2>2. Connection(h1, <<>>, p1)
      BY NewIsConnection, Added
    <2>3. Connection(h2, <<>>, p2)
      <3> HIDE DEF h1, p1
      <3> QED
        BY <2>2, Added
    <2>4. Connection(h3, <<>>, p3)
      <3> HIDE DEF h2, p2, d
      <3> QED
        BY <2>3, Added
    <2>5. IsSeq(p1) /\ Carries(p1, "key", "apikey")
      BY EmptyIsSeq, Carried
    <2>6. IsSeq(p2) /\ Carries(p2, "key", "apikey") /\ Carries(p2, "time", "now")
      <3> HIDE DEF p1
      <3> QED
        BY <2>5, Carried
    <2>7. /\ p3 # <<>> /\ Carries(p3, "key", "apikey") /\ Carries(p3, "time", "now")
          /\ Carries(p3, "md5", d)
      <3> HIDE DEF p2, d
      <3> QED
        BY <2>6, Carried
    <2> HIDE DEF h3, p3
    <2>8. ItsRequest.method = "POST" /\ ItsRequest.body = p3
      BY <2>1, <2>4, <2>7, Posts
    <2> QED
      BY <1>3, <2>7, <2>8, Zenon DEF Authentic
  <1> QED
    BY <1>1, <1>2, <1>3 DEF Vendors

-----------------------------------------------------------------------------
(* The theorems. *)

LEMMA InitKeeps == ASSUME Init PROVE BookInv
  <1>1. /\ call \in Calls /\ nth = 1 /\ pc = "get" /\ tokens = <<>> /\ pos = 0
        /\ list = <<>> /\ cur = 1 /\ first = <<>> /\ sent = <<>>
    BY DEF Init
  <1>2. /\ call.op \in {"books", "markets", "balance"} /\ call.vendor \in Vendors
        /\ 1 \in DOMAIN call.answers
    BY <1>1, CallFacts
  <1>3. IsSeq(list) /\ IsSeq(first) /\ IsSeq(tokens) /\ IsSeq(sent)
    BY <1>1, EmptyIsSeq, Zenon
  <1>4. Len(list) = 0 /\ Len(sent) = 0 /\ tokNo = 0 /\ DOMAIN sent = {}
    BY <1>1, <1>3, SeqFacts DEF tokNo
  <1>5. TypeOK
    BY <1>1, <1>2, <1>4 DEF TypeOK
  <1>6. Handled
    BY <1>1, <1>3, <1>4 DEF Handled
  <1>7. Kinds /\ MarketsFound /\ Stands /\ BookWalked /\ FaultsKnown
    BY <1>1 DEF Kinds, MarketsFound, Stands, BookWalked, FaultsKnown
  <1> QED
    BY <1>5, <1>6, <1>7 DEF BookInv

LEMMA StutterKeeps == ASSUME BookInv, UNCHANGED vars PROVE BookInv'
  <1>1. /\ UNCHANGED <<call, nth, pc, tokens, pos, list, cur, first, sent>>
        /\ Doc' = Doc /\ TokensOf(Doc)' = TokensOf(Doc) /\ ItsRequest' = ItsRequest
    BY Kept DEF vars
  <1>2. TypeOK'
    BY <1>1 DEF BookInv, TypeOK, tokNo, Vendors
  <1>3. Handled'
    <2>1. call' \in Calls
      BY <1>1 DEF BookInv, Handled
    <2>2. IsSeq(list') /\ IsSeq(first') /\ IsSeq(tokens') /\ IsSeq(sent')
      BY <1>1, Zenon DEF BookInv, Handled
    <2>3. (pc' # "get" => tokens' = TokensOf(Doc)') /\ \A i \in DOMAIN sent' : sent'[i] = ItsRequest'
      BY <1>1 DEF BookInv, Handled
    <2> QED
      BY <2>1, <2>2, <2>3, Zenon DEF Handled
  <1>4. \A op, v : Is(op, v)' <=> Is(op, v)
    BY <1>1 DEF Is
  <1>5. Kinds' /\ MarketsFound'
    BY <1>1, <1>4 DEF BookInv, Kinds, MarketsFound
  <1>6. BookWalked'
    <2>1. BookWalked
      BY DEF BookInv
    <2>2. Walked(Len(list), cur - 1, Doc.bids, Doc.asks)' <=> Walked(Len(list), cur - 1, Doc.bids, Doc.asks)
      BY <1>1, <1>4, Zenon DEF Walked
    <2>3. Aligned(BidsKept(Doc), AsksKept(Doc))' = Aligned(BidsKept(Doc), AsksKept(Doc))
      BY <1>1, Zenon DEF Aligned, BidsKept, AsksKept
    <2> QED
      BY <1>1, <2>1, <2>2, <2>3 DEF BookWalked
  <1>7. SellPos' = SellPos /\ tokNo' = tokNo
    BY <1>1, SellPosKept DEF tokNo
  <1>8. Stands'
    BY <1>1, <1>4, <1>7 DEF BookInv, Stands
  <1>9. FaultsKnown'
    <2>1. Checked' <=> Checked
      BY <1>1 DEF Checked
    <2>2. \A i : Tok(i)' = Tok(i)
      BY <1>1 DEF Tok
    <2>3. Sought' = Sought
      BY DEF Sought
    <2>4. FaultsKnown
      BY DEF BookInv
    <2> QED
      BY <1>1, <1>4, <1>7, <2>1, <2>2, <2>3, <2>4, Zenon DEF FaultsKnown
  <1> QED
    BY <1>2, <1>3, <1>5, <1>6, <1>8, <1>9 DEF BookInv

(* The invariant holds of every call, of whatever the exchange answers:      *)
(* every order book, list of markets and account, every kind of failure, and *)
(* any other document, whatever it holds.                                    *)
THEOREM Inductive == Spec => []BookInv
  <1>1. Init => BookInv
    BY InitKeeps
  <1>2. BookInv /\ [Next]_vars => BookInv'
    <2> SUFFICES ASSUME BookInv, [Next]_vars PROVE BookInv'
      OBVIOUS
    <2>1. CASE Get
      BY <2>1, GetKeeps
    <2>2. CASE Merge
      BY <2>2, MergeKeeps
    <2>3. CASE StartMarkets
      BY <2>3, StartMarketsKeeps
    <2>4. CASE BittrexMarket
      BY <2>4, BittrexMarketKeeps
    <2>5. CASE Btc38Market
      BY <2>5, Btc38MarketKeeps
    <2>6. CASE PoloniexMarket
      BY <2>6, PoloniexMarketKeeps
    <2>7. CASE EndMarkets
      BY <2>7, EndMarketsKeeps
    <2>8. CASE StartBook
      BY <2>8, StartBookKeeps, StartBookOther
    <2>9. CASE MakePair
      BY <2>9, MakePairKeeps, MakePairOther
    <2>10. CASE MakeEntry
      BY <2>10, MakeEntryKeeps, MakeEntryOther
    <2>11. CASE EndMaking
      BY <2>11, EndMakingKeeps, EndMakingOther
    <2>12. CASE FillBtc38
      BY <2>12, FillBtc38Keeps, FillBtc38Other
    <2>13. CASE FillPoloniex
      BY <2>13, FillPoloniexKeeps, FillPoloniexOther
    <2>14. CASE FillEntry
      BY <2>14, FillEntryKeeps, FillEntryOther
    <2>15. CASE EndFilling
      BY <2>15, EndFillingKeeps, EndFillingOther
    <2>16. CASE BittrexBalance \/ PoloniexBalance \/ Btc38Balance
      BY <2>16, BalanceKeeps
    <2>17. CASE UNCHANGED vars
      BY <2>17, StutterKeeps
    <2> QED
      BY <2>1, <2>2, <2>3, <2>4, <2>5, <2>6, <2>7, <2>8, <2>9, <2>10, <2>11, <2>12, <2>13,
         <2>14, <2>15, <2>16, <2>17 DEF Next
  <1> QED
    BY <1>1, <1>2, PTL DEF Spec

(* Every variable stays within its type; in particular start_pos stays      *)
(* within three tokens of the end of the document, and current within one   *)
(* entry of the end of the book.                                            *)
THEOREM TypeCorrect == Spec => []TypeOK
  <1>1. BookInv => TypeOK
    BY DEF BookInv
  <1> QED
    BY <1>1, Inductive, PTL

(* Order books of any size that the exchange sends come out aligned, entry  *)
(* by entry: no bid is put next to an ask of another level, and no level is *)
(* lost but the deepest.                                                    *)
THEOREM BooksAligned == Spec => []BookAligned
  <1>1. ASSUME BookInv PROVE BookAligned
    <2>1. Usual => Doc.kind # "other"
      BY <1>1 DEF BookInv, TypeOK, Usual, Doc
    <2> QED
      BY <1>1, <2>1 DEF BookInv, BookWalked, BookAligned
  <1> QED
    BY <1>1, Inductive, PTL

(* The causes of undefined behaviour are those of FaultsKnown, whatever a    *)
(* document holds: any tokens in any order, the keys that are looked for or  *)
(* not, and any number of tokens behind them.                                *)
THEOREM VendorFaults == Spec => []FaultsKnown
  <1>1. BookInv => FaultsKnown
    BY DEF BookInv
  <1> QED
    BY <1>1, Inductive, PTL

(* Every request for a balance bears the time and is signed over just what   *)
(* is sent, whatever the currency.                                           *)
THEOREM BalancesSigned == Spec => []RequestsAuthentic
  <1>1. ASSUME BookInv PROVE RequestsAuthentic
    <2> SUFFICES ASSUME call.op = "balance", NEW i \in DOMAIN sent PROVE Authentic(sent[i])
      BY DEF RequestsAuthentic
    <2>1. sent[i] = ItsRequest /\ call.vendor \in Vendors
      BY <1>1 DEF BookInv, Handled, TypeOK
    <2> QED
      BY <2>1, SignedRequest
  <1> QED
    BY <1>1, Inductive, PTL
=============================================================================
