----------------------------- MODULE WireProofs -----------------------------
(***************************************************************************)
(* Theorems about WireFormat, for lists of any number of trading pairs,    *)
(* names of any length and any size of the client's buffer.                *)
(***************************************************************************)
EXTENDS WireFormat, SequenceTheorems, WellFoundedInduction, TLAPS

-----------------------------------------------------------------------------
(* Induction.  The induction theorems of the library have a predicate as a  *)
(* parameter, which the provers cannot instantiate; that every set of       *)
(* numbers has a least one does the same.                                   *)

Below == {p \in Nat \X Nat : p[1] < p[2]}

LEMMA LeastNat ==
  ASSUME NEW T, T \subseteq Nat, T # {}
  PROVE  \E n \in T : \A m \in T : n <= m
  <1>1. IsWellFoundedOn(Below, Nat)
    BY NatLessThanWellFounded, Zenon DEF Below, OpToRel
  <1>2. PICK n \in T : \A m \in T : ~ (<<m, n>> \in Below)
    BY <1>1, WFMin
  <1>3. ASSUME NEW m \in T PROVE n <= m
    <2>1. <<m, n>> \in Nat \X Nat /\ <<m, n>> \notin Below
      BY <1>2
    <2> QED
      BY <2>1 DEF Below
  <1> QED
    BY <1>3

LEMMA SetInduction ==
  ASSUME NEW S, 0 \in S, \A n \in Nat : n \in S => n + 1 \in S
  PROVE  Nat \subseteq S
  <1> SUFFICES ASSUME Nat \ S # {} PROVE FALSE
    OBVIOUS
  <1>1. PICK n \in Nat \ S : \A m \in Nat \ S : n <= m
    <2>1. Nat \ S \subseteq Nat
      OBVIOUS
    <2> QED
      BY <2>1, LeastNat
  <1>2. n # 0
    BY <1>1
  <1>3. n - 1 \in Nat /\ n - 1 \in S
    BY <1>1, <1>2
  <1> QED
    BY <1>1, <1>3

(* Sums: a function that is defined by its values below exists. *)
LEMMA SumExists ==
  ASSUME NEW n \in Nat, NEW c \in [1 .. n -> Nat]
  PROVE  \E f \in [0 .. n -> Nat] :
           f = [k \in 0 .. n |-> IF k = 0 THEN 0 ELSE f[k - 1] + c[k]]
  <1> DEFINE Sums(j, f) == f = [k \in 0 .. j |-> IF k = 0 THEN 0 ELSE f[k - 1] + c[k]]
             S == {j \in Nat : j <= n => \E f \in [0 .. j -> Nat] : Sums(j, f)}
  <1>1. 0 \in S
    <2> DEFINE f == [k \in 0 .. 0 |-> 0]
    <2>1. f \in [0 .. 0 -> Nat] /\ Sums(0, f)
      OBVIOUS
    <2> HIDE DEF f
    <2> QED
      BY <2>1
  <1>2. ASSUME NEW j \in Nat, j \in S PROVE j + 1 \in S
    <2> SUFFICES ASSUME j + 1 <= n PROVE \E f \in [0 .. j + 1 -> Nat] : Sums(j + 1, f)
      OBVIOUS
    <2>1. PICK f \in [0 .. j -> Nat] : Sums(j, f)
      BY <1>2
    <2> DEFINE g == [k \in 0 .. j + 1 |-> IF k = j + 1 THEN f[j] + c[j + 1] ELSE f[k]]
    <2>2. g \in [0 .. j + 1 -> Nat]
      OBVIOUS
    <2>3. \A k \in 0 .. j + 1 : g[k] = IF k = 0 THEN 0 ELSE g[k - 1] + c[k]
      <3> TAKE k \in 0 .. j + 1
      <3>1. CASE k = j + 1
        BY <3>1
      <3>2. CASE k # j + 1
        <4>1. g[k] = f[k] /\ (k # 0 => g[k - 1] = f[k - 1])
          BY <3>2
        <4>2. f[k] = IF k = 0 THEN 0 ELSE f[k - 1] + c[k]
          BY <2>1, <3>2
        <4> QED
          BY <4>1, <4>2
      <3> QED
        BY <3>1, <3>2
    <2>4. Sums(j + 1, g)
      BY <2>2, <2>3
    <2> HIDE DEF g
    <2> QED
      BY <2>2, <2>4
  <1>3. Nat \subseteq S
    <2> HIDE DEF S
    <2> QED
      BY <1>1, <1>2, SetInduction
  <1>4. n \in S
    <2> HIDE DEF S
    <2> QED
      BY <1>3
  <1>5. \E f \in [0 .. n -> Nat] : Sums(n, f)
    <2>1. n <= n
      OBVIOUS
    <2> HIDE DEF Sums
    <2> QED
      BY <1>4, <2>1
  <1> QED
    BY <1>5

-----------------------------------------------------------------------------
(* Sequences of anything. *)

LEMMA SeqIsSeq == ASSUME NEW S, NEW s \in Seq(S) PROVE IsSeq(s)
  <1>1. s \in [1 .. Len(s) -> {s[i] : i \in DOMAIN s}] /\ Len(s) \in Nat
    OBVIOUS
  <1> QED
    BY <1>1 DEF IsSeq

LEMMA SeqFacts ==
  ASSUME NEW s, IsSeq(s)
  PROVE  Len(s) \in Nat /\ DOMAIN s = 1 .. Len(s) /\ (s = <<>> <=> Len(s) = 0)
  BY DEF IsSeq

LEMMA MadeSeq ==
  ASSUME NEW n \in Nat, NEW S, NEW s \in [1 .. n -> S]
  PROVE  IsSeq(s) /\ Len(s) = n
  <1>1. s \in Seq(S) /\ Len(s) = n
    OBVIOUS
  <1> QED
    BY <1>1, SeqIsSeq

(* s with t behind it, the part of s behind m up to n, s with x behind it. *)
IsConcat(u, s, t) ==
  /\ IsSeq(u) /\ Len(u) = Len(s) + Len(t)
  /\ \A i \in 1 .. Len(s) : u[i] = s[i]
  /\ \A i \in 1 .. Len(t) : u[Len(s) + i] = t[i]

IsPart(u, s, m, n) ==
  IsSeq(u) /\ Len(u) = n - m /\ \A i \in 1 .. n - m : u[i] = s[m + i]

IsAppend(u, s, x) ==
  /\ IsSeq(u) /\ Len(u) = Len(s) + 1 /\ u[Len(s) + 1] = x
  /\ \A i \in 1 .. Len(s) : u[i] = s[i]

LEMMA ConcatFacts ==
  ASSUME NEW s, IsSeq(s), NEW t, IsSeq(t)
  PROVE  IsConcat(s \o t, s, t)
  <1> DEFINE S == {s[i] : i \in DOMAIN s} \cup {t[i] : i \in DOMAIN t}
             u == s \o t
  <1>1. s \in Seq(S) /\ t \in Seq(S)
    <2>1. s \in [1 .. Len(s) -> S] /\ Len(s) \in Nat /\ t \in [1 .. Len(t) -> S] /\ Len(t) \in Nat
      BY DEF IsSeq
    <2> QED
      BY <2>1
  <1> HIDE DEF S
  <1>2. /\ u \in Seq(S) /\ Len(u) = Len(s) + Len(t)
        /\ \A i \in 1 .. Len(s) : u[i] = s[i]
        /\ \A i \in 1 .. Len(t) : u[Len(s) + i] = t[i]
    BY <1>1
  <1> HIDE DEF u
  <1>3. IsConcat(u, s, t)
    BY <1>2, SeqIsSeq DEF IsConcat
  <1> QED
    BY <1>3 DEF u

LEMMA SameSeq ==
  ASSUME NEW s, IsSeq(s), NEW t, IsSeq(t), Len(s) = Len(t),
         \A i \in 1 .. Len(s) : s[i] = t[i]
  PROVE  s = t
  <1> DEFINE S == {s[i] : i \in DOMAIN s}
  <1>1. s \in [1 .. Len(s) -> S] /\ t \in [1 .. Len(s) -> S]
    BY DEF IsSeq
  <1> HIDE DEF S
  <1> QED
    BY <1>1

LEMMA SubSeqFacts ==
  ASSUME NEW s, IsSeq(s), NEW m \in Nat, NEW n \in Nat, m <= n, n <= Len(s)
  PROVE  IsPart(SubSeq(s, m + 1, n), s, m, n)
  <1> DEFINE S == {s[i] : i \in DOMAIN s}
             u == SubSeq(s, m + 1, n)
  <1>1. s \in Seq(S) /\ Len(s) \in Nat
    BY DEF IsSeq
  <1> HIDE DEF S
  <1>2. /\ u \in Seq(S) /\ Len(u) = n - m
        /\ \A i \in 1 .. n - m : u[i] = s[m + i]
    BY <1>1
  <1> HIDE DEF u
  <1>3. IsPart(u, s, m, n)
    BY <1>2, SeqIsSeq DEF IsPart
  <1> QED
    BY <1>3 DEF u

LEMMA AppendFacts ==
  ASSUME NEW s, IsSeq(s), NEW x
  PROVE  IsAppend(Append(s, x), s, x)
  <1> DEFINE S == {s[i] : i \in DOMAIN s} \cup {x}
             u == Append(s, x)
  <1>1. s \in Seq(S) /\ x \in S
    <2>1. s \in [1 .. Len(s) -> S] /\ Len(s) \in Nat
      BY DEF IsSeq
    <2> QED
      BY <2>1
  <1> HIDE DEF S
  <1>2. /\ u \in Seq(S) /\ Len(u) = Len(s) + 1 /\ u[Len(s) + 1] = x
        /\ \A i \in 1 .. Len(s) : u[i] = s[i]
    BY <1>1
  <1> HIDE DEF u
  <1>3. IsAppend(u, s, x)
    BY <1>2, SeqIsSeq DEF IsAppend
  <1> QED
    BY <1>3 DEF u

LEMMA Tuples ==
  ASSUME NEW a, NEW b, NEW c
  PROVE  IsSeq(<<>>) /\ IsSeq(<<a, b>>) /\ IsSeq(<<a, b, c>>)
  <1> DEFINE S == {a, b, c}
  <1>1. <<>> \in Seq(S) /\ <<a, b>> \in Seq(S) /\ <<a, b, c>> \in Seq(S)
    OBVIOUS
  <1> HIDE DEF S
  <1> QED
    BY <1>1, SeqIsSeq

-----------------------------------------------------------------------------
(* Lengths. *)

LEMMA MarketLengths ==
  ASSUME markets \in Lists
  PROVE  /\ Len(markets) \in Nat /\ DOMAIN markets = 1 .. Len(markets)
         /\ \A k \in 1 .. Len(markets) : markets[k].base \in Nat /\ markets[k].market \in Nat
  <1>1. markets \in Seq([base : Nat, market : Nat])
    BY ListsAssumption
  <1>2. Len(markets) \in Nat /\ DOMAIN markets = 1 .. Len(markets)
    BY <1>1
  <1>3. \A k \in 1 .. Len(markets) : markets[k] \in [base : Nat, market : Nat]
    BY <1>1, ElementOfSeq
  <1> QED
    BY <1>2, <1>3

(* The fields of a market, and the record with its length in front. *)
Fee(k) == <<Field(3), <<"fee", k, 1>>, <<"fee", k, 2>>>>

LEMMA NameFacts ==
  ASSUME NEW k, NEW f, NEW len \in Nat
  PROVE  LET s == Name(k, f, len)
         IN  IsSeq(s) /\ Len(s) = 2 + len /\ s[1] = Field(f) /\ s[2] = Length(len)
  <1> DEFINE h == <<Field(f), Length(len)>>
             t == [i \in 1 .. len |-> Letter(k, f, i)]
             s == h \o t
  <1>1. IsSeq(h) /\ Len(h) = 2 /\ h[1] = Field(f) /\ h[2] = Length(len)
    BY Tuples
  <1>2. IsSeq(t) /\ Len(t) = len
    <2>1. t \in [1 .. len -> {Letter(k, f, i) : i \in 1 .. len}]
      OBVIOUS
    <2> HIDE DEF t
    <2> QED
      BY <2>1, MadeSeq
  <1>3. Name(k, f, len) = s
    BY DEF Name
  <1> HIDE DEF h, t
  <1>4. IsSeq(s) /\ Len(s) = 2 + len /\ s[1] = h[1] /\ s[2] = h[2]
    <2>1. IsConcat(s, h, t)
      BY <1>1, <1>2, ConcatFacts
    <2> HIDE DEF s
    <2> QED
      BY <1>1, <1>2, <2>1 DEF IsConcat
  <1> QED
    BY <1>1, <1>3, <1>4

(* Where the fields of a record are. *)
LEMMA RecordFacts ==
  ASSUME NEW k, markets[k].base \in Nat, markets[k].market \in Nat
  PROVE  LET b == markets[k].base
             m == markets[k].market
             r == Record(k)
         IN  /\ IsSeq(r) /\ Len(r) = 7 + b + m
             /\ r[1] = Field(1) /\ r[2] = Length(b)
             /\ r[3 + b] = Field(2) /\ r[4 + b] = Length(m)
             /\ r[5 + b + m] = Field(3)
             /\ \A i \in 1 .. 2 + b : r[i] = Name(k, 1, b)[i]
             /\ \A i \in 1 .. 2 + m : r[2 + b + i] = Name(k, 2, m)[i]
             /\ \A i \in 1 .. 3 : r[4 + b + m + i] = Fee(k)[i]
  <1> DEFINE b == markets[k].base
             m == markets[k].market
             p == Name(k, 1, b)
             q == Name(k, 2, m)
             s == p \o q
             f == Fee(k)
             r == s \o f
  <1>1. b \in Nat /\ m \in Nat
    OBVIOUS
  <1>2. IsSeq(p) /\ Len(p) = 2 + b /\ p[1] = Field(1) /\ p[2] = Length(b)
    BY <1>1, NameFacts
  <1>3. IsSeq(q) /\ Len(q) = 2 + m /\ q[1] = Field(2) /\ q[2] = Length(m)
    BY <1>1, NameFacts
  <1>4. IsSeq(f) /\ Len(f) = 3 /\ f[1] = Field(3)
    BY Tuples DEF Fee
  <1>5. Record(k) = r
    BY DEF Record, Fee
  <1> HIDE DEF p, q, f, b, m
  <1>6. /\ IsSeq(s) /\ Len(s) = 4 + b + m
        /\ \A i \in 1 .. 2 + b : s[i] = p[i]
        /\ \A i \in 1 .. 2 + m : s[2 + b + i] = q[i]
    <2>1. IsConcat(s, p, q)
      BY <1>2, <1>3, ConcatFacts
    <2> HIDE DEF s
    <2> QED
      BY <1>1, <1>2, <1>3, <2>1 DEF IsConcat
  <1> HIDE DEF s
  <1>7. /\ IsSeq(r) /\ Len(r) = 7 + b + m
        /\ \A i \in 1 .. 4 + b + m : r[i] = s[i]
        /\ \A i \in 1 .. 3 : r[4 + b + m + i] = f[i]
    <2>1. IsConcat(r, s, f)
      BY <1>4, <1>6, ConcatFacts
    <2> HIDE DEF r
    <2> QED
      BY <1>1, <1>4, <1>6, <2>1 DEF IsConcat
  <1> HIDE DEF r
  <1>8. \A i \in 1 .. 2 + b : r[i] = p[i]
    BY <1>1, <1>6, <1>7
  <1>9. \A i \in 1 .. 2 + m : r[2 + b + i] = q[i]
    <2> TAKE i \in 1 .. 2 + m
    <2>1. 2 + b + i \in 1 .. 4 + b + m
      BY <1>1
    <2> QED
      BY <1>6, <1>7, <2>1
  <1>10. /\ r[1] = Field(1) /\ r[2] = Length(b)
         /\ r[3 + b] = Field(2) /\ r[4 + b] = Length(m)
         /\ r[5 + b + m] = Field(3)
    <2>1. r[1] = p[1] /\ r[2] = p[2]
      BY <1>1, <1>8
    <2>2. r[2 + b + 1] = q[1] /\ r[2 + b + 2] = q[2]
      BY <1>1, <1>9
    <2>3. r[4 + b + m + 1] = f[1]
      BY <1>7
    <2>4. 2 + b + 1 = 3 + b /\ 2 + b + 2 = 4 + b /\ 4 + b + m + 1 = 5 + b + m
      BY <1>1
    <2> QED
      BY <1>2, <1>3, <1>4, <2>1, <2>2, <2>3, <2>4
  <1> QED
    BY <1>5, <1>7, <1>8, <1>9, <1>10 DEF b, m, p, q, f

LEMMA DelimitedFacts ==
  ASSUME NEW k, markets[k].base \in Nat, markets[k].market \in Nat
  PROVE  LET d == Delimited(k)
             n == 7 + markets[k].base + markets[k].market
         IN  /\ IsSeq(d) /\ Len(d) = n + 2 /\ d[1] = Field(1) /\ d[2] = Length(n)
             /\ \A i \in 1 .. n : d[2 + i] = Record(k)[i]
  <1> DEFINE n == 7 + markets[k].base + markets[k].market
             h == <<Field(1), Length(Len(Record(k)))>>
             r == Record(k)
             d == h \o r
  <1>1. IsSeq(r) /\ Len(r) = n /\ n \in Nat
    BY RecordFacts
  <1>2. IsSeq(h) /\ Len(h) = 2 /\ h[1] = Field(1) /\ h[2] = Length(n)
    BY <1>1, Tuples
  <1>3. Delimited(k) = d
    BY DEF Delimited
  <1> HIDE DEF h, r, n
  <1>4. /\ IsSeq(d) /\ Len(d) = n + 2 /\ d[1] = h[1] /\ d[2] = h[2]
        /\ \A i \in 1 .. n : d[2 + i] = r[i]
    <2>1. IsConcat(d, h, r)
      BY <1>1, <1>2, ConcatFacts
    <2> HIDE DEF d
    <2> QED
      BY <1>1, <1>2, <2>1 DEF IsConcat
  <1> HIDE DEF d
  <1> QED
    BY <1>2, <1>3, <1>4 DEF n, r

LEMMA LengthDefined ==
  ASSUME markets \in Lists
  PROVE  LengthOfFirst = [k \in 0 .. Len(markets) |->
           IF k = 0 THEN 0 ELSE LengthOfFirst[k - 1] + Len(Delimited(k))]
  <1> DEFINE n == Len(markets)
             c == [k \in 1 .. n |-> Len(Delimited(k))]
             Def(f) == [k \in 0 .. n |->
               IF k = 0 THEN 0 ELSE f[k - 1] + Len(Delimited(k))]
  <1>1. n \in Nat /\ c \in [1 .. n -> Nat]
    <2>1. \A k \in 1 .. n : Len(Delimited(k)) \in Nat
      BY MarketLengths, DelimitedFacts, SeqFacts
    <2> QED
      BY <2>1, MarketLengths
  <1>2. PICK f \in [0 .. n -> Nat] :
          f = [k \in 0 .. n |-> IF k = 0 THEN 0 ELSE f[k - 1] + c[k]]
    <2> HIDE DEF n, c
    <2> QED
      BY <1>1, SumExists
  <1>3. f = Def(f)
    <2>1. \A k \in 1 .. n : c[k] = Len(Delimited(k))
      OBVIOUS
    <2>2. ASSUME NEW k \in 0 .. n PROVE f[k] = Def(f)[k]
      <3>1. f[k] = IF k = 0 THEN 0 ELSE f[k - 1] + c[k]
        <4> HIDE DEF n, c
        <4> QED
          BY <1>2
      <3>2. k # 0 => k \in 1 .. n
        BY <1>1
      <3> HIDE DEF c
      <3> QED
        BY <2>1, <3>1, <3>2
    <2>3. DOMAIN f = DOMAIN Def(f)
      OBVIOUS
    <2> QED
      BY <2>2, <2>3
  <1>4. LengthOfFirst = CHOOSE g : g = Def(g)
    BY DEF LengthOfFirst
  <1> HIDE DEF Def
  <1>5. LengthOfFirst = Def(LengthOfFirst)
    BY <1>3, <1>4
  <1> QED
    BY <1>5 DEF Def

LEMMA SizeDefined ==
  ASSUME markets \in Lists
  PROVE  SizeOfFirst = [k \in 0 .. Len(markets) |->
           IF k = 0 THEN 0 ELSE SizeOfFirst[k - 1] + MarketSize(markets[k]) + 11]
  <1> DEFINE n == Len(markets)
             c == [k \in 1 .. n |-> MarketSize(markets[k]) + 11]
             Def(f) == [k \in 0 .. n |->
               IF k = 0 THEN 0 ELSE f[k - 1] + MarketSize(markets[k]) + 11]
  <1>1. n \in Nat /\ c \in [1 .. n -> Nat]
    BY MarketLengths DEF MarketSize
  <1>2. PICK f \in [0 .. n -> Nat] :
          f = [k \in 0 .. n |-> IF k = 0 THEN 0 ELSE f[k - 1] + c[k]]
    <2> HIDE DEF n, c
    <2> QED
      BY <1>1, SumExists
  <1>3. f = Def(f)
    <2>1. \A k \in 1 .. n :
            /\ k - 1 \in 0 .. n /\ MarketSize(markets[k]) \in Nat
            /\ c[k] = MarketSize(markets[k]) + 11
      BY <1>1, MarketLengths DEF MarketSize
    <2>2. ASSUME NEW k \in 0 .. n PROVE f[k] = Def(f)[k]
      <3>1. f[k] = IF k = 0 THEN 0 ELSE f[k - 1] + c[k]
        <4> HIDE DEF n, c
        <4> QED
          BY <1>2
      <3>2. k # 0 => k \in 1 .. n /\ f[k - 1] \in Nat
        BY <1>1
      <3> HIDE DEF c
      <3> QED
        BY <2>1, <3>1, <3>2
    <2>3. DOMAIN f = DOMAIN Def(f)
      OBVIOUS
    <2> QED
      BY <2>2, <2>3
  <1>4. SizeOfFirst = CHOOSE g : g = Def(g)
    BY DEF SizeOfFirst
  <1> HIDE DEF Def
  <1>5. SizeOfFirst = Def(SizeOfFirst)
    BY <1>3, <1>4
  <1> QED
    BY <1>5 DEF Def

(* A market takes 9 bytes and those of its two names. *)
LEMMA LengthFacts ==
  ASSUME markets \in Lists
  PROVE  LET n == Len(markets)
         IN  /\ LengthOfFirst[0] = 0
             /\ \A k \in 0 .. n : LengthOfFirst[k] \in Nat
             /\ \A k \in 1 .. n : LengthOfFirst[k] =
                  LengthOfFirst[k - 1] + (9 + markets[k].base + markets[k].market)
             /\ \A j, k \in 0 .. n : j < k => LengthOfFirst[j] + 9 <= LengthOfFirst[k]
  <1> DEFINE n == Len(markets)
             d(k) == 9 + markets[k].base + markets[k].market
             S == {k \in Nat : k <= n => /\ LengthOfFirst[k] \in Nat
                                        /\ \A j \in 0 .. k - 1 : /\ LengthOfFirst[j] \in Nat
                                                                /\ LengthOfFirst[j] + 9 <= LengthOfFirst[k]}
  <1>1. n \in Nat
    BY MarketLengths
  <1>2. \A k \in 1 .. n : Len(Delimited(k)) = d(k) /\ d(k) \in Nat /\ d(k) >= 9
    <2> TAKE k \in 1 .. n
    <2>1. markets[k].base \in Nat /\ markets[k].market \in Nat
      BY MarketLengths
    <2> DEFINE b == markets[k].base
               m == markets[k].market
    <2>2. Len(Delimited(k)) = 7 + b + m + 2
      BY <2>1, DelimitedFacts
    <2>3. d(k) = 9 + b + m /\ b \in Nat /\ m \in Nat
      BY <2>1
    <2> HIDE DEF b, m, d
    <2> QED
      BY <2>2, <2>3
  <1> HIDE DEF n, d
  <1>3. LengthOfFirst = [k \in 0 .. n |-> IF k = 0 THEN 0 ELSE LengthOfFirst[k - 1] + Len(Delimited(k))]
    BY LengthDefined DEF n
  <1>4. LengthOfFirst[0] = 0
    <2>1. 0 \in 0 .. n
      BY <1>1
    <2> QED
      BY <1>3, <2>1
  <1>5. \A k \in 1 .. n : LengthOfFirst[k] = LengthOfFirst[k - 1] + d(k)
    <2> TAKE k \in 1 .. n
    <2>1. k \in 0 .. n /\ k # 0
      BY <1>1
    <2> QED
      BY <1>2, <1>3, <2>1
  <1>6. 0 \in S
    BY <1>4
  <1>7. ASSUME NEW k \in Nat, k \in S PROVE k + 1 \in S
    <2> SUFFICES ASSUME k + 1 <= n
                 PROVE  /\ LengthOfFirst[k + 1] \in Nat
                        /\ \A j \in 0 .. (k + 1) - 1 : /\ LengthOfFirst[j] \in Nat
                                                    /\ LengthOfFirst[j] + 9 <= LengthOfFirst[k + 1]
      OBVIOUS
    <2>1. /\ LengthOfFirst[k] \in Nat
          /\ \A j \in 0 .. k - 1 : /\ LengthOfFirst[j] \in Nat
                                  /\ LengthOfFirst[j] + 9 <= LengthOfFirst[k]
      BY <1>1, <1>7
    <2>2. LengthOfFirst[k + 1] = LengthOfFirst[k] + d(k + 1) /\ d(k + 1) \in Nat /\ d(k + 1) >= 9
      <3>1. k + 1 \in 1 .. n /\ (k + 1) - 1 = k
        BY <1>1
      <3> QED
        BY <1>2, <1>5, <3>1
    <2>3. ASSUME NEW j \in 0 .. (k + 1) - 1
          PROVE  LengthOfFirst[j] \in Nat /\ LengthOfFirst[j] + 9 <= LengthOfFirst[k + 1]
      <3>1. CASE j = k
        BY <2>1, <2>2, <3>1
      <3>2. CASE j # k
        <4>1. j \in 0 .. k - 1
          BY <3>2
        <4> QED
          BY <2>1, <2>2, <4>1
      <3> QED
        BY <3>1, <3>2
    <2> QED
      BY <2>1, <2>2, <2>3
  <1>8. Nat \subseteq S
    <2> HIDE DEF S
    <2> QED
      BY <1>6, <1>7, SetInduction
  <1>9. \A k \in 0 .. n : LengthOfFirst[k] \in Nat
    BY <1>1, <1>8
  <1>10. \A j, k \in 0 .. n : j < k => LengthOfFirst[j] + 9 <= LengthOfFirst[k]
    BY <1>1, <1>8
  <1> QED
    BY <1>4, <1>5, <1>9, <1>10 DEF n, d

(* The estimate of market_list_protobuf_encode_size is not exceeded. *)
LEMMA SizeFacts ==
  ASSUME markets \in Lists
  PROVE  LET n == Len(markets)
         IN  /\ \A k \in 0 .. n : SizeOfFirst[k] \in Nat /\ LengthOfFirst[k] <= SizeOfFirst[k]
             /\ \A k \in 0 .. n : SizeOfFirst[k] <= ListSize
  <1> DEFINE n == Len(markets)
             z(k) == MarketSize(markets[k])
             S == {k \in Nat : k <= n => /\ SizeOfFirst[k] \in Nat
                                        /\ LengthOfFirst[k] <= SizeOfFirst[k]
                                        /\ \A j \in 0 .. k : /\ SizeOfFirst[j] \in Nat
                                                            /\ SizeOfFirst[j] <= SizeOfFirst[k]}
  <1>1. n \in Nat
    BY MarketLengths
  <1>2. \A k \in 1 .. n : /\ z(k) \in Nat
                          /\ 9 + markets[k].base + markets[k].market \in Nat
                          /\ 9 + markets[k].base + markets[k].market <= z(k)
    BY MarketLengths DEF MarketSize
  <1> HIDE DEF z
  <1>3. SizeOfFirst = [k \in 0 .. n |-> IF k = 0 THEN 0 ELSE SizeOfFirst[k - 1] + z(k) + 11]
    BY SizeDefined DEF z
  <1>4. /\ LengthOfFirst[0] = 0
        /\ \A k \in 0 .. n : LengthOfFirst[k] \in Nat
        /\ \A k \in 1 .. n : LengthOfFirst[k] =
             LengthOfFirst[k - 1] + (9 + markets[k].base + markets[k].market)
    BY LengthFacts
  <1> HIDE DEF n
  <1>5. SizeOfFirst[0] = 0
    <2>1. 0 \in 0 .. n
      BY <1>1
    <2> QED
      BY <1>3, <2>1
  <1>6. 0 \in S
    BY <1>4, <1>5
  <1>7. ASSUME NEW k \in Nat, k \in S PROVE k + 1 \in S
    <2> SUFFICES ASSUME k + 1 <= n
                 PROVE  /\ SizeOfFirst[k + 1] \in Nat
                        /\ LengthOfFirst[k + 1] <= SizeOfFirst[k + 1]
                        /\ \A j \in 0 .. k + 1 : /\ SizeOfFirst[j] \in Nat
                                                /\ SizeOfFirst[j] <= SizeOfFirst[k + 1]
      OBVIOUS
    <2>1. /\ SizeOfFirst[k] \in Nat /\ LengthOfFirst[k] <= SizeOfFirst[k]
          /\ \A j \in 0 .. k : SizeOfFirst[j] \in Nat /\ SizeOfFirst[j] <= SizeOfFirst[k]
      BY <1>1, <1>7
    <2>2. k + 1 \in 1 .. n /\ k \in 0 .. n /\ k + 1 \in 0 .. n /\ k + 1 # 0 /\ (k + 1) - 1 = k
      BY <1>1
    <2>3. SizeOfFirst[k + 1] = SizeOfFirst[k] + z(k + 1) + 11
      BY <1>3, <2>2
    <2>4. LengthOfFirst[k + 1] = LengthOfFirst[k] + (9 + markets[k + 1].base + markets[k + 1].market)
      BY <1>4, <2>2
    <2>5. /\ z(k + 1) \in Nat
          /\ 9 + markets[k + 1].base + markets[k + 1].market \in Nat
          /\ 9 + markets[k + 1].base + markets[k + 1].market <= z(k + 1)
      BY <1>2, <2>2
    <2>6. LengthOfFirst[k] \in Nat
      BY <1>4, <2>2
    <2> DEFINE w == 9 + markets[k + 1].base + markets[k + 1].market
    <2>7. SizeOfFirst[k + 1] \in Nat /\ SizeOfFirst[k] <= SizeOfFirst[k + 1]
      BY <2>1, <2>3, <2>5
    <2>8. LengthOfFirst[k + 1] <= SizeOfFirst[k + 1]
      <3> HIDE DEF w
      <3>1. LengthOfFirst[k + 1] = LengthOfFirst[k] + w /\ w \in Nat /\ w <= z(k + 1)
        BY <2>4, <2>5 DEF w
      <3> QED
        BY <2>1, <2>3, <2>5, <2>6, <3>1
    <2>9. ASSUME NEW j \in 0 .. k + 1
          PROVE  SizeOfFirst[j] \in Nat /\ SizeOfFirst[j] <= SizeOfFirst[k + 1]
      <3>1. CASE j = k + 1
        BY <2>7, <3>1
      <3>2. CASE j # k + 1
        <4>1. j \in 0 .. k
          BY <3>2
        <4> QED
          BY <2>1, <2>7, <4>1
      <3> QED
        BY <3>1, <3>2
    <2> QED
      BY <2>7, <2>8, <2>9
  <1>8. Nat \subseteq S
    <2> HIDE DEF S
    <2> QED
      BY <1>6, <1>7, SetInduction
  <1>9. ASSUME NEW k \in 0 .. n
        PROVE  SizeOfFirst[k] \in Nat /\ LengthOfFirst[k] <= SizeOfFirst[k] /\ SizeOfFirst[k] <= SizeOfFirst[n]
    <2>1. k \in S /\ n \in S /\ k <= n /\ n <= n
      BY <1>1, <1>8
    <2> QED
      BY <2>1
  <1> QED
    BY <1>9 DEF n, ListSize

LEMMA Fits ==
  ASSUME markets \in Lists, NEW k \in 1 .. Len(markets)
  PROVE  /\ Len(Record(k)) <= MarketSize(markets[k])
         /\ LengthOfFirst[k - 1] + Len(Delimited(k)) = LengthOfFirst[k]
         /\ LengthOfFirst[k] <= ListSize
  <1>1. /\ markets[k].base \in Nat /\ markets[k].market \in Nat /\ Len(markets) \in Nat
        /\ k \in 0 .. Len(markets) /\ k # 0
    BY MarketLengths
  <1>2. Len(Record(k)) <= MarketSize(markets[k])
    <2> DEFINE b == markets[k].base
               m == markets[k].market
    <2>1. Len(Record(k)) = 7 + b + m /\ MarketSize(markets[k]) = b + 11 + m + 11 + 11
      BY <1>1, RecordFacts DEF MarketSize
    <2>2. b \in Nat /\ m \in Nat
      BY <1>1
    <2> HIDE DEF b, m
    <2> QED
      BY <2>1, <2>2
  <1>3. LengthOfFirst[k - 1] + Len(Delimited(k)) = LengthOfFirst[k]
    BY <1>1, LengthDefined
  <1>4. LengthOfFirst[k] <= SizeOfFirst[k] /\ SizeOfFirst[k] <= ListSize
    BY <1>1, SizeFacts
  <1>5. LengthOfFirst[k] \in Nat /\ SizeOfFirst[k] \in Nat /\ ListSize \in Nat
    <2>1. Len(markets) \in 0 .. Len(markets)
      BY <1>1
    <2> QED
      BY <1>1, <2>1, LengthFacts, SizeFacts DEF ListSize
  <1> QED
    BY <1>2, <1>3, <1>4, <1>5

-----------------------------------------------------------------------------
(* Steps.  What is made of the list stays what it is, as the list does. *)

LEMMA MarketsKept ==
  ASSUME markets' = markets
  PROVE  /\ LengthOfFirst' = LengthOfFirst /\ ListSize' = ListSize
         /\ \A k : /\ Record(k)' = Record(k) /\ Delimited(k)' = Delimited(k)
                   /\ Pair(k)' = Pair(k)
         /\ \A k, n : FieldsEnd(k, n)' = FieldsEnd(k, n)
  <1>1. \A k : Record(k)' = Record(k) /\ Delimited(k)' = Delimited(k) /\ Pair(k)' = Pair(k)
    BY DEF Record, Delimited, Pair
  <1>2. LengthOfFirst' = LengthOfFirst
    BY <1>1 DEF LengthOfFirst
  <1>3. ListSize' = ListSize
    BY DEF ListSize, SizeOfFirst
  <1>4. \A k, n : FieldsEnd(k, n)' = FieldsEnd(k, n)
    BY DEF FieldsEnd
  <1> QED
    BY <1>1, <1>2, <1>3, <1>4

LEMMA EncodedKept ==
  ASSUME markets' = markets, sent' = sent
  PROVE  \A n : Encoded(n)' <=> Encoded(n)
  BY MarketsKept DEF Encoded

LEMMA EncodedThen ==
  ASSUME markets' = markets, NEW n, Len(sent') = LengthOfFirst[n],
         \A k \in 1 .. n : \A i \in 1 .. Len(Delimited(k)) :
           sent'[LengthOfFirst[k - 1] + i] = Delimited(k)[i]
  PROVE  Encoded(n)'
  BY MarketsKept DEF Encoded

LEMMA NoResultsFacts ==
  /\ IsSeq(NoResults) /\ Len(NoResults) = 10
  /\ \A i \in 1 .. 10 : NoResults[i] # Field(1)
  <1>1. NoResults \in [1 .. 10 -> {Letter(0, 0, i) : i \in 1 .. 10}]
    BY DEF NoResults
  <1>2. IsSeq(NoResults) /\ Len(NoResults) = 10
    BY <1>1, MadeSeq
  <1>3. \A i \in 1 .. 10 : NoResults[i] = <<"letter", 0, 0, i>>
    BY DEF NoResults, Letter
  <1>4. \A i : <<"letter", 0, 0, i>> # <<"field", 1>>
    OBVIOUS
  <1> QED
    BY <1>2, <1>3, <1>4 DEF Field

(* A list that was sent has the bytes of all markets, at least 9. *)
LEMMA WholeList ==
  ASSUME IndInv, markets # <<>>, Encoded(Len(markets))
  PROVE  Len(markets) \in Nat \ {0} /\ Len(sent) = LengthOfFirst[Len(markets)] /\ Len(sent) >= 9
  <1>1. Len(markets) \in Nat /\ Len(markets) # 0
    <2>1. markets \in Seq([base : Nat, market : Nat])
      BY ListsAssumption DEF IndInv, Sending
    <2> QED
      BY <2>1
  <1>2. Len(markets) \in 0 .. Len(markets) /\ 0 \in 0 .. Len(markets) /\ 0 < Len(markets)
    BY <1>1
  <1>3. LengthOfFirst[0] = 0 /\ LengthOfFirst[0] + 9 <= LengthOfFirst[Len(markets)]
    BY <1>2, LengthFacts DEF IndInv, Sending
  <1> QED
    BY <1>1, <1>3 DEF Encoded

(* Until an answer is written the client waits. *)
LEMMA Waiting ==
  ASSUME IndInv, server # "written"
  PROVE  /\ client \in {"read", "fault"} /\ arrived = 0 /\ line # "closed"
  BY DEF IndInv, Receiving, Sending, TypeOK

LEMMA WaitingKept ==
  ASSUME IndInv, server # "written", UNCHANGED clientVars
  PROVE  Receiving' /\ Decoding' /\ PrintsWholeMarkets'
  <1>1. client \in {"read", "fault"} /\ client' = client /\ UNCHANGED <<buffer, pos, record, rpos, output>>
    BY Waiting DEF clientVars
  <1>2. Receiving'
    BY <1>1 DEF IndInv, Receiving
  <1>3. Decoding'
    BY <1>1 DEF Decoding
  <1>4. PrintsWholeMarkets'
    BY <1>1 DEF PrintsWholeMarkets
  <1> QED
    BY <1>2, <1>3, <1>4

LEMMA ReserveKeeps == ASSUME IndInv, Reserve PROVE IndInv'
  <1>1. /\ server = "size" /\ sent = <<>> /\ current = 1 /\ markets' = markets
        /\ UNCHANGED <<line, arrived, current>> /\ UNCHANGED clientVars
    BY DEF Reserve, IndInv, Sending, wireVars
  <1>2. client \in {"read", "fault"} /\ arrived = 0 /\ line # "closed"
    BY <1>1, Waiting
  <1>3. Receiving' /\ Decoding' /\ PrintsWholeMarkets'
    BY <1>1, WaitingKept
  <1>4. Sending'
    <2>1. CASE markets # <<>> /\ server' = "encode" /\ room' = ListSize /\ UNCHANGED sent
      <3>1. Encoded(0)'
        <4>1. LengthOfFirst[0] = 0
          BY LengthFacts DEF IndInv, Sending
        <4>2. Len(sent') = LengthOfFirst'[0]
          BY <1>1, <2>1, <4>1, MarketsKept
        <4> QED
          BY <4>2 DEF Encoded
      <3>2. room' = ListSize' /\ current' - 1 = 0
        BY <1>1, <2>1, MarketsKept
      <3> QED
        BY <1>1, <1>2, <2>1, <3>1, <3>2 DEF IndInv, Sending
    <2>2. CASE server' = "written" /\ sent' = NoResults
      <3>1. NoResults' = NoResults
        BY DEF NoResults, Letter
      <3> QED
        BY <1>1, <1>2, <2>2, <3>1, NoResultsFacts DEF IndInv, Sending
    <2> QED
      BY <2>1, <2>2 DEF Reserve
  <1>5. TypeOK'
    <2>1. server' \in {"encode", "written"} /\ arrived' = 0 /\ Len(sent') \in Nat
      <3>1. Len(sent') \in Nat
        BY <1>4, SeqFacts DEF Sending
      <3> QED
        BY <1>1, <1>2, <3>1 DEF Reserve
    <2> QED
      BY <1>1, <2>1 DEF IndInv, TypeOK, clientVars
  <1> QED
    BY <1>3, <1>4, <1>5 DEF IndInv

LEMMA EncodeKeeps == ASSUME IndInv, Encode PROVE IndInv'
  <1>1. /\ server = "encode" /\ markets' = markets /\ room' = room
        /\ UNCHANGED <<line, arrived>> /\ UNCHANGED clientVars
        /\ markets \in Lists /\ markets # <<>> /\ IsSeq(sent)
        /\ room = ListSize /\ Encoded(current - 1)
        /\ current \in 1 .. Len(markets) + 1 /\ Len(markets) \in Nat
    BY MarketLengths DEF Encode, IndInv, Sending, TypeOK, wireVars
  <1>2. client \in {"read", "fault"} /\ arrived = 0 /\ line # "closed"
    BY <1>1, Waiting
  <1>3. Receiving' /\ Decoding' /\ PrintsWholeMarkets'
    BY <1>1, WaitingKept
  <1>4. CASE current <= Len(markets)
    <2> DEFINE d == Delimited(current)
    <2>1. /\ current \in 1 .. Len(markets) /\ current - 1 \in 0 .. Len(markets)
          /\ current \in 0 .. Len(markets)
      BY <1>1, <1>4
    <2>2. /\ Len(Record(current)) <= MarketSize(markets[current])
          /\ LengthOfFirst[current - 1] + Len(d) = LengthOfFirst[current]
          /\ LengthOfFirst[current] <= ListSize
      BY <1>1, <2>1, Fits
    <2>3. Len(sent) = LengthOfFirst[current - 1]
      BY <1>1 DEF Encoded
    <2>4. sent' = sent \o d /\ current' = current + 1 /\ server' = server
      BY <1>1, <1>4, <2>2, <2>3 DEF Encode
    <2>5. IsSeq(d)
      BY <1>1, <2>1, MarketLengths, DelimitedFacts
    <2> HIDE DEF d
    <2>6. IsConcat(sent', sent, d)
      BY <1>1, <2>4, <2>5, ConcatFacts
    <2>7. LengthOfFirst[current - 1] \in Nat /\ Len(d) \in Nat
      BY <1>1, <2>1, <2>5, LengthFacts, SeqFacts
    <2>8. Len(sent') = LengthOfFirst[current]
      BY <2>2, <2>3, <2>6 DEF IsConcat
    <2>9. ASSUME NEW k \in 1 .. current, NEW i \in 1 .. Len(Delimited(k))
          PROVE  sent'[LengthOfFirst[k - 1] + i] = Delimited(k)[i]
      <3>1. CASE k = current
        <4>1. i \in 1 .. Len(d) /\ sent'[Len(sent) + i] = d[i]
          BY <2>6, <2>9, <3>1 DEF IsConcat, d
        <4> QED
          BY <2>3, <3>1, <4>1 DEF d
      <3>2. CASE k # current
        <4>1. /\ k \in 1 .. current - 1 /\ k \in 1 .. Len(markets)
              /\ k - 1 \in 0 .. Len(markets) /\ k \in 0 .. Len(markets)
              /\ (k < current - 1 \/ k = current - 1)
          BY <1>1, <2>1, <3>2
        <4>2. sent[LengthOfFirst[k - 1] + i] = Delimited(k)[i]
          BY <1>1, <2>9, <4>1 DEF Encoded
        <4>3. LengthOfFirst[k - 1] + Len(Delimited(k)) = LengthOfFirst[k]
          BY <1>1, <4>1, Fits
        <4>4. /\ LengthOfFirst[k - 1] \in Nat /\ LengthOfFirst[k] \in Nat
              /\ (k < current - 1 => LengthOfFirst[k] + 9 <= LengthOfFirst[current - 1])
          BY <1>1, <2>1, <4>1, LengthFacts
        <4>5. Len(Delimited(k)) \in Nat
          BY <1>1, <4>1, MarketLengths, DelimitedFacts, SeqFacts
        <4>6. LengthOfFirst[k - 1] + i \in 1 .. Len(sent)
          BY <2>3, <2>7, <4>1, <4>3, <4>4, <4>5
        <4> QED
          BY <2>6, <4>2, <4>6 DEF IsConcat
      <3> QED
        BY <3>1, <3>2
    <2>10. Sending'
      <3>1. \A k \in 1 .. current : \A i \in 1 .. Len(Delimited(k)) :
              sent'[LengthOfFirst[k - 1] + i] = Delimited(k)[i]
        BY <2>9
      <3>2. PICK n : n = current
        OBVIOUS
      <3>3. Encoded(n)'
        BY <1>1, <2>8, <3>1, <3>2, EncodedThen
      <3>4. current' - 1 = n
        BY <1>1, <2>4, <3>2
      <3>5. Encoded(current - 1)'
        BY <3>3, <3>4 DEF Encoded
      <3>6. room' = ListSize'
        BY <1>1, MarketsKept
      <3> QED
        BY <1>1, <1>2, <2>4, <2>6, <3>5, <3>6 DEF Sending, IsConcat
    <2>11. TypeOK'
      <3>1. Len(sent') \in Nat /\ current' \in 1 .. Len(markets') + 1
        BY <1>1, <1>4, <2>4, <2>6, SeqFacts DEF IsConcat
      <3> QED
        BY <1>1, <1>2, <2>4, <3>1 DEF IndInv, TypeOK, clientVars
    <2> QED
      BY <1>3, <2>10, <2>11 DEF IndInv
  <1>5. CASE current = Len(markets) + 1
    <2>1. server' = "write" /\ sent' = sent /\ current' = current
      BY <1>1, <1>5 DEF Encode
    <2>2. Encoded(Len(markets))'
      <3>1. PICK n : n = Len(markets)
        OBVIOUS
      <3>2. Encoded(n)'
        BY <1>1, <1>5, <2>1, <3>1, EncodedKept
      <3> QED
        BY <1>1, <3>1, <3>2 DEF Encoded
    <2>3. Sending'
      BY <1>1, <1>2, <2>1, <2>2 DEF Sending
    <2>4. TypeOK'
      BY <1>1, <2>1 DEF IndInv, TypeOK, clientVars
    <2> QED
      BY <1>3, <2>3, <2>4 DEF IndInv
  <1> QED
    BY <1>1, <1>3, <1>4, <1>5

LEMMA WriteKeeps == ASSUME IndInv, Write PROVE IndInv'
  <1>1. /\ server = "write" /\ server' = "written" /\ markets' = markets
        /\ UNCHANGED <<line, arrived, current, room>> /\ UNCHANGED clientVars
        /\ markets \in Lists /\ markets # <<>> /\ IsSeq(sent) /\ Encoded(Len(markets))
    BY DEF Write, IndInv, Sending, wireVars
  <1>2. client \in {"read", "fault"} /\ arrived = 0 /\ line # "closed"
    BY <1>1, Waiting
  <1>3. Receiving' /\ Decoding' /\ PrintsWholeMarkets'
    BY <1>1, WaitingKept
  <1>4. sent' = sent /\ Len(sent) \in Nat
    <2>1. Len(sent) >= 9
      BY <1>1, WholeList
    <2>2. sent # <<>>
      BY <2>1
    <2> QED
      BY <1>1, <2>2, SeqFacts DEF Write
  <1>5. Encoded(Len(markets))'
    <2>1. PICK n : n = Len(markets)
      OBVIOUS
    <2>2. Encoded(n)'
      BY <1>1, <1>4, <2>1, EncodedKept
    <2> QED
      BY <1>1, <2>1, <2>2 DEF Encoded
  <1>6. Sending'
    BY <1>1, <1>2, <1>4, <1>5 DEF Sending
  <1>7. TypeOK'
    BY <1>1, <1>2, <1>4 DEF IndInv, TypeOK, clientVars
  <1> QED
    BY <1>3, <1>6, <1>7 DEF IndInv

(* Neither TCP nor the client's reading changes what was sent. *)
LEMMA SentKept ==
  ASSUME IndInv, markets' = markets, UNCHANGED serverVars
  PROVE  /\ Encoded(Len(markets))' <=> Encoded(Len(markets))
         /\ Encoded(current - 1)' <=> Encoded(current - 1)
         /\ NoResults' = NoResults /\ ListSize' = ListSize
  <1>1. sent' = sent /\ current' = current
    BY DEF serverVars
  <1>2. \A n : Encoded(n)' <=> Encoded(n)
    BY <1>1, EncodedKept
  <1>3. PICK n : n = Len(markets)
    OBVIOUS
  <1>4. PICK m : m = current - 1
    OBVIOUS
  <1>5. Encoded(n)' <=> Encoded(Len(markets))'
    BY <1>3 DEF Encoded
  <1>6. Encoded(m)' <=> Encoded(current - 1)'
    BY <1>1, <1>4 DEF Encoded
  <1>7. NoResults' = NoResults
    BY DEF NoResults, Letter
  <1> QED
    BY <1>2, <1>3, <1>4, <1>5, <1>6, <1>7, MarketsKept

LEMMA SendingKept ==
  ASSUME IndInv, markets' = markets, UNCHANGED serverVars,
         server' # "written" => arrived' = 0 /\ line' # "closed",
         line' = "closed" => arrived' = Len(sent)
  PROVE  Sending'
  <1>1. UNCHANGED <<server, current, room, sent>>
    BY DEF serverVars
  <1> QED
    BY <1>1, SentKept DEF IndInv, Sending

LEMMA ClientKept ==
  ASSUME IndInv, markets' = markets, UNCHANGED serverVars, UNCHANGED clientVars
  PROVE  Receiving' /\ Decoding' /\ PrintsWholeMarkets'
  <1>1. UNCHANGED <<server, sent, client, buffer, pos, record, rpos, pair, output>>
    BY DEF serverVars, clientVars
  <1>2. Receiving'
    BY <1>1 DEF IndInv, Receiving
  <1>3. NoResults' = NoResults
    BY SentKept
  <1>4. Decoding'
    BY <1>1, <1>3, MarketsKept DEF IndInv, Decoding
  <1>5. PrintsWholeMarkets'
    BY <1>1, <1>3, MarketsKept DEF IndInv, PrintsWholeMarkets
  <1> QED
    BY <1>2, <1>4, <1>5

LEMMA DeliverKeeps == ASSUME IndInv, Deliver PROVE IndInv'
  <1>1. markets' = markets /\ UNCHANGED serverVars /\ UNCHANGED clientVars /\ server = "written"
    BY DEF Deliver
  <1>2. Receiving' /\ Decoding' /\ PrintsWholeMarkets'
    BY <1>1, ClientKept
  <1>3. /\ arrived' \in 0 .. Len(sent) /\ line' \in {"open", "closed"}
        /\ line' = "closed" => arrived' = Len(sent)
    BY SeqFacts DEF Deliver, IndInv, Sending, TypeOK
  <1>4. Sending'
    BY <1>1, <1>3, SendingKept DEF serverVars
  <1>5. TypeOK'
    BY <1>1, <1>3 DEF IndInv, TypeOK, serverVars, clientVars
  <1> QED
    BY <1>2, <1>4, <1>5 DEF IndInv

LEMMA ResetKeeps == ASSUME IndInv, Reset PROVE IndInv'
  <1>1. markets' = markets /\ UNCHANGED serverVars /\ UNCHANGED clientVars
    BY DEF Reset
  <1>2. Receiving' /\ Decoding' /\ PrintsWholeMarkets'
    BY <1>1, ClientKept
  <1>3. arrived' = 0 /\ line' = "reset" /\ Len(sent) \in Nat
    BY SeqFacts DEF Reset, IndInv, Sending
  <1>4. Sending'
    BY <1>1, <1>3, SendingKept
  <1>5. TypeOK'
    BY <1>1, <1>3 DEF IndInv, TypeOK, serverVars, clientVars
  <1> QED
    BY <1>2, <1>4, <1>5 DEF IndInv

LEMMA StutterKeeps == ASSUME IndInv, UNCHANGED vars PROVE IndInv'
  <1>1. markets' = markets /\ UNCHANGED serverVars /\ UNCHANGED clientVars /\ UNCHANGED <<line, arrived>>
    BY DEF vars, wireVars
  <1>2. Receiving' /\ Decoding' /\ PrintsWholeMarkets'
    BY <1>1, ClientKept
  <1>3. Sending'
    BY <1>1, SendingKept DEF serverVars, IndInv, Sending
  <1>4. TypeOK'
    BY <1>1 DEF IndInv, TypeOK, serverVars, clientVars
  <1> QED
    BY <1>2, <1>3, <1>4 DEF IndInv

LEMMA ReadKeeps == ASSUME IndInv, Read PROVE IndInv'
  <1>1. /\ client = "read" /\ markets' = markets /\ UNCHANGED <<line, arrived>>
        /\ UNCHANGED serverVars /\ UNCHANGED <<pos, record, rpos, pair, output>>
        /\ UNCHANGED <<server, current, room, sent>>
        /\ buffer = <<>> /\ pos = 0 /\ record = <<>> /\ rpos = 0 /\ output = <<>>
        /\ IsSeq(sent) /\ Len(sent) \in Nat
    BY SeqFacts DEF Read, IndInv, Sending, Receiving, wireVars, serverVars
  <1>2. Sending'
    BY <1>1, SendingKept DEF IndInv, Sending
  <1>3. CASE client' = "fault" /\ UNCHANGED buffer
    <2>1. Receiving' /\ Decoding' /\ PrintsWholeMarkets'
      BY <1>3 DEF Receiving, Decoding, PrintsWholeMarkets
    <2>2. TypeOK'
      BY <1>1, <1>3 DEF IndInv, TypeOK
    <2> QED
      BY <1>2, <2>1, <2>2 DEF IndInv
  <1>4. CASE (arrived > 0 \/ line = "closed") /\ client' = "list"
             /\ buffer' = SubSeq(sent, 1, AtMost(arrived, Cap))
    <2> DEFINE n == AtMost(arrived, Cap)
    <2>1. server = "written" /\ arrived \in 1 .. Len(sent)
      <3>1. server = "written" /\ arrived \in 0 .. Len(sent) /\ (line = "closed" => arrived = Len(sent))
        BY <1>4 DEF IndInv, Sending, TypeOK
      <3>2. Len(sent) >= 1
        <4>1. CASE sent = NoResults
          BY <4>1, NoResultsFacts
        <4>2. CASE sent # NoResults
          BY <3>1, <4>2, WholeList DEF IndInv, Sending
        <4> QED
          BY <4>1, <4>2
      <3> QED
        BY <1>1, <1>4, <3>1, <3>2
    <2>2. n \in 1 .. Len(sent) /\ n <= Cap
      BY <1>1, <2>1, CapAssumption DEF AtMost
    <2> HIDE DEF n
    <2>3. IsSeq(buffer') /\ Len(buffer') = n
      <3>1. IsPart(SubSeq(sent, 0 + 1, n), sent, 0, n)
        BY <1>1, <2>2, SubSeqFacts
      <3>2. buffer' = SubSeq(sent, 0 + 1, n)
        BY <1>4 DEF n
      <3> QED
        BY <2>2, <3>1, <3>2 DEF IsPart
    <2>4. buffer' = SubSeq(sent, 1, Len(buffer'))
      BY <1>4, <2>3 DEF n
    <2>5. Receiving'
      BY <1>1, <1>4, <2>1, <2>2, <2>3, <2>4 DEF Receiving
    <2>6. Decoding'
      <3>1. Len(output') = 0 /\ output' = <<>>
        BY <1>1
      <3>2. CASE sent = NoResults
        BY <1>1, <1>4, <3>1, <3>2, SentKept DEF Decoding
      <3>3. CASE sent # NoResults
        <4>1. markets \in Lists
          BY DEF IndInv, Sending
        <4>2. LengthOfFirst[0] = 0 /\ Len(markets) \in Nat
          BY <4>1, LengthFacts, MarketLengths
        <4>3. LengthOfFirst'[0] = pos' /\ 0 \in 0 .. Len(markets') /\ pos' <= Len(buffer')
          BY <1>1, <2>2, <2>3, <4>2, MarketsKept
        <4>4. output' = [i \in 1 .. 0 |-> Pair(i)']
          BY <3>1
        <4> QED
          BY <1>4, <3>1, <3>3, <1>1, <4>3, <4>4, SentKept DEF Decoding
      <3> QED
        BY <3>2, <3>3
    <2>7. PrintsWholeMarkets'
      BY <1>4 DEF PrintsWholeMarkets
    <2>8. TypeOK'
      <3>1. Len(buffer') <= Cap /\ pos' \in 0 .. Len(buffer') + 1
        BY <1>1, <2>2, <2>3
      <3>2. rpos' \in 0 .. Len(record')
        BY <1>1
      <3> QED
        BY <1>1, <1>4, <3>1, <3>2 DEF IndInv, TypeOK
    <2> QED
      BY <1>2, <2>5, <2>6, <2>7, <2>8 DEF IndInv
  <1> QED
    BY <1>3, <1>4 DEF Read

(* What the client has read begins where the answer begins. *)
LEMMA Reads ==
  ASSUME IndInv, client \in {"list", "market"}
  PROVE  /\ server = "written" /\ IsSeq(buffer) /\ IsSeq(sent)
         /\ Len(sent) \in Nat /\ Len(buffer) \in 1 .. Len(sent)
         /\ \A i \in 1 .. Len(buffer) : buffer[i] = sent[i]
         /\ sent # NoResults => markets # <<>> /\ Encoded(Len(markets))
         /\ sent = NoResults => Len(sent) = 10 /\ \A i \in 1 .. Len(buffer) : buffer[i] # Field(1)
  <1>1. /\ server = "written" /\ IsSeq(sent) /\ Len(sent) \in Nat
        /\ Len(buffer) \in 1 .. Len(sent) /\ buffer = SubSeq(sent, 1, Len(buffer))
        /\ (sent # NoResults => markets # <<>> /\ Encoded(Len(markets)))
    BY SeqFacts DEF IndInv, Sending, Receiving
  <1>2. PICK n : n = Len(buffer)
    OBVIOUS
  <1>3. IsPart(SubSeq(sent, 0 + 1, n), sent, 0, n) /\ 0 + 1 = 1 /\ n \in Nat
    BY <1>1, <1>2, SubSeqFacts
  <1>4. IsPart(buffer, sent, 0, n)
    BY <1>1, <1>2, <1>3
  <1>5. IsSeq(buffer) /\ \A i \in 1 .. n : buffer[i] = sent[i]
    BY <1>3, <1>4 DEF IsPart
  <1>6. ASSUME sent = NoResults
        PROVE  Len(sent) = 10 /\ \A i \in 1 .. n : buffer[i] # Field(1)
    <2>1. Len(sent) = 10 /\ \A i \in 1 .. 10 : sent[i] # Field(1)
      BY <1>6, NoResultsFacts
    <2>2. \A i \in 1 .. n : i \in 1 .. 10
      BY <1>1, <1>2, <2>1
    <2> QED
      BY <1>5, <2>1, <2>2
  <1> QED
    BY <1>1, <1>2, <1>5, <1>6

(* The client decodes market n + 1, whose bytes may end early. *)
LEMMA AtMarket ==
  ASSUME IndInv, client \in {"list", "market"}, sent # NoResults,
         NEW n \in 0 .. Len(markets), n < Len(markets)
  PROVE  LET d == Delimited(n + 1)
             at == LengthOfFirst[n]
             m == 7 + markets[n + 1].base + markets[n + 1].market
         IN  /\ at \in Nat /\ m \in Nat /\ IsSeq(d) /\ Len(d) = m + 2
             /\ d[1] = Field(1) /\ d[2] = Length(m)
             /\ \A i \in 1 .. m : d[2 + i] = Record(n + 1)[i]
             /\ LengthOfFirst[n + 1] = at + 2 + m
             /\ IsSeq(Record(n + 1)) /\ Len(Record(n + 1)) = m
             /\ \A i \in 1 .. m + 2 : at + i <= Len(buffer) => buffer[at + i] = d[i]
  <1> DEFINE d == Delimited(n + 1)
             at == LengthOfFirst[n]
             b == markets[n + 1].base
             c == markets[n + 1].market
             m == 7 + b + c
  <1>1. /\ markets \in Lists /\ Len(markets) \in Nat
        /\ n \in Nat /\ n + 1 \in 1 .. Len(markets) /\ (n + 1) - 1 = n
        /\ n + 1 \in 0 .. Len(markets)
    BY MarketLengths DEF IndInv, Sending
  <1>2. b \in Nat /\ c \in Nat
    BY <1>1, MarketLengths
  <1>3. at \in Nat /\ LengthOfFirst[n + 1] = at + (9 + b + c)
    BY <1>1, LengthFacts
  <1>4. /\ IsSeq(d) /\ Len(d) = m + 2 /\ d[1] = Field(1) /\ d[2] = Length(m)
        /\ \A i \in 1 .. m : d[2 + i] = Record(n + 1)[i]
    BY <1>2, DelimitedFacts
  <1>5. IsSeq(Record(n + 1)) /\ Len(Record(n + 1)) = m
    BY <1>2, RecordFacts
  <1>6. \A i \in 1 .. Len(d) : sent[at + i] = d[i]
    BY <1>1, Reads DEF Encoded
  <1>7. /\ \A i \in 1 .. Len(buffer) : buffer[i] = sent[i]
        /\ Len(buffer) \in Nat
    BY Reads
  <1> HIDE DEF d, at, b, c
  <1>8. ASSUME NEW i \in 1 .. m + 2, at + i <= Len(buffer) PROVE buffer[at + i] = d[i]
    <2>1. at + i \in 1 .. Len(buffer) /\ i \in 1 .. Len(d)
      BY <1>2, <1>3, <1>4, <1>7, <1>8
    <2> QED
      BY <1>6, <1>7, <2>1
  <1>9. m \in Nat /\ LengthOfFirst[n + 1] = at + 2 + m
    BY <1>2, <1>3
  <1> QED
    BY <1>3, <1>4, <1>5, <1>8, <1>9 DEF d, at, b, c

(* The steps of the client leave what it read and what was sent. *)
LEMMA ReadingKept ==
  ASSUME IndInv, client \in {"list", "market"}, UNCHANGED <<wireVars, serverVars, buffer>>,
         client' \in {"list", "market", "printed"}
  PROVE  Sending' /\ Receiving'
  <1>1. UNCHANGED <<markets, line, arrived>> /\ UNCHANGED <<server, current, room, sent>>
    BY DEF wireVars, serverVars
  <1>2. Sending'
    BY <1>1, SendingKept DEF IndInv, Sending
  <1>3. Receiving'
    BY <1>1 DEF IndInv, Receiving
  <1> QED
    BY <1>2, <1>3

LEMMA ClientTypes ==
  ASSUME IndInv, UNCHANGED <<wireVars, serverVars, buffer>>,
         client' \in {"list", "market", "printed"},
         pos' \in 0 .. Len(buffer) + 1, rpos' \in 0 .. Len(record')
  PROVE  TypeOK'
  BY DEF IndInv, TypeOK, wireVars, serverVars

LEMMA AtTheEnd ==
  ASSUME IndInv, client = "list", pos >= Len(buffer), sent # NoResults
  PROVE  LET n == Len(output)
         IN  /\ n \in DOMAIN markets /\ LengthOfFirst[n] = Len(buffer)
             /\ output = [i \in 1 .. n |-> Pair(i)]
  <1> DEFINE n == Len(output)
  <1>1. /\ n \in 0 .. Len(markets) /\ output = [i \in 1 .. n |-> Pair(i)]
        /\ pos = LengthOfFirst[n] /\ pos <= Len(buffer)
    BY DEF IndInv, Decoding
  <1>2. Len(buffer) >= 1 /\ Len(buffer) \in Nat
    BY Reads
  <1>3. LengthOfFirst[0] = 0 /\ LengthOfFirst[n] \in Nat /\ DOMAIN markets = 1 .. Len(markets)
    BY <1>1, LengthFacts, MarketLengths DEF IndInv, Sending
  <1> HIDE DEF n
  <1>4. LengthOfFirst[n] = Len(buffer)
    BY <1>1, <1>2, <1>3
  <1>5. n # 0
    BY <1>2, <1>3, <1>4
  <1>6. n \in DOMAIN markets
    BY <1>1, <1>3, <1>5
  <1> QED
    BY <1>1, <1>4, <1>6 DEF n

(* No market ends between where one ends and the next one does. *)
LEMMA Between ==
  ASSUME markets \in Lists, NEW n \in 0 .. Len(markets), n < Len(markets), NEW x \in Nat,
         LengthOfFirst[n] < x, x < LengthOfFirst[n + 1], NEW k \in DOMAIN markets
  PROVE  LengthOfFirst[k] # x
  <1>1. Len(markets) \in Nat /\ k \in 0 .. Len(markets) /\ n + 1 \in 0 .. Len(markets)
    BY MarketLengths
  <1>2. /\ \A i \in 0 .. Len(markets) : LengthOfFirst[i] \in Nat
        /\ \A i, j \in 0 .. Len(markets) : i < j => LengthOfFirst[i] + 9 <= LengthOfFirst[j]
    BY LengthFacts
  <1>3. k < n \/ k = n \/ k = n + 1 \/ n + 1 < k
    BY <1>1
  <1>4. CASE k < n
    BY <1>1, <1>2, <1>4
  <1>5. CASE n + 1 < k
    BY <1>1, <1>2, <1>5
  <1> QED
    BY <1>1, <1>2, <1>3, <1>4, <1>5

LEMMA ListFieldCases ==
  ASSUME ListField, pos \in Nat, Len(buffer) \in Nat
  PROVE  /\ pos >= Len(buffer) =>
              client' = "printed" /\ UNCHANGED <<pos, record, rpos, pair, output>>
         /\ pos < Len(buffer) /\ buffer[pos + 1] # Field(1) =>
              pos' = pos + 2 /\ UNCHANGED <<client, record, rpos, pair, output>>
         /\ pos < Len(buffer) /\ buffer[pos + 1] = Field(1) /\ ~Whole(buffer, pos) => Fail
         /\ pos < Len(buffer) /\ buffer[pos + 1] = Field(1) /\ Whole(buffer, pos) =>
              /\ record' = Body(buffer, pos) /\ rpos' = 0
              /\ pair' = <<>> /\ client' = "market" /\ UNCHANGED <<pos, output>>
  <1>1. pos >= Len(buffer) <=> ~(pos < Len(buffer))
    OBVIOUS
  <1> QED
    BY <1>1, Zenon DEF ListField

LEMMA AtMarketThen ==
  ASSUME NEW n, Len(output') = n, n \in 0 .. Len(markets'), n < Len(markets'),
         output' = [i \in 1 .. n |-> Pair(i)'], pos' = LengthOfFirst'[n], pos' <= Len(buffer'),
         client' = "market", sent' # NoResults', LengthOfFirst'[n + 1] <= Len(buffer'),
         record' = Record(n + 1)', NEW j, j \in 0 .. 3, Len(pair') = j,
         pair' = SubSeq(Pair(n + 1)', 1, j), rpos' = FieldsEnd(n + 1, j)'
  PROVE  Decoding'
  <1>1. Record(Len(output) + 1)' = Record(n + 1)'
    BY DEF Record
  <1>2. Pair(Len(output) + 1)' = Pair(n + 1)'
    BY DEF Pair
  <1>3. FieldsEnd(Len(output) + 1, Len(pair))' = FieldsEnd(n + 1, j)'
    BY DEF FieldsEnd
  <1>4. output' = [i \in 1 .. Len(output') |-> Pair(i)']
    OBVIOUS
  <1> QED
    BY <1>1, <1>2, <1>3, <1>4 DEF Decoding

LEMMA ListFieldKeeps == ASSUME IndInv, ListField PROVE IndInv'
  <1>1. /\ client = "list" /\ UNCHANGED <<wireVars, serverVars, buffer>>
        /\ UNCHANGED <<markets, line, arrived>> /\ UNCHANGED <<server, current, room, sent>>
        /\ pos \in 0 .. Len(buffer) + 1 /\ rpos \in 0 .. Len(record)
        /\ NoResults' = NoResults
    BY SentKept DEF ListField, IndInv, TypeOK, wireVars, serverVars
  <1>2. Len(buffer) \in Nat /\ Len(buffer) >= 1
    BY <1>1, Reads
  <1>3. CASE pos >= Len(buffer)
    <2>1. client' = "printed" /\ UNCHANGED <<pos, record, rpos, pair, output>>
      BY <1>1, <1>2, <1>3, ListFieldCases
    <2>2. Sending' /\ Receiving' /\ TypeOK'
      BY <1>1, <2>1, ReadingKept, ClientTypes
    <2>3. Decoding'
      BY <2>1 DEF Decoding
    <2>4. CASE sent = NoResults
      <3>1. output = <<>>
        BY <1>1, <2>4 DEF IndInv, Decoding
      <3>2. PrintsWholeMarkets'
        BY <1>1, <2>1, <2>4, <3>1 DEF PrintsWholeMarkets
      <3> QED
        BY <2>2, <2>3, <3>2 DEF IndInv
    <2>5. CASE sent # NoResults
      <3> DEFINE n == Len(output)
      <3>1. /\ n \in DOMAIN markets /\ LengthOfFirst[n] = Len(buffer)
            /\ output = [i \in 1 .. n |-> Pair(i)]
        BY <1>1, <1>3, <2>5, AtTheEnd
      <3>2. PrintsWholeMarkets
        BY <1>1 DEF PrintsWholeMarkets
      <3>3. PrintsWholeMarkets'
        <4> HIDE DEF n
        <4>1. LengthOfFirst' = LengthOfFirst /\ \A k : Pair(k)' = Pair(k)
          BY <1>1, MarketsKept
        <4>2. \E k \in DOMAIN markets : LengthOfFirst[k] = Len(buffer) /\ output = [i \in 1 .. k |-> Pair(i)]
          BY <3>1
        <4>3. \E k \in DOMAIN markets' :
                LengthOfFirst'[k] = Len(buffer') /\ output' = [i \in 1 .. k |-> Pair(i)']
          BY <1>1, <2>1, <4>1, <4>2
        <4>4. sent' # NoResults' /\ \E k \in DOMAIN markets' : LengthOfFirst'[k] = Len(buffer')
          BY <1>1, <2>5, <4>3
        <4> QED
          BY <4>3, <4>4 DEF PrintsWholeMarkets
      <3> QED
        BY <2>2, <2>3, <3>3 DEF IndInv
    <2> QED
      BY <2>4, <2>5
  <1>4. CASE pos < Len(buffer) /\ sent = NoResults
    <2>1. pos + 1 \in 1 .. Len(buffer)
      BY <1>1, <1>2, <1>4
    <2>2. buffer[pos + 1] # Field(1)
      BY <1>1, <1>4, <2>1, Reads
    <2>3. pos' = pos + 2 /\ UNCHANGED <<client, record, rpos, pair, output>>
      BY <1>1, <1>2, <1>4, <2>2, ListFieldCases
    <2>4. pos' \in 0 .. Len(buffer) + 1
      BY <1>1, <1>2, <1>4, <2>3
    <2>5. Sending' /\ Receiving' /\ TypeOK'
      BY <1>1, <2>3, <2>4, ReadingKept, ClientTypes
    <2>6. Decoding'
      BY <1>1, <1>4, <2>3 DEF IndInv, Decoding
    <2>7. PrintsWholeMarkets'
      BY <1>1, <2>3 DEF PrintsWholeMarkets
    <2> QED
      BY <2>5, <2>6, <2>7 DEF IndInv
  <1>5. CASE pos < Len(buffer) /\ sent # NoResults
    <2>0. PICK n : n = Len(output)
      OBVIOUS
    <2> DEFINE d == Delimited(n + 1)
               m == 7 + markets[n + 1].base + markets[n + 1].market
               at == LengthOfFirst[n]
               r == Record(n + 1)
    <2>1. /\ n \in 0 .. Len(markets) /\ output = [i \in 1 .. n |-> Pair(i)] /\ pos = at
      BY <1>1, <1>5, <2>0 DEF IndInv, Decoding
    <2>2. markets \in Lists /\ Len(markets) \in Nat
      BY MarketLengths DEF IndInv, Sending
    <2>3. n < Len(markets)
      <3>1. n # Len(markets)
        <4>1. Encoded(Len(markets)) /\ Len(buffer) <= Len(sent) /\ Len(sent) \in Nat
          BY <1>1, <1>5, Reads
        <4> QED
          BY <1>1, <1>2, <1>5, <2>1, <4>1 DEF Encoded
      <3> QED
        BY <2>1, <2>2, <3>1
    <2>4. /\ at \in Nat /\ m \in Nat /\ IsSeq(d) /\ Len(d) = m + 2
          /\ d[1] = Field(1) /\ d[2] = Length(m)
          /\ \A i \in 1 .. m : d[2 + i] = r[i]
          /\ LengthOfFirst[n + 1] = at + 2 + m
          /\ IsSeq(r) /\ Len(r) = m
          /\ \A i \in 1 .. m + 2 : at + i <= Len(buffer) => buffer[at + i] = d[i]
      BY <1>1, <1>5, <2>1, <2>3, AtMarket
    <2> HIDE DEF d, m, at, r
    <2>5. buffer[pos + 1] = Field(1)
      <3>1. 1 \in 1 .. m + 2 /\ at + 1 <= Len(buffer)
        BY <1>1, <1>2, <1>5, <2>1, <2>4
      <3> QED
        BY <2>1, <2>4, <3>1
    <2>6. pos + 2 <= Len(buffer) => buffer[pos + 2][2] = m
      <3>1. 2 \in 1 .. m + 2
        BY <2>4
      <3> QED
        BY <2>1, <2>4, <3>1 DEF Length
    <2>7. CASE ~Whole(buffer, pos)
      <3>1. client' = "printed" /\ output' = <<>> /\ UNCHANGED <<pos, record, rpos, pair>>
        BY <1>1, <1>2, <1>5, <2>5, <2>7, ListFieldCases DEF Fail
      <3>2. Sending' /\ Receiving' /\ TypeOK'
        BY <1>1, <3>1, ReadingKept, ClientTypes
      <3>3. Decoding'
        BY <3>1 DEF Decoding
      <3>4. at < Len(buffer) /\ Len(buffer) < LengthOfFirst[n + 1]
        BY <1>2, <1>5, <2>1, <2>4, <2>6, <2>7 DEF Whole
      <3>5. \A k \in DOMAIN markets : LengthOfFirst[k] # Len(buffer)
        BY <1>2, <2>1, <2>2, <2>3, <3>4, Between DEF at
      <3>6. PrintsWholeMarkets'
        <4>1. ~ \E k \in DOMAIN markets' : LengthOfFirst'[k] = Len(buffer')
          BY <1>1, <3>5, MarketsKept
        <4> QED
          BY <3>1, <4>1 DEF PrintsWholeMarkets
      <3> QED
        BY <3>2, <3>3, <3>6 DEF IndInv
    <2>8. CASE Whole(buffer, pos)
      <3>1. /\ record' = SubSeq(buffer, pos + 3, pos + 2 + m) /\ rpos' = 0 /\ pair' = <<>>
            /\ client' = "market" /\ UNCHANGED <<pos, output>>
        BY <1>1, <1>2, <1>5, <2>5, <2>6, <2>8, ListFieldCases DEF Body, Whole
      <3>2. at + 2 + m <= Len(buffer)
        BY <2>1, <2>6, <2>8 DEF Whole
      <3>3. record' = r
        <4> DEFINE u == SubSeq(buffer, (at + 2) + 1, at + 2 + m)
        <4>1. IsSeq(buffer)
          BY <1>1, Reads
        <4>2. at + 2 \in Nat /\ at + 2 + m \in Nat /\ at + 2 <= at + 2 + m
          BY <2>4
        <4>3. IsPart(u, buffer, at + 2, at + 2 + m)
          BY <3>2, <4>1, <4>2, SubSeqFacts
        <4>4. record' = u
          <5>1. (at + 2) + 1 = at + 3
            BY <2>4
          <5> QED
            BY <2>1, <3>1, <5>1
        <4> HIDE DEF u
        <4>5. IsSeq(u) /\ Len(u) = m /\ \A i \in 1 .. m : u[i] = buffer[(at + 2) + i]
          <5>1. (at + 2 + m) - (at + 2) = m
            BY <2>4
          <5> QED
            BY <4>3, <5>1, Zenon DEF IsPart
        <4>6. ASSUME NEW i \in 1 .. m PROVE u[i] = r[i]
          <5>1. 2 + i \in 1 .. m + 2 /\ at + (2 + i) = (at + 2) + i /\ at + (2 + i) <= Len(buffer)
            BY <1>2, <2>4, <3>2
          <5> QED
            BY <2>4, <4>5, <5>1
        <4>7. u = r
          BY <2>4, <4>5, <4>6, SameSeq
        <4> QED
          BY <4>4, <4>7
      <3>4. Sending' /\ Receiving'
        BY <1>1, <3>1, ReadingKept
      <3>5. TypeOK'
        <4>1. Len(record') = m
          BY <2>4, <3>3
        <4>2. rpos' \in 0 .. Len(record')
          <5>1. Len(record') \in Nat /\ rpos' = 0
            BY <2>4, <3>1, <4>1
          <5> QED
            BY <5>1
        <4> QED
          BY <1>1, <3>1, <4>2, ClientTypes
      <3>6. PrintsWholeMarkets'
        BY <3>1 DEF PrintsWholeMarkets
      <3>7. Decoding'
        <4>1. Len(output') = n /\ n \in 0 .. Len(markets') /\ n < Len(markets')
          BY <1>1, <2>0, <2>1, <2>3, <3>1
        <4>2. output' = [i \in 1 .. n |-> Pair(i)']
          BY <1>1, <2>1, <3>1, MarketsKept
        <4>3. pos' = LengthOfFirst'[n] /\ pos' <= Len(buffer')
          BY <1>1, <1>2, <1>5, <2>1, <3>1, MarketsKept DEF at
        <4>4. LengthOfFirst'[n + 1] <= Len(buffer')
          BY <1>1, <2>4, <3>2, MarketsKept
        <4>5. record' = Record(n + 1)'
          BY <1>1, <3>3, MarketsKept DEF r
        <4>6. 0 \in 0 .. 3 /\ Len(pair') = 0
          BY <3>1
        <4>7. pair' = SubSeq(Pair(n + 1)', 1, 0)
          <5>1. SubSeq(Pair(n + 1)', 1, 0) = <<>>
            BY Tuples DEF Pair
          <5> QED
            BY <3>1, <5>1
        <4>8. rpos' = FieldsEnd(n + 1, 0)'
          BY <3>1 DEF FieldsEnd
        <4>9. client' = "market" /\ sent' # NoResults'
          BY <1>1, <1>5, <3>1
        <4> QED
          BY <4>1, <4>2, <4>3, <4>4, <4>5, <4>6, <4>7, <4>8, <4>9, AtMarketThen, Zenon
      <3> QED
        BY <3>4, <3>5, <3>6, <3>7 DEF IndInv
    <2> QED
      BY <2>7, <2>8
  <1> QED
    BY <1>1, <1>2, <1>3, <1>4, <1>5

LEMMA PairFacts ==
  ASSUME NEW k
  PROVE  /\ IsSeq(Pair(k)) /\ Len(Pair(k)) = 3
         /\ Pair(k)[1] = Name(k, 1, markets[k].base)
         /\ Pair(k)[2] = Name(k, 2, markets[k].market) /\ Pair(k)[3] = Fee(k)
  BY Tuples DEF Pair, Fee

LEMMA OneMore ==
  ASSUME NEW s, IsSeq(s), NEW j \in Nat, j < Len(s)
  PROVE  /\ IsSeq(SubSeq(s, 1, j)) /\ Len(SubSeq(s, 1, j)) = j
         /\ Append(SubSeq(s, 1, j), s[j + 1]) = SubSeq(s, 1, j + 1)
         /\ Len(SubSeq(s, 1, j + 1)) = j + 1
  <1> DEFINE u == SubSeq(s, 0 + 1, j)
             v == SubSeq(s, 0 + 1, j + 1)
             w == Append(u, s[j + 1])
  <1>1. Len(s) \in Nat
    BY SeqFacts
  <1>2. IsPart(u, s, 0, j) /\ IsPart(v, s, 0, j + 1)
    BY <1>1, SubSeqFacts
  <1> HIDE DEF u, v, w
  <1>3. /\ IsSeq(u) /\ Len(u) = j /\ \A i \in 1 .. j : u[i] = s[i]
        /\ IsSeq(v) /\ Len(v) = j + 1 /\ \A i \in 1 .. j + 1 : v[i] = s[i]
    BY <1>2 DEF IsPart
  <1>4. IsAppend(w, u, s[j + 1])
    BY <1>3, AppendFacts DEF w
  <1>5. IsSeq(w) /\ Len(w) = j + 1 /\ w[j + 1] = s[j + 1] /\ \A i \in 1 .. j : w[i] = s[i]
    BY <1>3, <1>4 DEF IsAppend
  <1>6. \A i \in 1 .. j + 1 : i \in 1 .. j \/ i = j + 1
    OBVIOUS
  <1>7. w = v
    BY <1>3, <1>5, <1>6, SameSeq
  <1>8. u = SubSeq(s, 1, j) /\ v = SubSeq(s, 1, j + 1)
    BY DEF u, v
  <1> QED
    BY <1>3, <1>7, <1>8 DEF w

(* The next field of a record: its size and its bytes. *)
LEMMA NextField ==
  ASSUME NEW k, markets[k].base \in Nat, markets[k].market \in Nat,
         record = Record(k), NEW j \in 0 .. 3, rpos = FieldsEnd(k, j), rpos < Len(record)
  PROVE  /\ j < 3 /\ rpos + FieldSize = FieldsEnd(k, j + 1)
         /\ FieldsEnd(k, j + 1) \in 0 .. Len(record)
         /\ SubSeq(record, rpos + 1, rpos + FieldSize) = Pair(k)[j + 1]
  <1> DEFINE b == markets[k].base
             m == markets[k].market
             p == Name(k, 1, b)
             q == Name(k, 2, m)
             f == Fee(k)
             e(i) == FieldsEnd(k, i)
  <1>1. b \in Nat /\ m \in Nat
    OBVIOUS
  <1>2. e(0) = 0 /\ e(1) = 2 + b /\ e(2) = 4 + b + m /\ e(3) = 7 + b + m
    BY DEF FieldsEnd
  <1>3. /\ IsSeq(record) /\ Len(record) = 7 + b + m
        /\ record[1] = Field(1) /\ record[2] = Length(b)
        /\ record[3 + b] = Field(2) /\ record[4 + b] = Length(m)
        /\ record[5 + b + m] = Field(3)
        /\ \A i \in 1 .. 2 + b : record[i] = p[i]
        /\ \A i \in 1 .. 2 + m : record[2 + b + i] = q[i]
        /\ \A i \in 1 .. 3 : record[4 + b + m + i] = f[i]
    BY RecordFacts
  <1>4. IsSeq(p) /\ Len(p) = 2 + b /\ IsSeq(q) /\ Len(q) = 2 + m
    BY <1>1, NameFacts
  <1>5. IsSeq(f) /\ Len(f) = 3
    BY Tuples DEF Fee
  <1>6. Pair(k)[1] = p /\ Pair(k)[2] = q /\ Pair(k)[3] = f
    BY PairFacts
  <1>7. Field(1) # Field(3) /\ Field(2) # Field(3) /\ Length(b)[2] = b /\ Length(m)[2] = m
    BY DEF Field, Length
  <1> HIDE DEF b, m, p, q, f, e
  <1>8. CASE j = 0
    <2>1. rpos = 0
      BY <1>2, <1>8 DEF e
    <2>2. FieldSize = 2 + b
      BY <1>3, <1>7, <2>1 DEF FieldSize
    <2>3. SubSeq(record, 0 + 1, 2 + b) = p
      <3> DEFINE u == SubSeq(record, 0 + 1, 2 + b)
      <3>1. IsPart(u, record, 0, 2 + b)
        BY <1>1, <1>3, SubSeqFacts
      <3> HIDE DEF u
      <3>2. IsSeq(u) /\ Len(u) = 2 + b /\ \A i \in 1 .. 2 + b : u[i] = p[i]
        BY <1>1, <1>3, <3>1 DEF IsPart
      <3>3. u = p
        BY <1>4, <3>2, SameSeq
      <3> QED
        BY <3>3 DEF u
    <2>4. rpos + FieldSize = 2 + b /\ 2 + b \in 0 .. Len(record)
      BY <1>1, <1>3, <2>1, <2>2
    <2> QED
      BY <1>2, <1>6, <1>8, <2>1, <2>3, <2>4 DEF e
  <1>9. CASE j = 1
    <2>1. rpos = 2 + b
      BY <1>2, <1>9 DEF e
    <2>2. FieldSize = 2 + m
      <3>1. rpos + 1 = 3 + b /\ rpos + 2 = 4 + b
        BY <1>1, <2>1
      <3> QED
        BY <1>3, <1>7, <3>1 DEF FieldSize
    <2>3. SubSeq(record, (2 + b) + 1, 4 + b + m) = q
      <3> DEFINE u == SubSeq(record, (2 + b) + 1, 4 + b + m)
      <3>1. IsPart(u, record, 2 + b, 4 + b + m)
        <4>1. 2 + b \in Nat /\ 4 + b + m \in Nat /\ 2 + b <= 4 + b + m /\ 4 + b + m <= Len(record)
          BY <1>1, <1>3
        <4> QED
          BY <1>3, <4>1, SubSeqFacts
      <3> HIDE DEF u
      <3>2. (4 + b + m) - (2 + b) = 2 + m
        BY <1>1
      <3>3. IsSeq(u) /\ Len(u) = 2 + m /\ \A i \in 1 .. 2 + m : u[i] = record[2 + b + i]
        BY <3>1, <3>2 DEF IsPart
      <3>4. \A i \in 1 .. 2 + m : u[i] = q[i]
        BY <1>3, <3>3
      <3>5. u = q
        BY <1>4, <3>3, <3>4, SameSeq
      <3> QED
        BY <3>5 DEF u
    <2>4. rpos + FieldSize = 4 + b + m /\ 4 + b + m \in 0 .. Len(record) /\ rpos + 1 = (2 + b) + 1
      <3>1. Len(record) = 7 + b + m /\ rpos + FieldSize = (2 + b) + (2 + m)
        BY <1>3, <2>1, <2>2
      <3>2. (2 + b) + (2 + m) = 4 + b + m /\ 4 + b + m \in 0 .. 7 + b + m
        BY <1>1
      <3> QED
        BY <2>1, <3>1, <3>2
    <2>5. j + 1 = 2 /\ j < 3
      BY <1>9
    <2> QED
      BY <1>2, <1>6, <2>3, <2>4, <2>5 DEF e
  <1>10. CASE j = 2
    <2>1. rpos = 4 + b + m
      BY <1>2, <1>10 DEF e
    <2>2. FieldSize = 3
      <3>1. rpos + 1 = 5 + b + m
        BY <1>1, <2>1
      <3> QED
        BY <1>3, <3>1 DEF FieldSize
    <2>3. SubSeq(record, (4 + b + m) + 1, 7 + b + m) = f
      <3> DEFINE u == SubSeq(record, (4 + b + m) + 1, 7 + b + m)
      <3>1. IsPart(u, record, 4 + b + m, 7 + b + m)
        <4>1. 4 + b + m \in Nat /\ 7 + b + m \in Nat /\ 4 + b + m <= 7 + b + m /\ 7 + b + m <= Len(record)
          BY <1>1, <1>3
        <4> QED
          BY <1>3, <4>1, SubSeqFacts
      <3> HIDE DEF u
      <3>2. (7 + b + m) - (4 + b + m) = 3
        BY <1>1
      <3>3. IsSeq(u) /\ Len(u) = 3 /\ \A i \in 1 .. 3 : u[i] = record[4 + b + m + i]
        BY <3>1, <3>2 DEF IsPart
      <3>4. \A i \in 1 .. 3 : u[i] = f[i]
        BY <1>3, <3>3
      <3>5. u = f
        BY <1>5, <3>3, <3>4, SameSeq
      <3> QED
        BY <3>5 DEF u
    <2>4. rpos + FieldSize = 7 + b + m /\ 7 + b + m \in 0 .. Len(record) /\ rpos + 1 = (4 + b + m) + 1
      BY <1>1, <1>3, <2>1, <2>2
    <2>5. j + 1 = 3 /\ j < 3
      BY <1>10
    <2> QED
      BY <1>2, <1>6, <2>3, <2>4, <2>5 DEF e
  <1>11. j # 3
    <2>1. rpos # 7 + b + m
      BY <1>1, <1>3
    <2> QED
      BY <1>2, <2>1 DEF e
  <1> QED
    BY <1>8, <1>9, <1>10, <1>11

(* The record being decoded, and how far. *)
LEMMA AtField ==
  ASSUME IndInv, client = "market"
  PROVE  LET n == Len(output)
             j == Len(pair)
         IN  /\ n \in 0 .. Len(markets) /\ n < Len(markets) /\ output = [i \in 1 .. n |-> Pair(i)]
             /\ pos = LengthOfFirst[n] /\ pos <= Len(buffer) /\ LengthOfFirst[n + 1] <= Len(buffer)
             /\ record = Record(n + 1) /\ j \in 0 .. 3 /\ pair = SubSeq(Pair(n + 1), 1, j)
             /\ rpos = FieldsEnd(n + 1, j) /\ sent # NoResults
             /\ markets \in Lists /\ Len(markets) \in Nat /\ n + 1 \in 1 .. Len(markets)
             /\ markets[n + 1].base \in Nat /\ markets[n + 1].market \in Nat
  <1> DEFINE n == Len(output)
             j == Len(pair)
  <1>1. /\ n \in 0 .. Len(markets) /\ n < Len(markets) /\ output = [i \in 1 .. n |-> Pair(i)]
        /\ pos = LengthOfFirst[n] /\ pos <= Len(buffer) /\ LengthOfFirst[n + 1] <= Len(buffer)
        /\ record = Record(n + 1) /\ j \in 0 .. 3 /\ pair = SubSeq(Pair(n + 1), 1, j)
        /\ rpos = FieldsEnd(n + 1, j) /\ sent # NoResults
    BY DEF IndInv, Decoding
  <1>2. markets \in Lists /\ Len(markets) \in Nat
    BY MarketLengths DEF IndInv, Sending
  <1> HIDE DEF n, j
  <1>3. n + 1 \in 1 .. Len(markets)
    BY <1>1, <1>2
  <1>4. markets[n + 1].base \in Nat /\ markets[n + 1].market \in Nat
    BY <1>2, <1>3, MarketLengths
  <1> QED
    BY <1>1, <1>2, <1>3, <1>4 DEF n, j

LEMMA MarketFieldKeeps == ASSUME IndInv, MarketField PROVE IndInv'
  <1>1. /\ client = "market" /\ rpos < Len(record)
        /\ rpos' = rpos + FieldSize
        /\ pair' = Append(pair, SubSeq(record, rpos + 1, rpos + FieldSize))
        /\ UNCHANGED <<wireVars, serverVars, buffer>> /\ UNCHANGED <<markets, sent>>
        /\ UNCHANGED <<client, pos, record, output>>
        /\ pos \in 0 .. Len(buffer) + 1 /\ NoResults' = NoResults
    BY SentKept DEF MarketField, IndInv, TypeOK, wireVars, serverVars
  <1>2. PICK n, j : n = Len(output) /\ j = Len(pair)
    OBVIOUS
  <1>3. /\ n \in 0 .. Len(markets) /\ n < Len(markets) /\ output = [i \in 1 .. n |-> Pair(i)]
        /\ pos = LengthOfFirst[n] /\ pos <= Len(buffer) /\ LengthOfFirst[n + 1] <= Len(buffer)
        /\ record = Record(n + 1) /\ j \in 0 .. 3 /\ pair = SubSeq(Pair(n + 1), 1, j)
        /\ rpos = FieldsEnd(n + 1, j) /\ sent # NoResults
        /\ markets[n + 1].base \in Nat /\ markets[n + 1].market \in Nat
    BY <1>1, <1>2, AtField
  <1>4. /\ j < 3 /\ rpos + FieldSize = FieldsEnd(n + 1, j + 1)
        /\ FieldsEnd(n + 1, j + 1) \in 0 .. Len(record)
        /\ SubSeq(record, rpos + 1, rpos + FieldSize) = Pair(n + 1)[j + 1]
    BY <1>1, <1>3, NextField
  <1>5. pair' = SubSeq(Pair(n + 1), 1, j + 1) /\ Len(pair') = j + 1
    <2>1. IsSeq(Pair(n + 1)) /\ j \in Nat /\ j < Len(Pair(n + 1))
      BY <1>3, <1>4, PairFacts
    <2>2. /\ Append(SubSeq(Pair(n + 1), 1, j), Pair(n + 1)[j + 1]) = SubSeq(Pair(n + 1), 1, j + 1)
          /\ Len(SubSeq(Pair(n + 1), 1, j + 1)) = j + 1
      BY <2>1, OneMore
    <2> QED
      BY <1>1, <1>3, <1>4, <2>2
  <1>6. Sending' /\ Receiving'
    BY <1>1, ReadingKept
  <1>7. TypeOK'
    <2>1. rpos' \in 0 .. Len(record')
      BY <1>1, <1>4
    <2> QED
      BY <1>1, <2>1, ClientTypes
  <1>8. PrintsWholeMarkets'
    BY <1>1 DEF PrintsWholeMarkets
  <1>9. Decoding'
    <2>1. Len(output') = n /\ n \in 0 .. Len(markets') /\ n < Len(markets')
      BY <1>1, <1>2, <1>3
    <2>2. output' = [i \in 1 .. n |-> Pair(i)']
      BY <1>1, <1>3, MarketsKept
    <2>3. pos' = LengthOfFirst'[n] /\ pos' <= Len(buffer') /\ LengthOfFirst'[n + 1] <= Len(buffer')
      BY <1>1, <1>3, MarketsKept
    <2>4. record' = Record(n + 1)'
      BY <1>1, <1>3, MarketsKept
    <2>5. j + 1 \in 0 .. 3
      BY <1>3, <1>4
    <2>6. pair' = SubSeq(Pair(n + 1)', 1, j + 1)
      BY <1>1, <1>5, MarketsKept
    <2>7. rpos' = FieldsEnd(n + 1, j + 1)'
      BY <1>1, <1>4, MarketsKept
    <2>8. client' = "market" /\ sent' # NoResults'
      BY <1>1, <1>3
    <2> QED
      BY <1>5, <2>1, <2>2, <2>3, <2>4, <2>5, <2>6, <2>7, <2>8, AtMarketThen, Zenon
  <1> QED
    BY <1>6, <1>7, <1>8, <1>9 DEF IndInv

LEMMA MarketDoneKeeps == ASSUME IndInv, MarketDone PROVE IndInv'
  <1>1. /\ client = "market" /\ rpos >= Len(record) /\ client' = "list"
        /\ output' = Append(output, pair) /\ pos' = pos + 2 + Len(record)
        /\ UNCHANGED <<wireVars, serverVars, buffer>> /\ UNCHANGED <<markets, sent>>
        /\ UNCHANGED <<record, rpos, pair>>
        /\ rpos \in 0 .. Len(record) /\ NoResults' = NoResults
    BY SentKept DEF MarketDone, IndInv, TypeOK, wireVars, serverVars
  <1>2. PICK n, j : n = Len(output) /\ j = Len(pair)
    OBVIOUS
  <1>3. /\ n \in 0 .. Len(markets) /\ n < Len(markets) /\ output = [i \in 1 .. n |-> Pair(i)]
        /\ pos = LengthOfFirst[n] /\ LengthOfFirst[n + 1] <= Len(buffer)
        /\ record = Record(n + 1) /\ j \in 0 .. 3 /\ pair = SubSeq(Pair(n + 1), 1, j)
        /\ rpos = FieldsEnd(n + 1, j) /\ sent # NoResults
        /\ markets \in Lists /\ Len(markets) \in Nat /\ n + 1 \in 1 .. Len(markets)
        /\ markets[n + 1].base \in Nat /\ markets[n + 1].market \in Nat
    BY <1>1, <1>2, AtField
  <1>4. pair = Pair(n + 1)
    <2> DEFINE b == markets[n + 1].base
               m == markets[n + 1].market
               p == Pair(n + 1)
    <2>1. Len(record) = 7 + b + m
      BY <1>3, RecordFacts
    <2>2. /\ (j = 0 => rpos = 0) /\ (j = 1 => rpos = 2 + b)
          /\ (j = 2 => rpos = 4 + b + m) /\ (j = 3 => rpos = 7 + b + m)
      BY <1>3 DEF FieldsEnd
    <2>3. b \in Nat /\ m \in Nat
      BY <1>3
    <2>4. IsSeq(p) /\ Len(p) = 3
      BY PairFacts
    <2> HIDE DEF b, m, p
    <2>5. j = 3
      BY <1>1, <1>3, <2>1, <2>2, <2>3
    <2>6. SubSeq(p, 0 + 1, 3) = p
      <3> DEFINE u == SubSeq(p, 0 + 1, 3)
      <3>1. IsPart(u, p, 0, 3)
        BY <2>4, SubSeqFacts
      <3> HIDE DEF u
      <3>2. IsSeq(u) /\ Len(u) = 3 /\ \A i \in 1 .. 3 : u[i] = p[i]
        BY <3>1 DEF IsPart
      <3>3. u = p
        BY <2>4, <3>2, SameSeq
      <3> QED
        BY <3>3 DEF u
    <2> QED
      BY <1>3, <2>5, <2>6 DEF p
  <1>5. Len(output') = n + 1 /\ output' = [i \in 1 .. n + 1 |-> Pair(i)]
    <2> DEFINE s == [i \in 1 .. n |-> Pair(i)]
               t == [i \in 1 .. n + 1 |-> Pair(i)]
    <2>1. n \in Nat /\ n + 1 \in Nat
      BY <1>3
    <2>2. IsSeq(s) /\ Len(s) = n
      <3>1. s \in [1 .. n -> {Pair(i) : i \in 1 .. n}]
        OBVIOUS
      <3> HIDE DEF s
      <3> QED
        BY <2>1, <3>1, MadeSeq
    <2>3. IsSeq(t) /\ Len(t) = n + 1
      <3>1. t \in [1 .. n + 1 -> {Pair(i) : i \in 1 .. n + 1}]
        OBVIOUS
      <3> HIDE DEF t
      <3> QED
        BY <2>1, <3>1, MadeSeq
    <2>4. /\ \A i \in 1 .. n : s[i] = Pair(i) /\ t[i] = Pair(i)
          /\ t[n + 1] = Pair(n + 1)
      BY <2>1
    <2>5. output' = Append(s, Pair(n + 1))
      BY <1>1, <1>3, <1>4
    <2> HIDE DEF s, t
    <2>6. IsAppend(output', s, Pair(n + 1))
      BY <2>2, <2>5, AppendFacts
    <2>7. /\ IsSeq(output') /\ Len(output') = n + 1 /\ output'[n + 1] = Pair(n + 1)
          /\ \A i \in 1 .. n : output'[i] = s[i]
      BY <2>2, <2>6 DEF IsAppend
    <2>8. \A i \in 1 .. n + 1 : i \in 1 .. n \/ i = n + 1
      BY <2>1
    <2>9. output' = t
      BY <2>3, <2>4, <2>7, <2>8, SameSeq
    <2> QED
      BY <2>7, <2>9 DEF t
  <1>6. /\ pos' = LengthOfFirst[n + 1] /\ pos' \in 0 .. Len(buffer) + 1 /\ pos' <= Len(buffer)
    <2> DEFINE m == 7 + markets[n + 1].base + markets[n + 1].market
    <2>1. LengthOfFirst[n] \in Nat /\ m \in Nat /\ LengthOfFirst[n + 1] = LengthOfFirst[n] + 2 + m
      BY <1>1, <1>3, AtMarket
    <2>2. Len(record) = m
      BY <1>3, RecordFacts
    <2>3. Len(buffer) \in Nat
      BY <1>1, Reads
    <2> HIDE DEF m
    <2>4. pos' = LengthOfFirst[n + 1]
      BY <1>1, <1>3, <2>1, <2>2
    <2> QED
      BY <1>3, <2>1, <2>3, <2>4
  <1>7. Sending' /\ Receiving'
    BY <1>1, ReadingKept
  <1>8. TypeOK'
    BY <1>1, <1>6, ClientTypes
  <1>9. PrintsWholeMarkets'
    BY <1>1 DEF PrintsWholeMarkets
  <1>10. Decoding'
    <2>1. n + 1 \in 0 .. Len(markets')
      BY <1>1, <1>3
    <2>2. output' = [i \in 1 .. n + 1 |-> Pair(i)']
      BY <1>1, <1>5, MarketsKept
    <2>3. pos' = LengthOfFirst'[n + 1] /\ pos' <= Len(buffer')
      BY <1>1, <1>6, MarketsKept
    <2>4. Len(output') = n + 1 /\ client' = "list" /\ sent' # NoResults'
      BY <1>1, <1>3, <1>5
    <2> QED
      BY <2>1, <2>2, <2>3, <2>4 DEF Decoding
  <1> QED
    BY <1>7, <1>8, <1>9, <1>10 DEF IndInv

LEMMA InitKeeps == ASSUME Init PROVE IndInv
  <1>1. markets \in Lists /\ Len(markets) \in Nat /\ IsSeq(<<>>) /\ Len(<<>>) = 0
    <2>1. markets \in Lists
      BY DEF Init
    <2> QED
      BY <2>1, MarketLengths, Tuples
  <1>2. TypeOK
    BY <1>1, CapAssumption DEF Init, TypeOK
  <1>3. Sending
    BY <1>1 DEF Init, Sending
  <1>4. Receiving /\ Decoding /\ PrintsWholeMarkets
    BY DEF Init, Receiving, Decoding, PrintsWholeMarkets
  <1> QED
    BY <1>2, <1>3, <1>4 DEF IndInv

-----------------------------------------------------------------------------
(* The theorems. *)

(* Whatever the lists, the names and the size of the buffer: what was sent   *)
(* lies market behind market, what was read is where it begins, and both     *)
(* decoders of the client stand where a market, or a field of one, begins.   *)
THEOREM Inductive == Spec => []IndInv
  <1>1. Init => IndInv
    BY InitKeeps
  <1>2. IndInv /\ [Next]_vars => IndInv'
    BY ReserveKeeps, EncodeKeeps, WriteKeeps, DeliverKeeps, ResetKeeps, ReadKeeps,
       ListFieldKeeps, MarketFieldKeeps, MarketDoneKeeps, StutterKeeps
       DEF Next, Server, Client
  <1> QED
    BY <1>1, <1>2, PTL DEF Spec

(* Neither decoder of the client walks off what it was given, and the client *)
(* reads no more than its buffer holds.                                      *)
THEOREM TypeCorrect == Spec => []TypeOK
  <1>1. IndInv => TypeOK
    BY DEF IndInv
  <1> QED
    BY <1>1, Inductive, PTL

(* The room that market_list_protobuf_encode_size computes suffices for every *)
(* list: get_trading_pairs may ignore what market_list_protobuf_encode says.  *)
THEOREM AnswersWhole == Spec => []AnswerWhole
  <1>1. IndInv => AnswerWhole
    BY DEF IndInv, Sending, Encoded, AnswerWhole
  <1> QED
    BY <1>1, Inductive, PTL

(* The client prints whole markets or nothing, wherever its one read ends. *)
THEOREM WholeMarketsPrinted == Spec => []PrintsWholeMarkets
  <1>1. IndInv => PrintsWholeMarkets
    BY DEF IndInv
  <1> QED
    BY <1>1, Inductive, PTL
=============================================================================
