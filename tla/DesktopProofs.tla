--------------------------- MODULE DesktopProofs ---------------------------
(***************************************************************************)
(* Proofs about the desktop picture, for any number of viewers, commands,  *)
(* new encoders, backlogs and capacities of the channels, and about the    *)
(* browsers' ways to it, for any number of views and offers.               *)
(***************************************************************************)
EXTENDS DesktopVideo, DesktopPeers, SequenceTheorems, FiniteSetTheorems, NaturalsInduction, WellFoundedInduction, TLAPS

(***************************************************************************)
(* Induction.  The library's induction theorems take an operator; these    *)
(* take the set of the numbers, or of the sequences, for which something   *)
(* holds.                                                                  *)
(***************************************************************************)
LEMMA FromOneToTheNext ==
    ASSUME NEW P \in SUBSET Nat, 0 \in P, \A n \in P : n + 1 \in P
    PROVE  P = Nat
<1> SUFFICES ASSUME Nat \ P # {} PROVE FALSE OBVIOUS
<1>1. IsWellFoundedOn(OpToRel(<, Nat), Nat) BY NatLessThanWellFounded
<1>2. PICK n \in Nat \ P : \A m \in Nat \ P : ~(<<m, n>> \in OpToRel(<, Nat)) BY <1>1, WFMin
<1>3. \A m \in Nat \ P : ~(m < n) BY <1>2 DEF OpToRel
<1>4. n # 0 /\ n - 1 \in Nat OBVIOUS
<1>5. n - 1 \in P BY <1>3, <1>4
<1>6. (n - 1) + 1 \in P BY <1>5
<1>7. (n - 1) + 1 = n BY <1>4
<1> QED BY <1>6, <1>7

LEMMA AppendByAppend ==
    ASSUME NEW S, NEW P \in SUBSET Seq(S), <<>> \in P,
           \A q \in P, m \in S : Append(q, m) \in P
    PROVE  P = Seq(S)
<1> DEFINE L == {n \in Nat : \A q \in Seq(S) : Len(q) = n => q \in P}
<1>1. 0 \in L
  <2>1. \A q \in Seq(S) : Len(q) = 0 => q = <<>> BY EmptySeq
  <2> QED BY <2>1
<1>2. ASSUME NEW n \in L PROVE n + 1 \in L
  <2> SUFFICES ASSUME NEW q \in Seq(S), Len(q) = n + 1 PROVE q \in P OBVIOUS
  <2>1. q # <<>> BY EmptySeq
  <2>2. PICK s \in Seq(S), e \in S : q = Append(s, e)
    <3>1. q = <<>> \/ \E s \in Seq(S), e \in S : q = Append(s, e) BY SequenceEmptyOrAppend
    <3> QED BY <2>1, <3>1
  <2>3. Len(s) = n
    <3>1. Len(Append(s, e)) = Len(s) + 1 /\ Len(s) \in Nat BY AppendProperties, LenProperties
    <3> QED BY <2>2, <3>1
  <2>4. s \in P BY <2>3
  <2> QED BY <2>2, <2>4
<1> HIDE DEF L
<1>3. L = Nat
  <2>1. L \in SUBSET Nat BY DEF L
  <2> QED BY <1>1, <1>2, <2>1, FromOneToTheNext
<1>4. \A q \in Seq(S) : Len(q) \in Nat BY LenProperties
<1> QED BY <1>3, <1>4 DEF L

(* A recursive function along the numbers exists, and is determined.           *)
Follows(g, n, F) == \A i \in 1 .. n : g[i] = F[i][g[i - 1]]

LEMMA AlongExists ==
    ASSUME NEW S, NEW a \in S, NEW F, NEW n \in Nat, \A i \in Nat, x \in S : F[i][x] \in S
    PROVE  \E g : g \in [0 .. n -> S] /\ g[0] = a /\ Follows(g, n, F)
<1> DEFINE L == {k \in Nat : \E g : g \in [0 .. k -> S] /\ g[0] = a /\ Follows(g, k, F)}
<1>1. 0 \in L
  <2> DEFINE g == [i \in 0 .. 0 |-> a]
  <2>1. g \in [0 .. 0 -> S] /\ g[0] = a OBVIOUS
  <2>2. Follows(g, 0, F) BY DEF Follows
  <2> HIDE DEF g
  <2> QED BY <2>1, <2>2
<1>2. ASSUME NEW k \in L PROVE k + 1 \in L
  <2>1. PICK g : g \in [0 .. k -> S] /\ g[0] = a /\ Follows(g, k, F) OBVIOUS
  <2> DEFINE x == F[k + 1][g[k]]
             h == [i \in 0 .. (k + 1) |-> IF i = k + 1 THEN x ELSE g[i]]
  <2>2. k \in Nat /\ k + 1 \in Nat /\ g[k] \in S BY <2>1
  <2>3. x \in S BY <2>2
  <2>4. h \in [0 .. (k + 1) -> S] BY <2>1, <2>2, <2>3
  <2>5. h[0] = a BY <2>1, <2>2
  <2>6. ASSUME NEW i \in 1 .. (k + 1) PROVE h[i] = F[i][h[i - 1]]
    <3>1. i - 1 \in 0 .. k /\ h[i - 1] = g[i - 1] BY <2>2
    <3>2. CASE i = k + 1 BY <2>2, <3>1, <3>2
    <3>3. CASE i # k + 1
      <4>1. i \in 1 .. k BY <2>2, <3>3
      <4>2. g[i] = F[i][g[i - 1]] BY <2>1, <4>1 DEF Follows
      <4> QED BY <2>2, <3>1, <3>3, <4>2
    <3> QED BY <3>2, <3>3
  <2>7. Follows(h, k + 1, F) BY <2>6 DEF Follows
  <2> HIDE DEF h
  <2> QED BY <2>2, <2>4, <2>5, <2>7
<1> HIDE DEF L
<1>3. L = Nat
  <2>1. L \in SUBSET Nat BY DEF L
  <2> QED BY <1>1, <1>2, <2>1, FromOneToTheNext
<1>4. n \in L BY <1>3
<1> QED BY <1>4 DEF L

LEMMA AlongUnique ==
    ASSUME NEW n \in Nat, NEW g, NEW h,
           g[0] = h[0], \A i \in 1 .. n : g[i - 1] = h[i - 1] => g[i] = h[i]
    PROVE  \A i \in 0 .. n : g[i] = h[i]
<1> DEFINE L == {k \in Nat : k <= n => g[k] = h[k]}
<1>1. 0 \in L OBVIOUS
<1>2. ASSUME NEW k \in L PROVE k + 1 \in L
  <2> SUFFICES ASSUME k + 1 <= n PROVE g[k + 1] = h[k + 1] OBVIOUS
  <2>1. k \in Nat /\ k + 1 \in 1 .. n /\ (k + 1) - 1 = k /\ k <= n OBVIOUS
  <2> QED BY <2>1
<1> HIDE DEF L
<1>3. L = Nat
  <2>1. L \in SUBSET Nat BY DEF L
  <2> QED BY <1>1, <1>2, <2>1, FromOneToTheNext
<1> QED BY <1>3 DEF L

-----------------------------------------------------------------------------
(* Filters over queues.                                                    *)
\* g goes through a queue, taking what is at certain places.
Passes(g, n, q, K) ==
    \A i \in 1 .. n : g[i] = IF q[i].type \in K THEN Append(g[i - 1], q[i]) ELSE g[i - 1]

LEMMA SiftedAlong ==
    ASSUME NEW S, NEW q \in Seq(S), NEW K
    PROVE  \E g :
               /\ g \in [0 .. Len(q) -> Seq(S)] /\ g[0] = <<>> /\ Passes(g, Len(q), q, K)
               /\ Sifted(q, K) = g[Len(q)]
<1> DEFINE n == Len(q)
           F == [i \in Nat |-> [x \in Seq(S) |-> IF i \in 1 .. n /\ q[i].type \in K THEN Append(x, q[i]) ELSE x]]
           Is(h) == h = [i \in 0 .. Len(q) |->
                            IF i = 0 THEN <<>>
                            ELSE IF q[i].type \in K THEN Append(h[i - 1], q[i]) ELSE h[i - 1]]
<1>1. n \in Nat /\ \A i \in 1 .. n : q[i] \in S OBVIOUS
<1>2. \A i \in Nat, x \in Seq(S) : F[i][x] \in Seq(S) BY <1>1
<1>3. \A i \in 1 .. n, x \in Seq(S) : F[i][x] = IF q[i].type \in K THEN Append(x, q[i]) ELSE x BY <1>1
<1> HIDE DEF F, n
<1>4. PICK g : g \in [0 .. n -> Seq(S)] /\ g[0] = <<>> /\ Follows(g, n, F)
  <2>1. <<>> \in Seq(S) /\ n \in Nat BY <1>1
  <2> QED BY <1>2, <2>1, AlongExists
<1>5. \A i \in 1 .. n : g[i] = IF q[i].type \in K THEN Append(g[i - 1], q[i]) ELSE g[i - 1]
  <2> SUFFICES ASSUME NEW i \in 1 .. n PROVE g[i] = IF q[i].type \in K THEN Append(g[i - 1], q[i]) ELSE g[i - 1] OBVIOUS
  <2>1. i - 1 \in 0 .. n BY <1>1
  <2>2. g[i - 1] \in Seq(S) BY <1>4, <2>1
  <2>3. g[i] = F[i][g[i - 1]] BY <1>4 DEF Follows
  <2> QED BY <1>3, <2>2, <2>3
<1>6. Is(g)
  <2>1. g = [i \in 0 .. n |-> g[i]] BY <1>4
  <2>2. \A i \in 0 .. n : g[i] = IF i = 0 THEN <<>> ELSE IF q[i].type \in K THEN Append(g[i - 1], q[i]) ELSE g[i - 1]
    <3> SUFFICES ASSUME NEW i \in 0 .. n
                 PROVE  g[i] = IF i = 0 THEN <<>> ELSE IF q[i].type \in K THEN Append(g[i - 1], q[i]) ELSE g[i - 1]
      OBVIOUS
    <3>1. i = 0 \/ i \in 1 .. n BY <1>1
    <3>2. i \in 1 .. n => i # 0 BY <1>1
    <3> QED BY <1>4, <1>5, <3>1, <3>2
  <2>3. [i \in 0 .. n |-> g[i]] =
           [i \in 0 .. n |-> IF i = 0 THEN <<>> ELSE IF q[i].type \in K THEN Append(g[i - 1], q[i]) ELSE g[i - 1]]
    BY <2>2
  <2> QED BY <2>1, <2>3 DEF n
<1> DEFINE h == CHOOSE k : Is(k)
<1>7. Is(h)
  <2> HIDE DEF Is
  <2> QED BY <1>6
<1>8. Sifted(q, K) = h[n] BY DEF Sifted, n
<1>9. h[0] = <<>> /\ \A i \in 1 .. n : h[i] = IF q[i].type \in K THEN Append(h[i - 1], q[i]) ELSE h[i - 1]
  <2>1. h = [i \in 0 .. n |-> IF i = 0 THEN <<>> ELSE IF q[i].type \in K THEN Append(h[i - 1], q[i]) ELSE h[i - 1]]
    BY <1>7 DEF n
  <2> HIDE DEF h
  <2>2. 0 \in 0 .. n /\ \A i \in 1 .. n : i \in 0 .. n /\ i # 0 BY <1>1
  <2>3. \A i \in 0 .. n : h[i] = IF i = 0 THEN <<>> ELSE IF q[i].type \in K THEN Append(h[i - 1], q[i]) ELSE h[i - 1]
    BY <2>1
  <2> QED BY <2>2, <2>3
<1> HIDE DEF h
<1>10. \A i \in 0 .. n : g[i] = h[i]
  <2>1. \A i \in 1 .. n : g[i - 1] = h[i - 1] => g[i] = h[i] BY <1>5, <1>9
  <2>2. g[0] = h[0] BY <1>4, <1>9
  <2> QED BY <1>1, <2>1, <2>2, AlongUnique, ZenonT(60)
<1> QED
  <2>1. Passes(g, n, q, K) BY <1>5 DEF Passes
  <2>2. n \in 0 .. n BY <1>1
  <2>3. Sifted(q, K) = g[n] BY <1>8, <1>10, <2>2
  <2> QED BY <1>4, <2>1, <2>3 DEF n

LEMMA SiftedTyped == ASSUME NEW S, NEW q \in Seq(S), NEW K PROVE Sifted(q, K) \in Seq(S)
<1>1. Len(q) \in Nat OBVIOUS
<1> QED BY <1>1, SiftedAlong

LEMMA SiftedEmpty == ASSUME NEW K PROVE Sifted(<<>>, K) = <<>>
<1>1. <<>> \in Seq({}) /\ Len(<<>>) = 0 OBVIOUS
<1>2. PICK g : g[0] = <<>> /\ Sifted(<<>>, K) = g[Len(<<>>)] BY <1>1, SiftedAlong
<1> QED BY <1>1, <1>2

LEMMA SiftedAppend ==
    ASSUME NEW S, NEW q \in Seq(S), NEW m \in S, NEW K
    PROVE  Sifted(Append(q, m), K) = IF m.type \in K THEN Append(Sifted(q, K), m) ELSE Sifted(q, K)
<1> DEFINE e == Append(q, m)
           n == Len(q)
<1>1. e \in Seq(S) /\ Len(e) = n + 1 /\ e[n + 1] = m /\ \A i \in 1 .. n : e[i] = q[i]
  BY AppendProperties
<1>2. n \in Nat OBVIOUS
<1> HIDE DEF e
<1>5. PICK g :
         /\ g \in [0 .. n -> Seq(S)] /\ g[0] = <<>>
         /\ Passes(g, n, q, K)
         /\ Sifted(q, K) = g[n]
  BY SiftedAlong
<1>6. PICK h :
         /\ h \in [0 .. (n + 1) -> Seq(S)] /\ h[0] = <<>>
         /\ Passes(h, n + 1, e, K)
         /\ Sifted(e, K) = h[n + 1]
  <2>1. \E h :
         /\ h \in [0 .. Len(e) -> Seq(S)] /\ h[0] = <<>>
         /\ Passes(h, Len(e), e, K)
         /\ Sifted(e, K) = h[Len(e)]
    BY <1>1, SiftedAlong
  <2> QED BY <1>1, <2>1
<1> HIDE DEF n
<1>7. \A i \in 0 .. n : g[i] = h[i]
  <2>1. ASSUME NEW i \in 1 .. n, g[i - 1] = h[i - 1] PROVE g[i] = h[i]
    <3>1. i \in 1 .. (n + 1) BY <1>2
    <3> QED BY <1>1, <1>5, <1>6, <2>1, <3>1 DEF Passes
  <2>2. g[0] = h[0] BY <1>5, <1>6
  <2> QED BY <1>2, <2>1, <2>2, AlongUnique, ZenonT(60)
<1>8. h[n + 1] = IF m.type \in K THEN Append(h[n], m) ELSE h[n]
  <2>1. n + 1 \in 1 .. (n + 1) /\ (n + 1) - 1 = n BY <1>2
  <2> QED BY <1>1, <1>6, <2>1 DEF Passes
<1>9. n \in 0 .. n BY <1>2
<1> QED BY <1>5, <1>6, <1>7, <1>8, <1>9 DEF e

LEMMA SiftedOne ==
    ASSUME NEW m \in Message, NEW K PROVE Sifted(<<m>>, K) = IF m.type \in K THEN <<m>> ELSE <<>>
<1>1. <<>> \in Seq(Message) /\ <<m>> = Append(<<>>, m) OBVIOUS
<1>2. \A q \in Seq(Message) : Sifted(Append(q, m), K) = IF m.type \in K THEN Append(Sifted(q, K), m) ELSE Sifted(q, K)
  BY ONLY m \in Message, SiftedAppend
<1>3. Sifted(<<>>, K) = <<>> BY SiftedEmpty
<1> QED BY ONLY <1>1, <1>2, <1>3

LEMMA ConcatAppend ==
    ASSUME NEW S, NEW u \in Seq(S), NEW v \in Seq(S), NEW m \in S PROVE u \o Append(v, m) = Append(u \o v, m)
OBVIOUS

LEMMA SiftedConcat ==
    ASSUME NEW S, NEW a \in Seq(S), NEW b \in Seq(S), NEW K
    PROVE  Sifted(a \o b, K) = Sifted(a, K) \o Sifted(b, K)
<1> DEFINE P == {q \in Seq(S) : Sifted(a \o q, K) = Sifted(a, K) \o Sifted(q, K)}
<1>1. <<>> \in P
  <2>1. a \o <<>> = a /\ Sifted(a, K) \o <<>> = Sifted(a, K) BY SiftedTyped, ConcatEmptySeq
  <2>2. <<>> \in Seq(S) OBVIOUS
  <2> QED BY <2>1, <2>2, SiftedEmpty
<1>2. ASSUME NEW q \in P, NEW m \in S PROVE Append(q, m) \in P
  <2> DEFINE x == Sifted(a, K)
             y == Sifted(q, K)
  <2>1. x \in Seq(S) /\ y \in Seq(S) /\ q \in Seq(S) /\ a \o q \in Seq(S) BY SiftedTyped, ConcatProperties
  <2>2. Sifted(Append(q, m), K) = IF m.type \in K THEN Append(y, m) ELSE y BY <2>1, SiftedAppend
  <2>3. Sifted(Append(a \o q, m), K) = IF m.type \in K THEN Append(x \o y, m) ELSE x \o y
    <3>1. Sifted(Append(a \o q, m), K) = IF m.type \in K THEN Append(Sifted(a \o q, K), m) ELSE Sifted(a \o q, K)
      <4>1. \A e \in Seq(S) : Sifted(Append(e, m), K) = IF m.type \in K THEN Append(Sifted(e, K), m) ELSE Sifted(e, K)
        BY ONLY m \in S, SiftedAppend
      <4> QED BY ONLY <2>1, <4>1
    <3>2. Sifted(a \o q, K) = x \o y OBVIOUS
    <3> QED BY ONLY <3>1, <3>2
  <2> HIDE DEF x, y
  <2>4. a \o Append(q, m) = Append(a \o q, m) /\ x \o Append(y, m) = Append(x \o y, m)
    <3>1. \A u, v \in Seq(S) : u \o Append(v, m) = Append(u \o v, m) BY ONLY m \in S, ConcatAppend
    <3>2. a \in Seq(S) OBVIOUS
    <3> QED BY ONLY <2>1, <3>1, <3>2
  <2>5. Append(q, m) \in Seq(S) BY <2>1
  <2>6. Sifted(a \o Append(q, m), K) = x \o Sifted(Append(q, m), K) BY <2>2, <2>3, <2>4
  <2> QED BY <2>5, <2>6 DEF x
<1> HIDE DEF P
<1>3. P = Seq(S)
  <2>1. P \in SUBSET Seq(S) BY DEF P
  <2> QED BY <1>1, <1>2, <2>1, AppendByAppend
<1> QED BY <1>3 DEF P

\* What a queue holds, whatever the order
Has(q, x) == \E i \in DOMAIN q : q[i] = x

LEMMA HasAppend ==
    ASSUME NEW S, NEW q \in Seq(S), NEW m, NEW x PROVE Has(Append(q, m), x) <=> Has(q, x) \/ m = x
<1>1. Len(q) \in Nat /\ DOMAIN q = 1 .. Len(q) OBVIOUS
<1>2. DOMAIN Append(q, m) = 1 .. (Len(q) + 1) /\ Append(q, m)[Len(q) + 1] = m
      /\ \A i \in 1 .. Len(q) : Append(q, m)[i] = q[i]
  BY <1>1
<1>3. \A i \in 1 .. (Len(q) + 1) : i \in 1 .. Len(q) \/ i = Len(q) + 1 BY <1>1
<1>4. \A i \in 1 .. Len(q) : i \in 1 .. (Len(q) + 1) BY <1>1
<1>5. Len(q) + 1 \in 1 .. (Len(q) + 1) BY <1>1
<1> QED BY <1>1, <1>2, <1>3, <1>4, <1>5 DEF Has

LEMMA HasConcat ==
    ASSUME NEW S, NEW a \in Seq(S), NEW b \in Seq(S), NEW x PROVE Has(a \o b, x) <=> Has(a, x) \/ Has(b, x)
<1> DEFINE n == Len(a)
           k == Len(b)
<1>1. /\ n \in Nat /\ k \in Nat /\ DOMAIN a = 1 .. n /\ DOMAIN b = 1 .. k /\ DOMAIN (a \o b) = 1 .. (n + k)
      /\ \A i \in 1 .. (n + k) : (a \o b)[i] = IF i <= n THEN a[i] ELSE b[i - n]
  OBVIOUS
<1> HIDE DEF n, k
<1>2. ASSUME Has(a \o b, x) PROVE Has(a, x) \/ Has(b, x)
  <2>1. PICK i \in 1 .. (n + k) : (a \o b)[i] = x BY <1>1, <1>2 DEF Has
  <2>2. CASE i <= n
    <3>1. i \in 1 .. n BY <1>1, <2>2
    <3> QED BY <1>1, <2>1, <2>2, <3>1 DEF Has
  <2>3. CASE ~(i <= n)
    <3>1. i - n \in 1 .. k BY <1>1, <2>3
    <3> QED BY <1>1, <2>1, <2>3, <3>1 DEF Has
  <2> QED BY <2>2, <2>3
<1>3. ASSUME Has(a, x) PROVE Has(a \o b, x)
  <2>1. PICK i \in 1 .. n : a[i] = x BY <1>1, <1>3 DEF Has
  <2>2. i \in 1 .. (n + k) /\ i <= n BY <1>1
  <2> QED BY <1>1, <2>1, <2>2 DEF Has
<1>4. ASSUME Has(b, x) PROVE Has(a \o b, x)
  <2>1. PICK i \in 1 .. k : b[i] = x BY <1>1, <1>4 DEF Has
  <2>2. i + n \in 1 .. (n + k) /\ ~(i + n <= n) /\ (i + n) - n = i BY <1>1
  <2> QED BY <1>1, <2>1, <2>2 DEF Has
<1> QED BY <1>2, <1>3, <1>4

LEMMA SiftedHas ==
    ASSUME NEW S, NEW q \in Seq(S), NEW K
    PROVE  \A x : Has(Sifted(q, K), x) <=> Has(q, x) /\ x.type \in K
<1> DEFINE P == {r \in Seq(S) : \A x : Has(Sifted(r, K), x) <=> Has(r, x) /\ x.type \in K}
<1>1. <<>> \in P
  <2>1. <<>> \in Seq(S) /\ \A x : ~Has(<<>>, x) BY DEF Has
  <2> QED BY <2>1, SiftedEmpty
<1>2. ASSUME NEW r \in P, NEW m \in S PROVE Append(r, m) \in P
  <2>1. r \in Seq(S) /\ Append(r, m) \in Seq(S) /\ Sifted(r, K) \in Seq(S) BY SiftedTyped
  <2>2. Sifted(Append(r, m), K) = IF m.type \in K THEN Append(Sifted(r, K), m) ELSE Sifted(r, K)
    BY <2>1, SiftedAppend
  <2>3. \A x : /\ Has(Append(r, m), x) <=> Has(r, x) \/ m = x
               /\ Has(Append(Sifted(r, K), m), x) <=> Has(Sifted(r, K), x) \/ m = x
    BY <2>1, HasAppend
  <2>4. \A x : Has(Sifted(r, K), x) <=> Has(r, x) /\ x.type \in K OBVIOUS
  <2>5. \A x : Has(Sifted(Append(r, m), K), x) <=> Has(Append(r, m), x) /\ x.type \in K
    BY <2>2, <2>3, <2>4
  <2> QED BY <2>1, <2>5
<1> HIDE DEF P
<1>3. P = Seq(S)
  <2>1. P \in SUBSET Seq(S) BY DEF P
  <2> QED BY <1>1, <1>2, <2>1, AppendByAppend
<1> QED BY <1>3 DEF P

\* What is of none of the types leaves nothing; what is all of them is kept.
LEMMA SiftedNone ==
    ASSUME NEW S, NEW q \in Seq(S), NEW K, \A i \in DOMAIN q : q[i].type \notin K PROVE Sifted(q, K) = <<>>
<1>1. Sifted(q, K) \in Seq(S) BY SiftedTyped
<1>2. ASSUME NEW x PROVE ~Has(Sifted(q, K), x)
  <2>1. Has(Sifted(q, K), x) => Has(q, x) /\ x.type \in K BY SiftedHas
  <2>2. ~(Has(q, x) /\ x.type \in K) BY DEF Has
  <2> QED BY <2>1, <2>2
<1>3. \A s \in Seq(S) : (\A x : ~Has(s, x)) => s = <<>>
  <2> SUFFICES ASSUME NEW s \in Seq(S), s # <<>> PROVE Has(s, s[1]) OBVIOUS
  <2>1. 1 \in DOMAIN s OBVIOUS
  <2> QED BY <2>1 DEF Has
<1> QED BY <1>1, <1>2, <1>3

LEMMA SiftedAll ==
    ASSUME NEW S, NEW q \in Seq(S), NEW K, \A i \in DOMAIN q : q[i].type \in K PROVE Sifted(q, K) = q
<1> DEFINE P == {r \in Seq(S) : (\A i \in DOMAIN r : r[i].type \in K) => Sifted(r, K) = r}
<1>1. <<>> \in P
  <2>1. <<>> \in Seq(S) OBVIOUS
  <2> QED BY <2>1, SiftedEmpty
<1>2. ASSUME NEW r \in P, NEW m \in S PROVE Append(r, m) \in P
  <2>1. r \in Seq(S) /\ Append(r, m) \in Seq(S) OBVIOUS
  <2>2. ASSUME \A i \in DOMAIN Append(r, m) : Append(r, m)[i].type \in K
        PROVE  Sifted(Append(r, m), K) = Append(r, m)
    <3>1. /\ Len(r) \in Nat /\ DOMAIN r = 1 .. Len(r) /\ DOMAIN Append(r, m) = 1 .. (Len(r) + 1)
          /\ Append(r, m)[Len(r) + 1] = m /\ \A i \in 1 .. Len(r) : Append(r, m)[i] = r[i]
      OBVIOUS
    <3>2. m.type \in K
      <4>1. Len(r) + 1 \in 1 .. (Len(r) + 1) BY <3>1
      <4> QED BY <2>2, <3>1, <4>1
    <3>3. \A i \in DOMAIN r : r[i].type \in K
      <4>1. \A i \in 1 .. Len(r) : i \in 1 .. (Len(r) + 1) BY <3>1
      <4> QED BY <2>2, <3>1, <4>1
    <3>4. Sifted(r, K) = r BY <3>3
    <3> QED BY <2>1, <3>2, <3>4, SiftedAppend
  <2> QED BY <2>1, <2>2
<1> HIDE DEF P
<1>3. P = Seq(S)
  <2>1. P \in SUBSET Seq(S) BY DEF P
  <2> QED BY <1>1, <1>2, <2>1, AppendByAppend
<1> QED BY <1>3 DEF P

-----------------------------------------------------------------------------
(***************************************************************************)
(* The picture: types.                                                     *)
(***************************************************************************)
LoopSet == [pc : {"none", "opening", "capturing"}, enc : Nat, inited : BOOLEAN]
ViewSet == [pc : {"away", "joined", "waiting", "watching"}, ds : Streams \cup {None}, in : BOOLEAN,
            key_ok : BOOLEAN, drops : Nat, chan : Seq(Frame), sees : Nat, missed : BOOLEAN]

AgentTyped ==
    /\ scene \in [kinds : SUBSET FaultKinds, backlog : Nat \ {0}, left : Nat]
    /\ running \in BOOLEAN /\ want \in BOOLEAN
    /\ cmd \in {"idle", "stopping", "restarting", "leaving", "left"}
    /\ link \in {"up", "lost", "cleaned"}
    /\ task \in Loops \cup {None}
    /\ loops \in [Loops -> LoopSet] /\ encs \in Nat
QueuesTyped == queue \in Seq(Message) /\ paths \in [Paths -> Seq(Message)]
StreamsTyped ==
    /\ stream \in Streams \cup {None} /\ caches \in [Streams -> Nat] /\ known \in BOOLEAN
    /\ posted \in [Paths -> [ds : Streams \cup {None}, enc : Nat]]
ViewsTyped == view \in [Viewers -> ViewSet] /\ lost \in BOOLEAN

VideoTyped == AgentTyped /\ QueuesTyped /\ StreamsTyped /\ ViewsTyped

LEMMA MsgTyped ==
    ASSUME NEW t \in {"started", "stopped", "init", "key", "delta"}, NEW e \in Nat
    PROVE  Msg(t, e) \in Message /\ Msg(t, e).type = t /\ Msg(t, e).enc = e
BY DEF Msg, Message

LEMMA PostTyped ==
    ASSUME queue \in Seq(Message), NEW m \in Message, Post(<<m>>)
    PROVE  queue' \in Seq(Message)
<1>1. <<m>> \in Seq(Message) OBVIOUS
<1>2. queue \o <<m>> \in Seq(Message) BY <1>1, ConcatProperties
<1> QED BY <1>2 DEF Post

LEMMA TailTyped ==
    ASSUME NEW S, NEW q \in Seq(S), q # <<>> PROVE Tail(q) \in Seq(S) /\ Head(q) \in S
OBVIOUS

LEMMA SplitAt ==
    ASSUME NEW S, NEW q \in Seq(S), NEW n \in 0 .. Len(q)
    PROVE  LET a == SubSeq(q, 1, n)
               b == SubSeq(q, n + 1, Len(q))
           IN a \in Seq(S) /\ b \in Seq(S) /\ a \o b = q /\ Len(a) = n /\ Len(b) = Len(q) - n
<1> DEFINE a == SubSeq(q, 1, n)
           b == SubSeq(q, n + 1, Len(q))
           l == Len(q)
<1>1. l \in Nat /\ n \in Nat /\ n <= l /\ DOMAIN q = 1 .. l /\ \A i \in 1 .. l : q[i] \in S OBVIOUS
<1> HIDE DEF l
<1>2. a \in Seq(S) /\ Len(a) = n
  <2>1. \A i \in 1 .. n : q[i] \in S BY <1>1
  <2>2. a \in Seq(S) /\ Len(a) = IF 1 <= n THEN n - 1 + 1 ELSE 0 BY <1>1, <2>1, SubSeqProperties
  <2>3. (IF 1 <= n THEN n - 1 + 1 ELSE 0) = n BY <1>1
  <2> QED BY <2>2, <2>3
<1>3. b \in Seq(S) /\ Len(b) = l - n
  <2>1. n + 1 \in Int /\ l \in Int /\ \A i \in (n + 1) .. l : q[i] \in S BY <1>1
  <2>2. SubSeq(q, n + 1, l) \in Seq(S) /\ Len(SubSeq(q, n + 1, l)) = IF n + 1 <= l THEN l - (n + 1) + 1 ELSE 0
    BY <2>1, SubSeqProperties
  <2>3. (IF n + 1 <= l THEN l - (n + 1) + 1 ELSE 0) = l - n BY <1>1
  <2> QED BY <2>2, <2>3 DEF l
<1>4. a \o b = q
  <2>1. 1 \in 1 .. l + 1 /\ n \in 1 - 1 .. l /\ l \in n .. l BY <1>1
  <2>2. a \o b = SubSeq(q, 1, l) BY <2>1, ConcatAdjacentSubSeq DEF l
  <2> QED BY <2>2, SubSeqFull DEF l
<1> QED BY <1>2, <1>3, <1>4 DEF l

\* A sequence is what is too old and the newest.
LEMMA NewestSplits ==
    ASSUME NEW S, NEW q \in Seq(S), NEW n \in Nat
    PROVE  LET w == Newest(q, n)
               o == SubSeq(q, 1, Len(q) - Len(w))
           IN w \in Seq(S) /\ o \in Seq(S) /\ q = o \o w
<1> DEFINE w == Newest(q, n)
           o == SubSeq(q, 1, Len(q) - Len(w))
           l == Len(q)
<1>1. l \in Nat OBVIOUS
<1>2. ASSUME l <= n PROVE w \in Seq(S) /\ o \in Seq(S) /\ q = o \o w
  <2>1. w = q /\ l - Len(w) = 0
    <3>1. w = q BY <1>2 DEF Newest
    <3> QED BY <1>1, <3>1
  <2>2. 0 \in 0 .. l BY <1>1
  <2>3. o = SubSeq(q, 1, 0) BY <2>1 DEF l
  <2>4. SubSeq(q, 1, 0) = <<>> /\ <<>> \o q = q BY SubSeqEmpty, ConcatEmptySeq
  <2>5. <<>> \in Seq(S) OBVIOUS
  <2> HIDE DEF o, w
  <2> QED BY <2>1, <2>3, <2>4, <2>5
<1>3. ASSUME ~(l <= n) PROVE w \in Seq(S) /\ o \in Seq(S) /\ q = o \o w
  <2>1. l - n \in 0 .. l BY <1>1, <1>3
  <2>2. w = SubSeq(q, (l - n) + 1, l) BY <1>3 DEF Newest
  <2>3. /\ SubSeq(q, 1, l - n) \in Seq(S) /\ w \in Seq(S) /\ SubSeq(q, 1, l - n) \o w = q
        /\ Len(w) = l - (l - n)
    <3> DEFINE d == l - n
    <3>1. d \in 0 .. Len(q) BY <2>1
    <3>2. w = SubSeq(q, d + 1, Len(q)) BY <2>2
    <3> HIDE DEF d, w
    <3>3. /\ SubSeq(q, 1, d) \in Seq(S) /\ SubSeq(q, d + 1, Len(q)) \in Seq(S)
          /\ SubSeq(q, 1, d) \o SubSeq(q, d + 1, Len(q)) = q /\ Len(SubSeq(q, d + 1, Len(q))) = Len(q) - d
      <4>1. q \in Seq(S) OBVIOUS
      <4> QED BY ONLY <3>1, <4>1, SplitAt
    <3> QED BY ONLY <3>2, <3>3 DEF d, l
  <2> DEFINE k == Len(w)
  <2>4. k = l - (l - n) BY <2>3
  <2> HIDE DEF k, l, w, o
  <2>5. l - k = l - n BY <1>1, <2>4
  <2>6. o = SubSeq(q, 1, l - n) BY <2>5 DEF o, k, l
  <2> QED BY <2>3, <2>6
<1> QED BY <1>2, <1>3

\* What a round of the uplink task takes out of the queue and what it leaves
Taken(n) == SubSeq(queue, 1, n)
Rest(n) == SubSeq(queue, n + 1, Len(queue))
Left(n) == Newest(Rest(n), MaxPending)

LEMMA RoundSplits ==
    ASSUME queue \in Seq(Message), NEW n \in 1 .. Len(queue)
    PROVE  /\ Taken(n) \in Seq(Message) /\ Overdue(Rest(n)) \in Seq(Message) /\ Left(n) \in Seq(Message)
           /\ queue = Taken(n) \o (Overdue(Rest(n)) \o Left(n))
           /\ Batch(n) \in Seq(Message)
           /\ Batch(n) = Taken(n) \o Sifted(Overdue(Rest(n)), Control)
<1>1. n \in 0 .. Len(queue) OBVIOUS
<1>2. Taken(n) \in Seq(Message) /\ Rest(n) \in Seq(Message) /\ queue = Taken(n) \o Rest(n)
  BY <1>1, SplitAt DEF Taken, Rest
<1>3. MaxPending \in Nat BY DesktopAssumption
<1>4. /\ Left(n) \in Seq(Message) /\ Overdue(Rest(n)) \in Seq(Message)
      /\ Rest(n) = Overdue(Rest(n)) \o Left(n)
  BY <1>2, <1>3, NewestSplits DEF Left, Overdue
<1>5. Batch(n) = Taken(n) \o Sifted(Overdue(Rest(n)), Control) BY DEF Batch, Taken, Rest
<1>6. Sifted(Overdue(Rest(n)), Control) \in Seq(Message) BY <1>4, SiftedTyped
<1>7. Batch(n) \in Seq(Message) BY <1>2, <1>5, <1>6, ConcatProperties
<1> QED BY <1>2, <1>4, <1>5, <1>7

LEMMA OutgoingTyped ==
    ASSUME queue \in Seq(Message), NEW n \in 1 .. Len(queue)
    PROVE  /\ Outgoing(n) \in Seq(Message)
           /\ Newest(Sifted(Batch(n), Video), MaxPending) \in Seq(Message)
<1>1. Batch(n) \in Seq(Message) BY RoundSplits
<1>2. Sifted(Batch(n), Control) \in Seq(Message) /\ Sifted(Batch(n), Video) \in Seq(Message) BY <1>1, SiftedTyped
<1>3. MaxPending \in Nat BY DesktopAssumption
<1>4. Newest(Sifted(Batch(n), Video), MaxPending) \in Seq(Message) BY <1>2, <1>3, NewestSplits
<1> QED BY <1>2, <1>4, ConcatProperties DEF Outgoing

\* With one stream more than viewers there is always one that nobody watches.
LEMMA FreshStreamIs ==
    ASSUME view \in [Viewers -> ViewSet], stream = None
    PROVE  FreshStream \in Streams /\ FreshStream # None /\ \A v \in Viewers : view[v].ds # FreshStream
<1> DEFINE f == [v \in Viewers |-> view[v].ds]
           T == {view[v].ds : v \in Viewers}
           n == Cardinality(Viewers)
<1>1. IsFiniteSet(Viewers) BY DesktopAssumption
<1>2. n \in Nat BY <1>1, FS_CardinalityType
<1>3. f \in Surjection(Viewers, T) BY DEF Surjection
<1>4. IsFiniteSet(T) /\ Cardinality(T) <= n BY <1>1, <1>3, FS_Surjection
<1>5. Cardinality(Streams) = n + 1
  <2>1. n + 1 \in Int /\ 1 <= n + 1 BY <1>2
  <2>2. Cardinality(1 .. (n + 1)) = (n + 1) - 1 + 1 BY <2>1, FS_Interval
  <2>3. (n + 1) - 1 + 1 = n + 1 BY <1>2
  <2> QED BY <2>2, <2>3 DEF Streams
<1>6. ~(Streams \subseteq T)
  <2> SUFFICES ASSUME Streams \subseteq T PROVE FALSE OBVIOUS
  <2>1. Cardinality(Streams) <= Cardinality(T) BY <1>4, FS_Subset
  <2>2. Cardinality(T) \in Nat BY <1>4, FS_CardinalityType
  <2> HIDE DEF T, n
  <2> QED BY <1>2, <1>4, <1>5, <2>1, <2>2
<1>7. PICK s \in Streams : s \notin T BY <1>6
<1>8. \A k \in Streams : k # None BY <1>2 DEF Streams, None
<1>9. s # stream /\ \A v \in Viewers : view[v].ds # s BY <1>7, <1>8
<1>10. FreshStream \in Streams /\ FreshStream # stream /\ \A v \in Viewers : view[v].ds # FreshStream
  BY <1>9 DEF FreshStream
<1> QED BY <1>8, <1>10

LEMMA CurrentTyped ==
    ASSUME view \in [Viewers -> ViewSet], stream \in Streams \cup {None}, caches \in [Streams -> Nat]
    PROVE  Current \in Streams /\ EmptyIfNew \in [Streams -> Nat]
<1>1. stream = None => FreshStream \in Streams BY FreshStreamIs
<1>2. Current \in Streams BY <1>1 DEF Current
<1>3. None \in Nat BY DEF None
<1> QED BY <1>2, <1>3 DEF EmptyIfNew

(***************************************************************************)
(* A step changes some of it; the rest keeps its type.                     *)
(***************************************************************************)
LEMMA AgentSame ==
    ASSUME AgentTyped, UNCHANGED <<scene, agentVars>> PROVE AgentTyped'
BY DEF AgentTyped, agentVars

LEMMA HappensTyped == ASSUME AgentTyped, NEW kind, Happens(kind)
    PROVE  scene' \in [kinds : SUBSET FaultKinds, backlog : Nat \ {0}, left : Nat] /\ scene'.kinds = scene.kinds
           /\ scene'.backlog = scene.backlog /\ kind \in scene.kinds
<1>1. scene \in [kinds : SUBSET FaultKinds, backlog : Nat \ {0}, left : Nat] BY DEF AgentTyped
<1>2. scene.left \in Nat /\ scene.left > 0 /\ scene' = [scene EXCEPT !.left = scene.left - 1] /\ kind \in scene.kinds
  BY <1>1 DEF Happens
<1>3. scene.left - 1 \in Nat BY <1>2
<1> QED BY <1>1, <1>2, <1>3

LEMMA QueuesSame ==
    ASSUME QueuesTyped, UNCHANGED <<queue, paths>> PROVE QueuesTyped'
BY DEF QueuesTyped

LEMMA StreamsSame ==
    ASSUME StreamsTyped, UNCHANGED relayVars PROVE StreamsTyped'
BY DEF StreamsTyped, relayVars

LEMMA ViewsSame ==
    ASSUME ViewsTyped, UNCHANGED <<view, lost>> PROVE ViewsTyped'
BY DEF ViewsTyped

LEMMA LoopIs ==
    ASSUME AgentTyped, NEW l \in Loops
    PROVE  /\ loops[l] \in LoopSet /\ loops[l].pc \in {"none", "opening", "capturing"}
           /\ loops[l].enc \in Nat /\ loops[l].inited \in BOOLEAN
           /\ l \in {1, 2}
BY DEF AgentTyped, LoopSet, Loops

LEMMA LoopBecomes ==
    ASSUME AgentTyped, NEW l \in Loops, NEW r \in LoopSet
    PROVE  [loops EXCEPT ![l] = r] \in [Loops -> LoopSet]
BY DEF AgentTyped

LEMMA LoopPc ==
    ASSUME AgentTyped, NEW l \in Loops, NEW s \in {"none", "opening", "capturing"}
    PROVE  [loops EXCEPT ![l].pc = s] \in [Loops -> LoopSet]
<1>1. [loops[l] EXCEPT !.pc = s] \in LoopSet BY LoopIs DEF LoopSet
<1> QED BY <1>1, LoopBecomes

LEMMA FreeLoopIs ==
    ASSUME \E l \in Loops : loops[l].pc = "none"
    PROVE  FreeLoop \in Loops /\ loops[FreeLoop].pc = "none"
BY DEF FreeLoop

LEMMA StartTyped ==
    ASSUME AgentTyped, Start
    PROVE  running' \in BOOLEAN /\ task' \in Loops \cup {None} /\ loops' \in [Loops -> LoopSet]
<1>1. CASE running BY <1>1 DEF Start, AgentTyped
<1>2. CASE ~running
  <2>1. /\ \E l \in Loops : loops[l].pc = "none"
        /\ running' = TRUE /\ task' = FreeLoop /\ loops' = [loops EXCEPT ![FreeLoop].pc = "opening"]
    BY <1>2 DEF Start
  <2>2. FreeLoop \in Loops BY <2>1, FreeLoopIs
  <2> QED BY <2>1, <2>2, LoopPc
<1> QED BY <1>1, <1>2

LEMMA InitVideo == Init => VideoTyped
<1> SUFFICES ASSUME Init PROVE VideoTyped OBVIOUS
<1>1. scene \in [kinds : SUBSET FaultKinds, backlog : Nat \ {0}, left : Nat] BY DesktopAssumption DEF Init
<1>2. AgentTyped BY <1>1 DEF Init, AgentTyped, LoopSet, None
<1>3. QueuesTyped BY DEF Init, QueuesTyped
<1>4. StreamsTyped BY DEF Init, StreamsTyped, None
<1>5. <<>> \in Seq(Frame) OBVIOUS
<1>6. Away \in ViewSet BY <1>5 DEF Away, ViewSet, None
<1>7. ViewsTyped BY <1>6 DEF Init, ViewsTyped
<1> QED BY <1>2, <1>3, <1>4, <1>7 DEF VideoTyped

LEMMA CommandsTyped == ASSUME VideoTyped, Commands PROVE VideoTyped'
<1>1. AgentTyped BY DEF VideoTyped
<1>2. UNCHANGED <<queue, paths, relayVars, view, lost, encs>> /\ \E kind : Happens(kind)
  BY DEF Commands, StartCmd, StopCmd, RestartCmd, SessionEnds, agentVars, past
<1>3. scene' \in [kinds : SUBSET FaultKinds, backlog : Nat \ {0}, left : Nat] BY <1>1, <1>2, HappensTyped
<1>4. /\ running' \in BOOLEAN /\ want' \in BOOLEAN
      /\ cmd' \in {"idle", "stopping", "restarting", "leaving", "left"}
      /\ link' \in {"up", "lost", "cleaned"}
      /\ task' \in Loops \cup {None}
      /\ loops' \in [Loops -> LoopSet]
  <2>1. CASE StartCmd BY <1>1, <2>1, StartTyped DEF StartCmd, AgentTyped
  <2>2. CASE StopCmd BY <1>1, <2>2 DEF StopCmd, AgentTyped
  <2>3. CASE RestartCmd BY <1>1, <2>3 DEF RestartCmd, AgentTyped
  <2>4. CASE SessionEnds BY <1>1, <2>4 DEF SessionEnds, AgentTyped
  <2> QED BY <2>1, <2>2, <2>3, <2>4 DEF Commands
<1>5. AgentTyped' BY <1>1, <1>2, <1>3, <1>4 DEF AgentTyped
<1> QED BY <1>2, <1>5, QueuesSame, StreamsSame, ViewsSame DEF VideoTyped

LEMMA StoppedTyped == ASSUME VideoTyped, Stopped, scene' \in [kinds : SUBSET FaultKinds, backlog : Nat \ {0}, left : Nat]
    PROVE  VideoTyped'
<1>1. AgentTyped /\ QueuesTyped BY DEF VideoTyped
<1>2. /\ Post(<<Msg("stopped", None)>>) /\ cmd' = IF cmd = "leaving" THEN "left" ELSE "idle"
      /\ UNCHANGED <<link, want, encs, paths, relayVars, view, lost>>
  BY DEF Stopped, past
<1>3. running' \in BOOLEAN /\ task' \in Loops \cup {None} /\ loops' \in [Loops -> LoopSet]
  <2>1. CASE cmd = "restarting" BY <1>1, <2>1, StartTyped DEF Stopped
  <2>2. CASE cmd # "restarting"
    <3>1. task' = None /\ running' = running /\ loops' = loops BY <2>2 DEF Stopped
    <3> QED BY <1>1, <3>1 DEF AgentTyped
  <2> QED BY <2>1, <2>2
<1>4. AgentTyped' BY <1>1, <1>2, <1>3 DEF AgentTyped
<1>5. queue' \in Seq(Message)
  <2>1. Msg("stopped", None) \in Message BY MsgTyped DEF None
  <2> QED BY <1>1, <1>2, <2>1, PostTyped DEF QueuesTyped
<1>6. QueuesTyped' BY <1>1, <1>2, <1>5 DEF QueuesTyped
<1> QED BY <1>2, <1>4, <1>6, StreamsSame, ViewsSame DEF VideoTyped

LEMMA StopsTyped == ASSUME VideoTyped, StopDone \/ StopTimeout PROVE VideoTyped'
<1>1. AgentTyped BY DEF VideoTyped
<1>2. Stopped BY DEF StopDone, StopTimeout
<1>3. scene' = scene \/ Happens("slow") BY DEF StopDone, StopTimeout
<1>4. scene' \in [kinds : SUBSET FaultKinds, backlog : Nat \ {0}, left : Nat]
  <2>1. CASE scene' = scene BY <1>1, <2>1 DEF AgentTyped
  <2>2. CASE Happens("slow") BY <1>1, <2>2, HappensTyped
  <2> QED BY <1>3, <2>1, <2>2
<1> QED BY <1>2, <1>4, StoppedTyped

\* What is cut keeps its place, its type and its encoder; only deltas are cut.
LEMMA CutKeeps ==
    ASSUME NEW s \in Seq(Message), NEW G
    PROVE  /\ WithCuts(s, G) \in Seq(Message) /\ Len(WithCuts(s, G)) = Len(s)
           /\ \A i \in 1 .. Len(s) : /\ WithCuts(s, G)[i].type = s[i].type /\ WithCuts(s, G)[i].enc = s[i].enc
                                    /\ (s[i].type # "delta" => WithCuts(s, G)[i] = s[i])
<1> DEFINE n == Len(s)
           x(i) == IF CutAt(s, i, G) THEN [s[i] EXCEPT !.cut = TRUE] ELSE s[i]
<1>1. n \in Nat /\ DOMAIN s = 1 .. n /\ \A i \in 1 .. n : s[i] \in Message OBVIOUS
<1>2. \A m \in Message : /\ [m EXCEPT !.cut = TRUE] \in Message
                          /\ [m EXCEPT !.cut = TRUE].type = m.type /\ [m EXCEPT !.cut = TRUE].enc = m.enc
  BY DEF Message
<1>3. \A i \in 1 .. n : /\ x(i) \in Message /\ x(i).type = s[i].type /\ x(i).enc = s[i].enc
                        /\ (s[i].type # "delta" => x(i) = s[i])
  <2> SUFFICES ASSUME NEW i \in 1 .. n
               PROVE  /\ x(i) \in Message /\ x(i).type = s[i].type /\ x(i).enc = s[i].enc
                      /\ (s[i].type # "delta" => x(i) = s[i])
    OBVIOUS
  <2>1. CASE CutAt(s, i, G)
    <3>1. x(i) = [s[i] EXCEPT !.cut = TRUE] /\ s[i].type = "delta" BY <2>1 DEF CutAt
    <3> QED BY <1>1, <1>2, <3>1
  <2>2. CASE ~CutAt(s, i, G) BY <1>1, <2>2
  <2> QED BY <2>1, <2>2
<1>4. WithCuts(s, G) = [i \in 1 .. n |-> x(i)] BY <1>1 DEF WithCuts
<1> HIDE DEF x, n
<1>5. [i \in 1 .. n |-> x(i)] \in Seq(Message) /\ Len([i \in 1 .. n |-> x(i)]) = n BY <1>1, <1>3
<1> QED BY <1>3, <1>4, <1>5 DEF n

LEMMA OutgoingOfAll == ASSUME QueuesTyped PROVE Outgoing(Len(queue)) \in Seq(Message)
<1>1. queue \in Seq(Message) /\ Len(queue) \in Nat BY DEF QueuesTyped
<1>2. CASE queue # <<>>
  <2>1. Len(queue) \in 1 .. Len(queue) BY <1>1, <1>2
  <2> QED BY <1>1, <2>1, OutgoingTyped
<1>3. CASE queue = <<>>
  <2>1. Len(queue) = 0 /\ SubSeq(queue, 1, 0) = <<>> /\ SubSeq(queue, 1, 0) \in Seq(Message) BY <1>3
  <2>2. SubSeq(queue, 0 + 1, 0) = <<>> BY <1>3
  <2>3. MaxPending \in Nat BY DesktopAssumption
  <2>4. <<>> \in Seq(Message) OBVIOUS
  <2>5. Overdue(<<>>) \in Seq(Message) BY <2>3, <2>4, NewestSplits DEF Overdue
  <2>6. Sifted(Overdue(<<>>), Control) \in Seq(Message) BY <2>5, SiftedTyped
  <2>7. Batch(0) \in Seq(Message)
    <3>1. Batch(0) = <<>> \o Sifted(Overdue(<<>>), Control) BY <2>1, <2>2 DEF Batch
    <3> QED BY <2>4, <2>6, <3>1, ConcatProperties
  <2>8. Sifted(Batch(0), Control) \in Seq(Message) /\ Sifted(Batch(0), Video) \in Seq(Message) BY <2>7, SiftedTyped
  <2>9. Newest(Sifted(Batch(0), Video), MaxPending) \in Seq(Message) BY <2>3, <2>8, NewestSplits
  <2> QED BY <2>1, <2>8, <2>9, ConcatProperties DEF Outgoing
<1> QED BY <1>2, <1>3

LEMMA ReconnectTyped == ASSUME VideoTyped, Reconnect PROVE VideoTyped'
<1>1. AgentTyped /\ QueuesTyped BY DEF VideoTyped
<1>2. /\ queue' = <<>> /\ cmd' = "idle" /\ link' = "up"
      /\ UNCHANGED <<scene, want, encs, relayVars, view, lost>>
      /\ paths' = [p \in Paths |-> IF p = "old" THEN paths["old"] \o paths["ws"]
                      \o paths["http"] \o WithCuts(Outgoing(Len(queue)), Missing(Len(queue))) ELSE <<>>]
  BY DEF Reconnect
<1>3. running' \in BOOLEAN /\ task' \in Loops \cup {None} /\ loops' \in [Loops -> LoopSet]
  <2>1. CASE want BY <1>1, <2>1, StartTyped DEF Reconnect
  <2>2. CASE ~want BY <1>1, <2>2 DEF Reconnect, AgentTyped
  <2> QED BY <2>1, <2>2
<1>4. AgentTyped' BY <1>1, <1>2, <1>3 DEF AgentTyped
<1>5. QueuesTyped'
  <2> DEFINE a == paths["old"]
             b == paths["ws"]
             c == paths["http"]
             o == WithCuts(Outgoing(Len(queue)), Missing(Len(queue)))
  <2>1. "old" \in Paths /\ "ws" \in Paths /\ "http" \in Paths BY DEF Paths, Socket
  <2>2. a \in Seq(Message) /\ b \in Seq(Message) /\ c \in Seq(Message) BY <1>1, <2>1 DEF QueuesTyped
  <2>3. o \in Seq(Message) BY <1>1, OutgoingOfAll, CutKeeps
  <2> HIDE DEF a, b, c, o
  <2>4. a \o b \in Seq(Message) BY <2>2, ConcatProperties
  <2>5. a \o b \o c \in Seq(Message) BY <2>2, <2>4, ConcatProperties
  <2>6. a \o b \o c \o o \in Seq(Message) BY <2>3, <2>5, ConcatProperties
  <2>7. <<>> \in Seq(Message) OBVIOUS
  <2>8. paths' = [p \in Paths |-> IF p = "old" THEN a \o b \o c \o o ELSE <<>>] BY <1>2 DEF a, b, c, o
  <2>9. paths' \in [Paths -> Seq(Message)] BY <2>6, <2>7, <2>8
  <2> QED BY <1>2, <2>7, <2>9 DEF QueuesTyped
<1> QED BY <1>2, <1>4, <1>5, StreamsSame, ViewsSame DEF VideoTyped

LEMMA OpensTyped == ASSUME VideoTyped, NEW l \in Loops, Open(l) \/ OpenFails(l) \/ Exit(l) \/ CaptureFails(l) PROVE VideoTyped'
<1>1. AgentTyped /\ QueuesTyped BY DEF VideoTyped
<1>2. encs + 1 \in Nat /\ None \in Nat BY <1>1 DEF AgentTyped, None
<1>3. UNCHANGED <<running, cmd, link, want, task, paths, relayVars, view, lost>>
  BY DEF Open, OpenFails, Exit, CaptureFails, past
<1>4. scene' \in [kinds : SUBSET FaultKinds, backlog : Nat \ {0}, left : Nat]
  <2>1. scene' = scene \/ Happens("capture") BY DEF Open, OpenFails, Exit, CaptureFails
  <2>2. CASE scene' = scene BY <1>1, <2>2 DEF AgentTyped
  <2>3. CASE Happens("capture") BY <1>1, <2>3, HappensTyped
  <2> QED BY <2>1, <2>2, <2>3
<1>5. loops' \in [Loops -> LoopSet] /\ encs' \in Nat
  <2>1. CASE Open(l)
    <3>1. encs' = encs + 1 /\ loops' = [loops EXCEPT ![l] = [pc |-> "capturing", enc |-> encs', inited |-> FALSE]]
      BY <2>1 DEF Open
    <3>2. [pc |-> "capturing", enc |-> encs', inited |-> FALSE] \in LoopSet BY <1>2, <3>1 DEF LoopSet
    <3> QED BY <1>1, <1>2, <3>1, <3>2, LoopBecomes
  <2>2. CASE OpenFails(l) \/ Exit(l) \/ CaptureFails(l)
    <3>1. loops' = [loops EXCEPT ![l].pc = "none"] /\ encs' = encs BY <2>2 DEF OpenFails, Exit, CaptureFails
    <3>2. encs' \in Nat BY <1>1, <3>1 DEF AgentTyped
    <3> QED BY <1>1, <3>1, <3>2, LoopPc
  <2> QED BY <2>1, <2>2
<1>6. queue' \in Seq(Message)
  <2>1. PICK m \in Message : Post(<<m>>)
    <3>1. CASE Open(l)
      <4>1. encs' \in Nat BY <1>5
      <4> QED BY <3>1, <4>1, MsgTyped DEF Open
    <3>2. CASE OpenFails(l) BY <1>2, <3>2, MsgTyped DEF OpenFails
    <3>3. CASE Exit(l) BY <1>2, <3>3, MsgTyped DEF Exit
    <3>4. CASE CaptureFails(l) BY <1>2, <3>4, MsgTyped DEF CaptureFails
    <3> QED BY <3>1, <3>2, <3>3, <3>4
  <2> QED BY <1>1, <2>1, PostTyped DEF QueuesTyped
<1>7. AgentTyped' BY <1>1, <1>3, <1>4, <1>5 DEF AgentTyped
<1>8. QueuesTyped' BY <1>1, <1>3, <1>6 DEF QueuesTyped
<1> QED BY <1>3, <1>7, <1>8, StreamsSame, ViewsSame DEF VideoTyped

\* What a pipeline posts at a key frame
Keyed(l) == (IF loops[l].inited THEN <<>> ELSE <<Msg("init", loops[l].enc)>>) \o <<Msg("key", loops[l].enc)>>

LEMMA KeyedTyped == ASSUME AgentTyped, NEW l \in Loops PROVE Keyed(l) \in Seq(Message)
<1>1. Msg("init", loops[l].enc) \in Message /\ Msg("key", loops[l].enc) \in Message BY LoopIs, MsgTyped
<1>2. <<>> \in Seq(Message) /\ <<Msg("init", loops[l].enc)>> \in Seq(Message) /\ <<Msg("key", loops[l].enc)>> \in Seq(Message)
  BY <1>1
<1> QED BY <1>2, ConcatProperties DEF Keyed

LEMMA FramesTyped == ASSUME VideoTyped, NEW l \in Loops, KeyFrame(l) \/ Delta(l) \/ Rebuild(l) PROVE VideoTyped'
<1>1. AgentTyped /\ QueuesTyped BY DEF VideoTyped
<1>2. UNCHANGED <<running, cmd, link, want, task, paths, relayVars, view, lost>>
  BY DEF KeyFrame, Delta, Rebuild, agentVars, past
<1>3. loops[l] \in LoopSet /\ encs + 1 \in Nat BY <1>1, LoopIs DEF AgentTyped
<1>4. /\ scene' \in [kinds : SUBSET FaultKinds, backlog : Nat \ {0}, left : Nat]
      /\ loops' \in [Loops -> LoopSet] /\ encs' \in Nat /\ queue' \in Seq(Message)
  <2>1. CASE KeyFrame(l)
    <3>1. UNCHANGED <<scene, encs>> /\ queue' = queue \o Keyed(l) /\ loops' = [loops EXCEPT ![l].inited = TRUE]
      BY <2>1 DEF KeyFrame, Keyed, Post
    <3>2. [loops[l] EXCEPT !.inited = TRUE] \in LoopSet BY <1>3 DEF LoopSet
    <3>3. loops' \in [Loops -> LoopSet] BY <1>1, <3>1, <3>2, LoopBecomes
    <3>4. queue' \in Seq(Message) BY <1>1, <3>1, KeyedTyped, ConcatProperties DEF QueuesTyped
    <3> QED BY <1>1, <3>1, <3>3, <3>4 DEF AgentTyped
  <2>2. CASE Delta(l)
    <3>1. UNCHANGED <<scene, encs, loops>> /\ Post(<<Msg("delta", loops[l].enc)>>) BY <2>2 DEF Delta, agentVars
    <3>2. Msg("delta", loops[l].enc) \in Message BY <1>1, LoopIs, MsgTyped
    <3>3. queue' \in Seq(Message) BY <1>1, <3>1, <3>2, PostTyped DEF QueuesTyped
    <3> QED BY <1>1, <3>1, <3>3 DEF AgentTyped
  <2>3. CASE Rebuild(l)
    <3>1. /\ encs' = encs + 1 /\ queue' = queue /\ Happens("rebuild")
          /\ loops' = [loops EXCEPT ![l].enc = encs', ![l].inited = FALSE]
      BY <2>3 DEF Rebuild
    <3>2. loops' \in [Loops -> LoopSet]
      <4>1. encs' \in Nat BY <1>3, <3>1
      <4>2. loops' = [loops EXCEPT ![l] = [[loops[l] EXCEPT !.enc = encs'] EXCEPT !.inited = FALSE]]
        BY <1>1, <3>1 DEF AgentTyped
      <4>3. [[loops[l] EXCEPT !.enc = encs'] EXCEPT !.inited = FALSE] \in LoopSet BY <1>3, <4>1 DEF LoopSet
      <4> QED BY <1>1, <4>2, <4>3, LoopBecomes
    <3>3. scene' \in [kinds : SUBSET FaultKinds, backlog : Nat \ {0}, left : Nat] BY <1>1, <3>1, HappensTyped
    <3> QED BY <1>1, <1>3, <3>1, <3>2, <3>3 DEF QueuesTyped
  <2> QED BY <2>1, <2>2, <2>3
<1>5. AgentTyped' BY <1>1, <1>2, <1>4 DEF AgentTyped
<1>6. QueuesTyped' BY <1>1, <1>2, <1>4 DEF QueuesTyped
<1> QED BY <1>2, <1>5, <1>6, StreamsSame, ViewsSame DEF VideoTyped

LEMMA CutSifts ==
    ASSUME NEW s \in Seq(Message), NEW G, NEW K, "delta" \notin K PROVE Sifted(WithCuts(s, G), K) = Sifted(s, K)
<1> DEFINE t == WithCuts(s, G)
           n == Len(s)
<1>1. /\ t \in Seq(Message) /\ Len(t) = n /\ n \in Nat
      /\ \A i \in 1 .. n : t[i].type = s[i].type /\ (s[i].type # "delta" => t[i] = s[i])
  <2>1. n \in Nat OBVIOUS
  <2>2. t \in Seq(Message) /\ Len(t) = n BY CutKeeps
  <2>3. ASSUME NEW i \in 1 .. Len(s) PROVE t[i].type = s[i].type /\ (s[i].type # "delta" => t[i] = s[i])
    BY CutKeeps
  <2> QED BY <2>1, <2>2, <2>3
<1> HIDE DEF t
<1>2. PICK g : g[0] = <<>> /\ Passes(g, n, s, K) /\ Sifted(s, K) = g[n] BY SiftedAlong
<1>3. PICK h : h[0] = <<>> /\ Passes(h, n, t, K) /\ Sifted(t, K) = h[n]
  <2>1. \E h : h[0] = <<>> /\ Passes(h, Len(t), t, K) /\ Sifted(t, K) = h[Len(t)] BY <1>1, SiftedAlong
  <2> QED BY <1>1, <2>1
<1> HIDE DEF n
<1>4. \A i \in 0 .. n : g[i] = h[i]
  <2>1. \A i \in 1 .. n : g[i - 1] = h[i - 1] => g[i] = h[i]
    <3> SUFFICES ASSUME NEW i \in 1 .. n, g[i - 1] = h[i - 1] PROVE g[i] = h[i] OBVIOUS
    <3>1. t[i].type = s[i].type /\ (s[i].type \in K => t[i] = s[i]) BY <1>1
    <3> QED BY <1>2, <1>3, <3>1 DEF Passes
  <2>2. g[0] = h[0] /\ n \in Nat BY <1>1, <1>2, <1>3
  <2> HIDE DEF n
  <2> QED BY <2>1, <2>2, AlongUnique, ZenonT(60)
<1>5. n \in 0 .. n BY <1>1
<1> QED BY <1>2, <1>3, <1>4, <1>5 DEF t

\* What the rounds do, and what they leave alone
LEMMA SendIs ==
    ASSUME Send
    PROVE  /\ Idle /\ scene' = scene
           /\ \E n \in 1 .. Len(queue) :
                 /\ queue' = Left(n) /\ lost' = (lost \/ InitDropped(n, Outgoing(n)))
                 /\ UNCHANGED <<agentVars, relayVars, view>>
                 /\ paths' = [paths EXCEPT !["ws"] = WithCuts(Outgoing(n), Missing(n))]
BY Zenon DEF Send, TakeBatch, Left, Rest

LEMMA BreaksIs ==
    ASSUME SendBreaks
    PROVE  /\ Happens("ws")
           /\ \E n \in 1 .. Len(queue) : \E k \in 0 .. Len(Outgoing(n)), arrives \in BOOLEAN :
                 /\ queue' = Left(n) /\ lost' = (lost \/ InitDropped(n, Outgoing(n)))
                 /\ UNCHANGED <<agentVars, relayVars, view>>
                 /\ paths' = [paths EXCEPT !["ws"] = SubSeq(WithCuts(Outgoing(n), Missing(n)), 1, k),
                                           !["http"] = IF arrives THEN WithCuts(Outgoing(n), Missing(n)) ELSE <<>>]
BY Zenon DEF SendBreaks, TakeBatch, Left, Rest

LEMMA RoundsLeave == ASSUME Send \/ SendBreaks PROVE UNCHANGED <<agentVars, relayVars, view>>
BY SendIs, BreaksIs

LEMMA RoundsTyped == ASSUME VideoTyped, Send \/ SendBreaks PROVE VideoTyped'
<1>1. AgentTyped /\ QueuesTyped /\ ViewsTyped BY DEF VideoTyped
<1>2. PICK n \in 1 .. Len(queue) :
        /\ queue' = Left(n) /\ lost' = (lost \/ InitDropped(n, Outgoing(n)))
        /\ UNCHANGED <<agentVars, relayVars, view>>
        /\ \/ paths' = [paths EXCEPT !["ws"] = WithCuts(Outgoing(n), Missing(n))]
           \/ \E k \in 0 .. Len(Outgoing(n)), arrives \in BOOLEAN :
                 paths' = [paths EXCEPT !["ws"] = SubSeq(WithCuts(Outgoing(n), Missing(n)), 1, k),
                                        !["http"] = IF arrives THEN WithCuts(Outgoing(n), Missing(n)) ELSE <<>>]
  <2>1. CASE Send BY <2>1, SendIs
  <2>2. CASE SendBreaks BY <2>2, BreaksIs
  <2> QED BY <2>1, <2>2
<1>3. UNCHANGED <<agentVars, relayVars, view>> /\ queue' = Left(n) /\ lost' = (lost \/ InitDropped(n, Outgoing(n)))
  BY <1>2
<1>4. scene' = scene \/ Happens("ws") BY SendIs, BreaksIs
<1>5. AgentTyped'
  <2>1. scene' \in [kinds : SUBSET FaultKinds, backlog : Nat \ {0}, left : Nat]
    <3>1. CASE scene' = scene BY <1>1, <3>1 DEF AgentTyped
    <3>2. CASE Happens("ws") BY <1>1, <3>2, HappensTyped
    <3> QED BY <1>4, <3>1, <3>2
  <2> QED BY <1>1, <1>3, <2>1 DEF AgentTyped, agentVars
<1>6. queue' \in Seq(Message) /\ Outgoing(n) \in Seq(Message) BY <1>1, <1>3, RoundSplits, OutgoingTyped DEF QueuesTyped
<1>7. paths' \in [Paths -> Seq(Message)]
  <2> DEFINE o == WithCuts(Outgoing(n), Missing(n))
  <2>1. "ws" \in Paths /\ "http" \in Paths BY DEF Paths, Socket
  <2>2. o \in Seq(Message) /\ <<>> \in Seq(Message) /\ Len(o) = Len(Outgoing(n)) BY <1>6, CutKeeps
  <2>3. paths \in [Paths -> Seq(Message)] BY <1>1 DEF QueuesTyped
  <2>4. \A k \in 0 .. Len(o) : SubSeq(o, 1, k) \in Seq(Message) BY <2>2, SplitAt
  <2> HIDE DEF o
  <2>5. \/ paths' = [paths EXCEPT !["ws"] = o]
        \/ \E k \in 0 .. Len(o), arrives \in BOOLEAN :
              paths' = [paths EXCEPT !["ws"] = SubSeq(o, 1, k), !["http"] = IF arrives THEN o ELSE <<>>]
    BY <1>2, <2>2 DEF o
  <2>6. CASE paths' = [paths EXCEPT !["ws"] = o] BY <2>2, <2>3, <2>6
  <2>7. ASSUME NEW k \in 0 .. Len(o), NEW arrives \in BOOLEAN,
               paths' = [paths EXCEPT !["ws"] = SubSeq(o, 1, k), !["http"] = IF arrives THEN o ELSE <<>>]
        PROVE  paths' \in [Paths -> Seq(Message)]
    <3>1. SubSeq(o, 1, k) \in Seq(Message) BY <2>4
    <3>2. (IF arrives THEN o ELSE <<>>) \in Seq(Message) BY <2>2
    <3> QED BY <2>3, <2>7, <3>1, <3>2
  <2> QED BY <2>5, <2>6, <2>7
<1>8. QueuesTyped' BY <1>6, <1>7 DEF QueuesTyped
<1>9. ViewsTyped'
  <2>1. InitDropped(n, Outgoing(n)) \in BOOLEAN BY DEF InitDropped
  <2> QED BY <1>1, <1>3, <2>1 DEF ViewsTyped
<1>10. StreamsTyped' BY <1>3, StreamsSame DEF VideoTyped
<1> QED BY <1>5, <1>8, <1>9, <1>10 DEF VideoTyped

LEMMA ViewIs ==
    ASSUME ViewsTyped, NEW v \in Viewers
    PROVE  /\ view[v] \in ViewSet
           /\ view[v].pc \in {"away", "joined", "waiting", "watching"} /\ view[v].ds \in Streams \cup {None}
           /\ view[v].in \in BOOLEAN /\ view[v].key_ok \in BOOLEAN /\ view[v].drops \in Nat
           /\ view[v].chan \in Seq(Frame) /\ view[v].sees \in Nat /\ view[v].missed \in BOOLEAN
BY DEF ViewsTyped, ViewSet

LEMMA MaxDropsIs == MaxDrops \in Nat /\ ChanCap \in Nat
BY DesktopAssumption

LEMMA PushedTyped ==
    ASSUME ViewsTyped, NEW v \in Viewers, NEW m \in Message, m.type \in {"key", "delta"}, NEW starved
    PROVE  Pushed(v, m, starved) \in ViewSet
<1>1. view[v] \in ViewSet /\ view[v].drops \in Nat /\ view[v].chan \in Seq(Frame) /\ view[v].missed \in BOOLEAN
  BY ViewIs
<1>2. Skipped(v) \in ViewSet BY <1>1 DEF Skipped, ViewSet
<1>3. [Skipped(v) EXCEPT !.key_ok = FALSE] \in ViewSet BY <1>2 DEF ViewSet
<1>4. Dropped(v) \in ViewSet
  <2>1. view[v].drops + 1 \in Nat /\ (view[v].drops + 1 < MaxDrops) \in BOOLEAN BY <1>1, MaxDropsIs
  <2> QED BY <1>1, <2>1 DEF Dropped, ViewSet
<1> DEFINE f == [type |-> m.type, enc |-> m.enc, cut |-> m.cut, torn |-> m.type = "delta" /\ view[v].missed]
           c == Append(view[v].chan, f)
           s == m.type = "delta" /\ view[v].missed
           r == [view[v] EXCEPT !.chan = c, !.key_ok = TRUE, !.drops = 0, !.missed = s]
<1>5. f \in Frame BY <1>1 DEF Frame, Message
<1>6. c \in Seq(Frame) BY <1>1, <1>5
<1>7. s \in BOOLEAN OBVIOUS
<1>8. r \in ViewSet
  <2> HIDE DEF c, s
  <2> QED BY <1>1, <1>6, <1>7 DEF ViewSet
<1>9. Pushed(v, m, starved) \in {Dropped(v), Skipped(v), [Skipped(v) EXCEPT !.key_ok = FALSE], r} BY DEF Pushed
<1> QED BY <1>2, <1>3, <1>4, <1>8, <1>9

LEMMA PushFragTyped ==
    ASSUME ViewsTyped, NEW m \in Message, m.type \in {"key", "delta"}, NEW starved, NEW s, PushFrag(s, m, starved)
    PROVE  view' \in [Viewers -> ViewSet]
<1>1. \A v \in Viewers : Pushed(v, m, starved) \in ViewSet BY PushedTyped
<1>2. \A v \in Viewers : view[v] \in ViewSet BY ViewIs
<1>3. view' = [v \in Viewers |-> IF v \in Audience(s) THEN Pushed(v, m, starved) ELSE view[v]] BY DEF PushFrag
<1> QED BY <1>1, <1>2, <1>3

LEMMA RoutingIs ==
    ASSUME QueuesTyped, NEW p \in Paths, Routing(p), Routed(p)
    PROVE  /\ paths[p] \in Seq(Message) /\ paths[p] # <<>> /\ Head(paths[p]) \in Message
           /\ paths' \in [Paths -> Seq(Message)] /\ paths'[p] = Tail(paths[p])
           /\ \A q \in Paths : q # p => paths'[q] = paths[q]
           /\ posted[p].ds = None
<1>1. paths \in [Paths -> Seq(Message)] BY DEF QueuesTyped
<1>2. paths[p] \in Seq(Message) /\ paths[p] # <<>> /\ posted[p].ds = None BY <1>1 DEF Routing
<1>3. Tail(paths[p]) \in Seq(Message) /\ Head(paths[p]) \in Message BY <1>2, TailTyped
<1>4. paths' = [paths EXCEPT ![p] = Tail(paths[p])] BY DEF Routed
<1> QED BY <1>1, <1>2, <1>3, <1>4

\* The steps of RouteThrottled
Throttles(p) ==
    \/ view' = [v \in Viewers |-> IF v \in Audience(Current) THEN [Skipped(v) EXCEPT !.key_ok = FALSE] ELSE view[v]]
    \/ \E starved \in SUBSET Audience(Current) \ {{}} : PushFrag(Current, Head(paths[p]), starved)

LEMMA RoutesTyped ==
    ASSUME VideoTyped, NEW p \in Paths, RouteStarted(p) \/ RouteStopped(p) \/ RouteInit(p) \/ RouteFrame(p) \/ RouteThrottled(p)
    PROVE  VideoTyped'
<1>1. AgentTyped /\ QueuesTyped /\ StreamsTyped /\ ViewsTyped BY DEF VideoTyped
<1>2. Routing(p) /\ Routed(p) /\ UNCHANGED <<agentVars, queue, lost>>
  BY DEF RouteStarted, RouteStopped, RouteInit, RouteFrame, RouteThrottled, past
<1>3. QueuesTyped'
  <2>1. paths' \in [Paths -> Seq(Message)] BY <1>1, <1>2, RoutingIs
  <2> QED BY <1>1, <1>2, <2>1 DEF QueuesTyped
<1>4. Head(paths[p]) \in Message BY <1>1, <1>2, RoutingIs
<1>5. AgentTyped'
  <2>1. scene' \in [kinds : SUBSET FaultKinds, backlog : Nat \ {0}, left : Nat]
    <3>1. scene' = scene \/ Happens("throttle")
      BY DEF RouteStarted, RouteStopped, RouteInit, RouteFrame, RouteThrottled
    <3>2. CASE scene' = scene BY <1>1, <3>2 DEF AgentTyped
    <3>3. CASE Happens("throttle") BY <1>1, <3>3, HappensTyped
    <3> QED BY <3>1, <3>2, <3>3
  <2> QED BY <1>1, <1>2, <2>1 DEF AgentTyped, agentVars
<1>6. Current \in Streams /\ EmptyIfNew \in [Streams -> Nat] BY <1>1, CurrentTyped DEF StreamsTyped, ViewsTyped
<1>7. Head(paths[p]).enc \in Nat BY <1>4 DEF Message
<1>8. StreamsTyped'
  <2>1. CASE RouteStarted(p) BY <1>1, <1>6, <2>1 DEF RouteStarted, StreamsTyped
  <2>2. CASE RouteStopped(p) BY <1>1, <2>2 DEF RouteStopped, StreamsTyped
  <2>3. CASE RouteInit(p)
    <3>1. /\ stream' = Current /\ known' = known
          /\ caches' = [EmptyIfNew EXCEPT ![Current] = Head(paths[p]).enc]
          /\ posted' = [posted EXCEPT ![p] = [ds |-> Current, enc |-> Head(paths[p]).enc]]
      BY <2>3 DEF RouteInit
    <3>2. [ds |-> Current, enc |-> Head(paths[p]).enc] \in [ds : Streams \cup {None}, enc : Nat] BY <1>6, <1>7
    <3>3. posted' \in [Paths -> [ds : Streams \cup {None}, enc : Nat]] BY <1>1, <3>1, <3>2 DEF StreamsTyped
    <3>4. caches' \in [Streams -> Nat] BY <1>6, <1>7, <3>1
    <3> QED BY <1>1, <1>6, <3>1, <3>3, <3>4 DEF StreamsTyped
  <2>4. CASE RouteFrame(p) BY <1>1, <1>6, <2>4 DEF RouteFrame, StreamsTyped
  <2>5. CASE RouteThrottled(p) BY <1>1, <1>6, <2>5 DEF RouteThrottled, StreamsTyped
  <2> QED BY <2>1, <2>2, <2>3, <2>4, <2>5
<1>9. view' \in [Viewers -> ViewSet]
  <2>1. CASE RouteStarted(p) \/ RouteStopped(p) \/ RouteInit(p)
    <3>1. view' = view BY <2>1 DEF RouteStarted, RouteStopped, RouteInit
    <3> QED BY <1>1, <3>1 DEF ViewsTyped
  <2>2. CASE RouteFrame(p)
    <3>1. Head(paths[p]).type \in {"key", "delta"} /\ PushFrag(Current, Head(paths[p]), {}) BY <2>2 DEF RouteFrame
    <3> QED BY <1>1, <1>4, <3>1, PushFragTyped
  <2>3. CASE RouteThrottled(p)
    <3>1. Head(paths[p]).type \in {"key", "delta"} /\ Throttles(p) BY <2>3 DEF RouteThrottled, Throttles
    <3>2. \A v \in Viewers : [Skipped(v) EXCEPT !.key_ok = FALSE] \in ViewSet /\ view[v] \in ViewSet
      BY <1>1, ViewIs DEF Skipped, ViewSet
    <3>3. CASE view' = [v \in Viewers |->
                           IF v \in Audience(Current) THEN [Skipped(v) EXCEPT !.key_ok = FALSE] ELSE view[v]]
      BY <3>2, <3>3
    <3>4. CASE \E starved \in SUBSET Audience(Current) \ {{}} : PushFrag(Current, Head(paths[p]), starved)
      BY <1>1, <1>4, <3>1, <3>4, PushFragTyped
    <3> QED BY <3>1, <3>3, <3>4 DEF Throttles
  <2> QED BY <2>1, <2>2, <2>3
<1>10. ViewsTyped' BY <1>1, <1>2, <1>9 DEF ViewsTyped
<1> QED BY <1>3, <1>5, <1>8, <1>10 DEF VideoTyped

\* What the broadcast of an init makes of a viewer
Told1(v, p) ==
    IF v \notin Audience(posted[p].ds) THEN view[v]
    ELSE IF Full(v) THEN [view[v] EXCEPT !.drops = view[v].drops + 1, !.in = view[v].drops + 1 < MaxDrops]
    ELSE [view[v] EXCEPT !.drops = 0,
            !.chan = Append(view[v].chan, Whole("init", posted[p].enc))]

LEMMA BroadcastMoves ==
    ASSUME NEW p, BroadcastInit(p) PROVE view' = [v \in Viewers |-> Told1(v, p)]
BY Zenon DEF BroadcastInit, Told1

LEMMA BroadcastTyped == ASSUME VideoTyped, NEW p \in Paths, BroadcastInit(p) PROVE VideoTyped'
<1>1. AgentTyped /\ QueuesTyped /\ StreamsTyped /\ ViewsTyped BY DEF VideoTyped
<1>2. /\ UNCHANGED <<scene, agentVars, queue, paths, stream, caches, known>>
      /\ posted' = [posted EXCEPT ![p] = [ds |-> None, enc |-> None]]
      /\ lost' = (lost \/ \E v \in Audience(posted[p].ds) : Full(v))
  BY DEF BroadcastInit
<1>3. AgentTyped' /\ QueuesTyped' BY <1>1, <1>2, AgentSame, QueuesSame
<1>4. StreamsTyped'
  <2>1. [ds |-> None, enc |-> None] \in [ds : Streams \cup {None}, enc : Nat] BY DEF None
  <2> QED BY <1>1, <1>2, <2>1 DEF StreamsTyped
<1>5. posted[p].enc \in Nat BY <1>1 DEF StreamsTyped
<1>6. ASSUME NEW v \in Viewers PROVE Told1(v, p) \in ViewSet
  <2>1. view[v] \in ViewSet /\ view[v].drops \in Nat /\ view[v].chan \in Seq(Frame) BY <1>1, ViewIs
  <2>2. view[v].drops + 1 \in Nat /\ (view[v].drops + 1 < MaxDrops) \in BOOLEAN BY <2>1, MaxDropsIs
  <2> DEFINE f == Whole("init", posted[p].enc)
             c == Append(view[v].chan, f)
  <2>3. f \in Frame BY <1>5 DEF Frame, Whole
  <2>4. c \in Seq(Frame) BY <2>1, <2>3
  <2> HIDE DEF f
  <2>5. [view[v] EXCEPT !.drops = view[v].drops + 1, !.in = view[v].drops + 1 < MaxDrops] \in ViewSet
    BY <2>1, <2>2 DEF ViewSet
  <2> HIDE DEF c
  <2>6. [view[v] EXCEPT !.drops = 0, !.chan = c] \in ViewSet BY <2>1, <2>4 DEF ViewSet
  <2> QED BY <2>1, <2>5, <2>6 DEF Told1, c, f
<1>7. view' \in [Viewers -> ViewSet] BY <1>6, BroadcastMoves
<1>8. ViewsTyped'
  <2>1. lost' \in BOOLEAN BY <1>1, <1>2 DEF ViewsTyped
  <2> QED BY <1>7, <2>1 DEF ViewsTyped
<1> QED BY <1>3, <1>4, <1>8 DEF VideoTyped

LEMMA EndsTyped == ASSUME VideoTyped, Revoke \/ CleanUp PROVE VideoTyped'
<1>1. AgentTyped /\ QueuesTyped /\ StreamsTyped /\ ViewsTyped BY DEF VideoTyped
<1>2. /\ UNCHANGED <<running, cmd, want, task, loops, encs, queue, paths, caches, posted, view, lost>>
      /\ stream' = None /\ known' = FALSE /\ link' \in {link, "cleaned"}
  BY DEF Revoke, CleanUp, agentVars, past
<1>3. scene' \in [kinds : SUBSET FaultKinds, backlog : Nat \ {0}, left : Nat]
  <2>1. scene' = scene \/ Happens("revoke") BY DEF Revoke, CleanUp
  <2>2. CASE scene' = scene BY <1>1, <2>2 DEF AgentTyped
  <2>3. CASE Happens("revoke") BY <1>1, <2>3, HappensTyped
  <2> QED BY <2>1, <2>2, <2>3
<1>4. AgentTyped' BY <1>1, <1>2, <1>3 DEF AgentTyped
<1>5. StreamsTyped' BY <1>1, <1>2 DEF StreamsTyped
<1> QED BY <1>1, <1>2, <1>4, <1>5, QueuesSame, ViewsSame DEF VideoTyped

LEMMA SetViewTyped ==
    ASSUME VideoTyped, NEW v \in Viewers, NEW r \in ViewSet, SetView(v, r) PROVE VideoTyped'
<1>1. AgentTyped /\ QueuesTyped /\ StreamsTyped /\ ViewsTyped BY DEF VideoTyped
<1>2. view' = [view EXCEPT ![v] = r] /\ UNCHANGED <<scene, agentVars, queue, paths, relayVars, lost>> BY DEF SetView, past
<1>3. ViewsTyped' BY <1>1, <1>2 DEF ViewsTyped
<1> QED BY <1>1, <1>2, <1>3, AgentSame, QueuesSame, StreamsSame DEF VideoTyped

\* What a viewer's step makes of it
Viewed(v, r) ==
    \/ view[v].pc = "away" /\ stream # None /\ r = [Away EXCEPT !.pc = "joined", !.ds = stream, !.in = TRUE]
    \/ view[v].pc = "joined" /\ r = [view[v] EXCEPT !.sees = caches[view[v].ds],
                                        !.pc = IF caches[view[v].ds] = None THEN "waiting" ELSE "watching"]
    \/ /\ view[v].pc = "waiting" /\ caches[view[v].ds] # None
       /\ r = [view[v] EXCEPT !.pc = "watching", !.sees = caches[view[v].ds]]
    \/ r = Away
    \/ /\ view[v].pc = "watching" /\ view[v].chan # <<>>
       /\ r = [view[v] EXCEPT !.chan = Tail(view[v].chan),
                              !.sees = IF Next1(v).type = "init" THEN Next1(v).enc ELSE view[v].sees]

LEMMA ViewerMoves == ASSUME NEW v, Viewer(v) PROVE \E r : SetView(v, r) /\ Viewed(v, r)
<1>1. CASE Join(v) BY <1>1, Zenon DEF Join, Viewed
<1>2. CASE ReadInit(v) BY <1>2, Zenon DEF ReadInit, Viewed
<1>3. CASE InitArrives(v) BY <1>3, Zenon DEF InitArrives, Viewed
<1>4. CASE InitTimeout(v) \/ BadFrame(v) \/ StreamEnds(v) BY <1>4, Zenon DEF InitTimeout, BadFrame, StreamEnds, Viewed
<1>5. CASE Show(v) BY <1>5, Zenon DEF Show, Viewed
<1>6. CASE Garbles(v)
  <2> DEFINE t == Tail(view[v].chan)
             r == [view[v] EXCEPT !.chan = t]
  <2>1. SetView(v, r) /\ view[v].pc = "watching" /\ view[v].chan # <<>> /\ Next1(v).type # "init"
    BY <1>6 DEF Garbles, Decodes
  <2>2. \A w, c : [w EXCEPT !.chan = c] = [w EXCEPT !.chan = c, !.sees = w.sees] OBVIOUS
  <2>3. r = [view[v] EXCEPT !.chan = t, !.sees = IF Next1(v).type = "init" THEN Next1(v).enc ELSE view[v].sees]
    BY <2>1, <2>2
  <2> QED BY <2>1, <2>3, Zenon DEF Viewed
<1> QED BY <1>1, <1>2, <1>3, <1>4, <1>5, <1>6 DEF Viewer

\* A viewer that is not away has a stream.
Placed == \A v \in Viewers : view[v].pc # "away" => view[v].ds # None

LEMMA ViewedTyped ==
    ASSUME VideoTyped, NEW v \in Viewers, view[v].pc # "away" => view[v].ds # None, NEW r, Viewed(v, r)
    PROVE  r \in ViewSet /\ (r.pc # "away" => r.ds # None)
<1>1. StreamsTyped /\ ViewsTyped BY DEF VideoTyped
<1>2. /\ view[v] \in ViewSet /\ view[v].chan \in Seq(Frame) /\ view[v].ds \in Streams \cup {None}
      /\ view[v].sees \in Nat
  BY <1>1, ViewIs
<1>3. Away \in ViewSet /\ Away.pc = "away"
  <2>1. <<>> \in Seq(Frame) OBVIOUS
  <2> QED BY <2>1 DEF Away, ViewSet, None
<1>4. view[v].pc # "away" => caches[view[v].ds] \in Nat BY <1>1, <1>2 DEF StreamsTyped
<1>5. CASE stream # None /\ r = [Away EXCEPT !.pc = "joined", !.ds = stream, !.in = TRUE]
  <2>1. stream \in Streams BY <1>1, <1>5 DEF StreamsTyped
  <2> QED BY <1>3, <1>5, <2>1 DEF ViewSet
<1>6. CASE view[v].pc = "joined" /\ r = [view[v] EXCEPT !.sees = caches[view[v].ds],
                                           !.pc = IF caches[view[v].ds] = None THEN "waiting" ELSE "watching"]
  BY <1>2, <1>4, <1>6 DEF ViewSet
<1>7. CASE /\ view[v].pc = "waiting" /\ caches[view[v].ds] # None
           /\ r = [view[v] EXCEPT !.pc = "watching", !.sees = caches[view[v].ds]]
  BY <1>2, <1>4, <1>7 DEF ViewSet
<1>8. CASE /\ view[v].pc = "watching" /\ view[v].chan # <<>>
           /\ r = [view[v] EXCEPT !.chan = Tail(view[v].chan),
                                  !.sees = IF Next1(v).type = "init" THEN Next1(v).enc ELSE view[v].sees]
  <2> DEFINE c == Tail(view[v].chan)
             h == Head(view[v].chan)
             e == IF h.type = "init" THEN h.enc ELSE view[v].sees
  <2>1. c \in Seq(Frame) /\ h \in Frame BY <1>2, <1>8, TailTyped
  <2>2. e \in Nat BY <1>2, <2>1 DEF Frame
  <2>3. r = [view[v] EXCEPT !.chan = c, !.sees = e] BY <1>8 DEF Next1
  <2> HIDE DEF c, e
  <2> QED BY <1>2, <1>8, <2>1, <2>2, <2>3 DEF ViewSet
<1> QED BY <1>3, <1>5, <1>6, <1>7, <1>8 DEF Viewed

\* Who watches stays where it is, but for its own steps.
LEMMA PlacesKept ==
    ASSUME ViewsTyped, Placed,
           \A v \in Viewers : view'[v].pc = view[v].pc /\ view'[v].ds = view[v].ds
    PROVE  Placed'
BY DEF Placed

LEMMA PushedPlace ==
    ASSUME ViewsTyped, NEW v \in Viewers, NEW m, NEW starved
    PROVE  Pushed(v, m, starved).pc = view[v].pc /\ Pushed(v, m, starved).ds = view[v].ds
<1>1. view[v] \in ViewSet BY ViewIs
<1>2. Skipped(v).pc = view[v].pc /\ Skipped(v).ds = view[v].ds /\ Skipped(v) \in ViewSet BY <1>1 DEF Skipped, ViewSet
<1>3. [Skipped(v) EXCEPT !.key_ok = FALSE].pc = view[v].pc /\ [Skipped(v) EXCEPT !.key_ok = FALSE].ds = view[v].ds
  BY <1>2 DEF ViewSet
<1>4. Dropped(v).pc = view[v].pc /\ Dropped(v).ds = view[v].ds BY <1>1 DEF Dropped, ViewSet
<1> DEFINE c == Append(view[v].chan, [type |-> m.type, enc |-> m.enc, cut |-> m.cut, torn |-> m.type = "delta" /\ view[v].missed])
           s == m.type = "delta" /\ view[v].missed
           r == [view[v] EXCEPT !.chan = c, !.key_ok = TRUE, !.drops = 0, !.missed = s]
<1>5. r.pc = view[v].pc /\ r.ds = view[v].ds
  <2> HIDE DEF c, s
  <2> QED BY <1>1 DEF ViewSet
<1>6. Pushed(v, m, starved) \in {Dropped(v), Skipped(v), [Skipped(v) EXCEPT !.key_ok = FALSE], r} BY DEF Pushed
<1> QED BY <1>2, <1>3, <1>4, <1>5, <1>6

LEMMA FramePlaces ==
    ASSUME ViewsTyped, NEW p \in Paths, RouteFrame(p) \/ RouteThrottled(p), NEW v \in Viewers
    PROVE  view'[v].pc = view[v].pc /\ view'[v].ds = view[v].ds
<1>1. CASE \E m, s, starved : PushFrag(s, m, starved) BY <1>1, PushedPlace DEF PushFrag
<1>2. CASE view' = [w \in Viewers |->
                       IF w \in Audience(Current) THEN [Skipped(w) EXCEPT !.key_ok = FALSE] ELSE view[w]]
  <2>1. view[v] \in ViewSet BY ViewIs
  <2>2. Skipped(v).pc = view[v].pc /\ Skipped(v).ds = view[v].ds /\ Skipped(v) \in ViewSet BY <2>1 DEF Skipped, ViewSet
  <2>3. [Skipped(v) EXCEPT !.key_ok = FALSE].pc = view[v].pc /\ [Skipped(v) EXCEPT !.key_ok = FALSE].ds = view[v].ds
    BY <2>2 DEF ViewSet
  <2> QED BY <1>2, <2>3
<1> QED BY <1>1, <1>2 DEF RouteFrame, RouteThrottled

LEMMA BroadcastPlaces ==
    ASSUME ViewsTyped, NEW p, BroadcastInit(p), NEW v \in Viewers
    PROVE  view'[v].pc = view[v].pc /\ view'[v].ds = view[v].ds
<1>1. view[v] \in ViewSet BY ViewIs
<1>2. view'[v] = Told1(v, p) BY BroadcastMoves
<1> DEFINE c == Append(view[v].chan, Whole("init", posted[p].enc))
           i == view[v].drops + 1 < MaxDrops
<1>3. Told1(v, p) \in {view[v], [view[v] EXCEPT !.drops = view[v].drops + 1, !.in = i], [view[v] EXCEPT !.drops = 0, !.chan = c]}
  BY DEF Told1
<1> HIDE DEF c, i
<1>4. [view[v] EXCEPT !.drops = view[v].drops + 1, !.in = i].pc = view[v].pc
      /\ [view[v] EXCEPT !.drops = view[v].drops + 1, !.in = i].ds = view[v].ds
  BY <1>1 DEF ViewSet
<1>5. [view[v] EXCEPT !.drops = 0, !.chan = c].pc = view[v].pc /\ [view[v] EXCEPT !.drops = 0, !.chan = c].ds = view[v].ds
  BY <1>1 DEF ViewSet
<1> QED BY <1>2, <1>3, <1>4, <1>5

LEMMA SetViewPlaces ==
    ASSUME ViewsTyped, Placed, NEW v \in Viewers, NEW r, SetView(v, r), r.pc # "away" => r.ds # None
    PROVE  Placed'
BY DEF SetView, Placed, ViewsTyped

\* The steps that are not the viewers'
Unseen ==
    \/ Commands \/ StopDone \/ StopTimeout \/ Reconnect
    \/ \E l \in Loops : Open(l) \/ OpenFails(l) \/ Exit(l) \/ CaptureFails(l) \/ KeyFrame(l) \/ Delta(l) \/ Rebuild(l)
    \/ Send \/ SendBreaks
    \/ \E p \in Paths : RouteStarted(p) \/ RouteStopped(p) \/ RouteInit(p)
    \/ Revoke \/ CleanUp

LEMMA NextIs ==
    Next <=> \/ Unseen
             \/ \E p \in Paths : RouteFrame(p) \/ RouteThrottled(p) \/ BroadcastInit(p)
             \/ \E v \in Viewers : Viewer(v)
BY Zenon DEF Next, Unseen, Command, Pipeline, Mishap, Route

LEMMA UnseenSees == ASSUME Unseen PROVE view' = view
<1>1. CASE Commands BY <1>1 DEF Commands, StartCmd, StopCmd, RestartCmd, SessionEnds
<1>2. CASE StopDone \/ StopTimeout BY <1>2 DEF StopDone, StopTimeout, Stopped
<1>3. CASE Reconnect BY <1>3 DEF Reconnect
<1>4. CASE \E l \in Loops : Open(l) \/ OpenFails(l) \/ Exit(l) \/ CaptureFails(l) \/ KeyFrame(l) \/ Delta(l) \/ Rebuild(l)
  BY <1>4 DEF Open, OpenFails, Exit, CaptureFails, KeyFrame, Delta, Rebuild
<1>5. CASE Send \/ SendBreaks BY <1>5, RoundsLeave
<1>6. CASE \E p \in Paths : RouteStarted(p) \/ RouteStopped(p) \/ RouteInit(p)
  BY <1>6 DEF RouteStarted, RouteStopped, RouteInit
<1>7. CASE Revoke \/ CleanUp BY <1>7 DEF Revoke, CleanUp
<1> QED BY <1>1, <1>2, <1>3, <1>4, <1>5, <1>6, <1>7 DEF Unseen

Seated == VideoTyped /\ Placed

LEMMA NextSeated == ASSUME Seated, [Next]_vars PROVE Seated'
<1>1. VideoTyped /\ Placed /\ ViewsTyped BY DEF Seated, VideoTyped
<1>2. CASE Unseen
  <2>1. view' = view BY <1>2, UnseenSees
  <2>2. Placed' BY <1>1, <2>1 DEF Placed
  <2>3. VideoTyped'
    BY <1>1, <1>2, CommandsTyped, StopsTyped, ReconnectTyped, OpensTyped, FramesTyped, RoundsTyped, RoutesTyped, EndsTyped
    DEF Unseen
  <2> QED BY <2>2, <2>3 DEF Seated
<1>3. ASSUME NEW p \in Paths, RouteFrame(p) \/ RouteThrottled(p) PROVE Seated'
  <2>1. VideoTyped' BY <1>1, <1>3, RoutesTyped
  <2>2. \A v \in Viewers : view'[v].pc = view[v].pc /\ view'[v].ds = view[v].ds BY <1>1, <1>3, FramePlaces
  <2> QED BY <1>1, <2>1, <2>2, PlacesKept DEF Seated
<1>4. ASSUME NEW p \in Paths, BroadcastInit(p) PROVE Seated'
  <2>1. VideoTyped' BY <1>1, <1>4, BroadcastTyped
  <2>2. \A v \in Viewers : view'[v].pc = view[v].pc /\ view'[v].ds = view[v].ds BY <1>1, <1>4, BroadcastPlaces
  <2> QED BY <1>1, <2>1, <2>2, PlacesKept DEF Seated
<1>5. ASSUME NEW v \in Viewers, Viewer(v) PROVE Seated'
  <2>1. PICK r : SetView(v, r) /\ Viewed(v, r) BY <1>5, ViewerMoves
  <2>2. r \in ViewSet /\ (r.pc # "away" => r.ds # None) BY <1>1, <2>1, ViewedTyped DEF Placed
  <2> QED BY <1>1, <2>1, <2>2, SetViewTyped, SetViewPlaces DEF Seated
<1>6. CASE UNCHANGED vars
  <2>1. UNCHANGED <<scene, agentVars, queue, paths, relayVars, view, lost>> BY <1>6 DEF vars, past
  <2>2. VideoTyped' BY <1>1, <2>1, AgentSame, QueuesSame, StreamsSame, ViewsSame DEF VideoTyped
  <2> QED BY <1>1, <2>1, <2>2 DEF Seated, Placed
<1> QED BY <1>2, <1>3, <1>4, <1>5, <1>6, NextIs

LEMMA InitSeated == Init => Seated
<1>1. ASSUME Init PROVE Placed BY <1>1 DEF Init, Placed, Away
<1> QED BY <1>1, InitVideo DEF Seated

\* What the variables of the picture hold, in every step of the agent, the relay
\* and the viewers; who watches has a stream (desktop.rs, add_viewer).
THEOREM PictureTyped == Spec => []Seated
<1>1. Init => Seated BY InitSeated
<1>2. Seated /\ [Next]_vars => Seated' BY NextSeated
<1> QED BY <1>1, <1>2, PTL DEF Spec

-----------------------------------------------------------------------------
(* The gate: who missed a frame gets none until the next key.              *)
Gate(r) == (r.key_ok => ~r.missed) /\ \A i \in DOMAIN r.chan : ~r.chan[i].torn
Gated == \A v \in Viewers : Gate(view[v])

LEMMA AppendIs ==
    ASSUME NEW S, NEW q \in Seq(S), NEW m
    PROVE  /\ Len(q) \in Nat /\ DOMAIN q = 1 .. Len(q) /\ DOMAIN Append(q, m) = 1 .. (Len(q) + 1)
           /\ Append(q, m)[Len(q) + 1] = m /\ \A i \in 1 .. Len(q) : Append(q, m)[i] = q[i]
           /\ \A i \in DOMAIN Append(q, m) : i \in DOMAIN q \/ i = Len(q) + 1
           /\ Len(Append(q, m)) = Len(q) + 1
<1>1. Len(q) \in Nat /\ DOMAIN q = 1 .. Len(q) OBVIOUS
<1>2. DOMAIN Append(q, m) = 1 .. (Len(q) + 1) /\ Append(q, m)[Len(q) + 1] = m
      /\ \A i \in 1 .. Len(q) : Append(q, m)[i] = q[i]
      /\ Len(Append(q, m)) = Len(q) + 1
  BY <1>1
<1>3. \A i \in 1 .. (Len(q) + 1) : i \in 1 .. Len(q) \/ i = Len(q) + 1 BY <1>1
<1> QED BY <1>1, <1>2, <1>3

LEMMA AppendWhole ==
    ASSUME NEW q \in Seq(Frame), \A i \in DOMAIN q : ~q[i].torn, NEW m, ~m.torn
    PROVE  \A i \in DOMAIN Append(q, m) : ~Append(q, m)[i].torn
BY AppendIs

LEMMA PushedGate ==
    ASSUME ViewsTyped, NEW v \in Viewers, Gate(view[v]), NEW m \in Message, m.type \in {"key", "delta"}, NEW starved
    PROVE  Gate(Pushed(v, m, starved))
<1>1. view[v] \in ViewSet /\ view[v].chan \in Seq(Frame) /\ view[v].key_ok \in BOOLEAN /\ view[v].missed \in BOOLEAN
  BY ViewIs
<1>2. Dropped(v).key_ok = FALSE /\ Dropped(v).chan = view[v].chan BY <1>1 DEF Dropped, ViewSet
<1>3. Skipped(v) \in ViewSet /\ Skipped(v).key_ok = view[v].key_ok /\ Skipped(v).chan = view[v].chan
  BY <1>1 DEF Skipped, ViewSet
<1>4. LET r == [Skipped(v) EXCEPT !.key_ok = FALSE] IN r.key_ok = FALSE /\ r.chan = view[v].chan BY <1>3 DEF ViewSet
<1>5. CASE ~view[v].key_ok /\ m.type = "delta"
  <2>1. Pushed(v, m, starved) \in {Dropped(v), Skipped(v)} BY <1>5 DEF Pushed
  <2> QED BY <1>2, <1>3, <1>5, <2>1 DEF Gate
<1>6. CASE ~(~view[v].key_ok /\ m.type = "delta") /\ (v \in starved \/ Full(v))
  <2>1. Pushed(v, m, starved) \in {Dropped(v), [Skipped(v) EXCEPT !.key_ok = FALSE]} BY <1>6 DEF Pushed
  <2> QED BY <1>2, <1>4, <2>1 DEF Gate
<1>7. CASE ~(~view[v].key_ok /\ m.type = "delta") /\ ~(v \in starved \/ Full(v))
  <2> DEFINE s == m.type = "delta" /\ view[v].missed
             f == [type |-> m.type, enc |-> m.enc, cut |-> m.cut, torn |-> s]
             c == Append(view[v].chan, f)
             r == [view[v] EXCEPT !.chan = c, !.key_ok = TRUE, !.drops = 0, !.missed = s]
  <2>1. ~s BY <1>1, <1>7 DEF Gate
  <2>2. \A i \in DOMAIN c : ~c[i].torn
    <3>1. ~f.torn BY <2>1
    <3> HIDE DEF f
    <3> QED BY <1>1, <3>1, AppendWhole DEF Gate
  <2>3. Pushed(v, m, starved) = r BY <1>7 DEF Pushed
  <2>4. r.missed = s /\ r.chan = c
    <3> HIDE DEF c, s
    <3> QED BY <1>1 DEF ViewSet
  <2> QED BY <2>1, <2>2, <2>3, <2>4 DEF Gate
<1> QED BY <1>5, <1>6, <1>7

LEMMA FrameGate ==
    ASSUME VideoTyped, Gated, NEW p \in Paths, RouteFrame(p) \/ RouteThrottled(p) PROVE Gated'
<1>1. ViewsTyped /\ QueuesTyped BY DEF VideoTyped
<1> DEFINE m == Head(paths[p])
<1>2. m \in Message /\ m.type \in {"key", "delta"}
  <2>1. Routing(p) /\ Routed(p) /\ m.type \in {"key", "delta"} BY DEF RouteFrame, RouteThrottled
  <2> QED BY <1>1, <2>1, RoutingIs
<1> HIDE DEF m
<1>3. CASE \E s, starved : PushFrag(s, m, starved)
  BY <1>1, <1>2, <1>3, PushedGate DEF PushFrag, Gated
<1>4. CASE view' = [w \in Viewers |->
                       IF w \in Audience(Current) THEN [Skipped(w) EXCEPT !.key_ok = FALSE] ELSE view[w]]
  <2>1. ASSUME NEW v \in Viewers PROVE Gate(view'[v])
    <3>1. view[v] \in ViewSet BY <1>1, ViewIs
    <3>2. Skipped(v) \in ViewSet /\ Skipped(v).chan = view[v].chan BY <3>1 DEF Skipped, ViewSet
    <3>3. LET r == [Skipped(v) EXCEPT !.key_ok = FALSE] IN r.key_ok = FALSE /\ r.chan = view[v].chan BY <3>2 DEF ViewSet
    <3> QED BY <1>4, <3>3 DEF Gated, Gate
  <2> QED BY <2>1 DEF Gated
<1> QED BY <1>3, <1>4 DEF RouteFrame, RouteThrottled, m

LEMMA BroadcastGate == ASSUME VideoTyped, Gated, NEW p \in Paths, BroadcastInit(p) PROVE Gated'
<1> SUFFICES ASSUME NEW v \in Viewers PROVE Gate(view'[v]) BY DEF Gated
<1>1. view[v] \in ViewSet /\ view[v].chan \in Seq(Frame) /\ Gate(view[v]) BY ViewIs DEF VideoTyped, Gated
<1> DEFINE f == Whole("init", posted[p].enc)
           c == Append(view[v].chan, f)
           i == view[v].drops + 1 < MaxDrops
           d == view[v].drops + 1
<1>2. view'[v] \in {view[v], [view[v] EXCEPT !.drops = d, !.in = i], [view[v] EXCEPT !.drops = 0, !.chan = c]}
  <2>1. view'[v] = Told1(v, p) BY BroadcastMoves
  <2>2. Told1(v, p) \in {view[v], [view[v] EXCEPT !.drops = d, !.in = i], [view[v] EXCEPT !.drops = 0, !.chan = c]}
    BY DEF Told1
  <2> QED BY <2>1, <2>2
<1>3. \A k \in DOMAIN c : ~c[k].torn
  <2>1. ~f.torn BY DEF Whole
  <2> HIDE DEF f
  <2> QED BY <1>1, <2>1, AppendWhole DEF Gate
<1> HIDE DEF c, i, d
<1> QED BY <1>1, <1>2, <1>3 DEF ViewSet, Gate

LEMMA ViewerGate == ASSUME Seated, Gated, NEW v \in Viewers, Viewer(v) PROVE Gated'
<1>1. PICK r : SetView(v, r) /\ Viewed(v, r) BY ViewerMoves
<1>2. view[v] \in ViewSet /\ view[v].chan \in Seq(Frame) /\ Gate(view[v]) BY ViewIs DEF Seated, VideoTyped, Gated
<1>3. Away.key_ok = FALSE /\ Away.chan = <<>> BY DEF Away
<1>4. Gate(r)
  <2>1. CASE r = [Away EXCEPT !.pc = "joined", !.ds = stream, !.in = TRUE] \/ r = Away
    <3>1. [Away EXCEPT !.pc = "joined", !.ds = stream, !.in = TRUE].key_ok = FALSE
          /\ [Away EXCEPT !.pc = "joined", !.ds = stream, !.in = TRUE].chan = <<>>
      BY DEF Away
    <3>2. r.key_ok = FALSE /\ r.chan = <<>> BY <1>3, <2>1, <3>1
    <3> QED BY <3>2 DEF Gate
  <2>2. CASE r.chan = view[v].chan /\ r.key_ok = view[v].key_ok /\ r.missed = view[v].missed BY <1>2, <2>2 DEF Gate
  <2>3. CASE /\ view[v].chan # <<>> /\ r.chan = Tail(view[v].chan)
             /\ r.key_ok = view[v].key_ok /\ r.missed = view[v].missed
    <3> DEFINE q == view[v].chan
    <3>1. Len(q) \in Nat /\ DOMAIN q = 1 .. Len(q) /\ DOMAIN Tail(q) = 1 .. (Len(q) - 1)
          /\ \A i \in 1 .. (Len(q) - 1) : Tail(q)[i] = q[i + 1] /\ i + 1 \in 1 .. Len(q)
      BY <1>2, <2>3
    <3> HIDE DEF q
    <3>2. \A i \in DOMAIN Tail(q) : ~Tail(q)[i].torn BY <1>2, <3>1 DEF Gate, q
    <3> QED BY <1>2, <2>3, <3>2 DEF Gate, q
  <2>4. \/ r = [Away EXCEPT !.pc = "joined", !.ds = stream, !.in = TRUE] \/ r = Away
        \/ \E e, s : r = [view[v] EXCEPT !.sees = e, !.pc = s]
        \/ \E e, s : r = [view[v] EXCEPT !.pc = s, !.sees = e]
        \/ view[v].chan # <<>> /\ \E e : r = [view[v] EXCEPT !.chan = Tail(view[v].chan), !.sees = e]
    BY <1>1 DEF Viewed
  <2>5. ASSUME NEW e, NEW s, r = [view[v] EXCEPT !.sees = e, !.pc = s] \/ r = [view[v] EXCEPT !.pc = s, !.sees = e]
        PROVE  r.chan = view[v].chan /\ r.key_ok = view[v].key_ok /\ r.missed = view[v].missed
    BY <1>2, <2>5 DEF ViewSet
  <2>6. ASSUME NEW e, r = [view[v] EXCEPT !.chan = Tail(view[v].chan), !.sees = e]
        PROVE  r.chan = Tail(view[v].chan) /\ r.key_ok = view[v].key_ok /\ r.missed = view[v].missed
    BY <1>2, <2>6 DEF ViewSet
  <2> QED BY <2>1, <2>2, <2>3, <2>4, <2>5, <2>6
<1> QED BY <1>1, <1>4 DEF SetView, Gated, Seated, VideoTyped, ViewsTyped

LEMMA NextGated == ASSUME Seated, Gated, [Next]_vars PROVE Gated'
<1>1. VideoTyped BY DEF Seated
<1>2. CASE Unseen BY <1>2, UnseenSees DEF Gated
<1>3. CASE UNCHANGED vars BY <1>3 DEF vars, Gated
<1> QED BY <1>1, <1>2, <1>3, FrameGate, BroadcastGate, ViewerGate, NextIs

\* A delta is never queued for a viewer that the relay did not send every frame
\* since its last key (desktop.rs, push_frag, invalidate_keys); of what the
\* agent's uplink has lost before, the relay knows nothing, and so does this.
\* Gated, the invariant: the key gate of who missed a frame is closed.
THEOREM NoTornDelta == Spec => []ChainUnbroken
<1>1. Init => Seated /\ Gated BY InitSeated DEF Init, Gated, Gate, Away
<1>2. Seated /\ Gated /\ [Next]_vars => (Seated /\ Gated)' BY NextSeated, NextGated
<1>3. Gated => ChainUnbroken BY DEF Gated, Gate, ChainUnbroken
<1> QED BY <1>1, <1>2, <1>3, PTL DEF Spec

-----------------------------------------------------------------------------
(* The snapshot: what is announced, once all of it has arrived.            *)
Pending == paths["ws"] \o queue
Verdict(k, s) == IF s = <<>> THEN k ELSE s[Len(s)].type = "started"
Final == Verdict(known, Sifted(Pending, Control))
Quiet == scene.kinds \cap {"ws", "capture", "revoke", "late"} = {}
Opening == \E l \in Loops : loops[l].pc = "opening"
Working == \E l \in Loops : loops[l].pc = "capturing"

\* A command that is being executed has stopped the desktop; the end of the
\* session is one.
Orders ==
    /\ cmd \in {"stopping", "restarting", "leaving", "left"} => ~running
    /\ link # "up" => cmd \in {"leaving", "left"}
\* Nothing goes by another way than the socket.
OneWay == scene.kinds \cap {"ws", "late"} = {} => paths["http"] = <<>> /\ paths["old"] = <<>>
Announced ==
    Quiet => /\ running /\ Working /\ ~Opening => Final
             /\ ~Working /\ ~Opening => ~Final

LEMMA ControlSum ==
    ASSUME NEW a \in Seq(Message), NEW b \in Seq(Message)
    PROVE  Sifted(a \o b, Control) = Sifted(a, Control) \o Sifted(b, Control)
BY SiftedConcat

LEMMA VerdictAppend ==
    ASSUME NEW S, NEW s \in Seq(S), NEW m, NEW k PROVE Verdict(k, Append(s, m)) = (m.type = "started")
<1>1. Len(Append(s, m)) = Len(s) + 1 /\ Append(s, m)[Len(s) + 1] = m BY AppendIs
<1>2. Append(s, m) # <<>>
  <2>1. Len(s) + 1 # 0 /\ Len(<<>>) = 0 BY AppendIs
  <2> QED BY <1>1, <2>1
<1> QED BY <1>1, <1>2 DEF Verdict

LEMMA HeadTail ==
    ASSUME NEW S, NEW q \in Seq(S), q # <<>>
    PROVE  Head(q) \in S /\ Tail(q) \in Seq(S) /\ <<Head(q)>> \in Seq(S) /\ q = <<Head(q)>> \o Tail(q)
<1> DEFINE n == Len(q)
           t == Tail(q)
           c == <<Head(q)>> \o t
<1>1. n \in Nat /\ n >= 1 /\ Head(q) \in S /\ t \in Seq(S) /\ Len(t) = n - 1 /\ \A i \in 1 .. (n - 1) : t[i] = q[i + 1]
  BY SMTT(30)
<1>2. <<Head(q)>> \in Seq(S) /\ Len(<<Head(q)>>) = 1 /\ <<Head(q)>>[1] = q[1] BY <1>1
<1> DEFINE h == <<Head(q)>>
<1>3. c \in Seq(S) BY <1>1, <1>2, ConcatProperties
<1>4. Len(h) = 1 /\ h[1] = q[1] /\ h \in Seq(S) BY <1>2
<1> HIDE DEF h
<1>5. Len(h \o t) = 1 + (n - 1) /\ \A i \in 1 .. Len(h) + Len(t) : (h \o t)[i] = IF i <= Len(h) THEN h[i] ELSE t[i - Len(h)]
  <2>1. h \in Seq(S) /\ t \in Seq(S) BY <1>1, <1>4
  <2>2. Len(h) = 1 /\ Len(t) = n - 1 BY <1>1, <1>4
  <2> HIDE DEF t, n
  <2>3. /\ Len(h \o t) = Len(h) + Len(t)
        /\ \A i \in 1 .. Len(h) + Len(t) : (h \o t)[i] = IF i <= Len(h) THEN h[i] ELSE t[i - Len(h)]
    BY ONLY <2>1, ConcatProperties
  <2> QED BY <2>2, <2>3
<1>6. Len(h \o t) = n BY <1>1, <1>5
<1>7. \A i \in 1 .. n : (h \o t)[i] = q[i]
  <2> SUFFICES ASSUME NEW i \in 1 .. n PROVE (h \o t)[i] = q[i] OBVIOUS
  <2>1. (h \o t)[i] = IF i <= 1 THEN h[i] ELSE t[i - 1]
    <3>1. i \in 1 .. 1 + (n - 1) BY <1>1
    <3> QED BY <1>1, <1>4, <1>5, <3>1
  <2>2. CASE i = 1 BY <1>4, <2>1, <2>2
  <2>3. CASE i # 1
    <3>1. ~(i <= 1) /\ i - 1 \in 1 .. (n - 1) /\ (i - 1) + 1 = i BY <1>1, <2>3
    <3> QED BY <1>1, <2>1, <3>1
  <2> QED BY <2>2, <2>3
<1>8. q = h \o t
  <2>1. h \o t \in Seq(S) BY <1>1, <1>4, ConcatProperties
  <2> QED BY <1>6, <1>7, <2>1, SeqEqual
<1> QED BY <1>1, <1>4, <1>8 DEF h

LEMMA VerdictFirst ==
    ASSUME NEW S, NEW s \in Seq(S), NEW m \in S, NEW k
    PROVE  Verdict(k, <<m>> \o s) = Verdict(m.type = "started", s)
<1> DEFINE h == <<m>>
           c == h \o s
           n == Len(s)
<1>1. h \in Seq(S) /\ Len(h) = 1 /\ h[1] = m /\ n \in Nat OBVIOUS
<1> HIDE DEF h
<1>2. Len(c) = 1 + n /\ \A i \in 1 .. 1 + n : c[i] = IF i <= 1 THEN h[i] ELSE s[i - 1]
  <2>1. /\ Len(h \o s) = Len(h) + Len(s)
        /\ \A i \in 1 .. Len(h) + Len(s) : (h \o s)[i] = IF i <= Len(h) THEN h[i] ELSE s[i - Len(h)]
    BY <1>1, ConcatProperties
  <2> QED BY <1>1, <2>1
<1>3. c # <<>>
  <2>1. Len(<<>>) = 0 /\ 1 + n # 0 BY <1>1
  <2> QED BY <1>2, <2>1
<1>4. n = 0 <=> s = <<>> OBVIOUS
<1> HIDE DEF n, c
<1>5. CASE n = 0
  <2>1. Len(c) = 1 /\ c[1] = m BY <1>1, <1>2, <1>5
  <2> QED BY <1>3, <1>4, <1>5, <2>1 DEF Verdict, c, h
<1>6. CASE n # 0
  <2>1. 1 + n \in 1 .. 1 + n /\ ~(1 + n <= 1) /\ (1 + n) - 1 = n BY <1>1, <1>6
  <2>2. c[Len(c)] = s[n] BY <1>2, <2>1
  <2> QED BY <1>3, <1>4, <1>6, <2>2 DEF Verdict, c, h, n
<1> QED BY <1>5, <1>6

LEMMA PendingTyped == ASSUME QueuesTyped PROVE Pending \in Seq(Message) /\ paths["ws"] \in Seq(Message)
<1>1. "ws" \in Paths BY DEF Paths, Socket
<1> QED BY <1>1, ConcatProperties DEF QueuesTyped, Pending

LEMMA PostedPending ==
    ASSUME QueuesTyped, NEW q \in Seq(Message), queue' = queue \o q, paths' = paths
    PROVE  Pending' = Pending \o q
<1> DEFINE w == paths["ws"]
<1>1. w \in Seq(Message) /\ queue \in Seq(Message) BY PendingTyped DEF QueuesTyped
<1>2. Pending' = w \o (queue \o q) /\ Pending = w \o queue BY DEF Pending
<1> HIDE DEF w
<1>3. (w \o queue) \o q = w \o (queue \o q) BY <1>1, ConcatAssociative
<1> QED BY <1>2, <1>3

LEMMA PostFinal ==
    ASSUME QueuesTyped, NEW m \in Message, m.type \in Control, Post(<<m>>), paths' = paths
    PROVE  Final' = (m.type = "started")
<1>1. Pending \in Seq(Message) BY PendingTyped
<1>2. Pending' = Append(Pending, m)
  <2>1. <<m>> \in Seq(Message) OBVIOUS
  <2>2. Pending' = Pending \o <<m>> BY <2>1, PostedPending DEF Post
  <2> QED BY <1>1, <2>2, AppendIsConcat
<1>3. Sifted(Pending', Control) = Append(Sifted(Pending, Control), m) BY <1>1, <1>2, SiftedAppend
<1>4. Sifted(Pending, Control) \in Seq(Message) BY <1>1, SiftedTyped
<1>5. Verdict(known', Append(Sifted(Pending, Control), m)) = (m.type = "started") BY <1>4, VerdictAppend
<1> QED BY <1>3, <1>5 DEF Final

\* A picture changes nothing of it.
LEMMA VideoFinal ==
    ASSUME QueuesTyped, NEW q \in Seq(Message), \A i \in DOMAIN q : q[i].type \notin Control,
           queue' = queue \o q, paths' = paths, known' = known
    PROVE  Final' = Final
<1>1. Pending \in Seq(Message) /\ Pending' = Pending \o q BY PendingTyped, PostedPending
<1>2. Sifted(q, Control) = <<>> BY SiftedNone
<1>3. Sifted(Pending, Control) \in Seq(Message) BY <1>1, SiftedTyped
<1>4. Sifted(Pending', Control) = Sifted(Pending, Control) \o <<>> BY <1>1, <1>2, ControlSum
<1>5. Sifted(Pending', Control) = Sifted(Pending, Control) BY <1>3, <1>4, ConcatEmptySeq
<1> QED BY <1>5 DEF Final

LEMMA SiftedAgain ==
    ASSUME NEW S, NEW q \in Seq(S), NEW K PROVE Sifted(Sifted(q, K), K) = Sifted(q, K)
<1>1. Sifted(q, K) \in Seq(S) BY SiftedTyped
<1>2. \A i \in DOMAIN Sifted(q, K) : Sifted(q, K)[i].type \in K
  <2>1. \A i \in DOMAIN Sifted(q, K) : Has(Sifted(q, K), Sifted(q, K)[i]) BY DEF Has
  <2> QED BY <2>1, SiftedHas
<1> QED BY <1>1, <1>2, SiftedAll

\* The places of a sequence's ending
LEMMA NewestHas ==
    ASSUME NEW S, NEW q \in Seq(S), NEW n \in Nat, NEW K, \A i \in DOMAIN q : q[i].type \in K
    PROVE  \A i \in DOMAIN Newest(q, n) : Newest(q, n)[i].type \in K
<1> DEFINE w == Newest(q, n)
           o == SubSeq(q, 1, Len(q) - Len(w))
<1>1. w \in Seq(S) /\ o \in Seq(S) /\ q = o \o w BY NewestSplits
<1>2. \A i \in DOMAIN w : Has(q, w[i])
  <2>1. \A i \in DOMAIN w : Has(w, w[i]) BY DEF Has
  <2>2. \A x : Has(w, x) => Has(o \o w, x)
    <3> HIDE DEF w, o
    <3> QED BY <1>1, HasConcat
  <2>3. q = o \o w BY <1>1
  <2> HIDE DEF w, o
  <2> QED BY <2>1, <2>2, <2>3
<1>3. \A x : Has(q, x) => x.type \in K BY DEF Has
<1> QED BY <1>2, <1>3

\* The drain drops pictures only, and who sorts the batch keeps the order of
\* what is announced.
LEMMA RoundKeepsOrder ==
    ASSUME QueuesTyped, NEW n \in 1 .. Len(queue)
    PROVE  Sifted(Outgoing(n) \o Left(n), Control) = Sifted(queue, Control)
<1>1. queue \in Seq(Message) BY DEF QueuesTyped
<1> DEFINE a == Taken(n)
           b == Overdue(Rest(n))
           c == Left(n)
           f(q) == Sifted(q, Control)
           k == Sifted(Batch(n), Video)
           w == Newest(k, MaxPending)
<1>2. /\ a \in Seq(Message) /\ b \in Seq(Message) /\ c \in Seq(Message) /\ queue = a \o (b \o c)
      /\ Batch(n) \in Seq(Message) /\ Batch(n) = a \o f(b)
  BY <1>1, RoundSplits
<1>3. f(a) \in Seq(Message) /\ f(b) \in Seq(Message) /\ f(c) \in Seq(Message) /\ k \in Seq(Message)
      /\ f(Batch(n)) \in Seq(Message)
  BY <1>2, SiftedTyped
<1>4. f(queue) = f(a) \o (f(b) \o f(c))
  <2>1. b \o c \in Seq(Message) BY <1>2, ConcatProperties
  <2>2. f(queue) = f(a) \o f(b \o c)
    <3>1. f(a \o (b \o c)) = f(a) \o f(b \o c) BY <1>2, <2>1, ControlSum
    <3> QED BY <1>2, <3>1
  <2>3. f(b \o c) = f(b) \o f(c) BY <1>2, ControlSum
  <2> QED BY <2>2, <2>3
<1>5. f(Batch(n)) = f(a) \o f(b)
  <2>1. f(a \o f(b)) = f(a) \o f(f(b)) BY <1>2, <1>3, ControlSum
  <2>2. f(f(b)) = f(b) BY <1>2, SiftedAgain
  <2> QED BY <1>2, <2>1, <2>2
<1>6. f(w) = <<>> /\ w \in Seq(Message)
  <2>1. MaxPending \in Nat BY DesktopAssumption
  <2>2. \A i \in DOMAIN k : k[i].type \in Video
    <3>1. \A i \in DOMAIN k : Has(k, k[i]) BY DEF Has
    <3>2. \A x : Has(k, x) => x.type \in Video
      <4>1. \A x : Has(Sifted(Batch(n), Video), x) => x.type \in Video BY <1>2, SiftedHas
      <4> QED BY <4>1
    <3> HIDE DEF k
    <3> QED BY <3>1, <3>2
  <2>3. w \in Seq(Message) /\ \A i \in DOMAIN w : w[i].type \in Video BY <1>3, <2>1, <2>2, NewestHas, NewestSplits
  <2>4. \A i \in DOMAIN w : w[i].type \notin Control BY <2>3 DEF Video, Control
  <2> QED BY <2>3, <2>4, SiftedNone
<1>7. f(Outgoing(n)) = f(a) \o f(b) /\ Outgoing(n) \in Seq(Message)
  <2>1. Outgoing(n) = f(Batch(n)) \o w BY DEF Outgoing
  <2>2. f(Outgoing(n)) = f(f(Batch(n))) \o f(w)
    <3>1. f(f(Batch(n)) \o w) = f(f(Batch(n))) \o f(w) BY <1>3, <1>6, ControlSum
    <3> QED BY <2>1, <3>1
  <2>3. f(f(Batch(n))) = f(Batch(n)) BY <1>2, SiftedAgain
  <2>4. f(Outgoing(n)) = f(Batch(n)) BY <1>3, <1>6, <2>2, <2>3, ConcatEmptySeq
  <2>5. Outgoing(n) \in Seq(Message) BY <1>1, OutgoingTyped
  <2> QED BY <1>5, <2>4, <2>5
<1>8. f(Outgoing(n) \o c) = (f(a) \o f(b)) \o f(c)
  <2>1. f(Outgoing(n) \o c) = f(Outgoing(n)) \o f(c) BY <1>2, <1>7, ControlSum
  <2> QED BY <1>7, <2>1
<1> HIDE DEF f, a, b
<1>9. (f(a) \o f(b)) \o f(c) = f(a) \o (f(b) \o f(c))
  <2>1. \A x, y, z \in Seq(Message) : (x \o y) \o z = x \o (y \o z) BY ONLY ConcatAssociative
  <2> DEFINE x == f(a)
             y == f(b)
             z == f(c)
  <2>2. x \in Seq(Message) /\ y \in Seq(Message) /\ z \in Seq(Message) BY <1>3
  <2> HIDE DEF x, y, z
  <2>3. (x \o y) \o z = x \o (y \o z) BY ONLY <2>1, <2>2
  <2> QED BY <2>3 DEF x, y, z
<1> QED BY <1>4, <1>8, <1>9 DEF f

LEMMA CutKeepsOrder ==
    ASSUME QueuesTyped, NEW n \in 1 .. Len(queue), NEW G
    PROVE  Sifted(WithCuts(Outgoing(n), G) \o Left(n), Control) = Sifted(queue, Control)
<1> DEFINE o == Outgoing(n)
           t == WithCuts(o, G)
           c == Left(n)
<1>1. o \in Seq(Message) /\ c \in Seq(Message) BY RoundSplits, OutgoingTyped DEF QueuesTyped
<1>2. Sifted(o \o c, Control) = Sifted(queue, Control) BY RoundKeepsOrder
<1> HIDE DEF o, c
<1>3. t \in Seq(Message) /\ Sifted(t, Control) = Sifted(o, Control) BY <1>1, CutKeeps, CutSifts DEF Control
<1> HIDE DEF t
<1>4. Sifted(t \o c, Control) = Sifted(o \o c, Control)
  <2>1. Sifted(t \o c, Control) = Sifted(t, Control) \o Sifted(c, Control) BY <1>1, <1>3, ControlSum
  <2>2. Sifted(o \o c, Control) = Sifted(o, Control) \o Sifted(c, Control) BY <1>1, ControlSum
  <2> QED BY <1>3, <2>1, <2>2
<1> QED BY <1>2, <1>4 DEF o, c, t

LEMMA KindsStay == ASSUME VideoTyped, [Next]_vars PROVE scene'.kinds = scene.kinds
<1>1. AgentTyped BY DEF VideoTyped
<1> SUFFICES scene' = scene \/ \E kind : Happens(kind) BY <1>1, HappensTyped
<1>2. CASE Commands BY <1>2 DEF Commands, StartCmd, StopCmd, RestartCmd, SessionEnds
<1>3. CASE Command \/ StopTimeout BY <1>3 DEF Command, StopDone, StopTimeout, Reconnect
<1>4. CASE \E l \in Loops : Pipeline(l) \/ KeyFrame(l) \/ Delta(l) \/ Mishap(l)
  BY <1>4 DEF Pipeline, Mishap, Open, OpenFails, Exit, CaptureFails, KeyFrame, Delta, Rebuild
<1>5. CASE Send \/ SendBreaks BY <1>5, SendIs, BreaksIs
<1>6. CASE \E p \in Paths : Route(p) \/ RouteThrottled(p)
  BY <1>6 DEF Route, RouteThrottled, RouteStarted, RouteStopped, RouteInit, RouteFrame, BroadcastInit
<1>7. CASE Revoke \/ CleanUp BY <1>7 DEF Revoke, CleanUp
<1>8. CASE \E v \in Viewers : Viewer(v) BY <1>8, ViewerMoves DEF SetView
<1>9. CASE UNCHANGED vars BY <1>9 DEF vars
<1> QED BY <1>2, <1>3, <1>4, <1>5, <1>6, <1>7, <1>8, <1>9 DEF Next

LEMMA StartIs ==
    ASSUME AgentTyped, ~running, Start
    PROVE  /\ running' = TRUE
           /\ \E l \in Loops : /\ loops[l].pc = "none" /\ task' = l /\ loops' = [loops EXCEPT ![l].pc = "opening"]
                               /\ loops'[l].pc = "opening"
                               /\ \A k \in Loops : k # l => loops'[k] = loops[k]
<1>1. /\ running' = TRUE /\ \E l \in Loops : loops[l].pc = "none"
      /\ task' = FreeLoop /\ loops' = [loops EXCEPT ![FreeLoop].pc = "opening"]
  BY DEF Start
<1>2. FreeLoop \in Loops /\ loops[FreeLoop].pc = "none" BY <1>1, FreeLoopIs
<1> DEFINE f == FreeLoop
<1> HIDE DEF f
<1>3. f \in Loops /\ loops[f].pc = "none" /\ task' = f /\ loops' = [loops EXCEPT ![f].pc = "opening"] BY <1>1, <1>2 DEF f
<1>4. loops[f] \in LoopSet /\ loops \in [Loops -> LoopSet] BY <1>3 DEF AgentTyped
<1>5. [loops[f] EXCEPT !.pc = "opening"].pc = "opening" BY <1>4 DEF LoopSet
<1>6. loops'[f].pc = "opening" /\ \A k \in Loops : k # f => loops'[k] = loops[k] BY <1>3, <1>4, <1>5
<1> QED BY <1>1, <1>3, <1>6

LEMMA LoopIsNow ==
    ASSUME AgentTyped, NEW l \in Loops, NEW s, loops' = [loops EXCEPT ![l].pc = s]
    PROVE  loops'[l].pc = s /\ \A k \in Loops : k # l => loops'[k] = loops[k]
<1>1. loops[l] \in LoopSet /\ loops \in [Loops -> LoopSet] BY DEF AgentTyped
<1>2. [loops[l] EXCEPT !.pc = s].pc = s BY <1>1 DEF LoopSet
<1> QED BY <1>1, <1>2

Still == UNCHANGED <<running, cmd, link, loops, queue, paths, known>>

LEMMA NextOrders == ASSUME VideoTyped, Orders, [Next]_vars PROVE Orders'
<1>1. AgentTyped BY DEF VideoTyped
<1>2. CASE Commands
  <2>1. CASE StartCmd BY <2>1 DEF StartCmd, Orders
  <2>2. CASE StopCmd BY <2>2 DEF StopCmd, Orders
  <2>3. CASE RestartCmd BY <2>3 DEF RestartCmd, Orders
  <2>4. CASE SessionEnds BY <2>4 DEF SessionEnds, Orders
  <2> QED BY <1>2, <2>1, <2>2, <2>3, <2>4 DEF Commands
<1>3. CASE StopDone \/ StopTimeout
  <2>1. Stopping /\ Stopped BY <1>3 DEF StopDone, StopTimeout
  <2>2. link' = link /\ cmd' = (IF cmd = "leaving" THEN "left" ELSE "idle") /\ (cmd = "leaving" => running' = running)
    BY <2>1 DEF Stopped
  <2>3. ~running /\ cmd \in {"stopping", "restarting", "leaving"} BY <2>1 DEF Orders, Stopping
  <2> QED BY <2>2, <2>3 DEF Orders
<1>4. CASE Reconnect BY <1>4 DEF Reconnect, Orders
<1>5. CASE \E l \in Loops : Pipeline(l) \/ KeyFrame(l) \/ Delta(l) \/ Mishap(l)
  <2>1. UNCHANGED <<running, cmd, link>>
    BY <1>5 DEF Pipeline, Mishap, Open, OpenFails, Exit, CaptureFails, KeyFrame, Delta, Rebuild, agentVars
  <2> QED BY <2>1 DEF Orders
<1>6. CASE Send \/ SendBreaks BY <1>6, RoundsLeave DEF Orders, agentVars
<1>7. CASE \E p \in Paths : Route(p) \/ RouteThrottled(p)
  <2>1. UNCHANGED <<running, cmd, link>>
    BY <1>7 DEF Route, RouteThrottled, RouteStarted, RouteStopped, RouteInit, RouteFrame, BroadcastInit, agentVars
  <2> QED BY <2>1 DEF Orders
<1>8. CASE Revoke BY <1>8 DEF Revoke, Orders, agentVars
<1>9. CASE CleanUp BY <1>9 DEF CleanUp, Orders
<1>10. CASE \E v \in Viewers : Viewer(v) BY <1>10, ViewerMoves DEF SetView, Orders, agentVars
<1>11. CASE UNCHANGED vars BY <1>11 DEF vars, agentVars, Orders
<1> QED BY <1>2, <1>3, <1>4, <1>5, <1>6, <1>7, <1>8, <1>9, <1>10, <1>11 DEF Next, Command

\* Nothing is sent when nothing is queued.
LEMMA NothingOutgoing == ASSUME queue = <<>> PROVE Outgoing(Len(queue)) = <<>>
<1>1. Len(queue) = 0 /\ Len(<<>>) = 0 OBVIOUS
<1>2. MaxPending \in Nat BY DesktopAssumption
<1>3. Newest(<<>>, MaxPending) = <<>> BY <1>1, <1>2 DEF Newest
<1>4. SubSeq(queue, 1, 0) = <<>> /\ SubSeq(queue, 0 + 1, 0) = <<>> OBVIOUS
<1>5. Overdue(<<>>) = <<>>
  <2>1. Len(<<>>) - Len(Newest(<<>>, MaxPending)) = 0 BY <1>1, <1>3
  <2>2. SubSeq(<<>>, 1, 0) = <<>> OBVIOUS
  <2> QED BY <2>1, <2>2 DEF Overdue
<1>6. Sifted(<<>>, Control) = <<>> /\ Sifted(<<>>, Video) = <<>> BY SiftedEmpty
<1>7. <<>> \o <<>> = <<>> OBVIOUS
<1>8. Batch(0) = <<>> BY <1>1, <1>4, <1>5, <1>6, <1>7 DEF Batch
<1> QED BY <1>1, <1>3, <1>6, <1>7, <1>8 DEF Outgoing

\* The paths, after a reconnection that waits for all that was sent
LEMMA ReconnectEmpties ==
    ASSUME QueuesTyped, Reconnect, "late" \notin scene.kinds, paths["old"] = <<>>
    PROVE  queue = <<>> /\ queue' = <<>> /\ \A p \in Paths : paths[p] = <<>> /\ paths'[p] = <<>>
<1>1. queue = <<>> /\ \A p \in Socket : paths[p] = <<>> BY DEF Reconnect, Idle
<1>2. queue' = <<>>
      /\ paths' = [p \in Paths |-> IF p = "old" THEN paths["old"] \o paths["ws"]
                      \o paths["http"] \o WithCuts(Outgoing(Len(queue)), Missing(Len(queue))) ELSE <<>>]
  BY DEF Reconnect
<1>3. WithCuts(Outgoing(Len(queue)), Missing(Len(queue))) = <<>>
  <2>1. Outgoing(Len(queue)) = <<>> /\ <<>> \in Seq(Message) /\ Len(<<>>) = 0 BY <1>1, NothingOutgoing
  <2>2. \A G : WithCuts(<<>>, G) \in Seq(Message) /\ Len(WithCuts(<<>>, G)) = 0 BY <2>1, CutKeeps
  <2> QED BY <2>1, <2>2, EmptySeq
<1>4. paths["ws"] = <<>> /\ paths["http"] = <<>> BY <1>1 DEF Socket
<1>5. <<>> \o <<>> \o <<>> \o <<>> = <<>> OBVIOUS
<1>6. \A p \in Paths : paths'[p] = <<>> BY <1>2, <1>3, <1>4, <1>5
<1>7. \A p \in Paths : p \in Socket \/ p = "old" BY DEF Paths
<1> QED BY <1>1, <1>2, <1>6, <1>7

LEMMA NextOneWay == ASSUME VideoTyped, OneWay, [Next]_vars PROVE OneWay'
<1>1. QueuesTyped /\ scene'.kinds = scene.kinds BY KindsStay DEF VideoTyped
<1> SUFFICES ASSUME scene.kinds \cap {"ws", "late"} = {} PROVE paths'["http"] = <<>> /\ paths'["old"] = <<>>
  BY <1>1 DEF OneWay
<1>2. paths["http"] = <<>> /\ paths["old"] = <<>> /\ "ws" \notin scene.kinds /\ "late" \notin scene.kinds BY DEF OneWay
<1>3. "http" \in Paths /\ "old" \in Paths /\ "ws" \in Paths BY DEF Paths, Socket
<1>4. CASE paths' = paths BY <1>2, <1>4
<1>5. CASE Reconnect BY <1>1, <1>2, <1>3, <1>5, ReconnectEmpties
<1>6. CASE Send
  <2>1. \E q : paths' = [paths EXCEPT !["ws"] = q] BY <1>6, SendIs
  <2> QED BY <1>1, <1>2, <1>3, <2>1 DEF QueuesTyped
<1>7. CASE SendBreaks BY <1>2, <1>7, BreaksIs DEF Happens
<1>8. ASSUME NEW p \in Paths, Routing(p), Routed(p) PROVE paths'["http"] = <<>> /\ paths'["old"] = <<>>
  <2>1. paths[p] # <<>> /\ \A q \in Paths : q # p => paths'[q] = paths[q] BY <1>1, <1>8, RoutingIs
  <2> QED BY <1>2, <1>3, <2>1
<1>9. \/ paths' = paths \/ Reconnect \/ Send \/ SendBreaks \/ \E p \in Paths : Routing(p) /\ Routed(p)
  <2>1. CASE Commands BY <2>1 DEF Commands, StartCmd, StopCmd, RestartCmd, SessionEnds
  <2>2. CASE StopDone \/ StopTimeout BY <2>2 DEF StopDone, StopTimeout, Stopped
  <2>3. CASE \E l \in Loops : Pipeline(l) \/ KeyFrame(l) \/ Delta(l) \/ Mishap(l)
    BY <2>3 DEF Pipeline, Mishap, Open, OpenFails, Exit, CaptureFails, KeyFrame, Delta, Rebuild
  <2>4. CASE \E p \in Paths : Route(p) \/ RouteThrottled(p)
    BY <2>4 DEF Route, RouteThrottled, RouteStarted, RouteStopped, RouteInit, RouteFrame, BroadcastInit
  <2>5. CASE Revoke \/ CleanUp BY <2>5 DEF Revoke, CleanUp
  <2>6. CASE \E v \in Viewers : Viewer(v) BY <2>6, ViewerMoves DEF SetView
  <2>7. CASE UNCHANGED vars BY <2>7 DEF vars
  <2> QED BY <2>1, <2>2, <2>3, <2>4, <2>5, <2>6, <2>7 DEF Next, Command
<1> QED BY <1>4, <1>5, <1>6, <1>7, <1>8, <1>9

LEMMA SamePcs ==
    ASSUME \A l \in Loops : loops'[l].pc = loops[l].pc PROVE Working' = Working /\ Opening' = Opening
BY DEF Working, Opening

LEMMA AnnouncedStays ==
    ASSUME VideoTyped, Announced, [Next]_vars, Working' = Working, Opening' = Opening, Final' = Final,
           running' = running \/ ~running'
    PROVE  Announced'
<1>1. scene'.kinds = scene.kinds BY KindsStay
<1>2. AgentTyped' => running' \in BOOLEAN BY DEF AgentTyped
<1>3. Quiet' = Quiet BY <1>1 DEF Quiet
<1> HIDE DEF Working, Opening, Final
<1> QED BY <1>3 DEF Announced

LEMMA StillFinal == ASSUME UNCHANGED <<queue, paths, known>> PROVE Final' = Final
BY DEF Final, Pending

LEMMA CommandsAnnounced == ASSUME VideoTyped, Announced, Next, Commands PROVE Announced'
<1>1. AgentTyped BY DEF VideoTyped
<1>2. Final' = Final
  <2>1. UNCHANGED <<queue, paths, known>> BY DEF Commands, StartCmd, StopCmd, RestartCmd, SessionEnds, relayVars
  <2> QED BY <2>1, StillFinal
<1>3. CASE StartCmd /\ ~running
  <2>1. \E l \in Loops : loops'[l].pc = "opening" BY <1>1, <1>3, StartIs DEF StartCmd
  <2> QED BY <2>1 DEF Announced, Opening
<1>4. CASE ~(StartCmd /\ ~running)
  <2>1. loops' = loops /\ (running' = running \/ ~running')
    BY <1>4 DEF Commands, StartCmd, StopCmd, RestartCmd, SessionEnds, Start
  <2>2. Working' = Working /\ Opening' = Opening BY <2>1, SamePcs
  <2> QED BY <1>2, <2>1, <2>2, AnnouncedStays
<1> QED BY <1>3, <1>4

LEMMA StopsAnnounced == ASSUME VideoTyped, Orders, Announced, Next, StopDone \/ StopTimeout PROVE Announced'
<1>1. AgentTyped /\ QueuesTyped BY DEF VideoTyped
<1>2. Stopping /\ Stopped BY DEF StopDone, StopTimeout
<1>3. ~running BY <1>2 DEF Orders, Stopping
<1>4. CASE cmd = "restarting"
  <2>1. Start BY <1>2, <1>4 DEF Stopped
  <2>2. Opening' BY <1>1, <1>3, <2>1, StartIs DEF Opening
  <2> QED BY <2>2 DEF Announced
<1>5. CASE cmd # "restarting"
  <2>1. running' = running BY <1>2, <1>5 DEF Stopped
  <2>2. Post(<<Msg("stopped", None)>>) /\ paths' = paths BY <1>2 DEF Stopped
  <2>3. Msg("stopped", None) \in Message /\ Msg("stopped", None).type = "stopped" BY MsgTyped DEF None
  <2>4. Final' = (Msg("stopped", None).type = "started") BY <1>1, <2>2, <2>3, PostFinal DEF Control
  <2>5. ~Final' BY <2>3, <2>4
  <2> QED BY <1>3, <2>1, <2>5 DEF Announced
<1> QED BY <1>4, <1>5

LEMMA ReconnectAnnounced == ASSUME VideoTyped, Orders, OneWay, Announced, Next, Reconnect PROVE Announced'
<1>1. AgentTyped /\ QueuesTyped BY DEF VideoTyped
<1>2. ~running BY DEF Reconnect, Orders
<1>3. CASE want
  <2>1. Start BY <1>3 DEF Reconnect
  <2>2. Opening' BY <1>1, <1>2, <2>1, StartIs DEF Opening
  <2> QED BY <2>2 DEF Announced
<1>4. CASE ~Quiet
  <2>1. scene'.kinds = scene.kinds BY KindsStay
  <2> QED BY <1>4, <2>1 DEF Announced, Quiet
<1>5. CASE ~want /\ Quiet
  <2>1. running' = running /\ loops' = loops BY <1>5 DEF Reconnect
  <2>2. "late" \notin scene.kinds /\ paths["old"] = <<>> BY <1>5 DEF Quiet, OneWay
  <2>3. queue = <<>> /\ queue' = <<>> /\ \A p \in Paths : paths[p] = <<>> /\ paths'[p] = <<>>
    BY <1>1, <2>2, ReconnectEmpties
  <2>4. "ws" \in Paths BY DEF Paths, Socket
  <2>5. Pending' = Pending BY <2>3, <2>4 DEF Pending
  <2>6. known' = known BY DEF Reconnect, relayVars
  <2>7. Final' = Final BY <2>5, <2>6 DEF Final
  <2>8. Working' = Working /\ Opening' = Opening BY <2>1, SamePcs
  <2> QED BY <2>1, <2>7, <2>8, AnnouncedStays
<1> QED BY <1>3, <1>4, <1>5

LEMMA OpensAnnounced == ASSUME VideoTyped, Announced, Next, NEW l \in Loops, Open(l) PROVE Announced'
<1>1. AgentTyped /\ QueuesTyped BY DEF VideoTyped
<1>2. encs' \in Nat /\ Post(<<Msg("started", encs')>>) /\ paths' = paths BY <1>1 DEF Open, AgentTyped
<1>3. Msg("started", encs') \in Message /\ Msg("started", encs').type = "started" BY <1>2, MsgTyped
<1>4. Final' = (Msg("started", encs').type = "started") BY <1>1, <1>2, <1>3, PostFinal DEF Control
<1>5. Final' BY <1>3, <1>4
<1>6. Working' BY <1>1 DEF Open, AgentTyped, Working
<1> QED BY <1>5, <1>6 DEF Announced

LEMMA ExitAnnounced == ASSUME VideoTyped, Announced, Next, NEW l \in Loops, Exit(l) PROVE Announced'
<1>1. AgentTyped /\ QueuesTyped BY DEF VideoTyped
<1>2. ~running /\ running' = running /\ Post(<<Msg("stopped", None)>>) /\ paths' = paths BY DEF Exit
<1>3. Msg("stopped", None) \in Message /\ Msg("stopped", None).type = "stopped" BY MsgTyped DEF None
<1>4. Final' = (Msg("stopped", None).type = "started") BY <1>1, <1>2, <1>3, PostFinal DEF Control
<1>5. ~Final' BY <1>3, <1>4
<1> QED BY <1>2, <1>5 DEF Announced

LEMMA FailsAnnounced == ASSUME VideoTyped, Announced, Next, "capture" \in scene.kinds \/ "ws" \in scene.kinds \/ "revoke" \in scene.kinds
    PROVE Announced'
<1>1. scene'.kinds = scene.kinds BY KindsStay
<1> QED BY <1>1 DEF Announced, Quiet

LEMMA KeyedHas ==
    ASSUME NEW l PROVE \A x : Has(Keyed(l), x) => x \in {Msg("init", loops[l].enc), Msg("key", loops[l].enc)}
<1> DEFINE a == Msg("init", loops[l].enc)
           b == Msg("key", loops[l].enc)
           s == IF loops[l].inited THEN <<>> ELSE <<a>>
           t == <<b>>
<1> DEFINE P == {a, b}
<1>1. s \in Seq(P) /\ t \in Seq(P)
  <2>1. a \in P /\ b \in P OBVIOUS
  <2> HIDE DEF P, a, b
  <2>2. <<a>> \in Seq(P) /\ <<b>> \in Seq(P) /\ <<>> \in Seq(P) BY <2>1
  <2> QED BY <2>2
<1>2. \A x : (Has(s, x) => x = a) /\ (Has(t, x) => x = b)
  <2>1. \A i \in DOMAIN s : s[i] = a OBVIOUS
  <2>2. \A i \in DOMAIN t : t[i] = b OBVIOUS
  <2> HIDE DEF s, t
  <2> QED BY <2>1, <2>2 DEF Has
<1>3. Keyed(l) = s \o t BY DEF Keyed
<1> HIDE DEF s, t
<1>4. \A x : Has(s \o t, x) <=> Has(s, x) \/ Has(t, x) BY <1>1, HasConcat
<1> QED BY <1>2, <1>3, <1>4

LEMMA KeyedPictures == ASSUME NEW l PROVE \A i \in DOMAIN Keyed(l) : Keyed(l)[i].type \notin Control
<1>1. \A i \in DOMAIN Keyed(l) : Has(Keyed(l), Keyed(l)[i]) BY DEF Has
<1>2. Msg("init", loops[l].enc).type \notin Control /\ Msg("key", loops[l].enc).type \notin Control BY DEF Msg, Control
<1> QED BY <1>1, <1>2, KeyedHas

LEMMA FramesAnnounced == ASSUME VideoTyped, Announced, Next, NEW l \in Loops, KeyFrame(l) \/ Delta(l) \/ Rebuild(l) PROVE Announced'
<1>1. AgentTyped /\ QueuesTyped BY DEF VideoTyped
<1>2. running' = running /\ paths' = paths /\ known' = known
  BY DEF KeyFrame, Delta, Rebuild, agentVars, relayVars
<1>3. \A k \in Loops : loops'[k].pc = loops[k].pc
  <2>1. loops[l] \in LoopSet /\ loops \in [Loops -> LoopSet] BY <1>1 DEF AgentTyped
  <2>2. CASE KeyFrame(l)
    <3>1. loops' = [loops EXCEPT ![l].inited = TRUE] BY <2>2 DEF KeyFrame
    <3>2. [loops[l] EXCEPT !.inited = TRUE].pc = loops[l].pc BY <2>1 DEF LoopSet
    <3> QED BY <2>1, <3>1, <3>2
  <2>3. CASE Delta(l) BY <2>3 DEF Delta, agentVars
  <2>4. CASE Rebuild(l)
    <3>1. loops' = [loops EXCEPT ![l] = [[loops[l] EXCEPT !.enc = encs'] EXCEPT !.inited = FALSE]]
      BY <2>1, <2>4 DEF Rebuild
    <3>2. [[loops[l] EXCEPT !.enc = encs'] EXCEPT !.inited = FALSE].pc = loops[l].pc BY <2>1 DEF LoopSet
    <3> QED BY <2>1, <3>1, <3>2
  <2> QED BY <2>2, <2>3, <2>4
<1>4. Final' = Final
  <2>1. CASE KeyFrame(l)
    <3>1. queue' = queue \o Keyed(l) BY <2>1 DEF KeyFrame, Keyed, Post
    <3>2. Keyed(l) \in Seq(Message) BY <1>1, KeyedTyped
    <3> QED BY <1>1, <1>2, <3>1, <3>2, KeyedPictures, VideoFinal
  <2>2. CASE Delta(l)
    <3> DEFINE m == Msg("delta", loops[l].enc)
               q == <<m>>
    <3>1. m \in Message /\ m.type = "delta" BY <1>1, LoopIs, MsgTyped
    <3>2. queue' = queue \o q BY <2>2 DEF Delta, Post
    <3> HIDE DEF m
    <3>3. q \in Seq(Message) /\ \A i \in DOMAIN q : q[i].type \notin Control BY <3>1 DEF Control
    <3> HIDE DEF q
    <3> QED BY <1>1, <1>2, <3>2, <3>3, VideoFinal
  <2>3. CASE Rebuild(l) BY <1>2, <2>3, StillFinal DEF Rebuild
  <2> QED BY <2>1, <2>2, <2>3
<1>5. Working' = Working /\ Opening' = Opening BY <1>3, SamePcs
<1> QED BY <1>2, <1>4, <1>5, AnnouncedStays

LEMMA SendAnnounced == ASSUME VideoTyped, Announced, Next, Send PROVE Announced'
<1>1. QueuesTyped BY DEF VideoTyped
<1>2. PICK n \in 1 .. Len(queue) :
        /\ queue' = Left(n) /\ UNCHANGED <<agentVars, relayVars, view>>
        /\ paths' = [paths EXCEPT !["ws"] = WithCuts(Outgoing(n), Missing(n))]
  BY SendIs
<1>3. queue' = Left(n) /\ UNCHANGED <<agentVars, relayVars, view>> BY <1>2
<1>4. "ws" \in Paths /\ paths["ws"] = <<>> BY SendIs DEF Idle, Paths, Socket
<1>5. paths'["ws"] = WithCuts(Outgoing(n), Missing(n)) BY <1>1, <1>2, <1>4 DEF QueuesTyped
<1>6. Pending' = WithCuts(Outgoing(n), Missing(n)) \o Left(n) BY <1>3, <1>5 DEF Pending
<1>7. Pending = queue BY <1>1, <1>4, ConcatEmptySeq DEF Pending, QueuesTyped
<1>8. Sifted(Pending', Control) = Sifted(Pending, Control) BY <1>1, <1>6, <1>7, CutKeepsOrder
<1>9. Final' = Final BY <1>3, <1>8 DEF Final, relayVars
<1>10. Working' = Working /\ Opening' = Opening BY <1>3, SamePcs DEF agentVars
<1> QED BY <1>3, <1>9, <1>10, AnnouncedStays DEF agentVars

\* What is routed is the first of what is pending.
LEMMA RoutedFirst ==
    ASSUME QueuesTyped, Routing("ws"), Routed("ws"), queue' = queue
    PROVE  /\ Head(paths["ws"]) \in Message /\ Pending' \in Seq(Message)
           /\ Pending = <<Head(paths["ws"])>> \o Pending'
<1> DEFINE w == paths["ws"]
           h == <<Head(w)>>
           t == Tail(w)
<1>1. "ws" \in Paths BY DEF Paths, Socket
<1>2. w \in Seq(Message) /\ w # <<>> /\ paths'["ws"] = t /\ queue \in Seq(Message) BY <1>1, RoutingIs DEF QueuesTyped
<1>3. Head(w) \in Message /\ t \in Seq(Message) /\ h \in Seq(Message) /\ w = h \o t BY <1>2, HeadTail
<1>4. Pending' = t \o queue /\ Pending = w \o queue BY <1>2 DEF Pending
<1> HIDE DEF w, h, t
<1>5. (h \o t) \o queue = h \o (t \o queue)
  <2>1. h \in Seq(Message) /\ t \in Seq(Message) /\ queue \in Seq(Message) BY <1>2, <1>3
  <2> QED BY ONLY <2>1, ConcatAssociative
<1>6. t \o queue \in Seq(Message) BY <1>2, <1>3, ConcatProperties
<1> QED BY <1>3, <1>4, <1>5, <1>6 DEF w, h

LEMMA RoutesAnnounced ==
    ASSUME VideoTyped, OneWay, Announced, Next, NEW p \in Paths,
           RouteStarted(p) \/ RouteStopped(p) \/ RouteInit(p) \/ RouteFrame(p) \/ RouteThrottled(p)
    PROVE  Announced'
<1>1. QueuesTyped BY DEF VideoTyped
<1>2. Routing(p) /\ Routed(p) /\ UNCHANGED <<agentVars, queue>>
  BY DEF RouteStarted, RouteStopped, RouteInit, RouteFrame, RouteThrottled
<1>3. CASE ~Quiet
  <2>1. scene'.kinds = scene.kinds BY KindsStay
  <2> QED BY <1>3, <2>1 DEF Announced, Quiet
<1>4. CASE Quiet
  <2>1. p = "ws" BY <1>2, <1>4 DEF Quiet, OneWay, Routing, Paths, Socket
  <2> DEFINE m == Head(paths["ws"])
             h == <<m>>
  <2>2. m \in Message /\ Pending' \in Seq(Message) /\ Pending = h \o Pending' BY <1>1, <1>2, <2>1, RoutedFirst
  <2>3. h \in Seq(Message) /\ h = Append(<<>>, m) /\ <<>> \in Seq(Message) BY <2>2
  <2> DEFINE s == Sifted(Pending', Control)
  <2>4. Sifted(h, Control) = IF m.type \in Control THEN Append(<<>>, m) ELSE <<>>
    <3>1. Sifted(<<m>>, Control) = IF m.type \in Control THEN <<m>> ELSE <<>> BY <2>2, SiftedOne
    <3> QED BY <2>3, <3>1
  <2>5. Sifted(Pending, Control) = Sifted(h, Control) \o s
    <3> HIDE DEF h
    <3>1. Sifted(h \o Pending', Control) = Sifted(h, Control) \o Sifted(Pending', Control) BY <2>2, <2>3, ControlSum
    <3> QED BY <2>2, <3>1
  <2>6. s \in Seq(Message) BY <2>2, SiftedTyped
  <2>7. Final' = Verdict(known', s) BY DEF Final
  <2>8. CASE m.type \in Control
    <3>1. Sifted(Pending, Control) = <<m>> \o s BY <2>3, <2>4, <2>5, <2>8
    <3>2. Final = Verdict(m.type = "started", s)
      <4>1. Verdict(known, <<m>> \o s) = Verdict(m.type = "started", s) BY <2>2, <2>6, VerdictFirst
      <4> QED BY <3>1, <4>1 DEF Final
    <3>3. known' = (m.type = "started")
      BY <2>1, <2>8 DEF Control, RouteStarted, RouteStopped, RouteInit, RouteFrame, RouteThrottled
    <3> QED BY <2>7, <3>2, <3>3, <1>2, SamePcs, AnnouncedStays DEF agentVars
  <2>9. CASE m.type \notin Control
    <3>1. Sifted(Pending, Control) = s
      <4>1. Sifted(h, Control) = <<>> BY <2>4, <2>9
      <4> HIDE DEF s
      <4> QED BY <2>5, <2>6, <4>1, ConcatEmptySeq
    <3>2. known' = known
      BY <2>1, <2>9 DEF Control, RouteStarted, RouteStopped, RouteInit, RouteFrame, RouteThrottled
    <3>3. Final' = Final BY <2>7, <3>1, <3>2 DEF Final
    <3> QED BY <3>3, <1>2, SamePcs, AnnouncedStays DEF agentVars
  <2> QED BY <2>8, <2>9
<1> QED BY <1>3, <1>4

LEMMA CleanUpAnnounced == ASSUME VideoTyped, Orders, Announced, Next, CleanUp PROVE Announced'
<1>1. ~running /\ running' = running /\ UNCHANGED <<loops, queue, paths>> /\ known' = FALSE BY DEF CleanUp, Orders
<1>2. Pending' = Pending BY <1>1 DEF Pending
<1>3. Final' => Final BY <1>1, <1>2 DEF Final, Verdict
<1>4. Working' = Working /\ Opening' = Opening BY <1>1, SamePcs
<1>5. Quiet' = Quiet BY KindsStay DEF Quiet
<1> QED BY <1>1, <1>3, <1>4, <1>5 DEF Announced

LEMMA NextAnnounced == ASSUME VideoTyped, Orders, OneWay, Announced, [Next]_vars PROVE Announced'
<1>1. CASE UNCHANGED <<agentVars, queue, paths, known>>
  <2>1. Final' = Final BY <1>1, StillFinal
  <2> QED BY <1>1, <2>1, SamePcs, AnnouncedStays DEF agentVars
<1>2. CASE Next
  <2>1. CASE Unseen
    <3>1. CASE Revoke BY <1>2, <3>1, FailsAnnounced DEF Revoke, Happens
    <3>2. CASE SendBreaks BY <1>2, <3>2, FailsAnnounced DEF SendBreaks, Happens
    <3>3. CASE \E l \in Loops : OpenFails(l) \/ CaptureFails(l)
      BY <1>2, <3>3, FailsAnnounced DEF OpenFails, CaptureFails, Happens
    <3> QED BY <1>2, <2>1, <3>1, <3>2, <3>3, CommandsAnnounced, StopsAnnounced, ReconnectAnnounced, OpensAnnounced, ExitAnnounced,
                FramesAnnounced, SendAnnounced, RoutesAnnounced, CleanUpAnnounced DEF Unseen
  <2>2. CASE \E p \in Paths : RouteFrame(p) \/ RouteThrottled(p) BY <1>2, <2>2, RoutesAnnounced
  <2>3. CASE \E p \in Paths : BroadcastInit(p) BY <1>1, <2>3 DEF BroadcastInit
  <2>4. CASE \E v \in Viewers : Viewer(v) BY <1>1, <2>4, ViewerMoves DEF SetView, relayVars
  <2> QED BY <1>2, <2>1, <2>2, <2>3, <2>4, NextIs
<1>3. CASE UNCHANGED vars BY <1>1, <1>3 DEF vars, relayVars
<1> QED BY <1>2, <1>3

\* When all that was posted has been routed, the snapshot says running exactly if
\* a pipeline captures (agent/desktop/mod.rs, start and stop; the uplink's drain;
\* ws.rs, desktop_states).  The invariant: what has been announced but not yet
\* arrived, in its order, leaves the snapshot at what the pipelines do.
THEOREM SnapshotsAreTrue == Spec => []SnapshotIsTrue
<1> DEFINE Inv == Seated /\ Orders /\ OneWay /\ Announced
<1>1. Init => Inv
  <2> SUFFICES ASSUME Init PROVE Inv OBVIOUS
  <2>1. Orders /\ OneWay BY DEF Init, Orders, OneWay, Paths, Socket
  <2>2. paths["ws"] = <<>> /\ queue = <<>> BY DEF Init, Paths, Socket
  <2>3. Pending = <<>> BY <2>2 DEF Pending
  <2>4. Final = FALSE BY <2>3, SiftedEmpty DEF Final, Verdict, Init
  <2>5. ~Working BY DEF Init, Working
  <2> QED BY <2>1, <2>4, <2>5, InitSeated DEF Announced
<1>2. Inv /\ [Next]_vars => Inv' BY NextSeated, NextOrders, NextOneWay, NextAnnounced DEF Seated
<1>3. Inv => SnapshotIsTrue
  <2> SUFFICES ASSUME Inv, Quiet, Idle, queue = <<>>, \A l \in Loops : loops[l].pc = "none" \/ (running /\ loops[l].pc = "capturing")
               PROVE  known = Working
    BY DEF SnapshotIsTrue, Quiet, Working
  <2>1. Pending = <<>> BY DEF Pending, Idle, Socket
  <2>2. Final = known BY <2>1, SiftedEmpty DEF Final, Verdict
  <2>3. ~Opening /\ (Working => running) BY DEF Opening, Working
  <2>4. known \in BOOLEAN /\ Working \in BOOLEAN BY DEF Seated, VideoTyped, StreamsTyped, Working
  <2> QED BY <2>2, <2>3, <2>4 DEF Announced
<1> QED BY <1>1, <1>2, <1>3, PTL DEF Spec

-----------------------------------------------------------------------------
(* The encoders along a queue.                                             *)
IsFrame(m) == m.type \in {"key", "delta"}
\* The inits before a place, and the encoder of the last; before the first, any of B
Before(q, i) == {j \in DOMAIN q : j < i /\ q[j].type = "init"}
Allowed(q, i, B) ==
    {e \in B : Before(q, i) = {}}
    \cup {q[j].enc : j \in {j \in Before(q, i) : \A k \in Before(q, i) : k <= j}}
Ends(q, B) == Allowed(q, Len(q) + 1, B)
\* Every frame is of the encoder of the last init before it.
Fed(q, B) == \A i \in DOMAIN q : IsFrame(q[i]) => q[i].enc \in Allowed(q, i, B)

LEMMA BeforeAppend ==
    ASSUME NEW S, NEW q \in Seq(S), NEW m, NEW i \in 1 .. (Len(q) + 1), NEW B
    PROVE  Before(Append(q, m), i) = Before(q, i) /\ Allowed(Append(q, m), i, B) = Allowed(q, i, B)
<1> DEFINE a == Append(q, m)
           n == Len(q)
<1>1. n \in Nat /\ DOMAIN q = 1 .. n /\ DOMAIN a = 1 .. (n + 1) /\ \A j \in 1 .. n : a[j] = q[j] BY AppendIs
<1> HIDE DEF a, n
<1>2. \A j \in 1 .. (n + 1) : j < i => j \in 1 .. n BY <1>1 DEF n
<1>3. \A j \in 1 .. n : j \in 1 .. (n + 1) BY <1>1
<1>4. Before(a, i) = Before(q, i) BY <1>1, <1>2, <1>3 DEF Before
<1>5. \A j \in Before(q, i) : a[j].enc = q[j].enc BY <1>1 DEF Before
<1>6. Allowed(a, i, B) = Allowed(q, i, B) BY <1>4, <1>5 DEF Allowed
<1> QED BY <1>4, <1>6 DEF a

LEMMA EndsAppend ==
    ASSUME NEW S, NEW q \in Seq(S), NEW m, NEW B
    PROVE  Ends(Append(q, m), B) = IF m.type = "init" THEN {m.enc} ELSE Ends(q, B)
<1> DEFINE a == Append(q, m)
           n == Len(q)
<1>1. /\ n \in Nat /\ DOMAIN q = 1 .. n /\ DOMAIN a = 1 .. (n + 1) /\ Len(a) = n + 1
      /\ a[n + 1] = m /\ \A j \in 1 .. n : a[j] = q[j]
  BY AppendIs
<1> HIDE DEF a, n
<1>2. \A j \in 1 .. (n + 1) : j < n + 2 /\ (j < n + 1 <=> j \in 1 .. n) /\ j <= n + 1 /\ (j = n + 1 \/ j \in 1 .. n) BY <1>1
<1>3. \A j \in 1 .. n : j \in 1 .. (n + 1) /\ j < n + 1 /\ j < n + 2 /\ ~(n + 1 <= j) BY <1>1
<1>4. n + 1 \in 1 .. (n + 1) /\ n + 1 + 1 = n + 2 BY <1>1
<1>5. CASE m.type = "init"
  <2>1. n + 1 \in Before(a, n + 2) /\ \A k \in Before(a, n + 2) : k <= n + 1 BY <1>1, <1>2, <1>4, <1>5 DEF Before
  <2>2. \A j \in Before(a, n + 2) : n + 1 <= j => j = n + 1
    <3>1. \A j \in Before(a, n + 2) : j \in 1 .. (n + 1) BY <1>1 DEF Before
    <3> QED BY <1>1, <3>1
  <2>3. {j \in Before(a, n + 2) : \A k \in Before(a, n + 2) : k <= j} = {n + 1} BY <2>1, <2>2
  <2>4. Allowed(a, n + 2, B) = {m.enc} BY <1>1, <2>1, <2>3 DEF Allowed
  <2> QED BY <1>1, <1>4, <1>5, <2>4 DEF Ends, a
<1>6. CASE m.type # "init"
  <2>1. Before(a, n + 2) = Before(q, n + 1) BY <1>1, <1>2, <1>3, <1>6 DEF Before
  <2>2. \A j \in Before(q, n + 1) : a[j].enc = q[j].enc BY <1>1 DEF Before
  <2>3. Allowed(a, n + 2, B) = Allowed(q, n + 1, B) BY <2>1, <2>2 DEF Allowed
  <2> QED BY <1>1, <1>4, <1>6, <2>3 DEF Ends, a, n
<1> QED BY <1>5, <1>6

LEMMA FedAppend ==
    ASSUME NEW S, NEW q \in Seq(S), NEW m, NEW B
    PROVE  Fed(Append(q, m), B) <=> Fed(q, B) /\ (IsFrame(m) => m.enc \in Ends(q, B))
<1> DEFINE a == Append(q, m)
           n == Len(q)
<1>1. /\ n \in Nat /\ DOMAIN q = 1 .. n /\ DOMAIN a = 1 .. (n + 1)
      /\ a[n + 1] = m /\ \A j \in 1 .. n : a[j] = q[j]
  BY AppendIs
<1>2. \A i \in 1 .. (n + 1) : Allowed(a, i, B) = Allowed(q, i, B) BY BeforeAppend
<1> HIDE DEF a, n
<1>3. \A i \in 1 .. (n + 1) : i = n + 1 \/ i \in 1 .. n BY <1>1
<1>4. n + 1 \in 1 .. (n + 1) /\ \A i \in 1 .. n : i \in 1 .. (n + 1) BY <1>1
<1>5. Fed(a, B) => Fed(q, B) /\ (IsFrame(m) => m.enc \in Allowed(q, n + 1, B)) BY <1>1, <1>2, <1>4 DEF Fed
<1>6. Fed(q, B) /\ (IsFrame(m) => m.enc \in Allowed(q, n + 1, B)) => Fed(a, B) BY <1>1, <1>2, <1>3 DEF Fed
<1> QED BY <1>5, <1>6 DEF Ends, a, n

LEMMA FedEmpty == ASSUME NEW B PROVE Fed(<<>>, B) /\ Ends(<<>>, B) = B
<1>1. DOMAIN <<>> = {} OBVIOUS
<1>2. \A i : Before(<<>>, i) = {} BY <1>1 DEF Before
<1> QED BY <1>1, <1>2 DEF Fed, Ends, Allowed

LEMMA FedJoined ==
    ASSUME NEW S, NEW a \in Seq(S), NEW b \in Seq(S), NEW B
    PROVE  /\ Ends(a \o b, B) = Ends(b, Ends(a, B))
           /\ Fed(a \o b, B) <=> Fed(a, B) /\ Fed(b, Ends(a, B))
<1> DEFINE C == Ends(a, B)
           P == {q \in Seq(S) : Ends(a \o q, B) = Ends(q, C) /\ (Fed(a \o q, B) <=> Fed(a, B) /\ Fed(q, C))}
<1>1. <<>> \in P
  <2>1. a \o <<>> = a BY ConcatEmptySeq
  <2>2. <<>> \in Seq(S) OBVIOUS
  <2>3. Fed(<<>>, C) /\ Ends(<<>>, C) = C BY FedEmpty
  <2> QED BY <2>1, <2>2, <2>3
<1>2. ASSUME NEW q \in P, NEW m \in S PROVE Append(q, m) \in P
  <2> DEFINE x == a \o q
             y == Append(q, m)
  <2>1. q \in Seq(S) /\ x \in Seq(S) /\ y \in Seq(S) BY ConcatProperties
  <2>2. a \o y = Append(x, m) BY <2>1, ConcatAppend
  <2>3. Ends(x, B) = Ends(q, C) /\ (Fed(x, B) <=> Fed(a, B) /\ Fed(q, C)) OBVIOUS
  <2> HIDE DEF x, C
  <2>4. /\ Ends(Append(x, m), B) = IF m.type = "init" THEN {m.enc} ELSE Ends(x, B)
        /\ Fed(Append(x, m), B) <=> Fed(x, B) /\ (IsFrame(m) => m.enc \in Ends(x, B))
    BY <2>1, EndsAppend, FedAppend
  <2>5. /\ Ends(y, C) = IF m.type = "init" THEN {m.enc} ELSE Ends(q, C)
        /\ Fed(y, C) <=> Fed(q, C) /\ (IsFrame(m) => m.enc \in Ends(q, C))
    BY <2>1, EndsAppend, FedAppend
  <2> HIDE DEF y
  <2>6. Ends(a \o y, B) = Ends(y, C) BY <2>2, <2>3, <2>4, <2>5
  <2>7. Fed(a \o y, B) <=> Fed(a, B) /\ Fed(y, C) BY <2>2, <2>3, <2>4, <2>5
  <2> QED BY <2>1, <2>6, <2>7 DEF y
<1> HIDE DEF P
<1>3. P = Seq(S)
  <2>1. P \in SUBSET Seq(S) BY DEF P
  <2> QED BY <1>1, <1>2, <2>1, AppendByAppend
<1>4. b \in P BY <1>3
<1> QED BY <1>4 DEF P

LEMMA FedConcat ==
    ASSUME NEW a \in Seq(Message), NEW b \in Seq(Message), NEW B
    PROVE  /\ Ends(a \o b, B) = Ends(b, Ends(a, B))
           /\ Fed(a \o b, B) <=> Fed(a, B) /\ Fed(b, Ends(a, B))
BY FedJoined

\* The first of a queue, and the others
LEMMA FedFirst ==
    ASSUME NEW S, NEW q \in Seq(S), q # <<>>, NEW B, NEW C, C = IF Head(q).type = "init" THEN {Head(q).enc} ELSE B
    PROVE  /\ Ends(q, B) = Ends(Tail(q), C)
           /\ Fed(q, B) <=> (IsFrame(Head(q)) => Head(q).enc \in B) /\ Fed(Tail(q), C)
<1> DEFINE m == Head(q)
           h == <<m>>
           t == Tail(q)
<1>1. m \in S /\ t \in Seq(S) /\ h \in Seq(S) /\ q = h \o t BY HeadTail
<1>2. h = Append(<<>>, m) /\ <<>> \in Seq(S) OBVIOUS
<1>3. C = IF m.type = "init" THEN {m.enc} ELSE B OBVIOUS
<1> HIDE DEF m, t
<1>4. Ends(Append(<<>>, m), B) = IF m.type = "init" THEN {m.enc} ELSE Ends(<<>>, B) BY <1>1, <1>2, EndsAppend
<1>5. Fed(Append(<<>>, m), B) <=> Fed(<<>>, B) /\ (IsFrame(m) => m.enc \in Ends(<<>>, B)) BY <1>1, <1>2, FedAppend
<1>6. Ends(h, B) = C /\ (Fed(h, B) <=> (IsFrame(m) => m.enc \in B)) BY <1>2, <1>3, <1>4, <1>5, FedEmpty
<1> HIDE DEF h
<1>7. /\ Ends(h \o t, B) = Ends(t, Ends(h, B))
      /\ Fed(h \o t, B) <=> Fed(h, B) /\ Fed(t, Ends(h, B))
  BY <1>1, FedJoined
<1> QED BY <1>1, <1>6, <1>7 DEF m, t

\* Of a queue only the pictures count.
LEMMA FedVideo ==
    ASSUME NEW b \in Seq(Message), NEW B
    PROVE  /\ Ends(Sifted(b, Video), B) = Ends(b, B)
           /\ Fed(Sifted(b, Video), B) <=> Fed(b, B)
<1> DEFINE v(q) == Sifted(q, Video)
           P == {q \in Seq(Message) : Ends(v(q), B) = Ends(q, B) /\ (Fed(v(q), B) <=> Fed(q, B))}
<1>1. <<>> \in P
  <2>1. <<>> \in Seq(Message) OBVIOUS
  <2> QED BY <2>1, SiftedEmpty
<1>2. ASSUME NEW q \in P, NEW m \in Message PROVE Append(q, m) \in P
  <2> DEFINE y == Append(q, m)
  <2>1. q \in Seq(Message) /\ v(q) \in Seq(Message) /\ y \in Seq(Message) BY SiftedTyped
  <2>2. v(y) = IF m.type \in Video THEN Append(v(q), m) ELSE v(q) BY <2>1, SiftedAppend
  <2>3. Ends(v(q), B) = Ends(q, B) /\ (Fed(v(q), B) <=> Fed(q, B)) OBVIOUS
  <2> DEFINE z == v(q)
  <2>4. /\ Ends(Append(z, m), B) = IF m.type = "init" THEN {m.enc} ELSE Ends(z, B)
        /\ Fed(Append(z, m), B) <=> Fed(z, B) /\ (IsFrame(m) => m.enc \in Ends(z, B))
    BY <2>1, EndsAppend, FedAppend
  <2>5. /\ Ends(y, B) = IF m.type = "init" THEN {m.enc} ELSE Ends(q, B)
        /\ Fed(y, B) <=> Fed(q, B) /\ (IsFrame(m) => m.enc \in Ends(q, B))
    BY <2>1, EndsAppend, FedAppend
  <2>6. m.type \notin Video => m.type # "init" /\ ~IsFrame(m) BY DEF Video, IsFrame
  <2> HIDE DEF y, v
  <2>7. Ends(v(y), B) = Ends(y, B) /\ (Fed(v(y), B) <=> Fed(y, B)) BY <2>2, <2>3, <2>4, <2>5, <2>6
  <2> QED BY <2>1, <2>7 DEF y
<1> HIDE DEF P
<1>3. P = Seq(Message)
  <2>1. P \in SUBSET Seq(Message) BY DEF P
  <2> QED BY <1>1, <1>2, <2>1, AppendByAppend
<1>4. b \in P BY <1>3
<1> QED BY <1>4 DEF P

LEMMA FedMore == ASSUME NEW q, NEW B, NEW C, B \subseteq C, Fed(q, B) PROVE Fed(q, C)
BY DEF Fed, Allowed
LEMMA EndsMore == ASSUME NEW q, NEW B, NEW C, B \subseteq C PROVE Ends(q, B) \subseteq Ends(q, C)
BY DEF Ends, Allowed

\* Without an init
LEMMA NoInits ==
    ASSUME NEW q \in Seq(Message), Sifted(q, {"init"}) = <<>>, NEW B PROVE Ends(q, B) = B
<1>1. \A i \in DOMAIN q : q[i].type # "init"
  <2>1. \A i \in DOMAIN q : Has(q, q[i]) BY DEF Has
  <2>2. \A x : ~Has(Sifted(q, {"init"}), x) BY DEF Has
  <2> QED BY <2>1, <2>2, SiftedHas
<1>2. \A i : Before(q, i) = {} BY <1>1 DEF Before
<1> QED BY <1>2 DEF Ends, Allowed

LEMMA SiftedFiner ==
    ASSUME NEW b \in Seq(Message), NEW K, NEW L, L \subseteq K PROVE Sifted(Sifted(b, K), L) = Sifted(b, L)
<1> DEFINE P == {q \in Seq(Message) : Sifted(Sifted(q, K), L) = Sifted(q, L)}
<1>1. <<>> \in P
  <2>1. <<>> \in Seq(Message) OBVIOUS
  <2> QED BY <2>1, SiftedEmpty
<1>2. ASSUME NEW q \in P, NEW m \in Message PROVE Append(q, m) \in P
  <2> DEFINE y == Append(q, m)
             k == Sifted(q, K)
  <2>1. q \in Seq(Message) /\ k \in Seq(Message) /\ y \in Seq(Message) BY SiftedTyped
  <2>2. Sifted(k, L) = Sifted(q, L) OBVIOUS
  <2>3. Sifted(y, K) = IF m.type \in K THEN Append(k, m) ELSE k BY <2>1, SiftedAppend
  <2>4. Sifted(y, L) = IF m.type \in L THEN Append(Sifted(q, L), m) ELSE Sifted(q, L) BY <2>1, SiftedAppend
  <2> HIDE DEF k
  <2>5. Sifted(Append(k, m), L) = IF m.type \in L THEN Append(Sifted(k, L), m) ELSE Sifted(k, L) BY <2>1, SiftedAppend
  <2> HIDE DEF y
  <2>6. Sifted(Sifted(y, K), L) = Sifted(y, L) BY <2>2, <2>3, <2>4, <2>5
  <2> QED BY <2>1, <2>6 DEF y
<1> HIDE DEF P
<1>3. P = Seq(Message)
  <2>1. P \in SUBSET Seq(Message) BY DEF P
  <2> QED BY <1>1, <1>2, <2>1, AppendByAppend
<1> QED BY <1>3 DEF P

LEMMA InitsCounted ==
    ASSUME NEW b \in Seq(Message)
    PROVE  IsFiniteSet(Inits(b)) /\ Cardinality(Inits(b)) = Len(Sifted(b, {"init"}))
<1> DEFINE P == {q \in Seq(Message) : IsFiniteSet(Inits(q)) /\ Cardinality(Inits(q)) = Len(Sifted(q, {"init"}))}
<1>1. <<>> \in P
  <2>1. <<>> \in Seq(Message) /\ DOMAIN <<>> = {} /\ Len(<<>>) = 0 OBVIOUS
  <2>2. Inits(<<>>) = {} BY <2>1 DEF Inits
  <2> QED BY <2>1, <2>2, SiftedEmpty, FS_EmptySet
<1>2. ASSUME NEW q \in P, NEW m \in Message PROVE Append(q, m) \in P
  <2> DEFINE y == Append(q, m)
             n == Len(q)
             I == {"init"}
             k == Sifted(q, I)
  <2>1. /\ n \in Nat /\ DOMAIN q = 1 .. n /\ DOMAIN y = 1 .. (n + 1)
        /\ y[n + 1] = m /\ \A j \in 1 .. n : y[j] = q[j]
    BY AppendIs
  <2>2. q \in Seq(Message) /\ y \in Seq(Message) /\ k \in Seq(Message) BY SiftedTyped
  <2>3. IsFiniteSet(Inits(q)) /\ Cardinality(Inits(q)) = Len(k) OBVIOUS
  <2>4. Sifted(y, I) = IF m.type \in I THEN Append(k, m) ELSE k BY <2>2, SiftedAppend
  <2>5. Len(k) \in Nat /\ Len(Append(k, m)) = Len(k) + 1 BY <2>2, AppendIs
  <2> HIDE DEF y, k, n
  <2>6. \A j \in 1 .. (n + 1) : j = n + 1 \/ j \in 1 .. n BY <2>1
  <2>7. n + 1 \in 1 .. (n + 1) /\ n + 1 \notin 1 .. n /\ \A j \in 1 .. n : j \in 1 .. (n + 1) BY <2>1
  <2>8. CASE m.type = "init"
    <3>1. Inits(y) = Inits(q) \cup {n + 1} BY <2>1, <2>6, <2>7, <2>8 DEF Inits
    <3>2. n + 1 \notin Inits(q) BY <2>1, <2>7 DEF Inits
    <3>3. IsFiniteSet(Inits(y)) /\ Cardinality(Inits(y)) = Cardinality(Inits(q)) + 1
      BY <2>3, <3>1, <3>2, FS_AddElement
    <3> QED BY <2>2, <2>3, <2>4, <2>5, <2>8, <3>3 DEF y
  <2>9. CASE m.type # "init"
    <3>1. Inits(y) = Inits(q) BY <2>1, <2>6, <2>7, <2>9 DEF Inits
    <3> QED BY <2>2, <2>3, <2>4, <2>9, <3>1 DEF y
  <2> QED BY <2>8, <2>9
<1> HIDE DEF P
<1>3. P = Seq(Message)
  <2>1. P \in SUBSET Seq(Message) BY DEF P
  <2> QED BY <1>1, <1>2, <2>1, AppendByAppend
<1> QED BY <1>3 DEF P

\* Encoders from r to t, in the order they were made
Up(s, r, t) ==
    /\ r <= t
    /\ \A i \in DOMAIN s : r <= s[i].enc /\ s[i].enc <= t /\ \A j \in DOMAIN s : j < i => s[j].enc <= s[i].enc

LEMMA UpAppend ==
    ASSUME NEW s \in Seq(Message), NEW m \in Message, NEW r \in Nat, Up(s, r, m.enc)
    PROVE  Up(Append(s, m), r, m.enc)
<1> DEFINE a == Append(s, m)
           n == Len(s)
<1>1. /\ n \in Nat /\ DOMAIN s = 1 .. n /\ DOMAIN a = 1 .. (n + 1)
      /\ a[n + 1] = m /\ \A j \in 1 .. n : a[j] = s[j]
  BY AppendIs
<1>2. m.enc \in Nat BY DEF Message
<1> HIDE DEF a, n
<1>3. \A i \in 1 .. (n + 1) : /\ i = n + 1 \/ i \in 1 .. n
                              /\ \A j \in 1 .. (n + 1) : j < i => j \in 1 .. n
  BY <1>1
<1>4. \A i \in 1 .. (n + 1) : r <= a[i].enc /\ a[i].enc <= m.enc BY <1>1, <1>2, <1>3 DEF Up
<1>5. \A i \in 1 .. (n + 1) : \A j \in 1 .. (n + 1) : j < i => a[j].enc <= a[i].enc BY <1>1, <1>3 DEF Up
<1> QED BY <1>1, <1>4, <1>5 DEF Up, a

LEMMA UpFirst ==
    ASSUME NEW s \in Seq(Message), NEW m \in Message, NEW r \in Nat, NEW t \in Nat, Up(<<m>> \o s, r, t)
    PROVE  r <= m.enc /\ m.enc <= t /\ Up(s, m.enc, t)
<1> DEFINE h == <<m>>
           c == h \o s
           n == Len(s)
<1>1. h \in Seq(Message) /\ Len(h) = 1 /\ h[1] = m /\ n \in Nat /\ DOMAIN s = 1 .. n OBVIOUS
<1> HIDE DEF h
<1>2. c \in Seq(Message) /\ Len(c) = 1 + n /\ \A i \in 1 .. 1 + n : c[i] = IF i <= 1 THEN h[i] ELSE s[i - 1]
  <2>1. /\ h \o s \in Seq(Message) /\ Len(h \o s) = Len(h) + Len(s)
        /\ \A i \in 1 .. Len(h) + Len(s) : (h \o s)[i] = IF i <= Len(h) THEN h[i] ELSE s[i - Len(h)]
    BY <1>1, ConcatProperties
  <2> QED BY <1>1, <2>1
<1>3. Up(c, r, t) BY DEF h
<1> HIDE DEF c, n
<1>4. DOMAIN c = 1 .. 1 + n BY <1>2
<1>5. 1 \in 1 .. 1 + n /\ c[1] = m BY <1>1, <1>2
<1>6. \A i \in 1 .. n : i + 1 \in 1 .. 1 + n /\ c[i + 1] = s[i] /\ 1 < i + 1
  <2> SUFFICES ASSUME NEW i \in 1 .. n PROVE i + 1 \in 1 .. 1 + n /\ c[i + 1] = s[i] /\ 1 < i + 1 OBVIOUS
  <2>1. i + 1 \in 1 .. 1 + n /\ ~(i + 1 <= 1) /\ (i + 1) - 1 = i /\ 1 < i + 1 BY <1>1
  <2> QED BY <1>2, <2>1
<1>7. \A i \in 1 .. n : m.enc <= s[i].enc /\ s[i].enc <= t BY <1>3, <1>4, <1>5, <1>6 DEF Up
<1>8. \A i \in 1 .. n, j \in 1 .. n : j < i => j + 1 < i + 1 BY <1>1
<1>9. \A i \in 1 .. n, j \in 1 .. n : j < i => s[j].enc <= s[i].enc BY <1>3, <1>4, <1>6, <1>8 DEF Up
<1>10. r <= m.enc /\ m.enc <= t BY <1>3, <1>4, <1>5 DEF Up
<1> QED BY <1>1, <1>7, <1>9, <1>10 DEF Up

LEMMA UpLater ==
    ASSUME NEW s \in Seq(Message), NEW r \in Nat, NEW t \in Nat, NEW u \in Nat, t <= u, Up(s, r, t) PROVE Up(s, r, u)
<1>1. \A i \in DOMAIN s : s[i] \in Message OBVIOUS
<1>2. \A i \in DOMAIN s : s[i].enc \in Nat BY <1>1 DEF Message
<1> QED BY <1>2 DEF Up

-----------------------------------------------------------------------------
(* One pipeline at a time, as long as a stop waits for the one it stops.   *)
Nothing == \A l \in Loops : loops[l].pc = "none"
Lone ==
    "slow" \notin scene.kinds =>
        /\ \A l \in Loops : loops[l].pc # "none" => task = l
        /\ ~running /\ cmd \in {"idle", "left"} => Nothing
        /\ \A l \in Loops : loops[l].pc = "capturing" => loops[l].enc = encs

LEMMA LoneStays ==
    ASSUME VideoTyped, Lone, [Next]_vars, loops' = loops, task' = task, encs' = encs,
           "slow" \notin scene.kinds => (~running' /\ cmd' \in {"idle", "left"} => Nothing)
    PROVE  Lone'
<1>1. scene'.kinds = scene.kinds BY KindsStay
<1> QED BY <1>1 DEF Lone, Nothing

LEMMA LoneStarts ==
    ASSUME VideoTyped, Nothing, ~running, Start, encs' = encs PROVE Lone'
<1>1. AgentTyped BY DEF VideoTyped
<1>2. PICK l \in Loops : /\ running' = TRUE /\ task' = l /\ loops'[l].pc = "opening"
                         /\ \A k \in Loops : k # l => loops'[k] = loops[k]
  BY <1>1, StartIs
<1>3. \A k \in Loops : k # l => loops'[k].pc = "none" BY <1>2 DEF Nothing
<1> QED BY <1>2, <1>3 DEF Lone

\* A pipeline that ends
LEMMA LoneEnds ==
    ASSUME VideoTyped, Lone, [Next]_vars, NEW l \in Loops, loops' = [loops EXCEPT ![l].pc = "none"],
           UNCHANGED <<running, cmd, task, encs>>
    PROVE  Lone'
<1>1. AgentTyped /\ scene'.kinds = scene.kinds BY KindsStay DEF VideoTyped
<1>2. loops'[l].pc = "none" /\ \A k \in Loops : k # l => loops'[k] = loops[k] BY <1>1, LoopIsNow
<1> QED BY <1>1, <1>2 DEF Lone, Nothing

\* A new encoder
LEMMA LoneEncoder ==
    ASSUME VideoTyped, Lone, [Next]_vars, NEW l \in Loops, loops[l].pc \in {"opening", "capturing"},
           loops'[l].pc = "capturing", loops'[l].enc = encs', \A k \in Loops : k # l => loops'[k] = loops[k],
           UNCHANGED <<running, cmd, task>>
    PROVE  Lone'
<1>1. scene'.kinds = scene.kinds BY KindsStay
<1> SUFFICES ASSUME "slow" \notin scene.kinds PROVE Lone' BY <1>1 DEF Lone
<1>2. task = l /\ \A k \in Loops : k # l => loops[k].pc = "none" BY DEF Lone
<1>3. ~Nothing BY DEF Nothing
<1> QED BY <1>2, <1>3 DEF Lone

LEMMA NextLone == ASSUME VideoTyped, Orders, Lone, [Next]_vars PROVE Lone'
<1>1. AgentTyped /\ scene'.kinds = scene.kinds BY KindsStay DEF VideoTyped
<1>2. ASSUME "slow" \in scene.kinds PROVE Lone' BY <1>1, <1>2 DEF Lone
<1> SUFFICES ASSUME "slow" \notin scene.kinds PROVE Lone' BY <1>2
<1>3. CASE UNCHANGED agentVars BY <1>3, LoneStays DEF agentVars, Lone
<1>4. CASE Commands
  <2>1. CASE StartCmd
    <3>1. CASE running BY <2>1, <3>1, LoneStays DEF StartCmd, Start, Lone
    <3>2. CASE ~running
      <4>1. Nothing BY <2>1, <3>2 DEF StartCmd, Lone
      <4> QED BY <2>1, <3>2, <4>1, LoneStarts DEF StartCmd
    <3> QED BY <3>1, <3>2
  <2>2. CASE StopCmd BY <2>2, LoneStays DEF StopCmd
  <2>3. CASE RestartCmd BY <2>3, LoneStays DEF RestartCmd
  <2>4. CASE SessionEnds
    <3>1. UNCHANGED <<loops, task, encs>> /\ cmd = "idle" /\ cmd' = IF running THEN "leaving" ELSE "left"
      BY <2>4 DEF SessionEnds
    <3>2. cmd' \in {"idle", "left"} => ~running BY <3>1
    <3> QED BY <3>1, <3>2, LoneStays DEF Lone
  <2> QED BY <1>4, <2>1, <2>2, <2>3, <2>4 DEF Commands
<1>5. CASE StopDone \/ StopTimeout
  <2>1. StopDone BY <1>5 DEF StopTimeout, Happens
  <2>2. Stopping /\ Stopped /\ Ended(task) /\ ~running BY <2>1 DEF StopDone, Orders, Stopping
  <2>3. Nothing
    <3> SUFFICES ASSUME NEW l \in Loops, loops[l].pc # "none" PROVE FALSE BY DEF Nothing
    <3>1. task = l /\ l # None BY DEF Lone, Loops, None
    <3> QED BY <2>2, <3>1 DEF Ended
  <2>4. encs' = encs BY <2>2 DEF Stopped
  <2>5. CASE cmd = "restarting"
    <3>1. Start BY <2>2, <2>5 DEF Stopped
    <3> QED BY <2>2, <2>3, <2>4, <3>1, LoneStarts
  <2>6. CASE cmd # "restarting"
    <3>1. loops' = loops BY <2>2, <2>6 DEF Stopped
    <3> QED BY <2>3, <3>1 DEF Lone, Nothing
  <2> QED BY <2>5, <2>6
<1>6. CASE Reconnect
  <2>1. ~running /\ Nothing /\ encs' = encs BY <1>6 DEF Reconnect, Orders, Lone
  <2>2. CASE want BY <1>6, <2>1, <2>2, LoneStarts DEF Reconnect
  <2>3. CASE ~want BY <1>6, <2>1, <2>3, LoneStays DEF Reconnect
  <2> QED BY <2>2, <2>3
<1>7. ASSUME NEW l \in Loops, Open(l) PROVE Lone'
  <2>1. loops' = [loops EXCEPT ![l] = [pc |-> "capturing", enc |-> encs', inited |-> FALSE]]
        /\ loops[l].pc = "opening" /\ UNCHANGED <<running, cmd, task>>
    BY <1>7 DEF Open
  <2>2. loops'[l].pc = "capturing" /\ loops'[l].enc = encs' /\ \A k \in Loops : k # l => loops'[k] = loops[k]
    BY <1>1, <2>1 DEF AgentTyped
  <2> QED BY <2>1, <2>2, LoneEncoder
<1>8. ASSUME NEW l \in Loops, OpenFails(l) \/ Exit(l) \/ CaptureFails(l) PROVE Lone'
  BY <1>8, LoneEnds DEF OpenFails, Exit, CaptureFails
<1>9. ASSUME NEW l \in Loops, KeyFrame(l) PROVE Lone'
  <2>1. loops' = [loops EXCEPT ![l].inited = TRUE] /\ loops[l].pc = "capturing" /\ UNCHANGED <<running, cmd, task, encs>>
    BY <1>9 DEF KeyFrame, Capturing
  <2>2. loops[l] \in LoopSet /\ loops \in [Loops -> LoopSet] BY <1>1 DEF AgentTyped
  <2>3. [loops[l] EXCEPT !.inited = TRUE].pc = loops[l].pc /\ [loops[l] EXCEPT !.inited = TRUE].enc = loops[l].enc
    BY <2>2 DEF LoopSet
  <2>4. /\ loops'[l].pc = "capturing" /\ loops'[l].enc = loops[l].enc /\ \A k \in Loops : k # l => loops'[k] = loops[k]
    BY <2>1, <2>2, <2>3
  <2>5. loops[l].enc = encs BY <2>1 DEF Lone
  <2> QED BY <2>1, <2>4, <2>5, LoneEncoder
<1>10. ASSUME NEW l \in Loops, Delta(l) PROVE Lone' BY <1>3, <1>10 DEF Delta
<1>11. ASSUME NEW l \in Loops, Rebuild(l) PROVE Lone'
  <2>1. loops[l] \in LoopSet /\ loops \in [Loops -> LoopSet] BY <1>1 DEF AgentTyped
  <2>2. loops' = [loops EXCEPT ![l] = [[loops[l] EXCEPT !.enc = encs'] EXCEPT !.inited = FALSE]]
        /\ loops[l].pc = "capturing" /\ UNCHANGED <<running, cmd, task>>
    BY <1>11, <2>1 DEF Rebuild, Capturing
  <2>3. [[loops[l] EXCEPT !.enc = encs'] EXCEPT !.inited = FALSE].pc = loops[l].pc
        /\ [[loops[l] EXCEPT !.enc = encs'] EXCEPT !.inited = FALSE].enc = encs'
    BY <2>1 DEF LoopSet
  <2>4. loops'[l].pc = "capturing" /\ loops'[l].enc = encs' /\ \A k \in Loops : k # l => loops'[k] = loops[k]
    BY <2>1, <2>2, <2>3
  <2> QED BY <2>2, <2>4, LoneEncoder
<1>12. CASE Send \/ SendBreaks BY <1>3, <1>12, RoundsLeave
<1>13. CASE \E p \in Paths : Route(p) \/ RouteThrottled(p)
  BY <1>3, <1>13 DEF Route, RouteThrottled, RouteStarted, RouteStopped, RouteInit, RouteFrame, BroadcastInit
<1>14. CASE Revoke BY <1>3, <1>14 DEF Revoke
<1>15. CASE CleanUp BY <1>15, LoneStays DEF CleanUp, Lone
<1>16. CASE \E v \in Viewers : Viewer(v) BY <1>3, <1>16, ViewerMoves DEF SetView
<1>17. CASE UNCHANGED vars BY <1>3, <1>17 DEF vars
<1> QED BY <1>4, <1>5, <1>6, <1>7, <1>8, <1>9, <1>10, <1>11, <1>12, <1>13, <1>14, <1>15, <1>16, <1>17
        DEF Next, Command, Pipeline, Mishap

-----------------------------------------------------------------------------
(***************************************************************************)
(* From an encoder to its viewers.  r is the encoder of the last init that *)
(* was routed.                                                             *)
(***************************************************************************)
InitsOf(q) == Sifted(q, {"init"})
Made(r) ==
    /\ Fed(Pending, {r}) /\ Up(InitsOf(Pending), r, encs)
    /\ \A l \in Loops : loops[l].pc = "capturing" /\ loops[l].inited => loops[l].enc \in Ends(Pending, {r})
Cached(r) ==
    /\ stream # None /\ caches[stream] # None => caches[stream] = r
    /\ posted["ws"].ds # None => posted["ws"].enc = r /\ (posted["ws"].ds = stream => caches[stream] = r)
\* What a viewer can decode before it gets an init
Bound(w, r) ==
    IF w.pc = "watching" THEN 0 .. w.sees
    ELSE IF caches[w.ds] = None THEN 0 .. r ELSE 0 .. caches[w.ds]
Served(w, r) ==
    /\ \A i \in DOMAIN w.chan : w.chan[i].enc <= r
    /\ Fed(w.chan, Bound(w, r))
    /\ w.pc = "watching" => caches[w.ds] # None
    /\ w.in /\ w.ds = stream /\ posted["ws"].ds # stream => r \in Ends(w.chan, Bound(w, r))
Watched(r) == \A v \in Viewers : view[v].pc # "away" => Served(view[v], r)
Undisturbed == ~lost /\ scene.kinds \cap {"slow", "ws", "late"} = {}
Fresh ==
    Undisturbed => /\ posted["http"].ds = None /\ posted["old"].ds = None
                   /\ \E r \in Nat : Made(r) /\ Cached(r) /\ Watched(r)

\* One more message of a pipeline
Continues(q, r, e) == Fed(q, {r}) /\ Up(InitsOf(q), r, e)

LEMMA ContinuesWith ==
    ASSUME NEW q \in Seq(Message), NEW m \in Message, NEW r \in Nat, Continues(q, r, encs),
           IsFrame(m) => m.enc \in Ends(q, {r}), m.type = "init" => m.enc = encs
    PROVE  /\ Append(q, m) \in Seq(Message) /\ Continues(Append(q, m), r, encs)
           /\ Ends(Append(q, m), {r}) = IF m.type = "init" THEN {m.enc} ELSE Ends(q, {r})
<1> DEFINE a == Append(q, m)
<1>1. a \in Seq(Message) OBVIOUS
<1>2. Ends(a, {r}) = IF m.type = "init" THEN {m.enc} ELSE Ends(q, {r}) BY EndsAppend
<1>3. Fed(a, {r}) BY FedAppend DEF Continues
<1>4. InitsOf(a) = IF m.type \in {"init"} THEN Append(InitsOf(q), m) ELSE InitsOf(q) BY SiftedAppend DEF InitsOf
<1>5. InitsOf(q) \in Seq(Message) BY SiftedTyped DEF InitsOf
<1> HIDE DEF a
<1>6. Up(InitsOf(a), r, encs)
  <2>1. CASE m.type = "init"
    <3>1. Up(InitsOf(q), r, m.enc) BY <2>1 DEF Continues
    <3>2. Up(Append(InitsOf(q), m), r, m.enc) BY <1>5, <3>1, UpAppend
    <3> QED BY <1>4, <2>1, <3>2
  <2>2. CASE m.type # "init" BY <1>4, <2>2 DEF Continues
  <2> QED BY <2>1, <2>2
<1> QED BY <1>1, <1>2, <1>3, <1>6 DEF Continues, a

\* The relay's and the viewers' part, where only the agent moves
LEMMA AgentFresh ==
    ASSUME VideoTyped, Fresh, [Next]_vars, UNCHANGED <<relayVars, view, lost>>,
           ASSUME NEW r \in Nat, Undisturbed, Made(r) PROVE Made(r)'
    PROVE  Fresh'
<1>1. Undisturbed' = Undisturbed BY KindsStay DEF Undisturbed
<1> SUFFICES ASSUME Undisturbed
             PROVE  (posted["http"].ds = None /\ posted["old"].ds = None /\ \E r \in Nat : Made(r) /\ Cached(r) /\ Watched(r))'
  BY <1>1 DEF Fresh
<1>2. posted' = posted /\ posted["http"].ds = None /\ posted["old"].ds = None BY DEF Fresh, relayVars
<1>3. PICK r \in Nat : Made(r) /\ Cached(r) /\ Watched(r) BY DEF Fresh
<1>4. Made(r)' BY <1>3
<1>5. Cached(r)' BY <1>3 DEF Cached, relayVars
<1>6. Watched(r)' BY <1>3 DEF Watched, Served, Bound, relayVars
<1> QED BY <1>2, <1>4, <1>5, <1>6

LEMMA SameMade ==
    ASSUME NEW r \in Nat, Made(r), Pending' = Pending, encs' = encs,
           \A l \in Loops : loops'[l] = loops[l] \/ loops'[l].pc # "capturing" \/ ~loops'[l].inited
    PROVE  Made(r)'
BY DEF Made

\* A started or a stopped
LEMMA ControlMade ==
    ASSUME VideoTyped, NEW r \in Nat, Made(r), NEW m \in Message, m.type \in Control, Post(<<m>>), paths' = paths,
           encs' \in Nat, encs <= encs',
           \A l \in Loops : loops'[l] = loops[l] \/ loops'[l].pc # "capturing" \/ ~loops'[l].inited
    PROVE  Made(r)'
<1>1. QueuesTyped /\ encs \in Nat BY DEF VideoTyped, AgentTyped
<1>2. Pending \in Seq(Message) BY <1>1, PendingTyped
<1>3. Pending' = Append(Pending, m)
  <2>1. <<m>> \in Seq(Message) OBVIOUS
  <2>2. Pending' = Pending \o <<m>> BY <1>1, <2>1, PostedPending DEF Post
  <2> QED BY <1>2, <2>2, AppendIsConcat
<1>4. ~IsFrame(m) /\ m.type # "init" BY DEF Control, IsFrame
<1>5. Continues(Pending', r, encs) /\ Ends(Pending', {r}) = Ends(Pending, {r}) BY <1>2, <1>3, <1>4, ContinuesWith DEF Made, Continues
<1>6. Up(InitsOf(Pending'), r, encs')
  <2> DEFINE a == Append(Pending, m)
  <2>1. a \in Seq(Message) BY <1>2
  <2>2. InitsOf(a) \in Seq(Message)
    <3> HIDE DEF a
    <3> QED BY <2>1, SiftedTyped DEF InitsOf
  <2>3. InitsOf(Pending') \in Seq(Message) BY <1>3, <2>2
  <2> QED BY <1>1, <1>5, <2>3, UpLater DEF Continues
<1> QED BY <1>5, <1>6 DEF Made, Continues

LEMMA StartLoops ==
    ASSUME AgentTyped, Start
    PROVE  \A l \in Loops : loops'[l] = loops[l] \/ loops'[l].pc # "capturing" \/ ~loops'[l].inited
<1>1. CASE running BY <1>1 DEF Start
<1>2. CASE ~running BY <1>2, StartIs
<1> QED BY <1>1, <1>2

LEMMA CommandsFresh == ASSUME VideoTyped, Fresh, Next, Commands PROVE Fresh'
<1>1. AgentTyped BY DEF VideoTyped
<1>2. UNCHANGED <<relayVars, view, lost, queue, paths, encs>> BY DEF Commands, StartCmd, StopCmd, RestartCmd, SessionEnds, past
<1>3. Pending' = Pending BY <1>2 DEF Pending
<1>4. \A l \in Loops : loops'[l] = loops[l] \/ loops'[l].pc # "capturing" \/ ~loops'[l].inited
  BY <1>1, StartLoops DEF Commands, StartCmd, StopCmd, RestartCmd, SessionEnds
<1>5. ASSUME NEW r \in Nat, Made(r) PROVE Made(r)' BY <1>2, <1>3, <1>4, <1>5, SameMade
<1> QED BY <1>2, <1>5, AgentFresh

LEMMA StopsFresh == ASSUME VideoTyped, Fresh, Next, StopDone \/ StopTimeout PROVE Fresh'
<1>1. AgentTyped /\ Stopped BY DEF VideoTyped, StopDone, StopTimeout
<1>2. UNCHANGED <<relayVars, view, lost, paths, encs>> /\ Post(<<Msg("stopped", None)>>) BY <1>1 DEF Stopped, past
<1>3. \A l \in Loops : loops'[l] = loops[l] \/ loops'[l].pc # "capturing" \/ ~loops'[l].inited
  <2>1. CASE cmd = "restarting" BY <1>1, <2>1, StartLoops DEF Stopped
  <2>2. CASE cmd # "restarting" BY <1>1, <2>2 DEF Stopped
  <2> QED BY <2>1, <2>2
<1>4. ASSUME NEW r \in Nat, Made(r) PROVE Made(r)'
  <2> DEFINE m == Msg("stopped", None)
  <2>1. m \in Message /\ m.type = "stopped" BY MsgTyped DEF None
  <2>2. encs' \in Nat /\ encs <= encs' BY <1>1, <1>2 DEF AgentTyped
  <2>3. Post(<<m>>) /\ paths' = paths BY <1>2
  <2> HIDE DEF m
  <2>4. m.type \in Control BY <2>1 DEF Control
  <2> QED BY <1>3, <1>4, <2>1, <2>2, <2>3, <2>4, ControlMade
<1> QED BY <1>2, <1>4, AgentFresh

LEMMA ReconnectFresh == ASSUME VideoTyped, OneWay, Fresh, Next, Reconnect PROVE Fresh'
<1>1. AgentTyped /\ QueuesTyped BY DEF VideoTyped
<1>2. UNCHANGED <<relayVars, view, lost, encs>> BY DEF Reconnect
<1>3. \A l \in Loops : loops'[l] = loops[l] \/ loops'[l].pc # "capturing" \/ ~loops'[l].inited
  BY <1>1, StartLoops DEF Reconnect
<1>4. ASSUME NEW r \in Nat, Undisturbed, Made(r) PROVE Made(r)'
  <2>1. "late" \notin scene.kinds /\ paths["old"] = <<>> BY <1>4 DEF Undisturbed, OneWay
  <2>2. queue = <<>> /\ queue' = <<>> /\ \A p \in Paths : paths[p] = <<>> /\ paths'[p] = <<>>
    BY <1>1, <2>1, ReconnectEmpties
  <2>3. "ws" \in Paths BY DEF Paths, Socket
  <2>4. Pending' = Pending BY <2>2, <2>3 DEF Pending
  <2> QED BY <1>2, <1>3, <1>4, <2>4, SameMade
<1> QED BY <1>2, <1>4, AgentFresh

LEMMA OpensFresh == ASSUME VideoTyped, Fresh, Next, NEW l \in Loops, Open(l) \/ OpenFails(l) \/ Exit(l) \/ CaptureFails(l) PROVE Fresh'
<1>1. AgentTyped /\ encs \in Nat BY DEF VideoTyped, AgentTyped
<1>2. UNCHANGED <<relayVars, view, lost, paths>> BY DEF Open, OpenFails, Exit, CaptureFails, past
<1>3. encs' \in Nat /\ encs <= encs' BY <1>1 DEF Open, OpenFails, Exit, CaptureFails
<1>4. \A k \in Loops : loops'[k] = loops[k] \/ loops'[k].pc # "capturing" \/ ~loops'[k].inited
  <2>1. CASE Open(l)
    <3>1. loops' = [loops EXCEPT ![l] = [pc |-> "capturing", enc |-> encs', inited |-> FALSE]] BY <2>1 DEF Open
    <3> QED BY <1>1, <3>1 DEF AgentTyped
  <2>2. CASE OpenFails(l) \/ Exit(l) \/ CaptureFails(l)
    <3>1. loops' = [loops EXCEPT ![l].pc = "none"] BY <2>2 DEF OpenFails, Exit, CaptureFails
    <3>2. loops'[l].pc = "none" /\ \A k \in Loops : k # l => loops'[k] = loops[k] BY <1>1, <3>1, LoopIsNow
    <3> QED BY <3>2
  <2> QED BY <2>1, <2>2
<1>5. PICK m \in Message : Post(<<m>>) /\ m.type \in Control
  <2>1. CASE Open(l)
    <3>1. Post(<<Msg("started", encs')>>) BY <2>1 DEF Open
    <3>2. Msg("started", encs') \in Message /\ Msg("started", encs').type \in Control BY <1>3, MsgTyped DEF Control
    <3> QED BY <3>1, <3>2
  <2>2. CASE OpenFails(l)
    <3>1. Post(<<Msg("started", None)>>) BY <2>2 DEF OpenFails
    <3>2. Msg("started", None) \in Message /\ Msg("started", None).type \in Control BY MsgTyped DEF Control, None
    <3> QED BY <3>1, <3>2
  <2>3. CASE Exit(l) \/ CaptureFails(l)
    <3>1. Post(<<Msg("stopped", None)>>) BY <2>3 DEF Exit, CaptureFails
    <3>2. Msg("stopped", None) \in Message /\ Msg("stopped", None).type \in Control BY MsgTyped DEF Control, None
    <3> QED BY <3>1, <3>2
  <2> QED BY <2>1, <2>2, <2>3
<1>6. ASSUME NEW r \in Nat, Made(r) PROVE Made(r)' BY <1>2, <1>3, <1>4, <1>5, <1>6, ControlMade
<1> QED BY <1>2, <1>6, AgentFresh

LEMMA KeyFresh == ASSUME VideoTyped, Lone, Fresh, Next, NEW l \in Loops, KeyFrame(l) PROVE Fresh'
<1>1. AgentTyped /\ QueuesTyped /\ encs \in Nat BY DEF VideoTyped, AgentTyped
<1>2. UNCHANGED <<relayVars, view, lost, paths, encs>> BY DEF KeyFrame, past
<1>3. ASSUME NEW r \in Nat, Undisturbed, Made(r) PROVE Made(r)'
  <2> DEFINE e == loops[l].enc
             i == Msg("init", e)
             k == Msg("key", e)
             q == IF loops[l].inited THEN Pending ELSE Append(Pending, i)
  <2>1. "slow" \notin scene.kinds /\ loops[l].pc = "capturing" BY <1>3 DEF Undisturbed, KeyFrame, Capturing
  <2>2. e = encs /\ \A m \in Loops : m # l => loops[m].pc = "none" BY <2>1 DEF Lone
  <2>3. i \in Message /\ i.type = "init" /\ i.enc = e /\ k \in Message /\ k.type = "key" /\ k.enc = e
    BY <1>1, LoopIs, MsgTyped
  <2>4. Pending \in Seq(Message) /\ Continues(Pending, r, encs) BY <1>1, <1>3, PendingTyped DEF Made, Continues
  <2>5. loops[l].inited \in BOOLEAN /\ (loops[l].inited => e \in Ends(Pending, {r})) BY <1>1, <1>3, <2>1, LoopIs DEF Made
  <2>6. Pending' = Append(q, k)
    <3>1. CASE loops[l].inited
      <4>1. Keyed(l) = <<k>> /\ <<k>> \in Seq(Message) BY <2>3, <3>1 DEF Keyed
      <4>2. Pending' = Pending \o <<k>> BY <1>1, <1>2, <4>1, PostedPending DEF KeyFrame, Keyed, Post
      <4> HIDE DEF k
      <4> QED BY <2>3, <2>4, <3>1, <4>2, AppendIsConcat
    <3>2. CASE ~loops[l].inited
      <4>1. Keyed(l) = <<i>> \o <<k>> /\ Keyed(l) \in Seq(Message) BY <1>1, <3>2, KeyedTyped DEF Keyed
      <4>2. Pending' = Pending \o Keyed(l) BY <1>1, <1>2, <4>1, PostedPending DEF KeyFrame, Keyed, Post
      <4> HIDE DEF i, k
      <4>3. <<i>> \in Seq(Message) /\ <<k>> \in Seq(Message) BY <2>3
      <4>4. (Pending \o <<i>>) \o <<k>> = Pending \o (<<i>> \o <<k>>) BY ONLY <2>4, <4>3, ConcatAssociative
      <4>5. Pending \o <<i>> = Append(Pending, i) BY <2>3, <2>4, AppendIsConcat
      <4>6. Append(Pending, i) \in Seq(Message) BY <2>3, <2>4
      <4>7. Append(Append(Pending, i), k) = Append(Pending, i) \o <<k>> BY ONLY <2>3, <4>6, AppendIsConcat
      <4> QED BY <3>2, <4>1, <4>2, <4>4, <4>5, <4>7
    <3> QED BY <2>5, <3>1, <3>2
  <2> HIDE DEF i, k
  <2>7. q \in Seq(Message) /\ Continues(q, r, encs) /\ e \in Ends(q, {r})
    <3>1. CASE loops[l].inited BY <2>4, <2>5, <3>1
    <3>2. CASE ~loops[l].inited
      <4>1. ~IsFrame(i) BY <2>3 DEF IsFrame
      <4>2. /\ Append(Pending, i) \in Seq(Message) /\ Continues(Append(Pending, i), r, encs)
            /\ Ends(Append(Pending, i), {r}) = {i.enc}
        BY <2>2, <2>3, <2>4, <4>1, ContinuesWith
      <4> QED BY <2>3, <3>2, <4>2
    <3> QED BY <2>5, <3>1, <3>2
  <2> HIDE DEF q
  <2>8. k.type # "init" BY <2>3
  <2>9. Continues(Append(q, k), r, encs) /\ Ends(Append(q, k), {r}) = Ends(q, {r})
    BY <2>2, <2>3, <2>7, <2>8, ContinuesWith DEF IsFrame
  <2>10. /\ \A m \in Loops : m # l => loops'[m].pc = "none"
         /\ loops'[l].enc = e
    <3>1. loops' = [loops EXCEPT ![l].inited = TRUE] BY DEF KeyFrame
    <3>2. loops[l] \in LoopSet /\ loops \in [Loops -> LoopSet] BY <1>1 DEF AgentTyped
    <3>3. [loops[l] EXCEPT !.inited = TRUE].enc = loops[l].enc BY <3>2 DEF LoopSet
    <3> QED BY <2>2, <3>1, <3>2, <3>3
  <2> QED BY <1>2, <2>6, <2>7, <2>9, <2>10 DEF Made, Continues
<1> QED BY <1>2, <1>3, AgentFresh

LEMMA DeltaFresh == ASSUME VideoTyped, Fresh, Next, NEW l \in Loops, Delta(l) PROVE Fresh'
<1>1. AgentTyped /\ QueuesTyped BY DEF VideoTyped
<1>2. UNCHANGED <<relayVars, view, lost, paths, agentVars>> BY DEF Delta, past
<1>3. ASSUME NEW r \in Nat, Made(r) PROVE Made(r)'
  <2> DEFINE k == Msg("delta", loops[l].enc)
  <2>1. k \in Message /\ k.type = "delta" /\ k.enc = loops[l].enc BY <1>1, LoopIs, MsgTyped
  <2>2. Post(<<k>>) /\ loops[l].pc = "capturing" /\ loops[l].inited BY DEF Delta, Capturing
  <2> HIDE DEF k
  <2>3. Pending \in Seq(Message) /\ Continues(Pending, r, encs) /\ k.enc \in Ends(Pending, {r})
    BY <1>1, <1>3, <2>1, <2>2, PendingTyped DEF Made, Continues
  <2>4. Pending' = Append(Pending, k)
    <3>1. <<k>> \in Seq(Message) BY <2>1
    <3>2. Pending' = Pending \o <<k>> BY <1>1, <1>2, <2>2, <3>1, PostedPending DEF Post
    <3> QED BY <2>1, <2>3, <3>2, AppendIsConcat
  <2>5. k.type # "init" BY <2>1
  <2>6. Continues(Append(Pending, k), r, encs) /\ Ends(Append(Pending, k), {r}) = Ends(Pending, {r})
    BY <2>1, <2>3, <2>5, ContinuesWith
  <2> QED BY <1>2, <1>3, <2>4, <2>6 DEF Made, Continues, agentVars
<1> QED BY <1>2, <1>3, AgentFresh

LEMMA RebuildFresh == ASSUME VideoTyped, Fresh, Next, NEW l \in Loops, Rebuild(l) PROVE Fresh'
<1>1. AgentTyped /\ QueuesTyped /\ encs \in Nat BY DEF VideoTyped, AgentTyped
<1>2. UNCHANGED <<relayVars, view, lost, paths, queue>> BY DEF Rebuild, past
<1>3. ASSUME NEW r \in Nat, Made(r) PROVE Made(r)'
  <2>1. Pending' = Pending /\ Pending \in Seq(Message) BY <1>1, <1>2, PendingTyped DEF Pending
  <2>2. encs' \in Nat /\ encs <= encs' BY <1>1 DEF Rebuild
  <2>3. InitsOf(Pending) \in Seq(Message) BY <2>1, SiftedTyped DEF InitsOf
  <2>4. Up(InitsOf(Pending), r, encs') BY <1>1, <1>3, <2>2, <2>3, UpLater DEF Made
  <2>5. \A k \in Loops : loops'[k] = loops[k] \/ ~loops'[k].inited
    <3>1. loops[l] \in LoopSet /\ loops \in [Loops -> LoopSet] BY <1>1 DEF AgentTyped
    <3>2. loops' = [loops EXCEPT ![l] = [[loops[l] EXCEPT !.enc = encs'] EXCEPT !.inited = FALSE]]
      BY <3>1 DEF Rebuild
    <3>3. [[loops[l] EXCEPT !.enc = encs'] EXCEPT !.inited = FALSE].inited = FALSE BY <3>1 DEF LoopSet
    <3> QED BY <3>1, <3>2, <3>3
  <2> QED BY <1>3, <2>1, <2>4, <2>5 DEF Made
<1> QED BY <1>2, <1>3, AgentFresh

LEMMA InitsSum ==
    ASSUME NEW a \in Seq(Message), NEW b \in Seq(Message)
    PROVE  InitsOf(a \o b) = InitsOf(a) \o InitsOf(b)
BY SiftedConcat DEF InitsOf

LEMMA VideoSum ==
    ASSUME NEW a \in Seq(Message), NEW b \in Seq(Message)
    PROVE  Sifted(a \o b, Video) = Sifted(a, Video) \o Sifted(b, Video)
BY SiftedConcat

\* A round that drops no init: the encoders of what is left are as they were.
LEMMA RoundKeepsInits ==
    ASSUME QueuesTyped, NEW n \in 1 .. Len(queue), ~InitDropped(n, Outgoing(n)), NEW B
    PROVE  /\ InitsOf(Outgoing(n) \o Left(n)) = InitsOf(queue)
           /\ Fed(queue, B) => Fed(Outgoing(n) \o Left(n), B)
           /\ Ends(Outgoing(n) \o Left(n), B) = Ends(queue, B)
<1>1. queue \in Seq(Message) BY DEF QueuesTyped
<1> DEFINE a == Taken(n)
           b == Overdue(Rest(n))
           c == Left(n)
           k == Sifted(Batch(n), Video)
           w == Newest(k, MaxPending)
           d == SubSeq(k, 1, Len(k) - Len(w))
           g == Sifted(Batch(n), Control)
           o == Outgoing(n)
           s == Sifted(b, Control)
           I == {"init"}
<1>2. /\ a \in Seq(Message) /\ b \in Seq(Message) /\ c \in Seq(Message) /\ queue = a \o (b \o c)
      /\ Batch(n) \in Seq(Message) /\ Batch(n) = a \o s
  BY <1>1, RoundSplits
<1>3. k \in Seq(Message) /\ g \in Seq(Message) /\ s \in Seq(Message) BY <1>2, SiftedTyped
<1>4. w \in Seq(Message) /\ d \in Seq(Message) /\ k = d \o w
  <2>1. MaxPending \in Nat BY DesktopAssumption
  <2> HIDE DEF k
  <2> QED BY <1>3, <2>1, NewestSplits
<1>5. o \in Seq(Message) /\ o = g \o w BY <1>1, OutgoingTyped DEF Outgoing
<1>6. I \subseteq Video /\ \A t : t \in Control => t \notin Video /\ t \notin I BY DEF Video, Control
<1>7. \A q \in Seq(Message) : Sifted(Sifted(q, Control), Video) = <<>> /\ Sifted(Sifted(q, Control), I) = <<>>
  <2> SUFFICES ASSUME NEW q \in Seq(Message) PROVE Sifted(Sifted(q, Control), Video) = <<>> /\ Sifted(Sifted(q, Control), I) = <<>>
    OBVIOUS
  <2> DEFINE f == Sifted(q, Control)
  <2>1. f \in Seq(Message) BY SiftedTyped
  <2>2. \A i \in DOMAIN f : f[i].type \in Control
    <3>1. \A x : Has(f, x) => x.type \in Control BY SiftedHas
    <3> HIDE DEF f
    <3>2. \A i \in DOMAIN f : Has(f, f[i]) BY DEF Has
    <3> QED BY <3>1, <3>2
  <2> HIDE DEF f
  <2>3. Sifted(f, Video) = <<>> BY <1>6, <2>1, <2>2, SiftedNone
  <2>4. Sifted(f, I) = <<>> BY <1>6, <2>1, <2>2, SiftedNone
  <2> QED BY <2>3, <2>4 DEF f
<1>9. \A x \in Seq(Message) : \A K : Sifted(x, K) \in Seq(Message) BY SiftedTyped
<1>10. \A x \in Seq(Message) : x \o <<>> = x /\ <<>> \o x = x BY ConcatEmptySeq
<1>11. k = Sifted(a, Video)
  <2>1. Sifted(Batch(n), Video) = Sifted(a, Video) \o Sifted(s, Video)
    <3> HIDE DEF a, s
    <3> QED BY <1>2, <1>3, VideoSum
  <2>2. Sifted(s, Video) = <<>> BY <1>2, <1>7
  <2>3. Sifted(a, Video) \in Seq(Message) BY <1>2, <1>9
  <2> QED BY <1>10, <2>1, <2>2, <2>3
<1>12. Sifted(k, I) = Sifted(a, I)
  <2>1. Sifted(Sifted(a, Video), I) = Sifted(a, I) BY <1>2, <1>6, SiftedFiner
  <2> QED BY <1>11, <2>1
<1>13. Sifted(g, I) = <<>> /\ Sifted(g, Video) = <<>> BY <1>2, <1>7
<1>14. Left(n) = Newest(SubSeq(queue, n + 1, Len(queue)), MaxPending) BY DEF Left, Rest
<1>15. ~(Cardinality(Inits(queue)) > Cardinality(Inits(o)) + Cardinality(Inits(c))) BY <1>14 DEF InitDropped
<1>16. /\ Cardinality(Inits(queue)) = Len(Sifted(queue, I))
       /\ Cardinality(Inits(o)) = Len(Sifted(o, I)) /\ Cardinality(Inits(c)) = Len(Sifted(c, I))
  BY <1>1, <1>2, <1>5, InitsCounted
<1> HIDE DEF a, b, c, k, w, d, g, o, s
<1>17. b \o c \in Seq(Message) BY <1>2, ConcatProperties
<1>18. Sifted(queue, I) = Sifted(a, I) \o (Sifted(b, I) \o Sifted(c, I))
  <2>1. Sifted(b \o c, I) = Sifted(b, I) \o Sifted(c, I) BY <1>2, InitsSum DEF InitsOf
  <2>2. Sifted(a \o (b \o c), I) = Sifted(a, I) \o Sifted(b \o c, I) BY <1>2, <1>17, InitsSum DEF InitsOf
  <2> QED BY <1>2, <2>1, <2>2
<1>19. Sifted(a, I) = Sifted(d, I) \o Sifted(w, I)
  <2>1. Sifted(d \o w, I) = Sifted(d, I) \o Sifted(w, I) BY <1>4, InitsSum DEF InitsOf
  <2> QED BY <1>4, <1>12, <2>1
<1>20. Sifted(o, I) = Sifted(w, I)
  <2>1. Sifted(g \o w, I) = Sifted(g, I) \o Sifted(w, I) BY <1>3, <1>4, InitsSum DEF InitsOf
  <2>2. Sifted(w, I) \in Seq(Message) BY <1>4, <1>9
  <2> QED BY <1>5, <1>10, <1>13, <2>1, <2>2
<1> DEFINE Ia == Sifted(a, I)
           Ib == Sifted(b, I)
           Ic == Sifted(c, I)
           Id == Sifted(d, I)
           Iw == Sifted(w, I)
<1>21. Ia \in Seq(Message) /\ Ib \in Seq(Message) /\ Ic \in Seq(Message) /\ Id \in Seq(Message) /\ Iw \in Seq(Message)
  BY <1>2, <1>4, <1>9
<1>22. Ia = Id \o Iw /\ Sifted(queue, I) = Ia \o (Ib \o Ic) /\ Sifted(o, I) = Iw BY <1>18, <1>19, <1>20
<1>23. ~(Len(Sifted(queue, I)) > Len(Iw) + Len(Ic)) BY <1>15, <1>16, <1>20
<1> HIDE DEF Ia, Ib, Ic, Id, Iw
<1>24. Id = <<>> /\ Ib = <<>>
  <2>1. Len(Ia) = Len(Id) + Len(Iw) BY <1>21, <1>22, ConcatProperties
  <2>2. Ib \o Ic \in Seq(Message) /\ Len(Ib \o Ic) = Len(Ib) + Len(Ic) BY <1>21, ConcatProperties
  <2>3. Len(Ia \o (Ib \o Ic)) = Len(Ia) + Len(Ib \o Ic) BY <1>21, <2>2, ConcatProperties
  <2> DEFINE x == Len(Id)
             y == Len(Ib)
             z == Len(Iw)
             u == Len(Ic)
  <2>4. x \in Nat /\ y \in Nat /\ z \in Nat /\ u \in Nat BY <1>21, LenProperties
  <2>5. Len(Sifted(queue, I)) = (x + z) + (y + u) BY <1>22, <2>1, <2>2, <2>3
  <2>6. ~((x + z) + (y + u) > z + u) BY <1>23, <2>5
  <2> HIDE DEF x, y, z, u
  <2>7. x = 0 /\ y = 0 BY <2>4, <2>6
  <2> QED BY <1>21, <2>7, EmptySeq DEF x, y
<1>25. InitsOf(o \o c) = InitsOf(queue)
  <2>1. Sifted(o \o c, I) = Sifted(o, I) \o Sifted(c, I) BY <1>2, <1>5, InitsSum DEF InitsOf
  <2>2. Sifted(o \o c, I) = Iw \o Ic BY <1>22, <2>1 DEF Ic
  <2>3. Ia = Iw /\ Ib \o Ic = Ic BY <1>10, <1>21, <1>22, <1>24
  <2> QED BY <1>22, <2>2, <2>3 DEF InitsOf
<1>26. Ends(b, Ends(a, B)) = Ends(a, B) /\ Ends(d, B) = B /\ Ends(g, B) = B
  BY <1>2, <1>3, <1>4, <1>13, <1>24, NoInits DEF Ib, Id
<1>27. /\ Ends(queue, B) = Ends(c, Ends(a, B))
       /\ Fed(queue, B) => Fed(a, B) /\ Fed(c, Ends(a, B))
  <2>1. /\ Ends(a \o (b \o c), B) = Ends(b \o c, Ends(a, B))
        /\ Fed(a \o (b \o c), B) <=> Fed(a, B) /\ Fed(b \o c, Ends(a, B))
    BY <1>2, <1>17, FedConcat
  <2>2. /\ Ends(b \o c, Ends(a, B)) = Ends(c, Ends(b, Ends(a, B)))
        /\ Fed(b \o c, Ends(a, B)) <=> Fed(b, Ends(a, B)) /\ Fed(c, Ends(b, Ends(a, B)))
    BY <1>2, FedConcat
  <2> QED BY <1>2, <1>26, <2>1, <2>2
<1>28. Ends(w, B) = Ends(a, B) /\ (Fed(a, B) => Fed(w, B))
  <2>1. Ends(Sifted(a, Video), B) = Ends(a, B) /\ (Fed(Sifted(a, Video), B) <=> Fed(a, B)) BY <1>2, FedVideo
  <2>2. Ends(d \o w, B) = Ends(w, Ends(d, B)) /\ (Fed(d \o w, B) <=> Fed(d, B) /\ Fed(w, Ends(d, B))) BY <1>4, FedConcat
  <2> QED BY <1>4, <1>11, <1>26, <2>1, <2>2
<1>29. Fed(g, B)
  <2>1. Fed(Sifted(g, Video), B) <=> Fed(g, B) BY <1>3, FedVideo
  <2> QED BY <1>13, <2>1, FedEmpty
<1>30. Ends(o, B) = Ends(w, B) /\ (Fed(w, B) => Fed(o, B))
  <2>1. Ends(g \o w, B) = Ends(w, Ends(g, B)) /\ (Fed(g \o w, B) <=> Fed(g, B) /\ Fed(w, Ends(g, B))) BY <1>3, <1>4, FedConcat
  <2> QED BY <1>5, <1>26, <1>29, <2>1
<1>31. Ends(o \o c, B) = Ends(c, Ends(o, B)) /\ (Fed(o \o c, B) <=> Fed(o, B) /\ Fed(c, Ends(o, B)))
  <2>1. o \in Seq(Message) /\ c \in Seq(Message) BY <1>2, <1>5
  <2> HIDE DEF o, c
  <2> QED BY ONLY <2>1, FedConcat
<1>32. Ends(o \o c, B) = Ends(queue, B) BY <1>27, <1>28, <1>30, <1>31
<1>33. Fed(queue, B) => Fed(o \o c, B) BY <1>27, <1>28, <1>30, <1>31
<1> QED BY <1>25, <1>32, <1>33 DEF o, c

\* The encoders of a sequence are those of another of the same types and encoders.
LEMMA FedAlike ==
    ASSUME NEW s \in Seq(Message), NEW t \in Seq(Message), Len(t) = Len(s), NEW B,
           \A i \in 1 .. Len(s) : t[i].type = s[i].type /\ t[i].enc = s[i].enc
    PROVE  Ends(t, B) = Ends(s, B) /\ (Fed(t, B) <=> Fed(s, B))
<1>1. DOMAIN s = 1 .. Len(s) /\ DOMAIN t = DOMAIN s OBVIOUS
<1>2. \A i : Before(t, i) = Before(s, i) BY <1>1 DEF Before
<1>3. \A i : \A j \in Before(s, i) : t[j].enc = s[j].enc BY <1>1 DEF Before
<1>4. \A i : Allowed(t, i, B) = Allowed(s, i, B)
  <2> SUFFICES ASSUME NEW i PROVE Allowed(t, i, B) = Allowed(s, i, B) OBVIOUS
  <2> DEFINE J == {j \in Before(s, i) : \A k \in Before(s, i) : k <= j}
  <2>1. {t[j].enc : j \in J} = {s[j].enc : j \in J} BY <1>3
  <2> QED BY <1>2, <2>1 DEF Allowed
<1> QED BY <1>1, <1>4 DEF Ends, Fed, IsFrame

LEMMA CutKeepsInits ==
    ASSUME QueuesTyped, NEW n \in 1 .. Len(queue), ~InitDropped(n, Outgoing(n)), NEW B, NEW G
    PROVE  /\ InitsOf(WithCuts(Outgoing(n), G) \o Left(n)) = InitsOf(queue)
           /\ Fed(queue, B) => Fed(WithCuts(Outgoing(n), G) \o Left(n), B)
           /\ Ends(WithCuts(Outgoing(n), G) \o Left(n), B) = Ends(queue, B)
<1> DEFINE o == Outgoing(n)
           t == WithCuts(o, G)
           c == Left(n)
<1>1. o \in Seq(Message) /\ c \in Seq(Message) BY RoundSplits, OutgoingTyped DEF QueuesTyped
<1>2. /\ InitsOf(o \o c) = InitsOf(queue) /\ Ends(o \o c, B) = Ends(queue, B)
      /\ Fed(queue, B) => Fed(o \o c, B)
  BY RoundKeepsInits
<1> HIDE DEF o, c
<1>3. /\ t \in Seq(Message) /\ Len(t) = Len(o) /\ InitsOf(t) = InitsOf(o)
      /\ \A i \in 1 .. Len(o) : t[i].type = o[i].type /\ t[i].enc = o[i].enc
  <2>1. t \in Seq(Message) /\ Len(t) = Len(o) BY <1>1, CutKeeps
  <2>2. ASSUME NEW i \in 1 .. Len(o) PROVE t[i].type = o[i].type /\ t[i].enc = o[i].enc BY <1>1, CutKeeps
  <2>3. InitsOf(t) = InitsOf(o) BY <1>1, CutSifts DEF InitsOf
  <2> QED BY <2>1, <2>2, <2>3
<1> HIDE DEF t
<1>4. InitsOf(t \o c) = InitsOf(o \o c)
  <2>1. InitsOf(t \o c) = InitsOf(t) \o InitsOf(c) BY <1>1, <1>3, InitsSum
  <2>2. InitsOf(o \o c) = InitsOf(o) \o InitsOf(c) BY <1>1, InitsSum
  <2> QED BY <1>3, <2>1, <2>2
<1>5. \A A : Ends(t, A) = Ends(o, A) /\ (Fed(t, A) <=> Fed(o, A)) BY <1>1, <1>3, FedAlike
<1>7. Ends(t \o c, B) = Ends(o \o c, B) /\ (Fed(t \o c, B) <=> Fed(o \o c, B))
  <2>1. Ends(t \o c, B) = Ends(c, Ends(t, B)) /\ (Fed(t \o c, B) <=> Fed(t, B) /\ Fed(c, Ends(t, B)))
    BY <1>1, <1>3, FedConcat
  <2>2. Ends(o \o c, B) = Ends(c, Ends(o, B)) /\ (Fed(o \o c, B) <=> Fed(o, B) /\ Fed(c, Ends(o, B)))
    BY <1>1, FedConcat
  <2>3. Ends(t, B) = Ends(o, B) /\ (Fed(t, B) <=> Fed(o, B)) BY <1>5
  <2> QED BY <2>1, <2>2, <2>3
<1> QED BY <1>2, <1>4, <1>7 DEF o, c, t

LEMMA SendFresh == ASSUME VideoTyped, Fresh, Next, Send PROVE Fresh'
<1>1. QueuesTyped /\ ViewsTyped BY DEF VideoTyped
<1>2. PICK n \in 1 .. Len(queue) :
        /\ queue' = Left(n) /\ lost' = (lost \/ InitDropped(n, Outgoing(n)))
        /\ UNCHANGED <<agentVars, relayVars, view>>
        /\ paths' = [paths EXCEPT !["ws"] = WithCuts(Outgoing(n), Missing(n))]
  BY SendIs
<1>3. /\ queue' = Left(n) /\ UNCHANGED <<agentVars, relayVars, view>>
      /\ lost' = (lost \/ InitDropped(n, Outgoing(n)))
  BY <1>2
<1>4. "ws" \in Paths /\ paths["ws"] = <<>> BY SendIs DEF Idle, Paths, Socket
<1>5. paths'["ws"] = WithCuts(Outgoing(n), Missing(n)) BY <1>1, <1>2, <1>4 DEF QueuesTyped
<1>6. Pending' = WithCuts(Outgoing(n), Missing(n)) \o Left(n) BY <1>3, <1>5 DEF Pending
<1>7. Pending = queue BY <1>1, <1>4, ConcatEmptySeq DEF Pending, QueuesTyped
<1>8. scene'.kinds = scene.kinds BY KindsStay
<1> SUFFICES ASSUME Undisturbed'
             PROVE  (posted["http"].ds = None /\ posted["old"].ds = None /\ \E r \in Nat : Made(r) /\ Cached(r) /\ Watched(r))'
  BY DEF Fresh
<1>9. Undisturbed /\ ~InitDropped(n, Outgoing(n)) BY <1>3, <1>8 DEF Undisturbed
<1>10. posted' = posted /\ posted["http"].ds = None /\ posted["old"].ds = None BY <1>3, <1>9 DEF Fresh, relayVars
<1>11. PICK r \in Nat : Made(r) /\ Cached(r) /\ Watched(r) BY <1>9 DEF Fresh
<1>12. /\ InitsOf(Pending') = InitsOf(Pending)
       /\ Fed(Pending, {r}) => Fed(Pending', {r})
       /\ Ends(Pending', {r}) = Ends(Pending, {r})
  BY <1>1, <1>6, <1>7, <1>9, CutKeepsInits
<1>13. Made(r)' BY <1>3, <1>11, <1>12 DEF Made, agentVars
<1>14. Cached(r)' BY <1>3, <1>11 DEF Cached, relayVars
<1>15. Watched(r)' BY <1>3, <1>11 DEF Watched, Served, Bound, relayVars
<1> QED BY <1>10, <1>13, <1>14, <1>15

\* A message leaves the socket; e is the encoder of the last init then.
LEMMA RoutedMade ==
    ASSUME QueuesTyped, encs \in Nat, NEW r \in Nat, Made(r), Routing("ws"), Routed("ws"), UNCHANGED <<agentVars, queue>>,
           NEW e, e = IF Head(paths["ws"]).type = "init" THEN Head(paths["ws"]).enc ELSE r
    PROVE  /\ Head(paths["ws"]) \in Message /\ e \in Nat /\ r <= e /\ Made(e)'
           /\ IsFrame(Head(paths["ws"])) => Head(paths["ws"]).enc = r
<1> DEFINE m == Head(paths["ws"])
           h == <<m>>
           q == Pending'
<1>1. m \in Message /\ q \in Seq(Message) /\ Pending = h \o q BY RoutedFirst
<1>2. h \in Seq(Message) /\ h = Append(<<>>, m) /\ <<>> \in Seq(Message) BY <1>1
<1>3. e \in Nat BY <1>1 DEF Message
<1>4. Fed(h, {r}) <=> (IsFrame(m) => m.enc = r)
  <2>1. Fed(Append(<<>>, m), {r}) <=> Fed(<<>>, {r}) /\ (IsFrame(m) => m.enc \in Ends(<<>>, {r})) BY ONLY <1>2, FedAppend
  <2>2. Fed(<<>>, {r}) /\ Ends(<<>>, {r}) = {r} BY FedEmpty
  <2> QED BY <1>2, <2>1, <2>2
<1>5. Ends(h, {r}) = {e}
  <2>1. Ends(Append(<<>>, m), {r}) = IF m.type = "init" THEN {m.enc} ELSE Ends(<<>>, {r}) BY ONLY <1>2, EndsAppend
  <2>2. Ends(<<>>, {r}) = {r} BY FedEmpty
  <2> QED BY <1>2, <2>1, <2>2
<1>6. InitsOf(h) = IF m.type = "init" THEN h ELSE <<>>
  <2>1. Sifted(<<m>>, {"init"}) = IF m.type \in {"init"} THEN <<m>> ELSE <<>> BY <1>1, SiftedOne
  <2>2. m.type \in {"init"} <=> m.type = "init" OBVIOUS
  <2> QED BY <2>1, <2>2 DEF InitsOf
<1> HIDE DEF h, q
<1>7. Ends(h \o q, {r}) = Ends(q, {e}) /\ (Fed(h \o q, {r}) <=> Fed(h, {r}) /\ Fed(q, {e}))
  <2>1. \A B : Ends(h \o q, B) = Ends(q, Ends(h, B)) /\ (Fed(h \o q, B) <=> Fed(h, B) /\ Fed(q, Ends(h, B)))
    BY ONLY <1>1, <1>2, FedConcat
  <2> QED BY <1>5, <2>1
<1>8. InitsOf(h \o q) = InitsOf(h) \o InitsOf(q) BY <1>1, <1>2, InitsSum
<1>9. InitsOf(q) \in Seq(Message) BY <1>1, SiftedTyped DEF InitsOf
<1>10. Fed(Pending, {r}) /\ Up(InitsOf(Pending), r, encs) BY DEF Made
<1>11. Fed(h, {r}) /\ Fed(q, {e}) /\ Ends(Pending, {r}) = Ends(q, {e}) BY <1>1, <1>7, <1>10
<1>12. r <= e /\ Up(InitsOf(q), e, encs)
  <2>1. CASE m.type = "init"
    <3>1. Up(h \o InitsOf(q), r, encs) BY <1>1, <1>6, <1>8, <1>10, <2>1
    <3>2. Up(<<m>> \o InitsOf(q), r, encs) BY <3>1 DEF h
    <3> HIDE DEF m
    <3>3. r <= m.enc /\ Up(InitsOf(q), m.enc, encs) BY <1>1, <1>9, <3>2, UpFirst
    <3> QED BY <2>1, <3>3 DEF m
  <2>2. CASE m.type # "init"
    <3>1. InitsOf(Pending) = InitsOf(q) BY <1>1, <1>6, <1>8, <1>9, <2>2, ConcatEmptySeq
    <3>2. e = r BY <2>2
    <3> QED BY <1>10, <3>1, <3>2
  <2> QED BY <2>1, <2>2
<1>13. UNCHANGED <<loops, encs>> BY DEF agentVars
<1>14. \A l \in Loops : loops'[l].pc = "capturing" /\ loops'[l].inited => loops'[l].enc \in Ends(q, {e})
  BY <1>11, <1>13 DEF Made
<1>15. Made(e)' BY <1>11, <1>12, <1>13, <1>14 DEF Made, q
<1> QED BY <1>1, <1>3, <1>4, <1>11, <1>12, <1>15

\* A stream that is entered anew has no viewers yet.
LEMMA CachesKept ==
    ASSUME Seated, stream' = Current, caches' = EmptyIfNew
    PROVE  /\ \A v \in Viewers : view[v].pc # "away" => caches'[view[v].ds] = caches[view[v].ds] /\ (view[v].ds = stream' => stream' = stream)
           /\ stream' # stream => caches'[stream'] = None
           /\ stream' = stream => caches' = caches
           /\ stream' # None
<1>1. /\ view \in [Viewers -> ViewSet] /\ stream \in Streams \cup {None} /\ caches \in [Streams -> Nat]
      /\ \A v \in Viewers : view[v].pc # "away" => view[v].ds # None
  BY DEF Seated, VideoTyped, ViewsTyped, StreamsTyped, Placed
<1>2. CASE stream # None BY <1>2 DEF Current, EmptyIfNew
<1>3. CASE stream = None
  <2>1. FreshStream \in Streams /\ FreshStream # None /\ \A v \in Viewers : view[v].ds # FreshStream BY <1>1, <1>3, FreshStreamIs
  <2>2. stream' = FreshStream /\ caches' = [caches EXCEPT ![FreshStream] = None] BY <1>3 DEF Current, EmptyIfNew
  <2> QED BY <1>1, <1>3, <2>1, <2>2
<1> QED BY <1>2, <1>3

\* What of Fresh the rest of a step has to show
LEMMA StillFresh ==
    ASSUME VideoTyped, Fresh, [Next]_vars, posted'["http"] = posted["http"], posted'["old"] = posted["old"], lost \in BOOLEAN,
           lost => lost',
           ASSUME NEW r \in Nat, Undisturbed, Undisturbed', Made(r), Cached(r), Watched(r)
           PROVE  \E e \in Nat : (Made(e) /\ Cached(e) /\ Watched(e))'
    PROVE  Fresh'
<1>1. Undisturbed' => Undisturbed BY KindsStay DEF Undisturbed
<1> SUFFICES ASSUME Undisturbed'
             PROVE  (posted["http"].ds = None /\ posted["old"].ds = None /\ \E r \in Nat : Made(r) /\ Cached(r) /\ Watched(r))'
  BY DEF Fresh
<1>2. PICK r \in Nat : Made(r) /\ Cached(r) /\ Watched(r) BY <1>1 DEF Fresh
<1>3. PICK e \in Nat : (Made(e) /\ Cached(e) /\ Watched(e))' BY <1>1, <1>2
<1> QED BY <1>1, <1>3 DEF Fresh

\* A viewer whom a step gives nothing, or what follows what it has
Handed(w, r, chan) ==
    \/ chan = w.chan
    \/ \E f : /\ chan = Append(w.chan, f) /\ f.enc = r
              /\ f.type = "init" \/ (IsFrame(f) /\ w.in /\ w.ds = stream /\ posted["ws"].ds # stream)

LEMMA ServedStill ==
    ASSUME VideoTyped, NEW v \in Viewers, NEW r \in Nat, Served(view[v], r), view[v].pc # "away",
           view'[v].pc = view[v].pc /\ view'[v].ds = view[v].ds /\ view'[v].sees = view[v].sees,
           Handed(view[v], r, view'[v].chan), caches'[view[v].ds] = caches[view[v].ds],
           view'[v].in /\ view[v].ds = stream' /\ posted'["ws"].ds # stream'
             => \/ view[v].in /\ view[v].ds = stream /\ posted["ws"].ds # stream
                \/ \E f : view'[v].chan = Append(view[v].chan, f) /\ f.enc = r /\ f.type = "init"
    PROVE  Served(view[v], r)'
<1> DEFINE w == view[v]
           x == view'[v]
           B == Bound(w, r)
           c == w.chan
           d == x.chan
<1>1. c \in Seq(Frame) BY ViewIs DEF VideoTyped
<1>2. Bound(w, r)' = B BY DEF Bound
<1>3. /\ \A i \in DOMAIN c : c[i].enc <= r
      /\ Fed(c, B) /\ (w.pc = "watching" => caches[w.ds] # None)
      /\ w.in /\ w.ds = stream /\ posted["ws"].ds # stream => r \in Ends(c, B)
  BY DEF Served
<1>4. CASE d = c
  <2>1. \A f : d # Append(c, f)
    <3>1. \A f : Len(Append(c, f)) = Len(c) + 1 /\ Len(c) \in Nat BY <1>1, AppendIs
    <3> QED BY <1>4, <3>1
  <2>2. x.in /\ x.ds = stream' /\ posted'["ws"].ds # stream' => r \in Ends(c, B)
    BY <1>3, <2>1
  <2> HIDE DEF B, c, d
  <2>3. \A i \in DOMAIN d : d[i].enc <= r BY <1>3, <1>4
  <2>4. Fed(d, B) /\ (x.pc = "watching" => caches'[x.ds] # None) BY <1>3, <1>4 DEF c
  <2> QED BY <1>2, <1>4, <2>2, <2>3, <2>4 DEF Served, d
<1>5. CASE d # c
  <2>1. PICK f : /\ d = Append(c, f) /\ f.enc = r
                 /\ f.type = "init" \/ (IsFrame(f) /\ w.in /\ w.ds = stream /\ posted["ws"].ds # stream)
    BY <1>5 DEF Handed
  <2>2. Ends(d, B) = (IF f.type = "init" THEN {f.enc} ELSE Ends(c, B)) /\ (Fed(d, B) <=> Fed(c, B) /\ (IsFrame(f) => f.enc \in Ends(c, B)))
    <3> HIDE DEF B, c, d
    <3> QED BY <1>1, <2>1, EndsAppend, FedAppend
  <2>3. Fed(d, B) BY <1>3, <2>1, <2>2 DEF IsFrame
  <2>4. \A i \in DOMAIN d : d[i].enc <= r
    <3> HIDE DEF B, c, d
    <3>1. /\ \A i \in DOMAIN d : i \in DOMAIN c \/ i = Len(c) + 1
          /\ d[Len(c) + 1] = f /\ \A i \in DOMAIN c : d[i] = c[i]
      BY <1>1, <2>1, AppendIs
    <3> QED BY <1>3, <2>1, <3>1
  <2>5. x.in /\ x.ds = stream' /\ posted'["ws"].ds # stream' => r \in Ends(d, B)
    <3>1. CASE f.type = "init" BY <2>1, <2>2, <3>1
    <3>2. CASE f.type # "init" BY <1>3, <2>1, <2>2, <3>2
    <3> QED BY <3>1, <3>2
  <2>6. x.pc = "watching" => caches'[x.ds] # None BY <1>3
  <2> HIDE DEF B, c
  <2> QED BY <1>2, <2>3, <2>4, <2>5, <2>6 DEF Served, d
<1> QED BY <1>4, <1>5

\* Only the socket brings anything.
LEMMA SocketOnly ==
    ASSUME OneWay, Undisturbed, NEW p \in Paths, Routing(p) PROVE p = "ws"
BY DEF OneWay, Undisturbed, Routing, Paths, Socket

LEMMA ControlsFresh ==
    ASSUME Seated, OneWay, Fresh, Next, NEW p \in Paths, RouteStarted(p) \/ RouteStopped(p) PROVE Fresh'
<1>1. VideoTyped /\ QueuesTyped /\ encs \in Nat /\ lost \in BOOLEAN BY DEF Seated, VideoTyped, AgentTyped, ViewsTyped
<1>2. /\ Routing(p) /\ Routed(p) /\ Head(paths[p]).type \in Control
      /\ UNCHANGED <<agentVars, queue, posted, view, lost>>
  BY DEF RouteStarted, RouteStopped, Control, past
<1>3. ASSUME NEW r \in Nat, Undisturbed, Made(r), Cached(r), Watched(r)
      PROVE  (Made(r) /\ Cached(r) /\ Watched(r))'
  <2>1. p = "ws" BY <1>2, <1>3, SocketOnly
  <2>2. Head(paths["ws"]).type # "init" /\ posted["ws"].ds = None BY <1>2, <2>1 DEF Control, Routing
  <2>3. Made(r)' BY <1>1, <1>2, <1>3, <2>1, <2>2, RoutedMade
  <2>4. \A v \in Viewers : view[v].pc # "away" =>
            caches'[view[v].ds] = caches[view[v].ds] /\ (view[v].ds = stream' => stream' = stream /\ stream # None)
    <3>1. CASE RouteStarted(p) BY <3>1, CachesKept DEF RouteStarted
    <3>2. CASE RouteStopped(p) BY <3>2 DEF RouteStopped, Seated, Placed
    <3> QED BY <3>1, <3>2
  <2>5. Cached(r)'
    <3>1. CASE RouteStarted(p)
      <4>1. /\ stream' # stream => caches'[stream'] = None
            /\ stream' = stream => caches' = caches
        BY <3>1, CachesKept DEF RouteStarted
      <4> QED BY <1>2, <1>3, <2>2, <4>1 DEF Cached
    <3>2. CASE RouteStopped(p) BY <1>2, <2>2, <3>2 DEF RouteStopped, Cached
    <3> QED BY <3>1, <3>2
  <2>6. Watched(r)'
    <3> SUFFICES ASSUME NEW v \in Viewers, view'[v].pc # "away" PROVE Served(view[v], r)' BY DEF Watched
    <3>1. view' = view /\ view[v].pc # "away" /\ Served(view[v], r) BY <1>2, <1>3 DEF Watched
    <3>2. Handed(view[v], r, view'[v].chan) BY <3>1 DEF Handed
    <3> QED BY <1>1, <1>2, <2>2, <2>4, <3>1, <3>2, ServedStill
  <2> QED BY <2>3, <2>5, <2>6
<1> QED BY <1>1, <1>2, <1>3, StillFresh

LEMMA InitFresh ==
    ASSUME Seated, OneWay, Fresh, Next, NEW p \in Paths, RouteInit(p) PROVE Fresh'
<1>1. VideoTyped /\ QueuesTyped /\ encs \in Nat /\ lost \in BOOLEAN /\ StreamsTyped /\ ViewsTyped
  BY DEF Seated, VideoTyped, AgentTyped, ViewsTyped
<1>2. /\ Routing(p) /\ Routed(p) /\ Head(paths[p]).type = "init" /\ stream' = Current
      /\ UNCHANGED <<agentVars, queue, view, lost>>
      /\ caches' = [EmptyIfNew EXCEPT ![Current] = Head(paths[p]).enc]
      /\ posted' = [posted EXCEPT ![p] = [ds |-> Current, enc |-> Head(paths[p]).enc]]
  BY DEF RouteInit, past
<1>3. Current \in Streams /\ EmptyIfNew \in [Streams -> Nat] BY <1>1, CurrentTyped DEF StreamsTyped, ViewsTyped
<1>4. posted \in [Paths -> [ds : Streams \cup {None}, enc : Nat]] /\ "http" \in Paths /\ "old" \in Paths /\ "ws" \in Paths
  BY <1>1 DEF StreamsTyped, Paths, Socket
<1>5. ASSUME Undisturbed PROVE p = "ws" BY <1>2, <1>5, SocketOnly
<1>6. ASSUME NEW r \in Nat, Undisturbed, Made(r), Cached(r), Watched(r)
      PROVE  \E e \in Nat : (Made(e) /\ Cached(e) /\ Watched(e))'
  <2> DEFINE m == Head(paths["ws"])
  <2>1. PICK e : e = m.enc OBVIOUS
  <2>2. e \in Nat /\ r <= e /\ Made(e)' BY <1>1, <1>2, <1>5, <1>6, <2>1, RoutedMade
  <2>3. /\ caches' = [EmptyIfNew EXCEPT ![Current] = e] /\ posted' = [posted EXCEPT !["ws"] = [ds |-> Current, enc |-> e]]
        /\ posted'["ws"].ds = Current /\ posted'["ws"].enc = e /\ caches'[Current] = e
    BY <1>2, <1>3, <1>4, <1>5, <1>6, <2>1
  <2>4. Cached(e)' BY <1>2, <2>3 DEF Cached
  <2>5. Watched(e)'
    <3> SUFFICES ASSUME NEW v \in Viewers, view'[v].pc # "away" PROVE Served(view[v], e)' BY DEF Watched
    <3> DEFINE w == view[v]
    <3>1. view' = view /\ w.pc # "away" /\ Served(w, r) BY <1>2, <1>6 DEF Watched
    <3>2. w.ds \in Streams /\ w.chan \in Seq(Frame) /\ w.sees \in Nat
      BY <1>1, <3>1, ViewIs DEF Seated, Placed
    <3>3. w.ds # Current => caches'[w.ds] = caches[w.ds]
      <4>1. CASE stream = None
        <5>1. EmptyIfNew = [caches EXCEPT ![Current] = None] BY <4>1 DEF EmptyIfNew
        <5> QED BY <1>1, <1>3, <2>3, <3>2, <5>1 DEF StreamsTyped
      <4>2. CASE stream # None
        <5>1. EmptyIfNew = caches BY <4>2 DEF EmptyIfNew
        <5> QED BY <1>1, <1>3, <2>3, <3>2, <5>1 DEF StreamsTyped
      <4> QED BY <4>1, <4>2
    <3>4. w.ds = Current => stream = Current /\ stream # None
      <4>1. CASE stream = None
        <5>1. Current = FreshStream /\ w.ds # FreshStream BY <1>1, <4>1, FreshStreamIs DEF Current, ViewsTyped
        <5> QED BY <5>1
      <4>2. CASE stream # None BY <4>2 DEF Current
      <4> QED BY <4>1, <4>2
    <3>5. Bound(w, r) \subseteq Bound(w, e)'
      <4>0. w' = w BY <3>1
      <4>1. CASE w.pc = "watching" BY <4>0, <4>1 DEF Bound
      <4>2. CASE w.pc # "watching" /\ w.ds = Current
        <5>1. caches'[w.ds] = e /\ (caches[w.ds] # None => caches[w.ds] = r) BY <1>6, <2>3, <3>4, <4>2 DEF Cached
        <5>2. Bound(w, r) = 0 .. r BY <4>2, <5>1 DEF Bound
        <5>3. Bound(w, e)' = 0 .. e BY <4>0, <4>2, <5>1 DEF Bound
        <5> QED BY <2>2, <5>2, <5>3
      <4>3. CASE w.pc # "watching" /\ w.ds # Current
        <5>1. caches'[w.ds] = caches[w.ds] BY <3>3, <4>3
        <5>2. 0 .. r \subseteq 0 .. e BY <2>2
        <5> QED BY <4>0, <4>3, <5>1, <5>2 DEF Bound
      <4> QED BY <4>1, <4>2, <4>3
    <3>6. /\ \A i \in DOMAIN w.chan : w.chan[i].enc <= r
          /\ Fed(w.chan, Bound(w, r)) /\ (w.pc = "watching" => caches[w.ds] # None)
      BY <3>1 DEF Served
    <3>7. Fed(w.chan, Bound(w, e)') BY <3>5, <3>6, FedMore
    <3>8. \A i \in DOMAIN w.chan : w.chan[i].enc <= e
      <4> HIDE DEF w
      <4>0. \A i \in DOMAIN w.chan : w.chan[i] \in Frame BY <3>2
      <4>1. \A i \in DOMAIN w.chan : w.chan[i].enc \in Nat BY <4>0 DEF Frame
      <4> QED BY <2>2, <3>6, <4>1
    <3>9. w.pc = "watching" => caches'[w.ds] # None
      <4>1. CASE w.ds = Current
        <5>1. caches[w.ds] # None => caches[w.ds] = r BY <1>6, <3>4, <4>1 DEF Cached
        <5>2. caches'[w.ds] = e BY <2>3, <4>1
        <5> HIDE DEF w
        <5> QED BY <2>2, <3>6, <5>1, <5>2 DEF None
      <4>2. CASE w.ds # Current BY <3>3, <3>6, <4>2
      <4> QED BY <4>1, <4>2
    <3>10. posted'["ws"].ds = stream' BY <1>2, <2>3
    <3> QED BY <3>1, <3>7, <3>8, <3>9, <3>10 DEF Served
  <2> QED BY <2>2, <2>4, <2>5
<1>7. ASSUME Undisturbed PROVE posted'["http"] = posted["http"] /\ posted'["old"] = posted["old"]
  BY <1>2, <1>4, <1>5, <1>7
<1>8. CASE Undisturbed BY <1>1, <1>2, <1>6, <1>7, <1>8, StillFresh
<1>9. CASE ~Undisturbed BY <1>1, <1>2, <1>9, KindsStay DEF Fresh, Undisturbed
<1> QED BY <1>8, <1>9

\* What a frame makes of a viewer
LEMMA PushedTold ==
    ASSUME ViewsTyped, NEW v \in Viewers, NEW m \in Message, IsFrame(m), NEW starved
    PROVE  LET x == Pushed(v, m, starved)
           IN  /\ x.pc = view[v].pc /\ x.ds = view[v].ds /\ x.sees = view[v].sees
               /\ x.chan = view[v].chan \/ \E f : x.chan = Append(view[v].chan, f) /\ f.enc = m.enc /\ IsFrame(f)
<1>1. view[v] \in ViewSet BY ViewIs
<1> SUFFICES ASSUME NEW x, x = Pushed(v, m, starved)
             PROVE  /\ x.pc = view[v].pc /\ x.ds = view[v].ds /\ x.sees = view[v].sees
                    /\ x.chan = view[v].chan \/ \E f : x.chan = Append(view[v].chan, f) /\ f.enc = m.enc /\ IsFrame(f)
  OBVIOUS
<1> DEFINE Like(y) == y.pc = view[v].pc /\ y.ds = view[v].ds /\ y.sees = view[v].sees
           Same(y) == Like(y) /\ y.chan = view[v].chan
<1>2. Skipped(v) \in ViewSet /\ Same(Skipped(v)) BY <1>1 DEF Skipped, ViewSet
<1>3. Same([Skipped(v) EXCEPT !.key_ok = FALSE]) BY <1>2 DEF ViewSet
<1>4. Like(Dropped(v)) /\ Dropped(v).chan = view[v].chan BY <1>1 DEF Dropped, ViewSet
<1> DEFINE s == m.type = "delta" /\ view[v].missed
           f == [type |-> m.type, enc |-> m.enc, cut |-> m.cut, torn |-> s]
           c == Append(view[v].chan, f)
           k == [view[v] EXCEPT !.chan = c, !.key_ok = TRUE, !.drops = 0, !.missed = s]
<1>5. Like(k) /\ k.chan = c
  <2> HIDE DEF c, s
  <2> QED BY <1>1 DEF ViewSet
<1>6. f.enc = m.enc /\ IsFrame(f) BY DEF IsFrame
<1>7. x \in {Dropped(v), Skipped(v), [Skipped(v) EXCEPT !.key_ok = FALSE], k} BY DEF Pushed
<1> HIDE DEF f, k
<1>8. CASE x \in {Skipped(v), [Skipped(v) EXCEPT !.key_ok = FALSE], k} BY <1>2, <1>3, <1>5, <1>6, <1>8
<1>9. CASE x = Dropped(v) BY <1>4, <1>9
<1> QED BY <1>7, <1>8, <1>9

LEMMA FramesFresh ==
    ASSUME Seated, OneWay, Fresh, Next, NEW p \in Paths, RouteFrame(p) \/ RouteThrottled(p) PROVE Fresh'
<1>1. VideoTyped /\ QueuesTyped /\ ViewsTyped /\ encs \in Nat /\ lost \in BOOLEAN
  BY DEF Seated, VideoTyped, AgentTyped, ViewsTyped
<1>2. /\ Routing(p) /\ Routed(p) /\ IsFrame(Head(paths[p])) /\ stream' = Current /\ caches' = EmptyIfNew
      /\ UNCHANGED <<agentVars, queue, posted, lost>>
      /\ PushFrag(Current, Head(paths[p]), {}) \/ Throttles(p)
  BY DEF RouteFrame, RouteThrottled, IsFrame, Throttles, past
<1>3. ASSUME NEW r \in Nat, Undisturbed, Made(r), Cached(r), Watched(r)
      PROVE  (Made(r) /\ Cached(r) /\ Watched(r))'
  <2> DEFINE m == Head(paths["ws"])
  <2>1. p = "ws" BY <1>2, <1>3, SocketOnly
  <2>2. m.type # "init" /\ posted["ws"].ds = None /\ IsFrame(m) BY <1>2, <2>1 DEF IsFrame, Routing
  <2>3. m \in Message /\ m.enc = r /\ Made(r)' BY <1>1, <1>2, <1>3, <2>1, <2>2, RoutedMade
  <2>4. /\ \A v \in Viewers : view[v].pc # "away" =>
              caches'[view[v].ds] = caches[view[v].ds] /\ (view[v].ds = stream' => stream' = stream)
        /\ stream' # stream => caches'[stream'] = None
        /\ stream' = stream => caches' = caches
        /\ stream' # None
    BY <1>2, CachesKept
  <2>5. Cached(r)' BY <1>2, <1>3, <2>2, <2>4 DEF Cached
  <2>6. Watched(r)'
    <3> SUFFICES ASSUME NEW v \in Viewers, view'[v].pc # "away" PROVE Served(view[v], r)' BY DEF Watched
    <3> DEFINE x == view'[v]
    <3>1. view[v] \in ViewSet BY <1>1, ViewIs
    <3>2. /\ x.pc = view[v].pc /\ x.ds = view[v].ds /\ x.sees = view[v].sees
          /\ x = view[v] \/ v \in Audience(Current)
          /\ x.chan = view[v].chan \/ \E f : x.chan = Append(view[v].chan, f) /\ f.enc = m.enc /\ IsFrame(f)
      <4>1. CASE \E starved : PushFrag(Current, m, starved)
        <5>1. PICK starved : PushFrag(Current, m, starved) BY <4>1
        <5>2. x = IF v \in Audience(Current) THEN Pushed(v, m, starved) ELSE view[v] BY <5>1 DEF PushFrag
        <5> HIDE DEF m, x
        <5>3. CASE v \in Audience(Current) BY <1>1, <2>2, <2>3, <5>2, <5>3, PushedTold
        <5>4. CASE v \notin Audience(Current) BY <5>2, <5>4
        <5> QED BY <5>3, <5>4
      <4>2. CASE view' = [w \in Viewers |-> IF w \in Audience(Current) THEN [Skipped(w) EXCEPT !.key_ok = FALSE] ELSE view[w]]
        <5>1. Skipped(v) \in ViewSet /\ Skipped(v).pc = view[v].pc /\ Skipped(v).ds = view[v].ds /\ Skipped(v).sees = view[v].sees
              /\ Skipped(v).chan = view[v].chan
          BY <3>1 DEF Skipped, ViewSet
        <5>2. LET y == [Skipped(v) EXCEPT !.key_ok = FALSE]
              IN  y.pc = view[v].pc /\ y.ds = view[v].ds /\ y.sees = view[v].sees /\ y.chan = view[v].chan
          BY <5>1 DEF ViewSet
        <5>3. x = IF v \in Audience(Current) THEN [Skipped(v) EXCEPT !.key_ok = FALSE] ELSE view[v] BY <4>2
        <5> HIDE DEF x
        <5> QED BY <5>2, <5>3
      <4> QED BY <1>2, <2>1, <4>1, <4>2 DEF Throttles
    <3>3. view[v].pc # "away" /\ Served(view[v], r) /\ view[v].ds # None BY <1>3, <3>2 DEF Watched, Seated, Placed
    <3>4. v \in Audience(Current) => view[v].in /\ view[v].ds = stream BY <1>2, <2>4, <3>3 DEF Audience
    <3>5. Handed(view[v], r, x.chan)
      <4>1. CASE x.chan = view[v].chan BY <4>1 DEF Handed
      <4>2. CASE x.chan # view[v].chan
        <5>1. PICK f : x.chan = Append(view[v].chan, f) /\ f.enc = r /\ IsFrame(f) BY <2>3, <3>2, <4>2
        <5>2. view[v].in /\ view[v].ds = stream BY <3>2, <3>4, <4>2
        <5>3. posted["ws"].ds # stream BY <2>2, <3>3, <5>2
        <5> HIDE DEF x
        <5> QED BY <5>1, <5>2, <5>3 DEF Handed
      <4> QED BY <4>1, <4>2
    <3>6. x.in /\ view[v].ds = stream' => view[v].in /\ view[v].ds = stream
      <4>1. view[v].ds = stream' => view[v].ds = stream BY <2>4, <3>3
      <4> QED BY <3>2, <3>4, <4>1
    <3>7. caches'[view[v].ds] = caches[view[v].ds] BY <2>4, <3>3
    <3>8. posted["ws"].ds # view[v].ds BY <2>2, <3>3
    <3> QED BY <1>1, <3>2, <3>3, <3>5, <3>6, <3>7, <3>8, ServedStill
  <2> QED BY <2>3, <2>5, <2>6
<1> QED BY <1>1, <1>2, <1>3, StillFresh

LEMMA BroadcastFresh == ASSUME Seated, Fresh, Next, NEW p \in Paths, BroadcastInit(p) PROVE Fresh'
<1>1. VideoTyped /\ StreamsTyped /\ ViewsTyped /\ lost \in BOOLEAN BY DEF Seated, VideoTyped, ViewsTyped
<1>2. /\ posted[p].ds # None /\ view' = [v \in Viewers |-> Told1(v, p)]
      /\ lost' = (lost \/ \E v \in Audience(posted[p].ds) : Full(v))
      /\ posted' = [posted EXCEPT ![p] = [ds |-> None, enc |-> None]]
      /\ UNCHANGED <<agentVars, queue, paths, stream, caches>>
  BY BroadcastMoves DEF BroadcastInit
<1>3. posted \in [Paths -> [ds : Streams \cup {None}, enc : Nat]] /\ "http" \in Paths /\ "old" \in Paths /\ "ws" \in Paths
  BY <1>1 DEF StreamsTyped, Paths, Socket
<1>4. ASSUME Undisturbed PROVE p = "ws" BY <1>2, <1>4 DEF Fresh, Paths, Socket
<1>5. ASSUME NEW r \in Nat, Undisturbed, Undisturbed', Made(r), Cached(r), Watched(r)
      PROVE  (Made(r) /\ Cached(r) /\ Watched(r))'
  <2>1. p = "ws" BY <1>4, <1>5
  <2>2. posted'["ws"].ds = None BY <1>2, <1>3, <2>1
  <2>3. Pending' = Pending /\ UNCHANGED <<loops, encs>> BY <1>2 DEF Pending, agentVars
  <2>4. Made(r)' BY <1>5, <2>3 DEF Made
  <2>5. Cached(r)' BY <1>2, <1>5, <2>2 DEF Cached
  <2>6. posted["ws"].enc = r /\ posted["ws"].ds # None BY <1>2, <1>5, <2>1 DEF Cached
  <2>7. \A v \in Audience(posted["ws"].ds) : ~Full(v) BY <1>2, <1>5, <2>1 DEF Undisturbed
  <2>8. Watched(r)'
    <3> SUFFICES ASSUME NEW v \in Viewers, view'[v].pc # "away" PROVE Served(view[v], r)' BY DEF Watched
    <3> DEFINE x == view'[v]
               f == Whole("init", r)
               c == Append(view[v].chan, f)
               k == [view[v] EXCEPT !.drops = 0, !.chan = c]
    <3>1. view[v] \in ViewSet BY <1>1, ViewIs
    <3>2. x = IF v \in Audience(posted["ws"].ds) THEN k ELSE view[v]
      <4>1. x = Told1(v, "ws") BY <1>2, <2>1
      <4> QED BY <2>6, <2>7, <4>1 DEF Told1
    <3>3. f.enc = r /\ f.type = "init" BY DEF Whole
    <3>4. k.pc = view[v].pc /\ k.ds = view[v].ds /\ k.sees = view[v].sees /\ k.in = view[v].in /\ k.chan = c
      <4> HIDE DEF c
      <4> QED BY <3>1 DEF ViewSet
    <3> HIDE DEF x, f, k
    <3>5. /\ x.pc = view[v].pc /\ x.ds = view[v].ds /\ x.sees = view[v].sees /\ x.in = view[v].in
          /\ x.chan = IF v \in Audience(posted["ws"].ds) THEN Append(view[v].chan, f) ELSE view[v].chan
      BY <3>2, <3>4
    <3>6. Handed(view[v], r, x.chan) BY <3>3, <3>5 DEF Handed
    <3>7. view[v].pc # "away" /\ Served(view[v], r) /\ view[v].ds # None BY <1>5, <3>5 DEF x, Watched, Seated, Placed
    <3>8. x.in /\ view[v].ds = stream' =>
            \/ view[v].in /\ view[v].ds = stream /\ posted["ws"].ds # stream
            \/ \E g : x.chan = Append(view[v].chan, g) /\ g.enc = r /\ g.type = "init"
      <4> SUFFICES ASSUME x.in, view[v].ds = stream', posted["ws"].ds = stream
                   PROVE  \E g : x.chan = Append(view[v].chan, g) /\ g.enc = r /\ g.type = "init"
        BY <1>2, <3>5
      <4>1. v \in Audience(posted["ws"].ds) BY <1>2, <3>5 DEF Audience
      <4> QED BY <3>3, <3>5, <4>1
    <3>9. caches' = caches BY <1>2
    <3> QED BY <1>1, <3>5, <3>6, <3>7, <3>8, <3>9, ServedStill DEF x
  <2> QED BY <2>4, <2>5, <2>8
<1>6. CASE Undisturbed
  <2>1. posted'["http"] = posted["http"] /\ posted'["old"] = posted["old"] BY <1>2, <1>3, <1>4, <1>6
  <2>2. lost => lost' BY <1>2
  <2> QED BY <1>1, <1>5, <2>1, <2>2, StillFresh
<1>7. CASE ~Undisturbed
  <2>1. lost => lost' BY <1>2
  <2>2. ~Undisturbed' BY <1>1, <1>7, <2>1, KindsStay DEF Undisturbed
  <2> QED BY <2>2 DEF Fresh
<1> QED BY <1>6, <1>7

\* A viewer's own steps
LEMMA ViewedServed ==
    ASSUME VideoTyped, NEW v \in Viewers, NEW r \in Nat, Cached(r), view[v].pc # "away" => Served(view[v], r),
           NEW x, Viewed(v, x), x.pc # "away"
    PROVE  Served(x, r)
<1>1. /\ view[v] \in ViewSet /\ view[v].chan \in Seq(Frame) /\ view[v].sees \in Nat
  BY ViewIs DEF VideoTyped
<1>2. Away.pc = "away" /\ Away.chan = <<>> BY DEF Away
<1> DEFINE w == view[v]
<1>3. CASE w.pc = "away" /\ stream # None /\ x = [Away EXCEPT !.pc = "joined", !.ds = stream, !.in = TRUE]
  <2>1. x.pc = "joined" /\ x.ds = stream /\ x.chan = <<>> BY <1>3 DEF Away
  <2>2. DOMAIN <<>> = {} OBVIOUS
  <2>3. Fed(<<>>, Bound(x, r)) /\ Ends(<<>>, Bound(x, r)) = Bound(x, r) BY FedEmpty
  <2>4. r \in Bound(x, r) BY <1>3, <2>1 DEF Bound, Cached
  <2> QED BY <2>1, <2>2, <2>3, <2>4 DEF Served
<1>4. CASE /\ w.pc \in {"joined", "waiting"}
           /\ \/ x = [w EXCEPT !.sees = caches[w.ds], !.pc = IF caches[w.ds] = None THEN "waiting" ELSE "watching"]
              \/ caches[w.ds] # None /\ x = [w EXCEPT !.pc = "watching", !.sees = caches[w.ds]]
  <2>1. /\ x.chan = w.chan /\ x.ds = w.ds /\ x.in = w.in /\ x.sees = caches[w.ds]
        /\ x.pc = IF caches[w.ds] = None THEN "waiting" ELSE "watching"
    BY <1>1, <1>4, Zenon DEF ViewSet
  <2>2. Bound(x, r) = Bound(w, r) BY <1>4, <2>1 DEF Bound
  <2>3. Served(w, r) BY <1>4
  <2> QED BY <2>1, <2>2, <2>3 DEF Served
<1>5. CASE /\ w.pc = "watching" /\ w.chan # <<>>
           /\ x = [w EXCEPT !.chan = Tail(w.chan), !.sees = IF Next1(v).type = "init" THEN Next1(v).enc ELSE w.sees]
  <2> DEFINE h == Head(w.chan)
             t == Tail(w.chan)
             s == IF h.type = "init" THEN h.enc ELSE w.sees
             C == IF h.type = "init" THEN {h.enc} ELSE 0 .. w.sees
  <2>1. t \in Seq(Frame) /\ h \in Frame BY <1>1, <1>5, TailTyped
  <2>2. s \in Nat /\ C \subseteq 0 .. s BY <1>1, <2>1 DEF Frame
  <2>3. x.chan = t /\ x.sees = s /\ x.pc = "watching" /\ x.ds = w.ds /\ x.in = w.in
    <3>1. x = [w EXCEPT !.chan = t, !.sees = s] BY <1>5 DEF Next1
    <3> HIDE DEF t, s
    <3> QED BY <1>1, <1>5, <3>1 DEF ViewSet
  <2>4. Served(w, r) /\ Bound(w, r) = 0 .. w.sees /\ Bound(x, r) = 0 .. s BY <1>5, <2>3 DEF Bound
  <2>5. Ends(w.chan, 0 .. w.sees) = Ends(t, C) /\ (Fed(w.chan, 0 .. w.sees) => Fed(t, C))
    <3>1. \A B : LET D == IF h.type = "init" THEN {h.enc} ELSE B
                 IN  Ends(w.chan, B) = Ends(t, D) /\ (Fed(w.chan, B) => Fed(t, D))
      BY <1>1, <1>5, FedFirst
    <3> HIDE DEF t, h
    <3> QED BY <3>1
  <2>6. \A i \in DOMAIN t : t[i].enc <= r
    <3>1. \A i \in DOMAIN w.chan : w.chan[i].enc <= r BY <2>4 DEF Served
    <3>2. \A i \in DOMAIN t : i + 1 \in DOMAIN w.chan /\ t[i] = w.chan[i + 1] BY <1>1, <1>5
    <3> HIDE DEF t
    <3> QED BY <3>1, <3>2
  <2> HIDE DEF t, s, C, h
  <2>7. Fed(t, 0 .. s) BY <2>2, <2>4, <2>5, FedMore DEF Served
  <2>8. Ends(w.chan, 0 .. w.sees) \subseteq Ends(t, 0 .. s) BY <2>2, <2>5, EndsMore
  <2> QED BY <1>5, <2>3, <2>4, <2>6, <2>7, <2>8 DEF Served
<1>6. CASE x = Away BY <1>2, <1>6
<1> QED BY <1>3, <1>4, <1>5, <1>6 DEF Viewed

LEMMA ViewerFresh == ASSUME Seated, Fresh, Next, NEW v \in Viewers, Viewer(v) PROVE Fresh'
<1>1. VideoTyped /\ view \in [Viewers -> ViewSet] /\ lost \in BOOLEAN BY DEF Seated, VideoTyped, ViewsTyped
<1>2. PICK x : SetView(v, x) /\ Viewed(v, x) BY ViewerMoves
<1>3. UNCHANGED <<agentVars, queue, paths, relayVars, lost>> /\ view' = [view EXCEPT ![v] = x] BY <1>2 DEF SetView, past
<1>4. ASSUME NEW r \in Nat, Undisturbed, Made(r), Cached(r), Watched(r) PROVE (Made(r) /\ Cached(r) /\ Watched(r))'
  <2>1. Pending' = Pending BY <1>3 DEF Pending
  <2>2. Made(r)' BY <1>3, <1>4, <2>1 DEF Made, agentVars
  <2>3. Cached(r)' BY <1>3, <1>4 DEF Cached, relayVars
  <2>4. ASSUME NEW w PROVE Served(w, r)' = Served(w, r) BY <1>3 DEF Served, Bound, relayVars
  <2>5. view'[v] = x /\ \A u \in Viewers : u # v => view'[u] = view[u] BY <1>1, <1>3
  <2>6. x.pc # "away" => Served(x, r) BY <1>1, <1>2, <1>4, ViewedServed DEF Watched
  <2>7. \A u \in Viewers : view'[u].pc # "away" => Served(view'[u], r) BY <1>4, <2>5, <2>6 DEF Watched
  <2>8. Watched(r)' BY <1>3, <2>7 DEF Watched, Served, Bound, relayVars
  <2> QED BY <2>2, <2>3, <2>8
<1>5. posted' = posted /\ lost' = lost BY <1>3 DEF relayVars
<1> QED BY <1>1, <1>4, <1>5, StillFresh

LEMMA EndsFresh == ASSUME Seated, Fresh, Next, Revoke \/ CleanUp PROVE Fresh'
<1>1. VideoTyped /\ lost \in BOOLEAN BY DEF Seated, VideoTyped, ViewsTyped
<1>2. UNCHANGED <<loops, encs, queue, paths, caches, posted, view, lost>> /\ stream' = None BY DEF Revoke, CleanUp, agentVars, past
<1>3. ASSUME NEW r \in Nat, Undisturbed, Made(r), Cached(r), Watched(r) PROVE (Made(r) /\ Cached(r) /\ Watched(r))'
  <2>1. Pending' = Pending BY <1>2 DEF Pending
  <2>2. Made(r)' BY <1>2, <1>3, <2>1 DEF Made
  <2>3. Cached(r)' BY <1>2, <1>3 DEF Cached
  <2>4. \A v \in Viewers : view[v].pc # "away" => view[v].ds # None BY DEF Seated, Placed
  <2>5. Watched(r)' BY <1>2, <1>3, <2>4 DEF Watched, Served, Bound
  <2> QED BY <2>2, <2>3, <2>5
<1> QED BY <1>1, <1>2, <1>3, StillFresh

LEMMA NextFresh == ASSUME Seated, Orders, OneWay, Lone, Fresh, [Next]_vars PROVE Fresh'
<1>1. VideoTyped BY DEF Seated
<1>2. CASE UNCHANGED vars
  <2>1. UNCHANGED <<relayVars, view, lost, loops, encs, queue, paths>> BY <1>2 DEF vars, agentVars, past
  <2>2. ASSUME NEW r \in Nat, Made(r) PROVE Made(r)' BY <2>1, <2>2 DEF Made, Pending
  <2> QED BY <1>1, <2>1, <2>2, AgentFresh
<1>3. CASE Next
  <2>1. CASE SendBreaks BY <1>1, <2>1, KindsStay, BreaksIs DEF Happens, Fresh, Undisturbed
  <2>2. CASE Unseen
    BY <1>1, <1>3, <2>1, <2>2, CommandsFresh, StopsFresh, ReconnectFresh, OpensFresh, KeyFresh, DeltaFresh, RebuildFresh,
       SendFresh, ControlsFresh, InitFresh, EndsFresh DEF Unseen
  <2> QED BY <1>3, <2>2, NextIs, FramesFresh, BroadcastFresh, ViewerFresh
<1> QED BY <1>2, <1>3

\* No viewer is sent frames of an encoder newer than the last init it was sent
\* before them (desktop.rs, add_viewer, set_init, push_frag).  Fresh, the
\* invariant: there is one encoder r, of the last init that was routed, such that
\* what is on its way continues r, the cache holds r, and whoever is in the
\* fan-out has r in its channel or can take it from the cache.
THEOREM InitsComeFirst == Spec => []InitNotStale
<1> DEFINE Inv == Seated /\ Gated /\ Orders /\ OneWay /\ Lone /\ Fresh
<1>1. Init => Inv
  <2> SUFFICES ASSUME Init PROVE Inv OBVIOUS
  <2>1. Orders /\ OneWay /\ Lone BY DEF Init, Orders, OneWay, Lone, Nothing, Paths, Socket
  <2>2. Gated BY DEF Init, Gated, Gate, Away
  <2>3. paths["ws"] = <<>> /\ queue = <<>> /\ "ws" \in Paths /\ "http" \in Paths /\ "old" \in Paths BY DEF Init, Paths, Socket
  <2>4. Pending = <<>> BY <2>3 DEF Pending
  <2>5. InitsOf(Pending) = <<>> BY <2>4, SiftedEmpty DEF InitsOf
  <2>6. Up(<<>>, 0, 0) BY DEF Up
  <2>7. Made(0) BY <2>4, <2>5, <2>6, FedEmpty DEF Made, Init
  <2>8. Cached(0) BY <2>3 DEF Cached, Init
  <2>9. Watched(0) BY DEF Watched, Init, Away
  <2>10. Fresh BY <2>3, <2>7, <2>8, <2>9 DEF Fresh, Init
  <2> QED BY <2>1, <2>2, <2>10, InitSeated
<1>2. Inv /\ [Next]_vars => Inv' BY NextSeated, NextGated, NextOrders, NextOneWay, NextLone, NextFresh DEF Seated
<1>3. Inv => InitNotStale
  <2> SUFFICES ASSUME Inv, Undisturbed, NEW v \in Viewers, view[v].pc = "watching",
                      NEW i \in DOMAIN view[v].chan, view[v].chan[i].type # "init"
               PROVE  \/ view[v].chan[i].enc <= view[v].sees
                      \/ \E j \in 1 .. i - 1 : view[v].chan[j].type = "init" /\ view[v].chan[j].enc = view[v].chan[i].enc
    BY DEF InitNotStale, Undisturbed
  <2> DEFINE c == view[v].chan
  <2>1. PICK r \in Nat : Served(view[v], r) BY DEF Fresh, Watched
  <2>2. c \in Seq(Frame) /\ view[v].sees \in Nat BY ViewIs DEF Seated, VideoTyped
  <2>3. Fed(c, 0 .. view[v].sees) BY <2>1 DEF Served, Bound
  <2>4. \A j \in DOMAIN c : c[j] \in Frame
    <3> HIDE DEF c
    <3> QED BY <2>2
  <2>5. DOMAIN c = 1 .. Len(c) /\ Len(c) \in Nat /\ i \in DOMAIN c /\ c[i].type # "init" BY <2>2
  <2> HIDE DEF c
  <2>6. IsFrame(c[i]) BY <2>4, <2>5 DEF Frame, IsFrame
  <2>7. c[i].enc \in Allowed(c, i, 0 .. view[v].sees) BY <2>3, <2>5, <2>6 DEF Fed
  <2>8. CASE c[i].enc \in 0 .. view[v].sees BY <2>2, <2>8 DEF c
  <2>9. CASE \E j \in Before(c, i) : c[i].enc = c[j].enc
    <3>1. PICK j \in DOMAIN c : j < i /\ c[j].type = "init" /\ c[i].enc = c[j].enc BY <2>9 DEF Before
    <3>2. j \in 1 .. i - 1 BY <2>5, <3>1
    <3> QED BY <3>1, <3>2 DEF c
  <2> QED BY <2>7, <2>8, <2>9 DEF Allowed
<1> QED BY <1>1, <1>2, <1>3, PTL DEF Spec

-----------------------------------------------------------------------------
(***************************************************************************)
(* The agent's peer session: whose queue may be open.                      *)
(***************************************************************************)
DriverStates == {"over", "connecting", "found", "doomed", "live", "leaving", "closing"}
Sides == Offers \cup {Nobody}
SessionTyped ==
    /\ offers \in Seq(Offers) /\ slot \in Sides /\ mirror \in Sides
    /\ driver \in [Offers -> DriverStates] /\ open \in SUBSET Offers /\ overrun \in BOOLEAN
\* A driver that nobody has stopped has the slot.
Held == \A n \in Offers : driver[n] \in {"connecting", "found", "live"} => slot = n
\* It finds every older queue closed.
Lonely == ~overrun => \A n \in Offers : driver[n] \in {"connecting", "found"} => open = {}
QueueInv == SessionTyped /\ Held /\ Lonely /\ QueuesReachable

LEMMA OffersAre == Offers \subseteq Nat \ {0}
BY PeersAssumption DEF Offers

LEMMA QueueStart == PeerInit => QueueInv
<1> SUFFICES ASSUME PeerInit PROVE QueueInv OBVIOUS
<1> USE DEF PeerInit, Nobody
<1>1. SessionTyped
  <2>1. driver = [n \in Offers |-> "over"] /\ open = {} /\ overrun = FALSE /\ offers = <<>> /\ slot = 0 /\ mirror = 0
    OBVIOUS
  <2>2. driver \in [Offers -> DriverStates] BY <2>1 DEF DriverStates
  <2>3. offers \in Seq(Offers) /\ slot \in Sides /\ mirror \in Sides BY <2>1 DEF Sides
  <2> QED BY <2>1, <2>2, <2>3 DEF SessionTyped
<1>2. Held /\ Lonely /\ QueuesReachable BY DEF Held, Lonely, QueuesReachable
<1> QED BY <1>1, <1>2 DEF QueueInv

\* An offer's end: the driver of the session before is stopped, its queue closed.
LEMMA AbortedIs ==
    ASSUME QueueInv
    PROVE  /\ Aborted \in [Offers -> DriverStates]
           /\ \A n \in Offers : Aborted[n] \notin {"connecting", "found", "live"}
<1>1. SessionTyped /\ Held BY DEF QueueInv
<1>2. CASE slot = Nobody
  <2>1. Aborted = driver BY <1>2 DEF Aborted
  <2>2. \A n \in Offers : n # Nobody BY OffersAre DEF Nobody
  <2> QED BY <1>1, <1>2, <2>1, <2>2 DEF SessionTyped, Held
<1>3. CASE slot # Nobody
  <2>1. Aborted = [driver EXCEPT ![slot] = IF @ = "found" THEN "doomed" ELSE "over"] BY <1>3 DEF Aborted
  <2>2. slot \in Offers /\ driver \in [Offers -> DriverStates] BY <1>1, <1>3 DEF SessionTyped, Sides
  <2>3. \A n \in Offers : Aborted[n] = IF n = slot THEN (IF driver[n] = "found" THEN "doomed" ELSE "over") ELSE driver[n]
    BY <2>1, <2>2
  <2>4. Aborted \in [Offers -> DriverStates] BY <2>1, <2>2 DEF DriverStates
  <2> QED BY <1>1, <2>3, <2>4 DEF Held
<1> QED BY <1>2, <1>3

\* What closes the queue leaves none.
LEMMA NothingOpen ==
    ASSUME QueueInv, CloseMirror
    PROVE  /\ mirror' = Nobody /\ mirror' \in Sides /\ open' \in SUBSET Offers /\ open' \subseteq open
           /\ ~overrun => open' = {}
BY DEF QueueInv, SessionTyped, QueuesReachable, CloseMirror, Sides

LEMMA AnswerQueues ==
    ASSUME QueueInv, HandleOffer \/ RefuseOffer \/ SessionRestart PROVE QueueInv'
<1>1. SessionTyped BY DEF QueueInv
<1>2. CloseMirror /\ overrun' = overrun BY DEF HandleOffer, RefuseOffer, SessionRestart
<1>3. /\ mirror' = Nobody /\ mirror' \in Sides /\ open' \in SUBSET Offers /\ open' \subseteq open
      /\ ~overrun => open' = {}
  BY <1>2, NothingOpen
<1>4. /\ Aborted \in [Offers -> DriverStates]
      /\ \A n \in Offers : Aborted[n] \notin {"connecting", "found", "live"}
  BY AbortedIs
<1>5. /\ offers' \in Seq(Offers) /\ slot' \in Sides /\ driver' \in [Offers -> DriverStates]
      /\ \A n \in Offers : driver'[n] \in {"connecting", "found", "live"} => slot' = n
  <2>1. CASE HandleOffer
    <3> DEFINE h == Head(offers)
    <3>1. offers # <<>> /\ offers' = Tail(offers) /\ slot' = h /\ driver' = [Aborted EXCEPT ![h] = "connecting"]
      BY <2>1 DEF HandleOffer
    <3>2. h \in Offers /\ offers' \in Seq(Offers) BY <1>1, <3>1, HeadTailProperties DEF SessionTyped
    <3> HIDE DEF h
    <3>3. driver' \in [Offers -> DriverStates] BY <1>4, <3>1, <3>2 DEF DriverStates
    <3>4. \A n \in Offers : n # h => driver'[n] = Aborted[n] BY <1>4, <3>1, <3>2
    <3> QED BY <1>4, <3>1, <3>2, <3>3, <3>4 DEF Sides
  <2>2. CASE RefuseOffer
    <3>1. offers # <<>> /\ offers' = Tail(offers) /\ slot' = Nobody /\ driver' = Aborted BY <2>2 DEF RefuseOffer
    <3>2. offers' \in Seq(Offers) BY <1>1, <3>1, HeadTailProperties DEF SessionTyped
    <3> QED BY <1>4, <3>1, <3>2 DEF Sides
  <2>3. CASE SessionRestart
    <3>1. offers' = <<>> /\ slot' = Nobody /\ driver' = Aborted BY <2>3 DEF SessionRestart
    <3> QED BY <1>4, <3>1 DEF Sides
  <2> QED BY <2>1, <2>2, <2>3
<1>6. SessionTyped' BY <1>1, <1>2, <1>3, <1>5 DEF SessionTyped
<1>7. Held' BY <1>5 DEF Held
<1>8. Lonely' /\ QueuesReachable' BY <1>2, <1>3 DEF Lonely, QueuesReachable
<1> QED BY <1>6, <1>7, <1>8 DEF QueueInv

\* A driver that neither begins nor becomes visible
LEMMA DriverQueues ==
    ASSUME QueueInv, NEW n \in Offers, NEW s \in DriverStates, DriverBecomes(n, s),
           s \in {"connecting", "found", "live"} => driver[n] = "connecting",
           offers' = offers, slot' \in Sides, overrun' = overrun,
           slot' = slot \/ (slot = n /\ s \notin {"connecting", "found", "live"}),
           CloseMirror \/ (mirror' = mirror /\ open' = open)
    PROVE  QueueInv'
<1>1. SessionTyped /\ Held /\ Lonely /\ QueuesReachable BY DEF QueueInv
<1>2. /\ mirror' \in Sides /\ open' \in SUBSET Offers /\ open' \subseteq open
      /\ ~overrun => open' \subseteq {mirror'}
  <2>1. CASE CloseMirror BY <2>1, NothingOpen
  <2>2. CASE mirror' = mirror /\ open' = open BY <1>1, <2>2 DEF SessionTyped, QueuesReachable
  <2> QED BY <2>1, <2>2
<1>3. driver' = [driver EXCEPT ![n] = s] /\ driver \in [Offers -> DriverStates] BY <1>1 DEF DriverBecomes, SessionTyped
<1>4. driver' \in [Offers -> DriverStates] /\ driver'[n] = s /\ \A k \in Offers : k # n => driver'[k] = driver[k] BY <1>3
<1>5. SessionTyped' BY <1>1, <1>2, <1>4 DEF SessionTyped
<1>6. Held'
  <2> SUFFICES ASSUME NEW k \in Offers, driver'[k] \in {"connecting", "found", "live"} PROVE slot' = k BY DEF Held
  <2>1. driver[k] \in {"connecting", "found", "live"} BY <1>4
  <2>2. slot = k BY <1>1, <2>1 DEF Held
  <2> QED BY <1>4, <2>2
<1>7. Lonely'
  <2> SUFFICES ASSUME ~overrun, NEW k \in Offers, driver'[k] \in {"connecting", "found"} PROVE open' = {} BY DEF Lonely
  <2>1. driver[k] \in {"connecting", "found"} BY <1>4
  <2>2. open = {} BY <1>1, <2>1 DEF Lonely
  <2> QED BY <1>2, <2>2
<1>8. QueuesReachable' BY <1>2 DEF QueuesReachable
<1> QED BY <1>5, <1>6, <1>7, <1>8 DEF QueueInv

LEMMA InstallQueues == ASSUME QueueInv, NEW n \in Offers, DriverInstalls(n) PROVE QueueInv'
<1>1. SessionTyped /\ Held /\ Lonely /\ QueuesReachable BY DEF QueueInv
<1> DEFINE s == IF driver[n] = "found" THEN "live" ELSE "over"
<1>2. /\ driver[n] \in {"found", "doomed"} /\ mirror' = n /\ open' = open \cup {n}
      /\ overrun' = (overrun \/ driver[n] = "doomed") /\ DriverBecomes(n, s) /\ offers' = offers /\ slot' = slot
  BY DEF DriverInstalls
<1>3. s \in {"live", "over"} /\ (s = "live" => driver[n] = "found") OBVIOUS
<1> HIDE DEF s
<1>4. driver' = [driver EXCEPT ![n] = s] /\ driver \in [Offers -> DriverStates] BY <1>1, <1>2 DEF DriverBecomes, SessionTyped
<1>5. driver' \in [Offers -> DriverStates] /\ driver'[n] = s /\ \A k \in Offers : k # n => driver'[k] = driver[k]
  BY <1>3, <1>4 DEF DriverStates
<1>6. SessionTyped' BY <1>1, <1>2, <1>5 DEF SessionTyped, Sides
<1>7. Held'
  <2> SUFFICES ASSUME NEW k \in Offers, driver'[k] \in {"connecting", "found", "live"} PROVE slot' = k BY DEF Held
  <2>1. driver[k] \in {"connecting", "found", "live"} BY <1>3, <1>5
  <2>2. slot = k BY <1>1, <2>1 DEF Held
  <2> QED BY <1>2, <2>2
<1>8. Lonely' /\ QueuesReachable'
  <2> SUFFICES ASSUME ~overrun' PROVE Lonely' /\ QueuesReachable' BY DEF Lonely, QueuesReachable
  <2>1. driver[n] = "found" /\ ~overrun BY <1>1, <1>2 DEF SessionTyped
  <2>2. slot = n /\ open = {} BY <1>1, <2>1 DEF Held, Lonely
  <2>3. open' = {n} BY <1>2, <2>2
  <2>4. \A k \in Offers : driver'[k] \notin {"connecting", "found"}
    <3> SUFFICES ASSUME NEW k \in Offers, driver'[k] \in {"connecting", "found"} PROVE FALSE OBVIOUS
    <3>1. k # n BY <1>3, <1>5
    <3>2. slot = k BY <1>1, <1>5, <3>1 DEF Held
    <3> QED BY <2>2, <3>1, <3>2
  <2>5. Lonely' BY <2>4 DEF Lonely
  <2>6. QueuesReachable' BY <1>2, <2>3 DEF QueuesReachable
  <2> QED BY <2>5, <2>6
<1> QED BY <1>6, <1>7, <1>8 DEF QueueInv

LEMMA DriverRunsQueues == ASSUME QueueInv, NEW n \in Offers, DriverRuns(n) PROVE QueueInv'
<1>1. SessionTyped BY DEF QueueInv
<1>2. slot \in Sides /\ Nobody \in Sides BY <1>1 DEF SessionTyped, Sides
<1>3. CASE Meet(n)
  BY <1>3 DEF Meet, QueueInv, SessionTyped, Held, Lonely, QueuesReachable
<1>4. CASE DriverFinds(n) BY <1>2, <1>4, DriverQueues DEF DriverFinds, DriverStates
<1>5. CASE DriverInstalls(n) BY <1>5, InstallQueues
<1>6. CASE DriverFails(n) BY <1>2, <1>6, DriverQueues DEF DriverFails, DriverStates
<1>7. CASE Watchdog(n) BY <1>2, <1>7, DriverQueues DEF Watchdog, DriverStates
<1>8. CASE DriverLeaves(n)
  <2>1. CASE slot = n BY <1>2, <1>8, <2>1, DriverQueues DEF DriverLeaves, DriverStates
  <2>2. CASE slot # n BY <1>2, <1>8, <2>2, DriverQueues DEF DriverLeaves, DriverStates
  <2> QED BY <2>1, <2>2
<1>9. CASE DriverCloses(n) BY <1>2, <1>9, DriverQueues DEF DriverCloses, DriverStates
<1> QED BY <1>3, <1>4, <1>5, <1>6, <1>7, <1>8, <1>9 DEF DriverRuns

\* How a fetch stream comes to its end
StreamFails(v, f) == StreamOver(v, f) \/ NoStreamYet(v, f) \/ Refused(v, f) \/ BodyFails(v, f)

\* A page touches nothing of the agent's, but that it sends offers.
LEMMA PageLeavesAgent ==
    ASSUME NEW v \in Views,
           \/ ViewRuns(v) \/ (\E f \in Bodies : StreamFails(v, f)) \/ OfferFails(v) \/ WsErrors(v)
           \/ WsTimesOut(v) \/ WsCloses(v) \/ SkipP2P(v) \/ CooldownOver(v)
    PROVE  /\ slot' = slot /\ driver' = driver /\ mirror' = mirror /\ open' = open /\ overrun' = overrun
           /\ offers' = offers \/ \E n \in Offers : offers' = Append(offers, n)
<1> USE DEF Heard, Does, Only, agent
<1>1. CASE HearsStarted(v) BY <1>1 DEF HearsStarted
<1>2. CASE HearsAnswer(v) BY <1>2 DEF HearsAnswer
<1>3. CASE HearsFailed(v) BY <1>3 DEF HearsFailed
<1>4. CASE Calibrated(v) \/ Retry(v) BY <1>4 DEF Calibrated, Retry
<1>5. CASE \E f \in Bodies : ProbeAnswers(v, f) \/ FetchAnswers(v, f) BY <1>5 DEF ProbeAnswers, FetchAnswers
<1>6. CASE WindowOver(v) BY <1>6 DEF WindowOver
<1>7. CASE SendsOffer(v) BY <1>7 DEF SendsOffer
<1>8. CASE OfferTimesOut(v) BY <1>8 DEF OfferTimesOut
<1>9. CASE PcConnected(v) \/ PcFails(v) BY <1>9 DEF PcConnected, PcFails
<1>10. CASE ChannelCloses(v) BY <1>10 DEF ChannelCloses
<1>11. CASE WsOpens(v) \/ LateSessionTimeout(v) BY <1>11 DEF WsOpens, LateSessionTimeout
<1>12. CASE \E f \in Bodies : StreamFails(v, f)
  BY <1>12 DEF StreamFails, StreamOver, NoStreamYet, Refused, BodyFails
<1>13. CASE OfferFails(v) \/ WsErrors(v) \/ WsTimesOut(v) BY <1>13 DEF OfferFails, WsErrors, WsTimesOut
<1>14. CASE WsCloses(v) \/ SkipP2P(v) \/ CooldownOver(v) BY <1>14 DEF WsCloses, SkipP2P, CooldownOver
<1> QED BY <1>1, <1>2, <1>3, <1>4, <1>5, <1>6, <1>7, <1>8, <1>9, <1>10, <1>11, <1>12, <1>13, <1>14 DEF ViewRuns

LEMMA QueueStep == QueueInv /\ [PeerNext]_peerVars => QueueInv'
<1> SUFFICES ASSUME QueueInv, [PeerNext]_peerVars PROVE QueueInv' OBVIOUS
<1>1. SessionTyped BY DEF QueueInv
<1>2. ASSUME slot' = slot, driver' = driver, mirror' = mirror, open' = open, overrun' = overrun,
             offers' \in Seq(Offers)
      PROVE  QueueInv'
  BY <1>2 DEF QueueInv, SessionTyped, Held, Lonely, QueuesReachable
<1>3. ASSUME NEW v \in Views,
             \/ ViewRuns(v) \/ (\E f \in Bodies : StreamFails(v, f)) \/ OfferFails(v) \/ WsErrors(v)
             \/ WsTimesOut(v) \/ WsCloses(v) \/ SkipP2P(v) \/ CooldownOver(v)
      PROVE  QueueInv'
  <2>1. /\ slot' = slot /\ driver' = driver /\ mirror' = mirror /\ open' = open /\ overrun' = overrun
        /\ offers' = offers \/ \E n \in Offers : offers' = Append(offers, n)
    BY <1>3, PageLeavesAgent
  <2>2. offers' \in Seq(Offers) BY <1>1, <2>1 DEF SessionTyped
  <2> QED BY <1>2, <2>1, <2>2
<1>4. CASE \E n \in Offers : DriverRuns(n) BY <1>4, DriverRunsQueues
<1>5. CASE HandleOffer \/ RefuseOffer \/ SessionRestart BY <1>5, AnswerQueues
<1>6. CASE (\E n \in Offers : Cut(n)) \/ Restart \/ UNCHANGED peerVars
  <2>1. /\ slot' = slot /\ driver' = driver /\ mirror' = mirror /\ open' = open /\ overrun' = overrun
        /\ offers' = offers
    BY <1>6 DEF Cut, Restart, peerVars, agent
  <2> QED BY <1>1, <1>2, <2>1 DEF SessionTyped
<1> QED BY <1>3, <1>4, <1>5, <1>6 DEF PeerNext, PeerProgress, Misfortune, StreamFails

\* For any number of views and offers, and whatever takes the one session from
\* whom: as long as no driver installs its queue after it was aborted, a queue
\* that is open is the one that the next close of the mirror closes (agent/p2p.rs).
THEOREM QueuesAreReached == PeerSpec => []QueuesReachable
<1>1. PeerInit => QueueInv BY QueueStart
<1>2. QueueInv /\ [PeerNext]_peerVars => QueueInv' BY QueueStep
<1>3. QueueInv => QueuesReachable BY DEF QueueInv
<1> QED BY <1>1, <1>2, <1>3, PTL DEF PeerSpec

(***************************************************************************)
(* The page: never fed twice.                                              *)
(***************************************************************************)
Timers == {"wait", "offer"}
Tries == {"none", "probing", "asked", "feeding"}
PageSet ==
    [connected : BOOLEAN, transport : {"relay", "p2p", "lan"}, pc : {"none", "new", "offered"},
     offer : Sides, remote : Sides, ghost : BOOLEAN, fallback : BOOLEAN, rejected : BOOLEAN,
     ws : {"none", "opening", "open"}, fetch : Tries, stray : Tries, calibrating : Nat, retries : Nat,
     failed : BOOLEAN, held : SUBSET Timers, loose : SUBSET (Timers \cup {"session"}), tangled : BOOLEAN]
Signals == [type : {"started", "answer", "failed"}, n : Sides]
\* Nothing is under way but, perhaps, a socket.
AtRest(r) == r.fetch = "none" /\ r.pc = "none" /\ r.held = {} /\ r.calibrating = 0
\* One way at a time; a connection the page has closed leaves it to the socket.
OneTrack(r) ==
    ~r.tangled =>
        /\ r.stray = "none" /\ r.calibrating \in {0, 1} /\ r.loose \subseteq {"session"}
        /\ r.ws # "none" \/ r.ghost => AtRest(r)
        /\ r.fetch # "none" => r.pc = "none" /\ r.held = {} /\ r.calibrating = 0
        /\ r.pc # "none" => r.held \subseteq {"offer"} /\ r.calibrating = 0
        /\ r.pc = "none" => r.held \subseteq {"wait"}
        /\ "wait" \in r.held => r.calibrating = 0

LEMMA PageIs ==
    ASSUME NEW r \in PageSet
    PROVE  /\ r.connected \in BOOLEAN /\ r.transport \in {"relay", "p2p", "lan"} /\ r.pc \in {"none", "new", "offered"}
           /\ r.offer \in Sides /\ r.remote \in Sides /\ r.ghost \in BOOLEAN /\ r.fallback \in BOOLEAN
           /\ r.rejected \in BOOLEAN /\ r.ws \in {"none", "opening", "open"} /\ r.fetch \in Tries /\ r.stray \in Tries
           /\ r.calibrating \in Nat /\ r.retries \in Nat /\ r.failed \in BOOLEAN /\ r.held \in SUBSET Timers
           /\ r.loose \in SUBSET (Timers \cup {"session"}) /\ r.tangled \in BOOLEAN
BY DEF PageSet

\* What each method leaves of the fields that OneTrack speaks of
LEMMA SetsPage ==
    ASSUME NEW r \in PageSet, NEW t \in Timers
    PROVE  LET s == Sets(r, t) IN
           /\ s \in PageSet /\ s.held = r.held \cup {t} /\ s.loose = r.loose \cup (r.held \cap {t})
           /\ s.ghost = r.ghost /\ s.stray = r.stray /\ s.calibrating = r.calibrating /\ s.tangled = r.tangled
           /\ s.fetch = r.fetch /\ s.pc = r.pc /\ s.ws = r.ws
BY DEF PageSet, Sets

LEMMA ClearsPage ==
    ASSUME NEW r \in PageSet, NEW t \in Timers
    PROVE  LET s == Clears(r, t) IN
           /\ s \in PageSet /\ s.held = r.held \ {t} /\ s.loose = r.loose
           /\ s.ghost = r.ghost /\ s.stray = r.stray /\ s.calibrating = r.calibrating /\ s.tangled = r.tangled
           /\ s.fetch = r.fetch /\ s.pc = r.pc /\ s.ws = r.ws
           /\ s.transport = r.transport /\ s.fallback = r.fallback /\ s.connected = r.connected /\ s.rejected = r.rejected
BY DEF PageSet, Clears

LEMMA ClosesPcPage ==
    ASSUME NEW r \in PageSet, peering.closes \in BOOLEAN
    PROVE  LET s == ClosesPc(r) IN
           /\ s \in PageSet /\ s.pc = "none" /\ s.ghost = (r.ghost \/ (r.pc # "none" /\ peering.closes))
           /\ s.held = r.held /\ s.loose = r.loose
           /\ s.stray = r.stray /\ s.calibrating = r.calibrating /\ s.tangled = r.tangled
           /\ s.fetch = r.fetch /\ s.ws = r.ws
           /\ s.transport = r.transport /\ s.fallback = r.fallback /\ s.connected = r.connected
BY DEF PageSet, ClosesPc, Sides

LEMMA DropsWsPage ==
    ASSUME NEW r \in PageSet
    PROVE  LET s == DropsWs(r) IN
           /\ s \in PageSet /\ s.ws = "none" /\ r.loose \subseteq s.loose /\ s.loose \subseteq r.loose \cup {"session"}
           /\ s.held = r.held /\ s.ghost = r.ghost /\ s.pc = r.pc
           /\ s.stray = r.stray /\ s.calibrating = r.calibrating /\ s.tangled = r.tangled
           /\ s.fetch = r.fetch /\ s.retries = r.retries
BY DEF PageSet, DropsWs

LEMMA DisconnectPage ==
    ASSUME NEW r \in PageSet, peering.closes \in BOOLEAN
    PROVE  LET s == Disconnect(r) IN
           /\ s \in PageSet /\ s.ws = "none" /\ s.fetch = "none" /\ s.pc = "none" /\ s.held = {}
           /\ s.ghost = r.ghost /\ s.stray = r.stray /\ s.calibrating = r.calibrating /\ s.tangled = r.tangled
           /\ s.retries = r.retries
           /\ s.loose \subseteq r.loose \cup {"session"}
<1> DEFINE a == ClosesPc(r)
           b == DropsWs(a)
           c == Clears(b, "wait")
           d == Clears(c, "offer")
<1>0. r.ghost \in BOOLEAN /\ r.held \subseteq Timers BY PageIs
<1>1. a \in PageSet /\ a.held = r.held /\ a.loose = r.loose /\ a.stray = r.stray /\ a.calibrating = r.calibrating
      /\ a.tangled = r.tangled /\ a.pc = "none"
  BY ClosesPcPage
<1>2. a.retries = r.retries BY DEF ClosesPc, PageSet
<1> HIDE DEF a
<1>3. b \in PageSet /\ b.held = r.held /\ b.loose \subseteq r.loose \cup {"session"} /\ b.stray = r.stray
      /\ b.calibrating = r.calibrating /\ b.tangled = r.tangled /\ b.pc = "none" /\ b.ws = "none" /\ b.retries = r.retries
  BY <1>1, <1>2, DropsWsPage
<1> HIDE DEF b
<1>4. c \in PageSet /\ c.held = r.held \ {"wait"} /\ c.loose \subseteq r.loose \cup {"session"} /\ c.stray = r.stray
      /\ c.calibrating = r.calibrating /\ c.tangled = r.tangled /\ c.pc = "none" /\ c.ws = "none" /\ c.retries = r.retries
  BY <1>3 DEF Clears, PageSet
<1> HIDE DEF c
<1>5. d \in PageSet /\ d.held = {} /\ d.loose \subseteq r.loose \cup {"session"} /\ d.stray = r.stray
      /\ d.calibrating = r.calibrating /\ d.tangled = r.tangled /\ d.pc = "none" /\ d.ws = "none" /\ d.retries = r.retries
  BY <1>0, <1>4 DEF Clears, PageSet, Timers
<1>6. Disconnect(r) = [d EXCEPT !.ghost = r.ghost, !.fetch = "none", !.connected = FALSE, !.transport = "relay", !.fallback = FALSE]
  BY DEF Disconnect, d, c, b, a
<1> HIDE DEF d
<1> DEFINE g == r.ghost
<1>7. g \in BOOLEAN BY <1>0
<1> HIDE DEF g
<1> DEFINE s == [d EXCEPT !.ghost = g, !.fetch = "none", !.connected = FALSE, !.transport = "relay", !.fallback = FALSE]
<1>8. s \in PageSet
  <2> DEFINE x == [d EXCEPT !.ghost = g, !.fetch = "none"]
             y == [x EXCEPT !.connected = FALSE, !.transport = "relay", !.fallback = FALSE]
  <2>1. x \in PageSet BY <1>5, <1>7 DEF PageSet, Tries
  <2>2. y = s OBVIOUS
  <2> HIDE DEF x
  <2>3. y \in PageSet BY <2>1 DEF PageSet
  <2> QED BY <2>2, <2>3
<1>9. /\ s.ghost = g /\ s.fetch = "none" /\ s.held = d.held /\ s.loose = d.loose /\ s.stray = d.stray
      /\ s.calibrating = d.calibrating /\ s.tangled = d.tangled /\ s.pc = d.pc /\ s.ws = d.ws /\ s.retries = d.retries
  BY <1>5 DEF PageSet
<1>10. Disconnect(r) = s BY <1>6 DEF g
<1> HIDE DEF s
<1> QED BY <1>5, <1>8, <1>9, <1>10 DEF g

LEMMA StartWsPage ==
    ASSUME NEW r \in PageSet
    PROVE  LET s == StartWs(r) IN
           /\ s \in PageSet
           /\ s.held = r.held /\ s.ghost = r.ghost /\ s.pc = r.pc /\ s.loose = r.loose
           /\ s.stray = r.stray /\ s.calibrating = r.calibrating /\ s.tangled = r.tangled /\ s.fetch = r.fetch
BY DEF PageSet, StartWs

LEMMA FetchesPage ==
    ASSUME NEW r \in PageSet, NEW how \in Tries
    PROVE  LET s == Fetches(r, how) IN
           /\ s \in PageSet /\ s.fetch = how /\ s.stray = IF r.fetch = "none" THEN r.stray ELSE r.fetch
           /\ s.held = r.held /\ s.ghost = r.ghost /\ s.pc = r.pc /\ s.loose = r.loose /\ s.ws = r.ws
           /\ s.calibrating = r.calibrating /\ s.tangled = r.tangled
BY DEF PageSet, Fetches

LEMMA RejectedPage ==
    ASSUME NEW r \in PageSet
    PROVE  LET s == Rejected(r) IN
           /\ s \in PageSet
           /\ s.held = r.held /\ s.ghost = r.ghost /\ s.pc = r.pc /\ s.loose = r.loose /\ s.ws = r.ws
           /\ s.stray = r.stray /\ s.calibrating = r.calibrating /\ s.tangled = r.tangled /\ s.fetch = r.fetch
           /\ s.transport = r.transport /\ s.fallback = r.fallback /\ s.connected = r.connected
BY DEF PageSet, Rejected

\* Of a page that is not tangled: what was overwritten is over.
Neat(r) == ~r.tangled => r.stray = "none" /\ r.loose \subseteq {"session"}
\* ... and at most a connection is under way.
Offering(r) == ~r.tangled => r.fetch = "none" /\ r.held \subseteq {"offer"} /\ r.calibrating = 0

LEMMA RestsTrack ==
    ASSUME NEW r \in PageSet, Neat(r), ~r.tangled => AtRest(r)
    PROVE  OneTrack(r)
BY DEF OneTrack, AtRest, Neat

LEMMA ConnectTrack ==
    ASSUME NEW r \in PageSet, peering.closes \in BOOLEAN, OneTrack(r), ~r.ghost
    PROVE  Connect(r) \in PageSet /\ OneTrack(Connect(r))
<1> DEFINE d == Disconnect(r)
           n == d.calibrating + 1
           t == d.tangled \/ r.calibrating > 0
           s == [d EXCEPT !.calibrating = n, !.failed = FALSE, !.tangled = t]
<1>1. /\ d \in PageSet /\ d.ws = "none" /\ d.fetch = "none" /\ d.pc = "none" /\ d.held = {}
      /\ d.ghost = r.ghost /\ d.stray = r.stray /\ d.calibrating = r.calibrating /\ d.tangled = r.tangled
      /\ d.loose \subseteq r.loose \cup {"session"}
  BY DisconnectPage
<1>2. Connect(r) = s
  <2>1. Connect(r) = [d EXCEPT !.calibrating = @ + 1, !.failed = FALSE, !.tangled = @ \/ r.calibrating > 0] BY DEF Connect
  <2> HIDE DEF d
  <2> QED BY <1>1, <2>1 DEF PageSet
<1>3. r.tangled \in BOOLEAN /\ r.calibrating \in Nat BY PageIs
<1>4. n \in Nat /\ t \in BOOLEAN BY <1>1, <1>3
<1>5. r.calibrating = 0 => n = 1 BY <1>1
<1>6. ~t => ~r.tangled /\ r.calibrating = 0 BY <1>1, <1>3
<1> HIDE DEF d, n, t
<1>7. s \in PageSet BY <1>1, <1>4 DEF PageSet
<1>8. /\ s.ws = d.ws /\ s.fetch = d.fetch /\ s.pc = d.pc /\ s.held = d.held /\ s.ghost = d.ghost /\ s.stray = d.stray
      /\ s.calibrating = n /\ s.tangled = t /\ s.loose = d.loose
  BY <1>1 DEF PageSet
<1> HIDE DEF s
<1>9. OneTrack(s)
  <2> SUFFICES ASSUME ~t PROVE OneTrack(s) BY <1>8 DEF OneTrack
  <2>1. n = 1 /\ r.stray = "none" /\ r.loose \subseteq {"session"} BY <1>5, <1>6 DEF OneTrack
  <2> QED BY <1>1, <1>8, <2>1 DEF OneTrack, AtRest
<1> QED BY <1>2, <1>7, <1>9

LEMMA ReconnectsTrack ==
    ASSUME NEW r \in PageSet, peering.closes \in BOOLEAN, Neat(r),
           ~r.tangled => r.calibrating \in {0, 1} /\ (r.ghost => r.calibrating = 0)
    PROVE  Reconnects(r) \in PageSet /\ OneTrack(Reconnects(r))
<1> DEFINE d == Disconnect(r)
           s == [d EXCEPT !.retries = @ + 1]
<1>1. /\ d \in PageSet /\ d.ws = "none" /\ d.fetch = "none" /\ d.pc = "none" /\ d.held = {}
      /\ d.ghost = r.ghost /\ d.stray = r.stray /\ d.calibrating = r.calibrating /\ d.tangled = r.tangled
      /\ d.loose \subseteq r.loose \cup {"session"}
  BY DisconnectPage
<1>2. Reconnects(r) = s BY DEF Reconnects
<1> HIDE DEF d
<1>3. s \in PageSet BY <1>1 DEF PageSet
<1>4. /\ s.ws = "none" /\ s.fetch = "none" /\ s.pc = "none" /\ s.held = {} /\ s.ghost = d.ghost /\ s.stray = d.stray
      /\ s.calibrating = d.calibrating /\ s.tangled = d.tangled /\ s.loose = d.loose
  BY <1>1 DEF PageSet
<1> HIDE DEF s
<1>5. OneTrack(s) BY <1>1, <1>4 DEF OneTrack, AtRest, Neat
<1> QED BY <1>2, <1>3, <1>5

LEMMA StartWsTrack ==
    ASSUME NEW r \in PageSet, Neat(r), ~r.tangled => AtRest(r)
    PROVE  StartWs(r) \in PageSet /\ OneTrack(StartWs(r))
<1> DEFINE s == StartWs(r)
<1>1. /\ s \in PageSet
      /\ s.held = r.held /\ s.ghost = r.ghost /\ s.pc = r.pc /\ s.loose = r.loose
      /\ s.stray = r.stray /\ s.calibrating = r.calibrating /\ s.tangled = r.tangled /\ s.fetch = r.fetch
  BY StartWsPage
<1> HIDE DEF s
<1>2. Neat(s) /\ (~s.tangled => AtRest(s)) BY <1>1 DEF Neat, AtRest
<1> QED BY <1>1, <1>2, RestsTrack DEF s

LEMMA OnP2pFailedTrack ==
    ASSUME NEW r \in PageSet, peering.closes \in BOOLEAN, Neat(r), Offering(r)
    PROVE  OnP2pFailed(r) \in PageSet /\ OneTrack(OnP2pFailed(r))
<1> DEFINE c == Clears(r, "offer")
           j == Rejected(c)
           s == ClosesPc(j)
<1>1. /\ c \in PageSet /\ c.held = r.held \ {"offer"} /\ c.loose = r.loose
      /\ c.stray = r.stray /\ c.calibrating = r.calibrating /\ c.tangled = r.tangled /\ c.fetch = r.fetch
  BY ClearsPage DEF Timers
<1> HIDE DEF c
<1>2. /\ j \in PageSet /\ j.held = c.held /\ j.loose = c.loose
      /\ j.stray = c.stray /\ j.calibrating = c.calibrating /\ j.tangled = c.tangled /\ j.fetch = c.fetch
  BY <1>1, RejectedPage
<1> HIDE DEF j
<1>3. /\ s \in PageSet /\ s.pc = "none" /\ s.held = j.held /\ s.loose = j.loose
      /\ s.stray = j.stray /\ s.calibrating = j.calibrating /\ s.tangled = j.tangled /\ s.fetch = j.fetch
  BY <1>2, ClosesPcPage
<1> HIDE DEF s
<1>4. Neat(s) /\ (~s.tangled => AtRest(s)) BY <1>1, <1>2, <1>3 DEF Neat, AtRest, Offering
<1> DEFINE t == [s EXCEPT !.fallback = TRUE, !.transport = "relay"]
<1>5. t \in PageSet BY <1>3 DEF PageSet
<1>6. /\ t.pc = s.pc /\ t.held = s.held /\ t.loose = s.loose
      /\ t.stray = s.stray /\ t.calibrating = s.calibrating /\ t.tangled = s.tangled /\ t.fetch = s.fetch
  BY <1>3 DEF PageSet
<1>7. OnP2pFailed(r) = IF r.transport = "p2p" \/ r.fallback THEN s ELSE StartWs(t)
  BY DEF OnP2pFailed, s, j, c
<1> HIDE DEF t
<1>8. Neat(t) /\ (~t.tangled => AtRest(t)) BY <1>4, <1>6 DEF Neat, AtRest
<1>9. StartWs(t) \in PageSet /\ OneTrack(StartWs(t)) BY <1>5, <1>8, StartWsTrack
<1>10. OneTrack(s) BY <1>3, <1>4, RestsTrack
<1> QED BY <1>3, <1>7, <1>9, <1>10

LEMMA OnP2pLostTrack ==
    ASSUME NEW r \in PageSet, peering.closes \in BOOLEAN, OneTrack(r), Neat(r),
           Offering(r) \/ (r.connected /\ r.transport = "p2p")
    PROVE  OnP2pLost(r) \in PageSet /\ OneTrack(OnP2pLost(r))
<1> DEFINE c == Clears(r, "offer")
           k == ClosesPc(c)
           j == Rejected(k)
           s == [j EXCEPT !.transport = "relay"]
<1>1. /\ c \in PageSet /\ c.held = r.held \ {"offer"} /\ c.loose = r.loose /\ c.pc = r.pc /\ c.ghost = r.ghost
      /\ c.stray = r.stray /\ c.calibrating = r.calibrating /\ c.tangled = r.tangled /\ c.fetch = r.fetch
  BY ClearsPage DEF Timers
<1> HIDE DEF c
<1>2. /\ k \in PageSet /\ k.pc = "none" /\ k.held = c.held /\ k.loose = c.loose
      /\ k.ghost = (c.ghost \/ (c.pc # "none" /\ peering.closes))
      /\ k.stray = c.stray /\ k.calibrating = c.calibrating /\ k.tangled = c.tangled /\ k.fetch = c.fetch
  BY <1>1, ClosesPcPage
<1> HIDE DEF k
<1>3. /\ j \in PageSet /\ j.pc = k.pc /\ j.held = k.held /\ j.loose = k.loose /\ j.ghost = k.ghost
      /\ j.stray = k.stray /\ j.calibrating = k.calibrating /\ j.tangled = k.tangled /\ j.fetch = k.fetch
  BY <1>2, RejectedPage
<1> HIDE DEF j
<1>4. s \in PageSet BY <1>3 DEF PageSet
<1>5. /\ s.pc = j.pc /\ s.held = j.held /\ s.loose = j.loose /\ s.ghost = j.ghost
      /\ s.stray = j.stray /\ s.calibrating = j.calibrating /\ s.tangled = j.tangled /\ s.fetch = j.fetch
  BY <1>3 DEF PageSet
<1>6. OnP2pLost(r) = IF r.pc = "none" /\ ~r.connected THEN r
                     ELSE IF r.connected /\ r.transport = "p2p" THEN Reconnects(s)
                     ELSE StartWs([s EXCEPT !.fallback = TRUE])
  BY DEF OnP2pLost, s, j, k, c
<1> HIDE DEF s
<1>7. Neat(s) BY <1>1, <1>2, <1>3, <1>5 DEF Neat
<1>8. CASE r.connected /\ r.transport = "p2p"
  <2>1. ~s.tangled => s.calibrating \in {0, 1} /\ (s.ghost => s.calibrating = 0)
    BY <1>1, <1>2, <1>3, <1>5 DEF OneTrack, AtRest
  <2>2. Reconnects(s) \in PageSet /\ OneTrack(Reconnects(s)) BY <1>4, <1>7, <2>1, ReconnectsTrack
  <2> QED BY <1>6, <1>8, <2>2
<1>9. CASE Offering(r) /\ ~(r.connected /\ r.transport = "p2p")
  <2> DEFINE t == [s EXCEPT !.fallback = TRUE]
  <2>1. t \in PageSet BY <1>4 DEF PageSet
  <2>2. /\ t.pc = s.pc /\ t.held = s.held /\ t.loose = s.loose
        /\ t.stray = s.stray /\ t.calibrating = s.calibrating /\ t.tangled = s.tangled /\ t.fetch = s.fetch
    BY <1>4 DEF PageSet
  <2> HIDE DEF t
  <2>3. Neat(t) BY <1>7, <2>2 DEF Neat
  <2>4. ~t.tangled => AtRest(t) BY <1>1, <1>2, <1>3, <1>5, <1>9, <2>2 DEF AtRest, Offering
  <2>5. StartWs(t) \in PageSet /\ OneTrack(StartWs(t)) BY <2>1, <2>3, <2>4, StartWsTrack
  <2> QED BY <1>6, <1>9, <2>5 DEF t
<1> QED BY <1>8, <1>9

LEMMA OnWsFailedTrack ==
    ASSUME NEW r \in PageSet, Neat(r), ~r.tangled => AtRest(r) /\ ~r.ghost
    PROVE  OnWsFailed(r) \in PageSet /\ OneTrack(OnWsFailed(r))
<1> DEFINE w == [r EXCEPT !.ws = "none"]
           s == Fetches(w, "asked")
<1>1. w \in PageSet BY DEF PageSet
<1>2. /\ w.ws = "none" /\ w.fetch = r.fetch /\ w.pc = r.pc /\ w.held = r.held /\ w.ghost = r.ghost /\ w.loose = r.loose
      /\ w.stray = r.stray /\ w.calibrating = r.calibrating /\ w.tangled = r.tangled
  BY DEF PageSet
<1> HIDE DEF w
<1>3. /\ s \in PageSet /\ s.fetch = "asked" /\ s.stray = IF w.fetch = "none" THEN w.stray ELSE w.fetch
      /\ s.held = w.held /\ s.ghost = w.ghost /\ s.pc = w.pc /\ s.loose = w.loose /\ s.ws = w.ws
      /\ s.calibrating = w.calibrating /\ s.tangled = w.tangled
  BY <1>1, FetchesPage DEF Tries
<1>4. OnWsFailed(r) = s BY DEF OnWsFailed, w
<1> HIDE DEF s
<1>5. OneTrack(s) BY <1>2, <1>3 DEF OneTrack, Neat, AtRest
<1> QED BY <1>3, <1>4, <1>5

LEMMA StartP2pTrack ==
    ASSUME NEW r \in PageSet, Neat(r), ~r.tangled => AtRest(r) /\ ~r.ghost /\ r.ws = "none"
    PROVE  StartP2p(r) \in PageSet /\ OneTrack(StartP2p(r))
<1>1. CASE r.rejected
  <2>1. StartP2p(r) = StartWs(r) BY <1>1 DEF StartP2p
  <2> QED BY <2>1, StartWsTrack
<1>2. CASE ~r.rejected
  <2> DEFINE s == Sets(r, "wait")
  <2>1. StartP2p(r) = s BY <1>2 DEF StartP2p
  <2>2. /\ s \in PageSet /\ s.held = r.held \cup {"wait"} /\ s.loose = r.loose \cup (r.held \cap {"wait"})
        /\ s.ghost = r.ghost /\ s.stray = r.stray /\ s.calibrating = r.calibrating /\ s.tangled = r.tangled
        /\ s.fetch = r.fetch /\ s.pc = r.pc /\ s.ws = r.ws
    BY SetsPage DEF Timers
  <2> HIDE DEF s
  <2>3. OneTrack(s) BY <2>2 DEF OneTrack, Neat, AtRest
  <2> QED BY <2>1, <2>2, <2>3
<1> QED BY <1>1, <1>2

LEMMA StartLanTrack ==
    ASSUME NEW r \in PageSet, Neat(r), ~r.tangled => AtRest(r) /\ ~r.ghost /\ r.ws = "none"
    PROVE  StartLan(r) \in PageSet /\ OneTrack(StartLan(r))
<1>1. CASE r.rejected
  <2>1. StartLan(r) = StartWs(r) BY <1>1 DEF StartLan
  <2> QED BY <2>1, StartWsTrack
<1>2. CASE ~r.rejected /\ peering.told
  <2> DEFINE s == Fetches(r, "probing")
  <2>1. StartLan(r) = s BY <1>2 DEF StartLan
  <2>2. /\ s \in PageSet /\ s.fetch = "probing" /\ s.stray = IF r.fetch = "none" THEN r.stray ELSE r.fetch
        /\ s.held = r.held /\ s.ghost = r.ghost /\ s.pc = r.pc /\ s.loose = r.loose /\ s.ws = r.ws
        /\ s.calibrating = r.calibrating /\ s.tangled = r.tangled
    BY FetchesPage DEF Tries
  <2> HIDE DEF s
  <2>3. OneTrack(s) BY <2>2 DEF OneTrack, Neat, AtRest
  <2> QED BY <2>1, <2>2, <2>3
<1>3. CASE ~r.rejected /\ ~peering.told
  <2>1. StartLan(r) = StartP2p(r) BY <1>3 DEF StartLan
  <2> QED BY <2>1, StartP2pTrack
<1> QED BY <1>1, <1>2, <1>3

LEMMA FiredPage ==
    ASSUME NEW r \in PageSet, NEW t \in Timers \cup {"session"}
    PROVE  LET s == Fired(r, t) IN
           /\ s \in PageSet /\ s.held = r.held \ {t} /\ s.tangled = (r.tangled \/ t \in r.loose)
           /\ s.loose \subseteq r.loose
           /\ s.ghost = r.ghost /\ s.stray = r.stray /\ s.calibrating = r.calibrating
           /\ s.fetch = r.fetch /\ s.pc = r.pc /\ s.ws = r.ws
<1> DEFINE h == r.held \ {t}
           b == r.tangled \/ t \in r.loose
           l == IF t \in r.loose \cap r.held THEN r.loose ELSE r.loose \ {t}
           s == [r EXCEPT !.held = h, !.tangled = b, !.loose = l]
<1>1. h \in SUBSET Timers /\ b \in BOOLEAN /\ l \in SUBSET (Timers \cup {"session"}) /\ l \subseteq r.loose BY PageIs
<1>2. Fired(r, t) = s
  <2>1. Fired(r, t) = [r EXCEPT !.held = @ \ {t}, !.tangled = @ \/ t \in r.loose,
                                !.loose = IF t \in r.loose \cap r.held THEN @ ELSE @ \ {t}]
    BY DEF Fired
  <2> QED BY <2>1 DEF PageSet
<1> HIDE DEF h, b, l
<1>3. s \in PageSet BY <1>1 DEF PageSet
<1>4. /\ s.held = h /\ s.tangled = b /\ s.loose = l /\ s.ghost = r.ghost /\ s.stray = r.stray
      /\ s.calibrating = r.calibrating /\ s.fetch = r.fetch /\ s.pc = r.pc /\ s.ws = r.ws
  BY DEF PageSet
<1> HIDE DEF s
<1> QED BY <1>1, <1>2, <1>3, <1>4 DEF h, b, l

PeeringSet ==
    [watch : SUBSET Views, lan : SUBSET Views, told : BOOLEAN, direct : SUBSET Views, closes : BOOLEAN,
     kinds : SUBSET PeerFaults, left : Nat]
PagesTyped ==
    /\ SessionTyped /\ peering \in PeeringSet
    /\ page \in [Views -> PageSet] /\ inbox \in [Views -> Seq(Signals)]
PageInv == PagesTyped /\ \A v \in Views : OneTrack(page[v])
\* The page v takes a step of its own.
Turns(v) == \E s \in PageSet : OneTrack(s) /\ page' = [page EXCEPT ![v] = s]

LEMMA PageNow ==
    ASSUME PageInv, NEW v \in Views
    PROVE  /\ page[v] \in PageSet /\ OneTrack(page[v]) /\ peering.closes \in BOOLEAN
           /\ page[v].tangled \in BOOLEAN /\ page[v].ghost \in BOOLEAN
           /\ inbox[v] \in Seq(Signals)
BY PageIs DEF PageInv, PagesTyped, PeeringSet

LEMMA StartedTurns == ASSUME PageInv, NEW v \in Views, HearsStarted(v) PROVE Turns(v)
<1> DEFINE r == page[v]
           s == [r EXCEPT !.rejected = FALSE]
<1>1. r \in PageSet /\ OneTrack(r) /\ peering.closes \in BOOLEAN BY PageNow
<1>2. ~r.ghost /\ page' = [page EXCEPT ![v] = Connect(s)] BY DEF HearsStarted, Heard, Becomes
<1> HIDE DEF r
<1>3. s \in PageSet BY <1>1 DEF PageSet
<1>4. /\ s.ws = r.ws /\ s.fetch = r.fetch /\ s.pc = r.pc /\ s.held = r.held /\ s.ghost = r.ghost /\ s.stray = r.stray
      /\ s.calibrating = r.calibrating /\ s.tangled = r.tangled /\ s.loose = r.loose
  BY <1>1 DEF PageSet
<1> HIDE DEF s
<1>5. OneTrack(s) BY <1>1, <1>4 DEF OneTrack, AtRest
<1>6. Connect(s) \in PageSet /\ OneTrack(Connect(s)) BY <1>1, <1>2, <1>3, <1>4, <1>5, ConnectTrack
<1> QED BY <1>2, <1>6 DEF Turns

LEMMA RetryTurns == ASSUME PageInv, NEW v \in Views, Retry(v) PROVE Turns(v)
<1> DEFINE r == page[v]
           s == [r EXCEPT !.retries = @ - 1]
<1>1. r \in PageSet /\ OneTrack(r) /\ peering.closes \in BOOLEAN BY PageNow
<1>2. ~r.ghost /\ page' = [page EXCEPT ![v] = Connect(s)] /\ r.retries > 0 BY DEF Retry, Does, Only, Becomes
<1> HIDE DEF r
<1>3. r.retries - 1 \in Nat
  <2>1. r.retries \in Nat BY <1>1, PageIs
  <2> QED BY <1>2, <2>1
<1>4. s \in PageSet BY <1>1, <1>3 DEF PageSet
<1>5. /\ s.ws = r.ws /\ s.fetch = r.fetch /\ s.pc = r.pc /\ s.held = r.held /\ s.ghost = r.ghost /\ s.stray = r.stray
      /\ s.calibrating = r.calibrating /\ s.tangled = r.tangled /\ s.loose = r.loose
  BY <1>1 DEF PageSet
<1> HIDE DEF s
<1>6. OneTrack(s) BY <1>1, <1>5 DEF OneTrack, AtRest
<1>7. Connect(s) \in PageSet /\ OneTrack(Connect(s)) BY <1>1, <1>2, <1>4, <1>5, <1>6, ConnectTrack
<1> QED BY <1>2, <1>7 DEF Turns

LEMMA AnswerTurns == ASSUME PageInv, NEW v \in Views, HearsAnswer(v) PROVE Turns(v)
<1> DEFINE r == page[v]
           n == Head(inbox[v]).n
           s == [r EXCEPT !.remote = n]
           t == IF r.pc = "none" THEN r
                ELSE IF r.pc = "offered" /\ r.remote = Nobody THEN s ELSE OnP2pFailed(r)
<1>1. r \in PageSet /\ OneTrack(r) /\ peering.closes \in BOOLEAN /\ inbox[v] \in Seq(Signals) BY PageNow
<1>2. page' = [page EXCEPT ![v] = t] /\ inbox[v] # <<>> BY DEF HearsAnswer, Told, Heard, Becomes
<1>3. n \in Sides
  <2>1. Head(inbox[v]) \in Signals BY <1>1, <1>2, HeadTailProperties
  <2> QED BY <2>1 DEF Signals
<1> HIDE DEF r, n
<1>4. s \in PageSet BY <1>1, <1>3 DEF PageSet
<1>5. /\ s.ws = r.ws /\ s.fetch = r.fetch /\ s.pc = r.pc /\ s.held = r.held /\ s.ghost = r.ghost /\ s.stray = r.stray
      /\ s.calibrating = r.calibrating /\ s.tangled = r.tangled /\ s.loose = r.loose
  BY <1>1 DEF PageSet
<1> HIDE DEF s
<1>6. OneTrack(s) BY <1>1, <1>5 DEF OneTrack, AtRest
<1>7. ASSUME r.pc # "none" PROVE OnP2pFailed(r) \in PageSet /\ OneTrack(OnP2pFailed(r))
  <2>1. Neat(r) /\ Offering(r) BY <1>1, <1>7 DEF OneTrack, Neat, Offering
  <2> QED BY <1>1, <2>1, OnP2pFailedTrack
<1>8. t \in PageSet /\ OneTrack(t) BY <1>1, <1>4, <1>6, <1>7
<1> HIDE DEF t
<1> QED BY <1>2, <1>8 DEF Turns

LEMMA FailedTurns == ASSUME PageInv, NEW v \in Views, HearsFailed(v) PROVE Turns(v)
<1> DEFINE r == page[v]
           t == IF r.connected /\ r.transport = "p2p" THEN OnP2pLost(r)
                ELSE IF r.transport # "p2p" /\ r.pc # "none" /\ ~r.connected THEN OnP2pFailed(r) ELSE r
<1>1. r \in PageSet /\ OneTrack(r) /\ peering.closes \in BOOLEAN BY PageNow
<1>2. page' = [page EXCEPT ![v] = t] BY DEF HearsFailed, Heard, Becomes
<1> HIDE DEF r
<1>3. Neat(r) BY <1>1 DEF OneTrack, Neat
<1>4. ASSUME r.pc # "none" PROVE OnP2pFailed(r) \in PageSet /\ OneTrack(OnP2pFailed(r))
  <2>1. Offering(r) BY <1>1, <1>4 DEF OneTrack, Offering
  <2> QED BY <1>1, <1>3, <2>1, OnP2pFailedTrack
<1>5. ASSUME r.connected /\ r.transport = "p2p" PROVE OnP2pLost(r) \in PageSet /\ OneTrack(OnP2pLost(r))
  BY <1>1, <1>3, <1>5, OnP2pLostTrack
<1>6. t \in PageSet /\ OneTrack(t) BY <1>1, <1>4, <1>5
<1> HIDE DEF t
<1> QED BY <1>2, <1>6 DEF Turns

LEMMA CalibratedTurns == ASSUME PageInv, NEW v \in Views, Calibrated(v) PROVE Turns(v)
<1> DEFINE r == page[v]
           s == [r EXCEPT !.calibrating = @ - 1]
<1>1. r \in PageSet /\ OneTrack(r) /\ r.tangled \in BOOLEAN BY PageNow
<1>2. ~r.ghost /\ page' = [page EXCEPT ![v] = StartLan(s)] /\ r.calibrating > 0
  BY DEF Calibrated, Does, Only, Becomes
<1> HIDE DEF r
<1> DEFINE n == r.calibrating - 1
<1>3. n \in Nat /\ (r.calibrating = 1 => n = 0) /\ r.calibrating # 0
  <2>1. r.calibrating \in Nat BY <1>1, PageIs
  <2> QED BY <1>2, <2>1
<1>4. s = [r EXCEPT !.calibrating = n] OBVIOUS
<1> HIDE DEF n, s
<1>5. s \in PageSet BY <1>1, <1>3, <1>4 DEF PageSet
<1>6. /\ s.ws = r.ws /\ s.fetch = r.fetch /\ s.pc = r.pc /\ s.held = r.held /\ s.ghost = r.ghost /\ s.stray = r.stray
      /\ s.calibrating = n /\ s.tangled = r.tangled /\ s.loose = r.loose
  BY <1>1, <1>4 DEF PageSet
<1>7. Neat(s) /\ (~s.tangled => AtRest(s) /\ ~s.ghost /\ s.ws = "none")
  <2> SUFFICES ASSUME ~r.tangled PROVE Neat(s) /\ AtRest(s) /\ ~s.ghost /\ s.ws = "none" BY <1>6 DEF Neat
  <2>1. r.calibrating = 1 /\ n = 0 BY <1>1, <1>3 DEF OneTrack
  <2>2. r.ws = "none" /\ r.fetch = "none" /\ r.pc = "none" BY <1>1, <1>3 DEF OneTrack, AtRest
  <2>3. r.held = {}
    <3>1. r.held \subseteq {"wait"} /\ "wait" \notin r.held BY <1>1, <1>3, <2>2 DEF OneTrack
    <3> QED BY <3>1
  <2>4. r.stray = "none" /\ r.loose \subseteq {"session"} BY <1>1 DEF OneTrack
  <2> QED BY <1>2, <1>6, <2>1, <2>2, <2>3, <2>4 DEF Neat, AtRest
<1>8. StartLan(s) \in PageSet /\ OneTrack(StartLan(s)) BY <1>5, <1>7, StartLanTrack
<1> QED BY <1>2, <1>8 DEF Turns

\* A body of a fetch: the newest, or one that was overwritten
LEMMA BodyPage ==
    ASSUME NEW r \in PageSet, NEW f \in Bodies, NEW x \in Tries
    PROVE  LET s == [r EXCEPT ![f] = x] IN
           /\ s \in PageSet
           /\ s.fetch = (IF f = "fetch" THEN x ELSE r.fetch) /\ s.stray = (IF f = "stray" THEN x ELSE r.stray)
           /\ s.held = r.held /\ s.ghost = r.ghost /\ s.pc = r.pc /\ s.loose = r.loose /\ s.ws = r.ws
           /\ s.calibrating = r.calibrating /\ s.tangled = r.tangled
<1>1. CASE f = "fetch" BY <1>1 DEF PageSet
<1>2. CASE f = "stray" BY <1>2 DEF PageSet
<1> QED BY <1>1, <1>2 DEF Bodies

LEMMA FeedingPage ==
    ASSUME NEW r \in PageSet, NEW f \in Bodies, NEW how \in {"lan", "relay"}, r[f] # "none", OneTrack(r)
    PROVE  Feeding(r, f, how) \in PageSet /\ OneTrack(Feeding(r, f, how))
<1> DEFINE b == [r EXCEPT ![f] = "feeding"]
           s == [b EXCEPT !.connected = TRUE, !.transport = how, !.failed = FALSE]
<1>1. /\ b \in PageSet
      /\ b.fetch = (IF f = "fetch" THEN "feeding" ELSE r.fetch) /\ b.stray = (IF f = "stray" THEN "feeding" ELSE r.stray)
      /\ b.held = r.held /\ b.ghost = r.ghost /\ b.pc = r.pc /\ b.loose = r.loose /\ b.ws = r.ws
      /\ b.calibrating = r.calibrating /\ b.tangled = r.tangled
  BY BodyPage DEF Tries
<1>2. Feeding(r, f, how) = s BY DEF Feeding
<1> HIDE DEF b
<1>3. s \in PageSet BY <1>1 DEF PageSet
<1>4. /\ s.ws = b.ws /\ s.fetch = b.fetch /\ s.pc = b.pc /\ s.held = b.held /\ s.ghost = b.ghost /\ s.stray = b.stray
      /\ s.calibrating = b.calibrating /\ s.tangled = b.tangled /\ s.loose = b.loose
  BY <1>1 DEF PageSet
<1> HIDE DEF s
<1>5. CASE f = "fetch" BY <1>1, <1>2, <1>3, <1>4, <1>5 DEF OneTrack, AtRest
<1>6. CASE f = "stray"
  <2>1. r.tangled BY <1>6 DEF OneTrack
  <2> QED BY <1>1, <1>2, <1>3, <1>4, <2>1 DEF OneTrack
<1> QED BY <1>5, <1>6 DEF Bodies

\* Without the fetch nothing is under way.
LEMMA FetchGone ==
    ASSUME NEW r \in PageSet, NEW f \in Bodies, r[f] # "none", OneTrack(r), ~r.ghost
    PROVE  LET s == [r EXCEPT ![f] = "none"] IN
           /\ s \in PageSet /\ OneTrack(s) /\ Neat(s)
           /\ ~s.tangled => AtRest(s) /\ ~s.ghost /\ s.ws = "none"
<1> DEFINE s == [r EXCEPT ![f] = "none"]
<1>1. /\ s \in PageSet
      /\ s.fetch = (IF f = "fetch" THEN "none" ELSE r.fetch) /\ s.stray = (IF f = "stray" THEN "none" ELSE r.stray)
      /\ s.held = r.held /\ s.ghost = r.ghost /\ s.pc = r.pc /\ s.loose = r.loose /\ s.ws = r.ws
      /\ s.calibrating = r.calibrating /\ s.tangled = r.tangled
  BY BodyPage DEF Tries
<1> HIDE DEF s
<1>2. CASE r.tangled
  <2>1. s \in PageSet /\ s.tangled BY <1>1, <1>2
  <2>2. OneTrack(s) /\ Neat(s) BY <2>1 DEF OneTrack, Neat
  <2> QED BY <2>1, <2>2 DEF s
<1>3. CASE ~r.tangled
  <2>1. f = "fetch" BY <1>3 DEF OneTrack, Bodies
  <2>2. r.pc = "none" /\ r.held = {} /\ r.calibrating = 0 /\ r.ws = "none" /\ r.stray = "none" /\ r.loose \subseteq {"session"}
    BY <1>3, <2>1 DEF OneTrack, AtRest
  <2>3. Neat(s) /\ AtRest(s) /\ ~s.ghost /\ s.ws = "none" BY <1>1, <2>1, <2>2 DEF Neat, AtRest
  <2>4. OneTrack(s) BY <1>1, <2>3, RestsTrack
  <2> QED BY <1>1, <2>3, <2>4 DEF s
<1> QED BY <1>1, <1>2, <1>3 DEF s

LEMMA ProbeTurns == ASSUME PageInv, NEW v \in Views, NEW f \in Bodies, ProbeAnswers(v, f) PROVE Turns(v)
<1> DEFINE r == page[v]
           s == [r EXCEPT ![f] = "none"]
           t == IF v \in peering.lan THEN Feeding(r, f, "lan") ELSE StartP2p(s)
<1>1. r \in PageSet /\ OneTrack(r) BY PageNow
<1>2. page' = [page EXCEPT ![v] = t] /\ ~r.ghost /\ r[f] # "none" BY DEF ProbeAnswers, Does, Only, Becomes
<1> HIDE DEF r
<1>3. Feeding(r, f, "lan") \in PageSet /\ OneTrack(Feeding(r, f, "lan")) BY <1>1, <1>2, FeedingPage
<1>4. s \in PageSet /\ Neat(s) /\ (~s.tangled => AtRest(s) /\ ~s.ghost /\ s.ws = "none") BY <1>1, <1>2, FetchGone
<1> HIDE DEF s
<1>5. StartP2p(s) \in PageSet /\ OneTrack(StartP2p(s)) BY <1>4, StartP2pTrack
<1>6. t \in PageSet /\ OneTrack(t) BY <1>3, <1>5
<1> HIDE DEF t
<1> QED BY <1>2, <1>6 DEF Turns

LEMMA FetchTurns == ASSUME PageInv, NEW v \in Views, NEW f \in Bodies, FetchAnswers(v, f) PROVE Turns(v)
<1> DEFINE r == page[v]
           t == Feeding(r, f, "relay")
<1>1. r \in PageSet /\ OneTrack(r) BY PageNow
<1>2. page' = [page EXCEPT ![v] = t] /\ r[f] # "none" BY DEF FetchAnswers, Does, Only, Becomes
<1> HIDE DEF r
<1>3. t \in PageSet /\ OneTrack(t) BY <1>1, <1>2, FeedingPage
<1> HIDE DEF t
<1> QED BY <1>2, <1>3 DEF Turns

\* A field that OneTrack does not speak of
LEMMA FailedPage ==
    ASSUME NEW r \in PageSet, OneTrack(r)
    PROVE  LET s == [r EXCEPT !.failed = TRUE] IN
           /\ s \in PageSet /\ OneTrack(s)
           /\ s.held = r.held /\ s.ghost = r.ghost /\ s.pc = r.pc /\ s.loose = r.loose /\ s.ws = r.ws
           /\ s.stray = r.stray /\ s.calibrating = r.calibrating /\ s.tangled = r.tangled /\ s.fetch = r.fetch
<1> DEFINE s == [r EXCEPT !.failed = TRUE]
<1>1. s \in PageSet BY DEF PageSet
<1>2. /\ s.held = r.held /\ s.ghost = r.ghost /\ s.pc = r.pc /\ s.loose = r.loose /\ s.ws = r.ws
      /\ s.stray = r.stray /\ s.calibrating = r.calibrating /\ s.tangled = r.tangled /\ s.fetch = r.fetch
  BY DEF PageSet
<1> HIDE DEF s
<1>3. OneTrack(s) BY <1>2 DEF OneTrack, AtRest
<1> QED BY <1>1, <1>2, <1>3 DEF s

LEMMA RetriesPage ==
    ASSUME NEW r \in PageSet, OneTrack(r)
    PROVE  LET s == [r EXCEPT !.retries = @ + 1] IN s \in PageSet /\ OneTrack(s)
<1> DEFINE s == [r EXCEPT !.retries = @ + 1]
<1>1. s \in PageSet
  <2>1. r.retries + 1 \in Nat BY PageIs
  <2> QED BY <2>1 DEF PageSet
<1>2. /\ s.held = r.held /\ s.ghost = r.ghost /\ s.pc = r.pc /\ s.loose = r.loose /\ s.ws = r.ws
      /\ s.stray = r.stray /\ s.calibrating = r.calibrating /\ s.tangled = r.tangled /\ s.fetch = r.fetch
  BY DEF PageSet
<1> HIDE DEF s
<1>3. OneTrack(s) BY <1>2 DEF OneTrack, AtRest
<1> QED BY <1>1, <1>3 DEF s

LEMMA BreakTurns == ASSUME PageInv, NEW v \in Views, NEW f \in Bodies, StreamFails(v, f) PROVE Turns(v)
<1> DEFINE r == page[v]
           s == [r EXCEPT ![f] = "none"]
           g == [s EXCEPT !.failed = TRUE]
           u == [s EXCEPT !.retries = @ + 1]
           t == IF s.connected THEN Reconnects(s) ELSE g
<1>1. r \in PageSet /\ OneTrack(r) /\ peering.closes \in BOOLEAN BY PageNow
<1>2. ~r.ghost /\ r[f] # "none"
  BY DEF StreamFails, StreamOver, NoStreamYet, Refused, BodyFails, Only
<1>3. /\ \A how : [r EXCEPT ![f] = "none", !.failed = how] = [s EXCEPT !.failed = how]
      /\ [r EXCEPT ![f] = "none", !.retries = @ + 1] = u
  <2>1. CASE f = "fetch" BY <1>1, <2>1 DEF PageSet
  <2>2. CASE f = "stray" BY <1>1, <2>2 DEF PageSet
  <2> QED BY <2>1, <2>2 DEF Bodies
<1>4. \/ page' = [page EXCEPT ![v] = t] \/ page' = [page EXCEPT ![v] = u]
      \/ page' = [page EXCEPT ![v] = Disconnect(g)] \/ page' = [page EXCEPT ![v] = g]
  <2>1. CASE StreamOver(v, f) BY <2>1 DEF StreamOver, Only, Becomes
  <2>2. CASE NoStreamYet(v, f)
    <3>1. page' = [page EXCEPT ![v] = [r EXCEPT ![f] = "none", !.retries = @ + 1]] BY <2>2 DEF NoStreamYet, Only, Becomes
    <3> QED BY <1>3, <3>1
  <2>3. Gone(r, f) = g BY <1>3 DEF Gone
  <2>4. CASE Refused(v, f)
    <3>1. page' = [page EXCEPT ![v] = Disconnect(Gone(r, f))] BY <2>4 DEF Refused, Only, Becomes
    <3> QED BY <2>3, <3>1
  <2>5. CASE BodyFails(v, f)
    <3>1. page' = [page EXCEPT ![v] = Gone(r, f)] BY <2>5 DEF BodyFails, Only, Becomes
    <3> QED BY <2>3, <3>1
  <2> QED BY <2>1, <2>2, <2>4, <2>5 DEF StreamFails
<1> HIDE DEF r
<1>5. s \in PageSet /\ OneTrack(s) /\ Neat(s) /\ (~s.tangled => AtRest(s) /\ ~s.ghost) BY <1>1, <1>2, FetchGone
<1> HIDE DEF s
<1>6. Reconnects(s) \in PageSet /\ OneTrack(Reconnects(s)) BY <1>1, <1>5, ReconnectsTrack DEF AtRest
<1>7. u \in PageSet /\ OneTrack(u) BY <1>5, RetriesPage
<1>8. /\ g \in PageSet /\ OneTrack(g) /\ g.held = s.held /\ g.ghost = s.ghost /\ g.pc = s.pc /\ g.loose = s.loose
      /\ g.stray = s.stray /\ g.calibrating = s.calibrating /\ g.tangled = s.tangled
  BY <1>5, FailedPage
<1> HIDE DEF u, g
<1>9. Disconnect(g) \in PageSet /\ OneTrack(Disconnect(g))
  <2> DEFINE d == Disconnect(g)
  <2>1. /\ d \in PageSet /\ d.ws = "none" /\ d.fetch = "none" /\ d.pc = "none" /\ d.held = {}
        /\ d.stray = g.stray /\ d.calibrating = g.calibrating /\ d.tangled = g.tangled
        /\ d.loose \subseteq g.loose \cup {"session"}
    BY <1>1, <1>8, DisconnectPage
  <2> HIDE DEF d
  <2>2. Neat(d) /\ (~d.tangled => AtRest(d)) BY <1>5, <1>8, <2>1 DEF Neat, AtRest
  <2> QED BY <2>1, <2>2, RestsTrack DEF d
<1>10. t \in PageSet /\ OneTrack(t) BY <1>6, <1>8
<1> HIDE DEF t
<1> QED BY <1>4, <1>7, <1>8, <1>9, <1>10 DEF Turns

LEMMA WindowTurns == ASSUME PageInv, NEW v \in Views, WindowOver(v) PROVE Turns(v)
<1> DEFINE r == page[v]
           k == Fired(r, "wait")
           a == [k EXCEPT !.pc = "new", !.offer = Nobody, !.remote = Nobody]
           s == Sets(a, "offer")
           t == IF k.rejected \/ k.connected THEN StartWs(k) ELSE s
<1>1. r \in PageSet /\ OneTrack(r) /\ r.tangled \in BOOLEAN BY PageNow
<1>2. page' = [page EXCEPT ![v] = t] /\ ~r.ghost /\ "wait" \in r.held \cup r.loose
  BY DEF WindowOver, GoesOff, Does, Only, Becomes
<1> HIDE DEF r
<1>3. /\ k \in PageSet /\ k.held = r.held \ {"wait"} /\ k.tangled = (r.tangled \/ "wait" \in r.loose)
      /\ k.loose \subseteq r.loose
      /\ k.ghost = r.ghost /\ k.stray = r.stray /\ k.calibrating = r.calibrating
      /\ k.fetch = r.fetch /\ k.pc = r.pc /\ k.ws = r.ws
  BY <1>1, FiredPage DEF Timers
<1> HIDE DEF k
<1>4. ~k.tangled => Neat(k) /\ AtRest(k) /\ k.ws = "none"
  <2> SUFFICES ASSUME ~k.tangled PROVE Neat(k) /\ AtRest(k) /\ k.ws = "none" OBVIOUS
  <2>1. ~r.tangled /\ "wait" \in r.held BY <1>1, <1>2, <1>3
  <2>2. r.ws = "none" /\ r.fetch = "none" /\ r.calibrating = 0 BY <1>1, <2>1 DEF OneTrack, AtRest
  <2>3. r.pc = "none" BY <1>1, <2>1 DEF OneTrack
  <2>4. r.held \subseteq {"wait"} /\ r.stray = "none" /\ r.loose \subseteq {"session"} BY <1>1, <2>1, <2>3 DEF OneTrack
  <2>5. k.held = {} BY <1>3, <2>4
  <2> QED BY <1>3, <2>2, <2>3, <2>4, <2>5 DEF Neat, AtRest
<1>5. Neat(k) BY <1>4 DEF Neat
<1>6. StartWs(k) \in PageSet /\ OneTrack(StartWs(k)) BY <1>3, <1>4, <1>5, StartWsTrack
<1>7. a \in PageSet BY <1>3 DEF PageSet, Sides
<1>8. /\ a.ws = k.ws /\ a.fetch = k.fetch /\ a.pc = "new" /\ a.held = k.held /\ a.ghost = k.ghost /\ a.stray = k.stray
      /\ a.calibrating = k.calibrating /\ a.tangled = k.tangled /\ a.loose = k.loose
  BY <1>3 DEF PageSet
<1> HIDE DEF a
<1>9. /\ s \in PageSet /\ s.held = a.held \cup {"offer"} /\ s.loose = a.loose \cup (a.held \cap {"offer"})
      /\ s.ghost = a.ghost /\ s.stray = a.stray /\ s.calibrating = a.calibrating /\ s.tangled = a.tangled
      /\ s.fetch = a.fetch /\ s.pc = a.pc /\ s.ws = a.ws
  BY <1>7, SetsPage DEF Timers
<1> HIDE DEF s
<1>10. OneTrack(s)
  <2> SUFFICES ASSUME ~k.tangled PROVE OneTrack(s) BY <1>8, <1>9 DEF OneTrack
  <2>1. Neat(k) /\ AtRest(k) /\ k.ws = "none" BY <1>4
  <2>2. s.held = {"offer"} /\ s.loose \subseteq {"session"} BY <1>8, <1>9, <2>1 DEF Neat, AtRest
  <2>3. s.stray = "none" /\ s.fetch = "none" /\ s.calibrating = 0 /\ s.ws = "none" /\ s.pc = "new" /\ ~s.ghost
    BY <1>2, <1>3, <1>8, <1>9, <2>1 DEF Neat, AtRest
  <2> QED BY <2>2, <2>3 DEF OneTrack
<1>11. t \in PageSet /\ OneTrack(t) BY <1>6, <1>9, <1>10
<1> HIDE DEF t
<1> QED BY <1>2, <1>11 DEF Turns

LEMMA OfferTurns == ASSUME PageInv, NEW v \in Views, SendsOffer(v) PROVE Turns(v)
<1> DEFINE r == page[v]
<1>1. r \in PageSet /\ OneTrack(r) BY PageNow
<1>2. PICK n \in Offers : page' = [page EXCEPT ![v] = [r EXCEPT !.pc = "offered", !.offer = n]]
  BY DEF SendsOffer, Becomes
<1>3. r.pc = "new" BY DEF SendsOffer
<1> HIDE DEF r
<1> DEFINE s == [r EXCEPT !.pc = "offered", !.offer = n]
<1>4. s \in PageSet BY <1>1 DEF PageSet, Sides
<1>5. /\ s.ws = r.ws /\ s.fetch = r.fetch /\ s.pc = "offered" /\ s.held = r.held /\ s.ghost = r.ghost /\ s.stray = r.stray
      /\ s.calibrating = r.calibrating /\ s.tangled = r.tangled /\ s.loose = r.loose
  BY <1>1 DEF PageSet
<1>6. page' = [page EXCEPT ![v] = s] BY <1>2
<1> HIDE DEF s
<1>7. OneTrack(s) BY <1>1, <1>3, <1>5 DEF OneTrack, AtRest
<1> QED BY <1>4, <1>6, <1>7 DEF Turns

\* What changes no field that OneTrack speaks of keeps it.
LEMMA SameTrack ==
    ASSUME NEW r, NEW s, OneTrack(r), s.ws = r.ws, s.fetch = r.fetch, s.pc = r.pc, s.held = r.held, s.ghost = r.ghost,
           s.stray = r.stray, s.calibrating = r.calibrating, s.tangled = r.tangled, s.loose = r.loose
    PROVE  OneTrack(s)
BY DEF OneTrack, AtRest

LEMMA TimeoutTurns == ASSUME PageInv, NEW v \in Views, OfferTimesOut(v) PROVE Turns(v)
<1> DEFINE r == page[v]
           k == Fired(r, "offer")
           t == IF r.transport = "p2p" THEN k ELSE OnP2pFailed(k)
<1>1. r \in PageSet /\ OneTrack(r) /\ peering.closes \in BOOLEAN /\ r.tangled \in BOOLEAN BY PageNow
<1>2. page' = [page EXCEPT ![v] = t] /\ ~r.ghost /\ "offer" \in r.held \cup r.loose
  BY DEF OfferTimesOut, GoesOff, Does, Only, Becomes
<1> HIDE DEF r
<1>3. /\ k \in PageSet /\ k.held = r.held \ {"offer"} /\ k.tangled = (r.tangled \/ "offer" \in r.loose)
      /\ k.loose \subseteq r.loose
      /\ k.ghost = r.ghost /\ k.stray = r.stray /\ k.calibrating = r.calibrating
      /\ k.fetch = r.fetch /\ k.pc = r.pc /\ k.ws = r.ws
  BY <1>1, FiredPage DEF Timers
<1> HIDE DEF k
<1>4. ASSUME ~k.tangled
      PROVE  /\ r.pc # "none" /\ r.ws = "none" /\ r.fetch = "none" /\ r.calibrating = 0 /\ k.held = {}
             /\ r.stray = "none" /\ r.loose \subseteq {"session"}
  <2>1. ~r.tangled /\ "offer" \in r.held BY <1>1, <1>2, <1>3, <1>4
  <2>2. r.pc # "none" BY <1>1, <2>1 DEF OneTrack
  <2>3. r.held \subseteq {"offer"} /\ r.calibrating = 0 /\ r.fetch = "none" /\ r.ws = "none"
    BY <1>1, <2>1, <2>2 DEF OneTrack, AtRest
  <2>4. r.stray = "none" /\ r.loose \subseteq {"session"} BY <1>1, <2>1 DEF OneTrack
  <2>5. k.held = {} BY <1>3, <2>3
  <2> QED BY <2>2, <2>3, <2>4, <2>5
<1>5. Neat(k) /\ Offering(k) BY <1>3, <1>4 DEF Neat, Offering
<1>6. OneTrack(k) BY <1>2, <1>3, <1>4 DEF OneTrack
<1>7. OnP2pFailed(k) \in PageSet /\ OneTrack(OnP2pFailed(k)) BY <1>1, <1>3, <1>5, OnP2pFailedTrack
<1>8. t \in PageSet /\ OneTrack(t) BY <1>3, <1>6, <1>7
<1> HIDE DEF t
<1> QED BY <1>2, <1>8 DEF Turns

LEMMA OfferFailsTurns == ASSUME PageInv, NEW v \in Views, OfferFails(v) PROVE Turns(v)
<1> DEFINE r == page[v]
<1>1. r \in PageSet /\ OneTrack(r) /\ peering.closes \in BOOLEAN BY PageNow
<1>2. page' = [page EXCEPT ![v] = OnP2pFailed(r)] /\ r.pc = "new" BY DEF OfferFails, Only, Becomes
<1> HIDE DEF r
<1>3. Neat(r) /\ Offering(r) BY <1>1, <1>2 DEF OneTrack, Neat, Offering
<1>4. OnP2pFailed(r) \in PageSet /\ OneTrack(OnP2pFailed(r)) BY <1>1, <1>3, OnP2pFailedTrack
<1> QED BY <1>2, <1>4 DEF Turns

LEMMA PcTurns == ASSUME PageInv, NEW v \in Views, PcConnected(v) \/ PcFails(v) PROVE Turns(v)
<1> DEFINE r == page[v]
<1>1. r \in PageSet /\ OneTrack(r) /\ peering.closes \in BOOLEAN BY PageNow
<1>2. CASE PcConnected(v)
  <2> DEFINE a == [r EXCEPT !.transport = "p2p", !.connected = TRUE, !.failed = FALSE]
             s == Clears(a, "offer")
  <2>1. page' = [page EXCEPT ![v] = s] /\ r.pc = "offered"
    BY <1>2 DEF PcConnected, Fits, Does, Only, Becomes
  <2> HIDE DEF r
  <2>2. a \in PageSet BY <1>1 DEF PageSet
  <2>3. /\ a.ws = r.ws /\ a.fetch = r.fetch /\ a.pc = r.pc /\ a.held = r.held /\ a.ghost = r.ghost /\ a.stray = r.stray
        /\ a.calibrating = r.calibrating /\ a.tangled = r.tangled /\ a.loose = r.loose
    BY <1>1 DEF PageSet
  <2> HIDE DEF a
  <2>4. /\ s \in PageSet /\ s.held = a.held \ {"offer"} /\ s.loose = a.loose
        /\ s.ghost = a.ghost /\ s.stray = a.stray /\ s.calibrating = a.calibrating /\ s.tangled = a.tangled
        /\ s.fetch = a.fetch /\ s.pc = a.pc /\ s.ws = a.ws
    BY <2>2, ClearsPage DEF Timers
  <2> HIDE DEF s
  <2>5. OneTrack(s)
    <3> SUFFICES ASSUME ~r.tangled PROVE OneTrack(s) BY <2>3, <2>4 DEF OneTrack
    <3>1. r.held \subseteq {"offer"} /\ r.ws = "none" /\ ~r.ghost /\ r.fetch = "none" /\ r.calibrating = 0
      <4>1. r.ghost \in BOOLEAN BY <1>1, PageIs
      <4> QED BY <1>1, <2>1, <4>1 DEF OneTrack, AtRest
    <3>2. r.stray = "none" /\ r.loose \subseteq {"session"} BY <1>1 DEF OneTrack
    <3>3. s.held = {} BY <2>3, <2>4, <3>1
    <3> QED BY <2>1, <2>3, <2>4, <3>1, <3>2, <3>3 DEF OneTrack
  <2> QED BY <2>1, <2>4, <2>5 DEF Turns
<1>3. CASE PcFails(v)
  <2>1. page' = [page EXCEPT ![v] = OnP2pLost(r)] /\ r.pc = "offered" BY <1>3 DEF PcFails, Does, Only, Becomes
  <2> HIDE DEF r
  <2>2. Neat(r) /\ Offering(r) BY <1>1, <2>1 DEF OneTrack, Neat, Offering
  <2>3. OnP2pLost(r) \in PageSet /\ OneTrack(OnP2pLost(r)) BY <1>1, <2>2, OnP2pLostTrack
  <2> QED BY <2>1, <2>3 DEF Turns
<1> QED BY <1>2, <1>3

LEMMA GhostTurns == ASSUME PageInv, NEW v \in Views, ChannelCloses(v) PROVE Turns(v)
<1> DEFINE r == page[v]
           s == [r EXCEPT !.ghost = FALSE]
<1>1. r \in PageSet /\ OneTrack(r) /\ peering.closes \in BOOLEAN BY PageNow
<1>2. page' = [page EXCEPT ![v] = OnP2pLost(s)] /\ r.ghost BY DEF ChannelCloses, Becomes
<1> HIDE DEF r
<1>3. s \in PageSet BY <1>1 DEF PageSet
<1>4. /\ s.ws = r.ws /\ s.fetch = r.fetch /\ s.pc = r.pc /\ s.held = r.held /\ s.ghost = FALSE /\ s.stray = r.stray
      /\ s.calibrating = r.calibrating /\ s.tangled = r.tangled /\ s.loose = r.loose
  BY <1>1 DEF PageSet
<1> HIDE DEF s
<1>5. Neat(s) /\ Offering(s) BY <1>1, <1>2, <1>4 DEF OneTrack, AtRest, Neat, Offering
<1>6. OneTrack(s)
  <2>1. ~s.tangled => AtRest(s) BY <1>1, <1>2, <1>4 DEF OneTrack, AtRest
  <2> QED BY <1>3, <1>5, <2>1, RestsTrack
<1>7. OnP2pLost(s) \in PageSet /\ OneTrack(OnP2pLost(s)) BY <1>1, <1>3, <1>5, <1>6, OnP2pLostTrack
<1> QED BY <1>2, <1>7 DEF Turns

LEMMA OpensTurns == ASSUME PageInv, NEW v \in Views, WsOpens(v) PROVE Turns(v)
<1> DEFINE r == page[v]
           s == [r EXCEPT !.ws = "open", !.connected = TRUE, !.failed = FALSE]
<1>1. r \in PageSet /\ OneTrack(r) BY PageNow
<1>2. page' = [page EXCEPT ![v] = s] /\ r.ws = "opening" BY DEF WsOpens, Does, Only, Becomes
<1> HIDE DEF r
<1>3. s \in PageSet BY <1>1 DEF PageSet
<1>4. /\ s.ws = "open" /\ s.fetch = r.fetch /\ s.pc = r.pc /\ s.held = r.held /\ s.ghost = r.ghost /\ s.stray = r.stray
      /\ s.calibrating = r.calibrating /\ s.tangled = r.tangled /\ s.loose = r.loose
  BY <1>1 DEF PageSet
<1> HIDE DEF s
<1>5. OneTrack(s) BY <1>1, <1>2, <1>4 DEF OneTrack, AtRest
<1> QED BY <1>2, <1>3, <1>5 DEF Turns

LEMMA WsFailsTurns == ASSUME PageInv, NEW v \in Views, WsErrors(v) \/ WsTimesOut(v) PROVE Turns(v)
<1> DEFINE r == page[v]
<1>1. r \in PageSet /\ OneTrack(r) /\ r.ghost \in BOOLEAN BY PageNow
<1>2. r.ws = "opening" /\ ~r.ghost BY DEF WsErrors, WsTimesOut, Only
<1>3. Neat(r) /\ (~r.tangled => AtRest(r)) BY <1>1, <1>2 DEF OneTrack, Neat
<1>4. CASE WsErrors(v)
  <2> DEFINE s == DropsWs(r)
  <2>1. page' = [page EXCEPT ![v] = OnWsFailed(s)] BY <1>4 DEF WsErrors, Only, Becomes
  <2> HIDE DEF r
  <2>2. /\ s \in PageSet /\ s.loose \subseteq r.loose \cup {"session"}
        /\ s.held = r.held /\ s.ghost = r.ghost /\ s.pc = r.pc
        /\ s.stray = r.stray /\ s.calibrating = r.calibrating /\ s.tangled = r.tangled /\ s.fetch = r.fetch
    BY <1>1, DropsWsPage
  <2> HIDE DEF s
  <2>3. Neat(s) /\ (~s.tangled => AtRest(s) /\ ~s.ghost) BY <1>2, <1>3, <2>2 DEF Neat, AtRest
  <2>4. OnWsFailed(s) \in PageSet /\ OneTrack(OnWsFailed(s)) BY <2>2, <2>3, OnWsFailedTrack
  <2> QED BY <2>1, <2>4 DEF Turns
<1>5. CASE WsTimesOut(v)
  <2>1. page' = [page EXCEPT ![v] = OnWsFailed(r)] BY <1>5 DEF WsTimesOut, Only, Becomes
  <2> HIDE DEF r
  <2>2. OnWsFailed(r) \in PageSet /\ OneTrack(OnWsFailed(r)) BY <1>1, <1>2, <1>3, OnWsFailedTrack
  <2> QED BY <2>1, <2>2 DEF Turns
<1> QED BY <1>4, <1>5

LEMMA WsClosesTurns == ASSUME PageInv, NEW v \in Views, WsCloses(v) PROVE Turns(v)
<1> DEFINE r == page[v]
           s == [r EXCEPT !.ws = "none"]
           t == IF s.connected THEN Reconnects(s) ELSE s
<1>1. r \in PageSet /\ OneTrack(r) /\ peering.closes \in BOOLEAN BY PageNow
<1>2. page' = [page EXCEPT ![v] = t] /\ r.ws = "open" BY DEF WsCloses, Only, Becomes
<1> HIDE DEF r
<1>3. s \in PageSet BY <1>1 DEF PageSet
<1>4. /\ s.ws = "none" /\ s.fetch = r.fetch /\ s.pc = r.pc /\ s.held = r.held /\ s.ghost = r.ghost /\ s.stray = r.stray
      /\ s.calibrating = r.calibrating /\ s.tangled = r.tangled /\ s.loose = r.loose
  BY <1>1 DEF PageSet
<1> HIDE DEF s
<1>5. Neat(s) /\ (~s.tangled => AtRest(s)) BY <1>1, <1>2, <1>4 DEF OneTrack, AtRest, Neat
<1>6. OneTrack(s) BY <1>3, <1>5, RestsTrack
<1>7. Reconnects(s) \in PageSet /\ OneTrack(Reconnects(s)) BY <1>1, <1>3, <1>5, ReconnectsTrack DEF AtRest
<1>8. t \in PageSet /\ OneTrack(t) BY <1>3, <1>6, <1>7
<1> HIDE DEF t
<1> QED BY <1>2, <1>8 DEF Turns

LEMMA LateTurns == ASSUME PageInv, NEW v \in Views, LateSessionTimeout(v) PROVE Turns(v)
<1> DEFINE r == page[v]
           k == Fired(r, "session")
<1>1. r \in PageSet /\ r.tangled \in BOOLEAN BY PageNow
<1>2. page' = [page EXCEPT ![v] = OnWsFailed(k)] /\ "session" \in r.loose BY DEF LateSessionTimeout, Does, Only, Becomes
<1> HIDE DEF r
<1>3. k \in PageSet /\ k.tangled = (r.tangled \/ "session" \in r.loose) BY <1>1, FiredPage
<1> HIDE DEF k
<1>4. k.tangled BY <1>2, <1>3
<1>5. OnWsFailed(k) \in PageSet /\ OneTrack(OnWsFailed(k)) BY <1>3, <1>4, OnWsFailedTrack DEF Neat
<1> QED BY <1>2, <1>5 DEF Turns

LEMMA CooldownTurns == ASSUME PageInv, NEW v \in Views, CooldownOver(v) PROVE Turns(v)
<1> DEFINE r == page[v]
           s == [r EXCEPT !.rejected = FALSE]
<1>1. r \in PageSet /\ OneTrack(r) BY PageNow
<1>2. page' = [page EXCEPT ![v] = s] BY DEF CooldownOver, Only, Becomes
<1> HIDE DEF r
<1>3. s \in PageSet BY <1>1 DEF PageSet
<1>4. /\ s.ws = r.ws /\ s.fetch = r.fetch /\ s.pc = r.pc /\ s.held = r.held /\ s.ghost = r.ghost /\ s.stray = r.stray
      /\ s.calibrating = r.calibrating /\ s.tangled = r.tangled /\ s.loose = r.loose
  BY <1>1 DEF PageSet
<1> HIDE DEF s
<1>5. OneTrack(s) BY <1>1, <1>4, SameTrack
<1> QED BY <1>2, <1>3, <1>5 DEF Turns

LEMMA SkipTurns == ASSUME PageInv, NEW v \in Views, SkipP2P(v) PROVE Turns(v)
<1> DEFINE r == page[v]
           j == Rejected(r)
           c == Clears(j, "wait")
           d == Clears(c, "offer")
           k == ClosesPc(d)
           w == StartWs(k)
           b == w.tangled \/ r.calibrating > 0 \/ r.fetch # "none"
           s == [w EXCEPT !.tangled = b]
<1>1. r \in PageSet /\ OneTrack(r) /\ peering.closes \in BOOLEAN /\ r.tangled \in BOOLEAN BY PageNow
<1>2. page' = [page EXCEPT ![v] = [w EXCEPT !.tangled = @ \/ r.calibrating > 0 \/ r.fetch # "none"]]
  BY DEF SkipP2P, Only, Becomes
<1> HIDE DEF r
<1>3. /\ j \in PageSet /\ j.held = r.held /\ j.loose = r.loose /\ j.stray = r.stray /\ j.calibrating = r.calibrating
      /\ j.tangled = r.tangled /\ j.fetch = r.fetch
  BY <1>1, RejectedPage
<1> HIDE DEF j
<1>4. /\ c \in PageSet /\ c.held = r.held \ {"wait"} /\ c.loose = r.loose /\ c.stray = r.stray
      /\ c.calibrating = r.calibrating /\ c.tangled = r.tangled /\ c.fetch = r.fetch
  BY <1>3, ClearsPage DEF Timers
<1> HIDE DEF c
<1>5. /\ d \in PageSet /\ d.held = {} /\ d.loose = r.loose /\ d.stray = r.stray
      /\ d.calibrating = r.calibrating /\ d.tangled = r.tangled /\ d.fetch = r.fetch
  <2>1. /\ d \in PageSet /\ d.held = c.held \ {"offer"} /\ d.loose = c.loose /\ d.stray = c.stray
        /\ d.calibrating = c.calibrating /\ d.tangled = c.tangled /\ d.fetch = c.fetch
    BY <1>4, ClearsPage DEF Timers
  <2>2. r.held \subseteq Timers BY <1>1, PageIs
  <2> QED BY <1>4, <2>1, <2>2 DEF Timers
<1> HIDE DEF d
<1>6. /\ k \in PageSet /\ k.pc = "none" /\ k.held = {} /\ k.loose = r.loose /\ k.stray = r.stray
      /\ k.calibrating = r.calibrating /\ k.tangled = r.tangled /\ k.fetch = r.fetch
  BY <1>1, <1>5, ClosesPcPage
<1> HIDE DEF k
<1>7. /\ w \in PageSet /\ w.pc = "none" /\ w.held = {} /\ w.loose = r.loose /\ w.stray = r.stray
      /\ w.calibrating = r.calibrating /\ w.tangled = r.tangled /\ w.fetch = r.fetch
  BY <1>6, StartWsPage
<1> HIDE DEF w
<1>8. b \in BOOLEAN /\ (~b => ~r.tangled /\ ~(r.calibrating > 0) /\ r.fetch = "none") BY <1>1, <1>7
<1>9. [w EXCEPT !.tangled = @ \/ r.calibrating > 0 \/ r.fetch # "none"] = s BY <1>7 DEF PageSet
<1> HIDE DEF b
<1>10. s \in PageSet BY <1>7, <1>8 DEF PageSet
<1>11. /\ s.fetch = w.fetch /\ s.pc = w.pc /\ s.held = w.held /\ s.stray = w.stray
       /\ s.calibrating = w.calibrating /\ s.tangled = b /\ s.loose = w.loose
  BY <1>7 DEF PageSet
<1> HIDE DEF s
<1>12. OneTrack(s)
  <2>1. ASSUME ~b PROVE AtRest(s) /\ s.stray = "none" /\ s.loose \subseteq {"session"}
    <3>1. r.calibrating = 0 /\ r.stray = "none" /\ r.loose \subseteq {"session"}
      <4>1. r.calibrating \in Nat BY <1>1, PageIs
      <4>2. r.calibrating = 0 BY <1>8, <2>1, <4>1
      <4> QED BY <1>1, <1>8, <2>1, <4>2 DEF OneTrack
    <3> QED BY <1>7, <1>8, <1>11, <2>1, <3>1 DEF AtRest
  <2> QED BY <1>10, <1>11, <2>1, RestsTrack DEF Neat
<1> QED BY <1>2, <1>9, <1>10, <1>12 DEF Turns

LEMMA ViewTurns ==
    ASSUME PageInv, NEW v \in Views,
           \/ ViewRuns(v) \/ (\E f \in Bodies : StreamFails(v, f)) \/ OfferFails(v) \/ WsErrors(v)
           \/ WsTimesOut(v) \/ WsCloses(v) \/ SkipP2P(v) \/ CooldownOver(v)
    PROVE  Turns(v)
<1>1. CASE HearsStarted(v) \/ HearsAnswer(v) \/ HearsFailed(v) BY <1>1, StartedTurns, AnswerTurns, FailedTurns
<1>2. CASE Calibrated(v) \/ Retry(v) BY <1>2, CalibratedTurns, RetryTurns
<1>3. CASE \E f \in Bodies : ProbeAnswers(v, f) \/ FetchAnswers(v, f) BY <1>3, ProbeTurns, FetchTurns
<1>4. CASE WindowOver(v) \/ SendsOffer(v) \/ OfferTimesOut(v) BY <1>4, WindowTurns, OfferTurns, TimeoutTurns
<1>5. CASE PcConnected(v) \/ PcFails(v) \/ ChannelCloses(v) BY <1>5, PcTurns, GhostTurns
<1>6. CASE WsOpens(v) \/ LateSessionTimeout(v) BY <1>6, OpensTurns, LateTurns
<1>7. CASE \E f \in Bodies : StreamFails(v, f) BY <1>7, BreakTurns
<1>8. CASE OfferFails(v) \/ WsErrors(v) \/ WsTimesOut(v) BY <1>8, OfferFailsTurns, WsFailsTurns
<1>9. CASE WsCloses(v) \/ SkipP2P(v) \/ CooldownOver(v) BY <1>9, WsClosesTurns, SkipTurns, CooldownTurns
<1> QED BY <1>1, <1>2, <1>3, <1>4, <1>5, <1>6, <1>7, <1>8, <1>9 DEF ViewRuns

\* The relay's broadcasts, in the order they were made
LEMMA SentTyped ==
    ASSUME inbox \in [Views -> Seq(Signals)], NEW m \in Signals PROVE Sent(inbox, m) \in [Views -> Seq(Signals)]
<1>1. ASSUME NEW v \in Views PROVE (IF v \in peering.watch THEN Append(inbox[v], m) ELSE <<>>) \in Seq(Signals)
  <2>1. inbox[v] \in Seq(Signals) OBVIOUS
  <2>2. Append(inbox[v], m) \in Seq(Signals) BY <2>1, AppendProperties
  <2> QED BY <2>2
<1> QED BY <1>1 DEF Sent

LEMMA HeardTyped ==
    ASSUME inbox \in [Views -> Seq(Signals)], NEW v \in Views, inbox[v] # <<>>
    PROVE  [inbox EXCEPT ![v] = Tail(@)] \in [Views -> Seq(Signals)]
<1>1. Tail(inbox[v]) \in Seq(Signals)
  <2>1. inbox[v] \in Seq(Signals) OBVIOUS
  <2> QED BY <2>1, HeadTailProperties
<1> QED BY <1>1

LEMMA InboxStays == ASSUME PagesTyped, [PeerNext]_peerVars PROVE inbox' \in [Views -> Seq(Signals)]
<1>1. inbox \in [Views -> Seq(Signals)] /\ SessionTyped BY DEF PagesTyped
<1>2. ASSUME NEW m \in Signals, Broadcast(m) PROVE inbox' \in [Views -> Seq(Signals)]
  BY <1>1, <1>2, SentTyped DEF Broadcast
<1>3. Signal("started", Nobody) \in Signals /\ Signal("failed", Nobody) \in Signals BY DEF Signal, Signals, Sides
<1>4. ASSUME NEW v \in Views, HearsStarted(v) \/ HearsAnswer(v) \/ HearsFailed(v)
      PROVE  inbox' \in [Views -> Seq(Signals)]
  <2>1. inbox[v] # <<>> /\ inbox' = [inbox EXCEPT ![v] = Tail(@)]
    BY <1>4 DEF HearsStarted, HearsAnswer, HearsFailed, Heard, Told
  <2> QED BY <1>1, <2>1, HeardTyped
<1>5. ASSUME NEW v \in Views,
             \/ Calibrated(v) \/ Retry(v) \/ (\E f \in Bodies : ProbeAnswers(v, f) \/ FetchAnswers(v, f))
             \/ WindowOver(v) \/ SendsOffer(v) \/ OfferTimesOut(v) \/ PcConnected(v) \/ PcFails(v)
             \/ ChannelCloses(v) \/ WsOpens(v) \/ LateSessionTimeout(v)
             \/ (\E f \in Bodies : StreamFails(v, f)) \/ OfferFails(v) \/ WsErrors(v)
             \/ WsTimesOut(v) \/ WsCloses(v) \/ SkipP2P(v) \/ CooldownOver(v)
      PROVE  inbox' = inbox
  BY <1>5 DEF Calibrated, Retry, ProbeAnswers, FetchAnswers, WindowOver, SendsOffer, OfferTimesOut, PcConnected, PcFails,
              ChannelCloses, WsOpens, LateSessionTimeout, StreamFails, StreamOver, NoStreamYet, Refused, BodyFails,
              OfferFails, WsErrors, WsTimesOut, WsCloses,
              SkipP2P, CooldownOver, Does, Only
<1>6. CASE \E n \in Offers : DriverFails(n) \/ Watchdog(n)
  <2>1. Broadcast(Signal("failed", Nobody)) BY <1>6 DEF DriverFails, Watchdog
  <2> QED BY <1>2, <1>3, <2>1
<1>7. CASE \E n \in Offers : Meet(n) \/ DriverFinds(n) \/ DriverInstalls(n) \/ DriverLeaves(n) \/ DriverCloses(n) \/ Cut(n)
  <2>1. inbox' = inbox BY <1>7 DEF Meet, DriverFinds, DriverInstalls, DriverLeaves, DriverCloses, Cut
  <2> QED BY <1>1, <2>1
<1>8. CASE HandleOffer
  <2>1. offers # <<>> /\ Broadcast(Signal("answer", Head(offers))) BY <1>8 DEF HandleOffer
  <2>2. Head(offers) \in Offers BY <1>1, <2>1, HeadTailProperties DEF SessionTyped
  <2>3. Signal("answer", Head(offers)) \in Signals BY <2>2 DEF Signal, Signals, Sides
  <2> QED BY <1>2, <2>1, <2>3
<1>9. CASE RefuseOffer \/ Restart \/ SessionRestart
  <2>1. Broadcast(Signal("started", Nobody)) \/ Broadcast(Signal("failed", Nobody))
    BY <1>9 DEF RefuseOffer, Restart, SessionRestart
  <2> QED BY <1>2, <1>3, <2>1
<1>10. CASE UNCHANGED peerVars BY <1>1, <1>10 DEF peerVars
<1>11. ASSUME NEW v \in Views,
              \/ ViewRuns(v) \/ (\E f \in Bodies : StreamFails(v, f)) \/ OfferFails(v) \/ WsErrors(v)
              \/ WsTimesOut(v) \/ WsCloses(v) \/ SkipP2P(v) \/ CooldownOver(v)
       PROVE  inbox' \in [Views -> Seq(Signals)]
  BY <1>1, <1>4, <1>5, <1>11 DEF ViewRuns
<1>12. CASE \E n \in Offers : DriverRuns(n) BY <1>6, <1>7, <1>12 DEF DriverRuns
<1> QED BY <1>7, <1>8, <1>9, <1>10, <1>11, <1>12 DEF PeerNext, PeerProgress, Misfortune, StreamFails

LEMMA PeeringStays == ASSUME peering \in PeeringSet, [PeerNext]_peerVars PROVE peering' \in PeeringSet
<1>1. ASSUME NEW kind, Befalls(kind) PROVE peering' \in PeeringSet
  <2> DEFINE n == peering.left - 1
  <2>1. peering' = [peering EXCEPT !.left = n] BY <1>1 DEF Befalls
  <2>2. n \in Nat
    <3>1. peering.left \in Nat /\ peering.left > 0 BY <1>1 DEF Befalls, PeeringSet
    <3> QED BY <3>1
  <2> HIDE DEF n
  <2> QED BY <2>1, <2>2 DEF PeeringSet
<1>2. ASSUME NEW v \in Views, ViewRuns(v) PROVE peering' = peering
  BY <1>2 DEF ViewRuns, HearsStarted, HearsAnswer, HearsFailed, Heard, Calibrated, Retry, ProbeAnswers, FetchAnswers,
              WindowOver, SendsOffer, OfferTimesOut, PcConnected, PcFails, ChannelCloses, WsOpens, LateSessionTimeout, Does
<1>3. ASSUME NEW v \in Views,
             \/ (\E f \in Bodies : StreamFails(v, f)) \/ OfferFails(v) \/ WsErrors(v)
             \/ WsTimesOut(v) \/ WsCloses(v) \/ SkipP2P(v) \/ CooldownOver(v)
      PROVE  \E kind : Befalls(kind)
  BY <1>3 DEF StreamFails, StreamOver, NoStreamYet, Refused, BodyFails, OfferFails, WsErrors, WsTimesOut, WsCloses, SkipP2P, CooldownOver
<1>4. CASE \E n \in Offers : DriverRuns(n)
  BY <1>4 DEF DriverRuns, Meet, DriverFinds, DriverInstalls, DriverFails, Watchdog, DriverLeaves, DriverCloses
<1>5. CASE HandleOffer BY <1>5 DEF HandleOffer
<1>6. CASE (\E n \in Offers : Cut(n)) \/ RefuseOffer \/ Restart \/ SessionRestart
  <2>1. \E kind : Befalls(kind) BY <1>6 DEF Cut, RefuseOffer, Restart, SessionRestart
  <2> QED BY <1>1, <2>1
<1>7. CASE UNCHANGED peerVars BY <1>7 DEF peerVars
<1>8. CASE \E v \in Views : ViewRuns(v) BY <1>2, <1>8
<1>9. CASE \E v \in Views : \/ \E f \in Bodies : StreamFails(v, f)
                            \/ OfferFails(v) \/ WsErrors(v) \/ WsTimesOut(v) \/ WsCloses(v)
                            \/ SkipP2P(v) \/ CooldownOver(v)
  BY <1>1, <1>3, <1>9
<1> QED BY <1>4, <1>5, <1>6, <1>7, <1>8, <1>9 DEF PeerNext, PeerProgress, Misfortune, StreamFails

LEMMA PageStart == PeerInit => QueueInv /\ PageInv
<1> SUFFICES ASSUME PeerInit PROVE QueueInv /\ PageInv OBVIOUS
<1>1. QueueInv BY QueueStart
<1>2. peering \in PeeringSet BY PeersAssumption DEF PeerInit, PeeringSet
<1>3. Blank \in PageSet /\ OneTrack(Blank)
  <2>1. Blank \in PageSet BY DEF Blank, PageSet, Tries, Sides
  <2>2. AtRest(Blank) /\ Neat(Blank) BY DEF Blank, AtRest, Neat
  <2> QED BY <2>1, <2>2, RestsTrack
<1>4. page = [v \in Views |-> Blank] BY DEF PeerInit
<1>5. page \in [Views -> PageSet] /\ \A v \in Views : OneTrack(page[v]) BY <1>3, <1>4
<1>6. inbox \in [Views -> Seq(Signals)]
  <2> DEFINE m == Signal("started", Nobody)
  <2>1. m \in Signals BY DEF Signal, Signals, Sides
  <2>2. inbox = Sent([v \in Views |-> <<>>], m) BY DEF PeerInit
  <2> HIDE DEF m
  <2>3. ASSUME NEW v \in Views
        PROVE  (IF v \in peering.watch THEN Append([w \in Views |-> <<>>][v], m) ELSE <<>>) \in Seq(Signals)
    <3>1. [w \in Views |-> <<>>][v] = <<>> OBVIOUS
    <3>2. <<>> \in Seq(Signals) /\ Append(<<>>, m) \in Seq(Signals) BY <2>1
    <3> QED BY <3>1, <3>2
  <2> QED BY <2>2, <2>3 DEF Sent
<1> QED BY <1>1, <1>2, <1>5, <1>6 DEF PageInv, PagesTyped, QueueInv

LEMMA PageStep == QueueInv /\ PageInv /\ [PeerNext]_peerVars => QueueInv' /\ PageInv'
<1> SUFFICES ASSUME QueueInv, PageInv, [PeerNext]_peerVars PROVE QueueInv' /\ PageInv' OBVIOUS
<1>1. QueueInv' /\ SessionTyped' BY QueueStep DEF QueueInv
<1>2. PagesTyped /\ peering' \in PeeringSet /\ inbox' \in [Views -> Seq(Signals)]
  BY PeeringStays, InboxStays DEF PageInv, PagesTyped
<1>3. ASSUME NEW v \in Views, Turns(v)
      PROVE  page' \in [Views -> PageSet] /\ \A u \in Views : OneTrack(page'[u])
  <2>1. PICK s \in PageSet : OneTrack(s) /\ page' = [page EXCEPT ![v] = s] BY <1>3 DEF Turns
  <2>2. page \in [Views -> PageSet] /\ \A u \in Views : OneTrack(page[u]) BY DEF PageInv, PagesTyped
  <2>3. page' \in [Views -> PageSet] BY <2>1, <2>2
  <2>4. \A u \in Views : page'[u] = IF u = v THEN s ELSE page[u] BY <2>1, <2>2
  <2> QED BY <2>1, <2>2, <2>3, <2>4
<1>4. ASSUME page' = page PROVE page' \in [Views -> PageSet] /\ \A u \in Views : OneTrack(page'[u])
  BY <1>4 DEF PageInv, PagesTyped
<1>5. CASE \E v \in Views : \/ ViewRuns(v) \/ (\E f \in Bodies : StreamFails(v, f)) \/ OfferFails(v) \/ WsErrors(v)
                            \/ WsTimesOut(v) \/ WsCloses(v) \/ SkipP2P(v) \/ CooldownOver(v)
  <2>1. \E v \in Views : Turns(v) BY <1>5, ViewTurns
  <2> QED BY <1>1, <1>2, <1>3, <2>1 DEF PageInv, PagesTyped
<1>6. CASE \/ \E n \in Offers : DriverRuns(n) \/ Cut(n)
           \/ HandleOffer \/ RefuseOffer \/ Restart \/ SessionRestart \/ UNCHANGED peerVars
  <2>1. page' = page
    BY <1>6 DEF DriverRuns, Meet, DriverFinds, DriverInstalls, DriverFails, Watchdog, DriverLeaves, DriverCloses, Cut,
                HandleOffer, RefuseOffer, Restart, SessionRestart, peerVars
  <2> QED BY <1>1, <1>2, <1>4, <2>1 DEF PageInv, PagesTyped
<1> QED BY <1>5, <1>6 DEF PeerNext, PeerProgress, Misfortune, StreamFails

LEMMA PageFeeds == PageInv => OneFeed
<1> SUFFICES ASSUME PageInv, NEW v \in Views, ~page[v].tangled PROVE Cardinality(Feeds(v)) <= 1 BY DEF OneFeed
<1> DEFINE r == page[v]
<1>1. OneTrack(r) BY DEF PageInv
<1>2. /\ r.stray = "none" /\ (r.ws = "open" => r.fetch = "none" /\ r.pc = "none")
      /\ (r.fetch = "feeding" => r.pc = "none")
  BY <1>1 DEF OneTrack, AtRest
<1>3. PeerFeeds(v) => r.pc = "offered" BY DEF PeerFeeds, Fits
<1>4. Feeds(v) = (IF r.ws = "open" THEN {"ws"} ELSE {}) \cup {f \in Bodies : r[f] = "feeding"}
                 \cup (IF PeerFeeds(v) THEN {"peer"} ELSE {})
  BY DEF Feeds
<1> HIDE DEF r
<1>5. {f \in Bodies : r[f] = "feeding"} = IF r.fetch = "feeding" THEN {"fetch"} ELSE {} BY <1>2 DEF Bodies
<1>6. Feeds(v) = {} \/ \E x : Feeds(v) = {x}
  <2>1. CASE r.ws = "open"
    <3>1. Feeds(v) = {"ws"} BY <1>2, <1>3, <1>4, <1>5, <2>1
    <3> QED BY <3>1
  <2>2. CASE r.ws # "open" /\ r.fetch = "feeding"
    <3>1. Feeds(v) = {"fetch"} BY <1>2, <1>3, <1>4, <1>5, <2>2
    <3> QED BY <3>1
  <2>3. CASE r.ws # "open" /\ r.fetch # "feeding"
    <3>1. Feeds(v) = IF PeerFeeds(v) THEN {"peer"} ELSE {} BY <1>4, <1>5, <2>3
    <3> QED BY <3>1
  <2> QED BY <2>1, <2>2, <2>3
<1>7. Cardinality({}) = 0 /\ \A x : Cardinality({x}) = 1 BY FS_EmptySet, FS_Singleton
<1>8. Cardinality(Feeds(v)) = 0 \/ Cardinality(Feeds(v)) = 1 BY <1>6, <1>7
<1> QED BY <1>8

\* For any number of views, whatever fails and whenever a timer goes off: a
\* page that is not tangled decodes one stream at a time, so the ways to the
\* picture that it tries one after the other do not overlap (web/desktop.js).
THEOREM FedOnce == PeerSpec => []OneFeed
<1>1. PeerInit => QueueInv /\ PageInv BY PageStart
<1>2. QueueInv /\ PageInv /\ [PeerNext]_peerVars => QueueInv' /\ PageInv' BY PageStep
<1>3. PageInv => OneFeed BY PageFeeds
<1> QED BY <1>1, <1>2, <1>3, PTL DEF PeerSpec
=============================================================================
