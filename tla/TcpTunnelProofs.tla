------------------------------- MODULE TcpTunnelProofs -------------------------------
EXTENDS TcpTunnel, SequenceTheorems, NaturalsInduction, WellFoundedInduction, TLAPS

(***************************************************************************)
(* Induction.  The library's induction theorems take an operator; these    *)
(* take the set of the numbers, or of the sequences, for which something   *)
(* holds.                                                                  *)
(***************************************************************************)
LEMMA FromOneToTheNext ==
    ASSUME NEW P \in SUBSET Nat, 0 \in P, \A n \in P : n + 1 \in P
    PROVE  P = Nat
<1> SUFFICES ASSUME Nat \ P # {} PROVE FALSE OBVIOUS
<1>1. IsWellFoundedOn(OpToRel(<, Nat), Nat) BY NatLessThanWellFounded
<1>2. PICK n \in Nat \ P : \A m \in Nat \ P : ~(<<m, n>> \in OpToRel(<, Nat)) BY <1>1, WFMin
<1>3. \A m \in Nat \ P : ~(m < n) BY <1>2 DEF OpToRel
<1>4. n # 0 /\ n - 1 \in Nat OBVIOUS
<1>5. n - 1 \in P BY <1>3, <1>4
<1>6. (n - 1) + 1 \in P BY <1>5
<1>7. (n - 1) + 1 = n BY <1>4
<1> QED BY <1>6, <1>7

LEMMA AppendByAppend ==
    ASSUME NEW S, NEW P \in SUBSET Seq(S), <<>> \in P,
           \A q \in P, m \in S : Append(q, m) \in P
    PROVE  P = Seq(S)
<1> DEFINE L == {n \in Nat : \A q \in Seq(S) : Len(q) = n => q \in P}
<1>1. 0 \in L
  <2>1. \A q \in Seq(S) : Len(q) = 0 => q = <<>> BY EmptySeq
  <2> QED BY <2>1
<1>2. ASSUME NEW n \in L PROVE n + 1 \in L
  <2> SUFFICES ASSUME NEW q \in Seq(S), Len(q) = n + 1 PROVE q \in P OBVIOUS
  <2>1. q # <<>> BY EmptySeq
  <2>2. PICK s \in Seq(S), e \in S : q = Append(s, e)
    <3>1. q = <<>> \/ \E s \in Seq(S), e \in S : q = Append(s, e) BY SequenceEmptyOrAppend
    <3> QED BY <2>1, <3>1
  <2>3. Len(s) = n
    <3>1. Len(Append(s, e)) = Len(s) + 1 /\ Len(s) \in Nat BY AppendProperties, LenProperties
    <3> QED BY <2>2, <3>1
  <2>4. s \in P BY <2>3
  <2> QED BY <2>2, <2>4
<1> HIDE DEF L
<1>3. L = Nat
  <2>1. L \in SUBSET Nat BY DEF L
  <2> QED BY <1>1, <1>2, <2>1, FromOneToTheNext
<1>4. \A q \in Seq(S) : Len(q) \in Nat BY LenProperties
<1> QED BY <1>3, <1>4 DEF L

(* A recursive function along the numbers exists, and is determined.           *)
Follows(g, n, F) == \A i \in 1 .. n : g[i] = F[i][g[i - 1]]

LEMMA AlongExists ==
    ASSUME NEW S, NEW a \in S, NEW F, NEW n \in Nat, \A i \in Nat, x \in S : F[i][x] \in S
    PROVE  \E g : g \in [0 .. n -> S] /\ g[0] = a /\ Follows(g, n, F)
<1> DEFINE L == {k \in Nat : \E g : g \in [0 .. k -> S] /\ g[0] = a /\ Follows(g, k, F)}
<1>1. 0 \in L
  <2> DEFINE g == [i \in 0 .. 0 |-> a]
  <2>1. g \in [0 .. 0 -> S] /\ g[0] = a OBVIOUS
  <2>2. Follows(g, 0, F) BY DEF Follows
  <2> HIDE DEF g
  <2> QED BY <2>1, <2>2
<1>2. ASSUME NEW k \in L PROVE k + 1 \in L
  <2>1. PICK g : g \in [0 .. k -> S] /\ g[0] = a /\ Follows(g, k, F) OBVIOUS
  <2> DEFINE x == F[k + 1][g[k]]
             h == [i \in 0 .. (k + 1) |-> IF i = k + 1 THEN x ELSE g[i]]
  <2>2. k \in Nat /\ k + 1 \in Nat /\ g[k] \in S BY <2>1
  <2>3. x \in S BY <2>2
  <2>4. h \in [0 .. (k + 1) -> S] BY <2>1, <2>2, <2>3
  <2>5. h[0] = a BY <2>1, <2>2
  <2>6. ASSUME NEW i \in 1 .. (k + 1) PROVE h[i] = F[i][h[i - 1]]
    <3>1. i - 1 \in 0 .. k /\ h[i - 1] = g[i - 1] BY <2>2
    <3>2. CASE i = k + 1 BY <2>2, <3>1, <3>2
    <3>3. CASE i # k + 1
      <4>1. i \in 1 .. k BY <2>2, <3>3
      <4>2. g[i] = F[i][g[i - 1]] BY <2>1, <4>1 DEF Follows
      <4> QED BY <2>2, <3>1, <3>3, <4>2
    <3> QED BY <3>2, <3>3
  <2>7. Follows(h, k + 1, F) BY <2>6 DEF Follows
  <2> HIDE DEF h
  <2> QED BY <2>2, <2>4, <2>5, <2>7
<1> HIDE DEF L
<1>3. L = Nat
  <2>1. L \in SUBSET Nat BY DEF L
  <2> QED BY <1>1, <1>2, <2>1, FromOneToTheNext
<1>4. n \in L BY <1>3
<1> QED BY <1>4 DEF L

LEMMA AlongUnique ==
    ASSUME NEW n \in Nat, NEW g, NEW h,
           g[0] = h[0], \A i \in 1 .. n : g[i - 1] = h[i - 1] => g[i] = h[i]
    PROVE  \A i \in 0 .. n : g[i] = h[i]
<1> DEFINE L == {k \in Nat : k <= n => g[k] = h[k]}
<1>1. 0 \in L OBVIOUS
<1>2. ASSUME NEW k \in L PROVE k + 1 \in L
  <2> SUFFICES ASSUME k + 1 <= n PROVE g[k + 1] = h[k + 1] OBVIOUS
  <2>1. k \in Nat /\ k + 1 \in 1 .. n /\ (k + 1) - 1 = k /\ k <= n OBVIOUS
  <2> QED BY <2>1
<1> HIDE DEF L
<1>3. L = Nat
  <2>1. L \in SUBSET Nat BY DEF L
  <2> QED BY <1>1, <1>2, <2>1, FromOneToTheNext
<1> QED BY <1>3 DEF L

(***************************************************************************)
(* Sums and counts over queues.                                            *)
(***************************************************************************)
LEMMA SumAlong ==
    ASSUME NEW f \in Seq(Nat)
    PROVE  \E g :
               /\ g \in [0 .. Len(f) -> Nat] /\ g[0] = 0
               /\ \A i \in 1 .. Len(f) : g[i] = g[i - 1] + f[i]
               /\ Sum(f) = g[Len(f)]
<1> DEFINE n == Len(f)
           F == [i \in Nat |-> [x \in Nat |-> x + (IF i \in 1 .. n THEN f[i] ELSE 0)]]
           Is(h) == h = [i \in 0 .. Len(f) |-> IF i = 0 THEN 0 ELSE h[i - 1] + f[i]]
<1>1. n \in Nat /\ \A i \in 1 .. n : f[i] \in Nat OBVIOUS
<1>2. \A i \in Nat, x \in Nat : F[i][x] \in Nat BY <1>1
<1>3. \A i \in 1 .. n, x \in Nat : F[i][x] = x + f[i] BY <1>1
<1> HIDE DEF F, n
<1>4. PICK g : g \in [0 .. n -> Nat] /\ g[0] = 0 /\ Follows(g, n, F)
  <2>1. 0 \in Nat /\ n \in Nat BY <1>1
  <2> QED BY <1>2, <2>1, AlongExists
<1>5. \A i \in 1 .. n : g[i] = g[i - 1] + f[i]
  <2> SUFFICES ASSUME NEW i \in 1 .. n PROVE g[i] = g[i - 1] + f[i] OBVIOUS
  <2>1. i - 1 \in 0 .. n BY <1>1
  <2>2. g[i - 1] \in Nat BY <1>4, <2>1
  <2> QED BY <1>3, <1>4, <2>2 DEF Follows
<1>6. Is(g)
  <2>1. g = [i \in 0 .. n |-> g[i]] BY <1>4
  <2>2. \A i \in 0 .. n : g[i] = IF i = 0 THEN 0 ELSE g[i - 1] + f[i] BY <1>1, <1>4, <1>5
  <2>3. [i \in 0 .. n |-> g[i]] = [i \in 0 .. n |-> IF i = 0 THEN 0 ELSE g[i - 1] + f[i]] BY <2>2
  <2> QED BY <2>1, <2>3 DEF n
<1> DEFINE h == CHOOSE k : Is(k)
<1>7. Is(h)
  <2> HIDE DEF Is
  <2> QED BY <1>6
<1>8. Sum(f) = h[n] BY DEF Sum, n
<1>9. h[0] = 0 /\ \A i \in 1 .. n : h[i] = h[i - 1] + f[i]
  <2>1. h = [i \in 0 .. n |-> IF i = 0 THEN 0 ELSE h[i - 1] + f[i]] BY <1>7 DEF n
  <2> HIDE DEF h
  <2> QED BY <1>1, <2>1
<1> HIDE DEF h
<1>10. \A i \in 0 .. n : g[i] = h[i]
  <2>1. \A i \in 1 .. n : g[i - 1] = h[i - 1] => g[i] = h[i] BY <1>5, <1>9
  <2>2. g[0] = h[0] BY <1>4, <1>9
  <2> QED BY <1>1, <2>1, <2>2, AlongUnique, ZenonT(60)
<1> QED BY <1>1, <1>4, <1>5, <1>8, <1>10 DEF n

LEMMA SumTyped == ASSUME NEW f \in Seq(Nat) PROVE Sum(f) \in Nat
<1>1. Len(f) \in Nat OBVIOUS
<1> QED BY <1>1, SumAlong

LEMMA SumEmpty == Sum(<<>>) = 0
<1>1. <<>> \in Seq(Nat) /\ Len(<<>>) = 0 OBVIOUS
<1> QED BY <1>1, SumAlong

LEMMA SumAppend ==
    ASSUME NEW f \in Seq(Nat), NEW x \in Nat PROVE Sum(Append(f, x)) = Sum(f) + x
<1> DEFINE e == Append(f, x)
           n == Len(f)
<1>1. e \in Seq(Nat) /\ Len(e) = n + 1 /\ e[n + 1] = x /\ \A i \in 1 .. n : e[i] = f[i]
  BY AppendProperties
<1>2. n \in Nat OBVIOUS
<1> HIDE DEF e
<1>3. PICK g :
         g \in [0 .. n -> Nat] /\ g[0] = 0 /\ (\A i \in 1 .. n : g[i] = g[i - 1] + f[i]) /\ Sum(f) = g[n]
  BY SumAlong
<1>4. PICK h :
         h \in [0 .. (n + 1) -> Nat] /\ h[0] = 0 /\ (\A i \in 1 .. (n + 1) : h[i] = h[i - 1] + e[i]) /\ Sum(e) = h[n + 1]
  <2>1. \E h :
         h \in [0 .. Len(e) -> Nat] /\ h[0] = 0 /\ (\A i \in 1 .. Len(e) : h[i] = h[i - 1] + e[i]) /\ Sum(e) = h[Len(e)]
    BY <1>1, SumAlong
  <2> QED BY <1>1, <2>1
<1> HIDE DEF n
<1>5. \A i \in 0 .. n : g[i] = h[i]
  <2>1. \A i \in 1 .. n : g[i - 1] = h[i - 1] => g[i] = h[i] BY <1>1, <1>2, <1>3, <1>4
  <2>2. g[0] = h[0] BY <1>3, <1>4
  <2> QED BY <1>2, <2>1, <2>2, AlongUnique
<1>6. h[n + 1] = h[n] + x
  <2>1. n + 1 \in 1 .. (n + 1) /\ (n + 1) - 1 = n BY <1>2
  <2> QED BY <1>1, <1>4, <2>1
<1>7. n \in 0 .. n BY <1>2
<1> QED BY <1>3, <1>4, <1>5, <1>6, <1>7 DEF e

(***************************************************************************)
(* Filters over queues.                                                    *)
(***************************************************************************)
\* The messages of a queue that are in a set
Kept(queue, K) == Taken(queue, {i \in 1 .. Len(queue) : queue[i] \in K})

\* g goes through a queue, taking what is at certain places.
Takes(g, n, q, P) == \A i \in 1 .. n : g[i] = IF i \in P THEN Append(g[i - 1], q[i]) ELSE g[i - 1]

LEMMA TakenAlong ==
    ASSUME NEW S, NEW q \in Seq(S), NEW P
    PROVE  \E g :
               /\ g \in [0 .. Len(q) -> Seq(S)] /\ g[0] = <<>> /\ Takes(g, Len(q), q, P)
               /\ Taken(q, P) = g[Len(q)]
<1> DEFINE n == Len(q)
           F == [i \in Nat |-> [x \in Seq(S) |-> IF i \in P /\ i \in 1 .. n THEN Append(x, q[i]) ELSE x]]
           Is(h) == h = [i \in 0 .. Len(q) |->
                            IF i = 0 THEN <<>>
                            ELSE IF i \in P THEN Append(h[i - 1], q[i]) ELSE h[i - 1]]
<1>1. n \in Nat /\ \A i \in 1 .. n : q[i] \in S OBVIOUS
<1>2. \A i \in Nat, x \in Seq(S) : F[i][x] \in Seq(S) BY <1>1
<1>3. \A i \in 1 .. n, x \in Seq(S) : F[i][x] = IF i \in P THEN Append(x, q[i]) ELSE x BY <1>1
<1> HIDE DEF F, n
<1>4. PICK g : g \in [0 .. n -> Seq(S)] /\ g[0] = <<>> /\ Follows(g, n, F)
  <2>1. <<>> \in Seq(S) /\ n \in Nat BY <1>1
  <2> QED BY <1>2, <2>1, AlongExists
<1>5. \A i \in 1 .. n : g[i] = IF i \in P THEN Append(g[i - 1], q[i]) ELSE g[i - 1]
  <2> SUFFICES ASSUME NEW i \in 1 .. n PROVE g[i] = IF i \in P THEN Append(g[i - 1], q[i]) ELSE g[i - 1] OBVIOUS
  <2>1. i - 1 \in 0 .. n BY <1>1
  <2>2. g[i - 1] \in Seq(S) BY <1>4, <2>1
  <2>3. g[i] = F[i][g[i - 1]] BY <1>4 DEF Follows
  <2> QED BY <1>3, <2>2, <2>3
<1>6. Is(g)
  <2>1. g = [i \in 0 .. n |-> g[i]] BY <1>4
  <2>2. \A i \in 0 .. n : g[i] = IF i = 0 THEN <<>> ELSE IF i \in P THEN Append(g[i - 1], q[i]) ELSE g[i - 1]
    <3> SUFFICES ASSUME NEW i \in 0 .. n
                 PROVE  g[i] = IF i = 0 THEN <<>> ELSE IF i \in P THEN Append(g[i - 1], q[i]) ELSE g[i - 1]
      OBVIOUS
    <3>1. i = 0 \/ i \in 1 .. n BY <1>1
    <3>2. i \in 1 .. n => i # 0 BY <1>1
    <3> QED BY <1>4, <1>5, <3>1, <3>2
  <2>3. [i \in 0 .. n |-> g[i]] =
           [i \in 0 .. n |-> IF i = 0 THEN <<>> ELSE IF i \in P THEN Append(g[i - 1], q[i]) ELSE g[i - 1]]
    BY <2>2
  <2> QED BY <2>1, <2>3 DEF n
<1> DEFINE h == CHOOSE k : Is(k)
<1>7. Is(h)
  <2> HIDE DEF Is
  <2> QED BY <1>6
<1>8. Taken(q, P) = h[n] BY DEF Taken, n
<1>9. h[0] = <<>> /\ \A i \in 1 .. n : h[i] = IF i \in P THEN Append(h[i - 1], q[i]) ELSE h[i - 1]
  <2>1. h = [i \in 0 .. n |-> IF i = 0 THEN <<>> ELSE IF i \in P THEN Append(h[i - 1], q[i]) ELSE h[i - 1]]
    BY <1>7 DEF n
  <2> HIDE DEF h
  <2>2. 0 \in 0 .. n /\ \A i \in 1 .. n : i \in 0 .. n /\ i # 0 BY <1>1
  <2>3. \A i \in 0 .. n : h[i] = IF i = 0 THEN <<>> ELSE IF i \in P THEN Append(h[i - 1], q[i]) ELSE h[i - 1]
    BY <2>1
  <2> QED BY <2>2, <2>3
<1> HIDE DEF h
<1>10. \A i \in 0 .. n : g[i] = h[i]
  <2>1. \A i \in 1 .. n : g[i - 1] = h[i - 1] => g[i] = h[i] BY <1>5, <1>9
  <2>2. g[0] = h[0] BY <1>4, <1>9
  <2> QED BY <1>1, <2>1, <2>2, AlongUnique, ZenonT(60)
<1> QED
  <2>1. Takes(g, n, q, P) BY <1>5 DEF Takes
  <2>2. n \in 0 .. n BY <1>1
  <2>3. Taken(q, P) = g[n] BY <1>8, <1>10, <2>2
  <2> QED BY <1>4, <2>1, <2>3 DEF n

LEMMA KeptTyped == ASSUME NEW S, NEW q \in Seq(S), NEW K PROVE Kept(q, K) \in Seq(S)
<1>1. Len(q) \in Nat OBVIOUS
<1> QED BY <1>1, TakenAlong DEF Kept

LEMMA KeptEmpty == ASSUME NEW K PROVE Kept(<<>>, K) = <<>>
<1> DEFINE P == {i \in 1 .. Len(<<>>) : <<>>[i] \in K}
<1>1. <<>> \in Seq({}) /\ Len(<<>>) = 0 OBVIOUS
<1>2. PICK g : g[0] = <<>> /\ Taken(<<>>, P) = g[Len(<<>>)] BY <1>1, TakenAlong
<1> QED BY <1>1, <1>2 DEF Kept

LEMMA KeptAppend ==
    ASSUME NEW S, NEW q \in Seq(S), NEW m \in S, NEW K
    PROVE  Kept(Append(q, m), K) = IF m \in K THEN Append(Kept(q, K), m) ELSE Kept(q, K)
<1> DEFINE e == Append(q, m)
           n == Len(q)
           P == {i \in 1 .. Len(q) : q[i] \in K}
           Q == {i \in 1 .. Len(e) : e[i] \in K}
<1>1. e \in Seq(S) /\ Len(e) = n + 1 /\ e[n + 1] = m /\ \A i \in 1 .. n : e[i] = q[i]
  BY AppendProperties
<1>2. n \in Nat OBVIOUS
<1>3. (\A i \in 1 .. n : i \in P <=> i \in Q) /\ (n + 1 \in Q <=> m \in K) BY <1>1, <1>2
<1>4. Kept(q, K) = Taken(q, P) /\ Kept(e, K) = Taken(e, Q) BY DEF Kept
<1> HIDE DEF e, P, Q
<1>5. PICK g :
         /\ g \in [0 .. n -> Seq(S)] /\ g[0] = <<>>
         /\ Takes(g, n, q, P)
         /\ Taken(q, P) = g[n]
  BY TakenAlong
<1>6. PICK h :
         /\ h \in [0 .. (n + 1) -> Seq(S)] /\ h[0] = <<>>
         /\ Takes(h, n + 1, e, Q)
         /\ Taken(e, Q) = h[n + 1]
  <2>1. \E h :
         /\ h \in [0 .. Len(e) -> Seq(S)] /\ h[0] = <<>>
         /\ Takes(h, Len(e), e, Q)
         /\ Taken(e, Q) = h[Len(e)]
    BY <1>1, TakenAlong
  <2> QED BY <1>1, <2>1
<1> HIDE DEF n
<1>7. \A i \in 0 .. n : g[i] = h[i]
  <2>1. ASSUME NEW i \in 1 .. n, g[i - 1] = h[i - 1] PROVE g[i] = h[i]
    <3>1. i \in 1 .. (n + 1) BY <1>2
    <3> QED BY <1>1, <1>3, <1>5, <1>6, <2>1, <3>1 DEF Takes
  <2>2. g[0] = h[0] BY <1>5, <1>6
  <2> QED BY <1>2, <2>1, <2>2, AlongUnique, ZenonT(60)
<1>8. h[n + 1] = IF m \in K THEN Append(h[n], m) ELSE h[n]
  <2>1. n + 1 \in 1 .. (n + 1) /\ (n + 1) - 1 = n BY <1>2
  <2> QED BY <1>1, <1>3, <1>6, <2>1 DEF Takes
<1>9. n \in 0 .. n BY <1>2
<1> QED BY <1>4, <1>5, <1>6, <1>7, <1>8, <1>9 DEF e

LEMMA KeptAmong ==
    ASSUME NEW S, NEW q \in Seq(S), NEW K PROVE ToSet(Kept(q, K)) = ToSet(q) \cap K
<1> DEFINE P == {r \in Seq(S) : ToSet(Kept(r, K)) = ToSet(r) \cap K}
<1>1. <<>> \in P BY KeptEmpty DEF ToSet
<1>2. ASSUME NEW r \in P, NEW m \in S PROVE Append(r, m) \in P
  <2>1. Append(r, m) \in Seq(S) /\ r \in Seq(S) /\ Kept(r, K) \in Seq(S) BY KeptTyped
  <2>2. \A s \in Seq(S) : ToSet(Append(s, m)) = ToSet(s) \cup {m}
    <3> SUFFICES ASSUME NEW s \in Seq(S) PROVE ToSet(Append(s, m)) = ToSet(s) \cup {m} OBVIOUS
    <3>1. Len(s) \in Nat /\ DOMAIN s = 1 .. Len(s) OBVIOUS
    <3>2. DOMAIN Append(s, m) = 1 .. (Len(s) + 1) /\ Append(s, m)[Len(s) + 1] = m
          /\ \A i \in 1 .. Len(s) : Append(s, m)[i] = s[i] BY AppendProperties
    <3>3. 1 .. (Len(s) + 1) = (1 .. Len(s)) \cup {Len(s) + 1} BY <3>1
    <3> QED BY <3>1, <3>2, <3>3 DEF ToSet
  <2>3. Kept(Append(r, m), K) = IF m \in K THEN Append(Kept(r, K), m) ELSE Kept(r, K) BY <2>1, KeptAppend
  <2>4. ToSet(Kept(r, K)) = ToSet(r) \cap K OBVIOUS
  <2>5. ToSet(Kept(Append(r, m), K)) = ToSet(Append(r, m)) \cap K
    <3>1. ToSet(Append(r, m)) = ToSet(r) \cup {m} BY <2>1, <2>2
    <3>2. CASE m \in K
      <4>1. ToSet(Kept(Append(r, m), K)) = ToSet(Kept(r, K)) \cup {m} BY <2>1, <2>2, <2>3, <3>2
      <4> QED BY <2>4, <3>1, <3>2, <4>1
    <3>3. CASE m \notin K BY <2>3, <2>4, <3>1, <3>3
    <3> QED BY <3>2, <3>3
  <2> QED BY <2>1, <2>5
<1> HIDE DEF P
<1>3. P = Seq(S)
  <2>1. P \in SUBSET Seq(S) BY DEF P
  <2> QED BY <1>1, <1>2, <2>1, AppendByAppend
<1> QED BY <1>3 DEF P

-----------------------------------------------------------------------------
(***************************************************************************)
(* The inductive invariant.  First the types: no bound of TypeOK is needed  *)
(* for what follows.                                                        *)
(***************************************************************************)
Message(types) == [type : types, conn : Conns, seq : Nat, bytes : Nat]

DownMsgs == Message({"open", "data", "ack", "eof", "close"})
LateMsgs == Message({"ack", "close"})
UpMsgs == Message({"opened", "data", "ack", "eof", "closed", "error"})
WriteMsgs == Message({"data", "eof"})
ReadMsgs == Message({"data", "eof", "closed"})

Tunnels == [pc : {"new", "counting", "inserting", "opening", "waiting", "open", "gone"},
            session : Nat, listed : BOOLEAN, answer : {None, "opened", "error"},
            over : {None, "closed", "failed"}, finished : BOOLEAN, readEof : BOOLEAN,
            writeClosed : BOOLEAN, unacked : Nat, out : Seq(WriteMsgs), writeSeq : Nat,
            in : Seq(ReadMsgs), readSeq : Nat, pending : Nat]

Ends == [pc : {"none", "connecting", "running", "closing", "failing", "reported",
               "gone", "closed", "down"},
         in : Seq(WriteMsgs), inSeq : Nat, writing : Nat, readDone : BOOLEAN,
         writeDone : BOOLEAN, unacked : Nat, outSeq : Nat]

Sweeps == [by : {"cleanup", "removal"}, begun : BOOLEAN, left : SUBSET Conns]

RelayTyped ==
    /\ tunnel \in [Conns -> Tunnels]
    /\ channel \in Nat
    /\ sweep \in Sweeps \cup {None}

AgentTyped ==
    /\ conn \in [Conns -> Ends]
    /\ closed \in SUBSET Conns
    /\ uplink \in Seq(UpMsgs)
    /\ agent \in [session : Nat \ {0}, up : BOOLEAN, linked : BOOLEAN, untold : SUBSET Conns]
    /\ Records \cap closed = {}

QueuesTyped ==
    /\ bulk \in Seq(DownMsgs) /\ late \in Seq(LateMsgs) /\ lost \in Seq(LateMsgs)
    /\ post \in Seq(UpMsgs) /\ posting \in BOOLEAN

Reasons == {"seq", "bytes", "messages"}

Typed ==
    /\ RelayTyped /\ AgentTyped /\ QueuesTyped
    /\ failures \in Nat /\ blamed \subseteq Reasons

(***************************************************************************)
(* What each side can still know of a tunnel at each time of its life.      *)
(***************************************************************************)
\* A connection's messages on their way up
Upward(c) == {m \in ToSet(uplink) \cup ToSet(post) : m.conn = c}

\* The agent has yet to be told to open the connection, ...
IsOpen(m, c) == m.type = "open" /\ m.conn = c
Asked(c) == \E m \in ToSet(bulk) : IsOpen(m, c)

\* ... or it is at work.
Lives(c) == conn[c].pc \in {"connecting", "running"} \/ Asked(c)

\* The agent will be told that the tunnel is over, has missed it, or is about
\* to lose the session.
Told(c) ==
    \/ Ctrl("close", c) \in ToSet(bulk) \cup ToSet(late) \cup ToSet(lost)
    \/ ~agent.linked \/ channel # agent.session \/ c \in agent.untold

\* Before the request to open it is sent nothing is known of a tunnel.
Early == {"new", "counting", "inserting", "opening"}
Unborn(c) ==
    tunnel[c].pc \in Early =>
        /\ conn[c].pc = "none"
        /\ \A m \in ToSet(bulk) \cup ToSet(late) \cup ToSet(lost) : m.conn # c
        /\ Upward(c) = {}

\* The request to open it is the first message of a tunnel, and the only one
\* of its kind.
OpenFirst ==
    \A i, j \in DOMAIN bulk :
        bulk[i].type = "open" /\ bulk[j].conn = bulk[i].conn /\ j # i
            => i < j /\ bulk[j].type # "open"

\* Nothing comes from a connection that has not been opened, ...
Quiet(c) == Asked(c) => conn[c].pc = "none" /\ Upward(c) = {}

\* ... and a last message comes from one that has ended.
Over(c) == (\E m \in Upward(c) : m.type \in {"closed", "error"}) => ~Lives(c)

\* A tunnel and its connection belong to the same session.
Sessions(c) ==
    /\ tunnel[c].session <= agent.session
    /\ Lives(c) => tunnel[c].pc = "gone" \/ tunnel[c].session = agent.session
    /\ tunnel[c].pc = "opening" /\ tunnel[c].over # None =>
          channel # agent.session \/ tunnel[c].session # agent.session \/ c \in agent.untold
    /\ tunnel[c].pc \in {"new", "counting", "inserting", "gone"} => ~tunnel[c].listed
    /\ tunnel[c].pc \in {"new", "counting", "inserting"} => tunnel[c].over = None

Channels ==
    /\ channel <= agent.session
    /\ ~agent.up => /\ ~agent.linked
                    /\ bulk = <<>> /\ late = <<>> /\ uplink = <<>> /\ post = <<>>
                    /\ Records = {}

\* A user who has read the end knows that the tunnel is over.
Finished(c) ==
    tunnel[c].finished \/ (\E m \in ToSet(tunnel[c].in) : m.type = "closed")
        => tunnel[c].over # None

\* A tunnel writes nothing but messages of its own, and none before it is open.
OutOf(c, t) ==
    /\ \A m \in ToSet(t.out) : m.conn = c
    /\ t.pc \in Early => t.out = <<>>

\* The agent of a tunnel that is over on the relay's side is told.
Ending(c) == Lives(c) /\ (tunnel[c].pc = "gone" \/ tunnel[c].over # None) => Told(c)

Life ==
    /\ OpenFirst /\ Channels
    /\ \A c \in Conns :
          /\ Unborn(c) /\ Quiet(c) /\ Over(c) /\ Sessions(c) /\ Finished(c) /\ Ending(c)
          /\ OutOf(c, tunnel[c])

-----------------------------------------------------------------------------
(***************************************************************************)
(* Queues: what is in them after a step.                                    *)
(***************************************************************************)
LEMMA AppendAdds ==
    ASSUME NEW S, NEW q \in Seq(S), NEW m
    PROVE  ToSet(Append(q, m)) = ToSet(q) \cup {m}
<1>1. Len(q) \in Nat /\ DOMAIN q = 1 .. Len(q) OBVIOUS
<1>2. DOMAIN Append(q, m) = 1 .. (Len(q) + 1) /\ Append(q, m)[Len(q) + 1] = m
      /\ \A i \in 1 .. Len(q) : Append(q, m)[i] = q[i] OBVIOUS
<1>3. 1 .. (Len(q) + 1) = (1 .. Len(q)) \cup {Len(q) + 1} BY <1>1
<1> QED BY <1>1, <1>2, <1>3 DEF ToSet

LEMMA TailLacks ==
    ASSUME NEW S, NEW q \in Seq(S), q # <<>>
    PROVE  /\ Tail(q) \in Seq(S) /\ Head(q) \in S /\ Len(q) \in Nat \ {0}
           /\ Len(Tail(q)) = Len(q) - 1 /\ Head(q) = q[1]
           /\ \A i \in 1 .. (Len(q) - 1) : Tail(q)[i] = q[i + 1]
           /\ ToSet(q) = {Head(q)} \cup ToSet(Tail(q))
<1>1. Tail(q) \in Seq(S) /\ Head(q) \in S /\ Len(q) \in Nat \ {0} /\ Len(Tail(q)) = Len(q) - 1
      /\ Head(q) = q[1] BY EmptySeq
<1>2. \A i \in 1 .. (Len(q) - 1) : Tail(q)[i] = q[i + 1] BY <1>1
<1>3. DOMAIN Tail(q) = 1 .. (Len(q) - 1) /\ DOMAIN q = 1 .. Len(q) BY <1>1
<1>4. ASSUME NEW i \in 1 .. Len(q) PROVE q[i] \in {Head(q)} \cup ToSet(Tail(q))
  <2>1. CASE i = 1 BY <1>1, <2>1
  <2>2. CASE i # 1
    <3>1. i - 1 \in 1 .. (Len(q) - 1) /\ (i - 1) + 1 = i BY <1>1, <2>2
    <3>2. Tail(q)[i - 1] = q[i] BY <1>2, <3>1
    <3> QED BY <1>3, <3>1, <3>2 DEF ToSet
  <2> QED BY <2>1, <2>2
<1>5. ASSUME NEW i \in 1 .. (Len(q) - 1) PROVE Tail(q)[i] \in ToSet(q)
  <2>1. i + 1 \in 1 .. Len(q) BY <1>1
  <2> QED BY <1>2, <1>3, <2>1 DEF ToSet
<1>6. Head(q) \in ToSet(q)
  <2>1. 1 \in 1 .. Len(q) BY <1>1
  <2> QED BY <1>1, <1>3, <2>1 DEF ToSet
<1>7. ToSet(q) \subseteq {Head(q)} \cup ToSet(Tail(q)) BY <1>3, <1>4 DEF ToSet
<1>8. ToSet(Tail(q)) \subseteq ToSet(q) BY <1>3, <1>5 DEF ToSet
<1> QED BY <1>1, <1>2, <1>6, <1>7, <1>8

LEMMA EmptyHasNone == ToSet(<<>>) = {} BY DEF ToSet

LEMMA AmongTyped == ASSUME NEW S, NEW q \in Seq(S) PROVE ToSet(q) \subseteq S
<1>1. \A i \in DOMAIN q : q[i] \in S OBVIOUS
<1> QED BY <1>1 DEF ToSet

LEMMA ConcatHasBoth ==
    ASSUME NEW S, NEW a \in Seq(S), NEW b \in Seq(S)
    PROVE  ToSet(a \o b) = ToSet(a) \cup ToSet(b)
<1> DEFINE l == Len(a)
           k == Len(b)
           c == a \o b
<1>1. l \in Nat /\ k \in Nat /\ DOMAIN a = 1 .. l /\ DOMAIN b = 1 .. k OBVIOUS
<1>2. /\ Len(c) = l + k /\ DOMAIN c = 1 .. (l + k)
      /\ \A i \in 1 .. (l + k) : c[i] = IF i <= l THEN a[i] ELSE b[i - l]
  BY ConcatProperties
<1> HIDE DEF l, k, c
<1>3. ASSUME NEW i \in 1 .. (l + k) PROVE c[i] \in ToSet(a) \cup ToSet(b)
  <2>1. CASE i <= l
    <3>1. i \in 1 .. l BY <1>1, <2>1
    <3> QED BY <1>1, <1>2, <2>1, <3>1 DEF ToSet
  <2>2. CASE ~(i <= l)
    <3>1. i - l \in 1 .. k BY <1>1, <2>2
    <3> QED BY <1>1, <1>2, <2>2, <3>1 DEF ToSet
  <2> QED BY <2>1, <2>2
<1>4. ASSUME NEW i \in 1 .. l PROVE a[i] \in ToSet(c)
  <2>1. i \in 1 .. (l + k) /\ i <= l BY <1>1
  <2> QED BY <1>2, <2>1 DEF ToSet
<1>5. ASSUME NEW i \in 1 .. k PROVE b[i] \in ToSet(c)
  <2>1. i + l \in 1 .. (l + k) /\ ~(i + l <= l) /\ (i + l) - l = i BY <1>1
  <2> QED BY <1>2, <2>1 DEF ToSet
<1>6. ToSet(c) \subseteq ToSet(a) \cup ToSet(b) BY <1>2, <1>3 DEF ToSet
<1>7. ToSet(a) \subseteq ToSet(c) /\ ToSet(b) \subseteq ToSet(c) BY <1>1, <1>4, <1>5 DEF ToSet
<1> QED BY <1>6, <1>7 DEF c

\* A queue is what comes before a place and what comes from there on.
LEMMA SplitAt ==
    ASSUME NEW S, NEW q \in Seq(S), NEW n \in 0 .. Len(q)
    PROVE  LET a == SubSeq(q, 1, n)
               b == SubSeq(q, n + 1, Len(q))
           IN a \in Seq(S) /\ b \in Seq(S) /\ a \o b = q /\ ToSet(q) = ToSet(a) \cup ToSet(b)
              /\ Len(a) = n /\ Len(b) = Len(q) - n
<1> DEFINE a == SubSeq(q, 1, n)
           b == SubSeq(q, n + 1, Len(q))
           l == Len(q)
<1>1. l \in Nat /\ n \in Nat /\ n <= l /\ DOMAIN q = 1 .. l OBVIOUS
<1>2. a \in Seq(S) /\ Len(a) = n /\ \A i \in 1 .. n : a[i] = q[i]
  BY <1>1
<1>3. b \in Seq(S) /\ Len(b) = l - n /\ \A i \in 1 .. (l - n) : b[i] = q[i + n]
  <2>1. n + 1 \in Int /\ l \in Int /\ \A i \in (n + 1) .. l : q[i] \in S BY <1>1
  <2>2. /\ b \in Seq(S) /\ Len(b) = IF n + 1 <= l THEN l - (n + 1) + 1 ELSE 0
        /\ \A i \in 1 .. (l - (n + 1) + 1) : b[i] = q[(n + 1) + i - 1]
    <3> HIDE DEF l
    <3>1. Len(q) = l BY DEF l
    <3> QED BY <2>1, <3>1, SubSeqProperties
  <2> HIDE DEF b
  <2>3. \A i \in 1 .. (l - n) : i \in 1 .. (l - (n + 1) + 1) /\ (n + 1) + i - 1 = i + n BY <1>1
  <2>4. (IF n + 1 <= l THEN l - (n + 1) + 1 ELSE 0) = l - n
    <3>1. \A x, y \in Nat : x <= y => (IF x + 1 <= y THEN y - (x + 1) + 1 ELSE 0) = y - x OBVIOUS
    <3> HIDE DEF l
    <3> QED BY <1>1, <3>1
  <2> QED BY <2>2, <2>3, <2>4
<1> HIDE DEF a, b
<1>4. a \o b = q
  <2>1. a \o b \in Seq(S) /\ Len(a \o b) = l
    <3>1. a \o b \in Seq(S) /\ Len(a \o b) = Len(a) + Len(b) BY <1>2, <1>3, ConcatProperties
    <3>2. n + (l - n) = l BY <1>1
    <3> QED BY <1>2, <1>3, <3>1, <3>2
  <2>2. ASSUME NEW i \in 1 .. l PROVE (a \o b)[i] = q[i]
    <3>1. (a \o b)[i] = IF i <= n THEN a[i] ELSE b[i - n]
      <4>1. i \in 1 .. (Len(a) + Len(b)) BY <1>1, <1>2, <1>3
      <4> QED BY <1>2, <1>3, <4>1, ConcatProperties
    <3>2. CASE i <= n
      <4>1. i \in 1 .. n BY <1>1, <3>2
      <4> QED BY <1>2, <3>1, <3>2, <4>1
    <3>3. CASE ~(i <= n)
      <4>1. i - n \in 1 .. (l - n) /\ (i - n) + n = i BY <1>1, <3>3
      <4> QED BY <1>3, <3>1, <3>3, <4>1
    <3> QED BY <3>2, <3>3
  <2> HIDE DEF l
  <2>3. Len(q) = l BY DEF l
  <2> QED BY <2>1, <2>2, <2>3, SeqEqual
<1>5. ToSet(q) = ToSet(a) \cup ToSet(b)
  <2>1. ToSet(a) = {q[i] : i \in 1 .. n} BY <1>2 DEF ToSet
  <2>2. ToSet(b) = {q[i + n] : i \in 1 .. (l - n)} BY <1>3 DEF ToSet
  <2>3. ToSet(q) = {q[i] : i \in 1 .. l} BY <1>1 DEF ToSet
  <2>4. \A i \in 1 .. n : i \in 1 .. l BY <1>1
  <2>5. \A i \in 1 .. (l - n) : i + n \in 1 .. l BY <1>1
  <2>6. ASSUME NEW i \in 1 .. l PROVE i \in 1 .. n \/ \E j \in 1 .. (l - n) : j + n = i
    <3>1. i \in 1 .. n \/ (i - n \in 1 .. (l - n) /\ (i - n) + n = i) BY <1>1
    <3> QED BY <3>1
  <2>7. ToSet(q) \subseteq ToSet(a) \cup ToSet(b) BY <2>1, <2>2, <2>3, <2>6
  <2>8. ToSet(a) \subseteq ToSet(q) BY <2>1, <2>3, <2>4
  <2>9. ToSet(b) \subseteq ToSet(q) BY <2>2, <2>3, <2>5
  <2> QED BY <2>7, <2>8, <2>9
<1> QED BY <1>2, <1>3, <1>4, <1>5 DEF a, b, l

\* One place taken out
Without(S, q, k) ==
    LET a == SubSeq(q, 1, k - 1)
        b == SubSeq(q, k + 1, Len(q))
    IN  /\ a \in Seq(S) /\ b \in Seq(S) /\ q[k] \in S
        /\ RemoveAt(q, k) = a \o b /\ RemoveAt(q, k) \in Seq(S)
        /\ q = Append(a, q[k]) \o b
        /\ ToSet(q) = ToSet(RemoveAt(q, k)) \cup {q[k]}

LEMMA WithoutOne ==
    ASSUME NEW S, NEW q \in Seq(S), NEW k \in 1 .. Len(q) PROVE Without(S, q, k)
<1> DEFINE a == SubSeq(q, 1, k - 1)
           b == SubSeq(q, k + 1, Len(q))
           c == SubSeq(q, 1, k)
<1>1. Len(q) \in Nat /\ k - 1 \in 0 .. Len(q) /\ k \in 0 .. Len(q) /\ (k - 1) + 1 = k /\ q[k] \in S OBVIOUS
<1>2. a \in Seq(S) /\ Len(a) = k - 1 BY <1>1, SplitAt
<1>3. c \in Seq(S) /\ b \in Seq(S) /\ c \o b = q /\ ToSet(q) = ToSet(c) \cup ToSet(b) BY <1>1, SplitAt
<1>4. c = Append(a, q[k])
  <2>1. Len(c) = k /\ Append(a, q[k]) \in Seq(S) /\ Len(Append(a, q[k])) = k BY <1>1, <1>2, SplitAt
  <2>2. \A i \in 1 .. k : c[i] = Append(a, q[k])[i]
    <3> SUFFICES ASSUME NEW i \in 1 .. k PROVE c[i] = Append(a, q[k])[i] OBVIOUS
    <3>1. c[i] = q[i] BY <1>1
    <3>2. CASE i = k BY <1>1, <1>2, <3>1, <3>2
    <3>3. CASE i # k
      <4>1. i \in 1 .. (k - 1) BY <1>1, <3>3
      <4>2. a[i] = q[i] BY <1>1, <4>1
      <4> QED BY <1>2, <3>1, <4>1, <4>2
    <3> QED BY <3>2, <3>3
  <2> HIDE DEF a, c
  <2> QED BY <1>3, <2>1, <2>2, SeqEqual
<1>5. ToSet(c) = ToSet(a) \cup {q[k]}
  <2> HIDE DEF a, c
  <2> QED BY <1>2, <1>4, AppendAdds
<1>6. RemoveAt(q, k) = a \o b BY DEF RemoveAt
<1>7. a \o b \in Seq(S) /\ ToSet(a \o b) = ToSet(a) \cup ToSet(b)
  <2> HIDE DEF a, b
  <2>1. a \o b \in Seq(S) BY <1>2, <1>3, ConcatProperties
  <2>2. ToSet(a \o b) = ToSet(a) \cup ToSet(b) BY <1>2, <1>3, ConcatHasBoth
  <2> QED BY <2>1, <2>2
<1> HIDE DEF a, b, c
<1>8. q = Append(a, q[k]) \o b BY <1>3, <1>4
<1>9. ToSet(q) = ToSet(RemoveAt(q, k)) \cup {q[k]} BY <1>3, <1>5, <1>6, <1>7
<1> QED BY <1>1, <1>2, <1>3, <1>6, <1>7, <1>8, <1>9 DEF a, b, Without

-----------------------------------------------------------------------------
(***************************************************************************)
(* Every action keeps to the types.                                         *)
(***************************************************************************)
LEMMA CtrlTyped ==
    ASSUME NEW c \in Conns
    PROVE  /\ Ctrl("open", c) \in DownMsgs
           /\ Ctrl("close", c) \in LateMsgs
           /\ Ctrl("eof", c) \in WriteMsgs
           /\ \A t \in {"opened", "eof", "closed", "error"} : Ctrl(t, c) \in UpMsgs
BY DEF Ctrl, Msg, Message, DownMsgs, LateMsgs, UpMsgs, WriteMsgs

LEMMA Kinds ==
    /\ LateMsgs \subseteq DownMsgs
    /\ WriteMsgs \subseteq DownMsgs
    /\ ReadMsgs \subseteq UpMsgs
    /\ \A m \in DownMsgs : m.type \in {"data", "eof"} => m \in WriteMsgs
    /\ \A m \in UpMsgs : m.type \in {"data", "eof", "closed"} => m \in ReadMsgs
    /\ \A m \in DownMsgs \cup UpMsgs : m.conn \in Conns /\ m.seq \in Nat /\ m.bytes \in Nat
BY DEF Message, DownMsgs, LateMsgs, UpMsgs, WriteMsgs, ReadMsgs

LEMMA OpenIsKept ==
    ASSUME NEW q \in Seq(UpMsgs)
    PROVE  Open(q) = Kept(q, {m \in UpMsgs : m.conn \notin closed})
<1>1. \A i \in 1 .. Len(q) : q[i] \in UpMsgs OBVIOUS
<1>2. {i \in 1 .. Len(q) : q[i].conn \notin closed}
      = {i \in 1 .. Len(q) : q[i] \in {m \in UpMsgs : m.conn \notin closed}} BY <1>1
<1> QED BY <1>2 DEF Open, Kept

LEMMA OpenTyped ==
    ASSUME NEW q \in Seq(UpMsgs)
    PROVE  Open(q) \in Seq(UpMsgs) /\ ToSet(Open(q)) \subseteq ToSet(q)
<1> DEFINE K == {m \in UpMsgs : m.conn \notin closed}
<1>1. Open(q) = Kept(q, K) BY OpenIsKept
<1> HIDE DEF K
<1> QED BY <1>1, KeptTyped, KeptAmong

LEMMA InitTyped == Init => Typed
<1> SUFFICES ASSUME Init PROVE Typed OBVIOUS
<1>1. NoTunnel \in Tunnels BY DEF NoTunnel, Tunnels
<1>2. NoConn \in Ends BY DEF NoConn, Ends
<1>3. RelayTyped
  <2>1. tunnel = [c \in Conns |-> NoTunnel] /\ channel = 1 /\ sweep = None BY DEF Init
  <2>2. tunnel \in [Conns -> Tunnels] BY <1>1, <2>1
  <2>3. channel \in Nat /\ sweep \in Sweeps \cup {None} BY <2>1
  <2> QED BY <2>2, <2>3 DEF RelayTyped
<1>4. AgentTyped
  <2>1. conn = [c \in Conns |-> NoConn] /\ closed = {} /\ uplink = <<>> BY DEF Init
  <2>2. agent \in [session : Nat \ {0}, up : BOOLEAN, linked : BOOLEAN, untold : SUBSET Conns] BY DEF Init
  <2>3. Records \cap closed = {} BY <2>1
  <2> QED BY <1>2, <2>1, <2>2, <2>3 DEF AgentTyped
<1>5. QueuesTyped
  <2>1. bulk = <<>> /\ late = <<>> /\ lost = <<>> /\ post = <<>> BY DEF Init
  <2>2. posting \in BOOLEAN BY DEF Init
  <2>3. bulk \in Seq(DownMsgs) /\ late \in Seq(LateMsgs) /\ lost \in Seq(LateMsgs) /\ post \in Seq(UpMsgs)
    BY <2>1
  <2> QED BY <2>2, <2>3 DEF QueuesTyped
<1>6. failures = 0 /\ blamed = {} BY DEF Init
<1> QED BY <1>3, <1>4, <1>5, <1>6 DEF Typed

LEMMA DeliverTyped ==
    ASSUME Typed, NEW c, NEW m \in DownMsgs, Deliver(c, m)
    PROVE  bulk' \in Seq(DownMsgs)
<1>1. bulk \in Seq(DownMsgs) BY DEF Typed, QueuesTyped
<1>2. bulk' = bulk \/ bulk' = Append(bulk, m) BY DEF Deliver
<1> QED BY <1>1, <1>2

LEMMA SendTyped ==
    ASSUME Typed, NEW c, NEW m \in LateMsgs, SendNonblocking(c, m)
    PROVE  bulk' \in Seq(DownMsgs) /\ late' \in Seq(LateMsgs)
<1>1. bulk \in Seq(DownMsgs) /\ late \in Seq(LateMsgs) BY DEF Typed, QueuesTyped
<1>2. CASE Reaches(c) /\ ~BulkRoom
  <2>1. late' = Append(late, m) /\ bulk' = bulk BY <1>2 DEF SendNonblocking
  <2> QED BY <1>1, <2>1
<1>3. CASE ~(Reaches(c) /\ ~BulkRoom)
  <2>1. Deliver(c, m) /\ late' = late BY <1>3 DEF SendNonblocking
  <2> QED BY <1>1, <2>1, Kinds, DeliverTyped
<1> QED BY <1>2, <1>3

LEMMA EmitTyped ==
    ASSUME Typed, NEW m \in UpMsgs, Emit(m)
    PROVE  uplink' \in Seq(UpMsgs)
BY DEF Typed, AgentTyped, Emit

\* The tunnels after one has changed
LEMMA TunnelSet ==
    ASSUME Typed, NEW c \in Conns, NEW t \in Tunnels, tunnel' = [tunnel EXCEPT ![c] = t]
    PROVE  tunnel' \in [Conns -> Tunnels] /\ tunnel'[c] = t /\ \A d \in Conns \ {c} : tunnel'[d] = tunnel[d]
BY DEF Typed, RelayTyped

LEMMA ConnSet ==
    ASSUME Typed, NEW c \in Conns, NEW r \in Ends, conn' = [conn EXCEPT ![c] = r]
    PROVE  conn' \in [Conns -> Ends] /\ conn'[c] = r /\ \A d \in Conns \ {c} : conn'[d] = conn[d]
BY DEF Typed, AgentTyped

LEMMA LeastTyped == ASSUME NEW m \in Nat, NEW n \in Nat PROVE Least(m, n) \in Nat /\ Least(m, n) <= m /\ Least(m, n) <= n
BY DEF Least

LEMMA MinusTyped == ASSUME NEW m \in Nat, NEW n \in Nat PROVE Minus(m, n) \in Nat /\ Minus(m, n) <= m
BY DEF Minus

LEMMA DroppedTyped ==
    ASSUME Typed, NEW c \in Conns, NEW how \in {"gone", "closed", "down"}
    PROVE  Dropped(c, how) \in Ends
<1>1. conn[c].outSeq \in Nat BY DEF Typed, AgentTyped, Ends
<1>2. NoConn \in Ends BY DEF NoConn, Ends
<1>3. [NoConn EXCEPT !.pc = how] \in Ends BY <1>2 DEF Ends
<1>4. [[NoConn EXCEPT !.pc = how] EXCEPT !.outSeq = conn[c].outSeq] \in Ends BY <1>1, <1>3 DEF Ends
<1>5. Dropped(c, how) = [[NoConn EXCEPT !.pc = how] EXCEPT !.outSeq = conn[c].outSeq] BY DEF Dropped, NoConn
<1> QED BY <1>4, <1>5

\* Each part of a tunnel may change within its type.
LEMMA TunnelField ==
    ASSUME NEW t \in Tunnels
    PROVE  /\ t.pc \in {"new", "counting", "inserting", "opening", "waiting", "open", "gone"} /\ \A x \in {"new", "counting", "inserting", "opening", "waiting", "open", "gone"} : [t EXCEPT !.pc = x] \in Tunnels
           /\ t.session \in Nat /\ \A x \in Nat : [t EXCEPT !.session = x] \in Tunnels
           /\ t.listed \in BOOLEAN /\ \A x \in BOOLEAN : [t EXCEPT !.listed = x] \in Tunnels
           /\ t.answer \in {None, "opened", "error"} /\ \A x \in {None, "opened", "error"} : [t EXCEPT !.answer = x] \in Tunnels
           /\ t.over \in {None, "closed", "failed"} /\ \A x \in {None, "closed", "failed"} : [t EXCEPT !.over = x] \in Tunnels
           /\ t.finished \in BOOLEAN /\ \A x \in BOOLEAN : [t EXCEPT !.finished = x] \in Tunnels
           /\ t.readEof \in BOOLEAN /\ \A x \in BOOLEAN : [t EXCEPT !.readEof = x] \in Tunnels
           /\ t.writeClosed \in BOOLEAN /\ \A x \in BOOLEAN : [t EXCEPT !.writeClosed = x] \in Tunnels
           /\ t.unacked \in Nat /\ \A x \in Nat : [t EXCEPT !.unacked = x] \in Tunnels
           /\ t.out \in Seq(WriteMsgs) /\ \A x \in Seq(WriteMsgs) : [t EXCEPT !.out = x] \in Tunnels
           /\ t.writeSeq \in Nat /\ \A x \in Nat : [t EXCEPT !.writeSeq = x] \in Tunnels
           /\ t.in \in Seq(ReadMsgs) /\ \A x \in Seq(ReadMsgs) : [t EXCEPT !.in = x] \in Tunnels
           /\ t.readSeq \in Nat /\ \A x \in Nat : [t EXCEPT !.readSeq = x] \in Tunnels
           /\ t.pending \in Nat /\ \A x \in Nat : [t EXCEPT !.pending = x] \in Tunnels
<1>1. t.pc \in {"new", "counting", "inserting", "opening", "waiting", "open", "gone"} /\ \A x \in {"new", "counting", "inserting", "opening", "waiting", "open", "gone"} : [t EXCEPT !.pc = x] \in Tunnels BY DEF Tunnels
<1>2. t.session \in Nat /\ \A x \in Nat : [t EXCEPT !.session = x] \in Tunnels BY DEF Tunnels
<1>3. t.listed \in BOOLEAN /\ \A x \in BOOLEAN : [t EXCEPT !.listed = x] \in Tunnels BY DEF Tunnels
<1>4. t.answer \in {None, "opened", "error"} /\ \A x \in {None, "opened", "error"} : [t EXCEPT !.answer = x] \in Tunnels BY DEF Tunnels
<1>5. t.over \in {None, "closed", "failed"} /\ \A x \in {None, "closed", "failed"} : [t EXCEPT !.over = x] \in Tunnels BY DEF Tunnels
<1>6. t.finished \in BOOLEAN /\ \A x \in BOOLEAN : [t EXCEPT !.finished = x] \in Tunnels BY DEF Tunnels
<1>7. t.readEof \in BOOLEAN /\ \A x \in BOOLEAN : [t EXCEPT !.readEof = x] \in Tunnels BY DEF Tunnels
<1>8. t.writeClosed \in BOOLEAN /\ \A x \in BOOLEAN : [t EXCEPT !.writeClosed = x] \in Tunnels BY DEF Tunnels
<1>9. t.unacked \in Nat /\ \A x \in Nat : [t EXCEPT !.unacked = x] \in Tunnels BY DEF Tunnels
<1>10. t.out \in Seq(WriteMsgs) /\ \A x \in Seq(WriteMsgs) : [t EXCEPT !.out = x] \in Tunnels BY DEF Tunnels
<1>11. t.writeSeq \in Nat /\ \A x \in Nat : [t EXCEPT !.writeSeq = x] \in Tunnels BY DEF Tunnels
<1>12. t.in \in Seq(ReadMsgs) /\ \A x \in Seq(ReadMsgs) : [t EXCEPT !.in = x] \in Tunnels BY DEF Tunnels
<1>13. t.readSeq \in Nat /\ \A x \in Nat : [t EXCEPT !.readSeq = x] \in Tunnels BY DEF Tunnels
<1>14. t.pending \in Nat /\ \A x \in Nat : [t EXCEPT !.pending = x] \in Tunnels BY DEF Tunnels
<1> QED BY <1>1, <1>2, <1>3, <1>4, <1>5, <1>6, <1>7, <1>8, <1>9, <1>10, <1>11, <1>12, <1>13, <1>14

\* The same of a connection
LEMMA EndField ==
    ASSUME NEW t \in Ends
    PROVE  /\ t.pc \in {"none", "connecting", "running", "closing", "failing", "reported",
                  "gone", "closed", "down"} /\ \A x \in {"none", "connecting", "running", "closing", "failing", "reported",
                  "gone", "closed", "down"} : [t EXCEPT !.pc = x] \in Ends
           /\ t.in \in Seq(WriteMsgs) /\ \A x \in Seq(WriteMsgs) : [t EXCEPT !.in = x] \in Ends
           /\ t.inSeq \in Nat /\ \A x \in Nat : [t EXCEPT !.inSeq = x] \in Ends
           /\ t.writing \in Nat /\ \A x \in Nat : [t EXCEPT !.writing = x] \in Ends
           /\ t.readDone \in BOOLEAN /\ \A x \in BOOLEAN : [t EXCEPT !.readDone = x] \in Ends
           /\ t.writeDone \in BOOLEAN /\ \A x \in BOOLEAN : [t EXCEPT !.writeDone = x] \in Ends
           /\ t.unacked \in Nat /\ \A x \in Nat : [t EXCEPT !.unacked = x] \in Ends
           /\ t.outSeq \in Nat /\ \A x \in Nat : [t EXCEPT !.outSeq = x] \in Ends
<1>1. t.pc \in {"none", "connecting", "running", "closing", "failing", "reported",
                  "gone", "closed", "down"} /\ \A x \in {"none", "connecting", "running", "closing", "failing", "reported",
                  "gone", "closed", "down"} : [t EXCEPT !.pc = x] \in Ends BY DEF Ends
<1>2. t.in \in Seq(WriteMsgs) /\ \A x \in Seq(WriteMsgs) : [t EXCEPT !.in = x] \in Ends BY DEF Ends
<1>3. t.inSeq \in Nat /\ \A x \in Nat : [t EXCEPT !.inSeq = x] \in Ends BY DEF Ends
<1>4. t.writing \in Nat /\ \A x \in Nat : [t EXCEPT !.writing = x] \in Ends BY DEF Ends
<1>5. t.readDone \in BOOLEAN /\ \A x \in BOOLEAN : [t EXCEPT !.readDone = x] \in Ends BY DEF Ends
<1>6. t.writeDone \in BOOLEAN /\ \A x \in BOOLEAN : [t EXCEPT !.writeDone = x] \in Ends BY DEF Ends
<1>7. t.unacked \in Nat /\ \A x \in Nat : [t EXCEPT !.unacked = x] \in Ends BY DEF Ends
<1>8. t.outSeq \in Nat /\ \A x \in Nat : [t EXCEPT !.outSeq = x] \in Ends BY DEF Ends
<1> QED BY <1>1, <1>2, <1>3, <1>4, <1>5, <1>6, <1>7, <1>8

LEMMA FailedTyped ==
    ASSUME Typed, NEW c \in Conns PROVE Failed(c) \in Tunnels
<1> DEFINE s == tunnel[c]
           s1 == [s EXCEPT !.listed = FALSE]
           s2 == [s1 EXCEPT !.over = "failed"]
           s3 == [s2 EXCEPT !.out = <<>>]
           s4 == [s3 EXCEPT !.in = <<>>]
<1>1. <<>> \in Seq(WriteMsgs) /\ <<>> \in Seq(ReadMsgs) /\ 0 \in Nat OBVIOUS
<1>2. s \in Tunnels BY DEF Typed, RelayTyped
<1>3. s1 \in Tunnels BY <1>2, TunnelField
<1>4. s2 \in Tunnels BY <1>3, TunnelField
<1>5. s3 \in Tunnels BY <1>1, <1>4, TunnelField
<1>6. s4 \in Tunnels BY <1>1, <1>5, TunnelField
<1>7. [s4 EXCEPT !.pending = 0] \in Tunnels BY <1>1, <1>6, TunnelField
<1>8. Failed(c) = [s4 EXCEPT !.pending = 0] BY DEF Failed
<1> QED BY <1>7, <1>8

LEMMA GoneTyped == GoneTunnel \in Tunnels
<1>1. NoTunnel \in Tunnels BY DEF NoTunnel, Tunnels
<1> QED BY <1>1 DEF GoneTunnel, Tunnels

LEMMA FitsTyped ==
    ASSUME NEW size \in Chunks, NEW u \in Nat, u < Window
    PROVE  Fits(size, u) \in Nat \ {0} /\ u + Fits(size, u) <= Window
<1>1. Window \in Nat /\ size \in Nat \ {0} BY TunnelAssumption
<1> QED BY <1>1 DEF Fits, Least

LEMMA SetTunnelTyped ==
    ASSUME Typed, NEW c \in Conns, NEW t \in Tunnels, SetTunnel(c, t) \/ TakeOut(c, t)
    PROVE  RelayTyped'
<1>1. tunnel' = [tunnel EXCEPT ![c] = t] /\ channel' = channel /\ sweep' = sweep BY DEF SetTunnel, TakeOut
<1>2. channel' \in Nat /\ sweep' \in Sweeps \cup {None} BY <1>1 DEF Typed, RelayTyped
<1>3. tunnel' \in [Conns -> Tunnels] BY <1>1, TunnelSet
<1> QED BY <1>2, <1>3 DEF RelayTyped

\* What an action leaves alone keeps its type.
LEMMA RelaySame ==
    ASSUME Typed, UNCHANGED <<tunnel, channel, sweep>> PROVE RelayTyped'
BY DEF Typed, RelayTyped

LEMMA AgentSame ==
    ASSUME Typed, UNCHANGED <<agentVars, agent>> PROVE AgentTyped'
<1>1. conn' = conn /\ closed' = closed /\ uplink' = uplink /\ agent' = agent BY DEF agentVars
<1>2. Records' = Records BY <1>1 DEF Records
<1> QED BY <1>1, <1>2 DEF Typed, AgentTyped

LEMMA QueuesSame ==
    ASSUME Typed, UNCHANGED <<bulk, late, lost, batch>> PROVE QueuesTyped'
BY DEF Typed, QueuesTyped, batch

LEMMA RestSame ==
    ASSUME Typed, UNCHANGED failures, UNCHANGED blamed PROVE failures' \in Nat /\ blamed' \subseteq Reasons
BY DEF Typed

\* A step of the relay alone, for the tunnel c
LEMMA TunnelTyped ==
    ASSUME Typed, RelayTyped', bulk' \in Seq(DownMsgs), late' \in Seq(LateMsgs), UNCHANGED relayElse
    PROVE  Typed'
<1>1. AgentTyped' BY AgentSame DEF relayElse
<1>2. QueuesTyped'
  <2>1. lost' = lost /\ post' = post /\ posting' = posting BY DEF relayElse, batch, history
  <2> QED BY <2>1 DEF Typed, QueuesTyped
<1>3. failures' \in Nat /\ blamed' \subseteq Reasons BY RestSame DEF relayElse, history
<1> QED BY <1>1, <1>2, <1>3 DEF Typed

\* ... that sends nothing
LEMMA TunnelAlone ==
    ASSUME Typed, RelayTyped', UNCHANGED <<downlink, relayElse>> PROVE Typed'
<1>1. bulk' \in Seq(DownMsgs) /\ late' \in Seq(LateMsgs) BY DEF Typed, QueuesTyped, downlink
<1> QED BY <1>1, TunnelTyped

LEMMA OpenLooksTyped == ASSUME Typed, NEW c \in Conns, OpenLooks(c) PROVE Typed'
<1> DEFINE t == [NoTunnel EXCEPT !.pc = "counting", !.session = channel]
           t1 == [NoTunnel EXCEPT !.pc = "counting"]
<1>1. NoTunnel \in Tunnels BY DEF NoTunnel, Tunnels
<1>2. channel \in Nat BY DEF Typed, RelayTyped
<1>3. t1 \in Tunnels BY <1>1, TunnelField
<1>4. [t1 EXCEPT !.session = channel] \in Tunnels BY <1>2, <1>3, TunnelField
<1>5. t = [t1 EXCEPT !.session = channel] BY DEF NoTunnel
<1>6. t \in Tunnels BY <1>4, <1>5
<1>7. SetTunnel(c, t) /\ UNCHANGED <<downlink, relayElse>> BY DEF OpenLooks
<1> HIDE DEF t
<1> QED BY <1>6, <1>7, SetTunnelTyped, TunnelAlone

LEMMA OpenCountsTyped == ASSUME Typed, NEW c \in Conns, OpenCounts(c) PROVE Typed'
<1> DEFINE t == [tunnel[c] EXCEPT !.pc = "inserting"]
<1>1. t \in Tunnels /\ GoneTunnel \in Tunnels
  <2>1. tunnel[c] \in Tunnels BY DEF Typed, RelayTyped
  <2> QED BY <2>1, TunnelField, GoneTyped
<1>2. tunnel' = [tunnel EXCEPT ![c] = t] \/ tunnel' = [tunnel EXCEPT ![c] = GoneTunnel]
  BY DEF OpenCounts
<1>3. channel' = channel /\ sweep' = sweep BY DEF OpenCounts
<1>4. tunnel' \in [Conns -> Tunnels]
  <2> HIDE DEF t
  <2> QED BY <1>1, <1>2, TunnelSet
<1>5. RelayTyped' BY <1>3, <1>4 DEF Typed, RelayTyped
<1>6. UNCHANGED <<downlink, relayElse>> BY DEF OpenCounts, relayElse
<1> QED BY <1>5, <1>6, TunnelAlone

LEMMA OpenInsertsTyped == ASSUME Typed, NEW c \in Conns, OpenInserts(c) PROVE Typed'
<1> DEFINE t1 == [tunnel[c] EXCEPT !.pc = "opening"]
           t == [tunnel[c] EXCEPT !.pc = "opening", !.listed = TRUE]
<1>1. tunnel[c] \in Tunnels BY DEF Typed, RelayTyped
<1>2. t1 \in Tunnels BY <1>1, TunnelField
<1>3. [t1 EXCEPT !.listed = TRUE] \in Tunnels BY <1>2, TunnelField
<1>4. t = [t1 EXCEPT !.listed = TRUE] BY <1>1
<1>5. SetTunnel(c, t) /\ UNCHANGED <<downlink, relayElse>> BY DEF OpenInserts
<1>6. t \in Tunnels BY <1>3, <1>4
<1> HIDE DEF t
<1> QED BY <1>5, <1>6, SetTunnelTyped, TunnelAlone

LEMMA OpenSendsTyped == ASSUME Typed, NEW c \in Conns, OpenSends(c) PROVE Typed'
<1> DEFINE t == [tunnel[c] EXCEPT !.pc = "waiting"]
<1>1. t \in Tunnels
  <2>1. tunnel[c] \in Tunnels BY DEF Typed, RelayTyped
  <2> QED BY <2>1, TunnelField
<1>2. SetTunnel(c, t) /\ UNCHANGED <<late, relayElse>> /\ Deliver(c, Ctrl("open", c)) BY DEF OpenSends
<1>3. Ctrl("open", c) \in DownMsgs BY CtrlTyped
<1>4. bulk' \in Seq(DownMsgs) BY <1>2, <1>3, DeliverTyped
<1>5. late' \in Seq(LateMsgs) BY <1>2 DEF Typed, QueuesTyped
<1> HIDE DEF t
<1> QED BY <1>1, <1>2, <1>4, <1>5, SetTunnelTyped, TunnelTyped

LEMMA OpenSendTimesOutTyped == ASSUME Typed, NEW c \in Conns, OpenSendTimesOut(c) PROVE Typed'
<1>1. TakeOut(c, GoneTunnel) /\ UNCHANGED <<downlink, relayElse>> BY DEF OpenSendTimesOut
<1> QED BY <1>1, GoneTyped, SetTunnelTyped, TunnelAlone

LEMMA OpenSucceedsTyped == ASSUME Typed, NEW c \in Conns, OpenSucceeds(c) PROVE Typed'
<1> DEFINE t == [tunnel[c] EXCEPT !.pc = "open"]
<1>1. t \in Tunnels
  <2>1. tunnel[c] \in Tunnels BY DEF Typed, RelayTyped
  <2> QED BY <2>1, TunnelField
<1>2. SetTunnel(c, t) /\ UNCHANGED <<downlink, relayElse>> BY DEF OpenSucceeds
<1> HIDE DEF t
<1> QED BY <1>1, <1>2, SetTunnelTyped, TunnelAlone

LEMMA OpenTimesOutTyped == ASSUME Typed, NEW c \in Conns, OpenTimesOut(c) PROVE Typed'
<1>1. TakeOut(c, GoneTunnel) /\ UNCHANGED relayElse /\ SendNonblocking(c, Ctrl("close", c)) BY DEF OpenTimesOut
<1>2. Ctrl("close", c) \in LateMsgs BY CtrlTyped
<1>3. bulk' \in Seq(DownMsgs) /\ late' \in Seq(LateMsgs) BY <1>1, <1>2, SendTyped
<1> QED BY <1>1, <1>3, GoneTyped, SetTunnelTyped, TunnelTyped

LEMMA DropTyped == ASSUME Typed, NEW c \in Conns, Drop(c) PROVE Typed'
<1>1. TakeOut(c, GoneTunnel) /\ UNCHANGED relayElse BY DEF Drop
<1>2. Ctrl("close", c) \in LateMsgs BY CtrlTyped
<1>3. bulk' \in Seq(DownMsgs) /\ late' \in Seq(LateMsgs)
  <2>1. CASE SendNonblocking(c, Ctrl("close", c)) BY <1>2, <2>1, SendTyped
  <2>2. CASE UNCHANGED <<bulk, late>> BY <2>2 DEF Typed, QueuesTyped
  <2> QED BY <2>1, <2>2 DEF Drop
<1> QED BY <1>1, <1>3, GoneTyped, SetTunnelTyped, TunnelTyped

LEMMA UserWritesTyped == ASSUME Typed, NEW c \in Conns, UserWrites(c) PROVE Typed'
<1> DEFINE s == tunnel[c]
<1>1. s \in Tunnels /\ s.unacked < Window BY DEF Typed, RelayTyped, UserWrites
<1>2. s.unacked \in Nat /\ s.writeSeq \in Nat /\ s.out \in Seq(WriteMsgs) BY <1>1, TunnelField
<1>3. PICK size \in Chunks :
          LET n == Fits(size, tunnel[c].unacked)
          IN SetTunnel(c, [tunnel[c] EXCEPT
                  !.out = Append(@, Msg("data", c, tunnel[c].writeSeq, n)),
                  !.writeSeq = @ + 1, !.unacked = @ + n])
  BY DEF UserWrites
<1> DEFINE n == Fits(size, s.unacked)
           m == Msg("data", c, s.writeSeq, n)
           t1 == [s EXCEPT !.out = Append(s.out, m)]
           t2 == [t1 EXCEPT !.writeSeq = s.writeSeq + 1]
           t == [t2 EXCEPT !.unacked = s.unacked + n]
<1>4. n \in Nat BY <1>1, <1>2, FitsTyped
<1>5. m \in WriteMsgs BY <1>2, <1>4 DEF Msg, Message, WriteMsgs
<1>6. SetTunnel(c, t)
  <2>1. t = [s EXCEPT !.out = Append(@, m), !.writeSeq = @ + 1, !.unacked = @ + n] BY <1>1 DEF Tunnels
  <2> HIDE DEF t
  <2> QED BY <1>3, <2>1
<1>7. UNCHANGED <<downlink, relayElse>> BY DEF UserWrites
<1> HIDE DEF s, n, m
<1>8. t1 \in Tunnels
  <2>1. Append(s.out, m) \in Seq(WriteMsgs) BY <1>2, <1>5
  <2> QED BY <1>1, <2>1, TunnelField
<1> HIDE DEF t1
<1>9. t2 \in Tunnels
  <2>1. s.writeSeq + 1 \in Nat BY <1>2
  <2> QED BY <1>8, <2>1, TunnelField
<1> HIDE DEF t2
<1>10. t \in Tunnels
  <2>1. s.unacked + n \in Nat BY <1>2, <1>4
  <2> QED BY <1>9, <2>1, TunnelField
<1> HIDE DEF t
<1> QED BY <1>6, <1>7, <1>10, SetTunnelTyped, TunnelAlone

LEMMA UserShutsDownTyped == ASSUME Typed, NEW c \in Conns, UserShutsDown(c) PROVE Typed'
<1> DEFINE s == tunnel[c]
           m == Ctrl("eof", c)
           t1 == [s EXCEPT !.writeClosed = TRUE]
           t == [t1 EXCEPT !.out = Append(s.out, m)]
<1>1. s \in Tunnels BY DEF Typed, RelayTyped
<1>2. m \in WriteMsgs BY CtrlTyped
<1>3. SetTunnel(c, [s EXCEPT !.writeClosed = TRUE, !.out = Append(@, m)]) /\ UNCHANGED <<downlink, relayElse>>
  BY DEF UserShutsDown
<1> HIDE DEF s, m
<1>4. t1 \in Tunnels BY <1>1, TunnelField
<1>5. Append(s.out, m) \in Seq(WriteMsgs)
  <2>1. s.out \in Seq(WriteMsgs) BY <1>1, TunnelField
  <2> QED BY <1>2, <2>1
<1>6. t \in Tunnels
  <2> HIDE DEF t1
  <2> QED BY <1>4, <1>5, TunnelField
<1>7. t = [s EXCEPT !.writeClosed = TRUE, !.out = Append(@, m)] BY <1>1 DEF Tunnels
<1> HIDE DEF t
<1> QED BY <1>3, <1>6, <1>7, SetTunnelTyped, TunnelAlone

LEMMA WriterSendsTyped == ASSUME Typed, NEW c \in Conns, WriterSends(c) PROVE Typed'
<1> DEFINE s == tunnel[c]
           t == [s EXCEPT !.out = Tail(s.out)]
<1>1. s \in Tunnels BY DEF Typed, RelayTyped
<1>2. s.out # <<>> /\ Deliver(c, Head(s.out)) /\ UNCHANGED <<late, relayElse>>
      /\ SetTunnel(c, [s EXCEPT !.out = Tail(@)]) BY DEF WriterSends
<1> HIDE DEF s
<1>3. s.out \in Seq(WriteMsgs) BY <1>1, TunnelField
<1>4. Tail(s.out) \in Seq(WriteMsgs) /\ Head(s.out) \in WriteMsgs BY <1>2, <1>3, TailLacks
<1>5. t \in Tunnels BY <1>1, <1>4, TunnelField
<1>6. t = [s EXCEPT !.out = Tail(@)] BY <1>1 DEF Tunnels
<1> HIDE DEF t
<1>7. bulk' \in Seq(DownMsgs) BY <1>2, <1>4, Kinds, DeliverTyped
<1>8. late' \in Seq(LateMsgs) BY <1>2 DEF Typed, QueuesTyped
<1>9. SetTunnel(c, t) BY <1>2, <1>6
<1> QED BY <1>2, <1>5, <1>7, <1>8, <1>9, SetTunnelTyped, TunnelTyped

LEMMA UserReadsErrorTyped == ASSUME Typed, NEW c \in Conns, UserReadsError(c) PROVE Typed'
<1> DEFINE t == [tunnel[c] EXCEPT !.finished = TRUE]
<1>1. t \in Tunnels
  <2>1. tunnel[c] \in Tunnels BY DEF Typed, RelayTyped
  <2> QED BY <2>1, TunnelField
<1>2. SetTunnel(c, t) /\ UNCHANGED <<downlink, relayElse>> BY DEF UserReadsError
<1> HIDE DEF t
<1> QED BY <1>1, <1>2, SetTunnelTyped, TunnelAlone

\* What poll_read makes of the tunnel
ReadTurns(c, s, m) ==
    \E t \in Tunnels :
        /\ SetTunnel(c, t)
        /\ \/ /\ m.type = "data"
              /\ t = [[s EXCEPT !.in = Tail(s.in)] EXCEPT !.pending = m.bytes]
           \/ /\ m.type = "eof"
              /\ t = [[s EXCEPT !.in = Tail(s.in)] EXCEPT !.readEof = TRUE]
           \/ /\ m.type = "closed"
              /\ t = [[[s EXCEPT !.in = Tail(s.in)] EXCEPT !.readEof = TRUE] EXCEPT !.finished = TRUE]

LEMMA ReadBecomes ==
    ASSUME Typed, NEW c \in Conns, UserReads(c), NEW s, s = tunnel[c], NEW m, m = Head(s.in)
    PROVE  /\ s \in Tunnels /\ s.in \in Seq(ReadMsgs) /\ s.in # <<>> /\ m \in ReadMsgs
           /\ s.pc = "open" /\ s.over # "failed" /\ ~s.readEof /\ s.pending = 0
           /\ UNCHANGED <<downlink, relayElse>>
           /\ ReadTurns(c, s, m)
<1>1. s \in Tunnels BY DEF Typed, RelayTyped
<1>2. s.in \in Seq(ReadMsgs) BY <1>1, TunnelField
<1>3. s.pc = "open" /\ s.over # "failed" /\ ~s.readEof /\ s.pending = 0 /\ s.in # <<>>
      /\ UNCHANGED <<downlink, relayElse>> BY DEF UserReads
<1>4. m \in ReadMsgs /\ Tail(s.in) \in Seq(ReadMsgs) BY <1>2, <1>3, TailLacks
<1>5. m.type \in {"data", "eof", "closed"} /\ m.bytes \in Nat BY <1>4 DEF ReadMsgs, Message
<1> DEFINE r == [s EXCEPT !.in = Tail(s.in)]
<1>6. r = [tunnel[c] EXCEPT !.in = Tail(@)] BY <1>1 DEF Tunnels
<1>7. SetTunnel(c, CASE m.type = "data"   -> [r EXCEPT !.pending = m.bytes]
                     [] m.type = "eof"    -> AtEof(r)
                     [] m.type = "closed" -> [AtEof(r) EXCEPT !.finished = TRUE])
  <2> HIDE DEF r, ReadTurns
  <2> QED BY <1>6 DEF UserReads
<1>8. r \in Tunnels BY <1>1, <1>4, TunnelField
<1> HIDE DEF r, ReadTurns
<1>9. CASE m.type = "data"
  <2>1. SetTunnel(c, [r EXCEPT !.pending = m.bytes]) BY <1>7, <1>9
  <2>2. [r EXCEPT !.pending = m.bytes] \in Tunnels BY <1>5, <1>8, TunnelField
  <2> QED BY <1>1, <1>2, <1>3, <1>4, <1>9, <2>1, <2>2 DEF r, ReadTurns
<1>10. CASE m.type = "eof"
  <2>1. SetTunnel(c, [r EXCEPT !.readEof = TRUE]) BY <1>7, <1>10 DEF AtEof
  <2>2. [r EXCEPT !.readEof = TRUE] \in Tunnels BY <1>8, TunnelField
  <2> QED BY <1>1, <1>2, <1>3, <1>4, <1>10, <2>1, <2>2 DEF r, ReadTurns
<1>11. CASE m.type = "closed"
  <2> DEFINE e == [r EXCEPT !.readEof = TRUE]
  <2>1. SetTunnel(c, [e EXCEPT !.finished = TRUE]) BY <1>7, <1>11 DEF AtEof
  <2>2. e \in Tunnels BY <1>8, TunnelField
  <2>3. [e EXCEPT !.finished = TRUE] \in Tunnels
    <3> HIDE DEF e
    <3> QED BY <2>2, TunnelField
  <2> QED BY <1>1, <1>2, <1>3, <1>4, <1>11, <2>1, <2>3 DEF r, ReadTurns
<1> QED BY <1>5, <1>9, <1>10, <1>11

LEMMA UserReadsTyped == ASSUME Typed, NEW c \in Conns, UserReads(c) PROVE Typed'
<1>1. PICK t \in Tunnels : SetTunnel(c, t) BY ReadBecomes DEF ReadTurns
<1>2. UNCHANGED <<downlink, relayElse>> BY DEF UserReads
<1> QED BY <1>1, <1>2, SetTunnelTyped, TunnelAlone

LEMMA UserConsumesTyped == ASSUME Typed, NEW c \in Conns, UserConsumes(c) PROVE Typed'
<1> DEFINE t == [tunnel[c] EXCEPT !.pending = 0]
           m == Msg("ack", c, 0, tunnel[c].pending)
<1>1. tunnel[c] \in Tunnels BY DEF Typed, RelayTyped
<1>2. t \in Tunnels BY <1>1, TunnelField
<1>3. m \in LateMsgs
  <2>1. tunnel[c].pending \in Nat BY <1>1, TunnelField
  <2> QED BY <2>1 DEF Msg, LateMsgs, Message
<1>4. SetTunnel(c, t) /\ SendNonblocking(c, m) /\ UNCHANGED relayElse BY DEF UserConsumes
<1> HIDE DEF t, m
<1>5. bulk' \in Seq(DownMsgs) /\ late' \in Seq(LateMsgs) BY <1>3, <1>4, SendTyped
<1> QED BY <1>2, <1>4, <1>5, SetTunnelTyped, TunnelTyped

LEMMA SweepRemovesTyped == ASSUME Typed, NEW c \in Conns, SweepRemoves(c) PROVE Typed'
<1>1. tunnel' \in [Conns -> Tunnels]
  <2>1. tunnel' = [tunnel EXCEPT ![c] = Failed(c)] \/ tunnel' = tunnel
    <3>1. tunnel \in [Conns -> Tunnels] BY DEF Typed, RelayTyped
    <3> QED BY <3>1 DEF SweepRemoves
  <2>2. CASE tunnel' = [tunnel EXCEPT ![c] = Failed(c)] BY <2>2, FailedTyped, TunnelSet
  <2>3. CASE tunnel' = tunnel BY <2>3 DEF Typed, RelayTyped
  <2> QED BY <2>1, <2>2, <2>3
<1>2. sweep' \in Sweeps /\ channel' \in Nat BY DEF Typed, RelayTyped, SweepRemoves, Sweeps
<1>3. RelayTyped' BY <1>1, <1>2 DEF RelayTyped
<1>4. UNCHANGED <<bulk, late, lost, agentVars, batch, failures, blamed>>
  BY DEF SweepRemoves, downlink, history
<1>5. agent' \in [session : Nat \ {0}, up : BOOLEAN, linked : BOOLEAN, untold : SUBSET Conns]
  BY DEF Typed, AgentTyped, SweepRemoves
<1>6. AgentTyped'
  <2>1. conn' = conn /\ closed' = closed /\ uplink' = uplink BY <1>4 DEF agentVars
  <2>2. Records' = Records BY <2>1 DEF Records
  <2> QED BY <1>5, <2>1, <2>2 DEF Typed, AgentTyped
<1>7. QueuesTyped' BY <1>4, QueuesSame
<1> QED BY <1>3, <1>4, <1>6, <1>7 DEF Typed

LEMMA UncountTyped == ASSUME Typed, Uncount \/ SweepEnds PROVE Typed'
<1>1. UNCHANGED <<tunnel, channel>> /\ sweep' \in {sweep, None} /\ UNCHANGED <<downlink, relayElse>>
  BY DEF Uncount, SweepEnds, relayElse
<1>2. RelayTyped' BY <1>1 DEF Typed, RelayTyped
<1> QED BY <1>1, <1>2, TunnelAlone

LEMMA LateTyped == ASSUME Typed, LateSend \/ LateTimesOut PROVE Typed'
<1>1. late \in Seq(LateMsgs) /\ bulk \in Seq(DownMsgs) /\ lost \in Seq(LateMsgs) BY DEF Typed, QueuesTyped
<1>2. PICK i \in 1 .. Len(late) :
        /\ late' = RemoveAt(late, i)
        /\ \/ bulk' = Append(bulk, late[i]) /\ lost' = lost
           \/ bulk' = bulk /\ lost' = Append(lost, late[i])
  BY DEF LateSend, LateTimesOut, history
<1>3. UNCHANGED <<tunnel, channel, sweep, agentVars, agent, post, posting, failures, blamed>>
  BY DEF LateSend, LateTimesOut, relayVars, batch, history
<1>4. RelayTyped' /\ AgentTyped' BY <1>3, RelaySame, AgentSame
<1>5. late[i] \in LateMsgs /\ late[i] \in DownMsgs BY <1>1, Kinds
<1>6. late' \in Seq(LateMsgs)
  <2>1. Without(LateMsgs, late, i) BY <1>1, WithoutOne
  <2> QED BY <1>2, <2>1 DEF Without
<1>7. bulk' \in Seq(DownMsgs) /\ lost' \in Seq(LateMsgs)
  <2>1. CASE bulk' = Append(bulk, late[i]) /\ lost' = lost BY <1>1, <1>5, <2>1
  <2>2. CASE bulk' = bulk /\ lost' = Append(lost, late[i]) BY <1>1, <1>5, <2>2
  <2> QED BY <1>2, <2>1, <2>2
<1>8. post' \in Seq(UpMsgs) /\ posting' \in BOOLEAN /\ failures' \in Nat /\ blamed' \subseteq Reasons
  BY <1>3 DEF Typed, QueuesTyped
<1> QED BY <1>4, <1>6, <1>7, <1>8 DEF Typed, QueuesTyped

\* What the relay makes of a message, one kind after the other
Became(s, m, t) ==
    \/ /\ m.type = "opened"
       /\ t = [s EXCEPT !.answer = IF s.answer = None THEN "opened" ELSE s.answer]
    \/ /\ m.type = "data"
       /\ t = [[s EXCEPT !.in = Append(s.in, m)] EXCEPT !.readSeq = s.readSeq + 1]
    \/ /\ m.type = "ack"
       /\ t = [s EXCEPT !.unacked = Minus(s.unacked, m.bytes)]
    \/ /\ m.type = "eof"
       /\ t = [s EXCEPT !.in = Append(s.in, m)]
    \/ /\ m.type = "closed"
       /\ t = [[s EXCEPT !.in = Append(s.in, m)] EXCEPT !.over = IF s.over = None THEN "closed" ELSE s.over]
    \/ /\ m.type = "error"
       /\ t = [[[[s EXCEPT !.over = "failed"] EXCEPT !.in = <<>>] EXCEPT !.pending = 0]
                  EXCEPT !.answer = IF s.answer = None THEN "error" ELSE s.answer]

Routes(c, m) == \E t \in Tunnels : SetTunnel(c, t) /\ Became(tunnel[c], m, t)

LEMMA RoutedBecomes ==
    ASSUME NEW s \in Tunnels, NEW m \in UpMsgs
    PROVE  Routed(s, m) \in Tunnels /\ Became(s, m, Routed(s, m))
<1>1. /\ s.in \in Seq(ReadMsgs) /\ s.readSeq + 1 \in Nat /\ s.unacked \in Nat
      /\ s.answer \in {None, "opened", "error"} /\ s.over \in {None, "closed", "failed"}
  <2>1. s.readSeq \in Nat /\ s.in \in Seq(ReadMsgs) /\ s.unacked \in Nat BY TunnelField
  <2>2. s.answer \in {None, "opened", "error"} /\ s.over \in {None, "closed", "failed"} BY TunnelField
  <2>3. s.readSeq + 1 \in Nat BY <2>1
  <2> QED BY <2>1, <2>2, <2>3
<1>2. m.type \in {"opened", "data", "ack", "eof", "closed", "error"} /\ m.bytes \in Nat
  BY DEF UpMsgs, Message
<1>3. CASE m.type = "opened"
  <2> DEFINE t == [s EXCEPT !.answer = IF s.answer = None THEN "opened" ELSE s.answer]
  <2>1. Routed(s, m) = t BY <1>3 DEF Routed, Tunnels
  <2>2. t \in Tunnels BY <1>1, TunnelField
  <2> QED BY <1>3, <2>1, <2>2 DEF Became
<1>4. CASE m.type = "data"
  <2> DEFINE q == [s EXCEPT !.in = Append(s.in, m)]
             t == [q EXCEPT !.readSeq = s.readSeq + 1]
  <2>1. Routed(s, m) = t BY <1>4 DEF Routed, Queued, Tunnels
  <2>2. Append(s.in, m) \in Seq(ReadMsgs)
    <3>1. m \in ReadMsgs BY <1>4, Kinds
    <3> QED BY <1>1, <3>1
  <2>3. q \in Tunnels BY <2>2, TunnelField
  <2>4. t \in Tunnels
    <3> HIDE DEF q
    <3> QED BY <1>1, <2>3, TunnelField
  <2> QED BY <1>4, <2>1, <2>4 DEF Became
<1>5. CASE m.type = "ack"
  <2> DEFINE t == [s EXCEPT !.unacked = Minus(s.unacked, m.bytes)]
  <2>1. Routed(s, m) = t BY <1>5 DEF Routed, Confirmed, Tunnels
  <2>2. Minus(s.unacked, m.bytes) \in Nat BY <1>1, <1>2, MinusTyped
  <2>3. t \in Tunnels BY <2>2, TunnelField
  <2> QED BY <1>5, <2>1, <2>3 DEF Became
<1>6. CASE m.type = "eof"
  <2> DEFINE t == [s EXCEPT !.in = Append(s.in, m)]
  <2>1. Routed(s, m) = t BY <1>6 DEF Routed, Queued, Tunnels
  <2>2. Append(s.in, m) \in Seq(ReadMsgs)
    <3>1. m \in ReadMsgs BY <1>6, Kinds
    <3> QED BY <1>1, <3>1
  <2>3. t \in Tunnels BY <2>2, TunnelField
  <2> QED BY <1>6, <2>1, <2>3 DEF Became
<1>7. CASE m.type = "closed"
  <2> DEFINE q == [s EXCEPT !.in = Append(s.in, m)]
             o == IF s.over = None THEN "closed" ELSE s.over
             t == [q EXCEPT !.over = o]
  <2>1. Routed(s, m) = t BY <1>7 DEF Routed, Queued, Tunnels
  <2>2. Append(s.in, m) \in Seq(ReadMsgs)
    <3>1. m \in ReadMsgs BY <1>7, Kinds
    <3> QED BY <1>1, <3>1
  <2>3. q \in Tunnels BY <2>2, TunnelField
  <2>4. o \in {None, "closed", "failed"} BY <1>1
  <2>5. t \in Tunnels
    <3> HIDE DEF q, o
    <3> QED BY <2>3, <2>4, TunnelField
  <2> QED BY <1>7, <2>1, <2>5 DEF Became
<1>8. CASE m.type = "error"
  <2> DEFINE a == IF s.answer = None THEN "error" ELSE s.answer
             t1 == [s EXCEPT !.over = "failed"]
             t2 == [t1 EXCEPT !.in = <<>>]
             t3 == [t2 EXCEPT !.pending = 0]
             t == [t3 EXCEPT !.answer = a]
  <2>1. Routed(s, m) = t BY <1>8 DEF Routed, Tunnels
  <2>2. a \in {None, "opened", "error"} /\ <<>> \in Seq(ReadMsgs) /\ 0 \in Nat BY <1>1
  <2>3. t1 \in Tunnels BY TunnelField
  <2>4. t2 \in Tunnels BY <2>2, <2>3, TunnelField
  <2>5. t3 \in Tunnels BY <2>2, <2>4, TunnelField
  <2>6. t \in Tunnels
    <3> HIDE DEF a, t3
    <3> QED BY <2>2, <2>5, TunnelField
  <2> QED BY <1>8, <2>1, <2>6 DEF Became
<1> QED BY <1>2, <1>3, <1>4, <1>5, <1>6, <1>7, <1>8

\* The three ways of route_agent_message
LEMMA RouteCases ==
    ASSUME Typed, Route, NEW m, m = Head(post), NEW c, c = m.conn
    PROVE  /\ post # <<>> /\ m \in UpMsgs /\ c \in Conns /\ post' = Tail(post) /\ post' \in Seq(UpMsgs)
           /\ tunnel[c] \in Tunnels
           /\ UNCHANGED <<agentVars, posting, agent, lost, failures, scene>>
           /\ \/ ~tunnel[c].listed /\ UNCHANGED <<relayVars, downlink, blamed>>
              \/ /\ tunnel[c].listed /\ ~(m.type = "data" /\ Violates(tunnel[c], m))
                 /\ Routes(c, m)
                 /\ UNCHANGED <<downlink, blamed>>
              \/ /\ tunnel[c].listed /\ m.type = "data" /\ Violates(tunnel[c], m)
                 /\ TakeOut(c, Failed(c)) /\ SendNonblocking(c, Ctrl("close", c))
                 /\ blamed' = blamed \cup Charges(tunnel[c], m)
<1>1. post \in Seq(UpMsgs) /\ post # <<>> /\ post' = Tail(post) BY DEF Typed, QueuesTyped, Route
<1>2. m \in UpMsgs /\ post' \in Seq(UpMsgs) BY <1>1, TailLacks
<1>3. c \in Conns BY <1>2, Kinds
<1>4. tunnel[c] \in Tunnels BY <1>3 DEF Typed, RelayTyped
<1>5. UNCHANGED <<agentVars, posting, agent, lost, failures, scene>> BY DEF Route
<1>6. \/ ~tunnel[c].listed /\ UNCHANGED <<relayVars, downlink, blamed>>
      \/ /\ tunnel[c].listed /\ ~(m.type = "data" /\ Violates(tunnel[c], m))
         /\ SetTunnel(c, Routed(tunnel[c], m))
         /\ UNCHANGED <<downlink, blamed>>
      \/ /\ tunnel[c].listed /\ m.type = "data" /\ Violates(tunnel[c], m)
         /\ TakeOut(c, Failed(c)) /\ SendNonblocking(c, Ctrl("close", c))
         /\ blamed' = blamed \cup Charges(tunnel[c], m)
  BY DEF Route
<1>7. Routed(tunnel[c], m) \in Tunnels /\ Became(tunnel[c], m, Routed(tunnel[c], m)) BY <1>2, <1>4, RoutedBecomes
<1> QED BY <1>1, <1>2, <1>3, <1>4, <1>5, <1>6, <1>7 DEF Routes

LEMMA RouteTyped == ASSUME Typed, Route PROVE Typed'
<1>1. PICK m, c : m = Head(post) /\ c = m.conn OBVIOUS
<1>2. c \in Conns /\ post' \in Seq(UpMsgs) BY <1>1, RouteCases
<1>3. UNCHANGED <<agentVars, posting, agent, lost, failures>> BY DEF Route
<1>4. AgentTyped' BY <1>3, AgentSame
<1>5. posting' \in BOOLEAN /\ lost' \in Seq(LateMsgs) /\ failures' \in Nat BY <1>3 DEF Typed, QueuesTyped
<1>6. RelayTyped' /\ bulk' \in Seq(DownMsgs) /\ late' \in Seq(LateMsgs) /\ blamed' \subseteq Reasons
  <2>1. CASE UNCHANGED <<relayVars, downlink, blamed>>
    <3>1. UNCHANGED <<tunnel, channel, sweep, bulk, late, blamed>> BY <2>1 DEF relayVars, downlink
    <3> QED BY <3>1, RelaySame DEF Typed, QueuesTyped
  <2>2. CASE (\E t \in Tunnels : SetTunnel(c, t)) /\ UNCHANGED <<downlink, blamed>>
    <3>1. UNCHANGED <<bulk, late, blamed>> BY <2>2 DEF downlink
    <3> QED BY <1>2, <2>2, <3>1, SetTunnelTyped DEF Typed, QueuesTyped
  <2>3. CASE TakeOut(c, Failed(c)) /\ SendNonblocking(c, Ctrl("close", c)) /\ blamed' = blamed \cup Charges(tunnel[c], m)
    <3>1. Ctrl("close", c) \in LateMsgs BY <1>2, CtrlTyped
    <3>2. bulk' \in Seq(DownMsgs) /\ late' \in Seq(LateMsgs) BY <2>3, <3>1, SendTyped
    <3>3. Failed(c) \in Tunnels BY <1>2, FailedTyped
    <3>4. RelayTyped' BY <1>2, <2>3, <3>3, SetTunnelTyped
    <3>5. blamed' \subseteq Reasons BY <2>3 DEF Charges, Reasons, Typed
    <3> QED BY <3>2, <3>4, <3>5
  <2>4. Routes(c, m) => \E t \in Tunnels : SetTunnel(c, t) BY DEF Routes
  <2> QED BY <1>1, <2>1, <2>2, <2>3, <2>4, RouteCases
<1> QED BY <1>2, <1>4, <1>5, <1>6 DEF Typed, QueuesTyped

\* A step of the connection c that leaves the relay and the downlink alone
LEMMA ConnTyped ==
    ASSUME Typed, NEW c \in Conns, NEW r \in Ends, SetConn(c, r), uplink' \in Seq(UpMsgs),
           c \in Records, UNCHANGED <<relayVars, downlink, closed, batch, agent, history>>
    PROVE  Typed'
<1>1. conn' = [conn EXCEPT ![c] = r] BY DEF SetConn
<1>2. conn' \in [Conns -> Ends] /\ \A d \in Conns \ {c} : conn'[d] = conn[d] BY <1>1, ConnSet
<1>3. UNCHANGED <<tunnel, channel, sweep, closed, agent, bulk, late, lost, batch, failures, blamed>>
  BY DEF relayVars, downlink, history
<1>4. RelayTyped' /\ QueuesTyped' BY <1>3, RelaySame, QueuesSame
<1>5. failures' \in Nat /\ blamed' \subseteq Reasons BY <1>3 DEF Typed
<1>6. Records' \subseteq Records BY <1>2 DEF Records
<1>7. Records' \cap closed' = {} BY <1>3, <1>6 DEF Typed, AgentTyped
<1>8. AgentTyped' BY <1>2, <1>3, <1>7 DEF Typed, AgentTyped
<1> QED BY <1>4, <1>5, <1>8 DEF Typed

\* What a connection's tasks do: one step of the record, and perhaps a message
Talks(c, r, m) ==
    /\ SetConn(c, r) /\ UNCHANGED <<relayVars, downlink, closed, batch, agent, history>>
    /\ uplink' \in {uplink, Append(uplink, m)}

LEMMA SendsTalks ==
    ASSUME Typed, NEW c \in Records, NEW r, NEW m, m.conn = c, Sends(c, m, r)
    PROVE  Talks(c, r, m) /\ uplink' = Append(uplink, m)
<1>1. c \notin closed BY DEF Typed, AgentTyped
<1>2. SetConn(c, r) /\ UNCHANGED <<relayVars, downlink, closed, batch, agent, history>> /\ Emit(m)
  BY DEF Sends, connElse, agentElse, downlink
<1> QED BY <1>1, <1>2 DEF Emit, Talks

LEMMA SilentTalks ==
    ASSUME NEW c, NEW r, NEW m, Silent(c, r) PROVE Talks(c, r, m) /\ uplink' = uplink
BY DEF Silent, Talks, connElse, agentElse, downlink

LEMMA TalksTyped ==
    ASSUME Typed, NEW c \in Records, NEW r \in Ends, NEW m \in UpMsgs, Talks(c, r, m)
    PROVE  Typed'
<1>1. uplink \in Seq(UpMsgs) BY DEF Typed, AgentTyped
<1>2. uplink' \in Seq(UpMsgs) BY <1>1 DEF Talks
<1>3. c \in Conns BY DEF Records
<1> QED BY <1>2, <1>3, ConnTyped DEF Talks

\* The steps of the record, one kind after the other; the message that goes with
\* each.  SetPc is for those that change nothing else.
SetPc(c, m, r) ==
    \/ /\ conn[c].pc = "connecting" /\ m = Ctrl("opened", c) /\ uplink' = Append(uplink, m)
       /\ r = [conn[c] EXCEPT !.pc = "running"]
    \/ /\ conn[c].pc \in {"connecting", "running"} /\ uplink' = uplink
       /\ r = [conn[c] EXCEPT !.pc = "failing"]
    \/ /\ conn[c].pc = "running" /\ conn[c].readDone /\ conn[c].writeDone /\ uplink' = uplink
       /\ r = [conn[c] EXCEPT !.pc = "closing"]
    \/ /\ conn[c].pc = "closing" /\ m = Ctrl("closed", c) /\ uplink' = Append(uplink, m)
       /\ r = [conn[c] EXCEPT !.pc = "reported"]
    \/ /\ conn[c].pc = "failing" /\ m = Ctrl("error", c) /\ uplink' = Append(uplink, m)
       /\ r = [conn[c] EXCEPT !.pc = "reported"]
    \/ /\ conn[c].pc = "reported" /\ uplink' = uplink
       /\ r = Dropped(c, "gone")

Reads(c, m, r) ==
    /\ conn[c].pc = "running" /\ ~conn[c].readDone /\ uplink' = Append(uplink, m)
    /\ \/ \E n \in Nat \ {0} :
            /\ conn[c].unacked + n <= Window
            /\ m = Msg("data", c, conn[c].outSeq, n)
            /\ r = [[conn[c] EXCEPT !.outSeq = conn[c].outSeq + 1] EXCEPT !.unacked = conn[c].unacked + n]
       \/ m = Ctrl("eof", c) /\ r = [conn[c] EXCEPT !.readDone = TRUE]

Writes(c, m, r) ==
    /\ conn[c].pc = "running"
    /\ \/ /\ conn[c].in # <<>> /\ ~conn[c].writeDone /\ conn[c].writing = 0 /\ uplink' = uplink
          /\ Head(conn[c].in).type = "eof"
          /\ r = [[conn[c] EXCEPT !.in = <<>>] EXCEPT !.writeDone = TRUE]
       \/ /\ conn[c].in # <<>> /\ ~conn[c].writeDone /\ conn[c].writing = 0 /\ uplink' = uplink
          /\ Head(conn[c].in).type = "data"
          /\ r = [[[conn[c] EXCEPT !.in = Tail(conn[c].in)] EXCEPT !.writing = Head(conn[c].in).bytes]
                     EXCEPT !.inSeq = conn[c].inSeq + 1]
       \/ /\ conn[c].in # <<>> /\ uplink' = uplink
          /\ r = [[conn[c] EXCEPT !.in = Tail(conn[c].in)] EXCEPT !.pc = "failing"]
       \/ /\ conn[c].writing > 0 /\ uplink' = Append(uplink, m)
          /\ m = Msg("ack", c, 0, conn[c].writing)
          /\ r = [conn[c] EXCEPT !.writing = 0]

ConnActs(c) ==
    \/ Connects(c) \/ ConnectFails(c) \/ TargetSends(c) \/ TargetEnds(c) \/ WriteTakes(c)
    \/ TargetTakes(c) \/ HalfFails(c) \/ BothDone(c) \/ TaskReports(c) \/ TaskEnds(c)

ConnDoes(c) ==
    \E r \in Ends, m \in UpMsgs :
        /\ c \in Records /\ Talks(c, r, m) /\ m.conn = c
        /\ SetPc(c, m, r) \/ Reads(c, m, r) \/ Writes(c, m, r)

LEMMA ConnStep ==
    ASSUME Typed, NEW c \in Conns, ConnActs(c) PROVE ConnDoes(c)
<1> DEFINE s == conn[c]
<1>1. s \in Ends BY DEF Typed, AgentTyped
<1>2. /\ s.in \in Seq(WriteMsgs) /\ s.outSeq \in Nat /\ s.unacked \in Nat /\ s.writing \in Nat
      /\ s.inSeq \in Nat /\ s.readDone \in BOOLEAN /\ s.writeDone \in BOOLEAN
  BY <1>1, EndField
<1>3. \A t \in {"opened", "eof", "closed", "error"} : Ctrl(t, c) \in UpMsgs /\ Ctrl(t, c).conn = c
  BY CtrlTyped DEF Ctrl, Msg
<1>4. CASE Connects(c)
  <2> DEFINE r == [s EXCEPT !.pc = "running"]
             m == Ctrl("opened", c)
  <2>1. s.pc = "connecting" /\ Sends(c, m, r) BY <1>4 DEF Connects
  <2>2. c \in Records BY <2>1 DEF Records
  <2>3. r \in Ends BY <1>1, EndField
  <2>4. Talks(c, r, m) /\ uplink' = Append(uplink, m) BY <1>3, <2>1, <2>2, SendsTalks
  <2>5. SetPc(c, m, r) BY <2>1, <2>4 DEF SetPc
  <2> QED BY <1>3, <2>2, <2>3, <2>4, <2>5 DEF ConnDoes
<1>5. CASE ConnectFails(c) \/ HalfFails(c)
  <2> DEFINE r == [s EXCEPT !.pc = "failing"]
             m == Ctrl("error", c)
  <2>1. s.pc \in {"connecting", "running"} /\ Silent(c, r) BY <1>5 DEF ConnectFails, HalfFails
  <2>2. c \in Records BY <2>1 DEF Records
  <2>3. r \in Ends BY <1>1, EndField
  <2>4. Talks(c, r, m) /\ uplink' = uplink BY <2>1, SilentTalks
  <2>5. SetPc(c, m, r) BY <2>1, <2>4 DEF SetPc
  <2> QED BY <1>3, <2>2, <2>3, <2>4, <2>5 DEF ConnDoes
<1>6. CASE BothDone(c)
  <2> DEFINE r == [s EXCEPT !.pc = "closing"]
             m == Ctrl("error", c)
  <2>1. s.pc = "running" /\ s.readDone /\ s.writeDone /\ Silent(c, r) BY <1>6 DEF BothDone
  <2>2. c \in Records BY <2>1 DEF Records
  <2>3. r \in Ends BY <1>1, EndField
  <2>4. Talks(c, r, m) /\ uplink' = uplink BY <2>1, SilentTalks
  <2>5. SetPc(c, m, r) BY <2>1, <2>4 DEF SetPc
  <2> QED BY <1>3, <2>2, <2>3, <2>4, <2>5 DEF ConnDoes
<1>7. CASE TaskReports(c)
  <2> DEFINE r == [s EXCEPT !.pc = "reported"]
             m == Ctrl(IF s.pc = "closing" THEN "closed" ELSE "error", c)
  <2>1. s.pc \in {"closing", "failing"} /\ Sends(c, m, r) BY <1>7 DEF TaskReports
  <2>2. c \in Records BY <2>1 DEF Records
  <2>3. r \in Ends BY <1>1, EndField
  <2>4. m \in UpMsgs /\ m.conn = c BY <1>3
  <2>5. Talks(c, r, m) /\ uplink' = Append(uplink, m) BY <2>1, <2>2, <2>4, SendsTalks
  <2>6. SetPc(c, m, r) BY <2>1, <2>5 DEF SetPc
  <2> QED BY <2>2, <2>3, <2>4, <2>5, <2>6 DEF ConnDoes
<1>8. CASE TaskEnds(c)
  <2> DEFINE r == Dropped(c, "gone")
             m == Ctrl("error", c)
  <2>1. s.pc = "reported" /\ Silent(c, r) BY <1>8 DEF TaskEnds
  <2>2. c \in Records BY <2>1 DEF Records
  <2>3. r \in Ends BY DroppedTyped
  <2>4. Talks(c, r, m) /\ uplink' = uplink BY <2>1, SilentTalks
  <2>5. SetPc(c, m, r) BY <2>1, <2>4 DEF SetPc
  <2> QED BY <1>3, <2>2, <2>3, <2>4, <2>5 DEF ConnDoes
<1>9. CASE TargetSends(c)
  <2>1. s.pc = "running" /\ ~s.readDone /\ s.unacked < Window BY <1>9 DEF TargetSends, CanRead
  <2>2. PICK size \in Chunks :
            LET n == Fits(size, conn[c].unacked)
            IN Sends(c, Msg("data", c, conn[c].outSeq, n),
                    [conn[c] EXCEPT !.outSeq = @ + 1, !.unacked = @ + n])
    BY <1>9 DEF TargetSends
  <2> DEFINE n == Fits(size, s.unacked)
             m == Msg("data", c, s.outSeq, n)
             r1 == [s EXCEPT !.outSeq = s.outSeq + 1]
             r == [r1 EXCEPT !.unacked = s.unacked + n]
  <2>3. n \in Nat \ {0} /\ s.unacked + n <= Window BY <1>2, <2>1, FitsTyped
  <2>4. r = [s EXCEPT !.outSeq = @ + 1, !.unacked = @ + n] BY <1>1 DEF Ends
  <2>5. m \in UpMsgs /\ m.conn = c BY <1>2, <2>3 DEF Msg, UpMsgs, Message
  <2>6. Sends(c, m, r)
    <3> HIDE DEF r
    <3> QED BY <2>2, <2>4
  <2>7. r \in Ends
    <3> HIDE DEF n
    <3>1. s.outSeq + 1 \in Nat /\ s.unacked + n \in Nat BY <1>2, <2>3
    <3>2. r1 \in Ends BY <1>1, <3>1, EndField
    <3> HIDE DEF r1
    <3> QED BY <3>1, <3>2, EndField
  <2>8. c \in Records BY <2>1 DEF Records
  <2>9. Talks(c, r, m) /\ uplink' = Append(uplink, m) BY <2>5, <2>6, <2>8, SendsTalks
  <2>10. Reads(c, m, r)
    <3> HIDE DEF n
    <3>1. \E k \in Nat \ {0} :
            /\ conn[c].unacked + k <= Window
            /\ m = Msg("data", c, conn[c].outSeq, k)
            /\ r = [[conn[c] EXCEPT !.outSeq = conn[c].outSeq + 1] EXCEPT !.unacked = conn[c].unacked + k]
      BY <2>3
    <3> QED BY <2>1, <2>9, <3>1 DEF Reads
  <2> QED BY <2>5, <2>7, <2>8, <2>9, <2>10 DEF ConnDoes
<1>10. CASE TargetEnds(c)
  <2> DEFINE r == [s EXCEPT !.readDone = TRUE]
             m == Ctrl("eof", c)
  <2>1. s.pc = "running" /\ ~s.readDone /\ Sends(c, m, r) BY <1>10 DEF TargetEnds, CanRead
  <2>2. c \in Records BY <2>1 DEF Records
  <2>3. r \in Ends BY <1>1, EndField
  <2>4. Talks(c, r, m) /\ uplink' = Append(uplink, m) BY <1>3, <2>1, <2>2, SendsTalks
  <2>5. Reads(c, m, r) BY <2>1, <2>4 DEF Reads
  <2> QED BY <1>3, <2>2, <2>3, <2>4, <2>5 DEF ConnDoes
<1>11. CASE TargetTakes(c)
  <2> DEFINE r == [s EXCEPT !.writing = 0]
             m == Msg("ack", c, 0, s.writing)
  <2>1. s.pc = "running" /\ s.writing > 0 /\ Sends(c, m, r) BY <1>11 DEF TargetTakes
  <2>2. c \in Records BY <2>1 DEF Records
  <2>3. r \in Ends BY <1>1, EndField
  <2>4. m \in UpMsgs /\ m.conn = c BY <1>2 DEF Msg, UpMsgs, Message
  <2>5. Talks(c, r, m) /\ uplink' = Append(uplink, m) BY <2>1, <2>2, <2>4, SendsTalks
  <2>6. Writes(c, m, r) BY <2>1, <2>5 DEF Writes
  <2> QED BY <2>2, <2>3, <2>4, <2>5, <2>6 DEF ConnDoes
<1>12. CASE WriteTakes(c)
  <2> DEFINE h == Head(s.in)
             r1 == [s EXCEPT !.in = Tail(s.in)]
             r2 == [r1 EXCEPT !.writing = h.bytes]
             m == Ctrl("error", c)
  <2>1. s.pc = "running" /\ ~s.writeDone /\ s.writing = 0 /\ s.in # <<>> BY <1>12 DEF WriteTakes
  <2>2. c \in Records BY <2>1 DEF Records
  <2>3. h \in WriteMsgs /\ Tail(s.in) \in Seq(WriteMsgs) BY <1>2, <2>1, TailLacks
  <2>4. h.type \in {"data", "eof"} /\ h.bytes \in Nat BY <2>3 DEF WriteMsgs, Message
  <2>5. r1 = [conn[c] EXCEPT !.in = Tail(@)] /\ r1 \in Ends /\ r1.inSeq = s.inSeq
    <3>1. r1 \in Ends BY <1>1, <2>3, EndField
    <3>2. r1 = [conn[c] EXCEPT !.in = Tail(@)] /\ r1.inSeq = s.inSeq BY <1>1 DEF Ends
    <3> QED BY <3>1, <3>2
  <2>6. Silent(c, CASE h.type = "eof" -> [r1 EXCEPT !.writeDone = TRUE, !.in = <<>>]
                    [] h.type = "data" /\ h.seq = r1.inSeq
                           -> [r1 EXCEPT !.writing = h.bytes, !.inSeq = @ + 1]
                    [] OTHER -> [r1 EXCEPT !.pc = "failing"])
    <3> HIDE DEF r1
    <3> QED BY <1>12, <2>5 DEF WriteTakes
  <2>7. CASE h.type = "eof"
    <3> DEFINE q == [s EXCEPT !.in = <<>>]
               r == [q EXCEPT !.writeDone = TRUE]
    <3>1. Silent(c, [r1 EXCEPT !.writeDone = TRUE, !.in = <<>>])
      <4> HIDE DEF r1, h
      <4> QED BY <2>6, <2>7
    <3>2. r = [r1 EXCEPT !.writeDone = TRUE, !.in = <<>>] BY <1>1 DEF Ends
    <3>3. q \in Ends
      <4>1. <<>> \in Seq(WriteMsgs) OBVIOUS
      <4> QED BY <1>1, <4>1, EndField
    <3>4. r \in Ends
      <4> HIDE DEF q
      <4> QED BY <3>3, EndField
    <3>5. Talks(c, r, m) /\ uplink' = uplink
      <4> HIDE DEF r, r1
      <4> QED BY <3>1, <3>2, SilentTalks
    <3>6. Writes(c, m, r) BY <2>1, <2>7, <3>5 DEF Writes
    <3> QED BY <1>3, <2>2, <3>4, <3>5, <3>6 DEF ConnDoes
  <2>8. CASE h.type = "data" /\ h.seq = r1.inSeq
    <3> DEFINE r == [r2 EXCEPT !.inSeq = s.inSeq + 1]
    <3>1. Silent(c, [r1 EXCEPT !.writing = h.bytes, !.inSeq = @ + 1])
      <4> HIDE DEF r1, h
      <4> QED BY <2>6, <2>8
    <3>2. r = [r1 EXCEPT !.writing = h.bytes, !.inSeq = @ + 1] BY <1>1 DEF Ends
    <3>3. r2 \in Ends
      <4> HIDE DEF r1
      <4> QED BY <2>4, <2>5, EndField
    <3>4. r \in Ends
      <4>1. s.inSeq + 1 \in Nat BY <1>2
      <4> HIDE DEF r2
      <4> QED BY <3>3, <4>1, EndField
    <3>5. Talks(c, r, m) /\ uplink' = uplink
      <4> HIDE DEF r, r1
      <4> QED BY <3>1, <3>2, SilentTalks
    <3>6. Writes(c, m, r) BY <2>1, <2>8, <3>5 DEF Writes
    <3> QED BY <1>3, <2>2, <3>4, <3>5, <3>6 DEF ConnDoes
  <2>9. CASE h.type # "eof" /\ ~(h.type = "data" /\ h.seq = r1.inSeq)
    <3> DEFINE r == [r1 EXCEPT !.pc = "failing"]
    <3>1. Silent(c, r)
      <4> HIDE DEF r1, h
      <4> QED BY <2>6, <2>9
    <3>2. r \in Ends
      <4> HIDE DEF r1
      <4> QED BY <2>5, EndField
    <3>3. Talks(c, r, m) /\ uplink' = uplink BY <3>1, SilentTalks
    <3>4. Writes(c, m, r) BY <2>1, <3>3 DEF Writes
    <3> QED BY <1>3, <2>2, <3>2, <3>3, <3>4 DEF ConnDoes
  <2> QED BY <2>7, <2>8, <2>9
<1> QED BY <1>4, <1>5, <1>6, <1>7, <1>8, <1>9, <1>10, <1>11, <1>12 DEF ConnActs

LEMMA ConnDoesTyped == ASSUME Typed, NEW c \in Conns, ConnDoes(c) PROVE Typed'
BY TalksTyped DEF ConnDoes

\* What the agent's main loop makes of a message, one way after the other
Handled(m, c) ==
    \/ /\ m.type = "open"
       /\ conn' = [conn EXCEPT ![c] = [NoConn EXCEPT !.pc = "connecting"]]
       /\ closed' = closed \ {c} /\ uplink' = uplink
    \/ /\ m.type = "open"
       /\ UNCHANGED <<conn, closed>> /\ uplink' \in {uplink, Append(uplink, Ctrl("error", c))}
    \/ /\ m.type = "data" /\ ~(c \in Records /\ Receiving(c))
       /\ UNCHANGED <<conn, closed, uplink>>
    \/ /\ m.type \in {"data", "eof"} /\ c \in Records /\ Receiving(c)
       /\ conn' = [conn EXCEPT ![c] = [conn[c] EXCEPT !.in = Append(conn[c].in, m)]]
       /\ UNCHANGED <<closed, uplink>>
    \/ /\ m.type \in {"data", "eof"} /\ c \in Records
       /\ conn' = [conn EXCEPT ![c] = Dropped(c, "gone")]
       /\ closed' = closed /\ uplink' \in {uplink, Append(uplink, Ctrl("error", c))}
    \/ /\ m.type \in {"ack", "eof"} /\ c \notin Records
       /\ UNCHANGED <<conn, closed, uplink>>
    \/ /\ m.type = "ack" /\ c \in Records
       /\ conn' = [conn EXCEPT ![c] = [conn[c] EXCEPT !.unacked = Minus(conn[c].unacked, m.bytes)]]
       /\ UNCHANGED <<closed, uplink>>
    \/ /\ m.type = "close"
       /\ conn' = [conn EXCEPT ![c] = IF c \in Records THEN Dropped(c, "closed") ELSE conn[c]]
       /\ closed' = closed \cup {c} /\ uplink' = uplink

LEMMA EmitEither == ASSUME NEW m, Emit(m) PROVE uplink' \in {uplink, Append(uplink, m)}
BY DEF Emit

LEMMA ReceiveCases ==
    ASSUME Typed, AgentReceives, NEW m, m = Head(bulk), NEW c, c = m.conn
    PROVE  /\ agent.up /\ agent.linked /\ bulk # <<>> /\ m \in DownMsgs /\ c \in Conns /\ conn[c] \in Ends
           /\ bulk' = Tail(bulk) /\ bulk' \in Seq(DownMsgs)
           /\ UNCHANGED agentElse
           /\ Handled(m, c)
<1>1. bulk \in Seq(DownMsgs) /\ bulk # <<>> /\ bulk' = Tail(bulk) /\ agent.up /\ agent.linked
      /\ UNCHANGED agentElse
  BY DEF Typed, QueuesTyped, AgentReceives
<1>2. m \in DownMsgs /\ bulk' \in Seq(DownMsgs) BY <1>1, TailLacks
<1>3. c \in Conns BY <1>2, Kinds
<1>4. conn \in [Conns -> Ends] /\ conn[c] \in Ends BY <1>3 DEF Typed, AgentTyped
<1>5. [conn EXCEPT ![c] = conn[c]] = conn BY <1>4
<1>6. Handled(m, c)
  <2>1. CASE m.type = "open" /\ HandleOpen(c)
    <3>1. CASE Cardinality(Records) < AgentMax BY <2>1, <3>1 DEF HandleOpen, SetConn, Handled
    <3>2. CASE ~(Cardinality(Records) < AgentMax)
      <4>1. Emit(Ctrl("error", c)) /\ UNCHANGED <<conn, closed>> BY <2>1, <3>2 DEF HandleOpen
      <4> QED BY <2>1, <4>1, EmitEither DEF Handled
    <3> QED BY <3>1, <3>2
  <2>2. CASE m.type = "data" /\ HandleData(c, m)
    <3>2. CASE c \in Records /\ Receiving(c) /\ QueueRoom(c) /\ UNCHANGED <<uplink, closed>>
               /\ SetConn(c, [conn[c] EXCEPT !.in = Append(@, m)])
      <4>1. [conn[c] EXCEPT !.in = Append(@, m)] = [conn[c] EXCEPT !.in = Append(conn[c].in, m)]
        BY <1>4 DEF Ends
      <4> QED BY <2>2, <3>2, <4>1 DEF Handled, SetConn
    <3>3. CASE c \in Records /\ Receiving(c) /\ ~QueueRoom(c) /\ Fail(c) /\ UNCHANGED closed
      <4>1. Emit(Ctrl("error", c)) /\ conn' = [conn EXCEPT ![c] = Dropped(c, "gone")] BY <3>3 DEF Fail, SetConn
      <4> QED BY <2>2, <3>3, <4>1, EmitEither DEF Handled
    <3>4. CASE UNCHANGED <<conn, uplink, closed>> /\ (c \notin Records \/ ~Receiving(c))
      BY <2>2, <3>4 DEF Handled
    <3> QED BY <2>2, <3>2, <3>3, <3>4 DEF HandleData
  <2>3. CASE m.type = "ack" /\ HandleAck(c, m)
    <3>1. UNCHANGED <<closed, uplink>> BY <2>3 DEF HandleAck
    <3>2. CASE c \in Records
      <4>1. conn' = [conn EXCEPT ![c] = [conn[c] EXCEPT !.unacked = Confirmed(@, m)]] BY <2>3, <3>2 DEF HandleAck, SetConn
      <4>2. [conn[c] EXCEPT !.unacked = Confirmed(@, m)] = [conn[c] EXCEPT !.unacked = Minus(conn[c].unacked, m.bytes)]
        BY <1>4 DEF Ends, Confirmed
      <4> QED BY <2>3, <3>1, <3>2, <4>1, <4>2 DEF Handled
    <3>3. CASE c \notin Records
      <4>1. conn' = conn BY <1>5, <2>3, <3>3 DEF HandleAck, SetConn
      <4> QED BY <2>3, <3>1, <3>3, <4>1 DEF Handled
    <3> QED BY <3>2, <3>3
  <2>4. CASE m.type = "eof" /\ HandleEof(c, m)
    <3>1. UNCHANGED <<closed, uplink>> BY <2>4 DEF HandleEof
    <3>2. SetConn(c, CASE c \notin Records -> conn[c]
                       [] c \in Records /\ Receiving(c) /\ QueueRoom(c)
                          -> [conn[c] EXCEPT !.in = Append(@, m)]
                       [] OTHER -> Dropped(c, "gone"))
      BY <2>4 DEF HandleEof
    <3>3. CASE c \notin Records
      <4>1. conn' = conn BY <1>5, <3>2, <3>3 DEF SetConn
      <4> QED BY <2>4, <3>1, <3>3, <4>1 DEF Handled
    <3>4. CASE c \in Records /\ Receiving(c) /\ QueueRoom(c)
      <4>1. SetConn(c, [conn[c] EXCEPT !.in = Append(@, m)]) BY <3>2, <3>4
      <4>2. [conn[c] EXCEPT !.in = Append(@, m)] = [conn[c] EXCEPT !.in = Append(conn[c].in, m)]
        BY <1>4 DEF Ends
      <4> QED BY <2>4, <3>1, <3>4, <4>1, <4>2 DEF Handled, SetConn
    <3>5. CASE c \in Records /\ ~(Receiving(c) /\ QueueRoom(c))
      <4>1. SetConn(c, Dropped(c, "gone")) BY <3>2, <3>5
      <4> QED BY <2>4, <3>1, <3>5, <4>1 DEF Handled, SetConn
    <3> QED BY <3>3, <3>4, <3>5
  <2>5. CASE m.type = "close" /\ HandleClose(c)
    BY <2>5 DEF HandleClose, SetConn, Handled
  <2>6. \/ m.type = "open" /\ HandleOpen(c)
        \/ m.type = "data" /\ HandleData(c, m)
        \/ m.type = "ack" /\ HandleAck(c, m)
        \/ m.type = "eof" /\ HandleEof(c, m)
        \/ m.type = "close" /\ HandleClose(c)
    BY DEF AgentReceives
  <2> QED BY <2>1, <2>2, <2>3, <2>4, <2>5, <2>6
<1> QED BY <1>1, <1>2, <1>3, <1>4, <1>6

LEMMA ReceivesTyped == ASSUME Typed, AgentReceives PROVE Typed'
<1>1. PICK m, c : m = Head(bulk) /\ c = m.conn OBVIOUS
<1>2. m \in DownMsgs /\ c \in Conns /\ conn[c] \in Ends /\ bulk' \in Seq(DownMsgs) /\ UNCHANGED agentElse
      /\ Handled(m, c)
  BY <1>1, ReceiveCases
<1>3. UNCHANGED <<tunnel, channel, sweep, late, lost, post, posting, agent, failures, blamed>>
  BY <1>2 DEF agentElse, relayVars, batch, history
<1>4. RelayTyped' BY <1>3, RelaySame
<1>5. QueuesTyped' BY <1>2, <1>3 DEF Typed, QueuesTyped
<1>6. failures' \in Nat /\ blamed' \subseteq Reasons BY <1>3 DEF Typed
<1>7. conn \in [Conns -> Ends] /\ closed \in SUBSET Conns /\ uplink \in Seq(UpMsgs) /\ Records \cap closed = {}
  BY DEF Typed, AgentTyped
<1>8. Ctrl("error", c) \in UpMsgs BY <1>2, CtrlTyped
<1>9. uplink' \in Seq(UpMsgs)
  <2>1. Append(uplink, Ctrl("error", c)) \in Seq(UpMsgs) BY <1>7, <1>8
  <2>2. uplink' \in {uplink, Append(uplink, Ctrl("error", c))} BY <1>2 DEF Handled
  <2> QED BY <1>7, <2>1, <2>2
<1>10. closed' \in SUBSET Conns BY <1>2, <1>7 DEF Handled
<1>11. PICK r \in Ends :
          /\ conn' = [conn EXCEPT ![c] = r]
          /\ (r.pc \in {"connecting", "running", "closing", "failing", "reported"} => c \notin closed')
  <2>1. CASE m.type = "open" /\ conn' = [conn EXCEPT ![c] = [NoConn EXCEPT !.pc = "connecting"]] /\ closed' = closed \ {c}
    <3>1. NoConn \in Ends BY DEF NoConn, Ends
    <3>2. [NoConn EXCEPT !.pc = "connecting"] \in Ends BY <3>1, EndField
    <3> QED BY <2>1, <3>2
  <2>2. CASE UNCHANGED <<conn, closed>>
    <3>1. conn' = [conn EXCEPT ![c] = conn[c]] BY <1>7, <2>2
    <3>2. conn[c].pc \in {"connecting", "running", "closing", "failing", "reported"} => c \in Records
      BY <1>2 DEF Records
    <3> QED BY <1>2, <1>7, <2>2, <3>1, <3>2
  <2>3. CASE m.type \in {"data", "eof"} /\ c \in Records /\ closed' = closed
             /\ conn' = [conn EXCEPT ![c] = [conn[c] EXCEPT !.in = Append(conn[c].in, m)]]
    <3>1. m \in WriteMsgs BY <1>2, <2>3, Kinds
    <3>2. conn[c].in \in Seq(WriteMsgs) BY <1>2, EndField
    <3>3. Append(conn[c].in, m) \in Seq(WriteMsgs) BY <3>1, <3>2
    <3>4. [conn[c] EXCEPT !.in = Append(conn[c].in, m)] \in Ends BY <1>2, <3>3, EndField
    <3> QED BY <1>7, <2>3, <3>4
  <2>4. CASE conn' = [conn EXCEPT ![c] = Dropped(c, "gone")]
    <3>1. Dropped(c, "gone") \in Ends BY <1>2, DroppedTyped
    <3>2. Dropped(c, "gone").pc = "gone" BY DEF Dropped, NoConn
    <3> QED BY <2>4, <3>1, <3>2
  <2>5. CASE c \in Records /\ closed' = closed
             /\ conn' = [conn EXCEPT ![c] = [conn[c] EXCEPT !.unacked = Minus(conn[c].unacked, m.bytes)]]
    <3>1. conn[c].unacked \in Nat /\ m.bytes \in Nat BY <1>2, EndField, Kinds
    <3>2. Minus(conn[c].unacked, m.bytes) \in Nat BY <3>1, MinusTyped
    <3>3. [conn[c] EXCEPT !.unacked = Minus(conn[c].unacked, m.bytes)] \in Ends BY <1>2, <3>2, EndField
    <3> QED BY <1>7, <2>5, <3>3
  <2>6. CASE conn' = [conn EXCEPT ![c] = IF c \in Records THEN Dropped(c, "closed") ELSE conn[c]]
    <3>1. CASE c \in Records
      <4>1. Dropped(c, "closed") \in Ends BY <1>2, DroppedTyped
      <4>2. Dropped(c, "closed").pc = "closed" BY DEF Dropped, NoConn
      <4> QED BY <2>6, <3>1, <4>1, <4>2
    <3>2. CASE c \notin Records
      <4>1. conn[c].pc \notin {"connecting", "running", "closing", "failing", "reported"}
        BY <1>2, <3>2 DEF Records
      <4> QED BY <1>2, <2>6, <3>2, <4>1
    <3> QED BY <3>1, <3>2
  <2> QED BY <1>2, <2>1, <2>2, <2>3, <2>4, <2>5, <2>6 DEF Handled
<1>12. conn' \in [Conns -> Ends] /\ conn'[c] = r /\ \A d \in Conns \ {c} : conn'[d] = conn[d] BY <1>2, <1>11, ConnSet
<1>13. Records' \cap closed' = {}
  <2>1. \A d \in Conns \ {c} : d \in Records' => d \in Records BY <1>12 DEF Records
  <2>2. c \in Records' => c \notin closed' BY <1>11, <1>12 DEF Records
  <2>3. \A d \in Conns \ {c} : d \in closed' => d \in closed BY <1>2 DEF Handled
  <2>4. Records' \subseteq Conns BY DEF Records
  <2> QED BY <1>7, <2>1, <2>2, <2>3, <2>4
<1>14. AgentTyped' BY <1>3, <1>9, <1>10, <1>12, <1>13 DEF Typed, AgentTyped
<1> QED BY <1>4, <1>5, <1>6, <1>14 DEF Typed

\* The batch is what is open of the first messages; the others stay.
Batches(n) == post' = Open(SubSeq(uplink, 1, n)) /\ uplink' = SubSeq(uplink, n + 1, Len(uplink))

LEMMA TakesTyped ==
    ASSUME Typed, UplinkTakes
    PROVE  /\ Typed'
           /\ \E n \in 0 .. Len(uplink) : Batches(n)
           /\ ToSet(uplink') \cup ToSet(post') \subseteq ToSet(uplink)
<1> DEFINE n == Least(Len(uplink), BatchMsgs)
<1>1. uplink \in Seq(UpMsgs) /\ Len(uplink) \in Nat /\ BatchMsgs \in Nat BY TunnelAssumption DEF Typed, AgentTyped
<1>2. n \in 0 .. Len(uplink)
  <2>1. n \in Nat /\ n <= Len(uplink) BY <1>1, LeastTyped
  <2> QED BY <1>1, <2>1
<1>3. post' = Open(SubSeq(uplink, 1, n)) /\ uplink' = SubSeq(uplink, n + 1, Len(uplink))
      /\ UNCHANGED <<relayVars, downlink, conn, closed, agent, history>> /\ posting' \in BOOLEAN
  BY DEF UplinkTakes
<1> HIDE DEF n
<1>4. SubSeq(uplink, 1, n) \in Seq(UpMsgs) /\ uplink' \in Seq(UpMsgs)
      /\ ToSet(uplink) = ToSet(SubSeq(uplink, 1, n)) \cup ToSet(uplink')
  BY <1>1, <1>2, <1>3, SplitAt
<1>5. post' \in Seq(UpMsgs) /\ ToSet(post') \subseteq ToSet(SubSeq(uplink, 1, n)) BY <1>3, <1>4, OpenTyped
<1>6. UNCHANGED <<tunnel, channel, sweep, bulk, late, lost, conn, closed, agent, failures, blamed>>
  BY <1>3 DEF relayVars, downlink, history
<1>7. RelayTyped' BY <1>6, RelaySame
<1>8. Records' = Records BY <1>6 DEF Records
<1>9. AgentTyped' BY <1>4, <1>6, <1>8 DEF Typed, AgentTyped
<1>10. QueuesTyped' BY <1>3, <1>5, <1>6 DEF Typed, QueuesTyped
<1>11. Typed' BY <1>6, <1>7, <1>9, <1>10 DEF Typed
<1>12. Batches(n) BY <1>3 DEF Batches
<1> QED BY <1>2, <1>4, <1>5, <1>11, <1>12

LEMMA PostSucceedsTyped == ASSUME Typed, PostSucceeds PROVE Typed'
<1>1. UNCHANGED <<tunnel, channel, sweep, bulk, late, lost, post, agentVars, agent, failures, blamed>> /\ posting' = FALSE
  BY DEF PostSucceeds, relayVars, downlink, history
<1>2. RelayTyped' /\ AgentTyped' BY <1>1, RelaySame, AgentSame
<1> QED BY <1>1, <1>2 DEF Typed, QueuesTyped

\* The connections of a session that ends, or whose POST has failed
LEMMA AllDropped ==
    ASSUME Typed, NEW how \in {"gone", "down"},
           conn' = [c \in Conns |-> IF c \in Records THEN Dropped(c, how) ELSE conn[c]]
    PROVE  /\ conn' \in [Conns -> Ends] /\ Records' = {}
           /\ \A c \in Conns : conn'[c] = IF c \in Records THEN Dropped(c, how) ELSE conn[c]
<1>1. \A c \in Conns : Dropped(c, how) \in Ends /\ Dropped(c, how).pc = how
  <2> SUFFICES ASSUME NEW c \in Conns PROVE Dropped(c, how) \in Ends /\ Dropped(c, how).pc = how OBVIOUS
  <2>1. Dropped(c, how).pc = how BY DEF Dropped, NoConn
  <2> QED BY <2>1, DroppedTyped
<1>2. conn \in [Conns -> Ends] BY DEF Typed, AgentTyped
<1>3. conn' \in [Conns -> Ends] BY <1>1, <1>2
<1>4. \A c \in Conns : conn'[c] = IF c \in Records THEN Dropped(c, how) ELSE conn[c] OBVIOUS
<1>5. ASSUME NEW c \in Conns, c \in Records' PROVE FALSE
  <2>1. conn'[c].pc \in {"connecting", "running", "closing", "failing", "reported"} BY <1>5 DEF Records
  <2>2. c \notin Records BY <1>1, <1>4, <2>1
  <2>3. conn'[c] = conn[c] BY <1>4, <2>2
  <2> QED BY <2>1, <2>2, <2>3 DEF Records
<1>6. Records' \subseteq Conns BY DEF Records
<1> QED BY <1>3, <1>4, <1>5, <1>6

LEMMA PostFailsTyped == ASSUME Typed, PostFails PROVE Typed'
<1>1. UNCHANGED <<tunnel, channel, sweep, bulk, late, lost, uplink, agent, blamed>>
      /\ post' = <<>> /\ posting' = FALSE /\ closed' = closed \cup Records /\ failures' = failures + 1
  BY DEF PostFails, relayVars, downlink, Tombstones
<1>2. conn' \in [Conns -> Ends] /\ Records' = {} BY AllDropped DEF PostFails, Aborted
<1>3. RelayTyped' BY <1>1, RelaySame
<1>4. AgentTyped'
  <2>1. Records \subseteq Conns BY DEF Records
  <2> QED BY <1>1, <1>2, <2>1 DEF Typed, AgentTyped
<1>5. QueuesTyped'
  <2>1. bulk' \in Seq(DownMsgs) /\ late' \in Seq(LateMsgs) /\ lost' \in Seq(LateMsgs) BY <1>1 DEF Typed, QueuesTyped
  <2>2. post' \in Seq(UpMsgs) BY <1>1
  <2>3. posting' \in BOOLEAN BY <1>1
  <2> QED BY <2>1, <2>2, <2>3 DEF QueuesTyped
<1>6. failures' \in Nat BY <1>1 DEF Typed
<1> QED BY <1>1, <1>3, <1>4, <1>5, <1>6 DEF Typed

LEMMA LoseDownlinkTyped == ASSUME Typed, LoseDownlink PROVE Typed'
<1>1. UNCHANGED <<tunnel, channel, sweep, lost, agentVars, batch, failures, blamed>>
      /\ bulk' = <<>> /\ late' = <<>> /\ agent' = [agent EXCEPT !.linked = FALSE]
  BY DEF LoseDownlink, relayVars, history
<1>2. RelayTyped' BY <1>1, RelaySame
<1>3. AgentTyped'
  <2>1. agent' \in [session : Nat \ {0}, up : BOOLEAN, linked : BOOLEAN, untold : SUBSET Conns] BY <1>1 DEF Typed, AgentTyped
  <2>2. conn' = conn /\ closed' = closed /\ uplink' = uplink BY <1>1 DEF agentVars
  <2>3. Records' = Records BY <2>2 DEF Records
  <2> QED BY <2>1, <2>2, <2>3 DEF Typed, AgentTyped
<1>4. QueuesTyped' BY <1>1 DEF Typed, QueuesTyped, batch
<1> QED BY <1>1, <1>2, <1>3, <1>4 DEF Typed

LEMMA SessionEndsTyped == ASSUME Typed, SessionEnds PROVE Typed'
<1>1. UNCHANGED <<tunnel, channel, sweep, lost, failures, blamed>>
      /\ bulk' = <<>> /\ late' = <<>> /\ uplink' = <<>> /\ post' = <<>> /\ posting' = FALSE /\ closed' = {}
      /\ agent' = [agent EXCEPT !.up = FALSE, !.linked = FALSE]
  BY DEF SessionEnds, relayVars, history
<1>2. RelayTyped' BY <1>1, RelaySame
<1>3. conn' \in [Conns -> Ends] /\ Records' = {} BY AllDropped DEF SessionEnds
<1>4. AgentTyped'
  <2>1. agent' \in [session : Nat \ {0}, up : BOOLEAN, linked : BOOLEAN, untold : SUBSET Conns] BY <1>1 DEF Typed, AgentTyped
  <2> QED BY <1>1, <1>3, <2>1 DEF AgentTyped
<1>5. QueuesTyped'
  <2>1. bulk' \in Seq(DownMsgs) /\ late' \in Seq(LateMsgs) /\ post' \in Seq(UpMsgs) BY <1>1
  <2>2. lost' \in Seq(LateMsgs) BY <1>1 DEF Typed, QueuesTyped
  <2>3. posting' \in BOOLEAN BY <1>1
  <2> QED BY <2>1, <2>2, <2>3 DEF QueuesTyped
<1> QED BY <1>1, <1>2, <1>4, <1>5 DEF Typed

LEMMA SessionBeginsTyped == ASSUME Typed, SessionBegins PROVE Typed'
<1>1. UNCHANGED <<tunnel, sweep, bulk, late, lost, agentVars, batch, failures, blamed>>
      /\ agent' = [agent EXCEPT !.session = @ + 1, !.up = TRUE, !.linked = TRUE] /\ channel' = agent'.session
  BY DEF SessionBegins, downlink, history
<1>2. agent.session \in Nat BY DEF Typed, AgentTyped
<1>3. agent' \in [session : Nat \ {0}, up : BOOLEAN, linked : BOOLEAN, untold : SUBSET Conns]
      /\ channel' = agent.session + 1
  <2> DEFINE n == agent.session + 1
  <2>1. agent' = [agent EXCEPT !.session = n, !.up = TRUE, !.linked = TRUE] BY <1>1
  <2>2. n \in Nat \ {0} BY <1>2
  <2>3. channel' = agent'.session BY <1>1
  <2>4. agent \in [session : Nat \ {0}, up : BOOLEAN, linked : BOOLEAN, untold : SUBSET Conns] BY DEF Typed, AgentTyped
  <2> HIDE DEF n
  <2>5. agent' \in [session : Nat \ {0}, up : BOOLEAN, linked : BOOLEAN, untold : SUBSET Conns] /\ agent'.session = n
    BY <2>1, <2>2, <2>4
  <2> QED BY <2>3, <2>5 DEF n
<1>4. RelayTyped'
  <2>1. channel' \in Nat BY <1>2, <1>3
  <2> QED BY <1>1, <2>1 DEF Typed, RelayTyped
<1>5. AgentTyped'
  <2>1. conn' = conn /\ closed' = closed /\ uplink' = uplink BY <1>1 DEF agentVars
  <2>2. Records' = Records BY <2>1 DEF Records
  <2> QED BY <1>3, <2>1, <2>2 DEF Typed, AgentTyped
<1>6. QueuesTyped' BY <1>1, QueuesSame
<1> QED BY <1>1, <1>4, <1>5, <1>6 DEF Typed

LEMMA StreamTyped ==
    ASSUME Typed, SessionRemoved \/ RemovalSweeps \/ (\E s \in streams : StreamDropped(s))
    PROVE  /\ Typed'
           /\ UNCHANGED <<tunnel, bulk, late, lost, agentVars, batch, agent, failures, blamed>>
           /\ channel' \in {channel, 0}
<1>1. /\ UNCHANGED <<tunnel, bulk, late, lost, agentVars, batch, agent, failures, blamed>>
      /\ channel' \in {channel, 0}
      /\ sweep' = sweep \/ (\E who \in {"cleanup", "removal"} : sweep' = SweepBy(who))
         \/ sweep' = [by |-> "removal", begun |-> FALSE, left |-> {}]
  BY DEF SessionRemoved, RemovalSweeps, StreamDropped, downlink, history
<1>2. Listed \in SUBSET Conns BY DEF Listed
<1>3. RelayTyped'
  <2>1. SweepBy("cleanup") \in Sweeps /\ SweepBy("removal") \in Sweeps BY <1>2 DEF Sweeps, SweepBy
  <2>2. [by |-> "removal", begun |-> FALSE, left |-> {}] \in Sweeps BY DEF Sweeps
  <2>3. sweep' \in Sweeps \cup {None} BY <1>1, <2>1, <2>2 DEF Typed, RelayTyped
  <2>4. channel' \in Nat BY <1>1 DEF Typed, RelayTyped
  <2> QED BY <1>1, <2>3, <2>4 DEF Typed, RelayTyped
<1>4. AgentTyped' /\ QueuesTyped' BY <1>1, AgentSame, QueuesSame
<1> QED BY <1>1, <1>3, <1>4 DEF Typed

\* Typed is inductive on its own.
LEMMA TypedStep == ASSUME Typed, [Next]_vars PROVE Typed'
<1>1. CASE UNCHANGED vars
  <2>1. UNCHANGED <<tunnel, channel, sweep, agentVars, agent, bulk, late, lost, batch, failures, blamed>>
    BY <1>1 DEF vars, relayVars, downlink, history
  <2>2. RelayTyped' /\ AgentTyped' /\ QueuesTyped' BY <2>1, RelaySame, AgentSame, QueuesSame
  <2> QED BY <2>1, <2>2 DEF Typed
<1>2. ASSUME NEW c \in Conns, RelayStep(c) PROVE Typed'
  BY <1>2, OpenCountsTyped, OpenInsertsTyped, OpenSendsTyped, OpenSucceedsTyped, DropTyped,
     OpenTimesOutTyped, WriterSendsTyped, SweepRemovesTyped DEF RelayStep, OpenFails
<1>3. ASSUME NEW c \in Conns, User(c) PROVE Typed'
  BY <1>3, OpenLooksTyped, OpenSendTimesOutTyped, UserWritesTyped, UserShutsDownTyped, UserReadsTyped,
     UserConsumesTyped, UserReadsErrorTyped, DropTyped DEF User, UserDrops
<1>4. ASSUME NEW c \in Conns, AgentStep(c) \/ Target(c) PROVE Typed'
  <2>1. ConnActs(c) BY <1>4 DEF ConnActs, AgentStep, Target
  <2> QED BY <2>1, ConnStep, ConnDoesTyped
<1>5. CASE LateSend \/ LateTimesOut BY <1>5, LateTyped
<1>6. CASE Uncount \/ SweepEnds BY <1>6, UncountTyped
<1>7. CASE Route BY <1>7, RouteTyped
<1>8. CASE AgentReceives BY <1>8, ReceivesTyped
<1>9. CASE UplinkTakes BY <1>9, TakesTyped
<1>10. CASE PostSucceeds BY <1>10, PostSucceedsTyped
<1>11. CASE SessionEnds BY <1>11, SessionEndsTyped
<1>12. CASE PostFails BY <1>12, PostFailsTyped
<1>13. CASE LoseDownlink BY <1>13, LoseDownlinkTyped
<1>14. CASE SessionBegins BY <1>14, SessionBeginsTyped
<1>15. CASE SessionRemoved \/ RemovalSweeps \/ \E s \in streams : StreamDropped(s) BY <1>15, StreamTyped
<1> QED BY <1>1, <1>2, <1>3, <1>4, <1>5, <1>6, <1>7, <1>8, <1>9, <1>10, <1>11, <1>12, <1>13, <1>14, <1>15
     DEF Next, Tasks

-----------------------------------------------------------------------------
(***************************************************************************)
(* The life of a tunnel.                                                    *)
(***************************************************************************)
\* What has been sent to the agent and not been received, or not in time
Pool == ToSet(bulk) \cup ToSet(late) \cup ToSet(lost)

\* A step adds to the downlink at most messages of c, and no request to open.
Adds(c) ==
    /\ bulk' = bulk \/ \E m \in DownMsgs : bulk' = Append(bulk, m) /\ m.type # "open" /\ m.conn = c
    /\ Pool \subseteq Pool' /\ \A m \in Pool' \ Pool : m.conn = c
    /\ ~agent.up => bulk' = bulk /\ (late = <<>> => late' = <<>>)

LEMMA DeliverAdds ==
    ASSUME Typed, NEW c \in Conns, NEW m \in DownMsgs, m.type # "open", m.conn = c,
           Deliver(c, m), late' = late, lost' = lost
    PROVE  Adds(c) /\ (Reaches(c) => m \in ToSet(bulk'))
<1>1. bulk \in Seq(DownMsgs) BY DEF Typed, QueuesTyped
<1>2. CASE Reaches(c)
  <2>1. bulk' = Append(bulk, m) /\ agent.up BY <1>2 DEF Deliver, Reaches
  <2>2. ToSet(bulk') = ToSet(bulk) \cup {m} BY <1>1, <2>1, AppendAdds
  <2>3. Pool' = Pool \cup {m} BY <2>2 DEF Pool
  <2> QED BY <2>1, <2>2, <2>3 DEF Adds
<1>3. CASE ~Reaches(c)
  <2>1. bulk' = bulk BY <1>3 DEF Deliver
  <2>2. Pool' = Pool BY <2>1 DEF Pool
  <2> QED BY <1>3, <2>1, <2>2 DEF Adds
<1> QED BY <1>2, <1>3

LEMMA SendAdds ==
    ASSUME Typed, NEW c \in Conns, NEW m \in LateMsgs, m.conn = c, SendNonblocking(c, m), lost' = lost
    PROVE  Adds(c) /\ (Reaches(c) => m \in ToSet(bulk') \cup ToSet(late'))
<1>1. m \in DownMsgs /\ m.type # "open" BY Kinds DEF LateMsgs, Message
<1>2. CASE Reaches(c) /\ ~BulkRoom
  <2>1. late' = Append(late, m) /\ bulk' = bulk /\ agent.up BY <1>2 DEF SendNonblocking, Reaches
  <2>2. late \in Seq(LateMsgs) BY DEF Typed, QueuesTyped
  <2>3. ToSet(late') = ToSet(late) \cup {m} BY <2>1, <2>2, AppendAdds
  <2>4. Pool' = Pool \cup {m} BY <2>1, <2>3 DEF Pool
  <2> QED BY <2>1, <2>3, <2>4 DEF Adds
<1>3. CASE ~(Reaches(c) /\ ~BulkRoom)
  <2>1. Deliver(c, m) /\ late' = late BY <1>3 DEF SendNonblocking
  <2> QED BY <1>1, <2>1, DeliverAdds
<1> QED BY <1>2, <1>3

LEMMA NothingAdds ==
    ASSUME NEW c \in Conns, bulk' = bulk, late' = late, lost' = lost PROVE Adds(c)
BY DEF Adds, Pool

\* The agent knows no less of its session, nor of what it is never told.
Spares ==
    /\ agent'.session = agent.session /\ agent'.up = agent.up /\ agent'.linked = agent.linked
    /\ agent.untold \subseteq agent'.untold

\* A step of the relay for the tunnel c
LEMMA RelayLife ==
    ASSUME Typed, Typed', Life, NEW c \in Conns,
           UNCHANGED <<conn, channel>>, agent' = agent \/ Spares, Adds(c),
           ToSet(uplink') \cup ToSet(post') \subseteq ToSet(uplink) \cup ToSet(post),
           ~agent.up => uplink' = <<>> /\ post' = <<>>,
           \A d \in Conns \ {c} : tunnel'[d] = tunnel[d],
           tunnel'[c].pc \in Early => tunnel[c].pc \in Early /\ Pool' = Pool,
           Sessions(c)', Finished(c)', Ending(c)', OutOf(c, tunnel'[c])
    PROVE  Life'
<1> Spares BY DEF Spares
<1>1. bulk \in Seq(DownMsgs) /\ late \in Seq(LateMsgs) BY DEF Typed, QueuesTyped
<1>2. \A d \in Conns : Asked(d)' <=> Asked(d)
  <2>1. CASE bulk' = bulk BY <2>1 DEF Asked
  <2>2. ASSUME NEW m \in DownMsgs, bulk' = Append(bulk, m), m.type # "open" PROVE \A d \in Conns : Asked(d)' <=> Asked(d)
    <3>1. ToSet(bulk') = ToSet(bulk) \cup {m} BY <1>1, <2>2, AppendAdds
    <3> QED BY <2>2, <3>1 DEF Asked, IsOpen
  <2> QED BY <2>1, <2>2 DEF Adds
<1>3. \A d \in Conns : (Lives(d)' <=> Lives(d)) /\ (Told(d) => Told(d)')
  <2> SUFFICES ASSUME NEW d \in Conns PROVE (Lives(d)' <=> Lives(d)) /\ (Told(d) => Told(d)') OBVIOUS
  <2>1. Lives(d)' <=> Lives(d) BY <1>2 DEF Lives
  <2>2. Told(d) => Told(d)' BY DEF Told, Adds, Pool, Ctrl, Msg, Spares
  <2> QED BY <2>1, <2>2
<1>4. \A d \in Conns : Upward(d)' \subseteq Upward(d) BY DEF Upward
<1>5. OpenFirst'
  <2>1. CASE bulk' = bulk BY <2>1 DEF OpenFirst, Life
  <2>2. ASSUME NEW m \in DownMsgs, bulk' = Append(bulk, m), m.type # "open" PROVE OpenFirst'
    <3>1. Len(bulk) \in Nat /\ DOMAIN bulk = 1 .. Len(bulk) BY <1>1
    <3>2. /\ DOMAIN bulk' = 1 .. (Len(bulk) + 1) /\ bulk'[Len(bulk) + 1] = m
          /\ \A i \in 1 .. Len(bulk) : bulk'[i] = bulk[i]
      BY <1>1, <2>2
    <3> SUFFICES ASSUME NEW i \in DOMAIN bulk', NEW j \in DOMAIN bulk',
                        bulk'[i].type = "open", bulk'[j].conn = bulk'[i].conn, j # i
                 PROVE  i < j /\ bulk'[j].type # "open"
      BY DEF OpenFirst
    <3>3. i \in 1 .. Len(bulk) BY <2>2, <3>1, <3>2
    <3>4. CASE j = Len(bulk) + 1 BY <2>2, <3>1, <3>2, <3>3, <3>4
    <3>5. CASE j # Len(bulk) + 1
      <4>1. j \in 1 .. Len(bulk) BY <3>1, <3>2, <3>5
      <4> QED BY <3>1, <3>2, <3>3, <4>1 DEF Life, OpenFirst
    <3> QED BY <3>4, <3>5
  <2> QED BY <2>1, <2>2 DEF Adds
<1>6. Channels'
  <2>1. Records' = Records BY DEF Records
  <2>2. ~agent.up => bulk' = <<>> /\ late' = <<>> BY DEF Life, Channels, Adds
  <2> QED BY <2>1, <2>2 DEF Life, Channels, Spares
<1>7. ASSUME NEW d \in Conns PROVE Unborn(d)'
  <2> SUFFICES ASSUME tunnel'[d].pc \in Early PROVE Unborn(d)' BY DEF Unborn
  <2>1. tunnel[d].pc \in Early BY DEF Early
  <2>2. Unborn(d) BY DEF Life
  <2>3. \A m \in Pool' : m.conn # d
    <3>1. \A m \in Pool : m.conn # d BY <2>1, <2>2 DEF Unborn, Pool
    <3>2. CASE d = c BY <3>1, <3>2
    <3>3. CASE d # c BY <3>1, <3>3 DEF Adds
    <3> QED BY <3>2, <3>3
  <2>4. conn[d].pc = "none" /\ Upward(d) = {} BY <2>1, <2>2 DEF Unborn
  <2>5. Upward(d)' = {} BY <1>4, <2>4
  <2> QED BY <2>3, <2>4, <2>5 DEF Unborn, Pool
<1>8. ASSUME NEW d \in Conns PROVE Quiet(d)' /\ Over(d)'
  <2>1. Quiet(d) /\ Over(d) BY DEF Life
  <2>2. Quiet(d)' BY <1>2, <1>4, <2>1 DEF Quiet
  <2>3. Over(d)' BY <1>3, <1>4, <2>1 DEF Over
  <2> QED BY <2>2, <2>3
<1>9. ASSUME NEW d \in Conns PROVE Sessions(d)' /\ Finished(d)' /\ Ending(d)'
  <2>1. CASE d = c BY <2>1
  <2>2. CASE d # c
    <3>1. Sessions(d) /\ Finished(d) /\ Ending(d) /\ tunnel'[d] = tunnel[d] BY <2>2 DEF Life
    <3>2. Sessions(d)' BY <1>3, <3>1 DEF Sessions, Spares
    <3>3. Finished(d)' BY <3>1 DEF Finished
    <3>4. Ending(d)' BY <1>3, <3>1 DEF Ending
    <3> QED BY <3>2, <3>3, <3>4
  <2> QED BY <2>1, <2>2
<1>10. ASSUME NEW d \in Conns PROVE OutOf(d, tunnel[d])'
  <2>1. CASE d = c BY <2>1 DEF OutOf, Early
  <2>2. CASE d # c
    <3>1. OutOf(d, tunnel[d]) /\ tunnel'[d] = tunnel[d] BY <2>2 DEF Life
    <3> QED BY <3>1 DEF OutOf, Early
  <2> QED BY <2>1, <2>2
<1> QED BY <1>5, <1>6, <1>7, <1>8, <1>9, <1>10 DEF Life

\* A step of the relay that changes nothing in the life of the tunnel c
SameLife(c, s, t) ==
    /\ t.pc = s.pc /\ t.session = s.session /\ t.listed = s.listed /\ t.over = s.over
    /\ t.finished = s.finished
    /\ OutOf(c, s) => OutOf(c, t)
    /\ (\E m \in ToSet(t.in) : m.type = "closed") => \E m \in ToSet(s.in) : m.type = "closed"

LEMMA PlainLife ==
    ASSUME Typed, Typed', Life, NEW c \in Conns, NEW t, tunnel' = [tunnel EXCEPT ![c] = t],
           SameLife(c, tunnel[c], t), Adds(c), tunnel[c].pc \notin Early \/ Pool' = Pool,
           UNCHANGED <<conn, agent, channel>>,
           ToSet(uplink') \cup ToSet(post') \subseteq ToSet(uplink) \cup ToSet(post),
           ~agent.up => uplink' = <<>> /\ post' = <<>>
    PROVE  Life'
<1>1. tunnel'[c] = t /\ \A d \in Conns \ {c} : tunnel'[d] = tunnel[d] BY DEF Typed, RelayTyped
<1>2. Sessions(c) /\ Finished(c) /\ Ending(c) BY DEF Life
<1>3. Lives(c)' <=> Lives(c)
  <2>1. Asked(c)' <=> Asked(c)
    <3>1. CASE bulk' = bulk BY <3>1 DEF Asked
    <3>2. ASSUME NEW m \in DownMsgs, bulk' = Append(bulk, m), m.type # "open" PROVE Asked(c)' <=> Asked(c)
      <4>1. bulk \in Seq(DownMsgs) BY DEF Typed, QueuesTyped
      <4>2. ToSet(bulk') = ToSet(bulk) \cup {m} BY <3>2, <4>1, AppendAdds
      <4> QED BY <3>2, <4>2 DEF Asked, IsOpen
    <3> QED BY <3>1, <3>2 DEF Adds
  <2> QED BY <2>1 DEF Lives
<1>4. Told(c) => Told(c)' BY DEF Told, Adds, Pool, Ctrl, Msg
<1>5. Sessions(c)' BY <1>1, <1>2, <1>3 DEF Sessions, SameLife
<1>6. Finished(c)' BY <1>1, <1>2 DEF Finished, SameLife
<1>7. Ending(c)' BY <1>1, <1>2, <1>3, <1>4 DEF Ending, SameLife
<1>8. tunnel'[c].pc \in Early => tunnel[c].pc \in Early /\ Pool' = Pool BY <1>1 DEF SameLife
<1>9. OutOf(c, tunnel'[c])
  <2>1. OutOf(c, tunnel[c]) BY DEF Life
  <2> QED BY <1>1, <2>1 DEF SameLife
<1> QED BY <1>1, <1>5, <1>6, <1>7, <1>8, <1>9, RelayLife

\* What a step of the relay alone keeps
LEMMA RelayKeeps ==
    ASSUME Life, UNCHANGED relayElse
    PROVE  /\ UNCHANGED <<conn, closed, uplink, post, posting, agent, lost, failures>>
           /\ ToSet(uplink') \cup ToSet(post') \subseteq ToSet(uplink) \cup ToSet(post)
           /\ ~agent.up => uplink' = <<>> /\ post' = <<>>
<1>1. UNCHANGED <<conn, closed, uplink, post, posting, agent, lost, failures>>
  BY DEF relayElse, agentVars, batch, history
<1> QED BY <1>1 DEF Life, Channels

LEMMA TunnelPlain ==
    ASSUME Typed, Typed', Life, NEW c \in Conns, NEW t, SetTunnel(c, t) \/ TakeOut(c, t), SameLife(c, tunnel[c], t),
           Adds(c), tunnel[c].pc \notin Early \/ Pool' = Pool, UNCHANGED relayElse
    PROVE  Life'
<1>1. tunnel' = [tunnel EXCEPT ![c] = t] /\ channel' = channel /\ sweep' = sweep BY DEF SetTunnel, TakeOut
<1> QED BY <1>1, RelayKeeps, PlainLife

LEMMA StillPool ==
    ASSUME UNCHANGED downlink, UNCHANGED relayElse, NEW c \in Conns PROVE Adds(c) /\ Pool' = Pool
<1>1. bulk' = bulk /\ late' = late /\ lost' = lost BY DEF downlink, relayElse, history
<1> QED BY <1>1, NothingAdds DEF Pool

\* The tunnel c changes, and nothing is sent.
LEMMA TunnelLife ==
    ASSUME Typed, Typed', Life, NEW c \in Conns, NEW t, SetTunnel(c, t) \/ TakeOut(c, t),
           UNCHANGED <<downlink, relayElse>>,
           t.pc \in Early => tunnel[c].pc \in Early,
           t.session <= agent.session,
           Lives(c) => t.pc = "gone" \/ t.session = agent.session,
           t.pc = "opening" /\ t.over # None =>
               channel # agent.session \/ t.session # agent.session \/ c \in agent.untold,
           t.pc \in {"new", "counting", "inserting", "gone"} => ~t.listed,
           t.pc \in {"new", "counting", "inserting"} => t.over = None,
           t.finished \/ (\E m \in ToSet(t.in) : m.type = "closed") => t.over # None,
           Lives(c) /\ (t.pc = "gone" \/ t.over # None) => Told(c),
           OutOf(c, t)
    PROVE  Life'
<1>1. /\ tunnel'[c] = t /\ \A d \in Conns \ {c} : tunnel'[d] = tunnel[d]
      /\ channel' = channel /\ sweep' = sweep
  BY DEF SetTunnel, TakeOut, Typed, RelayTyped
<1>2. Adds(c) /\ Pool' = Pool BY StillPool
<1>3. UNCHANGED <<conn, agent>> /\ bulk' = bulk /\ late' = late /\ lost' = lost
  BY RelayKeeps DEF downlink
<1>4. (Lives(c)' <=> Lives(c)) /\ (Told(c)' <=> Told(c))
  BY <1>1, <1>3 DEF Lives, Asked, Told, Ctrl, Msg
<1>5. Sessions(c)' BY <1>1, <1>3, <1>4 DEF Sessions
<1>6. Finished(c)' BY <1>1 DEF Finished
<1>7. Ending(c)' BY <1>1, <1>4 DEF Ending
<1>8. tunnel'[c].pc \in Early => tunnel[c].pc \in Early /\ Pool' = Pool BY <1>1, <1>2
<1>9. OutOf(c, tunnel'[c]) BY <1>1
<1> QED BY <1>1, <1>2, <1>5, <1>6, <1>7, <1>8, <1>9, RelayKeeps, RelayLife

\* Before the request to open is sent nothing lives.
LEMMA EarlyLives ==
    ASSUME Life, NEW c \in Conns, tunnel[c].pc \in Early PROVE ~Lives(c)
<1>1. Unborn(c) BY DEF Life
<1>2. conn[c].pc = "none" BY <1>1 DEF Unborn
<1>3. ~Asked(c) BY <1>1 DEF Unborn, Asked, IsOpen
<1> QED BY <1>2, <1>3 DEF Lives

LEMMA OpenLooksLife == ASSUME Typed, Typed', Life, NEW c \in Conns, OpenLooks(c) PROVE Life'
<1> DEFINE t == [NoTunnel EXCEPT !.pc = "counting", !.session = channel]
<1>1. tunnel[c].pc = "new" /\ SetTunnel(c, t) /\ UNCHANGED <<downlink, relayElse>> BY DEF OpenLooks
<1>2. ~Lives(c) BY <1>1, EarlyLives DEF Early
<1>3. t.pc = "counting" /\ t.session = channel /\ t.listed = FALSE /\ t.over = None /\ t.finished = FALSE /\ t.in = <<>>
      /\ t.out = <<>>
  BY DEF NoTunnel
<1>4. channel <= agent.session BY DEF Life, Channels
<1>5. ToSet(<<>>) = {} BY EmptyHasNone
<1> HIDE DEF t
<1>6. t.pc \in Early => tunnel[c].pc \in Early BY <1>1 DEF Early
<1>7. OutOf(c, t) BY <1>3, <1>5 DEF OutOf
<1> QED BY <1>1, <1>2, <1>3, <1>4, <1>5, <1>6, <1>7, TunnelLife

LEMMA GoneFields ==
    /\ GoneTunnel.pc = "gone" /\ GoneTunnel.session = 0 /\ GoneTunnel.listed = FALSE
    /\ GoneTunnel.over = None /\ GoneTunnel.finished = FALSE /\ GoneTunnel.in = <<>>
    /\ GoneTunnel.readEof = FALSE /\ GoneTunnel.out = <<>> /\ GoneTunnel.unacked = 0
    /\ GoneTunnel.pending = 0 /\ GoneTunnel.readSeq = 0 /\ GoneTunnel.answer = None
    /\ GoneTunnel.writeClosed = FALSE
BY DEF GoneTunnel, NoTunnel

\* A tunnel that has not been opened is let go of.
LEMMA EarlyGoneLife ==
    ASSUME Typed, Typed', Life, NEW c \in Conns, tunnel[c].pc \in Early,
           SetTunnel(c, GoneTunnel) \/ TakeOut(c, GoneTunnel), UNCHANGED <<downlink, relayElse>>
    PROVE  Life'
<1>1. ~Lives(c) BY EarlyLives
<1>2. 0 <= agent.session BY DEF Typed, AgentTyped
<1>3. ToSet(<<>>) = {} BY EmptyHasNone
<1>4. OutOf(c, GoneTunnel) BY <1>3, GoneFields DEF OutOf
<1> QED BY <1>1, <1>2, <1>3, <1>4, GoneFields, TunnelLife

LEMMA OpenCountsLife == ASSUME Typed, Typed', Life, NEW c \in Conns, OpenCounts(c) PROVE Life'
<1> DEFINE s == tunnel[c]
           t == [s EXCEPT !.pc = "inserting"]
<1>1. s.pc = "counting" /\ UNCHANGED <<downlink, relayElse, owed, sweep, channel, streams>>
  BY DEF OpenCounts, relayElse
<1>2. tunnel' = [tunnel EXCEPT ![c] = GoneTunnel] \/ tunnel' = [tunnel EXCEPT ![c] = t] BY DEF OpenCounts
<1>3. s \in Tunnels BY DEF Typed, RelayTyped
<1>4. Sessions(c) /\ Finished(c) BY DEF Life
<1>5. ~Lives(c) BY <1>1, EarlyLives DEF Early
<1>6. /\ t.pc = "inserting" /\ t.session = s.session /\ t.listed = s.listed /\ t.over = s.over
      /\ t.finished = s.finished /\ t.in = s.in /\ t.out = s.out
  BY <1>3 DEF Tunnels
<1>7. Adds(c) /\ Pool' = Pool BY <1>1, StillPool
<1>8. /\ UNCHANGED <<conn, agent, channel>> /\ sweep' = sweep /\ bulk' = bulk
      /\ ToSet(uplink') \cup ToSet(post') \subseteq ToSet(uplink) \cup ToSet(post)
      /\ ~agent.up => uplink' = <<>> /\ post' = <<>>
  BY <1>1, RelayKeeps DEF downlink
<1>9. ~Lives(c)' BY <1>5, <1>8 DEF Lives, Asked
<1> HIDE DEF t
<1>10. CASE tunnel' = [tunnel EXCEPT ![c] = t]
  <2>1. tunnel'[c] = t /\ \A d \in Conns \ {c} : tunnel'[d] = tunnel[d] BY <1>10 DEF Typed, RelayTyped
  <2>2. Sessions(c)' BY <1>1, <1>4, <1>6, <1>8, <1>9, <2>1 DEF Sessions
  <2>3. Finished(c)' BY <1>4, <1>6, <2>1 DEF Finished
  <2>4. Ending(c)' BY <1>9 DEF Ending
  <2>5. tunnel[c].pc \in Early BY <1>1 DEF Early
  <2>6. OutOf(c, tunnel'[c])
    <3>1. OutOf(c, tunnel[c]) BY DEF Life
    <3> QED BY <1>6, <2>1, <2>5, <3>1 DEF OutOf
  <2> QED BY <1>7, <1>8, <2>1, <2>2, <2>3, <2>4, <2>5, <2>6, RelayLife
<1>11. CASE tunnel' = [tunnel EXCEPT ![c] = GoneTunnel]
  <2>1. tunnel'[c] = GoneTunnel /\ \A d \in Conns \ {c} : tunnel'[d] = tunnel[d] BY <1>11 DEF Typed, RelayTyped
  <2>2. 0 <= agent.session BY DEF Typed, AgentTyped
  <2>3. Sessions(c)' BY <1>8, <1>9, <2>1, <2>2, GoneFields DEF Sessions
  <2>4. Finished(c)'
    <3>1. ToSet(<<>>) = {} BY EmptyHasNone
    <3> QED BY <2>1, <3>1, GoneFields DEF Finished
  <2>5. Ending(c)' BY <1>9 DEF Ending
  <2>6. tunnel[c].pc \in Early BY <1>1 DEF Early
  <2>7. OutOf(c, tunnel'[c])
    <3>1. ToSet(<<>>) = {} BY EmptyHasNone
    <3> QED BY <2>1, <3>1, GoneFields DEF OutOf
  <2> QED BY <1>7, <1>8, <2>1, <2>3, <2>4, <2>5, <2>6, <2>7, RelayLife
<1> QED BY <1>2, <1>10, <1>11

LEMMA OpenInsertsLife == ASSUME Typed, Typed', Life, NEW c \in Conns, OpenInserts(c) PROVE Life'
<1> DEFINE s == tunnel[c]
           t == [s EXCEPT !.pc = "opening", !.listed = TRUE]
<1>1. s.pc = "inserting" /\ SetTunnel(c, t) /\ UNCHANGED <<downlink, relayElse>> BY DEF OpenInserts
<1>2. s \in Tunnels BY DEF Typed, RelayTyped
<1>3. Sessions(c) /\ Finished(c) BY DEF Life
<1>4. ~Lives(c) BY <1>1, EarlyLives DEF Early
<1>5. /\ t.pc = "opening" /\ t.session = s.session /\ t.over = s.over
      /\ t.finished = s.finished /\ t.in = s.in /\ t.out = s.out
  BY <1>2 DEF Tunnels
<1>6. t.over = None /\ s.session <= agent.session BY <1>1, <1>3, <1>5 DEF Sessions
<1>7. t.finished \/ (\E m \in ToSet(t.in) : m.type = "closed") => t.over # None BY <1>3, <1>5 DEF Finished
<1> HIDE DEF t
<1>8. s.pc \in Early BY <1>1 DEF Early
<1>11. OutOf(c, t)
  <2>1. OutOf(c, tunnel[c]) BY DEF Life
  <2> QED BY <1>5, <1>8, <2>1 DEF OutOf
<1> HIDE DEF s
<1>9. tunnel[c].pc \in Early BY <1>8 DEF s
<1>10. t.session <= agent.session BY <1>5, <1>6
<1> QED BY <1>1, <1>4, <1>5, <1>6, <1>7, <1>9, <1>10, <1>11, TunnelLife

LEMMA OpenSucceedsLife == ASSUME Typed, Typed', Life, NEW c \in Conns, OpenSucceeds(c) PROVE Life'
<1> DEFINE s == tunnel[c]
           t == [s EXCEPT !.pc = "open"]
<1>1. s.pc = "waiting" /\ SetTunnel(c, t) /\ UNCHANGED <<downlink, relayElse>> BY DEF OpenSucceeds
<1>2. s \in Tunnels BY DEF Typed, RelayTyped
<1>3. Sessions(c) /\ Finished(c) /\ Ending(c) BY DEF Life
<1>4. /\ t.pc = "open" /\ t.session = s.session /\ t.over = s.over /\ t.listed = s.listed
      /\ t.finished = s.finished /\ t.in = s.in /\ t.out = s.out
  BY <1>2 DEF Tunnels
<1>5. t.session <= agent.session /\ (Lives(c) => t.session = agent.session) BY <1>1, <1>3, <1>4 DEF Sessions
<1>6. t.finished \/ (\E m \in ToSet(t.in) : m.type = "closed") => t.over # None BY <1>3, <1>4 DEF Finished
<1>7. Lives(c) /\ t.over # None => Told(c) BY <1>3, <1>4 DEF Ending
<1>8. t.pc \notin Early BY <1>4 DEF Early
<1>9. OutOf(c, t)
  <2>1. OutOf(c, tunnel[c]) BY DEF Life
  <2> QED BY <1>4, <1>8, <2>1 DEF OutOf
<1> HIDE DEF t, s
<1> QED BY <1>1, <1>4, <1>5, <1>6, <1>7, <1>8, <1>9, TunnelLife

LEMMA OpenSendTimesOutLife == ASSUME Typed, Typed', Life, NEW c \in Conns, OpenSendTimesOut(c) PROVE Life'
<1>1. tunnel[c].pc = "opening" /\ TakeOut(c, GoneTunnel) /\ UNCHANGED <<downlink, relayElse>> BY DEF OpenSendTimesOut
<1>2. tunnel[c].pc \in Early BY <1>1 DEF Early
<1> QED BY <1>1, <1>2, EarlyGoneLife

LEMMA UserWritesLife == ASSUME Typed, Typed', Life, NEW c \in Conns, UserWrites(c) PROVE Life'
<1>1. PICK size \in Chunks :
          LET n == Fits(size, tunnel[c].unacked)
          IN SetTunnel(c, [tunnel[c] EXCEPT
                  !.out = Append(@, Msg("data", c, tunnel[c].writeSeq, n)),
                  !.writeSeq = @ + 1, !.unacked = @ + n])
  BY DEF UserWrites
<1> DEFINE n == Fits(size, tunnel[c].unacked)
           t == [tunnel[c] EXCEPT !.out = Append(@, Msg("data", c, tunnel[c].writeSeq, n)),
                                  !.writeSeq = @ + 1, !.unacked = @ + n]
<1>2. tunnel[c] \in Tunnels BY DEF Typed, RelayTyped
<1>3. SameLife(c, tunnel[c], t)
  <2> DEFINE m == Msg("data", c, tunnel[c].writeSeq, n)
  <2>1. /\ t.pc = tunnel[c].pc /\ t.session = tunnel[c].session /\ t.listed = tunnel[c].listed
        /\ t.over = tunnel[c].over /\ t.finished = tunnel[c].finished /\ t.in = tunnel[c].in
        /\ t.out = Append(tunnel[c].out, m)
    BY <1>2 DEF Tunnels
  <2>2. m.conn = c BY DEF Msg
  <2>3. ToSet(t.out) = ToSet(tunnel[c].out) \cup {m}
    <3>1. tunnel[c].out \in Seq(WriteMsgs) BY <1>2, TunnelField
    <3> HIDE DEF t, m
    <3> QED BY <2>1, <3>1, AppendAdds
  <2>4. t.pc \notin Early
    <3>1. tunnel[c].pc = "open" BY DEF UserWrites
    <3> QED BY <2>1, <3>1 DEF Early
  <2> HIDE DEF t, m
  <2> QED BY <2>1, <2>2, <2>3, <2>4 DEF SameLife, OutOf
<1>4. UNCHANGED <<downlink, relayElse>> BY DEF UserWrites
<1>5. SetTunnel(c, t) BY <1>1
<1> HIDE DEF t
<1> QED BY <1>3, <1>4, <1>5, StillPool, TunnelPlain

LEMMA UserShutsDownLife == ASSUME Typed, Typed', Life, NEW c \in Conns, UserShutsDown(c) PROVE Life'
<1> DEFINE t == [tunnel[c] EXCEPT !.writeClosed = TRUE, !.out = Append(@, Ctrl("eof", c))]
<1>1. tunnel[c] \in Tunnels BY DEF Typed, RelayTyped
<1>2. SameLife(c, tunnel[c], t)
  <2> DEFINE m == Ctrl("eof", c)
  <2>1. /\ t.pc = tunnel[c].pc /\ t.session = tunnel[c].session /\ t.listed = tunnel[c].listed
        /\ t.over = tunnel[c].over /\ t.finished = tunnel[c].finished /\ t.in = tunnel[c].in
        /\ t.out = Append(tunnel[c].out, m)
    BY <1>1 DEF Tunnels
  <2>2. m.conn = c BY DEF Ctrl, Msg
  <2>3. ToSet(t.out) = ToSet(tunnel[c].out) \cup {m}
    <3>1. tunnel[c].out \in Seq(WriteMsgs) BY <1>1, TunnelField
    <3> HIDE DEF t, m
    <3> QED BY <2>1, <3>1, AppendAdds
  <2>4. t.pc \notin Early
    <3>1. tunnel[c].pc = "open" BY DEF UserShutsDown
    <3> QED BY <2>1, <3>1 DEF Early
  <2> HIDE DEF t, m
  <2> QED BY <2>1, <2>2, <2>3, <2>4 DEF SameLife, OutOf
<1>3. SetTunnel(c, t) /\ UNCHANGED <<downlink, relayElse>> BY DEF UserShutsDown
<1> HIDE DEF t
<1> QED BY <1>2, <1>3, StillPool, TunnelPlain

LEMMA UserReadsErrorLife == ASSUME Typed, Typed', Life, NEW c \in Conns, UserReadsError(c) PROVE Life'
<1> DEFINE s == tunnel[c]
           t == [s EXCEPT !.finished = TRUE]
<1>1. s.pc = "open" /\ s.over = "failed" /\ SetTunnel(c, t) /\ UNCHANGED <<downlink, relayElse>> BY DEF UserReadsError
<1>2. s \in Tunnels BY DEF Typed, RelayTyped
<1>3. Sessions(c) /\ Ending(c) BY DEF Life
<1>4. t.pc = "open" /\ t.session = s.session /\ t.over = "failed" /\ t.listed = s.listed /\ t.out = s.out
  BY <1>1, <1>2 DEF Tunnels
<1>5. t.session <= agent.session /\ (Lives(c) => t.session = agent.session) BY <1>1, <1>3, <1>4 DEF Sessions
<1>6. "failed" # None BY NoneAssumption
<1>7. Lives(c) /\ t.over # None => Told(c) BY <1>1, <1>3, <1>4 DEF Ending
<1>8. t.pc \notin Early BY <1>4 DEF Early
<1>9. OutOf(c, t)
  <2>1. OutOf(c, tunnel[c]) BY DEF Life
  <2> QED BY <1>4, <1>8, <2>1 DEF OutOf
<1> HIDE DEF t, s
<1> QED BY <1>1, <1>4, <1>5, <1>6, <1>7, <1>8, <1>9, TunnelLife

LEMMA UserReadsLife == ASSUME Typed, Typed', Life, NEW c \in Conns, UserReads(c) PROVE Life'
<1>1. PICK s, m : s = tunnel[c] /\ m = Head(s.in) OBVIOUS
<1>2. /\ s \in Tunnels /\ s.in \in Seq(ReadMsgs) /\ s.in # <<>> /\ m \in ReadMsgs
      /\ s.pc = "open" /\ UNCHANGED <<downlink, relayElse>> /\ ReadTurns(c, s, m)
  BY <1>1, ReadBecomes
<1>3. PICK t \in Tunnels :
         /\ SetTunnel(c, t)
         /\ \/ /\ m.type = "data"
               /\ t = [[s EXCEPT !.in = Tail(s.in)] EXCEPT !.pending = m.bytes]
            \/ /\ m.type = "eof"
               /\ t = [[s EXCEPT !.in = Tail(s.in)] EXCEPT !.readEof = TRUE]
            \/ /\ m.type = "closed"
               /\ t = [[[s EXCEPT !.in = Tail(s.in)] EXCEPT !.readEof = TRUE] EXCEPT !.finished = TRUE]
  BY <1>2 DEF ReadTurns
<1>4. /\ t.pc = "open" /\ t.session = s.session /\ t.over = s.over /\ t.listed = s.listed
      /\ t.in = Tail(s.in) /\ t.out = s.out
      /\ t.finished = s.finished \/ m.type = "closed"
  BY <1>2, <1>3, ZenonT(60) DEF Tunnels
<1>5. ToSet(t.in) \subseteq ToSet(s.in) /\ m \in ToSet(s.in) BY <1>1, <1>2, <1>4, TailLacks
<1>6. Sessions(c) /\ Finished(c) /\ Ending(c) BY DEF Life
<1>7. t.finished \/ (\E x \in ToSet(t.in) : x.type = "closed") => t.over # None
  BY <1>1, <1>4, <1>5, <1>6 DEF Finished
<1>8. t.session <= agent.session /\ (Lives(c) => t.session = agent.session) BY <1>1, <1>2, <1>4, <1>6 DEF Sessions
<1>9. Lives(c) /\ t.over # None => Told(c) BY <1>1, <1>4, <1>6 DEF Ending
<1>10. t.pc \notin Early BY <1>4 DEF Early
<1>11. OutOf(c, t)
  <2>1. OutOf(c, s) BY <1>1 DEF Life
  <2> QED BY <1>4, <1>10, <2>1 DEF OutOf
<1> QED BY <1>2, <1>3, <1>4, <1>7, <1>8, <1>9, <1>10, <1>11, TunnelLife

LEMMA UserConsumesLife == ASSUME Typed, Typed', Life, NEW c \in Conns, UserConsumes(c) PROVE Life'
<1> DEFINE t == [tunnel[c] EXCEPT !.pending = 0]
           m == Msg("ack", c, 0, tunnel[c].pending)
<1>1. tunnel[c] \in Tunnels BY DEF Typed, RelayTyped
<1>2. SameLife(c, tunnel[c], t) BY <1>1 DEF SameLife, Tunnels, OutOf
<1>3. m \in LateMsgs /\ m.conn = c
  <2>1. tunnel[c].pending \in Nat BY <1>1, TunnelField
  <2> QED BY <2>1 DEF Msg, LateMsgs, Message
<1>4. tunnel[c].pc = "open" /\ SetTunnel(c, t) /\ SendNonblocking(c, m) /\ UNCHANGED relayElse BY DEF UserConsumes
<1> HIDE DEF t, m
<1>5. Adds(c) BY <1>3, <1>4, RelayKeeps, SendAdds
<1>6. tunnel[c].pc \notin Early BY <1>4 DEF Early
<1> QED BY <1>2, <1>4, <1>5, <1>6, TunnelPlain

LEMMA WriterSendsLife == ASSUME Typed, Typed', Life, NEW c \in Conns, WriterSends(c) PROVE Life'
<1> DEFINE s == tunnel[c]
           m == Head(s.out)
           t == [s EXCEPT !.out = Tail(@)]
<1>1. s \in Tunnels BY DEF Typed, RelayTyped
<1>2. s.out \in Seq(WriteMsgs) BY <1>1, TunnelField
<1>3. s.out # <<>> /\ Deliver(c, m) /\ SetTunnel(c, t) /\ UNCHANGED <<late, relayElse>> BY DEF WriterSends
<1>4. m \in WriteMsgs /\ ToSet(s.out) = {m} \cup ToSet(Tail(s.out)) BY <1>2, <1>3, TailLacks
<1>5. OutOf(c, s) BY DEF Life
<1>6. m.conn = c /\ m \in DownMsgs /\ m.type # "open" BY <1>4, <1>5, Kinds DEF OutOf, WriteMsgs, Message
<1>7. s.pc \notin Early BY <1>3, <1>5 DEF OutOf
<1>8. SameLife(c, s, t)
  <2>1. /\ t.pc = s.pc /\ t.session = s.session /\ t.listed = s.listed
        /\ t.over = s.over /\ t.finished = s.finished /\ t.in = s.in /\ t.out = Tail(s.out)
    BY <1>1 DEF Tunnels
  <2> HIDE DEF t
  <2> QED BY <1>4, <1>7, <2>1 DEF SameLife, OutOf
<1>9. Adds(c)
  <2> HIDE DEF m
  <2> QED BY <1>3, <1>6, RelayKeeps, DeliverAdds
<1> HIDE DEF t, m
<1> QED BY <1>3, <1>7, <1>8, <1>9, TunnelPlain

\* Nothing but the request to open asks for a connection.
LEMMA AddsAsks ==
    ASSUME Typed, NEW c \in Conns, Adds(c), UNCHANGED conn
    PROVE  \A d \in Conns : (Asked(d)' <=> Asked(d)) /\ (Lives(d)' <=> Lives(d))
<1>1. \A d \in Conns : Asked(d)' <=> Asked(d)
  <2>1. CASE bulk' = bulk BY <2>1 DEF Asked
  <2>2. ASSUME NEW m \in DownMsgs, bulk' = Append(bulk, m), m.type # "open" PROVE \A d \in Conns : Asked(d)' <=> Asked(d)
    <3>1. bulk \in Seq(DownMsgs) BY DEF Typed, QueuesTyped
    <3>2. ToSet(bulk') = ToSet(bulk) \cup {m} BY <2>2, <3>1, AppendAdds
    <3> QED BY <2>2, <3>2 DEF Asked, IsOpen
  <2> QED BY <2>1, <2>2 DEF Adds
<1> QED BY <1>1 DEF Lives

\* The tunnel c is let go of, and its agent is told if there is one.
LEMMA GoneLife ==
    ASSUME Typed, Typed', Life, NEW c \in Conns, TakeOut(c, GoneTunnel), UNCHANGED relayElse, Adds(c),
           Lives(c) => Told(c)'
    PROVE  Life'
<1>1. /\ tunnel'[c] = GoneTunnel /\ \A d \in Conns \ {c} : tunnel'[d] = tunnel[d]
      /\ channel' = channel /\ sweep' = sweep
  BY DEF TakeOut, Typed, RelayTyped
<1>2. UNCHANGED <<conn, agent>> /\ ToSet(uplink') \cup ToSet(post') \subseteq ToSet(uplink) \cup ToSet(post)
      /\ (~agent.up => uplink' = <<>> /\ post' = <<>>)
  BY RelayKeeps
<1>3. Lives(c)' <=> Lives(c) BY <1>2, AddsAsks
<1>4. 0 <= agent.session BY DEF Typed, AgentTyped
<1>5. Sessions(c)' BY <1>1, <1>2, <1>4, GoneFields DEF Sessions
<1>6. Finished(c)'
  <2>1. ToSet(<<>>) = {} BY EmptyHasNone
  <2> QED BY <1>1, <2>1, GoneFields DEF Finished
<1>7. Ending(c)' BY <1>3 DEF Ending
<1>8. tunnel'[c].pc \notin Early BY <1>1, GoneFields DEF Early
<1>9. OutOf(c, tunnel'[c])
  <2>1. ToSet(<<>>) = {} BY EmptyHasNone
  <2> QED BY <1>1, <2>1, GoneFields DEF OutOf
<1> QED BY <1>1, <1>2, <1>5, <1>6, <1>7, <1>8, <1>9, RelayLife

\* Where tcp:close is sent the agent will know, if it has anything to do with it.
LEMMA SentTold ==
    ASSUME Typed, Life, NEW c \in Conns, SendNonblocking(c, Ctrl("close", c)),
           UNCHANGED <<lost, agent, channel>>, tunnel[c].pc # "gone", Lives(c)
    PROVE  Told(c)'
<1>1. Ctrl("close", c) \in LateMsgs /\ Ctrl("close", c).conn = c BY CtrlTyped DEF Ctrl, Msg
<1>2. CASE Reaches(c)
  <2>1. Ctrl("close", c) \in ToSet(bulk') \cup ToSet(late') BY <1>1, <1>2, SendAdds
  <2> QED BY <2>1 DEF Told, Ctrl, Msg
<1>3. CASE ~Reaches(c)
  <2>1. Sessions(c) BY DEF Life
  <2>2. tunnel[c].session = agent.session BY <2>1 DEF Sessions
  <2>3. ~agent.linked BY <1>3, <2>2 DEF Reaches, Life, Channels
  <2> QED BY <2>3 DEF Told
<1> QED BY <1>2, <1>3

LEMMA CloseAdds ==
    ASSUME Typed, NEW c \in Conns, SendNonblocking(c, Ctrl("close", c)), UNCHANGED lost PROVE Adds(c)
<1>1. Ctrl("close", c) \in LateMsgs /\ Ctrl("close", c).conn = c BY CtrlTyped DEF Ctrl, Msg
<1> QED BY <1>1, SendAdds

LEMMA OpenTimesOutLife == ASSUME Typed, Typed', Life, NEW c \in Conns, OpenTimesOut(c) PROVE Life'
<1>1. tunnel[c].pc = "waiting" /\ SendNonblocking(c, Ctrl("close", c)) /\ TakeOut(c, GoneTunnel) /\ UNCHANGED relayElse
  BY DEF OpenTimesOut
<1>2. UNCHANGED <<lost, agent, channel>> BY <1>1, RelayKeeps DEF TakeOut
<1>3. Lives(c) => Told(c)' BY <1>1, <1>2, SentTold
<1>4. Adds(c) BY <1>1, <1>2, CloseAdds
<1> QED BY <1>1, <1>3, <1>4, GoneLife

LEMMA DropLife == ASSUME Typed, Typed', Life, NEW c \in Conns, Drop(c), tunnel[c].pc # "gone" PROVE Life'
<1>1. TakeOut(c, GoneTunnel) /\ UNCHANGED relayElse BY DEF Drop
<1>2. UNCHANGED <<lost, agent, channel>> BY <1>1, RelayKeeps DEF TakeOut
<1>3. CASE Terminal(c) \/ tunnel[c].finished
  <2>1. bulk' = bulk /\ late' = late BY <1>3 DEF Drop
  <2>2. Adds(c) BY <1>2, <2>1, NothingAdds
  <2>3. Finished(c) /\ Ending(c) BY DEF Life
  <2>4. tunnel[c].over # None BY <1>3, <2>3 DEF Terminal, Finished
  <2>5. Lives(c) => Told(c)' BY <1>2, <2>1, <2>3, <2>4 DEF Ending, Told, Ctrl, Msg
  <2> QED BY <1>1, <2>2, <2>5, GoneLife
<1>4. CASE ~(Terminal(c) \/ tunnel[c].finished)
  <2>1. SendNonblocking(c, Ctrl("close", c)) BY <1>4 DEF Drop
  <2>2. Lives(c) => Told(c)' BY <1>2, <2>1, SentTold
  <2>3. Adds(c) BY <1>2, <2>1, CloseAdds
  <2> QED BY <1>1, <2>2, <2>3, GoneLife
<1> QED BY <1>3, <1>4

\* A tunnel about which nothing has changed
LEMMA OtherLife ==
    ASSUME Typed, Life, NEW d \in Conns, tunnel'[d] = tunnel[d], conn'[d] = conn[d], Asked(d)' <=> Asked(d),
           Told(d) => Told(d)', UNCHANGED agent, channel' \in {channel, 0}, Upward(d)' \subseteq Upward(d),
           (\A m \in Pool : m.conn # d) => \A m \in Pool' : m.conn # d
    PROVE  Unborn(d)' /\ Quiet(d)' /\ Over(d)' /\ Sessions(d)' /\ Finished(d)' /\ Ending(d)' /\ OutOf(d, tunnel[d])'
<1>1. Unborn(d) /\ Quiet(d) /\ Over(d) /\ Sessions(d) /\ Finished(d) /\ Ending(d) /\ OutOf(d, tunnel[d]) BY DEF Life
<1>2. Lives(d)' <=> Lives(d) BY DEF Lives
<1>3. Unborn(d)' BY <1>1 DEF Unborn, Pool, Early
<1>4. Quiet(d)' /\ Over(d)' BY <1>1, <1>2 DEF Quiet, Over
<1>5. Sessions(d)' /\ Finished(d)'
  <2>1. agent.session # 0 BY DEF Typed, AgentTyped
  <2>2. Sessions(d)' BY <1>1, <1>2, <2>1 DEF Sessions
  <2> QED BY <1>1, <2>2 DEF Finished
<1>6. Ending(d)' /\ OutOf(d, tunnel[d])' BY <1>1, <1>2 DEF Ending, OutOf, Early
<1> QED BY <1>3, <1>4, <1>5, <1>6

LEMMA OpenSendsLife == ASSUME Typed, Typed', Life, NEW c \in Conns, OpenSends(c) PROVE Life'
<1> DEFINE s == tunnel[c]
           t == [s EXCEPT !.pc = "waiting"]
           m == Ctrl("open", c)
<1>1. s.pc = "opening" /\ SetTunnel(c, t) /\ late' = late /\ UNCHANGED relayElse /\ Deliver(c, m) BY DEF OpenSends
<1>2. s \in Tunnels BY DEF Typed, RelayTyped
<1>3. /\ t.pc = "waiting" /\ t.session = s.session /\ t.over = s.over /\ t.listed = s.listed
      /\ t.finished = s.finished /\ t.in = s.in /\ t.out = s.out
  BY <1>2 DEF Tunnels
<1>4. Sessions(c) /\ Finished(c) /\ Unborn(c) /\ OutOf(c, s) BY DEF Life
<1>5. s.pc \in Early /\ t.pc \notin Early BY <1>1, <1>3 DEF Early
<1>6. ~Lives(c) BY <1>5, EarlyLives
<1>7. t.session <= agent.session /\ OutOf(c, t)
      /\ (t.finished \/ (\E x \in ToSet(t.in) : x.type = "closed") => t.over # None)
  BY <1>3, <1>4, <1>5 DEF Sessions, Finished, OutOf
<1>8. m \in DownMsgs /\ m.type = "open" /\ m.conn = c BY CtrlTyped DEF Ctrl, Msg
<1> HIDE DEF t, s, m
<1>9. CASE ~Reaches(c)
  <2>1. UNCHANGED downlink BY <1>1, <1>9 DEF Deliver, downlink
  <2> QED BY <1>1, <1>3, <1>5, <1>6, <1>7, <2>1, TunnelLife
<1>10. CASE Reaches(c)
  <2>1. bulk \in Seq(DownMsgs) BY DEF Typed, QueuesTyped
  <2>2. bulk' = Append(bulk, m) BY <1>1, <1>10 DEF Deliver
  <2>3. ToSet(bulk') = ToSet(bulk) \cup {m} BY <2>1, <2>2, AppendAdds
  <2>4. UNCHANGED <<conn, agent, channel, sweep, late, lost, uplink, post>> BY <1>1, RelayKeeps DEF SetTunnel
  <2>5. tunnel'[c] = t /\ \A d \in Conns \ {c} : tunnel'[d] = tunnel[d] BY <1>1 DEF SetTunnel, Typed, RelayTyped
  <2>6. Pool' = Pool \cup {m} BY <2>3, <2>4 DEF Pool
  <2>7. \A x \in Pool : x.conn # c BY <1>4, <1>5 DEF Unborn, Pool, s
  <2>8. ASSUME NEW d \in Conns \ {c}
        PROVE  Unborn(d)' /\ Quiet(d)' /\ Over(d)' /\ Sessions(d)' /\ Finished(d)' /\ Ending(d)' /\ OutOf(d, tunnel[d])'
    <3>1. Asked(d)' <=> Asked(d) BY <1>8, <2>3 DEF Asked, IsOpen
    <3>2. Told(d) => Told(d)' BY <2>3, <2>4 DEF Told, Ctrl, Msg
    <3>3. Upward(d)' = Upward(d) BY <2>4 DEF Upward
    <3>4. (\A x \in Pool : x.conn # d) => \A x \in Pool' : x.conn # d BY <1>8, <2>6
    <3> QED BY <2>4, <2>5, <3>1, <3>2, <3>3, <3>4, OtherLife
  <2>9. Unborn(c)' /\ Quiet(c)' /\ Over(c)'
    <3>1. Upward(c)' = {} BY <1>4, <1>5, <2>4 DEF Unborn, Upward, s
    <3>2. conn'[c].pc = "none" BY <1>4, <1>5, <2>4 DEF Unborn, s
    <3>3. Unborn(c)' BY <1>5, <2>5 DEF Unborn, Early
    <3> QED BY <3>1, <3>2, <3>3 DEF Quiet, Over
  <2>10. s.session = agent.session BY <1>10 DEF Reaches, s
  <2>11. s.over # None => channel # agent.session \/ c \in agent.untold BY <1>1, <1>4, <2>10 DEF Sessions, s
  <2>12. Sessions(c)' /\ Finished(c)' /\ Ending(c)' /\ OutOf(c, tunnel[c])'
    <3>1. Sessions(c)' BY <1>3, <1>7, <2>4, <2>5, <2>10 DEF Sessions
    <3>2. Finished(c)' BY <1>7, <2>5 DEF Finished
    <3>3. Ending(c)' BY <1>3, <2>4, <2>5, <2>11 DEF Ending, Told
    <3>4. OutOf(c, tunnel[c])' BY <1>7, <2>5 DEF OutOf, Early
    <3> QED BY <3>1, <3>2, <3>3, <3>4
  <2>13. Channels' BY <1>10, <2>4 DEF Life, Channels, Reaches
  <2>14. OpenFirst'
    <3>1. Len(bulk) \in Nat /\ DOMAIN bulk = 1 .. Len(bulk) BY <2>1
    <3>2. /\ DOMAIN bulk' = 1 .. (Len(bulk) + 1) /\ bulk'[Len(bulk) + 1] = m
          /\ \A i \in 1 .. Len(bulk) : bulk'[i] = bulk[i]
      BY <2>1, <2>2
    <3>3. \A i \in 1 .. Len(bulk) : bulk'[i].conn # c
      <4>1. \A i \in 1 .. Len(bulk) : bulk[i] \in Pool BY <3>1 DEF Pool, ToSet
      <4> QED BY <2>7, <3>2, <4>1
    <3> SUFFICES ASSUME NEW i \in DOMAIN bulk', NEW j \in DOMAIN bulk',
                        bulk'[i].type = "open", bulk'[j].conn = bulk'[i].conn, j # i
                 PROVE  i < j /\ bulk'[j].type # "open"
      BY DEF OpenFirst
    <3>4. i \in 1 .. Len(bulk) /\ j \in 1 .. Len(bulk)
      <4>1. i = Len(bulk) + 1 \/ i \in 1 .. Len(bulk) BY <3>1, <3>2
      <4>2. j = Len(bulk) + 1 \/ j \in 1 .. Len(bulk) BY <3>1, <3>2
      <4> QED BY <1>8, <3>2, <3>3, <4>1, <4>2
    <3> QED BY <3>1, <3>2, <3>4 DEF Life, OpenFirst
  <2> QED BY <2>8, <2>9, <2>12, <2>13, <2>14 DEF Life
<1> QED BY <1>9, <1>10

LEMMA FailedFields ==
    ASSUME Typed, NEW c \in Conns
    PROVE  LET s == tunnel[c]
               t == Failed(c)
           IN /\ t \in Tunnels /\ s \in Tunnels
              /\ t.pc = s.pc /\ t.session = s.session /\ t.answer = s.answer /\ t.finished = s.finished
              /\ t.readEof = s.readEof /\ t.writeClosed = s.writeClosed /\ t.unacked = s.unacked
              /\ t.readSeq = s.readSeq
              /\ t.listed = FALSE /\ t.over = "failed" /\ t.out = <<>> /\ t.in = <<>> /\ t.pending = 0
<1>1. tunnel[c] \in Tunnels BY DEF Typed, RelayTyped
<1> DEFINE s == tunnel[c]
           t == Failed(c)
<1>2. t \in Tunnels BY FailedTyped
<1>3. /\ t.pc = s.pc /\ t.session = s.session /\ t.answer = s.answer /\ t.finished = s.finished
      /\ t.readEof = s.readEof /\ t.writeClosed = s.writeClosed /\ t.unacked = s.unacked
      /\ t.readSeq = s.readSeq
      /\ t.listed = FALSE /\ t.over = "failed" /\ t.out = <<>> /\ t.in = <<>> /\ t.pending = 0
  <2>1. t = [s EXCEPT !.listed = FALSE, !.over = "failed", !.in = <<>>, !.out = <<>>, !.pending = 0]
    BY DEF Failed
  <2>2. s \in Tunnels BY <1>1
  <2> HIDE DEF s, t
  <2> QED BY <2>1, <2>2 DEF Tunnels
<1> HIDE DEF s, t
<1> QED BY <1>1, <1>2, <1>3, Zenon DEF s, t

\* The relay takes the tunnel c out of its table.
LEMMA FailedLife ==
    ASSUME Typed, Typed', Life, NEW c \in Conns, tunnel[c].listed,
           tunnel' = [tunnel EXCEPT ![c] = Failed(c)], Adds(c), UNCHANGED <<conn, channel>>,
           agent' = agent \/ Spares,
           ToSet(uplink') \cup ToSet(post') \subseteq ToSet(uplink) \cup ToSet(post),
           ~agent.up => uplink' = <<>> /\ post' = <<>>,
           tunnel[c].pc \in Early => Pool' = Pool /\ (channel # agent.session \/ c \in agent'.untold),
           Lives(c) => Told(c)'
    PROVE  Life'
<1>1. tunnel'[c] = Failed(c) /\ \A d \in Conns \ {c} : tunnel'[d] = tunnel[d] BY DEF Typed, RelayTyped
<1>2. Sessions(c) BY DEF Life
<1>3. Lives(c)' <=> Lives(c) BY AddsAsks
<1> Spares BY DEF Spares
<1>4. tunnel[c].pc \notin {"new", "counting", "inserting", "gone"} BY <1>2 DEF Sessions
<1>5. "failed" # None BY NoneAssumption
<1>6. ToSet(<<>>) = {} BY EmptyHasNone
<1>7. Sessions(c)' BY <1>1, <1>2, <1>3, <1>4, FailedFields, ZenonT(60) DEF Sessions, Early, Spares
<1>8. Finished(c)' BY <1>1, <1>5, FailedFields DEF Finished
<1>9. Ending(c)' BY <1>3 DEF Ending
<1>10. OutOf(c, tunnel'[c]) BY <1>1, <1>6, FailedFields DEF OutOf
<1>11. tunnel'[c].pc \in Early => tunnel[c].pc \in Early /\ Pool' = Pool BY <1>1, FailedFields
<1> QED BY <1>1, <1>7, <1>8, <1>9, <1>10, <1>11, RelayLife

\* While the table is swept there is no channel, or what is closed is marked.
LEMMA SweepRemovesLife == ASSUME Typed, Typed', Life, NEW c \in Conns, SweepRemoves(c) PROVE Life'
<1>1. /\ channel' = channel /\ UNCHANGED <<bulk, late, lost, conn, uplink, post>>
      /\ tunnel' = [tunnel EXCEPT ![c] = IF tunnel[c].listed THEN Failed(c) ELSE @]
      /\ agent' = [agent EXCEPT !.untold = IF tunnel[c].listed /\ channel # 0 THEN @ \cup {c} ELSE @]
  BY DEF SweepRemoves, downlink, agentVars, batch, history
<1>2. agent \in [session : Nat \ {0}, up : BOOLEAN, linked : BOOLEAN, untold : SUBSET Conns]
  BY DEF Typed, AgentTyped
<1>3. Adds(c) /\ Pool' = Pool BY <1>1, NothingAdds DEF Pool
<1>4. /\ ToSet(uplink') \cup ToSet(post') \subseteq ToSet(uplink) \cup ToSet(post)
      /\ ~agent.up => uplink' = <<>> /\ post' = <<>>
  BY <1>1 DEF Life, Channels
<1>5. CASE tunnel[c].listed
  <2>1. tunnel' = [tunnel EXCEPT ![c] = Failed(c)] BY <1>1, <1>5
  <2>2. Spares BY <1>1, <1>2 DEF Spares
  <2>3. channel # agent.session \/ c \in agent'.untold BY <1>1, <1>2, <1>5
  <2>4. Told(c)' BY <1>1, <2>2, <2>3 DEF Told, Spares
  <2> QED BY <1>1, <1>3, <1>4, <1>5, <2>1, <2>2, <2>3, <2>4, FailedLife
<1>6. CASE ~tunnel[c].listed
  <2>1. tunnel' = [tunnel EXCEPT ![c] = tunnel[c]] BY <1>1, <1>6
  <2>2. SameLife(c, tunnel[c], tunnel[c]) BY DEF SameLife
  <2>3. agent' = agent BY <1>1, <1>2, <1>6
  <2> QED BY <1>1, <1>3, <1>4, <2>1, <2>2, <2>3, PlainLife
<1> QED BY <1>5, <1>6

\* No tunnel changes, nothing is sent, and nothing is added to what comes up.
LEMMA StillLife ==
    ASSUME Typed, Life, UNCHANGED <<tunnel, bulk, late, lost, conn, agent>>,
           channel' \in {channel, 0},
           ToSet(uplink') \cup ToSet(post') \subseteq ToSet(uplink) \cup ToSet(post),
           ~agent.up => uplink' = <<>> /\ post' = <<>>
    PROVE  Life'
<1>1. agent.session \in Nat \ {0} BY DEF Typed, AgentTyped
<1>2. OpenFirst' BY DEF Life, OpenFirst
<1>3. Channels'
  <2>1. Records' = Records BY DEF Records
  <2>2. channel' <= agent.session BY <1>1 DEF Life, Channels
  <2> QED BY <2>1, <2>2 DEF Life, Channels
<1>4. ASSUME NEW d \in Conns
      PROVE  Unborn(d)' /\ Quiet(d)' /\ Over(d)' /\ Sessions(d)' /\ Finished(d)' /\ Ending(d)' /\ OutOf(d, tunnel[d])'
  <2>1. Asked(d)' <=> Asked(d) BY DEF Asked
  <2>2. Told(d) => Told(d)' BY <1>1 DEF Told, Ctrl, Msg
  <2>3. Upward(d)' \subseteq Upward(d) BY DEF Upward
  <2>4. Pool' = Pool BY DEF Pool
  <2> QED BY <2>1, <2>2, <2>3, <2>4, OtherLife
<1> QED BY <1>2, <1>3, <1>4 DEF Life

LEMMA UncountLife == ASSUME Typed, Life, Uncount \/ SweepEnds PROVE Life'
<1>1. UNCHANGED <<tunnel, bulk, late, lost, conn, agent, channel, uplink, post>> /\ sweep' \in {sweep, None}
  BY DEF Uncount, SweepEnds, downlink, agentVars, batch, history
<1>2. ~agent.up => uplink' = <<>> /\ post' = <<>> BY <1>1 DEF Life, Channels
<1> QED BY <1>1, <1>2, StillLife

LEMMA PostSucceedsLife == ASSUME Typed, Life, PostSucceeds \/ UNCHANGED vars PROVE Life'
<1>1. UNCHANGED <<tunnel, bulk, late, lost, conn, agent, channel, sweep, uplink, post>>
  BY DEF PostSucceeds, relayVars, downlink, agentVars, batch, history, vars
<1>2. ~agent.up => uplink' = <<>> /\ post' = <<>> BY <1>1 DEF Life, Channels
<1> QED BY <1>1, <1>2, StillLife

LEMMA StreamLife == ASSUME Typed, Life, SessionRemoved \/ RemovalSweeps \/ (\E s \in streams : StreamDropped(s)) PROVE Life'
<1>1. UNCHANGED <<tunnel, bulk, late, lost, agentVars, batch, agent>> /\ channel' \in {channel, 0}
  BY StreamTyped
<1>2. UNCHANGED <<conn, uplink, post>> BY <1>1 DEF agentVars, batch
<1>3. ~agent.up => uplink' = <<>> /\ post' = <<>> BY <1>1, <1>2 DEF Life, Channels
<1> QED BY <1>1, <1>2, <1>3, StillLife

LEMMA UplinkTakesLife == ASSUME Typed, Life, UplinkTakes PROVE Life'
<1>1. agent.up /\ UNCHANGED <<tunnel, bulk, late, lost, conn, agent, channel, sweep>>
  BY DEF UplinkTakes, relayVars, downlink, history
<1>2. ToSet(uplink') \cup ToSet(post') \subseteq ToSet(uplink) BY TakesTyped
<1> QED BY <1>1, <1>2, StillLife

\* What has waited goes to the downlink or is lost.
LEMMA LateLife == ASSUME Typed, Typed', Life, LateSend \/ LateTimesOut PROVE Life'
<1>1. late \in Seq(LateMsgs) /\ bulk \in Seq(DownMsgs) /\ lost \in Seq(LateMsgs) BY DEF Typed, QueuesTyped
<1>2. PICK i \in 1 .. Len(late) :
        /\ late' = RemoveAt(late, i)
        /\ \/ bulk' = Append(bulk, late[i]) /\ lost' = lost
           \/ bulk' = bulk /\ lost' = Append(lost, late[i])
  BY DEF LateSend, LateTimesOut, history
<1>3. UNCHANGED <<tunnel, channel, sweep, conn, uplink, post, agent>>
  BY DEF LateSend, LateTimesOut, relayVars, agentVars, batch, history
<1>4. PICK m, c : m = late[i] /\ c = m.conn OBVIOUS
<1>5. m \in LateMsgs /\ m \in DownMsgs /\ m.type # "open" /\ c \in Conns
  <2>1. m \in LateMsgs BY <1>1, <1>4
  <2> QED BY <1>4, <2>1, Kinds DEF LateMsgs, Message
<1>6. ToSet(late) = ToSet(late') \cup {m}
  <2>1. Without(LateMsgs, late, i) BY <1>1, WithoutOne
  <2> QED BY <1>2, <1>4, <2>1 DEF Without
<1>7. ToSet(bulk') \cup ToSet(lost') = ToSet(bulk) \cup ToSet(lost) \cup {m}
  <2>1. CASE bulk' = Append(bulk, late[i]) /\ lost' = lost
    <3>1. ToSet(bulk') = ToSet(bulk) \cup {m} BY <1>1, <1>4, <2>1, AppendAdds
    <3> QED BY <2>1, <3>1
  <2>2. CASE bulk' = bulk /\ lost' = Append(lost, late[i])
    <3>1. ToSet(lost') = ToSet(lost) \cup {m} BY <1>1, <1>4, <2>2, AppendAdds
    <3> QED BY <2>2, <3>1
  <2> QED BY <1>2, <2>1, <2>2
<1>8. Pool' = Pool BY <1>6, <1>7 DEF Pool
<1>9. late # <<>> BY <1>2
<1>10. agent.up BY <1>9 DEF Life, Channels
<1>11. Adds(c) BY <1>2, <1>4, <1>5, <1>8, <1>10 DEF Adds
<1>12. tunnel' = [tunnel EXCEPT ![c] = tunnel[c]] BY <1>3, <1>5 DEF Typed, RelayTyped
<1>13. SameLife(c, tunnel[c], tunnel[c]) BY DEF SameLife
<1> QED BY <1>3, <1>5, <1>8, <1>10, <1>11, <1>12, <1>13, PlainLife

LEMMA BecameFields ==
    ASSUME NEW s \in Tunnels, NEW m, NEW t, Became(s, m, t)
    PROVE  /\ t.pc = s.pc /\ t.session = s.session /\ t.listed = s.listed /\ t.finished = s.finished
           /\ t.readEof = s.readEof /\ t.writeClosed = s.writeClosed /\ t.out = s.out /\ t.writeSeq = s.writeSeq
           /\ t.over = (CASE m.type = "closed" -> IF s.over = None THEN "closed" ELSE s.over
                          [] m.type = "error" -> "failed"
                          [] OTHER -> s.over)
           /\ t.in = (CASE m.type \in {"data", "eof", "closed"} -> Append(s.in, m)
                        [] m.type = "error" -> <<>>
                        [] OTHER -> s.in)
<1>1. CASE m.type = "opened" BY <1>1 DEF Became, Tunnels
<1>2. CASE m.type = "data" BY <1>2 DEF Became, Tunnels
<1>3. CASE m.type = "ack" BY <1>3 DEF Became, Tunnels
<1>4. CASE m.type = "eof" BY <1>4 DEF Became, Tunnels
<1>5. CASE m.type = "closed" BY <1>5 DEF Became, Tunnels
<1>6. CASE m.type = "error" BY <1>6 DEF Became, Tunnels
<1> QED BY <1>1, <1>2, <1>3, <1>4, <1>5, <1>6 DEF Became

LEMMA RouteLife == ASSUME Typed, Typed', Life, Route PROVE Life'
<1>1. PICK m, c : m = Head(post) /\ c = m.conn OBVIOUS
<1>2. /\ post # <<>> /\ m \in UpMsgs /\ c \in Conns /\ post' = Tail(post) /\ tunnel[c] \in Tunnels
      /\ UNCHANGED <<agentVars, agent, lost>>
  BY <1>1, RouteCases
<1>3. post \in Seq(UpMsgs) BY DEF Typed, QueuesTyped
<1>4. ToSet(post) = {m} \cup ToSet(post') BY <1>1, <1>2, <1>3, TailLacks
<1>5. agent.up BY <1>2 DEF Life, Channels
<1>6. UNCHANGED <<conn, uplink, agent, lost>> BY <1>2 DEF agentVars
<1>7. m \in Upward(c) BY <1>1, <1>4 DEF Upward
<1>8. tunnel[c].pc \notin Early BY <1>2, <1>7 DEF Life, Unborn
<1>9. ToSet(uplink') \cup ToSet(post') \subseteq ToSet(uplink) \cup ToSet(post) BY <1>4, <1>6
<1>10. CASE ~tunnel[c].listed /\ UNCHANGED <<relayVars, downlink, blamed>>
  <2>1. UNCHANGED <<tunnel, channel, sweep, bulk, late>> BY <1>10 DEF relayVars, downlink
  <2> QED BY <1>5, <1>6, <1>9, <2>1, StillLife
<1>11. CASE Routes(c, m) /\ UNCHANGED <<downlink, blamed>>
  <2>1. PICK t \in Tunnels : SetTunnel(c, t) /\ Became(tunnel[c], m, t) BY <1>11 DEF Routes
  <2>2. /\ tunnel'[c] = t /\ (\A d \in Conns \ {c} : tunnel'[d] = tunnel[d])
        /\ channel' = channel /\ sweep' = sweep
    BY <1>2, <2>1 DEF SetTunnel, Typed, RelayTyped
  <2>3. UNCHANGED <<bulk, late>> BY <1>11 DEF downlink
  <2>4. Adds(c) BY <1>2, <1>6, <2>3, NothingAdds
  <2>5. Lives(c)' <=> Lives(c) BY <1>2, <1>6, <2>4, AddsAsks
  <2>6. Sessions(c) /\ Finished(c) /\ Ending(c) /\ Over(c) /\ OutOf(c, tunnel[c]) BY <1>2 DEF Life
  <2>7. Told(c)' <=> Told(c) BY <1>6, <2>2, <2>3 DEF Told, Ctrl, Msg
  <2>8. /\ t.pc = tunnel[c].pc /\ t.session = tunnel[c].session /\ t.listed = tunnel[c].listed
        /\ t.finished = tunnel[c].finished /\ t.out = tunnel[c].out
        /\ t.over = tunnel[c].over \/ (m.type \in {"closed", "error"} /\ t.over # None)
        /\ (tunnel[c].over # None => t.over # None)
        /\ \/ m.type \in {"data", "eof", "closed"} /\ t.in = Append(tunnel[c].in, m)
           \/ t.in = <<>> \/ t.in = tunnel[c].in
        /\ m.type = "closed" => t.over # None
    <3>1. "failed" # None /\ "closed" # None BY NoneAssumption
    <3>2. Became(tunnel[c], m, t) /\ tunnel[c] \in Tunnels BY <1>2, <2>1
    <3>3. /\ t.pc = tunnel[c].pc /\ t.session = tunnel[c].session /\ t.listed = tunnel[c].listed
          /\ t.finished = tunnel[c].finished /\ t.out = tunnel[c].out
          /\ t.over = (CASE m.type = "closed" -> IF tunnel[c].over = None THEN "closed" ELSE tunnel[c].over
                         [] m.type = "error" -> "failed"
                         [] OTHER -> tunnel[c].over)
          /\ t.in = (CASE m.type \in {"data", "eof", "closed"} -> Append(tunnel[c].in, m)
                       [] m.type = "error" -> <<>>
                       [] OTHER -> tunnel[c].in)
      BY <3>2, BecameFields
    <3>4. CASE m.type = "closed" BY <3>1, <3>3, <3>4
    <3>5. CASE m.type = "error" BY <3>1, <3>3, <3>5
    <3>6. CASE m.type \notin {"closed", "error"} BY <3>3, <3>6
    <3> QED BY <3>4, <3>5, <3>6
  <2>9. Sessions(c)' BY <1>6, <1>8, <2>2, <2>5, <2>6, <2>8 DEF Sessions, Early
  <2>10. Finished(c)'
    <3>1. tunnel[c].in \in Seq(ReadMsgs) BY <1>2, TunnelField
    <3>2. CASE m.type \in {"data", "eof", "closed"} /\ t.in = Append(tunnel[c].in, m)
      <4>1. ToSet(t.in) = ToSet(tunnel[c].in) \cup {m} BY <3>1, <3>2, AppendAdds
      <4> QED BY <2>2, <2>6, <2>8, <4>1 DEF Finished
    <3>3. CASE t.in = <<>> BY <2>2, <2>6, <2>8, <3>3, EmptyHasNone DEF Finished
    <3>4. CASE t.in = tunnel[c].in BY <2>2, <2>6, <2>8, <3>4 DEF Finished
    <3> QED BY <2>8, <3>2, <3>3, <3>4
  <2>11. Ending(c)'
    <3>1. CASE t.over = tunnel[c].over BY <2>2, <2>5, <2>6, <2>7, <2>8, <3>1 DEF Ending
    <3>2. CASE m.type \in {"closed", "error"}
      <4>1. ~Lives(c) BY <1>7, <2>6, <3>2 DEF Over
      <4> QED BY <2>5, <4>1 DEF Ending
    <3> QED BY <2>8, <3>1, <3>2
  <2>12. OutOf(c, tunnel'[c]) BY <2>2, <2>6, <2>8 DEF OutOf
  <2>13. tunnel'[c].pc \notin Early BY <1>8, <2>2, <2>8
  <2> QED BY <1>2, <1>5, <1>6, <1>9, <2>2, <2>4, <2>9, <2>10, <2>11, <2>12, <2>13, RelayLife
<1>12. CASE tunnel[c].listed /\ TakeOut(c, Failed(c)) /\ SendNonblocking(c, Ctrl("close", c))
  <2>1. UNCHANGED <<channel, sweep>> /\ tunnel' = [tunnel EXCEPT ![c] = Failed(c)] BY <1>12 DEF TakeOut
  <2>2. Adds(c) BY <1>2, <1>6, <1>12, CloseAdds
  <2>3. tunnel[c].pc # "gone"
    <3>1. Sessions(c) BY <1>2 DEF Life
    <3> QED BY <1>12, <3>1 DEF Sessions
  <2>4. Lives(c) => Told(c)' BY <1>2, <1>6, <1>12, <2>1, <2>3, SentTold
  <2> QED BY <1>2, <1>5, <1>6, <1>8, <1>9, <1>12, <2>1, <2>2, <2>4, FailedLife
<1> QED BY <1>1, <1>10, <1>11, <1>12, RouteCases

\* The agent's side of the life of a connection: c changes, and a message of it
\* may go up.
LEMMA AgentLife ==
    ASSUME Typed, Typed', Life, NEW c \in Conns, UNCHANGED <<tunnel, channel, sweep, late, lost, agent>>, agent.up,
           \A d \in Conns \ {c} : conn'[d] = conn[d] /\ Upward(d)' \subseteq Upward(d),
           bulk' = bulk \/ (bulk # <<>> /\ bulk' = Tail(bulk) /\ Head(bulk).conn = c),
           tunnel[c].pc \notin Early, ~Asked(c)', Lives(c)' => Lives(c) /\ (Told(c) => Told(c)'),
           Over(c)'
    PROVE  Life'
<1>1. bulk \in Seq(DownMsgs) BY DEF Typed, QueuesTyped
<1>2. OpenFirst'
  <2>1. CASE bulk' = bulk BY <2>1 DEF OpenFirst, Life
  <2>2. CASE bulk # <<>> /\ bulk' = Tail(bulk)
    <3>1. /\ Len(bulk) \in Nat \ {0} /\ DOMAIN bulk = 1 .. Len(bulk)
          /\ \A i \in 1 .. (Len(bulk) - 1) : bulk'[i] = bulk[i + 1]
          /\ DOMAIN bulk' = 1 .. (Len(bulk) - 1)
      BY <1>1, <2>2, TailLacks
    <3> SUFFICES ASSUME NEW i \in DOMAIN bulk', NEW j \in DOMAIN bulk',
                        bulk'[i].type = "open", bulk'[j].conn = bulk'[i].conn, j # i
                 PROVE  i < j /\ bulk'[j].type # "open"
      BY DEF OpenFirst
    <3>2. /\ i + 1 \in DOMAIN bulk /\ j + 1 \in DOMAIN bulk /\ j + 1 # i + 1 /\ i \in Nat /\ j \in Nat
          /\ bulk'[i] = bulk[i + 1] /\ bulk'[j] = bulk[j + 1]
      BY <3>1
    <3>3. i + 1 < j + 1 /\ bulk[j + 1].type # "open" BY <3>2 DEF Life, OpenFirst
    <3> QED BY <3>2, <3>3
  <2> QED BY <2>1, <2>2
<1>3. Channels' BY DEF Life, Channels
<1>4. \A x \in ToSet(bulk) : x.conn # c => x \in ToSet(bulk')
  <2>1. CASE bulk' = bulk BY <2>1
  <2>2. CASE bulk # <<>> /\ bulk' = Tail(bulk) /\ Head(bulk).conn = c
    <3>1. ToSet(bulk) = {Head(bulk)} \cup ToSet(bulk') BY <1>1, <2>2, TailLacks
    <3> QED BY <2>2, <3>1
  <2> QED BY <2>1, <2>2
<1>5. ToSet(bulk') \subseteq ToSet(bulk)
  <2>1. CASE bulk' = bulk BY <2>1
  <2>2. CASE bulk # <<>> /\ bulk' = Tail(bulk) BY <1>1, <2>2, TailLacks
  <2> QED BY <2>1, <2>2
<1>6. ASSUME NEW d \in Conns \ {c}
      PROVE  Unborn(d)' /\ Quiet(d)' /\ Over(d)' /\ Sessions(d)' /\ Finished(d)' /\ Ending(d)' /\ OutOf(d, tunnel[d])'
  <2>1. Asked(d)' <=> Asked(d) BY <1>4, <1>5 DEF Asked, IsOpen
  <2>2. Told(d) => Told(d)'
    <3>1. Ctrl("close", d).conn # c BY DEF Ctrl, Msg
    <3>2. Ctrl("close", d)' = Ctrl("close", d) BY DEF Ctrl, Msg
    <3> QED BY <1>4, <3>1, <3>2 DEF Told
  <2>3. (\A m \in Pool : m.conn # d) => \A m \in Pool' : m.conn # d BY <1>5 DEF Pool
  <2> QED BY <2>1, <2>2, <2>3, OtherLife
<1>7. Unborn(c)' /\ Quiet(c)' /\ Sessions(c)' /\ Finished(c)' /\ Ending(c)' /\ OutOf(c, tunnel[c])'
  <2>1. Sessions(c) /\ Finished(c) /\ Ending(c) /\ OutOf(c, tunnel[c]) BY DEF Life
  <2>2. Unborn(c)' /\ Quiet(c)' BY DEF Unborn, Quiet, Early
  <2>3. Sessions(c)' /\ Finished(c)' BY <2>1 DEF Sessions, Finished
  <2>4. Ending(c)' BY <2>1 DEF Ending
  <2>5. OutOf(c, tunnel[c])' BY <2>1 DEF OutOf, Early
  <2> QED BY <2>2, <2>3, <2>4, <2>5
<1> QED BY <1>2, <1>3, <1>6, <1>7 DEF Life

Living == {"connecting", "running"}

LEMMA EndFields ==
    /\ NoConn.pc = "none" /\ NoConn.in = <<>> /\ NoConn.writing = 0 /\ NoConn.readDone = FALSE
    /\ NoConn.writeDone = FALSE /\ NoConn.unacked = 0 /\ NoConn.outSeq = 0
    /\ \A c, how : LET r == Dropped(c, how)
                   IN /\ r.pc = how /\ r.in = <<>> /\ r.writing = 0 /\ r.readDone = FALSE
                      /\ r.writeDone = FALSE /\ r.unacked = 0 /\ r.outSeq = conn[c].outSeq
BY DEF NoConn, Dropped

LEMMA ConnLives ==
    ASSUME NEW c \in Conns, conn[c] \in Ends, NEW m, NEW r, SetPc(c, m, r) \/ Reads(c, m, r) \/ Writes(c, m, r)
    PROVE  /\ r.pc \in Living => /\ conn[c].pc \in Living
                                 /\ uplink' = uplink \/ m.type \notin {"closed", "error"}
<1>1. CASE SetPc(c, m, r)
  <2>1. Dropped(c, "gone").pc = "gone" BY EndFields
  <2>2. Ctrl("opened", c).type = "opened" BY DEF Ctrl, Msg
  <2>3. \A x \in {"running", "failing", "closing", "reported"} : [conn[c] EXCEPT !.pc = x].pc = x BY DEF Ends
  <2> QED BY <1>1, <2>1, <2>2, <2>3 DEF SetPc, Living
<1>2. CASE Reads(c, m, r)
  <2>1. m.type \in {"data", "eof"}
    <3>1. Ctrl("eof", c).type = "eof" /\ \A n : Msg("data", c, conn[c].outSeq, n).type = "data" BY DEF Ctrl, Msg
    <3> QED BY <1>2, <3>1 DEF Reads
  <2>2. conn[c].pc = "running" BY <1>2 DEF Reads
  <2> QED BY <2>1, <2>2 DEF Living
<1>3. CASE Writes(c, m, r)
  <2>1. conn[c].pc = "running" BY <1>3 DEF Writes
  <2>2. uplink' = uplink \/ m.type = "ack" BY <1>3 DEF Writes, Msg
  <2> QED BY <2>1, <2>2 DEF Living
<1> QED BY <1>1, <1>2, <1>3

LEMMA ConnDoesLife == ASSUME Typed, Typed', Life, NEW c \in Conns, ConnDoes(c) PROVE Life'
<1>1. PICK r \in Ends, m \in UpMsgs :
        /\ c \in Records /\ Talks(c, r, m) /\ m.conn = c
        /\ SetPc(c, m, r) \/ Reads(c, m, r) \/ Writes(c, m, r)
  BY DEF ConnDoes
<1>2. conn \in [Conns -> Ends] /\ uplink \in Seq(UpMsgs) BY DEF Typed, AgentTyped
<1>3. /\ UNCHANGED <<tunnel, channel, sweep, bulk, late, lost, post, agent>>
      /\ conn' = [conn EXCEPT ![c] = r] /\ uplink' \in {uplink, Append(uplink, m)}
  BY <1>1 DEF Talks, SetConn, relayVars, downlink, batch, history
<1>4. conn'[c] = r /\ \A d \in Conns \ {c} : conn'[d] = conn[d] BY <1>2, <1>3
<1>5. agent.up BY <1>1 DEF Life, Channels
<1>6. conn[c].pc # "none" BY <1>1 DEF Records
<1>7. tunnel[c].pc \notin Early /\ ~Asked(c) BY <1>6 DEF Life, Unborn, Quiet
<1>8. r.pc \in Living => conn[c].pc \in Living /\ (uplink' = uplink \/ m.type \notin {"closed", "error"})
  BY <1>1, <1>2, ConnLives
<1>9. ToSet(uplink') = ToSet(uplink) \/ ToSet(uplink') = ToSet(uplink) \cup {m}
  <2>1. CASE uplink' = uplink BY <2>1
  <2>2. CASE uplink' = Append(uplink, m) BY <1>2, <2>2, AppendAdds
  <2> QED BY <1>3, <2>1, <2>2
<1>10. ~Asked(c)' BY <1>3, <1>7 DEF Asked
<1>11. (Lives(c)' <=> r.pc \in Living) /\ (Lives(c) <=> conn[c].pc \in Living) BY <1>4, <1>7, <1>10 DEF Lives, Living
<1>12. Over(c)'
  <2> SUFFICES ASSUME Lives(c)', NEW x \in Upward(c)' PROVE x.type \notin {"closed", "error"} BY DEF Over
  <2>1. Over(c) /\ Lives(c) BY <1>8, <1>11 DEF Life
  <2>2. CASE x \in Upward(c) BY <2>1, <2>2 DEF Over
  <2>3. CASE x \notin Upward(c)
    <3>1. x = m /\ uplink' # uplink BY <1>3, <1>9, <2>3 DEF Upward
    <3> QED BY <1>8, <1>11, <3>1
  <2> QED BY <2>2, <2>3
<1>13. \A d \in Conns \ {c} : Upward(d)' \subseteq Upward(d) BY <1>1, <1>3, <1>9 DEF Upward
<1>14. Told(c) => Told(c)' BY <1>3 DEF Told, Ctrl, Msg
<1> QED BY <1>3, <1>4, <1>5, <1>7, <1>8, <1>10, <1>11, <1>12, <1>13, <1>14, AgentLife

LEMMA ReceivesLife == ASSUME Typed, Typed', Life, AgentReceives PROVE Life'
<1>1. PICK m, c : m = Head(bulk) /\ c = m.conn OBVIOUS
<1>2. /\ agent.up /\ bulk # <<>> /\ m \in DownMsgs /\ c \in Conns /\ conn[c] \in Ends
      /\ bulk' = Tail(bulk) /\ UNCHANGED agentElse /\ Handled(m, c)
  BY <1>1, ReceiveCases
<1>3. UNCHANGED <<tunnel, channel, sweep, late, lost, post, agent>> BY <1>2 DEF agentElse, relayVars, batch, history
<1>4. bulk \in Seq(DownMsgs) /\ conn \in [Conns -> Ends] /\ uplink \in Seq(UpMsgs) BY DEF Typed, QueuesTyped, AgentTyped
<1>5. ToSet(bulk) = {m} \cup ToSet(bulk') BY <1>1, <1>2, <1>4, TailLacks
<1>6. tunnel[c].pc \notin Early
  <2>1. Unborn(c) BY <1>2 DEF Life
  <2> QED BY <1>1, <1>5, <2>1 DEF Unborn
<1>7. ~Asked(c)'
  <2>1. /\ Len(bulk) \in Nat \ {0} /\ DOMAIN bulk = 1 .. Len(bulk) /\ bulk[1] = m
        /\ \A i \in 1 .. (Len(bulk) - 1) : bulk'[i] = bulk[i + 1]
        /\ DOMAIN bulk' = 1 .. (Len(bulk) - 1)
    BY <1>1, <1>2, <1>4, TailLacks
  <2> SUFFICES ASSUME NEW i \in 1 .. (Len(bulk) - 1), IsOpen(bulk'[i], c) PROVE FALSE BY <2>1 DEF Asked, ToSet
  <2>2. i + 1 \in DOMAIN bulk /\ 1 \in DOMAIN bulk /\ i + 1 # 1 /\ ~(i + 1 < 1) BY <2>1
  <2>3. bulk[i + 1].type = "open" /\ bulk[i + 1].conn = bulk[1].conn BY <1>1, <2>1 DEF IsOpen
  <2> QED BY <2>2, <2>3 DEF Life, OpenFirst
<1>8. uplink' = uplink \/ uplink' = Append(uplink, Ctrl("error", c)) BY <1>2 DEF Handled
<1>9. ToSet(uplink') = ToSet(uplink) \/ ToSet(uplink') = ToSet(uplink) \cup {Ctrl("error", c)}
  <2>1. CASE uplink' = uplink BY <2>1
  <2>2. CASE uplink' = Append(uplink, Ctrl("error", c)) BY <1>4, <2>2, AppendAdds
  <2> QED BY <1>8, <2>1, <2>2
<1>10. Ctrl("error", c).conn = c BY DEF Ctrl, Msg
<1>11. ASSUME NEW d \in Conns \ {c} PROVE conn'[d] = conn[d] /\ Upward(d)' \subseteq Upward(d)
  <2>1. conn'[d] = conn[d] BY <1>2, <1>4 DEF Handled
  <2>2. Upward(d)' \subseteq Upward(d) BY <1>3, <1>9, <1>10 DEF Upward
  <2> QED BY <2>1, <2>2
<1>12. Quiet(c) /\ Over(c) BY <1>2 DEF Life
<1>13. m.type = "open" => Asked(c) BY <1>1, <1>5 DEF Asked, IsOpen
<1>14. conn[c].pc \in Living => c \in Records BY <1>2 DEF Records, Living
\* Whatever lives had lived; what is closed does not, nor does what has said its last.
<1>15. conn'[c].pc \in Living => /\ Lives(c) /\ m.type # "close"
                                 /\ uplink' = uplink
  <2>1. CASE m.type = "open" /\ uplink' = uplink BY <1>13, <2>1 DEF Lives
  <2>2. CASE m.type = "open" /\ UNCHANGED conn
    <3>1. conn[c].pc = "none" BY <1>12, <1>13, <2>2 DEF Quiet
    <3> QED BY <2>2, <3>1 DEF Living
  <2>3. CASE m.type \in {"data", "ack", "eof"} /\ UNCHANGED <<conn, uplink>>
    BY <2>3 DEF Lives, Living
  <2>4. CASE m.type \in {"data", "eof"} /\ uplink' = uplink
             /\ conn' = [conn EXCEPT ![c] = [conn[c] EXCEPT !.in = Append(conn[c].in, m)]]
    <3>1. conn'[c].pc = conn[c].pc BY <1>2, <1>4, <2>4 DEF Ends
    <3> QED BY <2>4, <3>1 DEF Lives, Living
  <2>5. CASE conn' = [conn EXCEPT ![c] = Dropped(c, "gone")]
    <3>1. conn'[c].pc = "gone" BY <1>2, <1>4, <2>5, EndFields
    <3> QED BY <3>1 DEF Living
  <2>6. CASE m.type = "ack" /\ uplink' = uplink
             /\ conn' = [conn EXCEPT ![c] = [conn[c] EXCEPT !.unacked = Minus(conn[c].unacked, m.bytes)]]
    <3>1. conn'[c].pc = conn[c].pc BY <1>2, <1>4, <2>6 DEF Ends
    <3> QED BY <2>6, <3>1 DEF Lives, Living
  <2>7. CASE conn' = [conn EXCEPT ![c] = IF c \in Records THEN Dropped(c, "closed") ELSE conn[c]]
    <3>1. c \in Records => conn'[c].pc = "closed" BY <1>2, <1>4, <2>7, EndFields
    <3>2. c \notin Records => conn'[c] = conn[c] BY <1>2, <1>4, <2>7
    <3> QED BY <1>14, <3>1, <3>2 DEF Living
  <2> QED BY <1>2, <2>1, <2>2, <2>3, <2>4, <2>5, <2>6, <2>7 DEF Handled
<1>16. Lives(c)' => conn'[c].pc \in Living BY <1>7 DEF Lives, Living
<1>17. Over(c)'
  <2> SUFFICES ASSUME Lives(c)', NEW x \in Upward(c)' PROVE x.type \notin {"closed", "error"} BY DEF Over
  <2>1. Lives(c) /\ uplink' = uplink BY <1>15, <1>16
  <2>2. x \in Upward(c) BY <1>3, <2>1 DEF Upward
  <2> QED BY <1>12, <2>1, <2>2 DEF Over
<1>18. m.type # "close" /\ Told(c) => Told(c)'
  <2>1. Ctrl("close", c).type = "close" /\ Ctrl("close", c)' = Ctrl("close", c) BY DEF Ctrl, Msg
  <2> QED BY <1>3, <1>5, <2>1 DEF Told
<1>19. Lives(c)' => Lives(c) /\ (Told(c) => Told(c)') BY <1>15, <1>16, <1>18
<1> QED BY <1>1, <1>2, <1>3, <1>6, <1>7, <1>11, <1>17, <1>19, AgentLife

\* Connections and messages are lost.
LEMMA LessLife ==
    ASSUME Typed, Typed', Life, UNCHANGED <<tunnel, channel, sweep, lost>>,
           agent'.session = agent.session, agent'.untold = agent.untold,
           \A d \in Conns : \/ conn'[d] = conn[d]
                            \/ d \in Records /\ conn'[d].pc \notin Living \cup {"none"},
           bulk' \in {bulk, <<>>}, late' \in {late, <<>>},
           ToSet(uplink') \cup ToSet(post') \subseteq ToSet(uplink) \cup ToSet(post),
           \A d \in Conns : Told(d) => Told(d)',
           ~agent'.up => /\ ~agent'.linked /\ bulk' = <<>> /\ late' = <<>> /\ uplink' = <<>> /\ post' = <<>>
                         /\ Records' = {}
    PROVE  Life'
<1>1. OpenFirst'
  <2>1. CASE bulk' = bulk BY <2>1 DEF OpenFirst, Life
  <2>2. CASE bulk' = <<>>
    <3>1. DOMAIN bulk' = {} BY <2>2
    <3> QED BY <3>1 DEF OpenFirst
  <2> QED BY <2>1, <2>2
<1>2. Channels' BY DEF Life, Channels
<1>3. ToSet(bulk') \subseteq ToSet(bulk) /\ ToSet(late') \subseteq ToSet(late) BY EmptyHasNone
<1>4. ASSUME NEW d \in Conns
      PROVE  Unborn(d)' /\ Quiet(d)' /\ Over(d)' /\ Sessions(d)' /\ Finished(d)' /\ Ending(d)' /\ OutOf(d, tunnel[d])'
  <2>1. Unborn(d) /\ Quiet(d) /\ Over(d) /\ Sessions(d) /\ Finished(d) /\ Ending(d) /\ OutOf(d, tunnel[d]) BY DEF Life
  <2>2. Asked(d)' => Asked(d) BY <1>3 DEF Asked
  <2>3. conn[d].pc = "none" => conn'[d].pc = "none" BY DEF Records
  <2>4. Lives(d)' => Lives(d) BY <2>2 DEF Lives, Living
  <2>5. Upward(d)' \subseteq Upward(d) BY DEF Upward
  <2>6. Unborn(d)' BY <1>3, <2>1, <2>3, <2>5 DEF Unborn, Early
  <2>7. Quiet(d)' BY <2>1, <2>2, <2>3, <2>5 DEF Quiet
  <2>8. Over(d)' BY <2>1, <2>4, <2>5 DEF Over
  <2>9. Sessions(d)' /\ Finished(d)' BY <2>1, <2>4 DEF Sessions, Finished
  <2>10. Ending(d)' BY <2>1, <2>4 DEF Ending
  <2>11. OutOf(d, tunnel[d])' BY <2>1 DEF OutOf, Early
  <2> QED BY <2>6, <2>7, <2>8, <2>9, <2>10, <2>11
<1> QED BY <1>1, <1>2, <1>4 DEF Life

LEMMA PostFailsLife == ASSUME Typed, Typed', Life, PostFails PROVE Life'
<1>1. UNCHANGED <<tunnel, channel, sweep, bulk, late, lost, uplink, agent>> /\ post' = <<>>
  BY DEF PostFails, relayVars, downlink
<1>2. Records' = {} /\ \A c \in Conns : conn'[c] = IF c \in Records THEN Dropped(c, "gone") ELSE conn[c]
  BY AllDropped DEF PostFails, Aborted
<1>3. \A d \in Conns : conn'[d] = conn[d] \/ (d \in Records /\ conn'[d].pc \notin Living \cup {"none"})
  BY <1>2, EndFields DEF Living
<1>4. ToSet(uplink') \cup ToSet(post') \subseteq ToSet(uplink) \cup ToSet(post) BY <1>1, EmptyHasNone
<1>5. \A d \in Conns : Told(d) => Told(d)' BY <1>1 DEF Told, Ctrl, Msg
<1>6. ~agent'.up => /\ ~agent'.linked /\ bulk' = <<>> /\ late' = <<>> /\ uplink' = <<>> /\ post' = <<>>
                    /\ Records' = {}
  BY <1>1, <1>2 DEF Life, Channels
<1> QED BY <1>1, <1>3, <1>4, <1>5, <1>6, LessLife

LEMMA SessionEndsLife == ASSUME Typed, Typed', Life, SessionEnds PROVE Life'
<1>1. UNCHANGED <<tunnel, channel, sweep, lost>>
      /\ bulk' = <<>> /\ late' = <<>> /\ uplink' = <<>> /\ post' = <<>>
      /\ agent' = [agent EXCEPT !.up = FALSE, !.linked = FALSE]
  BY DEF SessionEnds, relayVars, history
<1>2. agent'.session = agent.session /\ ~agent'.linked /\ agent'.untold = agent.untold BY <1>1 DEF Typed, AgentTyped
<1>3. Records' = {} /\ \A c \in Conns : conn'[c] = IF c \in Records THEN Dropped(c, "down") ELSE conn[c]
  BY AllDropped DEF SessionEnds
<1>4. \A d \in Conns : conn'[d] = conn[d] \/ (d \in Records /\ conn'[d].pc \notin Living \cup {"none"})
  BY <1>3, EndFields DEF Living
<1>5. ToSet(uplink') \cup ToSet(post') \subseteq ToSet(uplink) \cup ToSet(post) BY <1>1, EmptyHasNone
<1>6. \A d \in Conns : Told(d)' BY <1>2 DEF Told
<1> QED BY <1>1, <1>2, <1>3, <1>4, <1>5, <1>6, LessLife

LEMMA LoseDownlinkLife == ASSUME Typed, Typed', Life, LoseDownlink PROVE Life'
<1>1. UNCHANGED <<tunnel, channel, sweep, lost, conn, uplink, post>>
      /\ bulk' = <<>> /\ late' = <<>> /\ agent.up
      /\ agent' = [agent EXCEPT !.linked = FALSE]
  BY DEF LoseDownlink, relayVars, agentVars, batch, history
<1>2. agent'.session = agent.session /\ ~agent'.linked /\ agent'.up /\ agent'.untold = agent.untold BY <1>1 DEF Typed, AgentTyped
<1>3. \A d \in Conns : Told(d)' BY <1>2 DEF Told
<1> QED BY <1>1, <1>2, <1>3, LessLife

LEMMA SessionBeginsLife == ASSUME Typed, Life, SessionBegins PROVE Life'
<1>1. UNCHANGED <<tunnel, sweep, bulk, late, lost, conn, uplink, post>> /\ ~agent.up
      /\ agent' = [agent EXCEPT !.session = @ + 1, !.up = TRUE, !.linked = TRUE] /\ channel' = agent'.session
  BY DEF SessionBegins, downlink, agentVars, batch, history
<1>2. agent.session \in Nat BY DEF Typed, AgentTyped
<1>3. agent'.session = agent.session + 1 /\ agent'.up /\ agent'.linked BY <1>1 DEF Typed, AgentTyped
<1>4. OpenFirst' BY <1>1 DEF Life, OpenFirst
<1>5. Channels' BY <1>1, <1>2, <1>3 DEF Channels
<1>6. bulk = <<>> /\ Records = {} BY <1>1 DEF Life, Channels
<1>7. ASSUME NEW d \in Conns
      PROVE  Unborn(d)' /\ Quiet(d)' /\ Over(d)' /\ Sessions(d)' /\ Finished(d)' /\ Ending(d)' /\ OutOf(d, tunnel[d])'
  <2>1. Unborn(d) /\ Quiet(d) /\ Sessions(d) /\ Finished(d) /\ OutOf(d, tunnel[d]) BY DEF Life
  <2>2. ~Asked(d)' BY <1>1, <1>6, EmptyHasNone DEF Asked
  <2>3. ~Lives(d)' BY <1>1, <1>6, <2>2 DEF Lives, Records
  <2>4. Unborn(d)'
    <3>1. Upward(d)' = Upward(d) BY <1>1 DEF Upward
    <3> QED BY <1>1, <2>1, <3>1 DEF Unborn, Early
  <2>5. Quiet(d)' /\ Over(d)' /\ Ending(d)' BY <2>2, <2>3 DEF Quiet, Over, Ending
  <2>6. tunnel[d].session \in Nat
    <3>1. tunnel[d] \in Tunnels BY DEF Typed, RelayTyped
    <3> QED BY <3>1, TunnelField
  <2>7. tunnel'[d] = tunnel[d] /\ tunnel[d].session <= agent.session + 1 /\ tunnel[d].session # agent.session + 1
    BY <1>1, <1>2, <2>1, <2>6 DEF Sessions
  <2>8. Sessions(d)' BY <1>3, <2>1, <2>3, <2>7 DEF Sessions
  <2>9. Finished(d)' /\ OutOf(d, tunnel[d])' BY <2>1, <2>7 DEF Finished, OutOf, Early
  <2> QED BY <2>4, <2>5, <2>8, <2>9
<1> QED BY <1>4, <1>5, <1>7 DEF Life

LEMMA InitLife == Init => Life
<1> SUFFICES ASSUME Init PROVE Life OBVIOUS
<1>1. /\ bulk = <<>> /\ late = <<>> /\ lost = <<>> /\ uplink = <<>> /\ post = <<>>
      /\ channel = 1 /\ sweep = None /\ agent.session = 1 /\ agent.up
  BY DEF Init
<1>2. OpenFirst
  <2>1. DOMAIN bulk = {} BY <1>1
  <2> QED BY <2>1 DEF OpenFirst
<1>3. Channels BY <1>1 DEF Channels
<1>4. ASSUME NEW c \in Conns
      PROVE  Unborn(c) /\ Quiet(c) /\ Over(c) /\ Sessions(c) /\ Finished(c) /\ Ending(c) /\ OutOf(c, tunnel[c])
  <2>1. tunnel[c] = NoTunnel /\ conn[c] = NoConn BY DEF Init
  <2>2. /\ tunnel[c].pc = "new" /\ tunnel[c].session = 0 /\ tunnel[c].listed = FALSE /\ tunnel[c].over = None
        /\ tunnel[c].finished = FALSE /\ tunnel[c].in = <<>> /\ tunnel[c].out = <<>>
    BY <2>1 DEF NoTunnel
  <2>3. conn[c].pc = "none" BY <2>1, EndFields
  <2>4. ~Asked(c) /\ Upward(c) = {} BY <1>1, EmptyHasNone DEF Asked, Upward
  <2>5. ~Lives(c) BY <2>3, <2>4 DEF Lives
  <2>6. Unborn(c) BY <1>1, <2>3, <2>4, EmptyHasNone DEF Unborn
  <2>7. Sessions(c) BY <1>1, <2>2, <2>5 DEF Sessions
  <2>8. Finished(c) /\ OutOf(c, tunnel[c]) BY <2>2, EmptyHasNone DEF Finished, OutOf
  <2> QED BY <2>4, <2>5, <2>6, <2>7, <2>8 DEF Quiet, Over, Ending
<1> QED BY <1>2, <1>3, <1>4 DEF Life

LEMMA LifeStep == ASSUME Typed, Life, [Next]_vars PROVE Life'
<1> USE TypedStep
<1>1. CASE UNCHANGED vars BY <1>1, PostSucceedsLife
<1>2. ASSUME NEW c \in Conns, RelayStep(c) PROVE Life'
  <2>1. OpenFails(c) => Drop(c) /\ tunnel[c].pc # "gone" BY DEF OpenFails
  <2> QED BY <1>2, <2>1, OpenCountsLife, OpenInsertsLife, OpenSendsLife, OpenSucceedsLife, DropLife,
       OpenTimesOutLife, WriterSendsLife, SweepRemovesLife DEF RelayStep
<1>3. ASSUME NEW c \in Conns, User(c) PROVE Life'
  <2>1. UserDrops(c) => Drop(c) /\ tunnel[c].pc # "gone" BY DEF UserDrops
  <2> QED BY <1>3, <2>1, OpenLooksLife, OpenSendTimesOutLife, UserWritesLife, UserShutsDownLife, UserReadsLife,
       UserConsumesLife, UserReadsErrorLife, DropLife DEF User
<1>4. ASSUME NEW c \in Conns, AgentStep(c) \/ Target(c) PROVE Life'
  <2>1. ConnActs(c) BY <1>4 DEF ConnActs, AgentStep, Target
  <2> QED BY <2>1, ConnStep, ConnDoesLife
<1>5. CASE LateSend \/ LateTimesOut BY <1>5, LateLife
<1>6. CASE Uncount \/ SweepEnds BY <1>6, UncountLife
<1>7. CASE Route BY <1>7, RouteLife
<1>8. CASE AgentReceives BY <1>8, ReceivesLife
<1>9. CASE UplinkTakes BY <1>9, UplinkTakesLife
<1>10. CASE PostSucceeds BY <1>10, PostSucceedsLife
<1>11. CASE SessionEnds BY <1>11, SessionEndsLife
<1>12. CASE PostFails BY <1>12, PostFailsLife
<1>13. CASE LoseDownlink BY <1>13, LoseDownlinkLife
<1>14. CASE SessionBegins BY <1>14, SessionBeginsLife
<1>15. CASE SessionRemoved \/ RemovalSweeps \/ \E s \in streams : StreamDropped(s) BY <1>15, StreamLife
<1> QED BY <1>1, <1>2, <1>3, <1>4, <1>5, <1>6, <1>7, <1>8, <1>9, <1>10, <1>11, <1>12, <1>13, <1>14, <1>15
     DEF Next, Tasks

\* No slot of the agent is forgotten: while it holds the record of a tunnel that
\* the relay is done with, it will be told so, has missed it, or is about to lose
\* its session.
THEOREM SlotsAreReturned == Spec => []SlotsReturned
<1>1. Init => Typed /\ Life BY InitTyped, InitLife
<1>2. Typed /\ Life /\ [Next]_vars => (Typed /\ Life)' BY TypedStep, LifeStep
<1>3. Typed /\ Life => SlotsReturned
  <2> SUFFICES ASSUME Life, NEW c \in Records, tunnel[c].pc = "gone"
               PROVE  conn[c].pc \in {"closing", "failing", "reported"} \/ Told(c)
    BY DEF SlotsReturned, Told
  <2>1. Ending(c) BY DEF Life, Records
  <2> QED BY <2>1 DEF Ending, Lives, Records
<1> QED BY <1>1, <1>2, <1>3, PTL DEF Spec

-----------------------------------------------------------------------------
(***************************************************************************)
(* The order of what the target sends.                                      *)
(***************************************************************************)
Stream(c) == {m \in UpMsgs : m.conn = c /\ m.type \in {"data", "eof", "closed"}}

\* What the relay will still be given of it
Coming(c) ==
    IF c \in closed THEN Kept(post, Stream(c)) ELSE Kept(post, Stream(c)) \o Kept(uplink, Stream(c))

\* First the data with the numbers from the first to the one before next, then
\* the end.
Runs(queue, first, next) ==
    \A i \in DOMAIN queue :
        /\ queue[i].type = "data" <=> first + i <= next
        /\ queue[i].type = "data" => queue[i].seq = first + i - 1

\* Of a connection whose task still reads no data is missing.
Reading == {"connecting", "running", "closing"}

Ordered(c) ==
    /\ tunnel[c].readSeq <= conn[c].outSeq
    /\ Runs(Coming(c), tunnel[c].readSeq, conn[c].outSeq)
    /\ conn[c].pc \in Reading => conn[c].outSeq <= tunnel[c].readSeq + Len(Coming(c))

\* The target sends no more.
Silenced(c) == conn[c].readDone \/ conn[c].pc \notin {"none", "connecting", "running"}

\* The end comes after all the data.
Complete(c) == tunnel[c].readSeq = conn[c].outSeq /\ Silenced(c)
Ended(m) == m.type \in {"eof", "closed"}

EndSeen(c) ==
    /\ \A i \in DOMAIN tunnel[c].in : Ended(tunnel[c].in[i]) =>
          Complete(c) /\ \A j \in DOMAIN tunnel[c].in : i < j => tunnel[c].in[j].type # "data"
    /\ tunnel[c].readEof => Complete(c) /\ \A m \in ToSet(tunnel[c].in) : m.type # "data"
    /\ (\E m \in Upward(c) : Ended(m)) => Silenced(c)

\* Nothing has come before the connection is asked for.
Fresh(c) ==
    /\ conn[c].pc = "none" => conn[c] = NoConn
    /\ tunnel[c].pc \in Early \/ Asked(c) =>
          tunnel[c].in = <<>> /\ tunnel[c].readSeq = 0 /\ ~tunnel[c].readEof

InOrder(c) == Fresh(c) /\ (failures = 0 => (tunnel[c].listed => Ordered(c)) /\ EndSeen(c))

Order == (~posting => post = <<>>) /\ \A c \in Conns : InOrder(c)

\* What is kept of a queue, part by part
LEMMA KeptConcat ==
    ASSUME NEW S, NEW a \in Seq(S), NEW b \in Seq(S), NEW K
    PROVE  Kept(a \o b, K) = Kept(a, K) \o Kept(b, K)
<1> DEFINE P == {q \in Seq(S) : Kept(a \o q, K) = Kept(a, K) \o Kept(q, K)}
<1>1. <<>> \in P
  <2>1. a \o <<>> = a /\ Kept(a, K) \o <<>> = Kept(a, K) BY KeptTyped, ConcatEmptySeq
  <2>2. <<>> \in Seq(S) OBVIOUS
  <2> QED BY <2>1, <2>2, KeptEmpty
<1>2. ASSUME NEW q \in P, NEW m \in S PROVE Append(q, m) \in P
  <2> DEFINE x == Kept(a, K)
             y == Kept(q, K)
  <2>1. x \in Seq(S) /\ y \in Seq(S) /\ q \in Seq(S) /\ a \o q \in Seq(S) BY KeptTyped, ConcatProperties
  <2>2. \A u, v \in Seq(S) : u \o Append(v, m) = Append(u \o v, m) OBVIOUS
  <2>3. a \o Append(q, m) = Append(a \o q, m) /\ x \o Append(y, m) = Append(x \o y, m) BY <2>1, <2>2
  <2>4. Kept(a \o q, K) = x \o y OBVIOUS
  <2>5. Kept(Append(a \o q, m), K) = IF m \in K THEN Append(x \o y, m) ELSE x \o y
    <3> DEFINE z == a \o q
    <3>1. z \in Seq(S) BY <2>1
    <3>2. Kept(z, K) = x \o y BY <2>4
    <3> HIDE DEF x, y, z, P
    <3>3. Kept(Append(z, m), K) = IF m \in K THEN Append(Kept(z, K), m) ELSE Kept(z, K) BY <3>1, KeptAppend
    <3> QED BY <3>2, <3>3 DEF z
  <2>6. Kept(Append(q, m), K) = IF m \in K THEN Append(y, m) ELSE y BY <2>1, KeptAppend
  <2>7. Append(q, m) \in Seq(S) BY <2>1
  <2> HIDE DEF x, y
  <2>8. Kept(a \o Append(q, m), K) = x \o Kept(Append(q, m), K) BY <2>3, <2>5, <2>6
  <2> QED BY <2>7, <2>8 DEF x
<1>3. P = Seq(S)
  <2> HIDE DEF P
  <2>1. P \subseteq Seq(S) BY DEF P
  <2> QED BY <1>1, <1>2, <2>1, AppendByAppend
<1> QED BY <1>3

LEMMA HeadAndTail == ASSUME NEW S, NEW q \in Seq(S), q # <<>> PROVE q = <<Head(q)>> \o Tail(q) /\ <<Head(q)>> \in Seq(S)
<1>1. Head(q) \in S /\ Tail(q) \in Seq(S) /\ Len(q) \in Nat \ {0} /\ Len(Tail(q)) = Len(q) - 1 /\ Head(q) = q[1]
      /\ \A i \in 1 .. (Len(q) - 1) : Tail(q)[i] = q[i + 1]
  BY TailLacks
<1> DEFINE h == <<Head(q)>>
           r == h \o Tail(q)
<1>2. h \in Seq(S) /\ Len(h) = 1 /\ h[1] = Head(q) BY <1>1
<1> HIDE DEF h
<1>3. /\ r \in Seq(S) /\ Len(r) = 1 + (Len(q) - 1)
      /\ \A i \in 1 .. (1 + (Len(q) - 1)) : r[i] = IF i <= 1 THEN h[i] ELSE Tail(q)[i - 1]
  <2>1. /\ r \in Seq(S) /\ Len(r) = Len(h) + Len(Tail(q))
        /\ \A i \in 1 .. (Len(h) + Len(Tail(q))) : r[i] = IF i <= Len(h) THEN h[i] ELSE Tail(q)[i - Len(h)]
    BY <1>1, <1>2, ConcatProperties
  <2> HIDE DEF r
  <2> QED BY <1>1, <1>2, <2>1
<1>4. 1 + (Len(q) - 1) = Len(q) BY <1>1
<1>5. \A i \in 1 .. Len(q) : r[i] = q[i]
  <2> SUFFICES ASSUME NEW i \in 1 .. Len(q) PROVE r[i] = q[i] OBVIOUS
  <2>1. CASE i = 1 BY <1>1, <1>2, <1>3, <1>4, <2>1
  <2>2. CASE i # 1
    <3>1. ~(i <= 1) /\ i - 1 \in 1 .. (Len(q) - 1) /\ (i - 1) + 1 = i BY <1>1, <2>2
    <3> QED BY <1>1, <1>3, <1>4, <3>1
  <2> QED BY <2>1, <2>2
<1> HIDE DEF r
<1>6. r = q BY <1>3, <1>4, <1>5, SeqEqual
<1> QED BY <1>2, <1>6 DEF r, h

LEMMA KeptHead ==
    ASSUME NEW S, NEW q \in Seq(S), q # <<>>, NEW K
    PROVE  Kept(q, K) = IF Head(q) \in K THEN <<Head(q)>> \o Kept(Tail(q), K) ELSE Kept(Tail(q), K)
<1> DEFINE h == <<Head(q)>>
<1>1. q = h \o Tail(q) /\ h \in Seq(S) /\ Tail(q) \in Seq(S) /\ Head(q) \in S BY HeadAndTail, TailLacks
<1>2. Kept(h, K) = IF Head(q) \in K THEN h ELSE <<>>
  <2>1. h = Append(<<>>, Head(q)) /\ <<>> \in Seq(S) BY <1>1
  <2>2. Kept(Append(<<>>, Head(q)), K) = IF Head(q) \in K THEN Append(<<>>, Head(q)) ELSE <<>>
    <3> DEFINE e == <<>>
    <3>1. e \in Seq(S) /\ Kept(e, K) = <<>> BY KeptEmpty
    <3> HIDE DEF e
    <3>2. Kept(Append(e, Head(q)), K) = IF Head(q) \in K THEN Append(Kept(e, K), Head(q)) ELSE Kept(e, K)
      BY <1>1, <3>1, KeptAppend
    <3>3. Kept(Append(e, Head(q)), K) = IF Head(q) \in K THEN Append(<<>>, Head(q)) ELSE <<>> BY <3>1, <3>2
    <3> QED BY <3>3 DEF e
  <2> QED BY <2>1, <2>2
<1> HIDE DEF h
<1>3. Kept(q, K) = Kept(h, K) \o Kept(Tail(q), K)
  <2> DEFINE t == Tail(q)
  <2>0. h \in Seq(S) /\ t \in Seq(S) BY <1>1
  <2> HIDE DEF t
  <2>1. Kept(h \o t, K) = Kept(h, K) \o Kept(t, K) BY <2>0, KeptConcat
  <2> QED BY <1>1, <2>1 DEF t
<1>4. <<>> \o Kept(Tail(q), K) = Kept(Tail(q), K) BY <1>1, KeptTyped, ConcatEmptySeq
<1> QED BY <1>2, <1>3, <1>4 DEF h

LEMMA NoneInside == ASSUME NEW S, NEW q \in Seq(S), ToSet(q) = {} PROVE q = <<>>
<1>1. CASE q # <<>>
  <2>1. ToSet(q) = {Head(q)} \cup ToSet(Tail(q)) BY <1>1, TailLacks
  <2> QED BY <2>1
<1> QED BY <1>1

LEMMA NoneKept ==
    ASSUME NEW S, NEW q \in Seq(S), NEW K, ToSet(q) \cap K = {} PROVE Kept(q, K) = <<>>
<1>1. ToSet(Kept(q, K)) = {} /\ Kept(q, K) \in Seq(S) BY KeptAmong, KeptTyped
<1> QED BY <1>1, NoneInside

LEMMA KeptTwice ==
    ASSUME NEW S, NEW q \in Seq(S), NEW K, NEW L, L \subseteq K PROVE Kept(Kept(q, K), L) = Kept(q, L)
<1> DEFINE P == {x \in Seq(S) : Kept(Kept(x, K), L) = Kept(x, L)}
<1>1. <<>> \in P
  <2>1. <<>> \in Seq(S) OBVIOUS
  <2> QED BY <2>1, KeptEmpty
<1>2. ASSUME NEW x \in P, NEW m \in S PROVE Append(x, m) \in P
  <2>1. x \in Seq(S) /\ Kept(x, K) \in Seq(S) /\ Append(x, m) \in Seq(S) /\ Kept(Kept(x, K), L) = Kept(x, L) BY KeptTyped
  <2>2. Kept(Append(x, m), L) = IF m \in L THEN Append(Kept(x, L), m) ELSE Kept(x, L) BY <2>1, KeptAppend
  <2>3. CASE m \in K
    <3>1. Kept(Append(x, m), K) = Append(Kept(x, K), m) BY <2>1, <2>3, KeptAppend
    <3>2. Kept(Append(Kept(x, K), m), L) = IF m \in L THEN Append(Kept(Kept(x, K), L), m) ELSE Kept(Kept(x, K), L)
      <4> DEFINE y == Kept(x, K)
      <4>1. y \in Seq(S) BY <2>1
      <4> HIDE DEF y
      <4>2. Kept(Append(y, m), L) = IF m \in L THEN Append(Kept(y, L), m) ELSE Kept(y, L) BY <4>1, KeptAppend
      <4> QED BY <4>2 DEF y
    <3> QED BY <2>1, <2>2, <3>1, <3>2
  <2>4. CASE m \notin K
    <3>1. Kept(Append(x, m), K) = Kept(x, K) BY <2>1, <2>4, KeptAppend
    <3> QED BY <2>1, <2>2, <2>4, <3>1
  <2> QED BY <2>3, <2>4
<1>3. P = Seq(S)
  <2> HIDE DEF P
  <2>1. P \subseteq Seq(S) BY DEF P
  <2> QED BY <1>1, <1>2, <2>1, AppendByAppend
<1> QED BY <1>3

\* The order of a queue when one message is added or taken
LEMMA RunsHead ==
    ASSUME NEW m \in UpMsgs, NEW r \in Seq(UpMsgs), NEW first \in Nat, NEW next \in Nat,
           Runs(<<m>> \o r, first, next)
    PROVE  /\ m.type = "data" => first + 1 <= next /\ m.seq = first /\ Runs(r, first + 1, next)
           /\ m.type # "data" => next <= first /\ Runs(r, first, next)
           /\ Len(<<m>> \o r) = 1 + Len(r)
<1> DEFINE h == <<m>>
           q == h \o r
<1>1. h \in Seq(UpMsgs) /\ Len(h) = 1 /\ h[1] = m /\ Len(r) \in Nat /\ DOMAIN r = 1 .. Len(r) OBVIOUS
<1> HIDE DEF h
<1>2. /\ q \in Seq(UpMsgs) /\ Len(q) = 1 + Len(r)
      /\ \A i \in 1 .. (1 + Len(r)) : q[i] = IF i <= 1 THEN h[i] ELSE r[i - 1]
  <2>1. /\ q \in Seq(UpMsgs) /\ Len(q) = Len(h) + Len(r)
        /\ \A i \in 1 .. (Len(h) + Len(r)) : q[i] = IF i <= Len(h) THEN h[i] ELSE r[i - Len(h)]
    BY <1>1, ConcatProperties
  <2> HIDE DEF q
  <2> QED BY <1>1, <2>1
<1>3. Runs(q, first, next) BY DEF h
<1> HIDE DEF q
<1>4. q[1] = m /\ 1 \in DOMAIN q BY <1>1, <1>2
<1>5. (m.type = "data" <=> first + 1 <= next) /\ (m.type = "data" => m.seq = first) BY <1>3, <1>4 DEF Runs
<1>6. ASSUME NEW i \in 1 .. Len(r)
      PROVE  (r[i].type = "data" <=> (first + 1) + i <= next) /\ (r[i].type = "data" => r[i].seq = (first + 1) + i - 1)
  <2>1. i + 1 \in 1 .. (1 + Len(r)) /\ ~(i + 1 <= 1) /\ (i + 1) - 1 = i BY <1>1
  <2>2. q[i + 1] = r[i] /\ i + 1 \in DOMAIN q BY <1>2, <2>1
  <2>3. (q[i + 1].type = "data" <=> first + (i + 1) <= next) /\ (q[i + 1].type = "data" => q[i + 1].seq = first + (i + 1) - 1)
    BY <1>3, <2>2 DEF Runs
  <2>4. first + (i + 1) = (first + 1) + i BY <1>1
  <2> QED BY <2>2, <2>3, <2>4
<1>7. CASE m.type = "data" BY <1>1, <1>2, <1>5, <1>6, <1>7 DEF Runs, q, h
<1>8. CASE m.type # "data"
  <2>1. next <= first BY <1>5, <1>8
  <2>2. \A i \in 1 .. Len(r) : ~(first + i <= next) /\ ~((first + 1) + i <= next) BY <1>1, <2>1
  <2>3. Runs(r, first, next) BY <1>1, <1>6, <2>2 DEF Runs
  <2> QED BY <1>2, <1>8, <2>1, <2>3 DEF q, h
<1> QED BY <1>7, <1>8

LEMMA RunsData ==
    ASSUME NEW q \in Seq(UpMsgs), NEW first \in Nat, NEW next \in Nat, Runs(q, first, next), first <= next,
           next <= first + Len(q), \A m \in ToSet(q) : m.type = "data",
           NEW m \in UpMsgs, m.type = "data", m.seq = next
    PROVE  Runs(Append(q, m), first, next + 1) /\ next + 1 <= first + Len(Append(q, m))
<1>1. Len(q) \in Nat /\ DOMAIN q = 1 .. Len(q) OBVIOUS
<1>2. /\ DOMAIN Append(q, m) = 1 .. (Len(q) + 1) /\ Append(q, m)[Len(q) + 1] = m /\ Len(Append(q, m)) = Len(q) + 1
      /\ \A i \in 1 .. Len(q) : Append(q, m)[i] = q[i] OBVIOUS
<1>3. \A i \in 1 .. Len(q) : q[i].type = "data" BY <1>1 DEF ToSet
<1>4. first + Len(q) <= next
  <2>1. CASE Len(q) = 0 BY <2>1
  <2>2. CASE Len(q) # 0
    <3>1. Len(q) \in 1 .. Len(q) BY <1>1, <2>2
    <3> QED BY <1>1, <1>3, <3>1 DEF Runs
  <2> QED BY <2>1, <2>2
<1>5. next = first + Len(q) BY <1>1, <1>4
<1>6. ASSUME NEW i \in 1 .. (Len(q) + 1)
      PROVE  /\ Append(q, m)[i].type = "data" <=> first + i <= next + 1
             /\ Append(q, m)[i].type = "data" => Append(q, m)[i].seq = first + i - 1
  <2>1. CASE i = Len(q) + 1 BY <1>1, <1>2, <1>5, <2>1
  <2>2. CASE i # Len(q) + 1
    <3>1. i \in 1 .. Len(q) BY <1>1, <2>2
    <3>2. Append(q, m)[i] = q[i] BY <1>2, <3>1
    <3>3. q[i].type = "data" /\ q[i].seq = first + i - 1 BY <1>1, <1>3, <3>1 DEF Runs
    <3>4. first + i <= next + 1 BY <1>1, <1>5, <3>1
    <3> QED BY <3>2, <3>3, <3>4
  <2> QED BY <2>1, <2>2
<1> QED BY <1>1, <1>2, <1>5, <1>6 DEF Runs

LEMMA RunsEnd ==
    ASSUME NEW q \in Seq(UpMsgs), NEW first \in Nat, NEW next \in Nat, Runs(q, first, next),
           next <= first + Len(q), NEW m \in UpMsgs, m.type # "data"
    PROVE  Runs(Append(q, m), first, next) /\ next <= first + Len(Append(q, m))
<1>1. Len(q) \in Nat /\ DOMAIN q = 1 .. Len(q) OBVIOUS
<1>2. /\ DOMAIN Append(q, m) = 1 .. (Len(q) + 1) /\ Append(q, m)[Len(q) + 1] = m /\ Len(Append(q, m)) = Len(q) + 1
      /\ \A i \in 1 .. Len(q) : Append(q, m)[i] = q[i] OBVIOUS
<1>3. ASSUME NEW i \in 1 .. (Len(q) + 1)
      PROVE  /\ Append(q, m)[i].type = "data" <=> first + i <= next
             /\ Append(q, m)[i].type = "data" => Append(q, m)[i].seq = first + i - 1
  <2>1. CASE i = Len(q) + 1 BY <1>1, <1>2, <2>1
  <2>2. CASE i # Len(q) + 1
    <3>1. i \in 1 .. Len(q) BY <1>1, <2>2
    <3> QED BY <1>1, <1>2, <3>1 DEF Runs
  <2> QED BY <2>1, <2>2
<1> QED BY <1>1, <1>2, <1>3 DEF Runs

LEMMA RunsPrefix ==
    ASSUME NEW a \in Seq(UpMsgs), NEW b \in Seq(UpMsgs), NEW first, NEW next, Runs(a \o b, first, next)
    PROVE  Runs(a, first, next)
<1>1. Len(a) \in Nat /\ Len(b) \in Nat /\ DOMAIN a = 1 .. Len(a) OBVIOUS
<1>2. \A i \in 1 .. Len(a) : (a \o b)[i] = a[i] /\ i \in DOMAIN (a \o b)
  <2>1. \A i \in 1 .. Len(a) : i \in 1 .. (Len(a) + Len(b)) /\ i <= Len(a) BY <1>1
  <2> QED BY <2>1, ConcatProperties
<1> QED BY <1>1, <1>2 DEF Runs

LEMMA RunsEmpty == \A first, next : Runs(<<>>, first, next)
<1>1. DOMAIN <<>> = {} OBVIOUS
<1> QED BY <1>1 DEF Runs

LEMMA ComingTyped ==
    ASSUME Typed, NEW c \in Conns
    PROVE  /\ Coming(c) \in Seq(UpMsgs) /\ ToSet(Coming(c)) \subseteq Upward(c) \cap Stream(c)
           /\ Kept(post, Stream(c)) \in Seq(UpMsgs) /\ Kept(uplink, Stream(c)) \in Seq(UpMsgs)
           /\ post \in Seq(UpMsgs) /\ uplink \in Seq(UpMsgs)
<1> DEFINE p == Kept(post, Stream(c))
           u == Kept(uplink, Stream(c))
<1>1. post \in Seq(UpMsgs) /\ uplink \in Seq(UpMsgs) BY DEF Typed, QueuesTyped, AgentTyped
<1>2. p \in Seq(UpMsgs) /\ u \in Seq(UpMsgs) BY <1>1, KeptTyped
<1>3. ToSet(p) = ToSet(post) \cap Stream(c) /\ ToSet(u) = ToSet(uplink) \cap Stream(c) BY <1>1, KeptAmong
<1>4. Coming(c) = IF c \in closed THEN p ELSE p \o u BY DEF Coming
<1>5. \A m \in Stream(c) : m.conn = c BY DEF Stream
<1> HIDE DEF p, u
<1>6. p \o u \in Seq(UpMsgs) /\ ToSet(p \o u) = ToSet(p) \cup ToSet(u) BY <1>2, ConcatProperties, ConcatHasBoth
<1>7. ToSet(Coming(c)) \subseteq (ToSet(post) \cup ToSet(uplink)) \cap Stream(c) BY <1>3, <1>4, <1>6
<1>8. ToSet(Coming(c)) \subseteq Upward(c) BY <1>5, <1>7 DEF Upward
<1> QED BY <1>1, <1>2, <1>4, <1>6, <1>7, <1>8 DEF p, u

LEMMA NoneComing == ASSUME Typed, NEW c \in Conns, Upward(c) = {} PROVE Coming(c) = <<>>
<1>1. Coming(c) \in Seq(UpMsgs) /\ ToSet(Coming(c)) = {} BY ComingTyped
<1> QED BY <1>1, NoneInside

LEMMA ComingStill ==
    ASSUME Typed, NEW d \in Conns, post' = post, d \in closed' <=> d \in closed, NEW m \in UpMsgs, m \notin Stream(d),
           uplink' \in {uplink, Append(uplink, m)}
    PROVE  Coming(d)' = Coming(d)
<1>1. uplink \in Seq(UpMsgs) BY ComingTyped
<1>2. Kept(Append(uplink, m), Stream(d)) = Kept(uplink, Stream(d)) BY <1>1, KeptAppend
<1>3. Kept(uplink', Stream(d)) = Kept(uplink, Stream(d)) BY <1>2
<1> QED BY <1>3 DEF Coming

LEMMA ComingAdds ==
    ASSUME Typed, NEW c \in Conns, post' = post, c \notin closed, closed' = closed, NEW m \in Stream(c),
           uplink' = Append(uplink, m)
    PROVE  Coming(c)' = Append(Coming(c), m)
<1> DEFINE p == Kept(post, Stream(c))
           u == Kept(uplink, Stream(c))
<1>1. uplink \in Seq(UpMsgs) /\ p \in Seq(UpMsgs) /\ u \in Seq(UpMsgs) BY ComingTyped
<1>2. m \in UpMsgs BY DEF Stream
<1>3. Kept(uplink', Stream(c)) = Append(u, m) BY <1>1, <1>2, KeptAppend
<1>4. Coming(c) = p \o u BY DEF Coming
<1>5. Coming(c)' = p \o Append(u, m) BY <1>3 DEF Coming
<1> HIDE DEF p, u
<1>6. p \o Append(u, m) = Append(p \o u, m) BY <1>1, <1>2
<1> QED BY <1>4, <1>5, <1>6

LEMMA ComingRouted ==
    ASSUME Typed, NEW d \in Conns, post # <<>>, post' = Tail(post), uplink' = uplink, closed' = closed
    PROVE  /\ Head(post) \in Stream(d) => Coming(d) = <<Head(post)>> \o Coming(d)'
           /\ Head(post) \notin Stream(d) => Coming(d)' = Coming(d)
           /\ Coming(d)' \in Seq(UpMsgs)
<1> DEFINE p == Kept(Tail(post), Stream(d))
           u == Kept(uplink, Stream(d))
           h == <<Head(post)>>
<1>1. post \in Seq(UpMsgs) /\ u \in Seq(UpMsgs) BY ComingTyped
<1>2. Tail(post) \in Seq(UpMsgs) /\ h \in Seq(UpMsgs) BY <1>1, HeadAndTail, TailLacks
<1>3. p \in Seq(UpMsgs) BY <1>2, KeptTyped
<1>4. Kept(post, Stream(d)) = IF Head(post) \in Stream(d) THEN h \o p ELSE p BY <1>1, KeptHead
<1>5. Coming(d)' = IF d \in closed THEN p ELSE p \o u BY DEF Coming
<1>6. Coming(d) = IF d \in closed THEN Kept(post, Stream(d)) ELSE Kept(post, Stream(d)) \o u BY DEF Coming
<1> HIDE DEF p, u, h
<1>7. (h \o p) \o u = h \o (p \o u)
  <2>1. \A x, y, z \in Seq(UpMsgs) : (x \o y) \o z = x \o (y \o z) BY SMT
  <2>2. h \in Seq(UpMsgs) /\ p \in Seq(UpMsgs) /\ u \in Seq(UpMsgs) BY <1>1, <1>2, <1>3, Zenon
  <2> QED BY <2>1, <2>2, Zenon
<1>8. Head(post) \in Stream(d) => Coming(d) = h \o Coming(d)' BY <1>4, <1>5, <1>6, <1>7
<1>9. Head(post) \notin Stream(d) => Coming(d)' = Coming(d) BY <1>4, <1>5, <1>6
<1>10. Coming(d)' \in Seq(UpMsgs)
  <2>1. p \o u \in Seq(UpMsgs) BY <1>1, <1>3, ConcatProperties
  <2> QED BY <1>3, <1>5, <2>1
<1> QED BY <1>8, <1>9, <1>10 DEF h

\* drain_batch leaves out what is closed, and that was not to come anyway.
LEMMA ComingTaken ==
    ASSUME Typed, NEW d \in Conns, UplinkTakes, post = <<>> PROVE Coming(d)' = Coming(d)
<1> DEFINE S == Stream(d)
           K == {m \in UpMsgs : m.conn \notin closed}
<1>1. closed' = closed BY DEF UplinkTakes
<1>2. PICK n : n \in 0 .. Len(uplink) /\ Batches(n) BY TakesTyped
<1> DEFINE a == SubSeq(uplink, 1, n)
           b == SubSeq(uplink, n + 1, Len(uplink))
<1>3. post' = Open(a) /\ uplink' = b BY <1>2 DEF Batches
<1>4. uplink \in Seq(UpMsgs) BY ComingTyped
<1>5. a \in Seq(UpMsgs) /\ b \in Seq(UpMsgs) /\ uplink = a \o b BY <1>2, <1>4, SplitAt
<1> HIDE DEF a, b
<1>6. Kept(post, S) = <<>> BY KeptEmpty
<1>7. Coming(d)' = IF d \in closed THEN Kept(Open(a), S) ELSE Kept(Open(a), S) \o Kept(b, S)
  <2>1. Coming(d)' = IF d \in closed' THEN Kept(post', S) ELSE Kept(post', S) \o Kept(uplink', S) BY DEF Coming, Stream
  <2> QED BY <1>1, <1>3, <2>1
<1>8. Open(a) = Kept(a, K) BY <1>5, OpenIsKept
<1>9. \A m \in S : m \in UpMsgs /\ m.conn = d BY DEF Stream
<1> HIDE DEF S, K
<1>10. Coming(d) = IF d \in closed THEN <<>> ELSE Kept(uplink, S)
  <2>1. Coming(d) = IF d \in closed THEN Kept(post, S) ELSE Kept(post, S) \o Kept(uplink, S) BY DEF Coming, S
  <2> DEFINE u == Kept(uplink, S)
  <2>2. u \in Seq(UpMsgs) BY <1>4, KeptTyped
  <2> HIDE DEF u
  <2>3. <<>> \o u = u BY <2>2, ConcatEmptySeq
  <2> QED BY <1>6, <2>1, <2>3 DEF u
<1>11. CASE d \notin closed
  <2>1. S \subseteq K BY <1>9, <1>11 DEF K
  <2>2. Kept(Open(a), S) = Kept(a, S) BY <1>5, <1>8, <2>1, KeptTwice
  <2>3. Kept(a \o b, S) = Kept(a, S) \o Kept(b, S) BY <1>5, KeptConcat
  <2> QED BY <1>5, <1>7, <1>10, <1>11, <2>2, <2>3
<1>12. CASE d \in closed
  <2>1. ToSet(Open(a)) = ToSet(a) \cap K /\ Open(a) \in Seq(UpMsgs) BY <1>5, <1>8, KeptAmong, OpenTyped
  <2>2. ToSet(Open(a)) \cap S = {} BY <1>9, <1>12, <2>1 DEF K
  <2>3. Kept(Open(a), S) = <<>> BY <2>1, <2>2, NoneKept
  <2> QED BY <1>7, <1>10, <1>12, <2>3
<1> QED BY <1>11, <1>12

\* A step that reads nothing of a tunnel and queues nothing in it; of a tunnel
\* that is gone nothing has been read.
ReadsOn(s, t) ==
    /\ t.in \in {s.in, <<>>} /\ (t.listed => s.listed)
    /\ \/ t.readSeq = s.readSeq /\ t.readEof = s.readEof /\ (t.pc \in Early => s.pc \in Early)
       \/ t.in = <<>> /\ t.readSeq = 0 /\ ~t.readEof /\ ~t.listed

\* A step that reads nothing from the target
SendsOn(c, r) ==
    /\ r.outSeq = conn[c].outSeq /\ (r.pc = "none" => r = NoConn)
    /\ r.pc \in Reading => conn[c].pc \in Reading
    /\ Silenced(c) => r.readDone \/ r.pc \notin {"none", "connecting", "running"}

\* A step that adds nothing to what comes: only when the task has ended the
\* last of it may be left out.
Shorter(c) == \E a, b \in Seq(UpMsgs) : Coming(c) = a \o b /\ Coming(c)' = a

ComesOn(c) ==
    /\ Asked(c)' => Asked(c) \/ tunnel[c].pc \in Early
    /\ \A m \in Upward(c)' : Ended(m) => m \in Upward(c)
    /\ failures' = 0 => failures = 0
    /\ failures' = 0 /\ tunnel'[c].listed =>
          Coming(c)' = Coming(c) \/ (conn'[c].pc \notin Reading /\ Shorter(c))

LEMMA OrderOn ==
    ASSUME Typed, NEW d \in Conns, InOrder(d), ReadsOn(tunnel[d], tunnel'[d]), SendsOn(d, conn'[d]), ComesOn(d)
    PROVE  InOrder(d)'
<1> DEFINE s == tunnel[d]
           t == tunnel'[d]
           r == conn'[d]
<1>1. Fresh(d)'
  <2>1. r.pc = "none" => r = NoConn BY DEF SendsOn
  <2>2. ASSUME t.pc \in Early \/ Asked(d)' PROVE t.in = <<>> /\ t.readSeq = 0 /\ ~t.readEof
    <3>1. CASE t.in = <<>> /\ t.readSeq = 0 /\ ~t.readEof BY <3>1
    <3>2. CASE t.readSeq = s.readSeq /\ t.readEof = s.readEof /\ (t.pc \in Early => s.pc \in Early)
      <4>1. s.pc \in Early \/ Asked(d) BY <2>2, <3>2 DEF ComesOn
      <4>2. s.in = <<>> /\ s.readSeq = 0 /\ ~s.readEof BY <4>1 DEF InOrder, Fresh
      <4>3. t.in = <<>> BY <4>2 DEF ReadsOn
      <4> QED BY <3>2, <4>2, <4>3
    <3> QED BY <3>1, <3>2 DEF ReadsOn
  <2> QED BY <2>1, <2>2 DEF Fresh
<1> SUFFICES ASSUME failures' = 0 PROVE (t.listed => Ordered(d)') /\ EndSeen(d)' BY <1>1 DEF InOrder
<1>2. failures = 0 /\ EndSeen(d) /\ (s.listed => Ordered(d)) BY DEF ComesOn, InOrder
<1>3. r.outSeq = conn[d].outSeq /\ (r.pc \in Reading => conn[d].pc \in Reading) BY DEF SendsOn
<1>4. Silenced(d) => Silenced(d)' BY DEF SendsOn, Silenced
<1>5. ASSUME t.listed PROVE Ordered(d)'
  <2>1. s.listed /\ t.readSeq = s.readSeq BY <1>5 DEF ReadsOn
  <2>2. Ordered(d) BY <1>2, <2>1
  <2>3. CASE Coming(d)' = Coming(d)
    <3>1. Runs(Coming(d), s.readSeq, conn[d].outSeq) BY <2>2 DEF Ordered
    <3>2. Runs(Coming(d)', t.readSeq, r.outSeq)
      <4>1. Runs(Coming(d)', t.readSeq, r.outSeq) <=> Runs(Coming(d), s.readSeq, conn[d].outSeq)
        BY <1>3, <2>1, <2>3 DEF Runs
      <4> QED BY <3>1, <4>1
    <3>3. (Runs(Coming(d), tunnel[d].readSeq, conn[d].outSeq))' <=> Runs(Coming(d)', t.readSeq, r.outSeq) BY DEF Runs
    <3> QED BY <1>3, <2>1, <2>2, <2>3, <3>2, <3>3 DEF Ordered
  <2>4. CASE r.pc \notin Reading /\ Shorter(d)
    <3>1. PICK a, b \in Seq(UpMsgs) : Coming(d) = a \o b /\ Coming(d)' = a BY <2>4 DEF Shorter
    <3>2. Runs(a \o b, s.readSeq, conn[d].outSeq) BY <2>2, <3>1 DEF Ordered
    <3>3. Runs(a, s.readSeq, conn[d].outSeq) BY <3>2, RunsPrefix
    <3>4. (Runs(Coming(d), tunnel[d].readSeq, conn[d].outSeq))'
      BY <1>3, <2>1, <3>1, <3>3 DEF Runs
    <3>5. (conn[d].pc \notin Reading)' BY <2>4 DEF Reading
    <3> QED BY <1>3, <2>1, <2>2, <3>4, <3>5 DEF Ordered
  <2> QED BY <1>5, <2>3, <2>4 DEF ComesOn
<1>6. EndSeen(d)'
  <2>1. ASSUME NEW m \in Upward(d)', Ended(m) PROVE Silenced(d)'
    <3>1. m \in Upward(d) BY <2>1 DEF ComesOn
    <3> QED BY <1>2, <1>4, <2>1, <3>1 DEF EndSeen
  <2>2. CASE t.in = <<>> /\ ~t.readEof BY <2>1, <2>2 DEF EndSeen, Ended
  <2>3. CASE t.in \in {s.in, <<>>} /\ t.readSeq = s.readSeq /\ t.readEof = s.readEof
    <3>1. Complete(d) => Complete(d)' BY <1>3, <1>4, <2>3 DEF Complete
    <3>2. CASE t.in = s.in BY <1>2, <2>1, <2>3, <3>1, <3>2 DEF EndSeen, Ended
    <3>3. CASE t.in = <<>>
      <4>1. DOMAIN <<>> = {} /\ ToSet(<<>>) = {} BY EmptyHasNone
      <4> QED BY <1>2, <2>1, <2>3, <3>1, <3>3, <4>1 DEF EndSeen, Ended
    <3> QED BY <2>3, <3>2, <3>3
  <2> QED BY <2>2, <2>3 DEF ReadsOn
<1> QED BY <1>5, <1>6

\* What stays as it is
LEMMA Stays ==
    ASSUME Typed, NEW c \in Conns, InOrder(c)
    PROVE  /\ ReadsOn(tunnel[c], tunnel[c])
           /\ SendsOn(c, conn[c])
BY DEF ReadsOn, SendsOn, Silenced, InOrder, Fresh

\* A step of the relay's that reads nothing
LEMMA RelayOrder ==
    ASSUME Typed, Order, NEW c \in Conns, UNCHANGED <<agentVars, batch, history>>,
           \A d \in Conns : Asked(d)' => Asked(d) \/ tunnel[d].pc \in Early,
           \A d \in Conns \ {c} : tunnel'[d] = tunnel[d],
           ReadsOn(tunnel[c], tunnel'[c])
    PROVE  Order'
<1>1. UNCHANGED <<conn, closed, uplink, post, posting, failures>>
  BY DEF agentVars, batch, history
<1>2. ASSUME NEW d \in Conns PROVE InOrder(d)'
  <2>1. InOrder(d) BY DEF Order
  <2>2. ReadsOn(tunnel[d], tunnel'[d]) /\ SendsOn(d, conn'[d])
    <3>1. ReadsOn(tunnel[d], tunnel[d]) /\ SendsOn(d, conn[d]) BY <2>1, Stays
    <3> QED BY <1>1, <3>1
  <2>3. Coming(d)' = Coming(d) BY <1>1 DEF Coming, Stream
  <2>4. Upward(d)' = Upward(d) BY <1>1 DEF Upward
  <2>5. ComesOn(d) BY <1>1, <2>3, <2>4 DEF ComesOn
  <2> QED BY <2>1, <2>2, <2>5, OrderOn
<1>3. (~posting => post = <<>>)' BY <1>1 DEF Order
<1> QED BY <1>2, <1>3 DEF Order

LEMMA TunnelOrder ==
    ASSUME Typed, Order, NEW c \in Conns, NEW t, SetTunnel(c, t) \/ TakeOut(c, t), UNCHANGED relayElse, Adds(c),
           ReadsOn(tunnel[c], t)
    PROVE  Order'
<1>1. tunnel'[c] = t /\ \A d \in Conns \ {c} : tunnel'[d] = tunnel[d] BY DEF SetTunnel, TakeOut, Typed, RelayTyped
<1>2. UNCHANGED conn BY DEF relayElse, agentVars
<1>3. \A d \in Conns : Asked(d)' => Asked(d) BY <1>2, AddsAsks
<1> QED BY <1>1, <1>3, RelayOrder DEF relayElse

\* The ends of a tunnel on the relay's side
LEMMA GoneReads == \A s : ReadsOn(s, GoneTunnel)
BY GoneFields DEF ReadsOn

LEMMA FailedReads == ASSUME Typed, NEW c \in Conns PROVE ReadsOn(tunnel[c], Failed(c))
<1>1. /\ Failed(c).pc = tunnel[c].pc /\ Failed(c).in = <<>> /\ Failed(c).listed = FALSE
      /\ Failed(c).readSeq = tunnel[c].readSeq /\ Failed(c).readEof = tunnel[c].readEof
  BY FailedFields
<1> QED BY <1>1 DEF ReadsOn

LEMMA OpenLooksOrder == ASSUME Typed, Life, Order, NEW c \in Conns, OpenLooks(c) PROVE Order'
<1> DEFINE t == [NoTunnel EXCEPT !.pc = "counting", !.session = channel]
<1>1. SetTunnel(c, t) /\ UNCHANGED <<downlink, relayElse>> BY DEF OpenLooks
<1>2. t.listed = FALSE /\ t.in = <<>> /\ t.readSeq = 0 /\ t.readEof = FALSE BY DEF NoTunnel
<1>3. ReadsOn(tunnel[c], t)
  <2> HIDE DEF t
  <2> QED BY <1>2 DEF ReadsOn
<1>4. Adds(c) BY <1>1, StillPool
<1> HIDE DEF t
<1> QED BY <1>1, <1>3, <1>4, TunnelOrder

LEMMA OpenCountsOrder == ASSUME Typed, Life, Order, NEW c \in Conns, OpenCounts(c) PROVE Order'
<1> DEFINE s == tunnel[c]
           t == [s EXCEPT !.pc = "inserting"]
<1>1. s.pc = "counting" /\ UNCHANGED <<downlink, relayElse>> BY DEF OpenCounts, relayElse
<1>2. tunnel' = [tunnel EXCEPT ![c] = GoneTunnel] \/ tunnel' = [tunnel EXCEPT ![c] = t] BY DEF OpenCounts
<1>3. s \in Tunnels BY DEF Typed, RelayTyped
<1>4. t.pc = "inserting" /\ t.listed = s.listed /\ t.in = s.in /\ t.readSeq = s.readSeq /\ t.readEof = s.readEof
  BY <1>3 DEF Tunnels
<1> HIDE DEF t
<1>5. ReadsOn(s, t)
  <2>1. s.pc \in Early BY <1>1 DEF Early
  <2> HIDE DEF s
  <2> QED BY <1>4, <2>1 DEF ReadsOn
<1>6. /\ tunnel'[c] \in {t, GoneTunnel} /\ \A d \in Conns \ {c} : tunnel'[d] = tunnel[d]
  BY <1>2 DEF Typed, RelayTyped
<1>7. UNCHANGED conn BY <1>1 DEF relayElse, agentVars
<1>8. \A d \in Conns : Asked(d)' => Asked(d) BY <1>1, <1>7, StillPool, AddsAsks
<1>9. ReadsOn(tunnel[c], tunnel'[c])
  <2>1. CASE tunnel'[c] = t BY <1>5, <2>1
  <2>2. CASE tunnel'[c] = GoneTunnel BY <2>2, GoneReads
  <2> QED BY <1>6, <2>1, <2>2
<1> QED BY <1>1, <1>6, <1>8, <1>9, RelayOrder DEF relayElse

LEMMA OpenSendsOrder == ASSUME Typed, Life, Order, NEW c \in Conns, OpenSends(c) PROVE Order'
<1> DEFINE s == tunnel[c]
           t == [s EXCEPT !.pc = "waiting"]
           m == Ctrl("open", c)
<1>1. s.pc = "opening" /\ SetTunnel(c, t) /\ UNCHANGED relayElse /\ Deliver(c, m) BY DEF OpenSends
<1>2. s \in Tunnels BY DEF Typed, RelayTyped
<1>3. t.pc = "waiting" /\ t.listed = s.listed /\ t.in = s.in /\ t.readSeq = s.readSeq /\ t.readEof = s.readEof
  BY <1>2 DEF Tunnels
<1>4. tunnel'[c] = t /\ \A d \in Conns \ {c} : tunnel'[d] = tunnel[d] BY <1>1 DEF SetTunnel, Typed, RelayTyped
<1>5. s.pc \in Early BY <1>1 DEF Early
<1>6. m.conn = c BY DEF Ctrl, Msg
<1>7. bulk \in Seq(DownMsgs) /\ m \in DownMsgs BY CtrlTyped DEF Typed, QueuesTyped
<1> HIDE DEF t, s, m
<1>8. ReadsOn(s, t) BY <1>3, <1>5 DEF ReadsOn, Early
<1>9. ToSet(bulk') \subseteq ToSet(bulk) \cup {m}
  <2>1. CASE bulk' = bulk BY <2>1
  <2>2. CASE bulk' = Append(bulk, m) BY <1>7, <2>2, AppendAdds
  <2> QED BY <1>1, <2>1, <2>2 DEF Deliver
<1>10. \A d \in Conns : Asked(d)' => Asked(d) \/ tunnel[d].pc \in Early BY <1>5, <1>6, <1>9 DEF Asked, IsOpen, s
<1> QED BY <1>1, <1>4, <1>8, <1>10, RelayOrder DEF s, relayElse

\* A step that leaves alone what is read
ReadsSame(s, t) ==
    /\ t.in = s.in /\ t.listed = s.listed /\ t.readSeq = s.readSeq /\ t.readEof = s.readEof
    /\ t.pc \in Early => s.pc \in Early

LEMMA SameReads == \A s, t : ReadsSame(s, t) => ReadsOn(s, t)
BY DEF ReadsSame, ReadsOn

LEMMA OpenSucceedsOrder == ASSUME Typed, Life, Order, NEW c \in Conns, OpenSucceeds(c) PROVE Order'
<1> DEFINE s == tunnel[c]
           t == [s EXCEPT !.pc = "open"]
<1>1. SetTunnel(c, t) /\ UNCHANGED <<downlink, relayElse>> BY DEF OpenSucceeds
<1>2. s \in Tunnels BY DEF Typed, RelayTyped
<1>3. ReadsSame(s, t) BY <1>2 DEF Tunnels, ReadsSame, Early
<1>4. Adds(c) BY <1>1, StillPool
<1> HIDE DEF t
<1> QED BY <1>1, <1>3, <1>4, SameReads, TunnelOrder

LEMMA UserWritesOrder == ASSUME Typed, Life, Order, NEW c \in Conns, UserWrites(c) PROVE Order'
<1>1. PICK size \in Chunks :
          LET n == Fits(size, tunnel[c].unacked)
          IN SetTunnel(c, [tunnel[c] EXCEPT
                  !.out = Append(@, Msg("data", c, tunnel[c].writeSeq, n)),
                  !.writeSeq = @ + 1, !.unacked = @ + n])
  BY DEF UserWrites
<1> DEFINE n == Fits(size, tunnel[c].unacked)
           t == [tunnel[c] EXCEPT !.out = Append(@, Msg("data", c, tunnel[c].writeSeq, n)),
                                  !.writeSeq = @ + 1, !.unacked = @ + n]
<1>2. tunnel[c] \in Tunnels BY DEF Typed, RelayTyped
<1>3. ReadsSame(tunnel[c], t) BY <1>2 DEF Tunnels, ReadsSame, Early
<1>4. UNCHANGED <<downlink, relayElse>> BY DEF UserWrites
<1>5. SetTunnel(c, t) BY <1>1
<1>6. Adds(c) BY <1>4, StillPool
<1> HIDE DEF t
<1> QED BY <1>3, <1>4, <1>5, <1>6, SameReads, TunnelOrder

LEMMA UserShutsDownOrder == ASSUME Typed, Life, Order, NEW c \in Conns, UserShutsDown(c) PROVE Order'
<1> DEFINE t == [tunnel[c] EXCEPT !.writeClosed = TRUE, !.out = Append(@, Ctrl("eof", c))]
<1>1. tunnel[c] \in Tunnels BY DEF Typed, RelayTyped
<1>2. SetTunnel(c, t) /\ UNCHANGED <<downlink, relayElse>> BY DEF UserShutsDown
<1>3. ReadsSame(tunnel[c], t) BY <1>1 DEF Tunnels, ReadsSame, Early
<1>4. Adds(c) BY <1>2, StillPool
<1> HIDE DEF t
<1> QED BY <1>2, <1>3, <1>4, SameReads, TunnelOrder

LEMMA UserReadsErrorOrder == ASSUME Typed, Life, Order, NEW c \in Conns, UserReadsError(c) PROVE Order'
<1> DEFINE t == [tunnel[c] EXCEPT !.finished = TRUE]
<1>1. tunnel[c] \in Tunnels BY DEF Typed, RelayTyped
<1>2. SetTunnel(c, t) /\ UNCHANGED <<downlink, relayElse>> BY DEF UserReadsError
<1>3. ReadsSame(tunnel[c], t) BY <1>1 DEF Tunnels, ReadsSame, Early
<1>4. Adds(c) BY <1>2, StillPool
<1> HIDE DEF t
<1> QED BY <1>2, <1>3, <1>4, SameReads, TunnelOrder

LEMMA UserConsumesOrder == ASSUME Typed, Life, Order, NEW c \in Conns, UserConsumes(c) PROVE Order'
<1> DEFINE t == [tunnel[c] EXCEPT !.pending = 0]
           m == Msg("ack", c, 0, tunnel[c].pending)
<1>1. tunnel[c] \in Tunnels BY DEF Typed, RelayTyped
<1>2. m \in LateMsgs /\ m.conn = c
  <2>1. tunnel[c].pending \in Nat BY <1>1, TunnelField
  <2> QED BY <2>1 DEF Msg, LateMsgs, Message
<1>3. SetTunnel(c, t) /\ SendNonblocking(c, m) /\ UNCHANGED relayElse BY DEF UserConsumes
<1>4. ReadsSame(tunnel[c], t) BY <1>1 DEF Tunnels, ReadsSame, Early
<1> HIDE DEF t, m
<1>5. Adds(c) BY <1>2, <1>3, RelayKeeps, SendAdds
<1> QED BY <1>3, <1>4, <1>5, SameReads, TunnelOrder

LEMMA WriterSendsOrder == ASSUME Typed, Life, Order, NEW c \in Conns, WriterSends(c) PROVE Order'
<1> DEFINE s == tunnel[c]
           m == Head(s.out)
           t == [s EXCEPT !.out = Tail(@)]
<1>1. s \in Tunnels BY DEF Typed, RelayTyped
<1>2. s.out \in Seq(WriteMsgs) BY <1>1, TunnelField
<1>3. s.out # <<>> /\ Deliver(c, m) /\ SetTunnel(c, t) /\ UNCHANGED <<late, relayElse>> BY DEF WriterSends
<1>4. m \in WriteMsgs /\ ToSet(s.out) = {m} \cup ToSet(Tail(s.out)) BY <1>2, <1>3, TailLacks
<1>5. OutOf(c, s) BY DEF Life
<1>6. m.conn = c /\ m \in DownMsgs /\ m.type # "open" BY <1>4, <1>5, Kinds DEF OutOf, WriteMsgs, Message
<1>7. ReadsSame(s, t) BY <1>1 DEF Tunnels, ReadsSame
<1>8. Adds(c)
  <2> HIDE DEF m
  <2> QED BY <1>3, <1>6, RelayKeeps, DeliverAdds
<1> HIDE DEF t, m
<1> QED BY <1>3, <1>7, <1>8, SameReads, TunnelOrder

LEMMA OpenSendTimesOutOrder == ASSUME Typed, Life, Order, NEW c \in Conns, OpenSendTimesOut(c) PROVE Order'
<1>1. TakeOut(c, GoneTunnel) /\ UNCHANGED <<downlink, relayElse>> BY DEF OpenSendTimesOut
<1> QED BY <1>1, StillPool, GoneReads, TunnelOrder

LEMMA OpenTimesOutOrder == ASSUME Typed, Life, Order, NEW c \in Conns, OpenTimesOut(c) PROVE Order'
<1>1. SendNonblocking(c, Ctrl("close", c)) /\ TakeOut(c, GoneTunnel) /\ UNCHANGED relayElse BY DEF OpenTimesOut
<1>2. UNCHANGED lost BY <1>1, RelayKeeps
<1>3. Adds(c) BY <1>1, <1>2, CloseAdds
<1> QED BY <1>1, <1>3, GoneReads, TunnelOrder

LEMMA DropOrder == ASSUME Typed, Life, Order, NEW c \in Conns, Drop(c) PROVE Order'
<1>1. TakeOut(c, GoneTunnel) /\ UNCHANGED relayElse BY DEF Drop
<1>2. UNCHANGED lost BY <1>1, RelayKeeps
<1>3. Adds(c)
  <2>1. CASE bulk' = bulk /\ late' = late BY <1>2, <2>1, NothingAdds
  <2>2. CASE SendNonblocking(c, Ctrl("close", c)) BY <1>2, <2>2, CloseAdds
  <2> QED BY <2>1, <2>2 DEF Drop
<1> QED BY <1>1, <1>3, GoneReads, TunnelOrder

LEMMA SweepRemovesOrder == ASSUME Typed, Life, Order, NEW c \in Conns, SweepRemoves(c) PROVE Order'
<1>1. /\ UNCHANGED <<downlink, agentVars, batch, history>>
      /\ tunnel' = [tunnel EXCEPT ![c] = IF tunnel[c].listed THEN Failed(c) ELSE tunnel[c]]
  BY DEF SweepRemoves
<1>2. /\ tunnel'[c] = (IF tunnel[c].listed THEN Failed(c) ELSE tunnel[c])
      /\ \A d \in Conns \ {c} : tunnel'[d] = tunnel[d]
  BY <1>1 DEF Typed, RelayTyped
<1>3. bulk' = bulk BY <1>1 DEF downlink
<1>4. \A d \in Conns : Asked(d)' => Asked(d) BY <1>3 DEF Asked
<1>5. ReadsOn(tunnel[c], tunnel'[c])
  <2>1. InOrder(c) BY DEF Order
  <2> QED BY <1>2, <2>1, FailedReads, Stays
<1> QED BY <1>1, <1>2, <1>4, <1>5, RelayOrder

LEMMA OrderStays ==
    ASSUME Typed, NEW d \in Conns, InOrder(d), tunnel'[d] = tunnel[d], conn'[d] = conn[d], ComesOn(d)
    PROVE  InOrder(d)'
<1>1. ReadsOn(tunnel[d], tunnel'[d]) /\ SendsOn(d, conn'[d]) BY Stays
<1> QED BY <1>1, OrderOn

\* A step of the relay's that sends nothing
LEMMA AloneOrder ==
    ASSUME Typed, Order, NEW c \in Conns, NEW t, SetTunnel(c, t), UNCHANGED <<downlink, relayElse>>,
           InOrder(c)'
    PROVE  Order'
<1>1. UNCHANGED <<bulk, conn, closed, uplink, post, posting, failures>>
  BY DEF downlink, relayElse, agentVars, batch, history
<1>2. \A d \in Conns \ {c} : tunnel'[d] = tunnel[d] BY DEF SetTunnel, Typed, RelayTyped
<1>3. ASSUME NEW d \in Conns \ {c} PROVE InOrder(d)'
  <2>1. Coming(d)' = Coming(d) /\ Upward(d)' = Upward(d) /\ (Asked(d)' <=> Asked(d))
    BY <1>1 DEF Coming, Stream, Upward, Asked
  <2>2. ComesOn(d) BY <1>1, <2>1 DEF ComesOn
  <2>3. InOrder(d) BY DEF Order
  <2> QED BY <1>1, <1>2, <2>2, <2>3, OrderStays
<1>4. (~posting => post = <<>>)' BY <1>1 DEF Order
<1> QED BY <1>3, <1>4 DEF Order

LEMMA OpenInsertsOrder == ASSUME Typed, Life, Order, NEW c \in Conns, OpenInserts(c) PROVE Order'
<1> DEFINE s == tunnel[c]
           t == [s EXCEPT !.pc = "opening", !.listed = TRUE]
<1>1. s.pc = "inserting" /\ SetTunnel(c, t) /\ UNCHANGED <<downlink, relayElse>> BY DEF OpenInserts
<1>2. s \in Tunnels BY DEF Typed, RelayTyped
<1>3. t.in = s.in /\ t.readSeq = s.readSeq /\ t.readEof = s.readEof BY <1>2 DEF Tunnels
<1>4. tunnel'[c] = t BY <1>1 DEF SetTunnel, Typed, RelayTyped
<1>5. UNCHANGED <<bulk, conn, closed, uplink, post, failures>>
  BY <1>1 DEF downlink, relayElse, agentVars, batch, history
<1> HIDE DEF t
<1>6. s.pc \in Early BY <1>1 DEF Early
<1>7. conn[c].pc = "none" /\ Upward(c) = {} BY <1>6 DEF Life, Unborn
<1>8. conn[c] = NoConn /\ s.in = <<>> /\ s.readSeq = 0 /\ ~s.readEof BY <1>6, <1>7 DEF Order, InOrder, Fresh
<1>9. Fresh(c)' BY <1>3, <1>4, <1>5, <1>8 DEF Fresh
<1>10. Coming(c)' = <<>>
  <2>1. Coming(c) = <<>> BY <1>7, NoneComing
  <2> QED BY <1>5, <2>1 DEF Coming, Stream
<1>11. Ordered(c)'
  <2>1. conn'[c].outSeq = 0 BY <1>5, <1>8, EndFields
  <2>2. conn'[c].pc \notin Reading BY <1>5, <1>7 DEF Reading
  <2>3. (Runs(Coming(c), tunnel[c].readSeq, conn[c].outSeq))' BY <1>10, RunsEmpty DEF Runs
  <2> QED BY <1>3, <1>4, <1>8, <2>1, <2>2, <2>3 DEF Ordered, Reading
<1>12. EndSeen(c)'
  <2>1. Upward(c)' = {} BY <1>5, <1>7 DEF Upward
  <2>2. DOMAIN <<>> = {} OBVIOUS
  <2> QED BY <1>3, <1>4, <1>8, <2>1, <2>2 DEF EndSeen
<1>13. InOrder(c)' BY <1>9, <1>11, <1>12 DEF InOrder
<1> QED BY <1>1, <1>13, AloneOrder

LEMMA UserReadsOrder == ASSUME Typed, Life, Order, NEW c \in Conns, UserReads(c) PROVE Order'
<1>1. PICK s, m : s = tunnel[c] /\ m = Head(s.in) OBVIOUS
<1>2. /\ s \in Tunnels /\ s.in \in Seq(ReadMsgs) /\ s.in # <<>> /\ m \in ReadMsgs
      /\ s.pc = "open" /\ ~s.readEof /\ UNCHANGED <<downlink, relayElse>> /\ ReadTurns(c, s, m)
  BY <1>1, ReadBecomes
<1>3. PICK t \in Tunnels :
         /\ SetTunnel(c, t)
         /\ \/ /\ m.type = "data"
               /\ t = [[s EXCEPT !.in = Tail(s.in)] EXCEPT !.pending = m.bytes]
            \/ /\ m.type = "eof"
               /\ t = [[s EXCEPT !.in = Tail(s.in)] EXCEPT !.readEof = TRUE]
            \/ /\ m.type = "closed"
               /\ t = [[[s EXCEPT !.in = Tail(s.in)] EXCEPT !.readEof = TRUE] EXCEPT !.finished = TRUE]
  BY <1>2 DEF ReadTurns
<1>4. /\ t.pc = "open" /\ t.listed = s.listed /\ t.in = Tail(s.in) /\ t.readSeq = s.readSeq
      /\ t.readEof => Ended(m)
  BY <1>2, <1>3 DEF Tunnels, Ended
<1>5. tunnel'[c] = t BY <1>3 DEF SetTunnel, Typed, RelayTyped
<1>6. UNCHANGED <<bulk, conn, closed, uplink, post, failures>>
  BY <1>2 DEF downlink, relayElse, agentVars, batch, history
<1>7. InOrder(c) BY DEF Order
<1>8. ~Asked(c)
  <2>1. Asked(c) => s.in = <<>> BY <1>1, <1>7 DEF InOrder, Fresh
  <2> QED BY <1>2, <2>1
<1>9. Coming(c)' = Coming(c) /\ Upward(c)' = Upward(c) /\ ~Asked(c)'
  BY <1>6, <1>8 DEF Coming, Stream, Upward, Asked
<1>10. Fresh(c)' BY <1>4, <1>5, <1>6, <1>7, <1>9 DEF Fresh, InOrder, Early
<1>11. ASSUME failures' = 0 PROVE (tunnel'[c].listed => Ordered(c)') /\ EndSeen(c)'
  <2>1. (s.listed => Ordered(c)) /\ EndSeen(c) BY <1>1, <1>6, <1>7, <1>11 DEF InOrder
  <2>2. tunnel'[c].listed => Ordered(c)'
    <3>1. (Runs(Coming(c), tunnel[c].readSeq, conn[c].outSeq))' <=> Runs(Coming(c), tunnel[c].readSeq, conn[c].outSeq)
      BY <1>1, <1>4, <1>5, <1>6, <1>9 DEF Runs
    <3> QED BY <1>1, <1>4, <1>5, <1>6, <1>9, <2>1, <3>1 DEF Ordered, Reading
  <2>3. Complete(c)' <=> Complete(c) BY <1>1, <1>4, <1>5, <1>6 DEF Complete, Silenced
  <2>4. /\ Len(s.in) \in Nat \ {0} /\ s.in[1] = m /\ DOMAIN s.in = 1 .. Len(s.in)
        /\ DOMAIN t.in = 1 .. (Len(s.in) - 1) /\ \A i \in DOMAIN t.in : t.in[i] = s.in[i + 1]
    BY <1>1, <1>2, <1>4, TailLacks
  <2>5. \A i \in DOMAIN t.in : i + 1 \in DOMAIN s.in /\ 1 < i + 1 BY <2>4
  <2>6. 1 \in DOMAIN s.in BY <2>4
  <2>7. ASSUME NEW i \in DOMAIN t.in, Ended(t.in[i])
        PROVE  Complete(c) /\ \A j \in DOMAIN t.in : i < j => t.in[j].type # "data"
    <3>1. i + 1 \in DOMAIN s.in /\ Ended(s.in[i + 1]) BY <2>4, <2>5, <2>7
    <3>2. Complete(c) /\ \A j \in DOMAIN s.in : i + 1 < j => s.in[j].type # "data" BY <1>1, <2>1, <3>1 DEF EndSeen
    <3>3. \A j \in DOMAIN t.in : i < j => i + 1 < j + 1 BY <2>4
    <3> QED BY <2>4, <2>5, <3>2, <3>3
  <2>8. ASSUME Ended(m) PROVE Complete(c) /\ \A x \in ToSet(t.in) : x.type # "data"
    <3>1. Complete(c) /\ \A j \in DOMAIN s.in : 1 < j => s.in[j].type # "data"
      BY <1>1, <2>1, <2>4, <2>6, <2>8 DEF EndSeen
    <3>2. \A j \in DOMAIN t.in : t.in[j].type # "data" BY <2>4, <2>5, <3>1
    <3> QED BY <3>1, <3>2 DEF ToSet
  <2>9. (\E x \in Upward(c) : Ended(x)) => Silenced(c) BY <2>1 DEF EndSeen
  <2>10. EndSeen(c)' BY <1>4, <1>5, <1>6, <1>9, <2>3, <2>7, <2>8, <2>9 DEF EndSeen, Ended, Silenced
  <2> QED BY <2>2, <2>10
<1>12. InOrder(c)' BY <1>10, <1>11 DEF InOrder
<1> QED BY <1>2, <1>3, <1>12, AloneOrder

\* What the route adds to a tunnel's numbers
LEMMA BecameSeq ==
    ASSUME NEW s \in Tunnels, NEW m, NEW t, Became(s, m, t)
    PROVE  t.readSeq = IF m.type = "data" THEN s.readSeq + 1 ELSE s.readSeq
<1>1. CASE m.type = "data" /\ t = [[s EXCEPT !.in = Append(s.in, m)] EXCEPT !.readSeq = s.readSeq + 1]
  BY <1>1 DEF Tunnels
<1>2. CASE m.type # "data" /\ Became(s, m, t)
  <2>1. t.readSeq = s.readSeq BY <1>2 DEF Became, Tunnels
  <2> QED BY <1>2, <2>1
<1> QED BY <1>1, <1>2 DEF Became

\* Data or an end is put behind what has not been read yet.
LEMMA RouteReads ==
    ASSUME Typed, Life, NEW c \in Conns, InOrder(c), NEW m \in Stream(c), post # <<>>, m = Head(post), post' = Tail(post),
           NEW t \in Tunnels, SetTunnel(c, t), Became(tunnel[c], m, t), tunnel[c].listed,
           UNCHANGED <<bulk, conn, closed, uplink, failures>>
    PROVE  InOrder(c)'
<1> DEFINE s == tunnel[c]
           q == Coming(c)'
<1>1. s \in Tunnels /\ tunnel'[c] = t BY DEF SetTunnel, Typed, RelayTyped
<1>2. m \in UpMsgs /\ m.conn = c /\ m.type \in {"data", "eof", "closed"} BY DEF Stream
<1>3. /\ t.pc = s.pc /\ t.listed = s.listed /\ t.readEof = s.readEof /\ t.in = Append(s.in, m)
      /\ t.readSeq = IF m.type = "data" THEN s.readSeq + 1 ELSE s.readSeq
  <2>1. /\ t.pc = s.pc /\ t.listed = s.listed /\ t.readEof = s.readEof
        /\ t.in = (CASE m.type \in {"data", "eof", "closed"} -> Append(s.in, m)
                     [] m.type = "error" -> <<>>
                     [] OTHER -> s.in)
    <3>1. Became(s, m, t) OBVIOUS
    <3> HIDE DEF s
    <3> QED BY <1>1, <3>1, BecameFields
  <2>2. t.readSeq = IF m.type = "data" THEN s.readSeq + 1 ELSE s.readSeq BY <1>1, BecameSeq
  <2>3. t.in = Append(s.in, m) BY <1>2, <2>1
  <2> QED BY <2>1, <2>2, <2>3
<1>4. post \in Seq(UpMsgs) BY ComingTyped
<1>5. ToSet(post) = {m} \cup ToSet(post') BY <1>4, TailLacks
<1>6. m \in Upward(c) /\ Upward(c)' \subseteq Upward(c) BY <1>2, <1>5 DEF Upward
<1>7. s.pc \notin Early /\ ~Asked(c) BY <1>6 DEF Life, Unborn, Quiet
<1>8. Coming(c) = <<m>> \o q /\ q \in Seq(UpMsgs) BY ComingRouted
<1> HIDE DEF q
<1>9. s.in \in Seq(ReadMsgs) /\ s.readSeq \in Nat /\ conn[c].outSeq \in Nat /\ Len(q) \in Nat /\ s.readEof \in BOOLEAN
  <2>1. conn[c] \in Ends BY DEF Typed, AgentTyped
  <2>2. s.in \in Seq(ReadMsgs) /\ s.readSeq \in Nat /\ s.readEof \in BOOLEAN BY <1>1, TunnelField
  <2>3. conn[c].outSeq \in Nat BY <2>1, EndField
  <2> QED BY <1>8, <2>2, <2>3
<1>10. Fresh(c)' BY <1>1, <1>3, <1>7 DEF InOrder, Fresh, Asked, Early
<1> SUFFICES ASSUME failures' = 0 PROVE Ordered(c)' /\ EndSeen(c)' BY <1>10 DEF InOrder
<1>11. Ordered(c) /\ EndSeen(c) BY DEF InOrder
<1>12. Runs(<<m>> \o q, s.readSeq, conn[c].outSeq) BY <1>8, <1>11 DEF Ordered
<1>13. /\ m.type = "data" => s.readSeq + 1 <= conn[c].outSeq /\ Runs(q, s.readSeq + 1, conn[c].outSeq)
       /\ m.type # "data" => conn[c].outSeq <= s.readSeq /\ Runs(q, s.readSeq, conn[c].outSeq)
       /\ Len(<<m>> \o q) = 1 + Len(q)
  <2> DEFINE a == s.readSeq
             b == conn[c].outSeq
  <2>1. m \in UpMsgs /\ q \in Seq(UpMsgs) /\ a \in Nat /\ b \in Nat BY <1>8, <1>9 DEF Stream
  <2>2. Runs(<<m>> \o q, a, b) BY <1>12
  <2> HIDE DEF a, b
  <2> HIDE DEF s
  <2>3. /\ m.type = "data" => a + 1 <= b /\ Runs(q, a + 1, b)
        /\ m.type # "data" => b <= a /\ Runs(q, a, b)
        /\ Len(<<m>> \o q) = 1 + Len(q)
    BY <2>1, <2>2, RunsHead
  <2> QED BY <2>3 DEF a, b
<1>14. s.readSeq <= conn[c].outSeq /\ (conn[c].pc \in Reading => conn[c].outSeq <= s.readSeq + (1 + Len(q)))
  BY <1>8, <1>11, <1>13 DEF Ordered
<1>15. Ordered(c)'
  <2>1. t.readSeq <= conn[c].outSeq /\ (conn[c].pc \in Reading => conn[c].outSeq <= t.readSeq + Len(q))
    BY <1>3, <1>9, <1>13, <1>14
  <2>2. Runs(q, t.readSeq, conn[c].outSeq) BY <1>3, <1>13
  <2>3. (Runs(Coming(c), tunnel[c].readSeq, conn[c].outSeq))' BY <1>1, <2>2 DEF Runs, q
  <2> QED BY <1>1, <2>1, <2>3 DEF Ordered, Reading, q
<1>16. Silenced(c)' <=> Silenced(c) BY DEF Silenced
<1>17. /\ Len(s.in) \in Nat /\ DOMAIN s.in = 1 .. Len(s.in) /\ DOMAIN t.in = 1 .. (Len(s.in) + 1)
       /\ t.in[Len(s.in) + 1] = m /\ \A i \in DOMAIN s.in : t.in[i] = s.in[i]
  <2>1. \A u \in Seq(ReadMsgs) : /\ Len(u) \in Nat /\ DOMAIN u = 1 .. Len(u) /\ DOMAIN Append(u, m) = 1 .. (Len(u) + 1)
                                 /\ Append(u, m)[Len(u) + 1] = m /\ \A i \in DOMAIN u : Append(u, m)[i] = u[i]
    OBVIOUS
  <2> QED BY <1>3, <1>9, <2>1
<1>18. CASE m.type = "data"
  <2>1. ~Complete(c) BY <1>9, <1>13, <1>18 DEF Complete
  <2>2. ~s.readEof /\ \A i \in DOMAIN s.in : ~Ended(s.in[i]) BY <1>11, <2>1 DEF EndSeen
  <2>3. \A i \in DOMAIN t.in : ~Ended(t.in[i])
    <3> SUFFICES ASSUME NEW i \in DOMAIN t.in PROVE ~Ended(t.in[i]) OBVIOUS
    <3>1. CASE i = Len(s.in) + 1 BY <1>17, <1>18, <3>1 DEF Ended
    <3>2. CASE i # Len(s.in) + 1
      <4>1. i \in DOMAIN s.in BY <1>17, <3>2
      <4> QED BY <1>17, <2>2, <4>1
    <3> QED BY <3>1, <3>2
  <2>4. (\E x \in Upward(c) : Ended(x)) => Silenced(c) BY <1>11 DEF EndSeen
  <2> QED BY <1>1, <1>3, <1>6, <1>15, <1>16, <2>2, <2>3, <2>4 DEF EndSeen, Ended
<1>19. CASE m.type # "data"
  <2>1. Ended(m) BY <1>2, <1>19 DEF Ended
  <2>2. Silenced(c) BY <1>6, <1>11, <2>1 DEF EndSeen
  <2>3. s.readSeq = conn[c].outSeq BY <1>9, <1>13, <1>14, <1>19
  <2>4. Complete(c)' BY <1>1, <1>3, <1>16, <1>19, <2>2, <2>3 DEF Complete
  <2>5. ASSUME NEW i \in DOMAIN t.in, Ended(t.in[i]), NEW j \in DOMAIN t.in, i < j PROVE t.in[j].type # "data"
    <3>1. i \in DOMAIN s.in BY <1>17, <2>5
    <3>2. CASE j = Len(s.in) + 1 BY <1>17, <1>19, <3>2
    <3>3. CASE j # Len(s.in) + 1
      <4>1. j \in DOMAIN s.in BY <1>17, <3>3
      <4> QED BY <1>11, <1>17, <2>5, <3>1, <4>1 DEF EndSeen
    <3> QED BY <3>2, <3>3
  <2>6. s.readEof => \A x \in ToSet(t.in) : x.type # "data"
    <3>1. ToSet(t.in) = ToSet(s.in) \cup {m} BY <1>3, <1>9, AppendAdds
    <3> QED BY <1>11, <1>19, <3>1 DEF EndSeen
  <2>7. EndSeen(c)' BY <1>1, <1>3, <1>16, <2>2, <2>4, <2>5, <2>6 DEF EndSeen, Ended
  <2> QED BY <1>15, <2>7
<1> QED BY <1>18, <1>19

LEMMA RouteOrder == ASSUME Typed, Life, Order, Route PROVE Order'
<1>1. PICK m, c : m = Head(post) /\ c = m.conn OBVIOUS
<1>2. /\ post # <<>> /\ m \in UpMsgs /\ c \in Conns /\ post' = Tail(post) /\ tunnel[c] \in Tunnels
      /\ UNCHANGED <<agentVars, posting, agent, lost, failures>>
  BY <1>1, RouteCases
<1>3. UNCHANGED <<conn, closed, uplink, posting, lost, failures>> BY <1>2 DEF agentVars
<1>4. post \in Seq(UpMsgs) BY DEF Typed, QueuesTyped
<1>5. ToSet(post) = {m} \cup ToSet(post') BY <1>1, <1>2, <1>4, TailLacks
<1>6. \A d \in Conns : Upward(d)' \subseteq Upward(d) BY <1>3, <1>5 DEF Upward
<1>7. \A d \in Conns : m \notin Stream(d) => Coming(d)' = Coming(d) BY <1>1, <1>2, <1>3, ComingRouted
<1>8. \A d \in Conns \ {c} : m \notin Stream(d) BY <1>1 DEF Stream
<1>9. Adds(c) /\ (\A d \in Conns \ {c} : tunnel'[d] = tunnel[d])
      /\ \/ ReadsOn(tunnel[c], tunnel'[c]) /\ (tunnel'[c].listed => m \notin Stream(c))
         \/ m \in Stream(c) /\ tunnel[c].listed /\ Routes(c, m) /\ bulk' = bulk
  <2>1. CASE ~tunnel[c].listed /\ UNCHANGED <<relayVars, downlink>>
    <3>1. UNCHANGED <<tunnel, bulk, late>> BY <2>1 DEF relayVars, downlink
    <3>2. InOrder(c) BY <1>2 DEF Order
    <3> QED BY <1>2, <1>3, <2>1, <3>1, <3>2, NothingAdds, Stays
  <2>2. CASE tunnel[c].listed /\ Routes(c, m) /\ UNCHANGED downlink
    <3>1. PICK t \in Tunnels : SetTunnel(c, t) /\ Became(tunnel[c], m, t) BY <2>2 DEF Routes
    <3>2. tunnel'[c] = t /\ \A d \in Conns \ {c} : tunnel'[d] = tunnel[d] BY <1>2, <3>1 DEF SetTunnel, Typed, RelayTyped
    <3>3. bulk' = bulk /\ late' = late BY <2>2 DEF downlink
    <3>4. Adds(c) BY <1>2, <1>3, <3>3, NothingAdds
    <3>5. ASSUME m \notin Stream(c) PROVE ReadsOn(tunnel[c], tunnel'[c])
      <4>1. m.type \notin {"data", "eof", "closed"} BY <1>1, <1>2, <3>5 DEF Stream
      <4>2. /\ t.pc = tunnel[c].pc /\ t.listed = tunnel[c].listed /\ t.readEof = tunnel[c].readEof
            /\ t.in = (CASE m.type \in {"data", "eof", "closed"} -> Append(tunnel[c].in, m)
                         [] m.type = "error" -> <<>>
                         [] OTHER -> tunnel[c].in)
        BY <1>2, <3>1, BecameFields
      <4>3. t.in \in {tunnel[c].in, <<>>}
        <5>1. CASE m.type = "error" BY <4>2, <5>1
        <5>2. CASE m.type # "error" BY <4>1, <4>2, <5>2
        <5> QED BY <5>1, <5>2
      <4>4. t.readSeq = tunnel[c].readSeq
        <5>1. t.readSeq = IF m.type = "data" THEN tunnel[c].readSeq + 1 ELSE tunnel[c].readSeq BY <1>2, <3>1, BecameSeq
        <5> QED BY <4>1, <5>1
      <4> QED BY <3>2, <4>2, <4>3, <4>4 DEF ReadsOn
    <3> QED BY <2>2, <3>2, <3>3, <3>4, <3>5
  <2>3. CASE tunnel[c].listed /\ TakeOut(c, Failed(c)) /\ SendNonblocking(c, Ctrl("close", c))
    <3>1. tunnel'[c] = Failed(c) /\ \A d \in Conns \ {c} : tunnel'[d] = tunnel[d]
      BY <1>2, <2>3 DEF TakeOut, Typed, RelayTyped
    <3>2. Adds(c) BY <1>2, <1>3, <2>3, CloseAdds
    <3>3. Failed(c).listed = FALSE BY <1>2, FailedFields
    <3> QED BY <1>2, <3>1, <3>2, <3>3, FailedReads
  <2> QED BY <1>1, <2>1, <2>2, <2>3, RouteCases
<1>10. \A d \in Conns : Asked(d)' <=> Asked(d) BY <1>2, <1>3, <1>9, AddsAsks
<1>11. ASSUME NEW d \in Conns PROVE InOrder(d)'
  <2>1. InOrder(d) /\ ReadsOn(tunnel[d], tunnel[d]) /\ SendsOn(d, conn[d]) BY Stays DEF Order
  <2>2. CASE d # c
    <3>1. tunnel'[d] = tunnel[d] /\ Coming(d)' = Coming(d) BY <1>7, <1>8, <1>9, <2>2
    <3>2. ComesOn(d) BY <1>3, <1>6, <1>10, <3>1 DEF ComesOn
    <3> QED BY <1>3, <2>1, <3>1, <3>2, OrderOn
  <2>3. CASE d = c /\ ReadsOn(tunnel[c], tunnel'[c]) /\ (tunnel'[c].listed => m \notin Stream(c))
    <3>1. ComesOn(d) BY <1>3, <1>6, <1>7, <1>10, <2>3 DEF ComesOn
    <3> QED BY <1>3, <2>1, <2>3, <3>1, OrderOn
  <2>4. CASE d = c /\ m \in Stream(c) /\ tunnel[c].listed /\ Routes(c, m) /\ bulk' = bulk
    <3>1. PICK t \in Tunnels : SetTunnel(c, t) /\ Became(tunnel[c], m, t) BY <2>4 DEF Routes
    <3> QED BY <1>1, <1>2, <1>3, <2>1, <2>4, <3>1, RouteReads
  <2> QED BY <1>9, <2>2, <2>3, <2>4
<1>12. (~posting => post = <<>>)' BY <1>2, <1>3 DEF Order
<1> QED BY <1>11, <1>12 DEF Order

\* A step that reads and writes nothing
LEMMA StillOrder ==
    ASSUME Typed, Order, UNCHANGED <<tunnel, conn, failures>>, (~posting => post = <<>>)',
           \A d \in Conns : (Asked(d)' => Asked(d)) /\ Upward(d)' \subseteq Upward(d) /\ Coming(d)' = Coming(d)
    PROVE  Order'
<1>1. ASSUME NEW d \in Conns PROVE InOrder(d)'
  <2>1. InOrder(d) BY DEF Order
  <2>2. ComesOn(d) BY DEF ComesOn
  <2> QED BY <2>1, <2>2, OrderStays
<1> QED BY <1>1 DEF Order

LEMMA UnchangedOrder ==
    ASSUME Typed, Life, Order, UNCHANGED <<tunnel, conn, closed, uplink, post, failures>>,
           posting' = posting \/ (posting' = FALSE /\ post = <<>>),
           bulk' = <<>> \/ \A d \in Conns : Asked(d)' <=> Asked(d)
    PROVE  Order'
<1>1. \A d \in Conns : Upward(d)' = Upward(d) /\ Coming(d)' = Coming(d) BY DEF Upward, Coming, Stream
<1>2. bulk' = <<>> => \A d \in Conns : ~Asked(d)' BY EmptyHasNone DEF Asked
<1>3. (~posting => post = <<>>)' BY DEF Order
<1> QED BY <1>1, <1>2, <1>3, StillOrder

LEMMA RestOrder ==
    ASSUME Typed, Life, Order,
           \/ Uncount \/ SweepEnds \/ PostSucceeds \/ LoseDownlink \/ SessionBegins
           \/ SessionRemoved \/ RemovalSweeps \/ (\E s \in streams : StreamDropped(s)) \/ UNCHANGED vars
    PROVE  Order'
<1>1. UNCHANGED <<tunnel, conn, closed, uplink, post, failures>>
  BY DEF Uncount, SweepEnds, PostSucceeds, LoseDownlink, SessionBegins, SessionRemoved, RemovalSweeps, StreamDropped,
         relayVars, agentVars, downlink, batch, history, vars
<1>2. posting' = posting \/ (posting' = FALSE /\ post = <<>>)
  BY DEF Uncount, SweepEnds, PostSucceeds, LoseDownlink, SessionBegins, SessionRemoved, RemovalSweeps, StreamDropped, batch, vars
<1>3. bulk' \in {bulk, <<>>}
  BY DEF Uncount, SweepEnds, PostSucceeds, LoseDownlink, SessionBegins, SessionRemoved, RemovalSweeps, StreamDropped, downlink, vars
<1>4. bulk' = bulk => \A d \in Conns : Asked(d)' <=> Asked(d) BY DEF Asked
<1> QED BY <1>1, <1>2, <1>3, <1>4, UnchangedOrder

LEMMA LateOrder == ASSUME Typed, Life, Order, LateSend \/ LateTimesOut PROVE Order'
<1>1. late \in Seq(LateMsgs) /\ bulk \in Seq(DownMsgs) BY DEF Typed, QueuesTyped
<1>2. PICK i \in 1 .. Len(late) : bulk' = Append(bulk, late[i]) \/ bulk' = bulk BY DEF LateSend, LateTimesOut
<1>3. late[i] \in LateMsgs BY <1>1
<1>4. late[i].type # "open" /\ late[i] \in DownMsgs BY <1>3, Kinds DEF LateMsgs, Message
<1>5. ToSet(bulk') \subseteq ToSet(bulk) \cup {late[i]} /\ ToSet(bulk) \subseteq ToSet(bulk')
  <2>1. CASE bulk' = bulk BY <2>1
  <2>2. CASE bulk' = Append(bulk, late[i]) BY <1>1, <1>4, <2>2, AppendAdds
  <2> QED BY <1>2, <2>1, <2>2
<1>6. \A d \in Conns : Asked(d)' <=> Asked(d) BY <1>4, <1>5 DEF Asked, IsOpen
<1>7. UNCHANGED <<tunnel, conn, closed, uplink, post, posting, failures>>
  BY DEF LateSend, LateTimesOut, relayVars, agentVars, batch, history
<1> QED BY <1>6, <1>7, UnchangedOrder

LEMMA UplinkTakesOrder == ASSUME Typed, Life, Order, UplinkTakes PROVE Order'
<1>1. UNCHANGED <<tunnel, bulk, conn, failures>> /\ ~posting /\ posting' = (post' # <<>>)
  BY DEF UplinkTakes, relayVars, downlink, history
<1>2. post = <<>> BY <1>1 DEF Order
<1>3. \A d \in Conns : Coming(d)' = Coming(d) BY <1>2, ComingTaken
<1>4. ToSet(uplink') \cup ToSet(post') \subseteq ToSet(uplink) BY TakesTyped
<1>5. \A d \in Conns : Upward(d)' \subseteq Upward(d) /\ (Asked(d)' <=> Asked(d)) BY <1>1, <1>4 DEF Upward, Asked
<1>6. (~posting => post = <<>>)' BY <1>1
<1> QED BY <1>1, <1>3, <1>5, <1>6, StillOrder

\* A connection that is dropped sends no more.
LEMMA DroppedSends ==
    ASSUME Typed, NEW d \in Conns, NEW how \in {"gone", "closed", "down"}
    PROVE  SendsOn(d, Dropped(d, how)) /\ Dropped(d, how).pc \notin Reading
<1>1. Dropped(d, how).pc = how /\ Dropped(d, how).outSeq = conn[d].outSeq BY EndFields
<1> QED BY <1>1 DEF SendsOn, Reading

LEMMA ReadingHasRecord == \A d \in Conns : conn[d].pc \in Reading => d \in Records
BY DEF Reading, Records

LEMMA PostFailsOrder == ASSUME Typed, Life, Order, PostFails PROVE Order'
<1>1. /\ UNCHANGED <<tunnel, bulk, uplink>> /\ post' = <<>> /\ failures' = failures + 1
      /\ conn' = [c \in Conns |-> IF c \in Records THEN Dropped(c, "gone") ELSE conn[c]]
  BY DEF PostFails, relayVars, downlink, Aborted
<1>2. failures' # 0
  <2>1. failures \in Nat BY DEF Typed
  <2> QED BY <1>1, <2>1
<1>3. ToSet(post') = {} BY <1>1, EmptyHasNone
<1>4. ASSUME NEW d \in Conns PROVE InOrder(d)'
  <2>1. InOrder(d) /\ ReadsOn(tunnel[d], tunnel[d]) /\ SendsOn(d, conn[d]) BY Stays DEF Order
  <2>2. SendsOn(d, conn'[d]) BY <1>1, <2>1, DroppedSends
  <2>3. Upward(d)' \subseteq Upward(d) /\ (Asked(d)' <=> Asked(d)) BY <1>1, <1>3 DEF Upward, Asked
  <2>4. ComesOn(d) BY <1>2, <2>3 DEF ComesOn
  <2> QED BY <1>1, <2>1, <2>2, <2>4, OrderOn
<1> QED BY <1>1, <1>4 DEF Order

LEMMA SessionEndsOrder == ASSUME Typed, Life, Order, SessionEnds PROVE Order'
<1>1. /\ UNCHANGED <<tunnel, failures>> /\ bulk' = <<>> /\ uplink' = <<>> /\ post' = <<>>
      /\ conn' = [c \in Conns |-> IF c \in Records THEN Dropped(c, "down") ELSE conn[c]]
  BY DEF SessionEnds, relayVars, history
<1>2. ToSet(<<>>) = {} BY EmptyHasNone
<1>3. ASSUME NEW d \in Conns PROVE InOrder(d)'
  <2>1. InOrder(d) /\ ReadsOn(tunnel[d], tunnel[d]) /\ SendsOn(d, conn[d]) BY Stays DEF Order
  <2>2. SendsOn(d, conn'[d]) BY <1>1, <2>1, DroppedSends
  <2>3. conn'[d].pc \notin Reading BY <1>1, DroppedSends, ReadingHasRecord
  <2>4. Upward(d)' = {} /\ ~Asked(d)' BY <1>1, <1>2 DEF Upward, Asked
  <2>5. Shorter(d)
    <3> DEFINE e == <<>>
    <3>1. Coming(d) \in Seq(UpMsgs) /\ e \in Seq(UpMsgs) BY ComingTyped
    <3>2. e \o Coming(d) = Coming(d) BY <3>1, ConcatEmptySeq
    <3>3. Kept(<<>>, Stream(d)) = <<>> /\ <<>> \o <<>> = <<>> BY KeptEmpty
    <3>4. Coming(d)' = e BY <1>1, <3>3 DEF Coming, Stream
    <3> HIDE DEF e
    <3> QED BY <3>1, <3>2, <3>4 DEF Shorter
  <2>6. ComesOn(d) BY <1>1, <2>3, <2>4, <2>5 DEF ComesOn
  <2> QED BY <1>1, <2>1, <2>2, <2>6, OrderOn
<1> QED BY <1>1, <1>3 DEF Order

\* What a connection's tasks send: nothing of the stream, ...
SpeaksAside(c, m, r) ==
    SendsOn(c, r) /\ (uplink' = uplink \/ (uplink' = Append(uplink, m) /\ m.type \notin {"data", "eof", "closed"}))

\* ... its next part, ...
SpeaksData(c, m, r) ==
    /\ uplink' = Append(uplink, m) /\ m.type = "data" /\ m.seq = conn[c].outSeq
    /\ conn[c].pc = "running" /\ ~conn[c].readDone
    /\ r.pc = "running" /\ r.outSeq = conn[c].outSeq + 1

\* ... or its end.
SpeaksEnd(c, m, r) ==
    /\ uplink' = Append(uplink, m) /\ m.type \in {"eof", "closed"} /\ conn[c].pc \in Reading
    /\ SendsOn(c, r) /\ (r.readDone \/ r.pc \notin {"none", "connecting", "running"})

LEMMA SetPcSpeaks ==
    ASSUME Typed, NEW c \in Conns, NEW m, NEW r, SetPc(c, m, r) PROVE SpeaksAside(c, m, r) \/ SpeaksEnd(c, m, r)
<1>1. conn[c] \in Ends BY DEF Typed, AgentTyped
<1>2. \A x : LET p == [conn[c] EXCEPT !.pc = x] IN p.pc = x /\ p.outSeq = conn[c].outSeq /\ p.readDone = conn[c].readDone
  BY <1>1 DEF Ends
<1>3. Ctrl("opened", c).type = "opened" /\ Ctrl("closed", c).type = "closed" /\ Ctrl("error", c).type = "error"
  BY DEF Ctrl, Msg
<1>4. CASE conn[c].pc = "connecting" /\ m = Ctrl("opened", c) /\ uplink' = Append(uplink, m)
           /\ r = [conn[c] EXCEPT !.pc = "running"]
  <2>1. r.pc = "running" /\ r.outSeq = conn[c].outSeq /\ r.readDone = conn[c].readDone BY <1>2, <1>4
  <2> QED BY <1>3, <1>4, <2>1 DEF SpeaksAside, SendsOn, Silenced, Reading
<1>5. CASE conn[c].pc \in {"connecting", "running"} /\ uplink' = uplink /\ r = [conn[c] EXCEPT !.pc = "failing"]
  <2>1. r.pc = "failing" /\ r.outSeq = conn[c].outSeq BY <1>2, <1>5
  <2> QED BY <1>5, <2>1 DEF SpeaksAside, SendsOn, Reading
<1>6. CASE conn[c].pc = "running" /\ uplink' = uplink /\ r = [conn[c] EXCEPT !.pc = "closing"]
  <2>1. r.pc = "closing" /\ r.outSeq = conn[c].outSeq BY <1>2, <1>6
  <2> QED BY <1>6, <2>1 DEF SpeaksAside, SendsOn, Reading
<1>7. CASE conn[c].pc = "closing" /\ m = Ctrl("closed", c) /\ uplink' = Append(uplink, m)
           /\ r = [conn[c] EXCEPT !.pc = "reported"]
  <2>1. r.pc = "reported" /\ r.outSeq = conn[c].outSeq BY <1>2, <1>7
  <2> QED BY <1>3, <1>7, <2>1 DEF SpeaksEnd, SendsOn, Reading
<1>8. CASE conn[c].pc = "failing" /\ m = Ctrl("error", c) /\ uplink' = Append(uplink, m)
           /\ r = [conn[c] EXCEPT !.pc = "reported"]
  <2>1. r.pc = "reported" /\ r.outSeq = conn[c].outSeq BY <1>2, <1>8
  <2> QED BY <1>3, <1>8, <2>1 DEF SpeaksAside, SendsOn, Reading
<1>9. CASE uplink' = uplink /\ r = Dropped(c, "gone") BY <1>9, DroppedSends DEF SpeaksAside
<1> QED BY <1>4, <1>5, <1>6, <1>7, <1>8, <1>9 DEF SetPc

LEMMA ReadsSpeaks ==
    ASSUME Typed, NEW c \in Conns, NEW m, NEW r, Reads(c, m, r) PROVE SpeaksData(c, m, r) \/ SpeaksEnd(c, m, r)
<1>1. conn[c] \in Ends BY DEF Typed, AgentTyped
<1>2. conn[c].pc = "running" /\ ~conn[c].readDone /\ uplink' = Append(uplink, m) BY DEF Reads
<1>3. ASSUME NEW n \in Nat \ {0}, m = Msg("data", c, conn[c].outSeq, n),
             r = [[conn[c] EXCEPT !.outSeq = conn[c].outSeq + 1] EXCEPT !.unacked = conn[c].unacked + n]
      PROVE  SpeaksData(c, m, r)
  <2>1. r.pc = "running" /\ r.outSeq = conn[c].outSeq + 1 BY <1>1, <1>2, <1>3 DEF Ends
  <2>2. m.type = "data" /\ m.seq = conn[c].outSeq BY <1>3 DEF Msg
  <2> QED BY <1>2, <2>1, <2>2 DEF SpeaksData
<1>4. CASE m = Ctrl("eof", c) /\ r = [conn[c] EXCEPT !.readDone = TRUE]
  <2>1. r.pc = "running" /\ r.outSeq = conn[c].outSeq /\ r.readDone = TRUE BY <1>1, <1>2, <1>4 DEF Ends
  <2>2. m.type = "eof" BY <1>4 DEF Ctrl, Msg
  <2> QED BY <1>2, <2>1, <2>2 DEF SpeaksEnd, SendsOn, Reading
<1> QED BY <1>3, <1>4 DEF Reads

LEMMA WritesSpeaks ==
    ASSUME Typed, NEW c \in Conns, NEW m, NEW r, Writes(c, m, r) PROVE SpeaksAside(c, m, r)
<1>1. conn[c] \in Ends BY DEF Typed, AgentTyped
<1>2. conn[c].pc = "running" BY DEF Writes
<1>3. r.pc \in {"running", "failing"} /\ r.outSeq = conn[c].outSeq /\ r.readDone = conn[c].readDone
  BY <1>1, <1>2 DEF Writes, Ends
<1>4. uplink' = uplink \/ (uplink' = Append(uplink, m) /\ m.type = "ack") BY DEF Writes, Msg
<1> QED BY <1>2, <1>3, <1>4 DEF SpeaksAside, SendsOn, Silenced, Reading

\* The next part comes behind the others.
LEMMA DataOrder ==
    ASSUME Typed, NEW c \in Conns, InOrder(c), NEW m \in UpMsgs, m.conn = c, NEW r, SpeaksData(c, m, r), c \notin closed,
           tunnel' = tunnel, conn'[c] = r, UNCHANGED <<bulk, post, closed, failures>>
    PROVE  InOrder(c)'
<1>1. m \in Stream(c) /\ uplink' = Append(uplink, m) BY DEF SpeaksData, Stream
<1>2. r.pc = "running" /\ r.outSeq = conn[c].outSeq + 1 BY DEF SpeaksData
<1>3. Coming(c)' = Append(Coming(c), m) BY <1>1, ComingAdds
<1>4. ToSet(uplink') = ToSet(uplink) \cup {m}
  <2>1. uplink \in Seq(UpMsgs) BY ComingTyped
  <2> QED BY <1>1, <2>1, AppendAdds
<1>5. ~Silenced(c) BY DEF SpeaksData, Silenced
<1>6. Asked(c)' <=> Asked(c) BY DEF Asked
<1>7. Fresh(c)' BY <1>2, <1>6 DEF InOrder, Fresh
<1> SUFFICES ASSUME failures' = 0 PROVE (tunnel'[c].listed => Ordered(c)') /\ EndSeen(c)' BY <1>7 DEF InOrder
<1>8. (tunnel[c].listed => Ordered(c)) /\ EndSeen(c) BY DEF InOrder
<1>9. \A x \in Upward(c) : ~Ended(x) BY <1>5, <1>8 DEF EndSeen
<1>10. /\ tunnel[c].readSeq \in Nat /\ conn[c].outSeq \in Nat
  <2>1. tunnel[c] \in Tunnels /\ conn[c] \in Ends BY DEF Typed, RelayTyped, AgentTyped
  <2> QED BY <2>1, TunnelField, EndField
<1>11. ASSUME tunnel[c].listed PROVE Ordered(c)'
  <2> DEFINE q == Coming(c)
             first == tunnel[c].readSeq
             next == conn[c].outSeq
  <2>1. q \in Seq(UpMsgs) /\ \A x \in ToSet(q) : x.type = "data"
    <3>1. q \in Seq(UpMsgs) /\ ToSet(q) \subseteq Upward(c) \cap Stream(c) BY ComingTyped
    <3>2. \A x \in Upward(c) \cap Stream(c) : x.type = "data" BY <1>9 DEF Stream, Ended
    <3> QED BY <3>1, <3>2
  <2>2. first <= next /\ Runs(q, first, next) /\ next <= first + Len(q)
    <3>1. conn[c].pc \in Reading BY DEF SpeaksData, Reading
    <3> QED BY <1>8, <1>11, <3>1 DEF Ordered
  <2>3. m.type = "data" /\ m.seq = next BY DEF SpeaksData
  <2>4. first \in Nat /\ next \in Nat BY <1>10
  <2>5. Coming(c)' = Append(q, m) /\ tunnel'[c].readSeq = first /\ conn'[c].outSeq = next + 1 BY <1>2, <1>3
  <2> HIDE DEF q, first, next
  <2>6. Runs(Append(q, m), first, next + 1) /\ next + 1 <= first + Len(Append(q, m))
    BY <2>1, <2>2, <2>3, <2>4, RunsData
  <2>7. first <= next + 1 BY <2>2, <2>4
  <2>8. (Runs(Coming(c), tunnel[c].readSeq, conn[c].outSeq))' BY <2>5, <2>6 DEF Runs
  <2> QED BY <2>5, <2>6, <2>7, <2>8 DEF Ordered
<1>12. EndSeen(c)'
  <2>1. ~Complete(c) BY <1>5 DEF Complete
  <2>2. ~tunnel[c].readEof /\ \A i \in DOMAIN tunnel[c].in : ~Ended(tunnel[c].in[i]) BY <1>8, <2>1 DEF EndSeen
  <2>3. ~Ended(m) BY DEF SpeaksData, Ended
  <2>4. \A x \in Upward(c)' : ~Ended(x) BY <1>4, <1>9, <2>3 DEF Upward
  <2> QED BY <2>2, <2>4 DEF EndSeen, Ended
<1> QED BY <1>11, <1>12

\* The end comes behind all parts.
LEMMA EndOrder ==
    ASSUME Typed, NEW c \in Conns, InOrder(c), NEW m \in UpMsgs, m.conn = c, NEW r, SpeaksEnd(c, m, r), c \notin closed,
           tunnel' = tunnel, conn'[c] = r, UNCHANGED <<bulk, post, closed, failures>>
    PROVE  InOrder(c)'
<1>1. m \in Stream(c) /\ uplink' = Append(uplink, m) BY DEF SpeaksEnd, Stream
<1>2. r.outSeq = conn[c].outSeq /\ (r.pc = "none" => r = NoConn) BY DEF SpeaksEnd, SendsOn
<1>3. Coming(c)' = Append(Coming(c), m) BY <1>1, ComingAdds
<1>4. Silenced(c)' BY DEF SpeaksEnd, Silenced
<1>5. Asked(c)' <=> Asked(c) BY DEF Asked
<1>6. Fresh(c)' BY <1>2, <1>5 DEF InOrder, Fresh
<1> SUFFICES ASSUME failures' = 0 PROVE (tunnel'[c].listed => Ordered(c)') /\ EndSeen(c)' BY <1>6 DEF InOrder
<1>7. (tunnel[c].listed => Ordered(c)) /\ EndSeen(c) BY DEF InOrder
<1>8. tunnel[c].readSeq \in Nat /\ conn[c].outSeq \in Nat
  <2>1. tunnel[c] \in Tunnels /\ conn[c] \in Ends BY DEF Typed, RelayTyped, AgentTyped
  <2> QED BY <2>1, TunnelField, EndField
<1>9. ASSUME tunnel[c].listed PROVE Ordered(c)'
  <2> DEFINE q == Coming(c)
             first == tunnel[c].readSeq
             next == conn[c].outSeq
  <2>1. q \in Seq(UpMsgs) BY ComingTyped
  <2>2. first <= next /\ Runs(q, first, next) /\ next <= first + Len(q)
    <3>1. conn[c].pc \in Reading BY DEF SpeaksEnd
    <3> QED BY <1>7, <1>9, <3>1 DEF Ordered
  <2>3. m.type # "data" BY DEF SpeaksEnd
  <2>4. first \in Nat /\ next \in Nat BY <1>8
  <2>5. Coming(c)' = Append(q, m) /\ tunnel'[c].readSeq = first /\ conn'[c].outSeq = next BY <1>2, <1>3
  <2> HIDE DEF q, first, next
  <2>6. Runs(Append(q, m), first, next) /\ next <= first + Len(Append(q, m)) BY <2>1, <2>2, <2>3, <2>4, RunsEnd
  <2>7. (Runs(Coming(c), tunnel[c].readSeq, conn[c].outSeq))' BY <2>5, <2>6 DEF Runs
  <2> QED BY <2>2, <2>5, <2>6, <2>7 DEF Ordered
<1>10. Complete(c) => Complete(c)' BY <1>2, <1>4 DEF Complete
<1>11. EndSeen(c)' BY <1>4, <1>7, <1>10 DEF EndSeen, Ended
<1> QED BY <1>9, <1>11

LEMMA ConnDoesOrder == ASSUME Typed, Life, Order, NEW c \in Conns, ConnDoes(c) PROVE Order'
<1>1. PICK r \in Ends, m \in UpMsgs :
        /\ c \in Records /\ Talks(c, r, m) /\ m.conn = c
        /\ SetPc(c, m, r) \/ Reads(c, m, r) \/ Writes(c, m, r)
  BY DEF ConnDoes
<1>2. conn \in [Conns -> Ends] /\ uplink \in Seq(UpMsgs) /\ Records \cap closed = {} BY DEF Typed, AgentTyped
<1>3. /\ UNCHANGED <<tunnel, bulk, post, posting, closed, failures>>
      /\ conn' = [conn EXCEPT ![c] = r] /\ uplink' \in {uplink, Append(uplink, m)}
  BY <1>1 DEF Talks, SetConn, relayVars, downlink, batch, history
<1>4. conn'[c] = r /\ \A d \in Conns \ {c} : conn'[d] = conn[d] BY <1>2, <1>3
<1>5. c \notin closed BY <1>1, <1>2
<1>6. ToSet(uplink') \subseteq ToSet(uplink) \cup {m}
  <2>1. CASE uplink' = uplink BY <2>1
  <2>2. CASE uplink' = Append(uplink, m) BY <1>2, <2>2, AppendAdds
  <2> QED BY <1>3, <2>1, <2>2
<1>7. \A d \in Conns : Asked(d)' <=> Asked(d) BY <1>3 DEF Asked
<1>8. \A d \in Conns : m \notin Stream(d) => Coming(d)' = Coming(d) BY <1>3, ComingStill
<1>9. ASSUME NEW d \in Conns \ {c} PROVE InOrder(d)'
  <2>1. m \notin Stream(d) BY <1>1 DEF Stream
  <2>2. Upward(d)' \subseteq Upward(d) BY <1>1, <1>3, <1>6 DEF Upward
  <2>3. ComesOn(d) BY <1>3, <1>7, <1>8, <2>1, <2>2 DEF ComesOn
  <2>4. InOrder(d) BY DEF Order
  <2> QED BY <1>3, <1>4, <2>3, <2>4, OrderStays
<1>10. InOrder(c) BY DEF Order
<1>11. ASSUME SpeaksAside(c, m, r) PROVE InOrder(c)'
  <2>1. CASE uplink' = uplink
    <3>1. Coming(c)' = Coming(c) /\ Upward(c)' = Upward(c) BY <1>3, <2>1 DEF Coming, Stream, Upward
    <3>2. ComesOn(c) BY <1>3, <1>7, <3>1 DEF ComesOn
    <3>3. ReadsOn(tunnel[c], tunnel'[c]) /\ SendsOn(c, conn'[c]) BY <1>3, <1>4, <1>10, <1>11, Stays DEF SpeaksAside
    <3> QED BY <1>10, <3>2, <3>3, OrderOn
  <2>2. CASE uplink' = Append(uplink, m) /\ m.type \notin {"data", "eof", "closed"}
    <3>1. m \notin Stream(c) /\ ~Ended(m) BY <2>2 DEF Stream, Ended
    <3>2. \A x \in Upward(c)' : Ended(x) => x \in Upward(c) BY <1>3, <1>6, <3>1 DEF Upward
    <3>3. ComesOn(c) BY <1>3, <1>7, <1>8, <3>1, <3>2 DEF ComesOn
    <3>4. ReadsOn(tunnel[c], tunnel'[c]) /\ SendsOn(c, conn'[c]) BY <1>3, <1>4, <1>10, <1>11, Stays DEF SpeaksAside
    <3> QED BY <1>10, <3>3, <3>4, OrderOn
  <2> QED BY <1>11, <2>1, <2>2 DEF SpeaksAside
<1>12. ASSUME SpeaksData(c, m, r) PROVE InOrder(c)'
  BY <1>1, <1>3, <1>4, <1>5, <1>10, <1>12, DataOrder
<1>13. ASSUME SpeaksEnd(c, m, r) PROVE InOrder(c)'
  BY <1>1, <1>3, <1>4, <1>5, <1>10, <1>13, EndOrder
<1>14. InOrder(c)' BY <1>1, <1>11, <1>12, <1>13, SetPcSpeaks, ReadsSpeaks, WritesSpeaks
<1>15. (~posting => post = <<>>)' BY <1>3 DEF Order
<1> QED BY <1>9, <1>14, <1>15 DEF Order

\* A connection that is asked for has sent nothing yet.
LEMMA AcceptOrder ==
    ASSUME Typed, Life, NEW c \in Conns, InOrder(c), Asked(c), NEW r, r = [NoConn EXCEPT !.pc = "connecting"], conn'[c] = r,
           UNCHANGED <<tunnel, uplink, post, failures>>
    PROVE  InOrder(c)'
<1>1. r.pc = "connecting" /\ r.outSeq = 0 BY DEF NoConn
<1>2. Upward(c) = {} BY DEF Life, Quiet
<1>3. tunnel[c].in = <<>> /\ tunnel[c].readSeq = 0 /\ ~tunnel[c].readEof BY DEF InOrder, Fresh
<1>4. Upward(c)' = {} BY <1>2 DEF Upward
<1>5. Coming(c)' = <<>>
  <2>1. post \in Seq(UpMsgs) /\ uplink \in Seq(UpMsgs) BY ComingTyped
  <2>2. ToSet(post) \cap Stream(c) = {} /\ ToSet(uplink) \cap Stream(c) = {} BY <1>2 DEF Upward, Stream
  <2>3. Kept(post, Stream(c)) = <<>> /\ Kept(uplink, Stream(c)) = <<>> BY <2>1, <2>2, NoneKept
  <2>4. <<>> \o <<>> = <<>> OBVIOUS
  <2> QED BY <2>3, <2>4 DEF Coming, Stream
<1>6. Fresh(c)' BY <1>1, <1>3 DEF Fresh
<1>7. Ordered(c)'
  <2>1. Runs(Coming(c), tunnel[c].readSeq, conn[c].outSeq)' BY <1>5, RunsEmpty DEF Runs
  <2>2. Len(<<>>) = 0 OBVIOUS
  <2>3. conn'[c].outSeq <= tunnel'[c].readSeq + Len(Coming(c)') BY <1>1, <1>3, <1>5, <2>2
  <2>4. tunnel'[c].readSeq <= conn'[c].outSeq BY <1>1, <1>3
  <2> QED BY <2>1, <2>3, <2>4 DEF Ordered
<1>8. EndSeen(c)'
  <2>1. DOMAIN <<>> = {} OBVIOUS
  <2> QED BY <1>3, <1>4, <2>1 DEF EndSeen
<1> QED BY <1>6, <1>7, <1>8 DEF InOrder

\* A tombstone leaves out what is still in the uplink's queue.
LEMMA ShorterClosed ==
    ASSUME Typed, NEW c \in Conns, UNCHANGED <<uplink, post>>, c \in closed' PROVE Shorter(c)
<1> DEFINE p == Kept(post, Stream(c))
           u == Kept(uplink, Stream(c))
           e == <<>>
<1>1. p \in Seq(UpMsgs) /\ u \in Seq(UpMsgs) BY ComingTyped
<1>2. e \in Seq(UpMsgs) OBVIOUS
<1>3. Coming(c) = IF c \in closed THEN p ELSE p \o u BY DEF Coming
<1>4. Coming(c)' = p BY DEF Coming, Stream
<1>5. p \o e = p BY <1>1, ConcatEmptySeq
<1> HIDE DEF p, u, e
<1> QED BY <1>1, <1>2, <1>3, <1>4, <1>5 DEF Shorter

\* What the main loop makes of a message, as far as the order goes
HandledOn(c, m) ==
    \/ /\ m.type = "open" /\ conn'[c] = [NoConn EXCEPT !.pc = "connecting"]
       /\ uplink' = uplink
    \/ /\ SendsOn(c, conn'[c]) /\ closed' = closed
       /\ uplink' = uplink \/ uplink' = Append(uplink, Ctrl("error", c))
    \/ /\ SendsOn(c, conn'[c]) /\ conn'[c].pc \notin Reading
       /\ c \in closed' /\ uplink' = uplink

LEMMA HandlesOn ==
    ASSUME Typed, NEW c \in Conns, InOrder(c), NEW m, Handled(m, c) PROVE HandledOn(c, m)
<1>1. conn \in [Conns -> Ends] /\ conn[c] \in Ends BY DEF Typed, AgentTyped
<1>2. SendsOn(c, conn[c]) BY Stays
<1>3. CASE m.type = "open" /\ uplink' = uplink
           /\ conn' = [conn EXCEPT ![c] = [NoConn EXCEPT !.pc = "connecting"]]
  BY <1>1, <1>3 DEF HandledOn
<1>4. CASE UNCHANGED <<conn, closed>> /\ uplink' \in {uplink, Append(uplink, Ctrl("error", c))}
  BY <1>2, <1>4 DEF HandledOn
<1>5. CASE conn' = [conn EXCEPT ![c] = [conn[c] EXCEPT !.in = Append(conn[c].in, m)]] /\ UNCHANGED <<closed, uplink>>
           /\ c \in Records
  <2>1. conn'[c].pc = conn[c].pc /\ conn'[c].outSeq = conn[c].outSeq /\ conn'[c].readDone = conn[c].readDone
    BY <1>1, <1>5 DEF Ends
  <2>2. conn[c].pc # "none" BY <1>5 DEF Records
  <2>3. SendsOn(c, conn'[c]) BY <2>1, <2>2 DEF SendsOn, Silenced
  <2> QED BY <1>5, <2>3 DEF HandledOn
<1>6. CASE conn' = [conn EXCEPT ![c] = [conn[c] EXCEPT !.unacked = Minus(conn[c].unacked, m.bytes)]]
           /\ UNCHANGED <<closed, uplink>> /\ c \in Records
  <2>1. conn'[c].pc = conn[c].pc /\ conn'[c].outSeq = conn[c].outSeq /\ conn'[c].readDone = conn[c].readDone
    BY <1>1, <1>6 DEF Ends
  <2>2. conn[c].pc # "none" BY <1>6 DEF Records
  <2>3. SendsOn(c, conn'[c]) BY <2>1, <2>2 DEF SendsOn, Silenced
  <2> QED BY <1>6, <2>3 DEF HandledOn
<1>7. CASE conn' = [conn EXCEPT ![c] = Dropped(c, "gone")] /\ closed' = closed
           /\ uplink' \in {uplink, Append(uplink, Ctrl("error", c))}
  <2>1. conn'[c] = Dropped(c, "gone") BY <1>1, <1>7
  <2> QED BY <1>7, <2>1, DroppedSends DEF HandledOn
<1>8. CASE conn' = [conn EXCEPT ![c] = IF c \in Records THEN Dropped(c, "closed") ELSE conn[c]]
           /\ closed' = closed \cup {c} /\ uplink' = uplink
  <2>1. conn'[c] = IF c \in Records THEN Dropped(c, "closed") ELSE conn[c] BY <1>1, <1>8
  <2>2. SendsOn(c, conn'[c]) /\ conn'[c].pc \notin Reading BY <1>2, <2>1, DroppedSends, ReadingHasRecord
  <2> QED BY <1>8, <2>2 DEF HandledOn
<1> QED BY <1>3, <1>4, <1>5, <1>6, <1>7, <1>8 DEF Handled

LEMMA ReceivesOrder == ASSUME Typed, Life, Order, AgentReceives PROVE Order'
<1>1. PICK m, c : m = Head(bulk) /\ c = m.conn OBVIOUS
<1>2. /\ bulk # <<>> /\ m \in DownMsgs /\ c \in Conns /\ bulk' = Tail(bulk) /\ UNCHANGED agentElse /\ Handled(m, c)
  BY <1>1, ReceiveCases
<1>3. UNCHANGED <<tunnel, post, posting, failures>> BY <1>2 DEF agentElse, relayVars, batch, history
<1>4. /\ bulk \in Seq(DownMsgs) /\ conn \in [Conns -> Ends] /\ uplink \in Seq(UpMsgs) /\ closed \in SUBSET Conns
  BY DEF Typed, QueuesTyped, AgentTyped
<1>5. ToSet(bulk) = {m} \cup ToSet(bulk') BY <1>1, <1>2, <1>4, TailLacks
<1>6. \A d \in Conns : Asked(d)' => Asked(d) BY <1>5 DEF Asked
<1> DEFINE x == Ctrl("error", c)
<1>7. uplink' \in {uplink, Append(uplink, x)} BY <1>2 DEF Handled
<1>8. x \in UpMsgs /\ x.conn = c /\ x.type = "error" BY <1>2, CtrlTyped DEF Ctrl, Msg
<1> HIDE DEF x
<1>9. \A d \in Conns : x \notin Stream(d) BY <1>8 DEF Stream
<1>10. ToSet(uplink') \subseteq ToSet(uplink) \cup {x}
  <2>1. CASE uplink' = uplink BY <2>1
  <2>2. CASE uplink' = Append(uplink, x) BY <1>4, <1>8, <2>2, AppendAdds
  <2> QED BY <1>7, <2>1, <2>2
<1>11. \A d \in Conns : \A y \in Upward(d)' : Ended(y) => y \in Upward(d) BY <1>3, <1>8, <1>10 DEF Upward, Ended
<1>12. \A d \in Conns : (d \in closed' <=> d \in closed) => Coming(d)' = Coming(d) BY <1>3, <1>7, <1>8, <1>9, ComingStill
<1>13. \A d \in Conns \ {c} : conn'[d] = conn[d] /\ (d \in closed' <=> d \in closed) BY <1>2, <1>4 DEF Handled
<1>14. ASSUME NEW d \in Conns \ {c} PROVE InOrder(d)'
  <2>1. ComesOn(d) BY <1>3, <1>6, <1>11, <1>12, <1>13 DEF ComesOn
  <2>2. InOrder(d) BY DEF Order
  <2> QED BY <1>3, <1>13, <2>1, <2>2, OrderStays
<1>15. InOrder(c) BY <1>2 DEF Order
<1>16. ReadsOn(tunnel[c], tunnel'[c]) BY <1>2, <1>3, <1>15, Stays
<1>17. InOrder(c)'
  <2>1. CASE m.type = "open" /\ conn'[c] = [NoConn EXCEPT !.pc = "connecting"] /\ uplink' = uplink
    <3>1. Asked(c) BY <1>1, <1>5, <2>1 DEF Asked, IsOpen
    <3> QED BY <1>2, <1>3, <1>15, <2>1, <3>1, AcceptOrder
  <2>2. CASE SendsOn(c, conn'[c]) /\ closed' = closed
    <3>1. ComesOn(c) BY <1>2, <1>3, <1>6, <1>11, <1>12, <2>2 DEF ComesOn
    <3> QED BY <1>2, <1>15, <1>16, <2>2, <3>1, OrderOn
  <2>3. CASE SendsOn(c, conn'[c]) /\ conn'[c].pc \notin Reading /\ c \in closed' /\ uplink' = uplink
    <3>1. Shorter(c) BY <1>2, <1>3, <2>3, ShorterClosed
    <3>2. ComesOn(c) BY <1>2, <1>3, <1>6, <1>11, <2>3, <3>1 DEF ComesOn
    <3> QED BY <1>2, <1>15, <1>16, <2>3, <3>2, OrderOn
  <2> QED BY <1>2, <1>15, <2>1, <2>2, <2>3, HandlesOn DEF HandledOn
<1>18. (~posting => post = <<>>)' BY <1>3 DEF Order
<1> QED BY <1>14, <1>17, <1>18 DEF Order

LEMMA InitOrder == Init => Order
<1> SUFFICES ASSUME Init PROVE Order OBVIOUS
<1>1. ToSet(<<>>) = {} /\ DOMAIN <<>> = {} BY EmptyHasNone
<1>2. post = <<>> /\ uplink = <<>> /\ bulk = <<>> BY DEF Init
<1>3. ASSUME NEW c \in Conns PROVE InOrder(c)
  <2>1. tunnel[c] = NoTunnel /\ conn[c] = NoConn BY DEF Init
  <2>2. NoTunnel.in = <<>> /\ NoTunnel.readSeq = 0 /\ ~NoTunnel.readEof /\ ~NoTunnel.listed BY DEF NoTunnel
  <2>3. Upward(c) = {} BY <1>1, <1>2 DEF Upward
  <2>4. Fresh(c) BY <2>1, <2>2 DEF Fresh
  <2>5. EndSeen(c) BY <1>1, <2>1, <2>2, <2>3 DEF EndSeen
  <2> QED BY <2>1, <2>2, <2>4, <2>5 DEF InOrder
<1> QED BY <1>2, <1>3 DEF Order

LEMMA OrderStep == ASSUME Typed, Life, Order, [Next]_vars PROVE Order'
<1>1. CASE UNCHANGED vars BY <1>1, RestOrder
<1>2. ASSUME NEW c \in Conns, RelayStep(c) PROVE Order'
  <2>1. OpenFails(c) => Drop(c) BY DEF OpenFails
  <2> QED BY <1>2, <2>1, OpenCountsOrder, OpenInsertsOrder, OpenSendsOrder, OpenSucceedsOrder, DropOrder,
       OpenTimesOutOrder, WriterSendsOrder, SweepRemovesOrder DEF RelayStep
<1>3. ASSUME NEW c \in Conns, User(c) PROVE Order'
  <2>1. UserDrops(c) => Drop(c) BY DEF UserDrops
  <2> QED BY <1>3, <2>1, OpenLooksOrder, OpenSendTimesOutOrder, UserWritesOrder, UserShutsDownOrder, UserReadsOrder,
       UserConsumesOrder, UserReadsErrorOrder, DropOrder DEF User
<1>4. ASSUME NEW c \in Conns, AgentStep(c) \/ Target(c) PROVE Order'
  <2>1. ConnActs(c) BY <1>4 DEF ConnActs, AgentStep, Target
  <2> QED BY <2>1, ConnStep, ConnDoesOrder
<1>5. CASE LateSend \/ LateTimesOut BY <1>5, LateOrder
<1>6. CASE Uncount \/ SweepEnds BY <1>6, RestOrder
<1>7. CASE Route BY <1>7, RouteOrder
<1>8. CASE AgentReceives BY <1>8, ReceivesOrder
<1>9. CASE UplinkTakes BY <1>9, UplinkTakesOrder
<1>10. CASE PostSucceeds BY <1>10, RestOrder
<1>11. CASE SessionEnds BY <1>11, SessionEndsOrder
<1>12. CASE PostFails BY <1>12, PostFailsOrder
<1>13. CASE LoseDownlink \/ SessionBegins BY <1>13, RestOrder
<1>14. CASE SessionRemoved \/ RemovalSweeps \/ \E s \in streams : StreamDropped(s) BY <1>14, RestOrder
<1> QED BY <1>1, <1>2, <1>3, <1>4, <1>5, <1>6, <1>7, <1>8, <1>9, <1>10, <1>11, <1>12, <1>13, <1>14
     DEF Next, Tasks

\* A queue without messages of a type
LEMMA SumOfNone ==
    ASSUME NEW f \in Seq(Nat), \A i \in 1 .. Len(f) : f[i] = 0 PROVE Sum(f) = 0
<1> DEFINE n == Len(f)
<1>1. PICK g : g \in [0 .. n -> Nat] /\ g[0] = 0 /\ (\A i \in 1 .. n : g[i] = g[i - 1] + f[i]) /\ Sum(f) = g[n]
  BY SumAlong
<1>2. n \in Nat /\ \A i \in 1 .. n : f[i] = 0 OBVIOUS
<1> DEFINE L == {k \in Nat : k <= n => g[k] = 0}
<1> HIDE DEF n
<1>3. 0 \in L BY <1>1
<1>4. ASSUME NEW k \in L PROVE k + 1 \in L
  <2> SUFFICES ASSUME k + 1 <= n PROVE g[k + 1] = 0 OBVIOUS
  <2>1. k \in Nat /\ k + 1 \in 1 .. n /\ (k + 1) - 1 = k /\ k <= n BY <1>2
  <2>2. g[k] = 0 /\ f[k + 1] = 0 BY <1>2, <2>1
  <2>3. g[k + 1] = g[k] + f[k + 1] BY <1>1, <2>1
  <2> QED BY <2>2, <2>3
<1> HIDE DEF L
<1>5. L = Nat
  <2>1. L \in SUBSET Nat BY DEF L
  <2> QED BY <1>3, <1>4, <2>1, FromOneToTheNext
<1>6. n \in L BY <1>2, <1>5
<1> QED BY <1>1, <1>2, <1>6 DEF L

LEMMA CountOfNone ==
    ASSUME NEW S, NEW q \in Seq(S), NEW t, \A m \in ToSet(q) : m.type # t PROVE Count(q, t) = 0
<1> DEFINE f == [i \in 1 .. Len(q) |-> IF q[i].type = t THEN 1 ELSE 0]
<1>1. Len(q) \in Nat OBVIOUS
<1>2. f \in Seq(Nat) /\ Len(f) = Len(q) BY <1>1
<1>3. \A i \in 1 .. Len(q) : f[i] = 0 BY DEF ToSet
<1>4. Count(q, t) = Sum(f) BY DEF Count
<1> HIDE DEF f
<1> QED BY <1>2, <1>3, <1>4, SumOfNone

\* A user who reads the end of a stream has been given all that the target sent
\* before, as long as no POST has failed.
THEOREM StreamsAreWhole == Spec => []WholeStreams
<1>1. Init => Typed /\ Life /\ Order BY InitTyped, InitLife, InitOrder
<1>2. Typed /\ Life /\ Order /\ [Next]_vars => (Typed /\ Life /\ Order)' BY TypedStep, LifeStep, OrderStep
<1>3. Typed /\ Order => WholeStreams
  <2> SUFFICES ASSUME Typed, Order, failures = 0, NEW c \in Conns, tunnel[c].readEof
               PROVE  tunnel[c].readSeq = conn[c].outSeq /\ Count(tunnel[c].in, "data") = 0
    BY DEF WholeStreams
  <2>1. EndSeen(c) BY DEF Order, InOrder
  <2>2. tunnel[c].readSeq = conn[c].outSeq /\ \A m \in ToSet(tunnel[c].in) : m.type # "data"
    BY <2>1 DEF EndSeen, Complete
  <2>3. tunnel[c].in \in Seq(ReadMsgs)
    <3>1. tunnel[c] \in Tunnels BY DEF Typed, RelayTyped
    <3> QED BY <3>1, TunnelField
  <2> QED BY <2>2, <2>3, CountOfNone
<1> QED BY <1>1, <1>2, <1>3, PTL DEF Spec
==============================================================================
