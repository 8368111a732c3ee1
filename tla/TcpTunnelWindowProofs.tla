--------------------------- MODULE TcpTunnelWindowProofs ---------------------------
(***************************************************************************)
(* The windows of a tunnel: the account of the bytes at every place they   *)
(* can be at, and what follows from it for the agent that obeys it.        *)
(***************************************************************************)
EXTENDS TcpTunnelProofs

\* A queue without messages of a type, in bytes and sums
Msgs == DownMsgs \cup UpMsgs

LEMMA AllMsgs ==
    /\ \A q \in Seq(DownMsgs) : q \in Seq(Msgs)
    /\ \A q \in Seq(UpMsgs) : q \in Seq(Msgs)
    /\ \A q \in Seq(LateMsgs) : q \in Seq(Msgs)
    /\ \A q \in Seq(WriteMsgs) : q \in Seq(Msgs)
    /\ \A q \in Seq(ReadMsgs) : q \in Seq(Msgs)
    /\ \A m \in Msgs : m.conn \in Conns /\ m.bytes \in Nat
<1>1. DownMsgs \subseteq Msgs /\ UpMsgs \subseteq Msgs BY DEF Msgs
<1>2. LateMsgs \subseteq Msgs /\ WriteMsgs \subseteq Msgs /\ ReadMsgs \subseteq Msgs BY <1>1, Kinds
<1>3. \A m \in Msgs : m.conn \in Conns /\ m.bytes \in Nat BY Kinds DEF Msgs
<1> HIDE DEF Msgs
<1>4. \A S \in {DownMsgs, UpMsgs, LateMsgs, WriteMsgs, ReadMsgs} : \A q \in Seq(S) : q \in Seq(Msgs)
  <2> SUFFICES ASSUME NEW S \in {DownMsgs, UpMsgs, LateMsgs, WriteMsgs, ReadMsgs}, NEW q \in Seq(S) PROVE q \in Seq(Msgs)
    OBVIOUS
  <2>1. S \subseteq Msgs BY <1>1, <1>2
  <2>2. Len(q) \in Nat /\ q = [i \in 1 .. Len(q) |-> q[i]] /\ \A i \in 1 .. Len(q) : q[i] \in S OBVIOUS
  <2>3. \A i \in 1 .. Len(q) : q[i] \in Msgs BY <2>1, <2>2
  <2> QED BY <2>2, <2>3
<1> QED BY <1>3, <1>4

\* What one message counts for
Amount(m, t, c) == IF m.type = t /\ m.conn = c THEN m.bytes ELSE 0

LEMMA BytesTyped ==
    ASSUME NEW q \in Seq(Msgs), NEW t, NEW c
    PROVE  /\ Bytes(q, t, c) = Sum([i \in 1 .. Len(q) |-> Amount(q[i], t, c)])
           /\ [i \in 1 .. Len(q) |-> Amount(q[i], t, c)] \in Seq(Nat)
           /\ Bytes(q, t, c) \in Nat
<1> DEFINE f == [i \in 1 .. Len(q) |-> Amount(q[i], t, c)]
<1>1. Bytes(q, t, c) = Sum(f) BY DEF Bytes, Amount
<1>2. Len(q) \in Nat /\ \A i \in 1 .. Len(q) : q[i] \in Msgs OBVIOUS
<1>3. \A i \in 1 .. Len(q) : Amount(q[i], t, c) \in Nat BY <1>2, AllMsgs DEF Amount
<1>4. f \in Seq(Nat) BY <1>2, <1>3
<1> HIDE DEF f
<1>5. Sum(f) \in Nat BY <1>4, SumTyped
<1> QED BY <1>1, <1>4, <1>5 DEF f

LEMMA BytesEmpty == \A t, c : Bytes(<<>>, t, c) = 0
<1> SUFFICES ASSUME NEW t, NEW c PROVE Bytes(<<>>, t, c) = 0 OBVIOUS
<1>1. <<>> \in Seq(Msgs) /\ Len(<<>>) = 0 OBVIOUS
<1>2. Bytes(<<>>, t, c) = Sum([i \in 1 .. Len(<<>>) |-> Amount(<<>>[i], t, c)]) BY <1>1, BytesTyped
<1>3. [i \in 1 .. Len(<<>>) |-> Amount(<<>>[i], t, c)] = <<>> BY <1>1
<1> QED BY <1>2, <1>3, SumEmpty

LEMMA BytesAppend ==
    ASSUME NEW q \in Seq(Msgs), NEW m \in Msgs, NEW t, NEW c
    PROVE  Bytes(Append(q, m), t, c) = Bytes(q, t, c) + Amount(m, t, c)
<1> DEFINE f == [i \in 1 .. Len(q) |-> Amount(q[i], t, c)]
           e == Append(q, m)
           g == [i \in 1 .. Len(e) |-> Amount(e[i], t, c)]
           a == Amount(m, t, c)
<1>1. e \in Seq(Msgs) /\ Len(e) = Len(q) + 1 /\ e[Len(q) + 1] = m /\ \A i \in 1 .. Len(q) : e[i] = q[i]
  BY AppendProperties
<1>2. Len(q) \in Nat OBVIOUS
<1>3. f \in Seq(Nat) /\ Bytes(q, t, c) = Sum(f) BY BytesTyped
<1>4. g \in Seq(Nat) /\ Bytes(e, t, c) = Sum(g)
  <2>1. e \in Seq(Msgs) BY <1>1
  <2> HIDE DEF e
  <2> QED BY <2>1, BytesTyped
<1>5. a \in Nat BY AllMsgs DEF Amount
<1>6. g = Append(f, a)
  <2>1. Len(f) = Len(q) /\ \A i \in 1 .. Len(q) : f[i] = Amount(q[i], t, c) BY <1>2
  <2>2. Len(g) = Len(q) + 1 /\ \A i \in 1 .. (Len(q) + 1) : g[i] = Amount(e[i], t, c)
    <3> HIDE DEF e
    <3> QED BY <1>1, <1>2
  <2> HIDE DEF f, g, e, a
  <2>3. /\ Append(f, a) \in Seq(Nat) /\ Len(Append(f, a)) = Len(q) + 1 /\ Append(f, a)[Len(q) + 1] = a
        /\ \A i \in 1 .. Len(q) : Append(f, a)[i] = f[i]
    BY <1>3, <1>5, <2>1, AppendProperties
  <2>4. ASSUME NEW i \in 1 .. (Len(q) + 1) PROVE g[i] = Append(f, a)[i]
    <3>1. CASE i = Len(q) + 1 BY <1>1, <2>2, <2>3, <3>1 DEF a
    <3>2. CASE i # Len(q) + 1
      <4>1. i \in 1 .. Len(q) BY <1>2, <3>2
      <4> QED BY <1>1, <2>1, <2>2, <2>3, <4>1
    <3> QED BY <3>1, <3>2
  <2> QED BY <1>4, <2>2, <2>3, <2>4, SeqEqual
<1> HIDE DEF f, g, e, a
<1>7. Sum(Append(f, a)) = Sum(f) + a BY <1>3, <1>5, SumAppend
<1> QED BY <1>3, <1>4, <1>6, <1>7 DEF e, a

LEMMA ConcatAppend ==
    ASSUME NEW S, NEW u \in Seq(S), NEW v \in Seq(S), NEW m \in S PROVE u \o Append(v, m) = Append(u \o v, m)
OBVIOUS

LEMMA BytesConcat ==
    ASSUME NEW p \in Seq(Msgs), NEW q \in Seq(Msgs), NEW t, NEW c
    PROVE  Bytes(p \o q, t, c) = Bytes(p, t, c) + Bytes(q, t, c)
<1> DEFINE P == {r \in Seq(Msgs) : Bytes(p \o r, t, c) = Bytes(p, t, c) + Bytes(r, t, c)}
<1>1. <<>> \in P
  <2>1. p \o <<>> = p /\ <<>> \in Seq(Msgs) BY ConcatEmptySeq
  <2>2. Bytes(p, t, c) \in Nat /\ Bytes(<<>>, t, c) = 0 BY BytesTyped, BytesEmpty
  <2> QED BY <2>1, <2>2
<1>2. ASSUME NEW r \in P, NEW m \in Msgs PROVE Append(r, m) \in P
  <2>1. r \in Seq(Msgs) /\ Append(r, m) \in Seq(Msgs) /\ p \o r \in Seq(Msgs) BY ConcatProperties
  <2>2. p \o Append(r, m) = Append(p \o r, m)
    <3> HIDE DEF P
    <3> QED BY <2>1, ConcatAppend
  <2>3. Bytes(p \o r, t, c) = Bytes(p, t, c) + Bytes(r, t, c) OBVIOUS
  <2> HIDE DEF P
  <2>4. Bytes(Append(p \o r, m), t, c) = Bytes(p \o r, t, c) + Amount(m, t, c)
    <3> DEFINE z == p \o r
    <3>1. z \in Seq(Msgs) BY <2>1
    <3> HIDE DEF z
    <3>2. Bytes(Append(z, m), t, c) = Bytes(z, t, c) + Amount(m, t, c) BY <3>1, BytesAppend
    <3> QED BY <3>2 DEF z
  <2>5. Bytes(Append(r, m), t, c) = Bytes(r, t, c) + Amount(m, t, c) BY <2>1, BytesAppend
  <2>6. Bytes(p, t, c) \in Nat /\ Bytes(r, t, c) \in Nat BY <2>1, BytesTyped
  <2>7. Amount(m, t, c) \in Nat BY AllMsgs DEF Amount
  <2>8. Bytes(p \o Append(r, m), t, c) = Bytes(p, t, c) + Bytes(Append(r, m), t, c)
    BY <2>2, <2>3, <2>4, <2>5, <2>6, <2>7
  <2> QED BY <2>1, <2>8 DEF P
<1>3. P = Seq(Msgs)
  <2> HIDE DEF P
  <2>1. P \in SUBSET Seq(Msgs) BY DEF P
  <2> QED BY <1>1, <1>2, <2>1, AppendByAppend
<1> QED BY <1>3

LEMMA BytesOne == ASSUME NEW m \in Msgs, NEW t, NEW c PROVE Bytes(<<m>>, t, c) = Amount(m, t, c)
<1> DEFINE e == <<>>
<1>1. e \in Seq(Msgs) /\ Append(e, m) = <<m>> OBVIOUS
<1>2. Bytes(e, t, c) = 0 BY BytesEmpty
<1> HIDE DEF e
<1>3. Bytes(Append(e, m), t, c) = Bytes(e, t, c) + Amount(m, t, c) BY <1>1, BytesAppend
<1>4. Amount(m, t, c) \in Nat BY AllMsgs DEF Amount
<1> QED BY <1>1, <1>2, <1>3, <1>4

LEMMA BytesHead ==
    ASSUME NEW q \in Seq(Msgs), q # <<>>, NEW t, NEW c
    PROVE  Bytes(q, t, c) = Amount(Head(q), t, c) + Bytes(Tail(q), t, c)
<1>1. q = <<Head(q)>> \o Tail(q) /\ <<Head(q)>> \in Seq(Msgs) BY HeadAndTail
<1>2. Tail(q) \in Seq(Msgs) /\ Head(q) \in Msgs BY TailLacks
<1> DEFINE h == <<Head(q)>>
           r == Tail(q)
<1>3. Bytes(h, t, c) = Amount(Head(q), t, c) BY <1>2, BytesOne
<1>4. h \in Seq(Msgs) /\ r \in Seq(Msgs) BY <1>1, <1>2
<1> HIDE DEF h, r
<1>5. Bytes(h \o r, t, c) = Bytes(h, t, c) + Bytes(r, t, c) BY <1>4, BytesConcat
<1> QED BY <1>1, <1>3, <1>5 DEF h, r

\* What is not counted need not be kept.
LEMMA BytesKept ==
    ASSUME NEW q \in Seq(Msgs), NEW K, NEW t, NEW c, \A m \in Msgs : m.type = t /\ m.conn = c => m \in K
    PROVE  Bytes(Kept(q, K), t, c) = Bytes(q, t, c)
<1> DEFINE P == {r \in Seq(Msgs) : Bytes(Kept(r, K), t, c) = Bytes(r, t, c)}
<1>1. <<>> \in P
  <2>1. <<>> \in Seq(Msgs) OBVIOUS
  <2> QED BY <2>1, KeptEmpty
<1>2. ASSUME NEW r \in P, NEW m \in Msgs PROVE Append(r, m) \in P
  <2> DEFINE k == Kept(r, K)
  <2>1. r \in Seq(Msgs) /\ Append(r, m) \in Seq(Msgs) /\ k \in Seq(Msgs) BY KeptTyped
  <2>2. Bytes(k, t, c) = Bytes(r, t, c) OBVIOUS
  <2>3. Kept(Append(r, m), K) = IF m \in K THEN Append(k, m) ELSE k BY <2>1, KeptAppend
  <2> HIDE DEF P, k
  <2>4. Bytes(Append(r, m), t, c) = Bytes(r, t, c) + Amount(m, t, c) BY <2>1, BytesAppend
  <2>5. Bytes(Append(k, m), t, c) = Bytes(k, t, c) + Amount(m, t, c) BY <2>1, BytesAppend
  <2>6. m \notin K => Amount(m, t, c) = 0 BY DEF Amount
  <2>7. Bytes(r, t, c) \in Nat BY <2>1, BytesTyped
  <2>8. Bytes(Kept(Append(r, m), K), t, c) = Bytes(Append(r, m), t, c)
    <3>1. CASE m \in K BY <2>2, <2>3, <2>4, <2>5, <3>1
    <3>2. CASE m \notin K BY <2>2, <2>3, <2>4, <2>6, <2>7, <3>2
    <3> QED BY <3>1, <3>2
  <2> QED BY <2>1, <2>8 DEF P
<1>3. P = Seq(Msgs)
  <2> HIDE DEF P
  <2>1. P \in SUBSET Seq(Msgs) BY DEF P
  <2> QED BY <1>1, <1>2, <2>1, AppendByAppend
<1> QED BY <1>3

LEMMA BytesNone ==
    ASSUME NEW q \in Seq(Msgs), NEW t, NEW c, \A m \in ToSet(q) : m.type # t PROVE Bytes(q, t, c) = 0
<1> DEFINE K == {m \in Msgs : m.type = t}
<1>1. ToSet(q) \cap K = {} BY DEF K
<1>2. \A m \in Msgs : m.type = t /\ m.conn = c => m \in K BY DEF K
<1> HIDE DEF K
<1>3. Kept(q, K) = <<>> BY <1>1, NoneKept
<1>4. Bytes(Kept(q, K), t, c) = Bytes(q, t, c) BY <1>2, BytesKept
<1> QED BY <1>3, <1>4, BytesEmpty

-----------------------------------------------------------------------------
(***************************************************************************)
(* The windows.  Everything is said of one tunnel d: of its two ends t and *)
(* k, of whether the downlink still reaches it, and of what the queues hold *)
(* of it, b of bulk, l of late, x of lost, u of what goes up.               *)
(***************************************************************************)
Mine(d) == {m \in Msgs : m.conn = d}
Part(q, d) == Kept(q, Mine(d))

\* What is still to be routed: a tombstone filters what is not yet in a batch.
Rising(d) == IF d \in closed THEN Part(post, d) ELSE Part(post, d) \o Part(uplink, d)

\* What the user has written and the target has not been given, in its order
Going(t, k, b) == k.in \o Kept(b, WriteMsgs) \o t.out

\* The end is the last of it.
EndLast(g) == \A i \in DOMAIN g : g[i].type = "eof" => i = Len(g)
HasEnd(g) == \E i \in DOMAIN g : g[i].type = "eof"

\* Of a connection that does not exist yet there is nothing but the request to
\* open it and the news that it is over.
Young(k) == k.pc \in {"none", "connecting"}
Begun(t, u) == t.answer = "opened" \/ t.pc = "open" \/ \E m \in ToSet(u) : m.type = "opened"
Controls(q) == \A m \in ToSet(q) : m.type \in {"open", "close"}
Of(q, d) == \A m \in ToSet(q) : m.conn = d
Fresher(d, t, k, b, l, x, u) ==
    /\ Begun(t, u) => ~Young(k)
    /\ t.pc # "open" => t.out = <<>> /\ t.unacked = 0 /\ t.pending = 0
    /\ Young(k) =>
          /\ Controls(b) /\ Controls(l) /\ Controls(x)
          /\ \A m \in ToSet(u) : m.type = "error"
          /\ t.in = <<>> /\ k.in = <<>> /\ k.writing = 0
    /\ Of(t.in, d) /\ Of(k.in, d) /\ Of(t.out, d)

Connected(t, k, r) == t.listed /\ t.over = None /\ k.pc \in Living /\ r

\* What is written is on its way or has not been confirmed.
WriteEven(d, t, k, g, u) == t.unacked = Bytes(g, "data", d) + k.writing + Bytes(u, "ack", d)

\* So is what is read.
ReadEven(d, t, k, b, l, x, u) ==
    k.unacked = Bytes(u, "data", d) + Bytes(t.in, "data", d) + t.pending
                + Bytes(b, "ack", d) + Bytes(l, "ack", d) + Bytes(x, "ack", d)

\* Behind the end the user writes nothing.
EndWritten(t, k, g) ==
    /\ EndLast(g)
    /\ k.writeDone => g = <<>>
    /\ k.writeDone \/ HasEnd(g) => t.writeClosed

Even(d, t, k, b, l, x, u) ==
    /\ EndWritten(t, k, Going(t, k, b))
    /\ WriteEven(d, t, k, Going(t, k, b), u)
    /\ ReadEven(d, t, k, b, l, x, u)

Balanced(d, t, k, r, b, l, x, u) ==
    Fresher(d, t, k, b, l, x, u) /\ (Connected(t, k, r) => Even(d, t, k, b, l, x, u))

BalancedAt(d) ==
    Balanced(d, tunnel[d], conn[d], Reaches(d), Part(bulk, d), Part(late, d), Part(lost, d), Rising(d))

Windows == \A d \in Conns : BalancedAt(d)

LEMMA QueuesAre ==
    ASSUME Typed
    PROVE  /\ bulk \in Seq(Msgs) /\ late \in Seq(Msgs) /\ lost \in Seq(Msgs)
           /\ post \in Seq(Msgs) /\ uplink \in Seq(Msgs)
<1>1. /\ bulk \in Seq(DownMsgs) /\ late \in Seq(LateMsgs) /\ lost \in Seq(LateMsgs)
      /\ post \in Seq(UpMsgs) /\ uplink \in Seq(UpMsgs)
  BY DEF Typed, QueuesTyped, AgentTyped
<1> QED BY <1>1, AllMsgs

LEMMA PartTyped ==
    ASSUME NEW q \in Seq(Msgs), NEW d
    PROVE  Part(q, d) \in Seq(Msgs) /\ ToSet(Part(q, d)) = ToSet(q) \cap Mine(d)
BY KeptTyped, KeptAmong DEF Part

LEMMA PartEmpty == ASSUME NEW d PROVE Part(<<>>, d) = <<>>
BY KeptEmpty DEF Part

LEMMA PartBytes ==
    ASSUME NEW q \in Seq(Msgs), NEW d, NEW t PROVE Bytes(Part(q, d), t, d) = Bytes(q, t, d)
<1>1. \A m \in Msgs : m.type = t /\ m.conn = d => m \in Mine(d) BY DEF Mine
<1> QED BY <1>1, BytesKept DEF Part

LEMMA PartAppend ==
    ASSUME NEW q \in Seq(Msgs), NEW m \in Msgs, NEW d
    PROVE  Part(Append(q, m), d) = IF m.conn = d THEN Append(Part(q, d), m) ELSE Part(q, d)
<1>1. m \in Mine(d) <=> m.conn = d BY DEF Mine
<1>2. Kept(Append(q, m), Mine(d)) = IF m \in Mine(d) THEN Append(Kept(q, Mine(d)), m) ELSE Kept(q, Mine(d))
  BY KeptAppend
<1> QED BY <1>1, <1>2 DEF Part

LEMMA PartHead ==
    ASSUME NEW q \in Seq(Msgs), q # <<>>, NEW d
    PROVE  Part(q, d) = IF Head(q).conn = d THEN <<Head(q)>> \o Part(Tail(q), d) ELSE Part(Tail(q), d)
<1>1. Head(q) \in Msgs BY TailLacks
<1>2. Head(q) \in Mine(d) <=> Head(q).conn = d BY <1>1 DEF Mine
<1>3. Kept(q, Mine(d)) = IF Head(q) \in Mine(d) THEN <<Head(q)>> \o Kept(Tail(q), Mine(d)) ELSE Kept(Tail(q), Mine(d))
  BY KeptHead
<1> QED BY <1>2, <1>3 DEF Part

\* One message taken out of the middle
LEMMA PartWithout ==
    ASSUME NEW q \in Seq(Msgs), NEW i \in 1 .. Len(q), NEW d
    PROVE  /\ RemoveAt(q, i) \in Seq(Msgs) /\ q[i] \in Msgs
           /\ q[i].conn # d => Part(RemoveAt(q, i), d) = Part(q, d)
           /\ ToSet(Part(RemoveAt(q, i), d)) \subseteq ToSet(Part(q, d))
           /\ q[i].conn = d =>
                 /\ q[i] \in ToSet(Part(q, d))
                 /\ \A t : Bytes(Part(q, d), t, d) = Bytes(Part(RemoveAt(q, i), d), t, d) + Amount(q[i], t, d)
<1> DEFINE a == SubSeq(q, 1, i - 1)
           b == SubSeq(q, i + 1, Len(q))
           m == q[i]
           e == Append(a, m)
           K == Mine(d)
           w == RemoveAt(q, i)
<1>1. a \in Seq(Msgs) /\ b \in Seq(Msgs) /\ m \in Msgs /\ w = a \o b /\ w \in Seq(Msgs) /\ q = e \o b
      /\ ToSet(q) = ToSet(w) \cup {m}
  <2>1. Without(Msgs, q, i) BY WithoutOne
  <2> QED BY <2>1 DEF Without
<1>2. m \in K <=> m.conn = d BY <1>1 DEF Mine
<1> HIDE DEF a, b, m, K, w
<1>3. e \in Seq(Msgs) /\ Kept(e, K) = IF m \in K THEN Append(Kept(a, K), m) ELSE Kept(a, K) BY <1>1, KeptAppend
<1> HIDE DEF e
<1>4. Kept(q, K) = Kept(e, K) \o Kept(b, K)
  <2>1. e \in Seq(Msgs) /\ b \in Seq(Msgs) BY <1>1, <1>3
  <2>2. Kept(e \o b, K) = Kept(e, K) \o Kept(b, K) BY <2>1, KeptConcat
  <2> QED BY <1>1, <2>2
<1>5. Kept(w, K) = Kept(a, K) \o Kept(b, K) BY <1>1, KeptConcat
<1>6. Part(q, d) = Kept(q, K) /\ Part(w, d) = Kept(w, K) BY DEF Part, K
<1>7. m.conn # d => Part(w, d) = Part(q, d) BY <1>2, <1>3, <1>4, <1>5, <1>6
<1>8. ToSet(Kept(q, K)) = ToSet(q) \cap K /\ ToSet(Kept(w, K)) = ToSet(w) \cap K BY <1>1, KeptAmong
<1>9. ToSet(Part(w, d)) \subseteq ToSet(Part(q, d)) BY <1>1, <1>6, <1>8
<1>10. m.conn = d => m \in ToSet(Part(q, d)) BY <1>1, <1>2, <1>6, <1>8
<1>11. ASSUME m.conn = d, NEW t PROVE Bytes(Part(q, d), t, d) = Bytes(Part(w, d), t, d) + Amount(m, t, d)
  <2> DEFINE x == Kept(a, K)
             y == Kept(b, K)
  <2>1. x \in Seq(Msgs) /\ y \in Seq(Msgs) BY <1>1, KeptTyped
  <2>2. Kept(e, K) = Append(x, m) BY <1>2, <1>3, <1>11
  <2> HIDE DEF x, y
  <2>3. Bytes(Append(x, m), t, d) = Bytes(x, t, d) + Amount(m, t, d) BY <1>1, <2>1, BytesAppend
  <2>4. Append(x, m) \in Seq(Msgs) BY <1>1, <2>1
  <2>5. Bytes(Append(x, m) \o y, t, d) = Bytes(Append(x, m), t, d) + Bytes(y, t, d)
    <3> DEFINE z == Append(x, m)
    <3>1. z \in Seq(Msgs) BY <2>4
    <3> HIDE DEF z
    <3>2. Bytes(z \o y, t, d) = Bytes(z, t, d) + Bytes(y, t, d) BY <2>1, <3>1, BytesConcat
    <3> QED BY <3>2 DEF z
  <2>6. Bytes(x \o y, t, d) = Bytes(x, t, d) + Bytes(y, t, d) BY <2>1, BytesConcat
  <2>7. Bytes(x, t, d) \in Nat /\ Bytes(y, t, d) \in Nat BY <2>1, BytesTyped
  <2>8. Amount(m, t, d) \in Nat BY <1>1, AllMsgs DEF Amount
  <2>9. Part(q, d) = Append(x, m) \o y /\ Part(w, d) = x \o y BY <1>4, <1>5, <1>6, <2>2 DEF x, y
  <2> QED BY <2>3, <2>5, <2>6, <2>7, <2>8, <2>9
<1> QED BY <1>1, <1>7, <1>9, <1>10, <1>11 DEF m, w

LEMMA RisingTyped ==
    ASSUME Typed, NEW d \in Conns
    PROVE  /\ Rising(d) \in Seq(Msgs)
           /\ ToSet(Rising(d)) = {m \in ToSet(post) \cup (IF d \in closed THEN {} ELSE ToSet(uplink)) : m.conn = d}
           /\ ToSet(Rising(d)) \subseteq Upward(d)
<1> DEFINE p == Part(post, d)
           u == Part(uplink, d)
<1>1. post \in Seq(Msgs) /\ uplink \in Seq(Msgs) BY QueuesAre
<1>2. p \in Seq(Msgs) /\ u \in Seq(Msgs) /\ ToSet(p) = ToSet(post) \cap Mine(d) /\ ToSet(u) = ToSet(uplink) \cap Mine(d)
  BY <1>1, PartTyped
<1>3. ToSet(post) \subseteq Msgs /\ ToSet(uplink) \subseteq Msgs BY <1>1, AmongTyped
<1>4. ToSet(p) = {m \in ToSet(post) : m.conn = d} /\ ToSet(u) = {m \in ToSet(uplink) : m.conn = d}
  BY <1>2, <1>3 DEF Mine
<1>5. Rising(d) = IF d \in closed THEN p ELSE p \o u BY DEF Rising
<1> HIDE DEF p, u
<1>6. p \o u \in Seq(Msgs) /\ ToSet(p \o u) = ToSet(p) \cup ToSet(u) BY <1>2, ConcatProperties, ConcatHasBoth
<1>7. Rising(d) \in Seq(Msgs) BY <1>2, <1>5, <1>6
<1>8. ToSet(Rising(d)) = {m \in ToSet(post) \cup (IF d \in closed THEN {} ELSE ToSet(uplink)) : m.conn = d}
  BY <1>4, <1>5, <1>6
<1> QED BY <1>7, <1>8 DEF Upward

LEMMA RisingStill ==
    ASSUME Typed, NEW d \in Conns, post' = post, d \in closed' <=> d \in closed, NEW m \in UpMsgs,
           uplink' = uplink \/ (uplink' = Append(uplink, m) /\ m.conn # d)
    PROVE  Rising(d)' = Rising(d)
<1>1. uplink \in Seq(Msgs) /\ m \in Msgs BY QueuesAre DEF Msgs
<1>2. m.conn # d => Part(Append(uplink, m), d) = Part(uplink, d) BY <1>1, PartAppend
<1>3. Part(uplink', d) = Part(uplink, d) BY <1>2
<1>4. Rising(d)' = IF d \in closed' THEN Part(post', d) ELSE Part(post', d) \o Part(uplink', d)
  BY DEF Rising, Part, Mine, Msgs, DownMsgs, UpMsgs, Message
<1> QED BY <1>3, <1>4 DEF Rising

LEMMA RisingAdds ==
    ASSUME Typed, NEW c \in Conns, post' = post, c \notin closed, closed' = closed, NEW m \in UpMsgs, m.conn = c,
           uplink' = Append(uplink, m)
    PROVE  Rising(c)' = Append(Rising(c), m)
<1> DEFINE p == Part(post, c)
           u == Part(uplink, c)
<1>1. uplink \in Seq(Msgs) /\ post \in Seq(Msgs) /\ m \in Msgs BY QueuesAre DEF Msgs
<1>2. p \in Seq(Msgs) /\ u \in Seq(Msgs) BY <1>1, PartTyped
<1>3. Part(uplink', c) = Append(u, m) BY <1>1, PartAppend
<1>4. Rising(c) = p \o u BY DEF Rising
<1>5. Rising(c)' = p \o Part(uplink', c) BY DEF Rising, Part, Mine, Msgs, DownMsgs, UpMsgs, Message
<1> HIDE DEF p, u
<1>6. p \o Append(u, m) = Append(p \o u, m) BY <1>1, <1>2, ConcatAppend
<1> QED BY <1>3, <1>4, <1>5, <1>6

LEMMA RisingRouted ==
    ASSUME Typed, NEW d \in Conns, post # <<>>, post' = Tail(post), uplink' = uplink, closed' = closed
    PROVE  /\ Head(post).conn = d => Rising(d) = <<Head(post)>> \o Rising(d)'
           /\ Head(post).conn # d => Rising(d)' = Rising(d)
           /\ Rising(d)' \in Seq(Msgs)
<1> DEFINE p == Part(Tail(post), d)
           u == Part(uplink, d)
           h == <<Head(post)>>
<1>1. post \in Seq(Msgs) /\ uplink \in Seq(Msgs) BY QueuesAre
<1>2. Tail(post) \in Seq(Msgs) /\ h \in Seq(Msgs) BY <1>1, HeadAndTail, TailLacks
<1>3. p \in Seq(Msgs) /\ u \in Seq(Msgs) BY <1>1, <1>2, PartTyped
<1>4. Part(post, d) = IF Head(post).conn = d THEN h \o p ELSE p BY <1>1, PartHead
<1>5. Rising(d)' = IF d \in closed THEN p ELSE p \o u BY DEF Rising, Part, Mine, Msgs, DownMsgs, UpMsgs, Message
<1>6. Rising(d) = IF d \in closed THEN Part(post, d) ELSE Part(post, d) \o u BY DEF Rising
<1> HIDE DEF p, u, h
<1>7. (h \o p) \o u = h \o (p \o u)
  <2>1. \A x, y, z \in Seq(Msgs) : (x \o y) \o z = x \o (y \o z) BY SMT
  <2> QED BY <1>2, <1>3, <2>1, Zenon
<1>8. Head(post).conn = d => Rising(d) = h \o Rising(d)' BY <1>4, <1>5, <1>6, <1>7
<1>9. Head(post).conn # d => Rising(d)' = Rising(d) BY <1>4, <1>5, <1>6
<1>10. Rising(d)' \in Seq(Msgs)
  <2>1. p \o u \in Seq(Msgs) BY <1>3, ConcatProperties
  <2> QED BY <1>3, <1>5, <2>1
<1> QED BY <1>8, <1>9, <1>10 DEF h

\* drain_batch leaves out what is closed, and that was not to come anyway.
LEMMA RisingTaken ==
    ASSUME Typed, NEW d \in Conns, UplinkTakes, post = <<>> PROVE Rising(d)' = Rising(d)
<1> DEFINE S == Mine(d)
           K == {m \in UpMsgs : m.conn \notin closed}
<1>1. closed' = closed BY DEF UplinkTakes
<1>2. PICK n : n \in 0 .. Len(uplink) /\ Batches(n) BY TakesTyped
<1> DEFINE a == SubSeq(uplink, 1, n)
           b == SubSeq(uplink, n + 1, Len(uplink))
<1>3. post' = Open(a) /\ uplink' = b BY <1>2 DEF Batches
<1>4. uplink \in Seq(UpMsgs) BY DEF Typed, AgentTyped
<1>5. a \in Seq(UpMsgs) /\ b \in Seq(UpMsgs) /\ uplink = a \o b BY <1>2, <1>4, SplitAt
<1> HIDE DEF a, b
<1>6. Kept(post, S) = <<>> BY KeptEmpty
<1>7. Rising(d)' = IF d \in closed THEN Kept(Open(a), S) ELSE Kept(Open(a), S) \o Kept(b, S)
  <2>1. Rising(d)' = IF d \in closed' THEN Kept(post', S) ELSE Kept(post', S) \o Kept(uplink', S)
    BY DEF Rising, Part, Mine, Msgs, DownMsgs, UpMsgs, Message
  <2> QED BY <1>1, <1>3, <2>1
<1>8. Open(a) = Kept(a, K) /\ Open(a) \in Seq(UpMsgs) BY <1>5, OpenIsKept, OpenTyped
<1> DEFINE s == Kept(uplink, S)
<1>9. s \in Seq(UpMsgs) BY <1>4, KeptTyped
<1>10. Rising(d) = IF d \in closed THEN <<>> ELSE s
  <2>1. Rising(d) = IF d \in closed THEN Kept(post, S) ELSE Kept(post, S) \o s BY DEF Rising, Part
  <2> HIDE DEF s
  <2>2. <<>> \o s = s BY <1>9, ConcatEmptySeq
  <2> QED BY <1>6, <2>1, <2>2
<1>11. CASE d \notin closed
  <2> DEFINE L == {m \in UpMsgs : m.conn = d}
  <2>1. L \subseteq K BY <1>11 DEF K
  <2>2. \A q \in Seq(UpMsgs) : Kept(q, S) = Kept(q, L)
    <3> SUFFICES ASSUME NEW q \in Seq(UpMsgs) PROVE Kept(q, S) = Kept(q, L) OBVIOUS
    <3>1. \A m \in UpMsgs : m \in S <=> m \in L BY DEF S, Mine, Msgs
    <3>2. \A i \in 1 .. Len(q) : q[i] \in UpMsgs OBVIOUS
    <3> HIDE DEF S, L
    <3>3. {i \in 1 .. Len(q) : q[i] \in S} = {i \in 1 .. Len(q) : q[i] \in L} BY <3>1, <3>2
    <3> QED BY <3>3 DEF Kept
  <2> HIDE DEF S, K, L, s
  <2>3. Kept(Open(a), S) = Kept(a, S)
    <3>1. Kept(Kept(a, K), L) = Kept(a, L) BY <1>5, <2>1, KeptTwice
    <3> QED BY <1>5, <1>8, <2>2, <3>1
  <2>4. Kept(a \o b, S) = Kept(a, S) \o Kept(b, S) BY <1>5, KeptConcat
  <2> QED BY <1>5, <1>7, <1>10, <1>11, <2>3, <2>4 DEF s
<1>12. CASE d \in closed
  <2>1. \A m \in K : m \notin S BY <1>12 DEF K, S, Mine
  <2> HIDE DEF S, K, s
  <2>2. ToSet(Open(a)) = ToSet(a) \cap K BY <1>5, <1>8, KeptAmong
  <2>3. ToSet(Open(a)) \cap S = {} BY <2>1, <2>2
  <2>4. Kept(Open(a), S) = <<>> BY <1>8, <2>3, NoneKept
  <2> QED BY <1>7, <1>10, <1>12, <2>4
<1> QED BY <1>11, <1>12

(***************************************************************************)
(* What a step makes of the windows of one tunnel.                          *)
(***************************************************************************)
ViewTyped(t, k, b, l, x, u) ==
    /\ t \in Tunnels /\ k \in Ends
    /\ b \in Seq(Msgs) /\ l \in Seq(Msgs) /\ x \in Seq(Msgs) /\ u \in Seq(Msgs)

\* Nothing but what opens or ends a connection is added, ...
More(p, q) == \A m \in p : m \in q \/ m.type \in {"open", "close"}
MoreErrors(p, q) == \A m \in ToSet(p) : m \in ToSet(q) \/ m.type = "error"
Sent(b, l, x) == ToSet(b) \cup ToSet(l) \cup ToSet(x)

\* ... the tunnel goes no further, ...
TunnelLess(t, s) ==
    /\ s.answer = "opened" \/ s.pc = "open" => t.answer = "opened" \/ t.pc = "open"
    /\ s.in \in {t.in, <<>>} /\ s.out \in {t.out, <<>>}
    /\ \/ s.out = <<>> /\ s.unacked = 0 /\ s.pending = 0
       \/ /\ t.pc = "open" => s.pc = "open"
          /\ s.unacked = t.unacked /\ s.pending \in {t.pending, 0}

\* ... and the connection, if it changes, has been there.
EndLess(d, k, e) == e = k \/ (~Young(e) /\ Of(e.in, d))

LEMMA FresherOn ==
    ASSUME NEW d, NEW t, NEW k, NEW b, NEW l, NEW x, NEW u, Fresher(d, t, k, b, l, x, u),
           NEW s, NEW e, NEW c, NEW m, NEW y, NEW w,
           TunnelLess(t, s), EndLess(d, k, e), More(Sent(c, m, y), Sent(b, l, x)), MoreErrors(w, u)
    PROVE  Fresher(d, s, e, c, m, y, w)
<1>1. Begun(s, w) => Begun(t, u) BY DEF Begun, TunnelLess, MoreErrors
<1>2. ~Young(k) => ~Young(e) BY DEF EndLess
<1>3. Begun(s, w) => ~Young(e) BY <1>1, <1>2 DEF Fresher
<1>4. s.pc # "open" => s.out = <<>> /\ s.unacked = 0 /\ s.pending = 0 BY DEF Fresher, TunnelLess
<1>5. ASSUME Young(e)
      PROVE  /\ Controls(c) /\ Controls(m) /\ Controls(y)
             /\ \A z \in ToSet(w) : z.type = "error"
             /\ s.in = <<>> /\ e.in = <<>> /\ e.writing = 0
  <2>1. e = k /\ Young(k) BY <1>5 DEF EndLess
  <2>2. /\ Controls(b) /\ Controls(l) /\ Controls(x)
        /\ \A z \in ToSet(u) : z.type = "error"
        /\ t.in = <<>> /\ k.in = <<>> /\ k.writing = 0
    BY <2>1 DEF Fresher
  <2>3. Controls(c) /\ Controls(m) /\ Controls(y) BY <2>2 DEF Controls, More, Sent
  <2>4. \A z \in ToSet(w) : z.type = "error" BY <2>2 DEF MoreErrors
  <2>5. s.in = <<>> BY <2>2 DEF TunnelLess
  <2> QED BY <2>1, <2>2, <2>3, <2>4, <2>5
<1>6. Of(<<>>, d) BY EmptyHasNone DEF Of
<1>7. Of(t.in, d) /\ Of(k.in, d) /\ Of(t.out, d) BY DEF Fresher
<1>8. Of(s.in, d) /\ Of(s.out, d) BY <1>6, <1>7 DEF TunnelLess
<1>9. Of(e.in, d) BY <1>7 DEF EndLess
<1> QED BY <1>3, <1>4, <1>5, <1>8, <1>9 DEF Fresher

\* A connection that has been there says less.
LEMMA FresherLate ==
    ASSUME NEW d, NEW t, NEW k, NEW b, NEW l, NEW x, NEW u, ~Young(k),
           t.pc # "open" => t.out = <<>> /\ t.unacked = 0 /\ t.pending = 0,
           Of(t.in, d), Of(k.in, d), Of(t.out, d)
    PROVE  Fresher(d, t, k, b, l, x, u)
BY DEF Fresher

LEMMA GoingTyped ==
    ASSUME NEW t \in Tunnels, NEW k \in Ends, NEW b \in Seq(Msgs)
    PROVE  /\ k.in \in Seq(Msgs) /\ t.out \in Seq(Msgs) /\ t.in \in Seq(Msgs) /\ Kept(b, WriteMsgs) \in Seq(Msgs)
           /\ Going(t, k, b) \in Seq(Msgs)
           /\ k.unacked \in Nat /\ k.writing \in Nat /\ t.unacked \in Nat /\ t.pending \in Nat
           /\ k.writeDone \in BOOLEAN /\ t.writeClosed \in BOOLEAN
<1>1. t.out \in Seq(WriteMsgs) /\ t.in \in Seq(ReadMsgs) /\ t.unacked \in Nat /\ t.pending \in Nat /\ t.writeClosed \in BOOLEAN
  BY TunnelField
<1>2. k.in \in Seq(WriteMsgs) /\ k.unacked \in Nat /\ k.writing \in Nat /\ k.writeDone \in BOOLEAN BY EndField
<1>3. k.in \in Seq(Msgs) /\ t.out \in Seq(Msgs) /\ t.in \in Seq(Msgs) BY <1>1, <1>2, AllMsgs
<1>4. Kept(b, WriteMsgs) \in Seq(Msgs) BY KeptTyped
<1>5. k.in \o Kept(b, WriteMsgs) \in Seq(Msgs) BY <1>3, <1>4, ConcatProperties
<1>6. Going(t, k, b) \in Seq(Msgs) BY <1>3, <1>5, ConcatProperties DEF Going
<1> QED BY <1>1, <1>2, <1>3, <1>4, <1>6

\* The end stays the last when something is put behind data, ...
LEMMA EndAppend ==
    ASSUME NEW g \in Seq(Msgs), NEW m \in Msgs, ~HasEnd(g)
    PROVE  EndLast(Append(g, m)) /\ (HasEnd(Append(g, m)) => m.type = "eof")
<1>1. Len(g) \in Nat /\ DOMAIN g = 1 .. Len(g) /\ DOMAIN Append(g, m) = 1 .. (Len(g) + 1) /\ Len(Append(g, m)) = Len(g) + 1
      /\ Append(g, m)[Len(g) + 1] = m /\ \A i \in 1 .. Len(g) : Append(g, m)[i] = g[i] OBVIOUS
<1>2. ASSUME NEW i \in 1 .. (Len(g) + 1), Append(g, m)[i].type = "eof" PROVE i = Len(g) + 1 /\ m.type = "eof"
  <2>1. CASE i = Len(g) + 1 BY <1>1, <1>2, <2>1
  <2>2. CASE i # Len(g) + 1
    <3>1. i \in 1 .. Len(g) BY <1>1, <2>2
    <3> QED BY <1>1, <1>2, <3>1 DEF HasEnd
  <2> QED BY <2>1, <2>2
<1> QED BY <1>1, <1>2 DEF EndLast, HasEnd

\* ... and when the first is taken; nothing is behind it.
LEMMA EndHead ==
    ASSUME NEW m \in Msgs, NEW r \in Seq(Msgs), EndLast(<<m>> \o r)
    PROVE  /\ EndLast(r) /\ (HasEnd(r) => HasEnd(<<m>> \o r))
           /\ m.type = "eof" => r = <<>> /\ HasEnd(<<m>> \o r)
<1> DEFINE h == <<m>>
           q == h \o r
<1>1. h \in Seq(Msgs) /\ Len(h) = 1 /\ h[1] = m /\ Len(r) \in Nat /\ DOMAIN r = 1 .. Len(r) OBVIOUS
<1> HIDE DEF h
<1>2. /\ q \in Seq(Msgs) /\ Len(q) = 1 + Len(r)
      /\ \A i \in 1 .. (1 + Len(r)) : q[i] = IF i <= 1 THEN h[i] ELSE r[i - 1]
  <2>1. /\ q \in Seq(Msgs) /\ Len(q) = Len(h) + Len(r)
        /\ \A i \in 1 .. (Len(h) + Len(r)) : q[i] = IF i <= Len(h) THEN h[i] ELSE r[i - Len(h)]
    BY <1>1, ConcatProperties
  <2> HIDE DEF q
  <2> QED BY <1>1, <2>1
<1>3. EndLast(q) BY DEF h
<1> HIDE DEF q
<1>4. DOMAIN q = 1 .. (1 + Len(r)) BY <1>1, <1>2
<1>5. q[1] = m /\ 1 \in DOMAIN q BY <1>1, <1>2, <1>4
<1>6. ASSUME NEW i \in DOMAIN r PROVE i + 1 \in DOMAIN q /\ q[i + 1] = r[i]
  <2>1. i + 1 \in 1 .. (1 + Len(r)) /\ ~(i + 1 <= 1) /\ (i + 1) - 1 = i BY <1>1
  <2> QED BY <1>2, <1>4, <2>1
<1>7. EndLast(r)
  <2> SUFFICES ASSUME NEW i \in DOMAIN r, r[i].type = "eof" PROVE i = Len(r) BY DEF EndLast
  <2>1. i + 1 = Len(q) BY <1>3, <1>6 DEF EndLast
  <2> QED BY <1>1, <1>2, <2>1
<1>8. HasEnd(r) => HasEnd(q) BY <1>6 DEF HasEnd
<1>9. ASSUME m.type = "eof" PROVE r = <<>> /\ HasEnd(q)
  <2>1. Len(q) = 1 BY <1>3, <1>5, <1>9 DEF EndLast
  <2>2. Len(r) = 0 BY <1>1, <1>2, <2>1
  <2>3. r = <<>> BY <2>2, EmptySeq
  <2> QED BY <1>5, <1>9, <2>3 DEF HasEnd
<1> QED BY <1>7, <1>8, <1>9 DEF q, h

\* What is not written does not change what is going down.
LEMMA AsideGoing ==
    ASSUME NEW b \in Seq(Msgs), NEW m \in Msgs, m \notin WriteMsgs
    PROVE  \A t, k : Going(t, k, Append(b, m)) = Going(t, k, b)
<1>1. Kept(Append(b, m), WriteMsgs) = Kept(b, WriteMsgs) BY KeptAppend
<1> QED BY <1>1 DEF Going

LEMMA AddsOne ==
    ASSUME NEW q \in Seq(Msgs), NEW m \in Msgs
    PROVE  Append(q, m) \in Seq(Msgs) /\ ToSet(Append(q, m)) = ToSet(q) \cup {m}
           /\ \A t, c : Bytes(Append(q, m), t, c) = Bytes(q, t, c) + Amount(m, t, c) /\ Bytes(q, t, c) \in Nat
                        /\ Amount(m, t, c) \in Nat
<1>1. Append(q, m) \in Seq(Msgs) OBVIOUS
<1>2. ToSet(Append(q, m)) = ToSet(q) \cup {m} BY AppendAdds
<1>3. ASSUME NEW t, NEW c PROVE Bytes(Append(q, m), t, c) = Bytes(q, t, c) + Amount(m, t, c) /\ Bytes(q, t, c) \in Nat
                                /\ Amount(m, t, c) \in Nat
  <2>1. Amount(m, t, c) \in Nat BY AllMsgs DEF Amount
  <2>2. Bytes(q, t, c) \in Nat BY BytesTyped
  <2>3. Bytes(Append(q, m), t, c) = Bytes(q, t, c) + Amount(m, t, c) BY BytesAppend
  <2> QED BY <2>1, <2>2, <2>3
<1> QED BY <1>1, <1>2, <1>3

LEMMA LacksOne ==
    ASSUME NEW q \in Seq(Msgs), NEW m \in Msgs
    PROVE  <<m>> \o q \in Seq(Msgs) /\ ToSet(<<m>> \o q) = ToSet(q) \cup {m}
           /\ \A t, c : Bytes(<<m>> \o q, t, c) = Amount(m, t, c) + Bytes(q, t, c) /\ Bytes(q, t, c) \in Nat
                        /\ Amount(m, t, c) \in Nat
<1> DEFINE h == <<m>>
<1>1. h \in Seq(Msgs) /\ ToSet(h) = {m}
  <2>1. h \in Seq(Msgs) /\ DOMAIN h = {1} /\ h[1] = m OBVIOUS
  <2> QED BY <2>1 DEF ToSet
<1>2. \A t, c : Bytes(h, t, c) = Amount(m, t, c) BY BytesOne
<1> HIDE DEF h
<1>3. h \o q \in Seq(Msgs) /\ ToSet(h \o q) = ToSet(h) \cup ToSet(q) BY <1>1, ConcatProperties, ConcatHasBoth
<1>4. ASSUME NEW t, NEW c PROVE Bytes(h \o q, t, c) = Amount(m, t, c) + Bytes(q, t, c) /\ Bytes(q, t, c) \in Nat
                                /\ Amount(m, t, c) \in Nat
  <2>1. Amount(m, t, c) \in Nat BY AllMsgs DEF Amount
  <2>2. Bytes(q, t, c) \in Nat BY BytesTyped
  <2>3. Bytes(h \o q, t, c) = Bytes(h, t, c) + Bytes(q, t, c) BY <1>1, BytesConcat
  <2> QED BY <1>2, <2>1, <2>2, <2>3
<1> QED BY <1>1, <1>3, <1>4 DEF h

(***************************************************************************)
(* One step of the windows of a connected tunnel, for each of its messages. *)
(***************************************************************************)
LEMMA AppendOne == ASSUME NEW S, NEW q \in Seq(S), NEW m \in S PROVE <<m>> \in Seq(S) /\ Append(q, m) = q \o <<m>>
OBVIOUS

\* What is left alone
SameEnds(t, s) == s.in = t.in /\ s.pending = t.pending
SameOut(t, s) == s.out = t.out /\ s.unacked = t.unacked /\ s.writeClosed = t.writeClosed
SameTarget(k, e) == e.in = k.in /\ e.writing = k.writing /\ e.writeDone = k.writeDone

\* A step that is none of theirs
LEMMA EvenStays ==
    ASSUME NEW d, NEW t, NEW k, NEW b, NEW l, NEW x, NEW u, Even(d, t, k, b, l, x, u),
           NEW s, NEW e, SameEnds(t, s), SameOut(t, s), SameTarget(k, e), e.unacked = k.unacked
    PROVE  Even(d, s, e, b, l, x, u)
<1>1. Going(s, e, b) = Going(t, k, b) BY DEF Going, SameOut, SameTarget
<1>2. EndWritten(s, e, Going(s, e, b)) BY <1>1 DEF Even, EndWritten, SameOut, SameTarget
<1>3. WriteEven(d, s, e, Going(s, e, b), u) BY <1>1 DEF Even, WriteEven, SameOut, SameTarget
<1>4. ReadEven(d, s, e, b, l, x, u) BY DEF Even, ReadEven, SameEnds
<1> QED BY <1>2, <1>3, <1>4 DEF Even

\* poll_write and poll_shutdown
LEMMA WrittenEven ==
    ASSUME NEW d, NEW t, NEW k, NEW b, NEW l, NEW x, NEW u, ViewTyped(t, k, b, l, x, u), Even(d, t, k, b, l, x, u),
           NEW s, NEW m \in WriteMsgs, SameEnds(t, s), ~t.writeClosed, s.out = Append(t.out, m),
           s.unacked = t.unacked + Amount(m, "data", d), m.type = "eof" => s.writeClosed
    PROVE  Even(d, s, k, b, l, x, u)
<1> DEFINE g == Going(t, k, b)
           h == Going(s, k, b)
           a == k.in \o Kept(b, WriteMsgs)
<1>1. t \in Tunnels /\ k \in Ends /\ b \in Seq(Msgs) /\ u \in Seq(Msgs) BY DEF ViewTyped
<1>2. /\ g \in Seq(Msgs) /\ k.in \in Seq(Msgs) /\ t.out \in Seq(Msgs) /\ Kept(b, WriteMsgs) \in Seq(Msgs)
      /\ t.unacked \in Nat /\ k.writing \in Nat
  BY <1>1, GoingTyped
<1>3. m \in Msgs BY Kinds DEF Msgs
<1>4. h = Append(g, m)
  <2>1. g = a \o t.out /\ h = a \o Append(t.out, m) BY DEF Going
  <2>2. a \in Seq(Msgs) BY <1>2, ConcatProperties
  <2> HIDE DEF g, h, a
  <2>3. \A v, w \in Seq(Msgs), e \in Msgs : v \o Append(w, e) = Append(v \o w, e) BY ConcatAppend
  <2>4. a \o Append(t.out, m) = Append(a \o t.out, m) BY <1>2, <1>3, <2>2, <2>3
  <2> QED BY <2>1, <2>4
<1>5. EndWritten(t, k, g) /\ WriteEven(d, t, k, g, u) /\ ReadEven(d, t, k, b, l, x, u) BY DEF Even
<1>6. EndWritten(s, k, h)
  <2>1. ~k.writeDone /\ ~HasEnd(g) BY <1>5 DEF EndWritten
  <2> HIDE DEF g, h
  <2>2. EndLast(Append(g, m)) /\ (HasEnd(Append(g, m)) => m.type = "eof") BY <1>2, <1>3, <2>1, EndAppend
  <2> QED BY <1>4, <2>1, <2>2 DEF EndWritten
<1>7. WriteEven(d, s, k, h, u)
  <2>1. t.unacked = Bytes(g, "data", d) + k.writing + Bytes(u, "ack", d) BY <1>5 DEF WriteEven
  <2> HIDE DEF g, h
  <2>2. Bytes(h, "data", d) = Bytes(g, "data", d) + Amount(m, "data", d) /\ Bytes(g, "data", d) \in Nat
        /\ Amount(m, "data", d) \in Nat
    BY <1>2, <1>3, <1>4, AddsOne
  <2>3. Bytes(u, "ack", d) \in Nat BY <1>1, BytesTyped
  <2>4. t.unacked + Amount(m, "data", d) = (Bytes(g, "data", d) + Amount(m, "data", d)) + k.writing + Bytes(u, "ack", d)
    <3> DEFINE z == t.unacked
               p == Bytes(g, "data", d)
               q == k.writing
               r == Bytes(u, "ack", d)
               n == Amount(m, "data", d)
    <3>1. z \in Nat /\ p \in Nat /\ q \in Nat /\ r \in Nat /\ n \in Nat /\ z = p + q + r BY <1>2, <2>1, <2>2, <2>3
    <3> HIDE DEF z, p, q, r, n
    <3>2. z + n = (p + n) + q + r BY <3>1
    <3> QED BY <3>2 DEF z, p, q, r, n
  <2> QED BY <2>2, <2>4 DEF WriteEven
<1>8. ReadEven(d, s, k, b, l, x, u) BY <1>5 DEF ReadEven, SameEnds
<1> QED BY <1>6, <1>7, <1>8 DEF Even

\* The writer
LEMMA SentEven ==
    ASSUME NEW d, NEW t, NEW k, NEW b, NEW l, NEW x, NEW u, ViewTyped(t, k, b, l, x, u), Even(d, t, k, b, l, x, u),
           NEW s \in Tunnels, NEW m \in WriteMsgs, SameEnds(t, s), t.out = <<m>> \o s.out, s.unacked = t.unacked,
           s.writeClosed = t.writeClosed
    PROVE  Even(d, s, k, Append(b, m), l, x, u)
<1> DEFINE w == Kept(b, WriteMsgs)
           c == Append(b, m)
           h == <<m>>
           i == k.in
           o == s.out
<1>1. t \in Tunnels /\ k \in Ends /\ b \in Seq(Msgs) /\ u \in Seq(Msgs) BY DEF ViewTyped
<1>2. i \in Seq(Msgs) /\ o \in Seq(Msgs) /\ w \in Seq(Msgs) BY <1>1, GoingTyped
<1>3. m \in Msgs BY Kinds DEF Msgs
<1>4. Kept(c, WriteMsgs) = Append(w, m) BY <1>1, <1>3, KeptAppend
<1>5. h \in Seq(Msgs) /\ Append(w, m) = w \o h BY <1>2, <1>3, AppendOne
<1>6. Going(t, k, b) = (i \o w) \o (h \o o) BY DEF Going
<1>7. Going(s, k, c) = (i \o (w \o h)) \o o BY <1>4, <1>5 DEF Going
<1> HIDE DEF w, c, h, i, o
<1>8. (i \o (w \o h)) \o o = (i \o w) \o (h \o o)
  <2>1. \A p, q, r \in Seq(Msgs) : (p \o q) \o r = p \o (q \o r) BY SMT
  <2>2. i \o (w \o h) = (i \o w) \o h BY <1>2, <1>5, <2>1, Zenon
  <2>3. i \o w \in Seq(Msgs) BY <1>2, ConcatProperties
  <2>4. ((i \o w) \o h) \o o = (i \o w) \o (h \o o) BY <1>2, <1>5, <2>1, <2>3, Zenon
  <2> QED BY <2>2, <2>4
<1>9. Going(s, k, c) = Going(t, k, b) BY <1>6, <1>7, <1>8
<1>10. Bytes(c, "ack", d) = Bytes(b, "ack", d)
  <2>1. Amount(m, "ack", d) = 0 BY DEF Amount, WriteMsgs, Message
  <2>2. Bytes(c, "ack", d) = Bytes(b, "ack", d) + Amount(m, "ack", d) /\ Bytes(b, "ack", d) \in Nat
    BY <1>1, <1>3, AddsOne DEF c
  <2> QED BY <2>1, <2>2
<1>11. EndWritten(s, k, Going(s, k, c)) BY <1>9 DEF Even, EndWritten
<1>12. WriteEven(d, s, k, Going(s, k, c), u) BY <1>9 DEF Even, WriteEven
<1>13. ReadEven(d, s, k, c, l, x, u) BY <1>10 DEF Even, ReadEven, SameEnds
<1> QED BY <1>11, <1>12, <1>13 DEF Even, c

\* poll_read takes an event
LEMMA ReadsEven ==
    ASSUME NEW d, NEW t, NEW k, NEW b, NEW l, NEW x, NEW u, ViewTyped(t, k, b, l, x, u), Even(d, t, k, b, l, x, u),
           NEW s \in Tunnels, NEW m \in Msgs, SameOut(t, s), t.in = <<m>> \o s.in, t.pending = 0,
           s.pending = Amount(m, "data", d)
    PROVE  Even(d, s, k, b, l, x, u)
<1>1. t \in Tunnels /\ k \in Ends /\ b \in Seq(Msgs) BY DEF ViewTyped
<1>2. s.in \in Seq(Msgs) BY <1>1, GoingTyped
<1>3. Going(s, k, b) = Going(t, k, b) BY DEF Going, SameOut
<1>4. EndWritten(s, k, Going(s, k, b)) BY <1>3 DEF Even, EndWritten, SameOut
<1>5. WriteEven(d, s, k, Going(s, k, b), u) BY <1>3 DEF Even, WriteEven, SameOut
<1>6. Bytes(t.in, "data", d) + t.pending = Bytes(s.in, "data", d) + s.pending
  <2>1. /\ Bytes(t.in, "data", d) = Amount(m, "data", d) + Bytes(s.in, "data", d) /\ Bytes(s.in, "data", d) \in Nat
        /\ Amount(m, "data", d) \in Nat
    BY <1>2, LacksOne
  <2> QED BY <2>1
<1>7. ReadEven(d, s, k, b, l, x, u)
  <2>1. /\ Bytes(u, "data", d) \in Nat /\ Bytes(b, "ack", d) \in Nat /\ Bytes(l, "ack", d) \in Nat
        /\ Bytes(x, "ack", d) \in Nat /\ Bytes(t.in, "data", d) \in Nat /\ Bytes(s.in, "data", d) \in Nat
        /\ s.pending \in Nat /\ t.pending \in Nat
    <3>1. t.in \in Seq(Msgs) /\ s.pending \in Nat /\ t.pending \in Nat BY <1>1, GoingTyped
    <3>2. u \in Seq(Msgs) /\ b \in Seq(Msgs) /\ l \in Seq(Msgs) /\ x \in Seq(Msgs) BY DEF ViewTyped
    <3> QED BY <1>2, <3>1, <3>2, BytesTyped
  <2>2. k.unacked = Bytes(u, "data", d) + Bytes(t.in, "data", d) + t.pending
                    + Bytes(b, "ack", d) + Bytes(l, "ack", d) + Bytes(x, "ack", d)
    BY DEF Even, ReadEven
  <2>3. k.unacked = Bytes(u, "data", d) + Bytes(s.in, "data", d) + s.pending
                    + Bytes(b, "ack", d) + Bytes(l, "ack", d) + Bytes(x, "ack", d)
    BY <1>6, <2>1, <2>2
  <2> QED BY <2>3 DEF ReadEven
<1> QED BY <1>4, <1>5, <1>7 DEF Even

LEMMA SumOfFive ==
    \A v, a, b, c, d \in Nat : v + a + b + c + d = v + (a + b + c + d)
<1> SUFFICES ASSUME NEW v \in Nat, NEW a \in Nat, NEW b \in Nat, NEW c \in Nat, NEW d \in Nat
             PROVE  v + a + b + c + d = v + (a + b + c + d)
  OBVIOUS
<1>1. v + a + b = v + (a + b) /\ a + b \in Nat OBVIOUS
<1> DEFINE y == a + b
<1>2. y \in Nat /\ v + a + b = v + y BY <1>1
<1> HIDE DEF y
<1>3. (v + y) + c + d = v + (y + c + d) BY <1>2
<1> QED BY <1>2, <1>3 DEF y

\* What a queue downwards holds of acknowledgements is moved or added to.
LEMMA AcksEven ==
    ASSUME NEW d, NEW t, NEW k, NEW b, NEW l, NEW x, NEW u, ViewTyped(t, k, b, l, x, u), Even(d, t, k, b, l, x, u),
           NEW s \in Tunnels, SameOut(t, s), s.in = t.in,
           NEW c \in Seq(Msgs), NEW m \in Seq(Msgs), NEW y \in Seq(Msgs), Kept(c, WriteMsgs) = Kept(b, WriteMsgs),
           t.pending + Bytes(b, "ack", d) + Bytes(l, "ack", d) + Bytes(x, "ack", d)
               = s.pending + Bytes(c, "ack", d) + Bytes(m, "ack", d) + Bytes(y, "ack", d)
    PROVE  Even(d, s, k, c, m, y, u)
<1>1. Going(s, k, c) = Going(t, k, b) BY DEF Going, SameOut
<1>2. EndWritten(s, k, Going(s, k, c)) BY <1>1 DEF Even, EndWritten, SameOut
<1>3. WriteEven(d, s, k, Going(s, k, c), u) BY <1>1 DEF Even, WriteEven, SameOut
<1>4. ReadEven(d, s, k, c, m, y, u)
  <2>1. t.pending \in Nat /\ s.pending \in Nat /\ t.in \in Seq(Msgs) BY GoingTyped DEF ViewTyped
  <2>2. /\ Bytes(b, "ack", d) \in Nat /\ Bytes(l, "ack", d) \in Nat /\ Bytes(x, "ack", d) \in Nat
        /\ Bytes(u, "data", d) \in Nat
    BY BytesTyped DEF ViewTyped
  <2>3. Bytes(c, "ack", d) \in Nat /\ Bytes(m, "ack", d) \in Nat /\ Bytes(y, "ack", d) \in Nat BY BytesTyped
  <2>4. Bytes(t.in, "data", d) \in Nat BY <2>1, BytesTyped
  <2>5. k.unacked = Bytes(u, "data", d) + Bytes(t.in, "data", d) + t.pending
                    + Bytes(b, "ack", d) + Bytes(l, "ack", d) + Bytes(x, "ack", d)
    BY DEF Even, ReadEven
  <2>6. k.unacked = Bytes(u, "data", d) + Bytes(s.in, "data", d) + s.pending
                    + Bytes(c, "ack", d) + Bytes(m, "ack", d) + Bytes(y, "ack", d)
    <3> DEFINE z == k.unacked
               p == Bytes(u, "data", d)
               q == Bytes(t.in, "data", d)
               h == t.pending
               i == Bytes(b, "ack", d)
               j == Bytes(l, "ack", d)
               n == Bytes(x, "ack", d)
               f == s.pending
               e == Bytes(c, "ack", d)
               g == Bytes(m, "ack", d)
               o == Bytes(y, "ack", d)
    <3>1. p \in Nat /\ q \in Nat /\ h \in Nat /\ i \in Nat /\ j \in Nat /\ n \in Nat BY <2>1, <2>2, <2>4
    <3>2. f \in Nat /\ e \in Nat /\ g \in Nat /\ o \in Nat BY <2>1, <2>2, <2>3
    <3>3. z = p + q + h + i + j + n /\ h + i + j + n = f + e + g + o BY <2>5
    <3> HIDE DEF z, p, q, h, i, j, n, f, e, g, o
    <3>4. z = p + q + f + e + g + o
      <4> DEFINE v == p + q
      <4>1. v \in Nat BY <3>1
      <4>2. z = v + h + i + j + n BY <3>3
      <4> HIDE DEF v
      <4>3. v + h + i + j + n = v + (h + i + j + n) BY <3>1, <4>1, SumOfFive
      <4>4. v + f + e + g + o = v + (f + e + g + o) BY <3>2, <4>1, SumOfFive
      <4>5. z = v + f + e + g + o BY <3>3, <4>2, <4>3, <4>4, Zenon
      <4> QED BY <4>5 DEF v
    <3>5. s.in = t.in OBVIOUS
    <3> QED BY <3>4, <3>5 DEF z, p, q, f, e, g, o
  <2> QED BY <2>6 DEF ReadEven
<1> QED BY <1>2, <1>3, <1>4 DEF Even

\* The relay routes a message.
LEMMA RoutedEven ==
    ASSUME NEW d, NEW t, NEW k, NEW b, NEW l, NEW x, NEW m \in Msgs, NEW w \in Seq(Msgs),
           ViewTyped(t, k, b, l, x, <<m>> \o w), Even(d, t, k, b, l, x, <<m>> \o w),
           NEW s \in Tunnels, s.out = t.out, s.writeClosed = t.writeClosed, s.pending = t.pending,
           s.unacked = Minus(t.unacked, Amount(m, "ack", d)),
           Bytes(s.in, "data", d) = Bytes(t.in, "data", d) + Amount(m, "data", d)
    PROVE  Even(d, s, k, b, l, x, w)
<1> DEFINE u == <<m>> \o w
           g == Going(t, k, b)
<1>1. t \in Tunnels /\ k \in Ends /\ b \in Seq(Msgs) /\ l \in Seq(Msgs) /\ x \in Seq(Msgs) BY DEF ViewTyped
<1>2. \A c : /\ Bytes(u, c, d) = Amount(m, c, d) + Bytes(w, c, d) /\ Bytes(w, c, d) \in Nat /\ Amount(m, c, d) \in Nat
  BY LacksOne
<1>3. Going(s, k, b) = g BY DEF Going
<1>4. g \in Seq(Msgs) /\ k.writing \in Nat /\ t.pending \in Nat /\ t.in \in Seq(Msgs) BY <1>1, GoingTyped
<1>5. EndWritten(t, k, g) /\ WriteEven(d, t, k, g, u) /\ ReadEven(d, t, k, b, l, x, u) BY DEF Even
<1> HIDE DEF u, g
<1>6. EndWritten(s, k, g) BY <1>5 DEF EndWritten
<1>7. WriteEven(d, s, k, g, w)
  <2> DEFINE p == Bytes(g, "data", d)
             q == k.writing
             n == Amount(m, "ack", d)
             r == Bytes(w, "ack", d)
             z == t.unacked
  <2>1. p \in Nat BY <1>4, BytesTyped
  <2>2. q \in Nat /\ n \in Nat /\ r \in Nat BY <1>2, <1>4
  <2>3. z = p + q + (n + r) BY <1>2, <1>5 DEF WriteEven
  <2>4. s.unacked = Minus(z, n) OBVIOUS
  <2> HIDE DEF p, q, n, r, z
  <2>5. z = n + (p + q + r) /\ p + q + r \in Nat BY <2>1, <2>2, <2>3
  <2>6. Minus(z, n) = p + q + r BY <2>2, <2>5 DEF Minus
  <2>7. s.unacked = p + q + r BY <2>4, <2>6
  <2> QED BY <2>7 DEF WriteEven, p, q, r
<1>8. ReadEven(d, s, k, b, l, x, w)
  <2> DEFINE p == Amount(m, "data", d)
             q == Bytes(w, "data", d)
             i == Bytes(t.in, "data", d)
             h == t.pending
             e == Bytes(b, "ack", d)
             f == Bytes(l, "ack", d)
             o == Bytes(x, "ack", d)
             z == k.unacked
  <2>1. p \in Nat /\ q \in Nat /\ h \in Nat BY <1>2, <1>4
  <2>2. i \in Nat /\ e \in Nat /\ f \in Nat /\ o \in Nat BY <1>1, <1>4, BytesTyped
  <2>3. z = (p + q) + i + h + e + f + o BY <1>2, <1>5 DEF ReadEven
  <2>4. Bytes(s.in, "data", d) = i + p OBVIOUS
  <2> HIDE DEF p, q, i, h, e, f, o, z
  <2>5. (p + q) + i = q + (i + p) BY <2>1, <2>2
  <2>6. z = q + (i + p) + h + e + f + o BY <2>3, <2>5
  <2>7. z = q + Bytes(s.in, "data", d) + h + e + f + o BY <2>4, <2>6
  <2> QED BY <2>7 DEF ReadEven, z, q, h, e, f, o
<1> QED BY <1>3, <1>6, <1>7, <1>8 DEF Even

\* The tasks of the connection say something.
LEMMA SpokenEven ==
    ASSUME NEW d, NEW t, NEW k, NEW b, NEW l, NEW x, NEW u, ViewTyped(t, k, b, l, x, u), Even(d, t, k, b, l, x, u),
           NEW e \in Ends, NEW m \in Msgs, e.in = k.in, e.writeDone = k.writeDone,
           e.unacked = k.unacked + Amount(m, "data", d), k.writing = e.writing + Amount(m, "ack", d)
    PROVE  Even(d, t, e, b, l, x, Append(u, m))
<1> DEFINE w == Append(u, m)
           g == Going(t, k, b)
<1>1. /\ t \in Tunnels /\ k \in Ends /\ b \in Seq(Msgs) /\ l \in Seq(Msgs) /\ x \in Seq(Msgs) /\ u \in Seq(Msgs)
  BY DEF ViewTyped
<1>2. \A c : /\ Bytes(w, c, d) = Bytes(u, c, d) + Amount(m, c, d) /\ Bytes(u, c, d) \in Nat /\ Amount(m, c, d) \in Nat
  BY <1>1, AddsOne
<1>3. Going(t, e, b) = g BY DEF Going
<1>4. g \in Seq(Msgs) /\ e.writing \in Nat /\ t.pending \in Nat /\ t.in \in Seq(Msgs) BY <1>1, GoingTyped
<1>5. EndWritten(t, k, g) /\ WriteEven(d, t, k, g, u) /\ ReadEven(d, t, k, b, l, x, u) BY DEF Even
<1> HIDE DEF w, g
<1>6. EndWritten(t, e, g) BY <1>5 DEF EndWritten
<1>7. WriteEven(d, t, e, g, w)
  <2> DEFINE p == Bytes(g, "data", d)
             q == e.writing
             n == Amount(m, "ack", d)
             r == Bytes(u, "ack", d)
             z == t.unacked
  <2>1. p \in Nat BY <1>4, BytesTyped
  <2>2. q \in Nat /\ n \in Nat /\ r \in Nat BY <1>2, <1>4
  <2>3. z = p + (q + n) + r BY <1>5 DEF WriteEven
  <2>4. Bytes(w, "ack", d) = r + n BY <1>2
  <2> HIDE DEF p, q, n, r, z
  <2>5. p + (q + n) + r = p + q + (r + n) BY <2>1, <2>2
  <2>6. z = p + q + Bytes(w, "ack", d) BY <2>3, <2>4, <2>5
  <2> QED BY <2>6 DEF WriteEven, z, p, q
<1>8. ReadEven(d, t, e, b, l, x, w)
  <2> DEFINE p == Amount(m, "data", d)
             q == Bytes(u, "data", d)
             i == Bytes(t.in, "data", d)
             h == t.pending
             a == Bytes(b, "ack", d)
             f == Bytes(l, "ack", d)
             o == Bytes(x, "ack", d)
             z == k.unacked
  <2>1. p \in Nat /\ q \in Nat /\ h \in Nat BY <1>2, <1>4
  <2>2. i \in Nat /\ a \in Nat /\ f \in Nat /\ o \in Nat BY <1>1, <1>4, BytesTyped
  <2>3. z = q + i + h + a + f + o BY <1>5 DEF ReadEven
  <2>4. Bytes(w, "data", d) = q + p /\ e.unacked = z + p BY <1>2
  <2> HIDE DEF p, q, i, h, a, f, o, z
  <2>5. (q + i + h + a + f + o) + p = (q + p) + i + h + a + f + o BY <2>1, <2>2
  <2>6. e.unacked = Bytes(w, "data", d) + i + h + a + f + o BY <2>3, <2>4, <2>5
  <2> QED BY <2>6 DEF ReadEven, i, h, a, f, o
<1> QED BY <1>3, <1>6, <1>7, <1>8 DEF Even, w

\* The write half takes data ...
LEMMA TakesDataEven ==
    ASSUME NEW d, NEW t, NEW k, NEW b, NEW l, NEW x, NEW u, ViewTyped(t, k, b, l, x, u), Even(d, t, k, b, l, x, u),
           NEW e \in Ends, NEW m \in Msgs, k.in = <<m>> \o e.in, k.writing = 0, e.writing = Amount(m, "data", d),
           e.writeDone = k.writeDone, e.unacked = k.unacked
    PROVE  Even(d, t, e, b, l, x, u)
<1> DEFINE g == Going(t, k, b)
           h == Going(t, e, b)
           f == <<m>>
           i == e.in
           w == Kept(b, WriteMsgs)
           o == t.out
<1>1. t \in Tunnels /\ k \in Ends /\ b \in Seq(Msgs) /\ u \in Seq(Msgs) BY DEF ViewTyped
<1>2. h \in Seq(Msgs) /\ i \in Seq(Msgs) /\ w \in Seq(Msgs) /\ o \in Seq(Msgs) /\ f \in Seq(Msgs) BY <1>1, GoingTyped
<1>3. g = f \o h
  <2>1. g = ((f \o i) \o w) \o o /\ h = (i \o w) \o o BY DEF Going
  <2> HIDE DEF g, h, f, i, w, o
  <2>2. \A p, q, r \in Seq(Msgs) : (p \o q) \o r = p \o (q \o r) BY SMT
  <2>3. (f \o i) \o w = f \o (i \o w) BY <1>2, <2>2, Zenon
  <2>4. (f \o (i \o w)) \o o = f \o ((i \o w) \o o)
    <3> DEFINE y == i \o w
    <3>1. y \in Seq(Msgs) BY <1>2, ConcatProperties
    <3> HIDE DEF y
    <3>2. (f \o y) \o o = f \o (y \o o) BY <1>2, <2>2, <3>1
    <3> QED BY <3>2 DEF y
  <2> QED BY <2>1, <2>3, <2>4
<1>4. EndWritten(t, k, g) /\ WriteEven(d, t, k, g, u) /\ ReadEven(d, t, k, b, l, x, u) BY DEF Even
<1> HIDE DEF g, h, i, w, o
<1>5. EndWritten(t, e, h)
  <2>1. EndLast(f \o h) BY <1>3, <1>4 DEF EndWritten
  <2>2. EndLast(h) /\ (HasEnd(h) => HasEnd(f \o h)) BY <1>2, <2>1, EndHead
  <2>3. k.writeDone => g = <<>> BY <1>4 DEF EndWritten
  <2>4. ~k.writeDone
    <3>1. m \in ToSet(g)
      <4>1. ToSet(f \o h) = ToSet(h) \cup {m} BY <1>2, LacksOne
      <4> QED BY <1>3, <4>1
    <3> QED BY <2>3, <3>1, EmptyHasNone
  <2> QED BY <1>3, <1>4, <2>2, <2>4 DEF EndWritten
<1>6. WriteEven(d, t, e, h, u)
  <2> DEFINE n == Amount(m, "data", d)
             p == Bytes(h, "data", d)
             r == Bytes(u, "ack", d)
             z == t.unacked
  <2>1. Bytes(g, "data", d) = n + p /\ n \in Nat /\ p \in Nat BY <1>2, <1>3, LacksOne
  <2>2. r \in Nat BY <1>1, BytesTyped
  <2>3. z = (n + p) + 0 + r BY <1>4, <2>1 DEF WriteEven
  <2> HIDE DEF p, n, r, z
  <2>4. z = p + n + r BY <2>1, <2>2, <2>3
  <2> QED BY <2>4 DEF WriteEven, z, p, n, r
<1>7. ReadEven(d, t, e, b, l, x, u) BY <1>4 DEF ReadEven
<1> QED BY <1>5, <1>6, <1>7 DEF Even, h

\* ... or the end, behind which there is nothing.
LEMMA TakesEndEven ==
    ASSUME NEW d, NEW t, NEW k, NEW b, NEW l, NEW x, NEW u, ViewTyped(t, k, b, l, x, u), Even(d, t, k, b, l, x, u),
           NEW e \in Ends, NEW m \in Msgs, NEW i \in Seq(Msgs), k.in = <<m>> \o i, m.type = "eof", e.in = <<>>,
           e.writing = k.writing, e.unacked = k.unacked
    PROVE  Even(d, t, e, b, l, x, u)
<1> DEFINE g == Going(t, k, b)
           f == <<m>>
           w == Kept(b, WriteMsgs)
           o == t.out
           r == (i \o w) \o o
<1>1. t \in Tunnels /\ k \in Ends /\ b \in Seq(Msgs) /\ u \in Seq(Msgs) BY DEF ViewTyped
<1>2. w \in Seq(Msgs) /\ o \in Seq(Msgs) /\ f \in Seq(Msgs)
  <2>1. f \in Seq(Msgs) OBVIOUS
  <2>2. w \in Seq(Msgs) /\ o \in Seq(Msgs) BY <1>1, GoingTyped
  <2> QED BY <2>1, <2>2
<1>3. i \o w \in Seq(Msgs) /\ r \in Seq(Msgs)
  <2>1. i \o w \in Seq(Msgs) BY <1>2, ConcatProperties
  <2> HIDE DEF w, o
  <2> QED BY <1>2, <2>1, ConcatProperties
<1>4. g = f \o r
  <2>1. g = ((f \o i) \o w) \o o BY DEF Going
  <2> HIDE DEF g, f, w, o
  <2>2. \A p, q, v \in Seq(Msgs) : (p \o q) \o v = p \o (q \o v) BY SMT
  <2>4. (f \o i) \o w = f \o (i \o w) BY <1>2, <2>2, Zenon
  <2>5. (f \o (i \o w)) \o o = f \o ((i \o w) \o o) BY <1>2, <1>3, <2>2, Zenon
  <2> QED BY <2>1, <2>4, <2>5
<1>5. EndWritten(t, k, g) /\ WriteEven(d, t, k, g, u) /\ ReadEven(d, t, k, b, l, x, u) BY DEF Even
<1> HIDE DEF g, r
<1>6. r = <<>> /\ HasEnd(g)
  <2>1. EndLast(<<m>> \o r) BY <1>4, <1>5 DEF EndWritten
  <2>2. r = <<>> /\ HasEnd(<<m>> \o r) BY <1>3, <2>1, EndHead
  <2> QED BY <1>4, <2>2
<1>7. w = <<>> /\ o = <<>>
  <2>1. ToSet(r) = ToSet(i \o w) \cup ToSet(o) /\ ToSet(i \o w) = ToSet(i) \cup ToSet(w)
    <3> DEFINE a == i \o w
    <3>1. a \in Seq(Msgs) BY <1>3
    <3>2. ToSet(a) = ToSet(i) \cup ToSet(w) BY <1>2, ConcatHasBoth
    <3> HIDE DEF a, w, o
    <3>3. ToSet(a \o o) = ToSet(a) \cup ToSet(o) BY <1>2, <3>1, ConcatHasBoth
    <3> QED BY <3>2, <3>3 DEF a, r
  <2>2. ToSet(w) = {} /\ ToSet(o) = {} BY <1>6, <2>1, EmptyHasNone
  <2> QED BY <1>2, <2>2, NoneInside
<1>8. Going(t, e, b) = <<>>
  <2>1. <<>> \o <<>> = <<>> OBVIOUS
  <2> QED BY <1>7, <2>1 DEF Going
<1>9. EndWritten(t, e, <<>>)
  <2>1. t.writeClosed BY <1>5, <1>6 DEF EndWritten
  <2>2. DOMAIN <<>> = {} OBVIOUS
  <2> QED BY <2>1, <2>2 DEF EndWritten, EndLast, HasEnd
<1>10. WriteEven(d, t, e, <<>>, u)
  <2>1. Bytes(g, "data", d) = 0
    <3>1. Amount(m, "data", d) = 0 BY DEF Amount
    <3>2. Bytes(g, "data", d) = Amount(m, "data", d) + Bytes(r, "data", d) BY <1>3, <1>4, LacksOne
    <3> QED BY <1>6, <3>1, <3>2, BytesEmpty
  <2> QED BY <1>5, <2>1, BytesEmpty DEF WriteEven
<1>11. ReadEven(d, t, e, b, l, x, u) BY <1>5 DEF ReadEven
<1> QED BY <1>8, <1>9, <1>10, <1>11 DEF Even

\* The main loop gives the write half a message, ...
LEMMA AppendEven ==
    ASSUME NEW d, NEW t, NEW k, NEW c \in Seq(Msgs), NEW m \in WriteMsgs, NEW l, NEW x, NEW u,
           ViewTyped(t, k, <<m>> \o c, l, x, u), Even(d, t, k, <<m>> \o c, l, x, u),
           NEW e \in Ends, e.in = Append(k.in, m), e.writing = k.writing, e.writeDone = k.writeDone, e.unacked = k.unacked
    PROVE  Even(d, t, e, c, l, x, u)
<1> DEFINE b == <<m>> \o c
           h == <<m>>
           i == k.in
           w == Kept(c, WriteMsgs)
           o == t.out
<1>1. t \in Tunnels /\ k \in Ends /\ b \in Seq(Msgs) /\ u \in Seq(Msgs) BY DEF ViewTyped
<1>2. m \in Msgs BY Kinds DEF Msgs
<1>3. i \in Seq(Msgs) /\ o \in Seq(Msgs) /\ w \in Seq(Msgs) BY <1>1, GoingTyped
<1>4. h \in Seq(Msgs) /\ Append(i, m) = i \o h BY <1>2, <1>3, AppendOne
<1>5. Kept(b, WriteMsgs) = h \o w
  <2>1. b # <<>> /\ Head(b) = m /\ Tail(b) = c BY <1>2
  <2> HIDE DEF b, w
  <2>2. Kept(b, WriteMsgs) = IF Head(b) \in WriteMsgs THEN <<Head(b)>> \o Kept(Tail(b), WriteMsgs) ELSE Kept(Tail(b), WriteMsgs)
    BY <1>1, <2>1, KeptHead
  <2> QED BY <2>1, <2>2 DEF w
<1>6. Going(t, k, b) = (i \o (h \o w)) \o o BY <1>5 DEF Going
<1>7. Going(t, e, c) = ((i \o h) \o w) \o o BY <1>4 DEF Going
<1>8. Amount(m, "ack", d) = 0 BY DEF Amount, WriteMsgs, Message
<1>9. Bytes(b, "ack", d) = Amount(m, "ack", d) + Bytes(c, "ack", d) /\ Bytes(c, "ack", d) \in Nat BY <1>2, LacksOne
<1> HIDE DEF b, h, i, w, o
<1>10. Going(t, e, c) = Going(t, k, b)
  <2>1. \A p, q, r \in Seq(Msgs) : (p \o q) \o r = p \o (q \o r) BY SMT
  <2>2. i \in Seq(Msgs) /\ h \in Seq(Msgs) /\ w \in Seq(Msgs) BY <1>3, <1>4
  <2>3. (i \o h) \o w = i \o (h \o w) BY <2>1, <2>2, Zenon
  <2> QED BY <1>6, <1>7, <2>3
<1>11. Bytes(c, "ack", d) = Bytes(b, "ack", d) BY <1>8, <1>9
<1>12. Even(d, t, k, b, l, x, u) BY DEF b
<1>13. EndWritten(t, e, Going(t, e, c)) BY <1>10, <1>12 DEF Even, EndWritten
<1>14. WriteEven(d, t, e, Going(t, e, c), u) BY <1>10, <1>12 DEF Even, WriteEven
<1>15. ReadEven(d, t, e, c, l, x, u) BY <1>11, <1>12 DEF Even, ReadEven
<1> QED BY <1>13, <1>14, <1>15 DEF Even

\* ... or takes an acknowledgement.
LEMMA AckedEven ==
    ASSUME NEW d, NEW t, NEW k, NEW c \in Seq(Msgs), NEW m \in Msgs, m.type = "ack", m.conn = d, NEW l, NEW x, NEW u,
           ViewTyped(t, k, <<m>> \o c, l, x, u), Even(d, t, k, <<m>> \o c, l, x, u),
           NEW e \in Ends, SameTarget(k, e), e.unacked = Minus(k.unacked, m.bytes)
    PROVE  Even(d, t, e, c, l, x, u)
<1> DEFINE b == <<m>> \o c
           w == Kept(c, WriteMsgs)
<1>1. /\ t \in Tunnels /\ k \in Ends /\ b \in Seq(Msgs) /\ l \in Seq(Msgs) /\ x \in Seq(Msgs) /\ u \in Seq(Msgs)
  BY DEF ViewTyped
<1>2. Kept(b, WriteMsgs) = w
  <2>1. b # <<>> /\ Head(b) = m /\ Tail(b) = c OBVIOUS
  <2>2. m \notin WriteMsgs BY DEF WriteMsgs, Message
  <2> HIDE DEF b, w
  <2>3. Kept(b, WriteMsgs) = IF Head(b) \in WriteMsgs THEN <<Head(b)>> \o Kept(Tail(b), WriteMsgs) ELSE Kept(Tail(b), WriteMsgs)
    BY <1>1, <2>1, KeptHead
  <2> QED BY <2>1, <2>2, <2>3 DEF w
<1>3. Going(t, e, c) = Going(t, k, b) BY <1>2 DEF Going, SameTarget
<1>4. Amount(m, "ack", d) = m.bytes BY DEF Amount
<1>5. Bytes(b, "ack", d) = Amount(m, "ack", d) + Bytes(c, "ack", d) /\ Bytes(c, "ack", d) \in Nat /\ Amount(m, "ack", d) \in Nat
  BY LacksOne
<1>6. t.pending \in Nat /\ t.in \in Seq(Msgs) BY <1>1, GoingTyped
<1> HIDE DEF b, w
<1>7. Even(d, t, k, b, l, x, u) BY DEF b
<1>8. EndWritten(t, e, Going(t, e, c)) BY <1>3, <1>7 DEF Even, EndWritten, SameTarget
<1>9. WriteEven(d, t, e, Going(t, e, c), u) BY <1>3, <1>7 DEF Even, WriteEven, SameTarget
<1>10. ReadEven(d, t, e, c, l, x, u)
  <2> DEFINE n == m.bytes
             p == Bytes(u, "data", d)
             q == Bytes(t.in, "data", d)
             h == t.pending
             a == Bytes(c, "ack", d)
             f == Bytes(l, "ack", d)
             o == Bytes(x, "ack", d)
             z == k.unacked
  <2>1. n \in Nat /\ a \in Nat /\ h \in Nat BY <1>4, <1>5, <1>6
  <2>2. p \in Nat /\ q \in Nat /\ f \in Nat /\ o \in Nat BY <1>1, <1>6, BytesTyped
  <2>3. z = p + q + h + (n + a) + f + o BY <1>4, <1>5, <1>7 DEF Even, ReadEven
  <2>4. e.unacked = Minus(z, n) OBVIOUS
  <2> HIDE DEF n, p, q, h, a, f, o, z
  <2>5. z = n + (p + q + h + a + f + o) /\ p + q + h + a + f + o \in Nat BY <2>1, <2>2, <2>3
  <2>6. Minus(z, n) = p + q + h + a + f + o BY <2>1, <2>5 DEF Minus
  <2>7. e.unacked = p + q + h + a + f + o BY <2>4, <2>6
  <2> QED BY <2>7 DEF ReadEven, p, q, h, a, f, o
<1> QED BY <1>8, <1>9, <1>10 DEF Even

\* A connection begins with nothing unconfirmed.
LEMMA AcceptEven ==
    ASSUME NEW d, NEW t \in Tunnels, NEW k, NEW b \in Seq(Msgs), NEW l \in Seq(Msgs), NEW x \in Seq(Msgs), NEW u \in Seq(Msgs),
           Fresher(d, t, k, b, l, x, u), Young(k),
           NEW e \in Ends, e.in = <<>>, e.writing = 0, e.writeDone = FALSE, e.unacked = 0
    PROVE  Even(d, t, e, b, l, x, u)
<1>1. /\ Controls(b) /\ Controls(l) /\ Controls(x)
      /\ \A m \in ToSet(u) : m.type = "error"
      /\ t.in = <<>>
  BY DEF Fresher
<1>2. t.pc # "open" BY DEF Fresher, Begun
<1>3. t.out = <<>> /\ t.unacked = 0 /\ t.pending = 0 BY <1>2 DEF Fresher
<1>4. Kept(b, WriteMsgs) = <<>>
  <2>1. ToSet(b) \cap WriteMsgs = {} BY <1>1 DEF Controls, WriteMsgs, Message
  <2> QED BY <2>1, NoneKept
<1>5. Going(t, e, b) = <<>>
  <2>1. <<>> \o <<>> = <<>> OBVIOUS
  <2> QED BY <1>3, <1>4, <2>1 DEF Going
<1>6. EndWritten(t, e, <<>>)
  <2>1. DOMAIN <<>> = {} OBVIOUS
  <2> QED BY <2>1 DEF EndWritten, EndLast, HasEnd
<1>7. Bytes(u, "ack", d) = 0 /\ Bytes(u, "data", d) = 0
  <2>1. \A m \in ToSet(u) : m.type # "ack" /\ m.type # "data" BY <1>1
  <2> QED BY <2>1, BytesNone
<1>8. \A q \in Seq(Msgs) : Controls(q) => Bytes(q, "ack", d) = 0
  <2> SUFFICES ASSUME NEW q \in Seq(Msgs), Controls(q) PROVE Bytes(q, "ack", d) = 0 OBVIOUS
  <2>1. \A m \in ToSet(q) : m.type # "ack" BY DEF Controls
  <2> QED BY <2>1, BytesNone
<1>9. WriteEven(d, t, e, <<>>, u) BY <1>3, <1>7, BytesEmpty DEF WriteEven
<1>10. ReadEven(d, t, e, b, l, x, u)
  <2>1. Bytes(b, "ack", d) = 0 /\ Bytes(l, "ack", d) = 0 /\ Bytes(x, "ack", d) = 0 BY <1>1, <1>8
  <2> QED BY <1>1, <1>3, <1>7, <2>1, BytesEmpty DEF ReadEven
<1> QED BY <1>5, <1>6, <1>9, <1>10 DEF Even

(***************************************************************************)
(* The windows after a step of the system.                                  *)
(***************************************************************************)
LEMMA Seen ==
    ASSUME NEW d \in Conns,
           Balanced(d, tunnel'[d], conn'[d], Reaches(d)', Part(bulk', d), Part(late', d), Part(lost', d), Rising(d)')
    PROVE  BalancedAt(d)'
<1>1. Part(bulk, d)' = Part(bulk', d) /\ Part(late, d)' = Part(late', d) /\ Part(lost, d)' = Part(lost', d)
  BY DEF Part, Mine, Msgs, DownMsgs, UpMsgs, Message
<1>2. BalancedAt(d)' <=> Balanced(d, tunnel'[d], conn'[d], Reaches(d)', Part(bulk, d)', Part(late, d)', Part(lost, d)', Rising(d)')
  BY DEF BalancedAt, Balanced
<1> QED BY <1>1, <1>2

\* The parts of the queues downwards stay as they are.
SameDown(d) == Part(bulk', d) = Part(bulk, d) /\ Part(late', d) = Part(late, d) /\ Part(lost', d) = Part(lost, d)

LEMMA SameOn ==
    ASSUME NEW d \in Conns, BalancedAt(d), tunnel'[d] = tunnel[d], conn'[d] = conn[d], SameDown(d), Rising(d)' = Rising(d),
           Reaches(d)' => Reaches(d)
    PROVE  BalancedAt(d)'
<1>1. Balanced(d, tunnel[d], conn[d], Reaches(d), Part(bulk, d), Part(late, d), Part(lost, d), Rising(d)) BY DEF BalancedAt
<1>2. Connected(tunnel[d], conn[d], Reaches(d)') => Connected(tunnel[d], conn[d], Reaches(d)) BY DEF Connected
<1>3. Balanced(d, tunnel[d], conn[d], Reaches(d)', Part(bulk, d), Part(late, d), Part(lost, d), Rising(d))
  BY <1>1, <1>2 DEF Balanced
<1> QED BY <1>3, Seen DEF SameDown

\* An end that is not there, or is out of reach, has no windows.
LEMMA PassiveOn ==
    ASSUME NEW d \in Conns, BalancedAt(d), TunnelLess(tunnel[d], tunnel'[d]), EndLess(d, conn[d], conn'[d]),
           More(Sent(Part(bulk', d), Part(late', d), Part(lost', d)), Sent(Part(bulk, d), Part(late, d), Part(lost, d))),
           MoreErrors(Rising(d)', Rising(d)),
           ~Connected(tunnel'[d], conn'[d], Reaches(d)')
    PROVE  BalancedAt(d)'
<1> DEFINE b == Part(bulk, d)
           l == Part(late, d)
           x == Part(lost, d)
           u == Rising(d)
           c == Part(bulk', d)
           m == Part(late', d)
           y == Part(lost', d)
           w == Rising(d)'
<1>1. Fresher(d, tunnel[d], conn[d], b, l, x, u) BY DEF BalancedAt, Balanced
<1>2. More(Sent(c, m, y), Sent(b, l, x)) /\ MoreErrors(w, u) OBVIOUS
<1>3. Fresher(d, tunnel'[d], conn'[d], c, m, y, w)
  <2> HIDE DEF b, l, x, u, c, m, y, w
  <2> QED BY <1>1, <1>2, FresherOn
<1>4. Balanced(d, tunnel'[d], conn'[d], Reaches(d)', c, m, y, w) BY <1>3 DEF Balanced
<1> QED BY <1>4, Seen

LEMMA Still ==
    /\ \A p : More(p, p)
    /\ \A p : MoreErrors(p, p)
    /\ \A d, k : EndLess(d, k, k)
    /\ \A t : TunnelLess(t, t)
BY DEF More, MoreErrors, EndLess, TunnelLess

\* What deliver_bulk and send_nonblocking do of a message for c
Puts(c, m) ==
    \/ UNCHANGED <<bulk, late>> /\ ~Reaches(c)
    \/ bulk' = Append(bulk, m) /\ late' = late
    \/ bulk' = bulk /\ late' = Append(late, m)

LEMMA DeliverPuts == ASSUME NEW c, NEW m, Deliver(c, m), late' = late PROVE Puts(c, m)
BY DEF Deliver, Puts

LEMMA SendPuts == ASSUME NEW c, NEW m, SendNonblocking(c, m) PROVE Puts(c, m)
BY DEF SendNonblocking, Deliver, Puts

LEMMA PutParts ==
    ASSUME Typed, NEW c \in Conns, NEW m \in Msgs, m.conn = c, Puts(c, m), lost' = lost
    PROVE  /\ \A d \in Conns \ {c} : SameDown(d)
           /\ \/ SameDown(c) /\ ~Reaches(c)
              \/ Part(bulk', c) = Append(Part(bulk, c), m) /\ Part(late', c) = Part(late, c) /\ Part(lost', c) = Part(lost, c)
              \/ Part(bulk', c) = Part(bulk, c) /\ Part(late', c) = Append(Part(late, c), m) /\ Part(lost', c) = Part(lost, c)
<1>1. bulk \in Seq(Msgs) /\ late \in Seq(Msgs) BY QueuesAre
<1>2. \A q \in Seq(Msgs), d \in Conns : Part(Append(q, m), d) = IF m.conn = d THEN Append(Part(q, d), m) ELSE Part(q, d)
  BY PartAppend
<1>3. CASE UNCHANGED <<bulk, late>> /\ ~Reaches(c) BY <1>3 DEF SameDown
<1>4. CASE bulk' = Append(bulk, m) /\ late' = late BY <1>1, <1>2, <1>4 DEF SameDown
<1>5. CASE bulk' = bulk /\ late' = Append(late, m) BY <1>1, <1>2, <1>5 DEF SameDown
<1> QED BY <1>3, <1>4, <1>5 DEF Puts

LEMMA PutMore ==
    ASSUME Typed, NEW c \in Conns, NEW m \in Msgs, m.conn = c, Puts(c, m), lost' = lost, m.type \in {"open", "close"}
    PROVE  More(Sent(Part(bulk', c), Part(late', c), Part(lost', c)), Sent(Part(bulk, c), Part(late, c), Part(lost, c)))
<1> DEFINE b == Part(bulk, c)
           l == Part(late, c)
           x == Part(lost, c)
<1>1. b \in Seq(Msgs) /\ l \in Seq(Msgs) BY QueuesAre, PartTyped
<1>2. ToSet(Append(b, m)) = ToSet(b) \cup {m} /\ ToSet(Append(l, m)) = ToSet(l) \cup {m} BY <1>1, AppendAdds
<1>3. Part(lost', c) = x BY PutParts DEF SameDown
<1>4. ToSet(Part(bulk', c)) \subseteq ToSet(b) \cup {m} /\ ToSet(Part(late', c)) \subseteq ToSet(l) \cup {m}
  <2> HIDE DEF b, l
  <2> QED BY <1>2, PutParts DEF b, l, SameDown
<1> HIDE DEF b, l, x
<1> QED BY <1>3, <1>4 DEF More, Sent, b, l, x

Becomes(c, t) == tunnel' = [tunnel EXCEPT ![c] = t]

LEMMA Becoming == ASSUME NEW c, NEW t, SetTunnel(c, t) \/ TakeOut(c, t) PROVE Becomes(c, t)
BY DEF SetTunnel, TakeOut, Becomes

\* The relay and the downlink step alone, and the agent's session is the same.
Apart ==
    /\ UNCHANGED <<agentVars, batch, history>>
    /\ agent'.session = agent.session /\ agent'.up = agent.up /\ agent'.linked = agent.linked

\* What a step of the relay leaves alone
LEMMA RelayStill ==
    ASSUME Typed, NEW c \in Conns, NEW t \in Tunnels, Becomes(c, t), UNCHANGED relayElse \/ Apart
    PROVE  /\ tunnel'[c] = t /\ \A d \in Conns \ {c} : tunnel'[d] = tunnel[d]
           /\ conn' = conn /\ lost' = lost
           /\ \A d \in Conns : Rising(d)' = Rising(d)
           /\ \A d \in Conns \ {c} : Reaches(d)' => Reaches(d)
           /\ t.session = tunnel[c].session => (Reaches(c)' => Reaches(c))
<1>1. Apart BY DEF Apart, relayElse
<1>2. tunnel'[c] = t /\ \A d \in Conns \ {c} : tunnel'[d] = tunnel[d] BY TunnelSet DEF Becomes
<1>3. UNCHANGED <<conn, closed, uplink, post, lost>> BY <1>1 DEF Apart, agentVars, batch, history
<1>4. \A d \in Conns : Rising(d)' = Rising(d)
  <2>1. Ctrl("error", c) \in UpMsgs BY CtrlTyped
  <2> SUFFICES ASSUME NEW d \in Conns PROVE Rising(d)' = Rising(d) OBVIOUS
  <2> QED BY <1>3, <2>1, RisingStill
<1>5. \A d \in Conns \ {c} : Reaches(d)' => Reaches(d) BY <1>1, <1>2 DEF Reaches, Apart
<1>6. t.session = tunnel[c].session => (Reaches(c)' => Reaches(c)) BY <1>1, <1>2 DEF Reaches, Apart
<1> QED BY <1>2, <1>3, <1>4, <1>5, <1>6

\* It is enough to look at the tunnel itself.
LEMMA RelayWindows ==
    ASSUME Typed, Windows, NEW c \in Conns, NEW t \in Tunnels, Becomes(c, t), UNCHANGED relayElse \/ Apart,
           \A d \in Conns \ {c} : SameDown(d), BalancedAt(c)'
    PROVE  Windows'
<1>1. \A d \in Conns : BalancedAt(d) BY DEF Windows
<1>2. ASSUME NEW d \in Conns \ {c} PROVE BalancedAt(d)'
  <2>1. tunnel'[d] = tunnel[d] /\ conn'[d] = conn[d] /\ Rising(d)' = Rising(d) /\ (Reaches(d)' => Reaches(d)) BY RelayStill
  <2> QED BY <1>1, <2>1, SameOn
<1> QED BY <1>2 DEF Windows

LEMMA NothingPut == ASSUME UNCHANGED downlink, UNCHANGED relayElse \/ Apart PROVE \A d \in Conns : SameDown(d)
BY DEF SameDown, downlink, relayElse, history, Apart

\* A step that opens or ends the tunnel
LEMMA PassiveRelay ==
    ASSUME Typed, Windows, NEW c \in Conns, NEW t \in Tunnels, Becomes(c, t), UNCHANGED relayElse \/ Apart,
           NEW m \in Msgs, m.conn = c, m.type \in {"open", "close"}, UNCHANGED downlink \/ Puts(c, m),
           TunnelLess(tunnel[c], t), t.listed => t.over # None \/ conn[c].pc \notin Living
    PROVE  Windows'
<1>1. BalancedAt(c) BY DEF Windows
<1>2. tunnel'[c] = t /\ conn'[c] = conn[c] /\ lost' = lost /\ Rising(c)' = Rising(c) BY RelayStill
<1>3. ~Connected(tunnel'[c], conn'[c], Reaches(c)') BY <1>2 DEF Connected
<1>4. /\ \A d \in Conns \ {c} : SameDown(d)
      /\ More(Sent(Part(bulk', c), Part(late', c), Part(lost', c)), Sent(Part(bulk, c), Part(late, c), Part(lost, c)))
  <2>1. CASE UNCHANGED downlink
    <3>1. \A d \in Conns : SameDown(d) BY <2>1, NothingPut
    <3> QED BY <3>1, Still DEF SameDown
  <2>2. CASE Puts(c, m) BY <1>2, <2>2, PutParts, PutMore
  <2> QED BY <2>1, <2>2
<1>5. BalancedAt(c)' BY <1>1, <1>2, <1>3, <1>4, Still, PassiveOn
<1> QED BY <1>4, <1>5, RelayWindows

LEMMA Opens == ASSUME NEW c \in Conns
    PROVE  /\ Ctrl("open", c) \in Msgs /\ Ctrl("open", c).conn = c /\ Ctrl("open", c).type = "open"
           /\ Ctrl("close", c) \in Msgs /\ Ctrl("close", c).conn = c /\ Ctrl("close", c).type = "close"
<1>1. Ctrl("open", c) \in DownMsgs /\ Ctrl("close", c) \in LateMsgs BY CtrlTyped
<1> QED BY <1>1, Kinds DEF Msgs, Ctrl, Msg

LEMMA GoneLess == \A t : TunnelLess(t, GoneTunnel)
BY GoneFields, NoneAssumption DEF TunnelLess

LEMMA OpenLooksWindows == ASSUME Typed, Windows, NEW c \in Conns, OpenLooks(c) PROVE Windows'
<1> DEFINE t == [NoTunnel EXCEPT !.pc = "counting", !.session = channel]
           r == [NoTunnel EXCEPT !.pc = "counting"]
<1>1. SetTunnel(c, t) /\ UNCHANGED downlink /\ UNCHANGED relayElse BY DEF OpenLooks
<1>2. t.listed = FALSE /\ t.in = <<>> /\ t.out = <<>> /\ t.unacked = 0 /\ t.pending = 0 /\ t.answer = None /\ t.pc = "counting"
  BY DEF NoTunnel
<1>3. t \in Tunnels
  <2>1. NoTunnel \in Tunnels BY DEF NoTunnel, Tunnels
  <2>2. r \in Tunnels BY <2>1, TunnelField
  <2>3. channel \in Nat BY DEF Typed, RelayTyped
  <2>4. t = [r EXCEPT !.session = channel] BY DEF NoTunnel
  <2> HIDE DEF r, t
  <2> QED BY <2>2, <2>3, <2>4, TunnelField
<1> HIDE DEF t
<1>4. TunnelLess(tunnel[c], t) BY <1>2, NoneAssumption DEF TunnelLess
<1> QED BY <1>1, <1>2, <1>3, <1>4, Opens, Becoming, PassiveRelay

LEMMA OpenCountsWindows == ASSUME Typed, Life, Windows, NEW c \in Conns, OpenCounts(c) PROVE Windows'
<1> DEFINE s == tunnel[c]
           t == [s EXCEPT !.pc = "inserting"]
<1>1. s.pc = "counting" /\ UNCHANGED downlink /\ UNCHANGED relayElse BY DEF OpenCounts, relayElse
<1>2. tunnel' = [tunnel EXCEPT ![c] = GoneTunnel] \/ tunnel' = [tunnel EXCEPT ![c] = t] BY DEF OpenCounts
<1>3. s \in Tunnels BY DEF Typed, RelayTyped
<1>4. t \in Tunnels BY <1>3, TunnelField
<1>5. t.listed = s.listed /\ t.in = s.in /\ t.out = s.out /\ t.unacked = s.unacked /\ t.pending = s.pending
      /\ t.answer = s.answer /\ t.pc = "inserting"
  BY <1>3 DEF Tunnels
<1>6. ~s.listed
  <2>1. Sessions(c) BY DEF Life
  <2> QED BY <1>1, <2>1 DEF Sessions
<1>7. TunnelLess(s, t) BY <1>1, <1>5 DEF TunnelLess
<1>8. ~t.listed /\ ~GoneTunnel.listed /\ TunnelLess(s, GoneTunnel) BY <1>5, <1>6, GoneLess, GoneFields
<1>9. Becomes(c, t) \/ Becomes(c, GoneTunnel) BY <1>2 DEF Becomes
<1> HIDE DEF t
<1> QED BY <1>1, <1>4, <1>7, <1>8, <1>9, GoneTyped, Opens, PassiveRelay

\* Nobody is at the other end yet.
LEMMA OpenInsertsWindows == ASSUME Typed, Life, Windows, NEW c \in Conns, OpenInserts(c) PROVE Windows'
<1> DEFINE s == tunnel[c]
           r == [s EXCEPT !.pc = "opening"]
           t == [r EXCEPT !.listed = TRUE]
<1>1. s.pc = "inserting" /\ UNCHANGED downlink /\ UNCHANGED relayElse BY DEF OpenInserts
<1>2. s \in Tunnels BY DEF Typed, RelayTyped
<1>3. SetTunnel(c, t) BY DEF OpenInserts
<1>4. t \in Tunnels
  <2>1. r \in Tunnels BY <1>2, TunnelField
  <2> HIDE DEF r
  <2> QED BY <2>1, TunnelField
<1>5. t.in = s.in /\ t.out = s.out /\ t.unacked = s.unacked /\ t.pending = s.pending /\ t.answer = s.answer /\ t.pc = "opening"
  BY <1>2 DEF Tunnels
<1>6. conn[c].pc = "none"
  <2>1. Unborn(c) BY DEF Life
  <2> QED BY <1>1, <2>1 DEF Unborn, Early
<1> HIDE DEF t, r
<1>7. TunnelLess(s, t) BY <1>1, <1>5 DEF TunnelLess
<1>8. conn[c].pc \notin Living BY <1>6 DEF Living
<1> QED BY <1>1, <1>3, <1>4, <1>7, <1>8, Opens, Becoming, PassiveRelay

LEMMA OpenSendsWindows == ASSUME Typed, Life, Windows, NEW c \in Conns, OpenSends(c) PROVE Windows'
<1> DEFINE s == tunnel[c]
           t == [s EXCEPT !.pc = "waiting"]
           m == Ctrl("open", c)
<1>1. s.pc = "opening" /\ SetTunnel(c, t) /\ UNCHANGED relayElse /\ Deliver(c, m) /\ late' = late BY DEF OpenSends
<1>2. s \in Tunnels BY DEF Typed, RelayTyped
<1>3. t \in Tunnels BY <1>2, TunnelField
<1>4. t.in = s.in /\ t.out = s.out /\ t.unacked = s.unacked /\ t.pending = s.pending /\ t.answer = s.answer /\ t.pc = "waiting"
  BY <1>2 DEF Tunnels
<1>5. conn[c].pc = "none"
  <2>1. Unborn(c) BY DEF Life
  <2> QED BY <1>1, <2>1 DEF Unborn, Early
<1>6. Puts(c, m) BY <1>1, DeliverPuts
<1> HIDE DEF t
<1>7. TunnelLess(s, t) BY <1>1, <1>4 DEF TunnelLess
<1>8. conn[c].pc \notin Living BY <1>5 DEF Living
<1>9. m \in Msgs /\ m.conn = c /\ m.type = "open" BY Opens
<1> HIDE DEF m
<1> QED BY <1>1, <1>3, <1>6, <1>7, <1>8, <1>9, Becoming, PassiveRelay

\* The tunnel is let go of.
LEMMA GoneWindows ==
    ASSUME Typed, Windows, NEW c \in Conns, TakeOut(c, GoneTunnel), UNCHANGED relayElse,
           UNCHANGED downlink \/ SendNonblocking(c, Ctrl("close", c))
    PROVE  Windows'
<1> DEFINE m == Ctrl("close", c)
<1>1. m \in Msgs /\ m.conn = c /\ m.type = "close" BY Opens
<1>2. UNCHANGED downlink \/ Puts(c, m) BY SendPuts
<1>3. TunnelLess(tunnel[c], GoneTunnel) /\ ~GoneTunnel.listed BY GoneLess, GoneFields
<1> HIDE DEF m
<1> QED BY <1>1, <1>2, <1>3, GoneTyped, Becoming, PassiveRelay

LEMMA OpenSendTimesOutWindows == ASSUME Typed, Windows, NEW c \in Conns, OpenSendTimesOut(c) PROVE Windows'
BY GoneWindows DEF OpenSendTimesOut

LEMMA OpenTimesOutWindows == ASSUME Typed, Windows, NEW c \in Conns, OpenTimesOut(c) PROVE Windows'
BY GoneWindows DEF OpenTimesOut

LEMMA DropWindows == ASSUME Typed, Windows, NEW c \in Conns, Drop(c) PROVE Windows'
<1>1. UNCHANGED downlink \/ SendNonblocking(c, Ctrl("close", c)) BY DEF Drop, downlink
<1> QED BY <1>1, GoneWindows DEF Drop

LEMMA FailedLess == ASSUME Typed, NEW c \in Conns PROVE TunnelLess(tunnel[c], Failed(c)) /\ Failed(c).listed = FALSE
<1>1. /\ Failed(c).pc = tunnel[c].pc /\ Failed(c).answer = tunnel[c].answer /\ Failed(c).unacked = tunnel[c].unacked
      /\ Failed(c).listed = FALSE /\ Failed(c).out = <<>> /\ Failed(c).in = <<>> /\ Failed(c).pending = 0
  BY FailedFields
<1> QED BY <1>1 DEF TunnelLess

LEMMA UserReadsErrorWindows == ASSUME Typed, Windows, NEW c \in Conns, UserReadsError(c) PROVE Windows'
<1> DEFINE s == tunnel[c]
           t == [s EXCEPT !.finished = TRUE]
<1>1. s.over = "failed" /\ SetTunnel(c, t) /\ UNCHANGED downlink /\ UNCHANGED relayElse BY DEF UserReadsError
<1>2. s \in Tunnels BY DEF Typed, RelayTyped
<1>3. t \in Tunnels BY <1>2, TunnelField
<1>4. /\ t.in = s.in /\ t.out = s.out /\ t.unacked = s.unacked /\ t.pending = s.pending /\ t.answer = s.answer /\ t.pc = s.pc
      /\ t.over = s.over
  BY <1>2 DEF Tunnels
<1> HIDE DEF t
<1>5. TunnelLess(s, t) BY <1>4 DEF TunnelLess
<1>6. t.over # None BY <1>1, <1>4, NoneAssumption
<1> QED BY <1>1, <1>3, <1>5, <1>6, Opens, Becoming, PassiveRelay

LEMMA SweepRemovesWindows == ASSUME Typed, Windows, NEW c \in Conns, SweepRemoves(c) PROVE Windows'
<1> DEFINE s == tunnel[c]
           t == IF s.listed THEN Failed(c) ELSE s
<1>1. Becomes(c, t) /\ UNCHANGED downlink /\ Apart
  <2>1. Becomes(c, t) /\ UNCHANGED downlink BY DEF SweepRemoves, Becomes
  <2>2. Apart BY DEF SweepRemoves, Apart, Typed, AgentTyped
  <2> QED BY <2>1, <2>2
<1>2. s \in Tunnels BY DEF Typed, RelayTyped
<1>3. Failed(c) \in Tunnels /\ TunnelLess(s, Failed(c)) /\ Failed(c).listed = FALSE BY FailedTyped, FailedLess
<1>4. t \in Tunnels /\ TunnelLess(s, t) BY <1>2, <1>3, Still
<1>5. ~t.listed
  <2>1. CASE s.listed BY <1>3, <2>1
  <2>2. CASE ~s.listed BY <2>2
  <2> QED BY <2>1, <2>2
<1> HIDE DEF t
<1> QED BY <1>1, <1>4, <1>5, Opens, PassiveRelay

LEMMA ViewOf ==
    ASSUME Typed, Windows, NEW c \in Conns
    PROVE  /\ ViewTyped(tunnel[c], conn[c], Part(bulk, c), Part(late, c), Part(lost, c), Rising(c))
           /\ Fresher(c, tunnel[c], conn[c], Part(bulk, c), Part(late, c), Part(lost, c), Rising(c))
           /\ Of(tunnel[c].in, c) /\ Of(conn[c].in, c) /\ Of(tunnel[c].out, c)
           /\ Connected(tunnel[c], conn[c], Reaches(c)) =>
                 Even(c, tunnel[c], conn[c], Part(bulk, c), Part(late, c), Part(lost, c), Rising(c))
<1>1. tunnel[c] \in Tunnels /\ conn[c] \in Ends BY DEF Typed, RelayTyped, AgentTyped
<1>2. Part(bulk, c) \in Seq(Msgs) /\ Part(late, c) \in Seq(Msgs) /\ Part(lost, c) \in Seq(Msgs) BY QueuesAre, PartTyped
<1>3. Rising(c) \in Seq(Msgs) BY RisingTyped
<1>4. BalancedAt(c) BY DEF Windows
<1>5. /\ Fresher(c, tunnel[c], conn[c], Part(bulk, c), Part(late, c), Part(lost, c), Rising(c))
      /\ Connected(tunnel[c], conn[c], Reaches(c)) =>
            Even(c, tunnel[c], conn[c], Part(bulk, c), Part(late, c), Part(lost, c), Rising(c))
  BY <1>4 DEF BalancedAt, Balanced
<1>6. Of(tunnel[c].in, c) /\ Of(conn[c].in, c) /\ Of(tunnel[c].out, c) BY <1>5 DEF Fresher
<1> QED BY <1>1, <1>2, <1>3, <1>5, <1>6 DEF ViewTyped

\* What holds of the windows holds after the step.
Carries(c, t) ==
    Even(c, tunnel[c], conn[c], Part(bulk, c), Part(late, c), Part(lost, c), Rising(c)) /\ Reaches(c)
        => Even(c, t, conn[c], Part(bulk', c), Part(late', c), Part(lost', c), Rising(c))

\* A step of an open tunnel
LEMMA ActiveRelay ==
    ASSUME Typed, Windows, NEW c \in Conns, NEW t \in Tunnels, Becomes(c, t), UNCHANGED relayElse,
           \A d \in Conns \ {c} : SameDown(d),
           t.session = tunnel[c].session, t.listed = tunnel[c].listed, t.over = tunnel[c].over, t.pc = "open",
           tunnel[c].pc = "open" \/ tunnel[c].answer = "opened", Of(t.in, c), Of(t.out, c), Carries(c, t)
    PROVE  Windows'
<1> DEFINE s == tunnel[c]
           k == conn[c]
           b == Part(bulk, c)
           l == Part(late, c)
           x == Part(lost, c)
           u == Rising(c)
           e == Part(bulk', c)
           m == Part(late', c)
           y == Part(lost', c)
<1>1. tunnel'[c] = t /\ conn'[c] = k /\ Rising(c)' = u /\ (Reaches(c)' => Reaches(c)) BY RelayStill
<1>2. Fresher(c, s, k, b, l, x, u) /\ Of(k.in, c) /\ (Connected(s, k, Reaches(c)) => Even(c, s, k, b, l, x, u)) BY ViewOf
<1>3. Even(c, s, k, b, l, x, u) /\ Reaches(c) => Even(c, t, k, e, m, y, u) BY DEF Carries
<1>4. (Connected(t, k, Reaches(c)') => Connected(s, k, Reaches(c)) /\ Reaches(c)) BY <1>1 DEF Connected
<1>5. s.pc = "open" \/ s.answer = "opened" OBVIOUS
<1> HIDE DEF s, k, b, l, x, u, e, m, y
<1>6. ~Young(k) BY <1>2, <1>5 DEF Fresher, Begun
<1>7. Fresher(c, t, k, e, m, y, u) BY <1>2, <1>6, FresherLate
<1>8. Connected(t, k, Reaches(c)') => Even(c, t, k, e, m, y, u) BY <1>2, <1>3, <1>4
<1>9. Balanced(c, t, k, Reaches(c)', e, m, y, u) BY <1>7, <1>8 DEF Balanced
<1>10. BalancedAt(c)' BY <1>1, <1>9, Seen DEF e, m, y
<1> QED BY <1>10, RelayWindows

LEMMA OpenSucceedsWindows == ASSUME Typed, Windows, NEW c \in Conns, OpenSucceeds(c) PROVE Windows'
<1> DEFINE s == tunnel[c]
           t == [s EXCEPT !.pc = "open"]
<1>1. s.answer = "opened" /\ SetTunnel(c, t) /\ UNCHANGED <<downlink, relayElse>> BY DEF OpenSucceeds
<1>2. s \in Tunnels BY DEF Typed, RelayTyped
<1>3. t \in Tunnels BY <1>2, TunnelField
<1>4. /\ t.in = s.in /\ t.pending = s.pending /\ t.out = s.out /\ t.unacked = s.unacked /\ t.writeClosed = s.writeClosed
      /\ t.session = s.session /\ t.listed = s.listed /\ t.over = s.over /\ t.pc = "open"
  BY <1>2 DEF Tunnels
<1>5. \A d \in Conns : SameDown(d) BY <1>1, NothingPut
<1>6. Becomes(c, t) BY <1>1, Becoming
<1> HIDE DEF t
<1>7. Carries(c, t)
  <2>1. SameEnds(s, t) /\ SameOut(s, t) BY <1>4 DEF SameEnds, SameOut
  <2>2. SameTarget(conn[c], conn[c]) BY DEF SameTarget
  <2> QED BY <1>5, <2>1, <2>2, EvenStays DEF Carries, SameDown
<1>8. Of(s.in, c) /\ Of(s.out, c) BY ViewOf
<1> QED BY <1>1, <1>3, <1>4, <1>5, <1>6, <1>7, <1>8, ActiveRelay

\* One message more in the queue of the writer
LEMMA WritesWindows ==
    ASSUME Typed, Windows, NEW c \in Conns, NEW t \in Tunnels, SetTunnel(c, t), UNCHANGED <<downlink, relayElse>>,
           NEW s, s = tunnel[c], s.pc = "open", ~s.writeClosed, NEW m \in WriteMsgs, m.conn = c,
           t.in = s.in, t.pending = s.pending, t.out = Append(s.out, m), t.unacked = s.unacked + Amount(m, "data", c),
           m.type = "eof" => t.writeClosed,
           t.session = s.session, t.listed = s.listed, t.over = s.over, t.pc = s.pc
    PROVE  Windows'
<1>1. \A d \in Conns : SameDown(d) BY NothingPut
<1>2. Becomes(c, t) BY Becoming
<1>3. SameEnds(s, t) BY DEF SameEnds
<1>4. ViewTyped(s, conn[c], Part(bulk, c), Part(late, c), Part(lost, c), Rising(c)) BY ViewOf
<1>5. Carries(c, t) BY <1>1, <1>3, <1>4, WrittenEven DEF Carries, SameDown
<1>6. Of(s.in, c) /\ Of(s.out, c) BY ViewOf
<1>7. Of(t.out, c)
  <2>1. s \in Tunnels BY <1>4 DEF ViewTyped
  <2>2. s.out \in Seq(WriteMsgs) BY <2>1, TunnelField
  <2>3. ToSet(t.out) = ToSet(s.out) \cup {m} BY <2>2, AppendAdds
  <2> QED BY <1>6, <2>3 DEF Of
<1> QED BY <1>1, <1>2, <1>5, <1>6, <1>7, ActiveRelay

LEMMA UserWritesWindows == ASSUME Typed, Windows, NEW c \in Conns, UserWrites(c) PROVE Windows'
<1>4. PICK size \in Chunks :
          LET n == Fits(size, tunnel[c].unacked)
          IN SetTunnel(c, [tunnel[c] EXCEPT
                  !.out = Append(@, Msg("data", c, tunnel[c].writeSeq, n)),
                  !.writeSeq = @ + 1, !.unacked = @ + n])
  BY Zenon DEF UserWrites
<1> DEFINE s == tunnel[c]
<1>1. s.pc = "open" /\ ~s.writeClosed /\ s.unacked < Window /\ UNCHANGED <<downlink, relayElse>> BY DEF UserWrites
<1>2. s \in Tunnels BY DEF Typed, RelayTyped
<1>3. s.writeSeq \in Nat /\ s.unacked \in Nat /\ s.out \in Seq(WriteMsgs) BY <1>2, TunnelField
<1> DEFINE n == Fits(size, s.unacked)
           m == Msg("data", c, s.writeSeq, n)
           a == Append(s.out, m)
           t1 == [s EXCEPT !.out = a]
           t2 == [t1 EXCEPT !.writeSeq = s.writeSeq + 1]
           t == [t2 EXCEPT !.unacked = s.unacked + n]
<1>5. n \in Nat BY <1>1, <1>3, FitsTyped
<1>6. m \in WriteMsgs /\ m.conn = c /\ m.type = "data" /\ m.bytes = n BY <1>3, <1>5 DEF Msg, WriteMsgs, Message
<1>7. SetTunnel(c, t)
  <2>1. SetTunnel(c, [s EXCEPT !.out = Append(@, m), !.writeSeq = @ + 1, !.unacked = @ + n]) BY <1>4
  <2>2. [s EXCEPT !.out = Append(@, m), !.writeSeq = @ + 1, !.unacked = @ + n] = t
    <3> HIDE DEF n, m, s
    <3> QED BY <1>2 DEF Tunnels
  <2> QED BY <2>1, <2>2
<1>8. Amount(m, "data", c) = n BY <1>6 DEF Amount
<1> HIDE DEF n, m
<1>9. t \in Tunnels
  <2>1. a \in Seq(WriteMsgs) BY <1>3, <1>6
  <2>2. s.writeSeq + 1 \in Nat /\ s.unacked + n \in Nat BY <1>3, <1>5
  <2> HIDE DEF a
  <2>3. t1 \in Tunnels BY <1>2, <2>1, TunnelField
  <2> HIDE DEF t1
  <2>4. t2 \in Tunnels BY <2>2, <2>3, TunnelField
  <2> HIDE DEF t2
  <2> QED BY <2>2, <2>4, TunnelField
<1>10. /\ t.in = s.in /\ t.pending = s.pending /\ t.out = a /\ t.unacked = s.unacked + n
       /\ t.session = s.session /\ t.listed = s.listed /\ t.over = s.over /\ t.pc = s.pc
  <2> HIDE DEF a, s
  <2> QED BY <1>2 DEF Tunnels
<1> HIDE DEF t
<1> QED BY <1>1, <1>6, <1>7, <1>8, <1>9, <1>10, WritesWindows

LEMMA UserShutsDownWindows == ASSUME Typed, Windows, NEW c \in Conns, UserShutsDown(c) PROVE Windows'
<1> DEFINE s == tunnel[c]
           m == Ctrl("eof", c)
           a == Append(s.out, m)
           t1 == [s EXCEPT !.writeClosed = TRUE]
           t == [t1 EXCEPT !.out = a]
<1>1. s.pc = "open" /\ ~s.writeClosed /\ UNCHANGED <<downlink, relayElse>> BY DEF UserShutsDown
<1>2. s \in Tunnels BY DEF Typed, RelayTyped
<1>3. m \in WriteMsgs /\ m.conn = c /\ m.type = "eof" BY CtrlTyped DEF Ctrl, Msg
<1>4. SetTunnel(c, t) BY DEF UserShutsDown
<1>5. Amount(m, "data", c) = 0 BY <1>3 DEF Amount
<1> HIDE DEF m
<1>6. t \in Tunnels
  <2>1. s.out \in Seq(WriteMsgs) BY <1>2, TunnelField
  <2>2. a \in Seq(WriteMsgs) BY <1>3, <2>1
  <2>3. t1 \in Tunnels BY <1>2, TunnelField
  <2> HIDE DEF t1, a
  <2> QED BY <2>2, <2>3, TunnelField
<1>7. /\ t.in = s.in /\ t.pending = s.pending /\ t.out = a /\ t.unacked = s.unacked /\ t.writeClosed
      /\ t.session = s.session /\ t.listed = s.listed /\ t.over = s.over /\ t.pc = s.pc
  <2> HIDE DEF a
  <2> QED BY <1>2 DEF Tunnels
<1>8. t.unacked = s.unacked + Amount(m, "data", c)
  <2>1. s.unacked \in Nat BY <1>2, TunnelField
  <2> QED BY <1>5, <1>7, <2>1
<1> HIDE DEF t
<1> QED BY <1>1, <1>3, <1>4, <1>6, <1>7, <1>8, WritesWindows

LEMMA WriterSendsWindows == ASSUME Typed, Life, Windows, NEW c \in Conns, WriterSends(c) PROVE Windows'
<1> DEFINE s == tunnel[c]
           k == conn[c]
           m == Head(s.out)
           t == [s EXCEPT !.out = Tail(s.out)]
           b == Part(bulk, c)
           l == Part(late, c)
           x == Part(lost, c)
           u == Rising(c)
<1>1. s.out # <<>> /\ Deliver(c, m) /\ late' = late /\ UNCHANGED relayElse BY DEF WriterSends
<1>2. s \in Tunnels BY DEF Typed, RelayTyped
<1>3. s.out \in Seq(WriteMsgs) BY <1>2, TunnelField
<1>4. m \in WriteMsgs /\ Tail(s.out) \in Seq(WriteMsgs) /\ ToSet(s.out) = {m} \cup ToSet(Tail(s.out)) BY <1>1, <1>3, TailLacks
<1>5. t \in Tunnels BY <1>2, <1>4, TunnelField
<1>6. SetTunnel(c, t)
  <2>1. t = [s EXCEPT !.out = Tail(@)] BY <1>2 DEF Tunnels
  <2> HIDE DEF t
  <2> QED BY <2>1 DEF WriterSends
<1>7. /\ t.in = s.in /\ t.pending = s.pending /\ t.out = Tail(s.out) /\ t.unacked = s.unacked /\ t.writeClosed = s.writeClosed
      /\ t.session = s.session /\ t.listed = s.listed /\ t.over = s.over /\ t.pc = s.pc
  BY <1>2 DEF Tunnels
<1>8. s.out = <<m>> \o t.out BY <1>1, <1>3, <1>7, HeadAndTail
<1>9. Of(s.in, c) /\ Of(s.out, c) /\ ViewTyped(s, k, b, l, x, u) /\ Fresher(c, s, k, b, l, x, u) BY ViewOf
<1>10. m.conn = c /\ Of(t.out, c) BY <1>4, <1>7, <1>9 DEF Of
<1>11. m \in Msgs BY <1>4, Kinds DEF Msgs
<1>12. Puts(c, m) BY <1>1, DeliverPuts
<1>13. s.pc = "open" BY <1>1, <1>9 DEF Fresher
<1>14. lost' = lost BY <1>1 DEF relayElse, history
<1>15. Becomes(c, t) BY <1>6, Becoming
<1> HIDE DEF t, m
<1>16. (\A d \in Conns \ {c} : SameDown(d)) /\ (Reaches(c) => Part(bulk', c) = Append(b, m) /\ Part(late', c) = l /\ Part(lost', c) = x)
  <2>1. Reaches(c) => bulk' = Append(bulk, m) /\ late' = late BY <1>1 DEF Deliver
  <2>2. bulk \in Seq(Msgs) BY QueuesAre
  <2>3. Part(Append(bulk, m), c) = Append(b, m) BY <1>10, <1>11, <2>2, PartAppend
  <2>4. \A d \in Conns \ {c} : SameDown(d) BY <1>10, <1>11, <1>12, <1>14, PutParts
  <2> QED BY <1>14, <2>1, <2>3, <2>4
<1>17. Carries(c, t)
  <2>1. SameEnds(s, t) BY <1>7 DEF SameEnds
  <2>2. Even(c, s, k, b, l, x, u) => Even(c, t, k, Append(b, m), l, x, u)
    <3> HIDE DEF s, k, b, l, x, u
    <3> QED BY <1>4, <1>5, <1>7, <1>8, <1>9, <2>1, SentEven
  <2> QED BY <1>16, <2>2 DEF Carries
<1>18. Of(t.in, c) BY <1>7, <1>9
<1> QED BY <1>1, <1>5, <1>7, <1>10, <1>13, <1>15, <1>16, <1>17, <1>18, ActiveRelay

LEMMA UserReadsWindows == ASSUME Typed, Windows, NEW c \in Conns, UserReads(c) PROVE Windows'
<1>1. PICK s, m : s = tunnel[c] /\ m = Head(s.in) OBVIOUS
<1>2. /\ s \in Tunnels /\ s.in \in Seq(ReadMsgs) /\ s.in # <<>> /\ m \in ReadMsgs /\ s.pc = "open" /\ s.pending = 0
      /\ UNCHANGED <<downlink, relayElse>> /\ ReadTurns(c, s, m)
  BY <1>1, ReadBecomes
<1>3. PICK t \in Tunnels :
        /\ SetTunnel(c, t)
        /\ \/ /\ m.type = "data"
              /\ t = [[s EXCEPT !.in = Tail(s.in)] EXCEPT !.pending = m.bytes]
           \/ /\ m.type = "eof"
              /\ t = [[s EXCEPT !.in = Tail(s.in)] EXCEPT !.readEof = TRUE]
           \/ /\ m.type = "closed"
              /\ t = [[[s EXCEPT !.in = Tail(s.in)] EXCEPT !.readEof = TRUE] EXCEPT !.finished = TRUE]
  BY <1>2, Zenon DEF ReadTurns
<1>4. /\ t.in = Tail(s.in) /\ t.out = s.out /\ t.unacked = s.unacked /\ t.writeClosed = s.writeClosed
      /\ t.session = s.session /\ t.listed = s.listed /\ t.over = s.over /\ t.pc = s.pc
      /\ t.pending = IF m.type = "data" THEN m.bytes ELSE s.pending
  <2>1. CASE t = [[s EXCEPT !.in = Tail(s.in)] EXCEPT !.pending = m.bytes] /\ m.type = "data" BY <1>2, <2>1 DEF Tunnels
  <2>2. CASE t = [[s EXCEPT !.in = Tail(s.in)] EXCEPT !.readEof = TRUE] /\ m.type = "eof" BY <1>2, <2>2 DEF Tunnels
  <2>3. CASE t = [[[s EXCEPT !.in = Tail(s.in)] EXCEPT !.readEof = TRUE] EXCEPT !.finished = TRUE] /\ m.type = "closed"
    BY <1>2, <2>3 DEF Tunnels
  <2> QED BY <1>3, <2>1, <2>2, <2>3
<1>5. ToSet(s.in) = {m} \cup ToSet(Tail(s.in)) BY <1>1, <1>2, TailLacks
<1>6. s.in = <<m>> \o t.in BY <1>1, <1>2, <1>4, HeadAndTail
<1>7. /\ Of(s.in, c) /\ Of(s.out, c)
      /\ ViewTyped(s, conn[c], Part(bulk, c), Part(late, c), Part(lost, c), Rising(c))
  BY <1>1, ViewOf
<1>8. m.conn = c /\ Of(t.in, c) BY <1>4, <1>5, <1>7 DEF Of
<1>9. m \in Msgs BY <1>2, Kinds DEF Msgs
<1>10. t.pending = Amount(m, "data", c) BY <1>2, <1>4, <1>8 DEF Amount
<1>11. \A d \in Conns : SameDown(d) BY <1>2, NothingPut
<1>12. SameOut(s, t) BY <1>4 DEF SameOut
<1>13. Carries(c, t)
  <2> DEFINE k == conn[c]
             b == Part(bulk, c)
             l == Part(late, c)
             x == Part(lost, c)
             u == Rising(c)
  <2>1. Even(c, s, k, b, l, x, u) => Even(c, t, k, b, l, x, u)
    <3> HIDE DEF k, b, l, x, u
    <3> QED BY <1>2, <1>6, <1>7, <1>9, <1>10, <1>12, ReadsEven DEF k, b, l, x, u
  <2> QED BY <1>1, <1>11, <2>1 DEF Carries, SameDown
<1>14. Becomes(c, t) BY <1>3, Becoming
<1>15. Of(t.out, c) BY <1>4, <1>7
<1> QED BY <1>1, <1>2, <1>4, <1>8, <1>11, <1>13, <1>14, <1>15, ActiveRelay

LEMMA UserConsumesWindows == ASSUME Typed, Windows, NEW c \in Conns, UserConsumes(c) PROVE Windows'
<1> DEFINE s == tunnel[c]
           k == conn[c]
           n == s.pending
           m == Msg("ack", c, 0, n)
           t == [s EXCEPT !.pending = 0]
           b == Part(bulk, c)
           l == Part(late, c)
           x == Part(lost, c)
           u == Rising(c)
<1>1. s.pc = "open" /\ SendNonblocking(c, m) /\ SetTunnel(c, t) /\ UNCHANGED relayElse BY DEF UserConsumes
<1>2. s \in Tunnels BY DEF Typed, RelayTyped
<1>3. n \in Nat BY <1>2, TunnelField
<1>4. t \in Tunnels BY <1>2, TunnelField
<1>5. /\ t.in = s.in /\ t.pending = 0 /\ t.out = s.out /\ t.unacked = s.unacked /\ t.writeClosed = s.writeClosed
      /\ t.session = s.session /\ t.listed = s.listed /\ t.over = s.over /\ t.pc = s.pc
  BY <1>2 DEF Tunnels
<1>6. m \in Msgs /\ m.conn = c /\ m.type = "ack" /\ m.bytes = n BY <1>3 DEF Msgs, DownMsgs, Msg, Message
<1>7. m \notin WriteMsgs BY <1>6 DEF WriteMsgs, Message
<1>8. Amount(m, "ack", c) = n BY <1>6 DEF Amount
<1>9. Puts(c, m) BY <1>1, SendPuts
<1>10. lost' = lost BY <1>1 DEF relayElse, history
<1>11. Becomes(c, t) BY <1>1, Becoming
<1>12. Of(s.in, c) /\ Of(s.out, c) /\ ViewTyped(s, k, b, l, x, u) BY ViewOf
<1>13. b \in Seq(Msgs) /\ l \in Seq(Msgs) /\ x \in Seq(Msgs) BY <1>12 DEF ViewTyped
<1>14. SameOut(s, t) BY <1>5 DEF SameOut
<1> HIDE DEF t, m, n
<1>15. \A d \in Conns \ {c} : SameDown(d) BY <1>6, <1>9, <1>10, PutParts
<1>16. Reaches(c) => \/ Part(bulk', c) = Append(b, m) /\ Part(late', c) = l /\ Part(lost', c) = x
                     \/ Part(bulk', c) = b /\ Part(late', c) = Append(l, m) /\ Part(lost', c) = x
  BY <1>6, <1>9, <1>10, PutParts
<1>17. Carries(c, t)
  <2> SUFFICES ASSUME Even(c, s, k, b, l, x, u), Reaches(c)
               PROVE  Even(c, t, k, Part(bulk', c), Part(late', c), Part(lost', c), u)
    BY DEF Carries
  <2>1. Even(c, s, k, b, l, x, u) OBVIOUS
  <2> DEFINE p == Bytes(b, "ack", c)
             q == Bytes(l, "ack", c)
             r == Bytes(x, "ack", c)
  <2>2. p \in Nat /\ q \in Nat /\ r \in Nat BY <1>13, BytesTyped
  <2>3. Append(b, m) \in Seq(Msgs) /\ Bytes(Append(b, m), "ack", c) = p + n BY <1>6, <1>8, <1>13, AddsOne
  <2>4. Append(l, m) \in Seq(Msgs) /\ Bytes(Append(l, m), "ack", c) = q + n BY <1>6, <1>8, <1>13, AddsOne
  <2>5. Kept(Append(b, m), WriteMsgs) = Kept(b, WriteMsgs) BY <1>6, <1>7, <1>13, KeptAppend
  <2>6. n = s.pending BY DEF n
  <2> HIDE DEF p, q, r
  <2>7. /\ n + p + q + r = 0 + (p + n) + q + r
        /\ n + p + q + r = 0 + p + (q + n) + r
    BY <1>3, <2>2
  <2> HIDE DEF s, k, b, l, x, u
  <2>8. CASE Part(bulk', c) = Append(b, m) /\ Part(late', c) = l /\ Part(lost', c) = x
    <3> DEFINE a == Append(b, m)
    <3>1. a \in Seq(Msgs) /\ Kept(a, WriteMsgs) = Kept(b, WriteMsgs) BY <2>3, <2>5
    <3>2. s.pending + Bytes(b, "ack", c) + Bytes(l, "ack", c) + Bytes(x, "ack", c)
          = t.pending + Bytes(a, "ack", c) + Bytes(l, "ack", c) + Bytes(x, "ack", c)
      BY <1>5, <2>3, <2>6, <2>7 DEF p, q, r
    <3> HIDE DEF a
    <3>3. Even(c, t, k, a, l, x, u) BY <1>4, <1>5, <1>12, <1>13, <1>14, <2>1, <3>1, <3>2, AcksEven
    <3> QED BY <2>8, <3>3 DEF a
  <2>9. CASE Part(bulk', c) = b /\ Part(late', c) = Append(l, m) /\ Part(lost', c) = x
    <3> DEFINE a == Append(l, m)
    <3>1. a \in Seq(Msgs) BY <2>4
    <3>2. s.pending + Bytes(b, "ack", c) + Bytes(l, "ack", c) + Bytes(x, "ack", c)
          = t.pending + Bytes(b, "ack", c) + Bytes(a, "ack", c) + Bytes(x, "ack", c)
      BY <1>5, <2>4, <2>6, <2>7 DEF p, q, r
    <3> HIDE DEF a
    <3>3. Even(c, t, k, b, a, x, u) BY <1>4, <1>5, <1>12, <1>13, <1>14, <2>1, <3>1, <3>2, AcksEven
    <3> QED BY <2>9, <3>3 DEF a
  <2>10. Reaches(c) OBVIOUS
  <2> QED BY <1>16, <2>8, <2>9, <2>10
<1>18. Of(t.in, c) /\ Of(t.out, c) BY <1>5, <1>12
<1> QED BY <1>1, <1>4, <1>5, <1>11, <1>15, <1>17, <1>18, ActiveRelay

\* A step that is none of the tunnels'
LEMMA StillWindows ==
    ASSUME Typed, Windows, UNCHANGED <<tunnel, conn, bulk, late, lost, closed, uplink, post, agent>> PROVE Windows'
<1>1. ASSUME NEW d \in Conns PROVE BalancedAt(d)'
  <2>1. BalancedAt(d) BY DEF Windows
  <2>2. SameDown(d) BY DEF SameDown
  <2>3. Rising(d)' = Rising(d)
    <3>1. Ctrl("error", d) \in UpMsgs BY CtrlTyped
    <3> QED BY <3>1, RisingStill
  <2>4. Reaches(d)' => Reaches(d) BY DEF Reaches
  <2> QED BY <2>1, <2>2, <2>3, <2>4, SameOn
<1> QED BY <1>1 DEF Windows

LEMMA RestWindows ==
    ASSUME Typed, Windows,
           \/ Uncount \/ SweepEnds \/ PostSucceeds \/ SessionRemoved \/ RemovalSweeps \/ UNCHANGED vars
           \/ \E s \in streams : StreamDropped(s)
    PROVE  Windows'
<1>1. UNCHANGED <<tunnel, conn, bulk, late, lost, closed, uplink, post, agent>>
  <2>1. CASE Uncount \/ SweepEnds BY <2>1 DEF Uncount, SweepEnds, downlink, agentVars, batch, history
  <2>2. CASE PostSucceeds BY <2>2 DEF PostSucceeds, relayVars, downlink, agentVars, history
  <2>3. CASE SessionRemoved \/ RemovalSweeps BY <2>3 DEF SessionRemoved, RemovalSweeps, downlink, agentVars, batch, history
  <2>4. CASE UNCHANGED vars BY <2>4 DEF vars, relayVars, downlink, agentVars, batch, history
  <2>5. CASE \E s \in streams : StreamDropped(s)
    <3>1. PICK s \in streams : StreamDropped(s) BY <2>5
    <3> QED BY <3>1 DEF StreamDropped, downlink, agentVars, batch, history
  <2> QED BY <2>1, <2>2, <2>3, <2>4, <2>5
<1> QED BY <1>1, StillWindows

\* What is rising after a step
LEMMA RisingNext ==
    ASSUME Typed', NEW d \in Conns
    PROVE  /\ Rising(d)' \in Seq(Msgs)
           /\ ToSet(Rising(d)') = {m \in ToSet(post') \cup (IF d \in closed' THEN {} ELSE ToSet(uplink')) : m.conn = d}
<1> DEFINE p == Part(post', d)
           u == Part(uplink', d)
<1>1. post' \in Seq(Msgs) /\ uplink' \in Seq(Msgs)
  <2>1. post' \in Seq(UpMsgs) /\ uplink' \in Seq(UpMsgs) BY DEF Typed, QueuesTyped, AgentTyped, UpMsgs, Message
  <2> QED BY <2>1, AllMsgs
<1>2. p \in Seq(Msgs) /\ u \in Seq(Msgs) /\ ToSet(p) = ToSet(post') \cap Mine(d) /\ ToSet(u) = ToSet(uplink') \cap Mine(d)
  BY <1>1, PartTyped
<1>3. Rising(d)' = IF d \in closed' THEN p ELSE p \o u
  BY DEF Rising, Part, Mine, Msgs, DownMsgs, UpMsgs, Message
<1>4. ToSet(post') \subseteq Msgs /\ ToSet(uplink') \subseteq Msgs BY <1>1, AmongTyped
<1> HIDE DEF p, u
<1>5. p \o u \in Seq(Msgs) /\ ToSet(p \o u) = ToSet(p) \cup ToSet(u) BY <1>2, ConcatProperties, ConcatHasBoth
<1> QED BY <1>2, <1>3, <1>4, <1>5 DEF Mine

\* Messages are lost, and no connection is left that the relay reaches.
LEMMA LostWindows ==
    ASSUME Typed, Typed', Windows, UNCHANGED <<tunnel, lost>>, bulk' \in {bulk, <<>>}, late' \in {late, <<>>},
           uplink' \in {uplink, <<>>}, post' \in {post, <<>>}, closed \subseteq closed' \/ uplink' = <<>>,
           \A d \in Conns : EndLess(d, conn[d], conn'[d]) /\ ~(conn'[d].pc \in Living /\ Reaches(d)')
    PROVE  Windows'
<1>1. ToSet(<<>>) = {} BY EmptyHasNone
<1>2. ASSUME NEW d \in Conns PROVE BalancedAt(d)'
  <2>1. BalancedAt(d) BY DEF Windows
  <2>2. TunnelLess(tunnel[d], tunnel'[d]) BY Still
  <2>3. Part(<<>>, d) = <<>> BY PartEmpty
  <2>4. /\ ToSet(Part(bulk', d)) \subseteq ToSet(Part(bulk, d))
        /\ ToSet(Part(late', d)) \subseteq ToSet(Part(late, d))
        /\ Part(lost', d) = Part(lost, d)
    <3>1. ToSet(Part(<<>>, d)) = {} BY <1>1, <2>3
    <3>2. bulk' = bulk => ToSet(Part(bulk', d)) = ToSet(Part(bulk, d)) OBVIOUS
    <3>3. late' = late => ToSet(Part(late', d)) = ToSet(Part(late, d)) OBVIOUS
    <3>4. bulk' = <<>> => ToSet(Part(bulk', d)) = {} BY <3>1
    <3>5. late' = <<>> => ToSet(Part(late', d)) = {} BY <3>1
    <3> QED BY <3>2, <3>3, <3>4, <3>5
  <2>5. More(Sent(Part(bulk', d), Part(late', d), Part(lost', d)), Sent(Part(bulk, d), Part(late, d), Part(lost, d)))
    BY <2>4 DEF More, Sent
  <2>6. ToSet(Rising(d)) = {m \in ToSet(post) \cup (IF d \in closed THEN {} ELSE ToSet(uplink)) : m.conn = d} BY RisingTyped
  <2>7. ToSet(Rising(d)') = {m \in ToSet(post') \cup (IF d \in closed' THEN {} ELSE ToSet(uplink')) : m.conn = d} BY RisingNext
  <2>8. MoreErrors(Rising(d)', Rising(d))
    <3>1. ToSet(post') \subseteq ToSet(post) /\ ToSet(uplink') \subseteq ToSet(uplink) BY <1>1
    <3>2. d \notin closed' => d \notin closed \/ ToSet(uplink') = {} BY <1>1
    <3>3. ToSet(Rising(d)') \subseteq ToSet(Rising(d)) BY <2>6, <2>7, <3>1, <3>2
    <3> QED BY <3>3 DEF MoreErrors
  <2>9. ~Connected(tunnel'[d], conn'[d], Reaches(d)') BY DEF Connected
  <2> QED BY <2>1, <2>2, <2>5, <2>8, <2>9, PassiveOn
<1> QED BY <1>2 DEF Windows

LEMMA DroppedLess == ASSUME NEW d, NEW how \in {"gone", "closed", "down"} PROVE \A k : EndLess(d, k, Dropped(d, how))
<1>1. Dropped(d, how).pc = how /\ Dropped(d, how).in = <<>> BY EndFields
<1>2. ~Young(Dropped(d, how)) BY <1>1 DEF Young
<1>3. Of(<<>>, d) BY EmptyHasNone DEF Of
<1> QED BY <1>1, <1>2, <1>3 DEF EndLess

LEMMA NoneLives == ASSUME NEW how \in {"gone", "down"}, Typed,
        conn' = [c \in Conns |-> IF c \in Records THEN Dropped(c, how) ELSE conn[c]]
    PROVE \A d \in Conns : EndLess(d, conn[d], conn'[d]) /\ conn'[d].pc \notin Living
<1> SUFFICES ASSUME NEW d \in Conns PROVE EndLess(d, conn[d], conn'[d]) /\ conn'[d].pc \notin Living OBVIOUS
<1>1. Records' = {} /\ conn'[d] = IF d \in Records THEN Dropped(d, how) ELSE conn[d] BY AllDropped
<1>2. conn'[d].pc \notin Living BY <1>1 DEF Records, Living
<1>3. EndLess(d, conn[d], conn'[d]) BY <1>1, DroppedLess, Still
<1> QED BY <1>2, <1>3

LEMMA PostFailsWindows == ASSUME Typed, Typed', Windows, PostFails PROVE Windows'
<1>1. /\ UNCHANGED <<tunnel, lost, bulk, late, uplink>> /\ post' = <<>> /\ closed' = closed \cup Records
      /\ conn' = [c \in Conns |-> IF c \in Records THEN Dropped(c, "gone") ELSE conn[c]]
  BY DEF PostFails, relayVars, downlink, Tombstones, Aborted
<1>2. \A d \in Conns : EndLess(d, conn[d], conn'[d]) /\ conn'[d].pc \notin Living BY <1>1, NoneLives
<1> QED BY <1>1, <1>2, LostWindows

LEMMA SessionEndsWindows == ASSUME Typed, Typed', Windows, SessionEnds PROVE Windows'
<1>1. /\ UNCHANGED <<tunnel, lost>> /\ bulk' = <<>> /\ late' = <<>> /\ uplink' = <<>> /\ post' = <<>>
      /\ conn' = [c \in Conns |-> IF c \in Records THEN Dropped(c, "down") ELSE conn[c]]
  BY DEF SessionEnds, relayVars, history
<1>2. \A d \in Conns : EndLess(d, conn[d], conn'[d]) /\ conn'[d].pc \notin Living BY <1>1, NoneLives
<1> QED BY <1>1, <1>2, LostWindows

LEMMA LoseDownlinkWindows == ASSUME Typed, Typed', Windows, LoseDownlink PROVE Windows'
<1>1. /\ UNCHANGED <<tunnel, lost, conn, closed, uplink, post>> /\ bulk' = <<>> /\ late' = <<>>
      /\ agent' = [agent EXCEPT !.linked = FALSE]
  BY DEF LoseDownlink, relayVars, agentVars, batch, history
<1>2. ~agent'.linked BY <1>1 DEF Typed, AgentTyped
<1>3. \A d \in Conns : EndLess(d, conn[d], conn'[d]) /\ ~Reaches(d)' BY <1>1, <1>2, Still DEF Reaches
<1> QED BY <1>1, <1>3, LostWindows

LEMMA SessionBeginsWindows == ASSUME Typed, Typed', Life, Windows, SessionBegins PROVE Windows'
<1>1. /\ UNCHANGED <<tunnel, lost, conn, closed, uplink, post, bulk, late>>
      /\ agent' = [agent EXCEPT !.session = @ + 1, !.up = TRUE, !.linked = TRUE]
  BY DEF SessionBegins, downlink, agentVars, batch, history
<1>2. agent.session \in Nat BY DEF Typed, AgentTyped
<1>3. ASSUME NEW d \in Conns PROVE EndLess(d, conn[d], conn'[d]) /\ ~Reaches(d)'
  <2>1. tunnel[d].session <= agent.session BY DEF Life, Sessions
  <2>2. tunnel[d].session \in Nat
    <3>1. tunnel[d] \in Tunnels BY DEF Typed, RelayTyped
    <3> QED BY <3>1, TunnelField
  <2>3. agent'.session = agent.session + 1 BY <1>1 DEF Typed, AgentTyped
  <2>4. agent'.session # tunnel'[d].session BY <1>1, <1>2, <2>1, <2>2, <2>3
  <2> QED BY <1>1, <2>4, Still DEF Reaches
<1> QED BY <1>1, <1>3, LostWindows

\* A late message goes into the channel, or is given up.
LEMMA LateMoves ==
    ASSUME Typed, LateSend \/ LateTimesOut
    PROVE  /\ UNCHANGED <<tunnel, conn, closed, uplink, post, agent>>
           /\ \E i \in 1 .. Len(late) :
                 /\ late' = RemoveAt(late, i) /\ late[i] \in LateMsgs
                 /\ \/ bulk' = Append(bulk, late[i]) /\ lost' = lost
                    \/ bulk' = bulk /\ lost' = Append(lost, late[i])
<1>1. late \in Seq(LateMsgs) BY DEF Typed, QueuesTyped
<1>2. CASE LateSend
  <2>1. PICK i \in 1 .. Len(late) :
            /\ bulk' = Append(bulk, late[i]) /\ late' = RemoveAt(late, i)
            /\ UNCHANGED <<relayVars, agentVars, batch, agent, history>>
    BY <1>2 DEF LateSend
  <2>2. late[i] \in LateMsgs BY <1>1
  <2> QED BY <2>1, <2>2 DEF relayVars, agentVars, batch, history
<1>3. CASE LateTimesOut
  <2>1. PICK i \in 1 .. Len(late) :
            /\ lost' = Append(lost, late[i]) /\ late' = RemoveAt(late, i)
            /\ UNCHANGED <<relayVars, bulk, agentVars, batch, agent, failures, blamed, scene>>
    BY <1>3 DEF LateTimesOut
  <2>2. late[i] \in LateMsgs BY <1>1
  <2> QED BY <2>1, <2>2 DEF relayVars, agentVars, batch
<1> QED BY <1>2, <1>3

LEMMA AgentStill ==
    ASSUME Typed, NEW d \in Conns, UNCHANGED <<tunnel, closed, uplink, post, agent>>
    PROVE  Rising(d)' = Rising(d) /\ (Reaches(d)' <=> Reaches(d))
<1>1. Ctrl("error", d) \in UpMsgs BY CtrlTyped
<1>2. Rising(d)' = Rising(d) BY <1>1, RisingStill
<1> QED BY <1>2 DEF Reaches

LEMMA LateWindows == ASSUME Typed, Windows, LateSend \/ LateTimesOut PROVE Windows'
<1>1. UNCHANGED <<tunnel, conn, closed, uplink, post, agent>> BY LateMoves
<1>2. PICK i \in 1 .. Len(late) :
        /\ late' = RemoveAt(late, i) /\ late[i] \in LateMsgs
        /\ \/ bulk' = Append(bulk, late[i]) /\ lost' = lost
           \/ bulk' = bulk /\ lost' = Append(lost, late[i])
  BY LateMoves
<1> DEFINE m == late[i]
<1>3. m \in Msgs BY <1>2, Kinds DEF Msgs
<1>4. bulk \in Seq(Msgs) /\ late \in Seq(Msgs) /\ lost \in Seq(Msgs) BY QueuesAre
<1>5. \A d \in Conns : Rising(d)' = Rising(d) /\ (Reaches(d)' <=> Reaches(d)) BY <1>1, AgentStill
<1>6. \A q \in Seq(Msgs), d \in Conns : Part(Append(q, m), d) = IF m.conn = d THEN Append(Part(q, d), m) ELSE Part(q, d)
  BY <1>3, PartAppend
<1>7. ASSUME NEW d \in Conns
      PROVE  /\ m.conn # d => Part(late', d) = Part(late, d)
             /\ Part(late', d) \in Seq(Msgs) /\ ToSet(Part(late', d)) \subseteq ToSet(Part(late, d))
             /\ m.conn = d => /\ m \in ToSet(Part(late, d))
                              /\ Bytes(Part(late, d), "ack", d) = Bytes(Part(late', d), "ack", d) + Amount(m, "ack", d)
  <2>1. i \in 1 .. Len(late) /\ late' = RemoveAt(late, i) BY <1>2
  <2>2. /\ late' \in Seq(Msgs)
        /\ m.conn # d => Part(late', d) = Part(late, d)
        /\ ToSet(Part(late', d)) \subseteq ToSet(Part(late, d))
        /\ m.conn = d =>
              /\ m \in ToSet(Part(late, d))
              /\ \A y : Bytes(Part(late, d), y, d) = Bytes(Part(late', d), y, d) + Amount(m, y, d)
    BY <1>4, <2>1, PartWithout, ZenonT(60)
  <2>3. Part(late', d) \in Seq(Msgs) BY <2>2, PartTyped
  <2> QED BY <2>2, <2>3
<1>8. m \notin WriteMsgs BY <1>2 DEF LateMsgs, WriteMsgs, Message
<1> HIDE DEF m
<1>9. ASSUME NEW d \in Conns PROVE BalancedAt(d)'
  <2>1. CASE m.conn # d
    <3>1. SameDown(d) BY <1>2, <1>4, <1>6, <1>7, <2>1 DEF SameDown, m
    <3>2. BalancedAt(d) BY DEF Windows
    <3> QED BY <1>1, <1>5, <3>1, <3>2, SameOn
  <2>2. CASE m.conn = d
    <3> DEFINE t == tunnel[d]
               k == conn[d]
               b == Part(bulk, d)
               l == Part(late, d)
               x == Part(lost, d)
               u == Rising(d)
               e == Part(bulk', d)
               f == Part(late', d)
               y == Part(lost', d)
               n == Amount(m, "ack", d)
    <3>1. /\ ViewTyped(t, k, b, l, x, u) /\ Fresher(d, t, k, b, l, x, u)
          /\ (Connected(t, k, Reaches(d)) => Even(d, t, k, b, l, x, u))
      BY ViewOf
    <3>2. b \in Seq(Msgs) /\ l \in Seq(Msgs) /\ x \in Seq(Msgs) /\ t \in Tunnels BY <3>1 DEF ViewTyped
    <3>3. \/ e = Append(b, m) /\ y = x
          \/ e = b /\ y = Append(x, m)
      BY <1>2, <1>4, <1>6, <2>2 DEF m
    <3>4. f \in Seq(Msgs) /\ ToSet(f) \subseteq ToSet(l) /\ m \in ToSet(l) /\ Bytes(l, "ack", d) = Bytes(f, "ack", d) + n
      BY <1>7, <2>2
    <3>5. /\ Append(b, m) \in Seq(Msgs) /\ ToSet(Append(b, m)) = ToSet(b) \cup {m}
          /\ Bytes(Append(b, m), "ack", d) = Bytes(b, "ack", d) + n
          /\ Append(x, m) \in Seq(Msgs) /\ ToSet(Append(x, m)) = ToSet(x) \cup {m}
          /\ Bytes(Append(x, m), "ack", d) = Bytes(x, "ack", d) + n
      BY <1>3, <3>2, AddsOne
    <3>6. Kept(Append(b, m), WriteMsgs) = Kept(b, WriteMsgs) BY <1>3, <1>8, <3>2, KeptAppend
    <3>7. /\ n \in Nat /\ Bytes(b, "ack", d) \in Nat /\ Bytes(f, "ack", d) \in Nat /\ Bytes(x, "ack", d) \in Nat
          /\ t.pending \in Nat
      <4>1. n \in Nat BY <1>3, AllMsgs DEF Amount
      <4>2. t.pending \in Nat BY <3>2, TunnelField
      <4>3. Bytes(b, "ack", d) \in Nat /\ Bytes(x, "ack", d) \in Nat BY <3>2, BytesTyped
      <4>4. Bytes(f, "ack", d) \in Nat BY <3>4, BytesTyped
      <4> QED BY <4>1, <4>2, <4>3, <4>4
    <3> HIDE DEF t, k, b, l, x, u, e, f, y, n
    <3>8. e \in Seq(Msgs) /\ y \in Seq(Msgs) /\ Kept(e, WriteMsgs) = Kept(b, WriteMsgs) BY <3>2, <3>3, <3>5, <3>6
    <3>9. More(Sent(e, f, y), Sent(b, l, x))
      <4>1. ToSet(e) \subseteq ToSet(b) \cup {m} /\ ToSet(y) \subseteq ToSet(x) \cup {m} BY <3>3, <3>5
      <4>2. ToSet(e) \cup ToSet(f) \cup ToSet(y) \subseteq ToSet(b) \cup ToSet(l) \cup ToSet(x) BY <3>4, <4>1
      <4> QED BY <4>2 DEF More, Sent
    <3>10. Fresher(d, t, k, e, f, y, u) BY <3>1, <3>9, Still, FresherOn
    <3>11. t.pending + Bytes(b, "ack", d) + Bytes(l, "ack", d) + Bytes(x, "ack", d)
           = t.pending + Bytes(e, "ack", d) + Bytes(f, "ack", d) + Bytes(y, "ack", d)
      <4> DEFINE p == Bytes(b, "ack", d)
                 q == Bytes(f, "ack", d)
                 r == Bytes(x, "ack", d)
                 h == t.pending
      <4>1. p \in Nat /\ q \in Nat /\ r \in Nat /\ h \in Nat /\ n \in Nat BY <3>7
      <4>2. \/ Bytes(e, "ack", d) = p + n /\ Bytes(y, "ack", d) = r
            \/ Bytes(e, "ack", d) = p /\ Bytes(y, "ack", d) = r + n
        BY <3>3, <3>5
      <4>3. Bytes(l, "ack", d) = q + n BY <3>4
      <4> HIDE DEF p, q, r, h
      <4>4. /\ h + p + (q + n) + r = h + (p + n) + q + r
            /\ h + p + (q + n) + r = h + p + q + (r + n)
        BY <4>1
      <4>5. CASE Bytes(e, "ack", d) = p + n /\ Bytes(y, "ack", d) = r BY <4>3, <4>4, <4>5, Zenon DEF h, p, q, r
      <4>6. CASE Bytes(e, "ack", d) = p /\ Bytes(y, "ack", d) = r + n BY <4>3, <4>4, <4>6, Zenon DEF h, p, q, r
      <4> QED BY <4>2, <4>5, <4>6
    <3>12. SameOut(t, t) BY DEF SameOut
    <3>13. ASSUME Connected(t, k, Reaches(d)) PROVE Even(d, t, k, e, f, y, u)
      <4>1. Even(d, t, k, b, l, x, u) BY <3>1, <3>13
      <4> QED BY <3>1, <3>2, <3>4, <3>8, <3>11, <3>12, <4>1, AcksEven
    <3>14. Balanced(d, t, k, Reaches(d)', e, f, y, u)
      <4>1. Connected(t, k, Reaches(d)') => Connected(t, k, Reaches(d)) BY <1>5 DEF Connected
      <4> QED BY <3>10, <3>13, <4>1 DEF Balanced
    <3>15. Balanced(d, tunnel'[d], conn'[d], Reaches(d)', Part(bulk', d), Part(late', d), Part(lost', d), Rising(d)')
      BY <1>1, <1>5, <3>14 DEF t, k, e, f, y, u
    <3> QED BY <3>15, Seen
  <2> QED BY <2>1, <2>2
<1> QED BY <1>9 DEF Windows

\* A batch is cut off, and what is closed left out of it.
LEMMA UplinkTakesWindows == ASSUME Typed, Order, Windows, UplinkTakes PROVE Windows'
<1>1. UNCHANGED <<tunnel, conn, bulk, late, lost, closed, agent>> /\ ~posting
  BY DEF UplinkTakes, relayVars, downlink, history
<1>2. post = <<>> BY <1>1 DEF Order
<1>3. ASSUME NEW d \in Conns PROVE BalancedAt(d)'
  <2>1. BalancedAt(d) BY DEF Windows
  <2>2. SameDown(d) BY <1>1 DEF SameDown
  <2>3. Rising(d)' = Rising(d) BY <1>2, RisingTaken
  <2>4. Reaches(d)' => Reaches(d) BY <1>1 DEF Reaches
  <2> QED BY <1>1, <2>1, <2>2, <2>3, <2>4, SameOn
<1> QED BY <1>3 DEF Windows

\* What routing a message that is not an error does to the windows of the tunnel
LEMMA BecameEven ==
    ASSUME NEW s \in Tunnels, NEW m \in UpMsgs, m.type # "error", NEW t \in Tunnels, Became(s, m, t), NEW c, m.conn = c
    PROVE  /\ t.unacked = Minus(s.unacked, Amount(m, "ack", c)) /\ t.pending = s.pending
           /\ Bytes(t.in, "data", c) = Bytes(s.in, "data", c) + Amount(m, "data", c)
           /\ Of(s.in, c) => Of(t.in, c)
           /\ t.over = None => s.over = None
<1>1. s.in \in Seq(ReadMsgs) /\ s.unacked \in Nat BY TunnelField
<1>2. s.in \in Seq(Msgs) BY <1>1, AllMsgs
<1>3. m \in Msgs /\ m.bytes \in Nat BY Kinds DEF Msgs
<1>4. Minus(s.unacked, 0) = s.unacked BY <1>1 DEF Minus
<1>5. /\ t.over = (CASE m.type = "closed" -> IF s.over = None THEN "closed" ELSE s.over
                     [] m.type = "error" -> "failed"
                     [] OTHER -> s.over)
      /\ t.in = (CASE m.type \in {"data", "eof", "closed"} -> Append(s.in, m)
                   [] m.type = "error" -> <<>>
                   [] OTHER -> s.in)
  BY BecameFields
<1>6. t.unacked = (IF m.type = "ack" THEN Minus(s.unacked, m.bytes) ELSE s.unacked) /\ t.pending = s.pending
  <2>1. CASE m.type = "opened" BY <2>1 DEF Became, Tunnels
  <2>2. CASE m.type = "data" BY <2>2 DEF Became, Tunnels
  <2>3. CASE m.type = "ack" BY <2>3 DEF Became, Tunnels
  <2>4. CASE m.type = "eof" BY <2>4 DEF Became, Tunnels
  <2>5. CASE m.type = "closed" BY <2>5 DEF Became, Tunnels
  <2> QED BY <2>1, <2>2, <2>3, <2>4, <2>5 DEF Became
<1>7. t.unacked = Minus(s.unacked, Amount(m, "ack", c)) BY <1>4, <1>6 DEF Amount
<1>8. Bytes(t.in, "data", c) = Bytes(s.in, "data", c) + Amount(m, "data", c) /\ (Of(s.in, c) => Of(t.in, c))
  <2>1. CASE m.type \in {"data", "eof", "closed"}
    <3>1. t.in = Append(s.in, m) BY <1>5, <2>1
    <3>2. ToSet(t.in) = ToSet(s.in) \cup {m} BY <1>2, <3>1, AppendAdds
    <3>3. Bytes(t.in, "data", c) = Bytes(s.in, "data", c) + Amount(m, "data", c) BY <1>2, <1>3, <3>1, BytesAppend
    <3> QED BY <3>2, <3>3 DEF Of
  <2>2. CASE m.type \notin {"data", "eof", "closed"}
    <3>1. t.in = s.in BY <1>5, <2>2
    <3>2. Amount(m, "data", c) = 0 BY <2>2 DEF Amount
    <3>3. Bytes(s.in, "data", c) \in Nat BY <1>2, BytesTyped
    <3> QED BY <3>1, <3>2, <3>3
  <2> QED BY <2>1, <2>2
<1>9. t.over = None => s.over = None
  <2>1. "closed" # None BY NoneAssumption
  <2>2. CASE m.type = "closed" BY <1>5, <2>1, <2>2
  <2>3. CASE m.type # "closed" BY <1>5, <2>3
  <2> QED BY <2>2, <2>3
<1> QED BY <1>6, <1>7, <1>8, <1>9

LEMMA ErrorLess ==
    ASSUME NEW s \in Tunnels, NEW m, m.type = "error", NEW t \in Tunnels, Became(s, m, t)
    PROVE  TunnelLess(s, t) /\ t.over # None
<1>1. t = [[[[s EXCEPT !.over = "failed"] EXCEPT !.in = <<>>] EXCEPT !.pending = 0]
              EXCEPT !.answer = IF s.answer = None THEN "error" ELSE s.answer]
  BY DEF Became
<1>2. /\ t.pc = s.pc /\ t.in = <<>> /\ t.out = s.out /\ t.unacked = s.unacked /\ t.pending = 0 /\ t.over = "failed"
      /\ t.answer = IF s.answer = None THEN "error" ELSE s.answer
  BY <1>1 DEF Tunnels
<1>3. t.answer = "opened" => s.answer = "opened" BY <1>2
<1>4. "failed" # None BY NoneAssumption
<1> QED BY <1>2, <1>3, <1>4 DEF TunnelLess

\* What a routed message leaves alone
LEMMA RouteStill ==
    ASSUME Typed, Route, NEW m, m = Head(post), NEW c, c = m.conn
    PROVE  /\ UNCHANGED <<conn, agent, lost>>
           /\ Rising(c) = <<m>> \o Rising(c)' /\ \A d \in Conns \ {c} : Rising(d)' = Rising(d)
           /\ \A d \in Conns : Rising(d)' \in Seq(Msgs)
           /\ \A d \in Conns : tunnel'[d].session = tunnel[d].session => (Reaches(d)' => Reaches(d))
<1>1. /\ post # <<>> /\ c \in Conns /\ post' = Tail(post)
      /\ UNCHANGED <<agentVars, posting, agent, lost, failures, scene>>
  BY RouteCases
<1>2. UNCHANGED <<conn, closed, uplink>> BY <1>1 DEF agentVars
<1>3. \A d \in Conns : /\ Head(post).conn = d => Rising(d) = <<Head(post)>> \o Rising(d)'
                       /\ Head(post).conn # d => Rising(d)' = Rising(d)
                       /\ Rising(d)' \in Seq(Msgs)
  BY <1>1, <1>2, RisingRouted
<1>4. \A d \in Conns : tunnel'[d].session = tunnel[d].session => (Reaches(d)' => Reaches(d)) BY <1>1 DEF Reaches
<1> QED BY <1>1, <1>2, <1>3, <1>4

LEMMA RouteWindows == ASSUME Typed, Windows, Route PROVE Windows'
<1>1. PICK m, c : m = Head(post) /\ c = m.conn OBVIOUS
<1>2. /\ m \in UpMsgs /\ c \in Conns /\ tunnel[c] \in Tunnels
      /\ \/ ~tunnel[c].listed /\ UNCHANGED <<relayVars, downlink, blamed>>
         \/ /\ tunnel[c].listed /\ ~(m.type = "data" /\ Violates(tunnel[c], m))
            /\ Routes(c, m)
            /\ UNCHANGED <<downlink, blamed>>
         \/ /\ tunnel[c].listed /\ m.type = "data" /\ Violates(tunnel[c], m)
            /\ TakeOut(c, Failed(c)) /\ SendNonblocking(c, Ctrl("close", c))
            /\ blamed' = blamed \cup Charges(tunnel[c], m)
  BY <1>1, RouteCases
<1> DEFINE s == tunnel[c]
           k == conn[c]
           b == Part(bulk, c)
           l == Part(late, c)
           x == Part(lost, c)
           u == Rising(c)
           w == Rising(c)'
<1>3. /\ conn' = conn /\ lost' = lost
      /\ u = <<m>> \o w /\ (\A d \in Conns \ {c} : Rising(d)' = Rising(d)) /\ w \in Seq(Msgs)
      /\ \A d \in Conns : tunnel'[d].session = tunnel[d].session => (Reaches(d)' => Reaches(d))
  BY <1>1, <1>2, RouteStill
<1>4. m \in Msgs BY <1>2 DEF Msgs
<1>5. \A d \in Conns : BalancedAt(d) BY DEF Windows
<1>6. ASSUME \A d \in Conns \ {c} : tunnel'[d] = tunnel[d] /\ SameDown(d), BalancedAt(c)' PROVE Windows'
  <2>1. ASSUME NEW d \in Conns \ {c} PROVE BalancedAt(d)'
    <3>1. Reaches(d)' => Reaches(d) BY <1>3, <1>6
    <3> QED BY <1>3, <1>5, <1>6, <3>1, SameOn
  <2> QED BY <1>6, <2>1 DEF Windows
<1>7. MoreErrors(w, u)
  <2>1. ToSet(u) = ToSet(w) \cup {m} BY <1>3, <1>4, LacksOne
  <2> QED BY <2>1 DEF MoreErrors
<1>8. ASSUME UNCHANGED downlink PROVE \A d \in Conns : SameDown(d) BY <1>3, <1>8 DEF SameDown, downlink
<1>9. CASE ~tunnel[c].listed /\ UNCHANGED <<relayVars, downlink, blamed>>
  <2>1. tunnel' = tunnel BY <1>9 DEF relayVars
  <2>2. \A d \in Conns : SameDown(d) BY <1>8, <1>9
  <2>3. ~Connected(tunnel'[c], conn'[c], Reaches(c)') BY <1>9, <2>1 DEF Connected
  <2>4. BalancedAt(c)' BY <1>2, <1>3, <1>5, <1>7, <2>1, <2>2, <2>3, Still, PassiveOn DEF SameDown
  <2> QED BY <1>6, <2>1, <2>2, <2>4
<1>10. CASE TakeOut(c, Failed(c)) /\ SendNonblocking(c, Ctrl("close", c))
  <2> DEFINE h == Ctrl("close", c)
  <2>1. Becomes(c, Failed(c)) BY <1>10, Becoming
  <2>2. Failed(c) \in Tunnels /\ TunnelLess(s, Failed(c)) /\ Failed(c).listed = FALSE BY <1>2, FailedTyped, FailedLess
  <2>3. tunnel'[c] = Failed(c) /\ \A d \in Conns \ {c} : tunnel'[d] = tunnel[d] BY <1>2, <2>1, <2>2, TunnelSet DEF Becomes
  <2>4. h \in Msgs /\ h.conn = c /\ h.type = "close" BY <1>2, Opens
  <2>5. Puts(c, h) BY <1>10, SendPuts
  <2> HIDE DEF h
  <2>6. \A d \in Conns \ {c} : SameDown(d) BY <1>2, <1>3, <2>4, <2>5, PutParts
  <2>7. More(Sent(Part(bulk', c), Part(late', c), Part(lost', c)), Sent(Part(bulk, c), Part(late, c), Part(lost, c)))
    BY <1>2, <1>3, <2>4, <2>5, PutMore
  <2>8. ~Connected(tunnel'[c], conn'[c], Reaches(c)') BY <2>2, <2>3 DEF Connected
  <2>9. BalancedAt(c)' BY <1>2, <1>3, <1>5, <1>7, <2>2, <2>3, <2>7, <2>8, Still, PassiveOn
  <2> QED BY <1>6, <2>3, <2>6, <2>9
<1>11. CASE Routes(c, m) /\ UNCHANGED <<downlink, blamed>>
  <2>1. PICK t \in Tunnels : SetTunnel(c, t) /\ Became(s, m, t) BY <1>11 DEF Routes
  <2>2. Becomes(c, t) BY <2>1, Becoming
  <2>3. tunnel'[c] = t /\ \A d \in Conns \ {c} : tunnel'[d] = tunnel[d] BY <1>2, <2>2, TunnelSet DEF Becomes
  <2>4. \A d \in Conns : SameDown(d) BY <1>8, <1>11
  <2>5. CASE m.type = "error"
    <3>1. TunnelLess(s, t) /\ t.over # None BY <1>2, <2>1, <2>5, ErrorLess
    <3>2. ~Connected(tunnel'[c], conn'[c], Reaches(c)') BY <2>3, <3>1 DEF Connected
    <3>3. BalancedAt(c)' BY <1>2, <1>3, <1>5, <1>7, <2>3, <2>4, <3>1, <3>2, Still, PassiveOn DEF SameDown
    <3> QED BY <1>6, <2>3, <2>4, <3>3
  <2>6. CASE m.type # "error"
    <3>1. /\ ViewTyped(s, k, b, l, x, u) /\ Fresher(c, s, k, b, l, x, u) /\ Of(s.in, c) /\ Of(k.in, c) /\ Of(s.out, c)
          /\ (Connected(s, k, Reaches(c)) => Even(c, s, k, b, l, x, u))
      BY <1>2, ViewOf
    <3>2. /\ t.unacked = Minus(s.unacked, Amount(m, "ack", c)) /\ t.pending = s.pending
          /\ Bytes(t.in, "data", c) = Bytes(s.in, "data", c) + Amount(m, "data", c)
          /\ Of(t.in, c) /\ (t.over = None => s.over = None)
      <4>1. /\ s \in Tunnels /\ m \in UpMsgs /\ m.type # "error" /\ t \in Tunnels
            /\ Became(s, m, t) /\ m.conn = c
        BY <1>1, <1>2, <2>1, <2>6
      <4>2. /\ t.unacked = Minus(s.unacked, Amount(m, "ack", c)) /\ t.pending = s.pending
            /\ Bytes(t.in, "data", c) = Bytes(s.in, "data", c) + Amount(m, "data", c)
            /\ Of(s.in, c) => Of(t.in, c)
            /\ t.over = None => s.over = None
        BY <4>1, BecameEven
      <4> QED BY <3>1, <4>2
    <3>3. t.pc = s.pc /\ t.session = s.session /\ t.listed = s.listed /\ t.writeClosed = s.writeClosed /\ t.out = s.out
      BY <1>2, <2>1, BecameFields
    <3>4. Reaches(c)' => Reaches(c) BY <1>2, <1>3, <2>3, <3>3
    <3>5. m \in ToSet(u) BY <1>3, <1>4, LacksOne
    <3>6. Amount(m, "ack", c) \in Nat BY <1>4, AllMsgs DEF Amount
    <3> HIDE DEF s, k, b, l, x, u, w
    <3>7. ~Young(k) BY <2>6, <3>1, <3>5 DEF Fresher
    <3>8. t.pc # "open" => t.out = <<>> /\ t.unacked = 0 /\ t.pending = 0
      <4>1. s.pc # "open" => s.out = <<>> /\ s.unacked = 0 /\ s.pending = 0 BY <3>1 DEF Fresher
      <4>2. Minus(0, Amount(m, "ack", c)) = 0 BY <3>6 DEF Minus
      <4> QED BY <3>2, <3>3, <4>1, <4>2
    <3>9. Fresher(c, t, k, b, l, x, w) BY <3>1, <3>2, <3>3, <3>7, <3>8, FresherLate
    <3>10. ASSUME Connected(t, k, Reaches(c)') PROVE Even(c, t, k, b, l, x, w)
      <4>1. Even(c, s, k, b, l, x, u) BY <3>1, <3>2, <3>3, <3>4, <3>10 DEF Connected
      <4>2. Even(c, s, k, b, l, x, <<m>> \o w) /\ ViewTyped(s, k, b, l, x, <<m>> \o w) BY <1>3, <3>1, <4>1
      <4> QED BY <1>3, <1>4, <2>1, <3>2, <3>3, <4>2, RoutedEven
    <3>11. Balanced(c, t, k, Reaches(c)', b, l, x, w) BY <3>9, <3>10 DEF Balanced
    <3>12. BalancedAt(c)'
      <4>1. Balanced(c, tunnel'[c], conn'[c], Reaches(c)', Part(bulk', c), Part(late', c), Part(lost', c), Rising(c)')
        BY <1>2, <1>3, <2>3, <2>4, <3>11 DEF SameDown, k, b, l, x, w
      <4> QED BY <1>2, <4>1, Seen
    <3> QED BY <1>6, <2>3, <2>4, <3>12
  <2> QED BY <2>5, <2>6
<1> QED BY <1>2, <1>9, <1>10, <1>11

\* A step of the tasks of a connection: it has been there, and the windows are even after it.
LEMMA AgentWindows ==
    ASSUME Typed, Windows, NEW c \in Records, NEW r \in Ends, NEW m \in UpMsgs, m.conn = c, Talks(c, r, m),
           ~Young(r), Of(r.in, c),
           r.pc \in Living =>
               /\ conn[c].pc \in Living
               /\ Even(c, tunnel[c], conn[c], Part(bulk, c), Part(late, c), Part(lost, c), Rising(c))
                      => Even(c, tunnel[c], r, Part(bulk, c), Part(late, c), Part(lost, c),
                              IF uplink' = uplink THEN Rising(c) ELSE Append(Rising(c), m))
    PROVE  Windows'
<1>1. c \in Conns BY DEF Records
<1>2. SetConn(c, r) /\ UNCHANGED <<tunnel, bulk, late, lost, closed, post, agent>> /\ uplink' \in {uplink, Append(uplink, m)}
  BY DEF Talks, relayVars, downlink, batch, history
<1>3. conn'[c] = r /\ \A d \in Conns \ {c} : conn'[d] = conn[d] BY <1>1, <1>2, ConnSet DEF SetConn
<1>4. c \notin closed BY DEF Typed, AgentTyped
<1>5. \A d \in Conns : SameDown(d) /\ (Reaches(d)' => Reaches(d)) BY <1>2 DEF SameDown, Reaches
<1>6. Rising(c)' = IF uplink' = uplink THEN Rising(c) ELSE Append(Rising(c), m)
  <2>1. CASE uplink' = uplink
    <3>1. Rising(c)' = Rising(c) BY <1>1, <1>2, <2>1, RisingStill
    <3> QED BY <2>1, <3>1
  <2>2. CASE uplink' # uplink
    <3>1. uplink' = Append(uplink, m) BY <1>2, <2>2
    <3>2. Rising(c)' = Append(Rising(c), m) BY <1>1, <1>2, <1>4, <3>1, RisingAdds
    <3> QED BY <2>2, <3>2
  <2> QED BY <2>1, <2>2
<1>7. ASSUME NEW d \in Conns \ {c} PROVE BalancedAt(d)'
  <2>1. m.conn # d OBVIOUS
  <2>2. Rising(d)' = Rising(d) BY <1>2, <2>1, RisingStill
  <2>3. BalancedAt(d) BY DEF Windows
  <2>4. tunnel'[d] = tunnel[d] BY <1>2
  <2> QED BY <1>3, <1>5, <2>2, <2>3, <2>4, SameOn
<1>8. BalancedAt(c)'
  <2> DEFINE t == tunnel[c]
             k == conn[c]
             b == Part(bulk, c)
             l == Part(late, c)
             x == Part(lost, c)
             u == Rising(c)
             w == IF uplink' = uplink THEN Rising(c) ELSE Append(Rising(c), m)
  <2>1. /\ Fresher(c, t, k, b, l, x, u) /\ Of(t.in, c) /\ Of(t.out, c)
        /\ (Connected(t, k, Reaches(c)) => Even(c, t, k, b, l, x, u))
    BY <1>1, ViewOf
  <2>2. r.pc \in Living => k.pc \in Living /\ (Even(c, t, k, b, l, x, u) => Even(c, t, r, b, l, x, w)) OBVIOUS
  <2>3. Reaches(c)' => Reaches(c) BY <1>1, <1>5
  <2> HIDE DEF t, k, b, l, x, u, w
  <2>4. Fresher(c, t, r, b, l, x, w)
    <3>1. t.pc # "open" => t.out = <<>> /\ t.unacked = 0 /\ t.pending = 0 BY <2>1 DEF Fresher
    <3> QED BY <2>1, <3>1, FresherLate
  <2>5. ASSUME Connected(t, r, Reaches(c)') PROVE Even(c, t, r, b, l, x, w) BY <2>1, <2>2, <2>3, <2>5 DEF Connected
  <2>6. Balanced(c, t, r, Reaches(c)', b, l, x, w) BY <2>4, <2>5 DEF Balanced
  <2>7. Balanced(c, tunnel'[c], conn'[c], Reaches(c)', Part(bulk', c), Part(late', c), Part(lost', c), Rising(c)')
    BY <1>1, <1>2, <1>3, <1>5, <1>6, <2>6 DEF SameDown, t, k, b, l, x, w
  <2> QED BY <1>1, <2>7, Seen
<1> QED BY <1>7, <1>8 DEF Windows

\* A message of a connection that is alive
LEMMA SpeaksWindows ==
    ASSUME Typed, Windows, NEW c \in Records, NEW r \in Ends, NEW m \in UpMsgs, m.conn = c, Talks(c, r, m),
           conn[c].pc \in Living, uplink' = Append(uplink, m), ~Young(r), r.in = conn[c].in, r.writeDone = conn[c].writeDone,
           r.unacked = conn[c].unacked + Amount(m, "data", c), conn[c].writing = r.writing + Amount(m, "ack", c)
    PROVE  Windows'
<1> DEFINE k == conn[c]
           t == tunnel[c]
           b == Part(bulk, c)
           l == Part(late, c)
           x == Part(lost, c)
           u == Rising(c)
<1>1. c \in Conns BY DEF Records
<1>2. ViewTyped(t, k, b, l, x, u) /\ Of(k.in, c) BY <1>1, ViewOf
<1>3. m \in Msgs BY DEF Msgs
<1>4. uplink' # uplink
  <2>1. uplink \in Seq(UpMsgs) BY DEF Typed, AgentTyped
  <2>2. Len(Append(uplink, m)) = Len(uplink) + 1 /\ Len(uplink) \in Nat BY <2>1
  <2>3. Len(Append(uplink, m)) # Len(uplink) BY <2>2
  <2> QED BY <2>3
<1>5. Even(c, t, k, b, l, x, u) => Even(c, t, r, b, l, x, Append(u, m))
  <2> HIDE DEF t, b, l, x, u
  <2> QED BY <1>2, <1>3, SpokenEven
<1> QED BY <1>2, <1>4, <1>5, AgentWindows

\* A connection that comes to its end
LEMMA EndsWindows ==
    ASSUME Typed, Windows, NEW c \in Records, NEW r \in Ends, NEW m \in UpMsgs, m.conn = c, Talks(c, r, m),
           r.pc \notin Living \cup {"none"}, ToSet(r.in) \subseteq ToSet(conn[c].in)
    PROVE  Windows'
<1>1. c \in Conns BY DEF Records
<1>2. Of(conn[c].in, c) BY <1>1, ViewOf
<1>3. Of(r.in, c) BY <1>2 DEF Of
<1>4. ~Young(r) /\ r.pc \notin Living BY DEF Young, Living
<1> QED BY <1>3, <1>4, AgentWindows

LEMMA SetPcWindows ==
    ASSUME Typed, Windows, NEW c \in Records, NEW r \in Ends, NEW m \in UpMsgs, m.conn = c, Talks(c, r, m), SetPc(c, m, r)
    PROVE  Windows'
<1>1. c \in Conns /\ conn[c] \in Ends BY DEF Records, Typed, AgentTyped
<1>2. CASE conn[c].pc = "connecting" /\ m = Ctrl("opened", c) /\ uplink' = Append(uplink, m)
           /\ r = [conn[c] EXCEPT !.pc = "running"]
  <2> DEFINE k == conn[c]
  <2>1. /\ r.pc = "running" /\ r.in = k.in /\ r.writeDone = k.writeDone /\ r.unacked = k.unacked /\ r.writing = k.writing
        /\ k.unacked \in Nat /\ k.writing \in Nat
    BY <1>1, <1>2 DEF Ends
  <2>2. m.type = "opened" BY <1>2 DEF Ctrl, Msg
  <2>3. Amount(m, "data", c) = 0 /\ Amount(m, "ack", c) = 0 BY <2>2 DEF Amount
  <2>4. k.pc \in Living /\ ~Young(r) BY <1>2, <2>1 DEF Living, Young
  <2>5. r.unacked = k.unacked + Amount(m, "data", c) /\ k.writing = r.writing + Amount(m, "ack", c) BY <2>1, <2>3
  <2> QED BY <1>2, <2>1, <2>4, <2>5, SpeaksWindows
<1>3. CASE r \in {[conn[c] EXCEPT !.pc = "failing"], [conn[c] EXCEPT !.pc = "closing"], [conn[c] EXCEPT !.pc = "reported"]}
  <2>1. r.pc \in {"failing", "closing", "reported"} /\ r.in = conn[c].in BY <1>1, <1>3 DEF Ends
  <2>2. r.pc \notin Living \cup {"none"} BY <2>1 DEF Living
  <2> QED BY <2>1, <2>2, EndsWindows
<1>4. CASE r = Dropped(c, "gone")
  <2>1. r.pc = "gone" /\ r.in = <<>> BY <1>4, EndFields
  <2>2. r.pc \notin Living \cup {"none"} /\ ToSet(r.in) = {} BY <2>1, EmptyHasNone DEF Living
  <2> QED BY <2>2, EndsWindows
<1> QED BY <1>2, <1>3, <1>4 DEF SetPc

LEMMA ReadsWindows ==
    ASSUME Typed, Windows, NEW c \in Records, NEW r \in Ends, NEW m \in UpMsgs, m.conn = c, Talks(c, r, m), Reads(c, m, r)
    PROVE  Windows'
<1> DEFINE k == conn[c]
<1>1. c \in Conns /\ k \in Ends BY DEF Records, Typed, AgentTyped
<1>2. k.pc = "running" /\ uplink' = Append(uplink, m) BY Zenon DEF Reads
<1>3. k.pc \in Living BY <1>2 DEF Living
<1>4. CASE \E n \in Nat \ {0} :
             /\ conn[c].unacked + n <= Window
             /\ m = Msg("data", c, conn[c].outSeq, n)
             /\ r = [[conn[c] EXCEPT !.outSeq = conn[c].outSeq + 1] EXCEPT !.unacked = conn[c].unacked + n]
  <2>1. PICK n \in Nat \ {0} :
             /\ m = Msg("data", c, conn[c].outSeq, n)
             /\ r = [[conn[c] EXCEPT !.outSeq = conn[c].outSeq + 1] EXCEPT !.unacked = conn[c].unacked + n]
    BY <1>4, Zenon
  <2>2. m.type = "data" /\ m.bytes = n BY <2>1 DEF Msg
  <2>3. /\ r.pc = k.pc /\ r.in = k.in /\ r.writeDone = k.writeDone /\ r.unacked = k.unacked + n /\ r.writing = k.writing
        /\ k.writing \in Nat
    BY <1>1, <2>1 DEF Ends
  <2>4. Amount(m, "data", c) = n /\ Amount(m, "ack", c) = 0 BY <2>2 DEF Amount
  <2>5. ~Young(r) BY <1>2, <2>3 DEF Young
  <2>6. r.unacked = k.unacked + Amount(m, "data", c) /\ k.writing = r.writing + Amount(m, "ack", c) BY <2>3, <2>4
  <2> QED BY <1>2, <1>3, <2>3, <2>5, <2>6, SpeaksWindows
<1>5. CASE m = Ctrl("eof", c) /\ r = [conn[c] EXCEPT !.readDone = TRUE]
  <2>1. /\ r.pc = k.pc /\ r.in = k.in /\ r.writeDone = k.writeDone /\ r.unacked = k.unacked /\ r.writing = k.writing
        /\ k.unacked \in Nat /\ k.writing \in Nat
    BY <1>1, <1>5 DEF Ends
  <2>2. m.type = "eof" BY <1>5 DEF Ctrl, Msg
  <2>3. Amount(m, "data", c) = 0 /\ Amount(m, "ack", c) = 0 BY <2>2 DEF Amount
  <2>4. ~Young(r) BY <1>2, <2>1 DEF Young
  <2>5. r.unacked = k.unacked + Amount(m, "data", c) /\ k.writing = r.writing + Amount(m, "ack", c) BY <2>1, <2>3
  <2> QED BY <1>2, <1>3, <2>1, <2>4, <2>5, SpeaksWindows
<1> QED BY <1>4, <1>5, Zenon DEF Reads

\* The write half takes a message.
LEMMA TakesWindows ==
    ASSUME Typed, Windows, NEW c \in Records, NEW r \in Ends, NEW m \in UpMsgs, m.conn = c, Talks(c, r, m), uplink' = uplink,
           NEW k, k = conn[c], k.pc = "running", r.pc = "running", r.unacked = k.unacked, k.in # <<>>,
           NEW h, h = Head(k.in),
           \/ h.type = "eof" /\ r.in = <<>> /\ r.writing = k.writing
           \/ h.type = "data" /\ r.in = Tail(k.in) /\ k.writing = 0 /\ r.writing = h.bytes /\ r.writeDone = k.writeDone
    PROVE  Windows'
<1> DEFINE t == tunnel[c]
           b == Part(bulk, c)
           l == Part(late, c)
           x == Part(lost, c)
           u == Rising(c)
           i == Tail(k.in)
<1>1. c \in Conns BY DEF Records
<1>2. ViewTyped(t, k, b, l, x, u) /\ Of(k.in, c) BY <1>1, ViewOf
<1>3. k.in \in Seq(Msgs)
  <2>1. k \in Ends /\ t \in Tunnels /\ b \in Seq(Msgs) BY <1>2 DEF ViewTyped
  <2> QED BY <2>1, GoingTyped
<1>4. k.in = <<h>> \o i /\ h \in Msgs /\ i \in Seq(Msgs) /\ ToSet(k.in) = {h} \cup ToSet(i) BY <1>3, HeadAndTail, TailLacks
<1>5. h.conn = c /\ Of(i, c) BY <1>2, <1>4 DEF Of
<1>6. Of(r.in, c) BY <1>5, EmptyHasNone DEF Of
<1>7. ~Young(r) /\ k.pc \in Living BY DEF Young, Living
<1> HIDE DEF t, b, l, x, u
<1>8. Even(c, t, k, b, l, x, u) => Even(c, t, r, b, l, x, u)
  <2>1. CASE h.type = "eof" /\ r.in = <<>> /\ r.writing = k.writing
    <3> HIDE DEF i
    <3> QED BY <1>2, <1>4, <2>1, TakesEndEven
  <2>2. CASE h.type = "data" /\ r.in = Tail(k.in) /\ k.writing = 0 /\ r.writing = h.bytes /\ r.writeDone = k.writeDone
    <3>1. r.writing = Amount(h, "data", c) BY <1>5, <2>2 DEF Amount
    <3>2. k.in = <<h>> \o r.in BY <1>4, <2>2
    <3> QED BY <1>2, <1>4, <2>2, <3>1, <3>2, TakesDataEven
  <2> QED BY <2>1, <2>2
<1> QED BY <1>6, <1>7, <1>8, AgentWindows DEF t, b, l, x, u

LEMMA WritesStepWindows ==
    ASSUME Typed, Windows, NEW c \in Records, NEW r \in Ends, NEW m \in UpMsgs, m.conn = c, Talks(c, r, m), Writes(c, m, r)
    PROVE  Windows'
<1>1. PICK k : k = conn[c] OBVIOUS
<1>2. c \in Conns /\ k \in Ends BY <1>1 DEF Records, Typed, AgentTyped
<1>3. k.pc = "running" BY <1>1 DEF Writes
<1>4. k.in \in Seq(WriteMsgs) /\ k.writing \in Nat BY <1>2, EndField
<1>5. CASE /\ k.in # <<>> /\ uplink' = uplink /\ Head(k.in).type = "eof"
           /\ r = [[k EXCEPT !.in = <<>>] EXCEPT !.writeDone = TRUE]
  <2>1. r.pc = k.pc /\ r.in = <<>> /\ r.writing = k.writing /\ r.unacked = k.unacked BY <1>2, <1>5 DEF Ends
  <2>2. PICK h : h = Head(k.in) OBVIOUS
  <2>3. uplink' = uplink /\ k.in # <<>> /\ r.pc = "running" /\ h.type = "eof" BY <1>3, <1>5, <2>1, <2>2
  <2> QED BY <1>1, <1>3, <2>1, <2>2, <2>3, TakesWindows, ZenonT(60)
<1>6. CASE /\ k.in # <<>> /\ k.writing = 0 /\ uplink' = uplink /\ Head(k.in).type = "data"
           /\ r = [[[k EXCEPT !.in = Tail(k.in)] EXCEPT !.writing = Head(k.in).bytes] EXCEPT !.inSeq = k.inSeq + 1]
  <2>1. /\ r.pc = k.pc /\ r.in = Tail(k.in) /\ r.writing = Head(k.in).bytes /\ r.unacked = k.unacked
        /\ r.writeDone = k.writeDone
    BY <1>2, <1>6 DEF Ends
  <2>2. PICK h : h = Head(k.in) OBVIOUS
  <2>3. /\ uplink' = uplink /\ k.in # <<>> /\ k.writing = 0 /\ r.pc = "running" /\ h.type = "data"
        /\ r.writing = h.bytes
    BY <1>3, <1>6, <2>1, <2>2
  <2> QED BY <1>1, <1>3, <2>1, <2>2, <2>3, TakesWindows, ZenonT(60)
<1>7. CASE k.in # <<>> /\ r = [[k EXCEPT !.in = Tail(k.in)] EXCEPT !.pc = "failing"]
  <2>1. r.pc = "failing" /\ r.in = Tail(k.in) BY <1>2, <1>7 DEF Ends
  <2>2. ToSet(r.in) \subseteq ToSet(k.in) BY <1>4, <1>7, <2>1, TailLacks
  <2>3. r.pc \notin Living \cup {"none"} BY <2>1 DEF Living
  <2> QED BY <1>1, <2>2, <2>3, EndsWindows
<1>8. CASE k.writing > 0 /\ uplink' = Append(uplink, m) /\ m = Msg("ack", c, 0, k.writing) /\ r = [k EXCEPT !.writing = 0]
  <2>1. /\ r.pc = k.pc /\ r.in = k.in /\ r.writing = 0 /\ r.unacked = k.unacked /\ r.writeDone = k.writeDone
        /\ k.unacked \in Nat
    BY <1>2, <1>8 DEF Ends
  <2>2. m.type = "ack" /\ m.bytes = k.writing BY <1>8 DEF Msg
  <2>3. Amount(m, "data", c) = 0 /\ Amount(m, "ack", c) = k.writing BY <2>2 DEF Amount
  <2>4. ~Young(r) /\ k.pc \in Living BY <1>3, <2>1 DEF Young, Living
  <2>5. r.unacked = k.unacked + Amount(m, "data", c) /\ k.writing = r.writing + Amount(m, "ack", c) BY <1>4, <2>1, <2>3
  <2> QED BY <1>1, <1>8, <2>1, <2>4, <2>5, SpeaksWindows
<1> QED BY <1>1, <1>5, <1>6, <1>7, <1>8 DEF Writes

LEMMA ConnDoesWindows == ASSUME Typed, Windows, NEW c \in Conns, ConnDoes(c) PROVE Windows'
<1>1. PICK r \in Ends, m \in UpMsgs :
        c \in Records /\ Talks(c, r, m) /\ m.conn = c /\ (SetPc(c, m, r) \/ Reads(c, m, r) \/ Writes(c, m, r))
  BY DEF ConnDoes
<1> QED BY <1>1, SetPcWindows, ReadsWindows, WritesStepWindows

\* What the handling of a message of the downlink leaves alone, and what it may add to what is rising
LEMMA ReceiveStill ==
    ASSUME Typed, Typed', Life, Order, AgentReceives, NEW m, m = Head(bulk), NEW c, c = m.conn
    PROVE  /\ UNCHANGED <<tunnel, late, lost, agent>>
           /\ Part(bulk, c) = <<m>> \o Part(bulk', c) /\ Part(bulk', c) \in Seq(Msgs) /\ m \in Msgs
           /\ \A d \in Conns \ {c} : SameDown(d) /\ conn'[d] = conn[d] /\ Rising(d)' = Rising(d)
           /\ MoreErrors(Rising(c)', Rising(c)) /\ Rising(c)' \in Seq(Msgs)
           /\ closed' = closed /\ uplink' = uplink => Rising(c)' = Rising(c)
           /\ m.type = "open" => conn[c] = NoConn
<1>1. /\ bulk # <<>> /\ m \in DownMsgs /\ c \in Conns /\ bulk' = Tail(bulk)
      /\ UNCHANGED agentElse /\ Handled(m, c)
  BY ReceiveCases
<1>2. UNCHANGED <<tunnel, late, lost, post, agent>> BY <1>1 DEF agentElse, relayVars, batch, history
<1>3. bulk \in Seq(DownMsgs) /\ conn \in [Conns -> Ends] /\ uplink \in Seq(UpMsgs) BY DEF Typed, QueuesTyped, AgentTyped
<1>4. bulk \in Seq(Msgs) /\ m \in Msgs BY <1>1, QueuesAre DEF Msgs
<1>5. \A d \in Conns : Part(bulk, d) = IF m.conn = d THEN <<m>> \o Part(bulk', d) ELSE Part(bulk', d)
  BY <1>1, <1>4, PartHead
<1>6. bulk' \in Seq(Msgs) /\ ToSet(bulk) = {m} \cup ToSet(bulk') BY <1>1, <1>4, TailLacks
<1>7. Part(bulk', c) \in Seq(Msgs) BY <1>6, PartTyped
<1> DEFINE x == Ctrl("error", c)
<1>8. uplink' \in {uplink, Append(uplink, x)} BY <1>1 DEF Handled
<1>9. x \in UpMsgs /\ x.conn = c /\ x.type = "error" BY <1>1, CtrlTyped DEF Ctrl, Msg
<1> HIDE DEF x
<1>10. \A d \in Conns \ {c} : conn'[d] = conn[d] /\ (d \in closed' <=> d \in closed) BY <1>1, <1>3 DEF Handled
<1>11. ASSUME NEW d \in Conns \ {c} PROVE SameDown(d) /\ Rising(d)' = Rising(d)
  <2>1. SameDown(d) BY <1>2, <1>5 DEF SameDown
  <2>2. Rising(d)' = Rising(d) BY <1>2, <1>8, <1>9, <1>10, RisingStill
  <2> QED BY <2>1, <2>2
<1>12. closed' = closed /\ uplink' = uplink => Rising(c)' = Rising(c) BY <1>1, <1>2, <1>9, RisingStill
<1>13. m.type = "open" => Asked(c) BY <1>6 DEF Asked, IsOpen
<1>14. m.type = "open" => conn[c] = NoConn /\ Upward(c) = {}
  <2>1. Quiet(c) /\ Fresh(c) BY <1>1 DEF Life, Order, InOrder
  <2> QED BY <1>13, <2>1 DEF Quiet, Fresh
<1>15. MoreErrors(Rising(c)', Rising(c)) /\ Rising(c)' \in Seq(Msgs)
  <2>1. ToSet(uplink') \subseteq ToSet(uplink) \cup {x}
    <3>1. CASE uplink' = uplink BY <3>1
    <3>2. CASE uplink' = Append(uplink, x) BY <1>3, <1>9, <3>2, AppendAdds
    <3> QED BY <1>8, <3>1, <3>2
  <2>2. ToSet(Rising(c)) = {y \in ToSet(post) \cup (IF c \in closed THEN {} ELSE ToSet(uplink)) : y.conn = c}
    BY <1>1, RisingTyped
  <2>3. /\ ToSet(Rising(c)') = {y \in ToSet(post') \cup (IF c \in closed' THEN {} ELSE ToSet(uplink')) : y.conn = c}
        /\ Rising(c)' \in Seq(Msgs)
    BY <1>1, RisingNext
  <2>4. ASSUME NEW y \in ToSet(Rising(c)') PROVE y \in ToSet(Rising(c)) \/ y.type = "error"
    <3>1. y.conn = c /\ (y \in ToSet(post) \/ y \in ToSet(uplink) \/ y = x) BY <1>2, <2>1, <2>3
    <3>2. CASE m.type = "open"
      <4>1. y \notin Upward(c) BY <1>14, <3>2
      <4> QED BY <1>9, <3>1, <4>1 DEF Upward
    <3>3. CASE m.type # "open"
      <4>1. c \in closed => c \in closed' BY <1>1, <3>3 DEF Handled
      <4>2. y \in ToSet(post) \/ (c \notin closed' /\ y \in ToSet(uplink')) BY <1>2, <2>3
      <4> QED BY <1>9, <2>1, <2>2, <3>1, <4>1, <4>2
    <3> QED BY <3>2, <3>3
  <2> QED BY <2>3, <2>4 DEF MoreErrors
<1>16. Part(bulk, c) = <<m>> \o Part(bulk', c) BY <1>1, <1>5
<1> QED BY <1>2, <1>4, <1>7, <1>10, <1>11, <1>12, <1>14, <1>15, <1>16

LEMMA LivingHasRecord == \A c \in Conns : conn[c].pc \in Living => c \in Records
BY DEF Living, Records

\* What comes of a message for the connection it is for
Comes(c, m, k, e) ==
    \/ m.type = "open" /\ e = [NoConn EXCEPT !.pc = "connecting"]
    \/ m.type = "open" /\ e = k
    \/ EndLess(c, k, e) /\ e.pc \notin Living
    \/ m.type = "data" /\ e = k /\ k.pc \in Living /\ k.writeDone
    \/ /\ m.type \in {"data", "eof"} /\ e = [k EXCEPT !.in = Append(k.in, m)]
       /\ closed' = closed /\ uplink' = uplink
    \/ /\ m.type = "ack" /\ e = [k EXCEPT !.unacked = Minus(k.unacked, m.bytes)]
       /\ closed' = closed /\ uplink' = uplink

LEMMA HandledEnd ==
    ASSUME Typed, NEW c \in Conns, NEW m, m.conn = c, Handled(m, c) PROVE Comes(c, m, conn[c], conn'[c])
<1>0. PICK k, e : k = conn[c] /\ e = conn'[c] OBVIOUS
<1>1. conn \in [Conns -> Ends] BY DEF Typed, AgentTyped
<1>2. k.pc \in Living => c \in Records BY <1>0, LivingHasRecord
<1>3. /\ EndLess(c, k, Dropped(c, "gone")) /\ Dropped(c, "gone").pc \notin Living
      /\ EndLess(c, k, Dropped(c, "closed")) /\ Dropped(c, "closed").pc \notin Living
      /\ EndLess(c, k, k)
  BY DroppedLess, EndFields, Still DEF Living
<1>4. \A r : conn' = [conn EXCEPT ![c] = r] => e = r BY <1>0, <1>1
<1>5. CASE m.type = "open" /\ conn' = [conn EXCEPT ![c] = [NoConn EXCEPT !.pc = "connecting"]] BY <1>0, <1>4, <1>5 DEF Comes
<1>6. CASE m.type = "open" /\ conn' = conn BY <1>0, <1>6 DEF Comes
<1>7. CASE m.type = "data" /\ ~(c \in Records /\ Receiving(c)) /\ conn' = conn
  <2>1. e = k BY <1>0, <1>7
  <2>2. k.pc \in Living => k.writeDone BY <1>0, <1>2, <1>7 DEF Receiving, Living
  <2> QED BY <1>0, <1>3, <1>7, <2>1, <2>2 DEF Comes
<1>8. CASE /\ m.type \in {"data", "eof"} /\ UNCHANGED <<closed, uplink>>
           /\ conn' = [conn EXCEPT ![c] = [conn[c] EXCEPT !.in = Append(conn[c].in, m)]]
  BY <1>0, <1>4, <1>8 DEF Comes
<1>9. CASE conn' = [conn EXCEPT ![c] = Dropped(c, "gone")]
  <2>1. e = Dropped(c, "gone") BY <1>4, <1>9
  <2> QED BY <1>0, <1>3, <2>1 DEF Comes
<1>10. CASE c \notin Records /\ conn' = conn
  <2>1. e = k /\ k.pc \notin Living BY <1>0, <1>2, <1>10
  <2> QED BY <1>0, <1>3, <2>1 DEF Comes
<1>11. CASE /\ m.type = "ack" /\ UNCHANGED <<closed, uplink>>
            /\ conn' = [conn EXCEPT ![c] = [conn[c] EXCEPT !.unacked = Minus(conn[c].unacked, m.bytes)]]
  BY <1>0, <1>4, <1>11 DEF Comes
<1>12. CASE conn' = [conn EXCEPT ![c] = IF c \in Records THEN Dropped(c, "closed") ELSE conn[c]]
  <2>1. e = IF c \in Records THEN Dropped(c, "closed") ELSE k BY <1>0, <1>4, <1>12
  <2>2. CASE c \in Records BY <1>0, <1>3, <2>1, <2>2 DEF Comes
  <2>3. CASE c \notin Records BY <1>0, <1>2, <1>3, <2>1, <2>3 DEF Comes
  <2> QED BY <2>2, <2>3
<1> QED BY <1>5, <1>6, <1>7, <1>8, <1>9, <1>10, <1>11, <1>12 DEF Handled

LEMMA ReceivesWindows == ASSUME Typed, Typed', Life, Order, Windows, AgentReceives PROVE Windows'
<1>1. PICK m, c : m = Head(bulk) /\ c = m.conn OBVIOUS
<1>2. m \in DownMsgs /\ c \in Conns /\ conn[c] \in Ends /\ Handled(m, c) BY <1>1, ReceiveCases
<1> DEFINE t == tunnel[c]
           k == conn[c]
           e == conn'[c]
           b == Part(bulk, c)
           l == Part(late, c)
           x == Part(lost, c)
           u == Rising(c)
           n == Part(bulk', c)
           w == Rising(c)'
<1>3. /\ UNCHANGED <<tunnel, late, lost, agent>>
      /\ b = <<m>> \o n /\ n \in Seq(Msgs) /\ m \in Msgs
      /\ \A d \in Conns \ {c} : SameDown(d) /\ conn'[d] = conn[d] /\ Rising(d)' = Rising(d)
      /\ MoreErrors(w, u) /\ w \in Seq(Msgs)
      /\ closed' = closed /\ uplink' = uplink => w = u
      /\ m.type = "open" => k = NoConn
  BY <1>1, ReceiveStill
<1>4. \A d \in Conns : Reaches(d)' <=> Reaches(d) BY <1>3 DEF Reaches
<1>5. \A d \in Conns : BalancedAt(d) BY DEF Windows
<1>6. ASSUME NEW d \in Conns \ {c} PROVE BalancedAt(d)'
  <2>1. tunnel'[d] = tunnel[d] BY <1>3
  <2> QED BY <1>3, <1>4, <1>5, <2>1, SameOn
<1>7. /\ ViewTyped(t, k, b, l, x, u) /\ Fresher(c, t, k, b, l, x, u) /\ Of(t.in, c) /\ Of(k.in, c) /\ Of(t.out, c)
      /\ (Connected(t, k, Reaches(c)) => Even(c, t, k, b, l, x, u))
  BY <1>2, ViewOf
<1>8. ToSet(b) = ToSet(n) \cup {m} BY <1>3, LacksOne
<1>9. More(Sent(n, l, x), Sent(b, l, x)) BY <1>8 DEF More, Sent
<1>10. e \in Ends
  <2>1. conn' \in [Conns -> Ends] BY DEF Typed, AgentTyped, Ends, WriteMsgs, Message
  <2> QED BY <1>2, <2>1
<1>11. t \in Tunnels /\ l \in Seq(Msgs) /\ x \in Seq(Msgs) /\ k.in \in Seq(WriteMsgs) /\ k.in \in Seq(Msgs)
  <2>1. k.in \in Seq(WriteMsgs) BY <1>2, EndField
  <2> QED BY <1>7, <2>1, AllMsgs DEF ViewTyped
<1>12. ASSUME Fresher(c, t, e, n, l, x, w), Connected(t, e, Reaches(c)) => Even(c, t, e, n, l, x, w) PROVE BalancedAt(c)'
  <2>1. Connected(t, e, Reaches(c)') => Connected(t, e, Reaches(c)) BY <1>2, <1>4 DEF Connected
  <2>2. Balanced(c, t, e, Reaches(c)', n, l, x, w) BY <1>12, <2>1 DEF Balanced
  <2>3. Balanced(c, tunnel'[c], conn'[c], Reaches(c)', Part(bulk', c), Part(late', c), Part(lost', c), Rising(c)')
    BY <1>3, <2>2
  <2> QED BY <1>2, <2>3, Seen
<1>13. ASSUME EndLess(c, k, e), ~Connected(t, e, Reaches(c)) PROVE BalancedAt(c)'
  <2>1. Fresher(c, t, e, n, l, x, w)
    <3> HIDE DEF t, k, e, b, l, x, u, n, w
    <3> QED BY <1>3, <1>7, <1>9, <1>13, Still, FresherOn
  <2> QED BY <1>12, <1>13, <2>1
<1>14. ASSUME m.type \notin {"open", "close"}, e.pc = k.pc, Of(e.in, c) PROVE Fresher(c, t, e, n, l, x, w)
  <2>1. m \in ToSet(b) BY <1>8
  <2> HIDE DEF t, k, e, b, l, x, u, n, w
  <2>2. ~Young(k) BY <1>7, <1>14, <2>1 DEF Fresher, Controls
  <2>3. ~Young(e) BY <1>14, <2>2 DEF Young
  <2>4. t.pc # "open" => t.out = <<>> /\ t.unacked = 0 /\ t.pending = 0 BY <1>7 DEF Fresher
  <2> QED BY <1>7, <1>14, <2>3, <2>4, FresherLate
<1>15. BalancedAt(c)'
  <2>1. CASE m.type = "open" /\ e = [NoConn EXCEPT !.pc = "connecting"]
    <3>1. k = NoConn BY <1>3, <2>1
    <3>2. Young(k) /\ Young(e) /\ e.in = <<>> /\ e.writing = 0 /\ e.writeDone = FALSE /\ e.unacked = 0
      BY <2>1, <3>1 DEF Young, NoConn
    <3> HIDE DEF t, k, e, b, l, x, u, n, w
    <3>3. Fresher(c, t, k, n, l, x, w) BY <1>3, <1>7, <1>9, Still, FresherOn
    <3>4. Of(<<>>, c) BY EmptyHasNone DEF Of
    <3>5. Fresher(c, t, e, n, l, x, w) BY <3>2, <3>3, <3>4 DEF Fresher
    <3>6. Even(c, t, e, n, l, x, w) BY <1>3, <1>10, <1>11, <3>2, <3>3, AcceptEven
    <3> QED BY <1>12, <3>5, <3>6
  <2>2. CASE m.type = "open" /\ e = k
    <3>1. k = NoConn BY <1>3, <2>2
    <3>2. e.pc \notin Living BY <2>2, <3>1, EndFields DEF Living
    <3>3. EndLess(c, k, e) BY <2>2, Still
    <3>4. ~Connected(t, e, Reaches(c)) BY <3>2 DEF Connected
    <3> QED BY <1>13, <3>3, <3>4
  <2>3. CASE EndLess(c, k, e) /\ e.pc \notin Living
    <3>1. ~Connected(t, e, Reaches(c)) BY <2>3 DEF Connected
    <3> QED BY <1>13, <2>3, <3>1
  <2>4. CASE m.type = "data" /\ e = k /\ k.pc \in Living /\ k.writeDone
    <3>1. ~Connected(t, k, Reaches(c))
      <4> SUFFICES ASSUME Connected(t, k, Reaches(c)) PROVE FALSE OBVIOUS
      <4>1. Even(c, t, k, b, l, x, u) BY <1>7
      <4>2. Going(t, k, b) = <<>> BY <2>4, <4>1 DEF Even, EndWritten
      <4> DEFINE q == Kept(b, WriteMsgs)
      <4>3. m \in ToSet(q)
        <5>1. m \in WriteMsgs BY <1>2, <2>4, Kinds
        <5>2. b \in Seq(Msgs) BY <1>7 DEF ViewTyped
        <5>3. ToSet(q) = ToSet(b) \cap WriteMsgs
          <6> HIDE DEF b
          <6> QED BY <5>2, KeptAmong
        <5> QED BY <1>8, <5>1, <5>3
      <4>4. k.in \in Seq(Msgs) /\ q \in Seq(Msgs) /\ t.out \in Seq(Msgs)
        <5> HIDE DEF t, k, b
        <5> QED BY <1>7, GoingTyped DEF ViewTyped
      <4>5. m \in ToSet(Going(t, k, b))
        <5> DEFINE p == k.in \o q
        <5>1. Going(t, k, b) = p \o t.out BY DEF Going
        <5> HIDE DEF q, t, k, b
        <5>2. p \in Seq(Msgs) /\ ToSet(p) = ToSet(k.in) \cup ToSet(q) BY <4>4, ConcatProperties, ConcatHasBoth
        <5> HIDE DEF p
        <5>3. ToSet(p \o t.out) = ToSet(p) \cup ToSet(t.out) BY <4>4, <5>2, ConcatHasBoth
        <5> QED BY <4>3, <5>1, <5>2, <5>3
      <4> QED BY <4>2, <4>5, EmptyHasNone
    <3>2. EndLess(c, k, e) /\ ~Connected(t, e, Reaches(c)) BY <2>4, <3>1, Still
    <3> QED BY <1>13, <3>2
  <2>5. CASE m.type \in {"data", "eof"} /\ e = [k EXCEPT !.in = Append(k.in, m)] /\ closed' = closed /\ uplink' = uplink
    <3>1. /\ e.pc = k.pc /\ e.in = Append(k.in, m) /\ e.writing = k.writing /\ e.writeDone = k.writeDone
          /\ e.unacked = k.unacked
      <4> HIDE DEF e
      <4> QED BY <1>2, <2>5 DEF Ends
    <3>2. m \in WriteMsgs BY <1>2, <2>5, Kinds
    <3>3. w = u BY <1>3, <2>5
    <3> HIDE DEF t, k, e, b, l, x, u, n, w
    <3>4. ToSet(e.in) = ToSet(k.in) \cup {m} BY <1>11, <3>1, AppendAdds
    <3>5. Of(e.in, c) BY <1>1, <1>7, <3>4 DEF Of
    <3>6. Fresher(c, t, e, n, l, x, w) BY <1>14, <2>5, <3>1, <3>5
    <3>7. ASSUME Connected(t, e, Reaches(c)) PROVE Even(c, t, e, n, l, x, w)
      <4>1. Connected(t, k, Reaches(c)) BY <3>1, <3>7 DEF Connected
      <4>2. Even(c, t, k, <<m>> \o n, l, x, u) /\ ViewTyped(t, k, <<m>> \o n, l, x, u) BY <1>3, <1>7, <4>1
      <4>3. Even(c, t, e, n, l, x, u) BY <1>3, <1>10, <3>1, <3>2, <4>2, AppendEven
      <4> QED BY <3>3, <4>3
    <3> QED BY <1>12, <3>6, <3>7
  <2>6. CASE m.type = "ack" /\ e = [k EXCEPT !.unacked = Minus(k.unacked, m.bytes)] /\ closed' = closed /\ uplink' = uplink
    <3>1. /\ e.pc = k.pc /\ e.in = k.in /\ e.writing = k.writing /\ e.writeDone = k.writeDone
          /\ e.unacked = Minus(k.unacked, m.bytes)
      <4> HIDE DEF e
      <4> QED BY <1>2, <2>6 DEF Ends
    <3>2. w = u BY <1>3, <2>6
    <3> HIDE DEF t, k, e, b, l, x, u, n, w
    <3>3. Of(e.in, c) BY <1>7, <3>1
    <3>4. Fresher(c, t, e, n, l, x, w) BY <1>14, <2>6, <3>1, <3>3
    <3>5. ASSUME Connected(t, e, Reaches(c)) PROVE Even(c, t, e, n, l, x, w)
      <4>1. Connected(t, k, Reaches(c)) BY <3>1, <3>5 DEF Connected
      <4>2. Even(c, t, k, <<m>> \o n, l, x, u) /\ ViewTyped(t, k, <<m>> \o n, l, x, u) BY <1>3, <1>7, <4>1
      <4>3. SameTarget(k, e) BY <3>1 DEF SameTarget
      <4>4. m.type = "ack" /\ m.conn = c BY <1>1, <2>6
      <4>5. Even(c, t, e, n, l, x, u) BY <1>3, <1>10, <3>1, <4>2, <4>3, <4>4, AckedEven
      <4> QED BY <3>2, <4>5
    <3> QED BY <1>12, <3>4, <3>5
  <2>7. Comes(c, m, k, e) BY <1>1, <1>2, HandledEnd
  <2> QED BY <2>1, <2>2, <2>3, <2>4, <2>5, <2>6, <2>7, Zenon DEF Comes
<1> QED BY <1>6, <1>15 DEF Windows

LEMMA InitWindows == Init => Windows
<1> SUFFICES ASSUME Init, NEW d \in Conns PROVE BalancedAt(d) BY DEF Windows
<1>1. tunnel[d] = NoTunnel /\ conn[d] = NoConn BY DEF Init
<1>2. bulk = <<>> /\ late = <<>> /\ lost = <<>> /\ post = <<>> /\ closed = {} /\ uplink = <<>> BY DEF Init
<1>3. Part(<<>>, d) = <<>> /\ <<>> \o <<>> = <<>> BY PartEmpty
<1>4. Rising(d) = <<>> BY <1>2, <1>3 DEF Rising
<1>5. /\ NoTunnel.pc = "new" /\ NoTunnel.answer = None /\ NoTunnel.out = <<>> /\ NoTunnel.unacked = 0
      /\ NoTunnel.pending = 0 /\ NoTunnel.in = <<>> /\ ~NoTunnel.listed
  BY DEF NoTunnel
<1>6. NoConn.in = <<>> /\ NoConn.writing = 0 BY EndFields
<1>7. ToSet(<<>>) = {} BY EmptyHasNone
<1>8. Controls(<<>>) /\ Of(<<>>, d) BY <1>7 DEF Controls, Of
<1>9. ~Begun(NoTunnel, <<>>) BY <1>5, <1>7, NoneAssumption DEF Begun
<1>10. Fresher(d, NoTunnel, NoConn, <<>>, <<>>, <<>>, <<>>) BY <1>5, <1>6, <1>7, <1>8, <1>9 DEF Fresher
<1>11. ~Connected(NoTunnel, NoConn, Reaches(d)) BY <1>5 DEF Connected
<1> QED BY <1>1, <1>2, <1>3, <1>4, <1>10, <1>11 DEF BalancedAt, Balanced

LEMMA WindowsStep == ASSUME Typed, Life, Order, Windows, [Next]_vars PROVE Windows'
<1>1. Typed' BY TypedStep
<1>2. CASE UNCHANGED vars BY <1>2, RestWindows
<1>3. ASSUME NEW c \in Conns, RelayStep(c) PROVE Windows'
  <2>1. OpenFails(c) => Drop(c) BY DEF OpenFails
  <2> QED BY <1>3, <2>1, OpenCountsWindows, OpenInsertsWindows, OpenSendsWindows, OpenSucceedsWindows, DropWindows,
       OpenTimesOutWindows, WriterSendsWindows, SweepRemovesWindows DEF RelayStep
<1>4. ASSUME NEW c \in Conns, User(c) PROVE Windows'
  <2>1. UserDrops(c) => Drop(c) BY DEF UserDrops
  <2> QED BY <1>4, <2>1, OpenLooksWindows, OpenSendTimesOutWindows, UserWritesWindows, UserShutsDownWindows,
       UserReadsWindows, UserConsumesWindows, UserReadsErrorWindows, DropWindows DEF User
<1>5. ASSUME NEW c \in Conns, AgentStep(c) \/ Target(c) PROVE Windows'
  <2>1. ConnActs(c) BY <1>5 DEF ConnActs, AgentStep, Target
  <2> QED BY <2>1, ConnStep, ConnDoesWindows
<1>6. CASE LateSend \/ LateTimesOut BY <1>6, LateWindows
<1>7. CASE Uncount \/ SweepEnds BY <1>7, RestWindows
<1>8. CASE Route BY <1>8, RouteWindows
<1>9. CASE AgentReceives BY <1>1, <1>9, ReceivesWindows
<1>10. CASE UplinkTakes BY <1>10, UplinkTakesWindows
<1>11. CASE PostSucceeds BY <1>11, RestWindows
<1>12. CASE SessionEnds BY <1>1, <1>12, SessionEndsWindows
<1>13. CASE PostFails BY <1>1, <1>13, PostFailsWindows
<1>14. CASE LoseDownlink BY <1>1, <1>14, LoseDownlinkWindows
<1>15. CASE SessionBegins BY <1>1, <1>15, SessionBeginsWindows
<1>16. CASE SessionRemoved \/ RemovalSweeps \/ \E s \in streams : StreamDropped(s) BY <1>16, RestWindows
<1> QED BY <1>2, <1>3, <1>4, <1>5, <1>6, <1>7, <1>8, <1>9, <1>10, <1>11, <1>12, <1>13, <1>14, <1>15, <1>16
     DEF Next, Tasks

\* What the windows say of a tunnel whose ends are joined
LEMMA EvenBytes ==
    ASSUME Typed, NEW c \in Conns, c \notin closed,
           Even(c, tunnel[c], conn[c], Part(bulk, c), Part(late, c), Part(lost, c), Rising(c))
    PROVE  /\ tunnel[c].unacked =
                 Bytes(tunnel[c].out, "data", c) + Bytes(bulk, "data", c)
                 + Bytes(conn[c].in, "data", c) + conn[c].writing
                 + Bytes(uplink, "ack", c) + Bytes(post, "ack", c)
           /\ conn[c].unacked =
                 Bytes(uplink, "data", c) + Bytes(post, "data", c)
                 + Bytes(tunnel[c].in, "data", c) + tunnel[c].pending
                 + Bytes(bulk, "ack", c) + Bytes(late, "ack", c) + Bytes(lost, "ack", c)
<1> DEFINE t == tunnel[c]
           k == conn[c]
           b == Part(bulk, c)
           g == Kept(b, WriteMsgs)
           p == Part(post, c)
           q == Part(uplink, c)
<1>1. t \in Tunnels /\ k \in Ends BY DEF Typed, RelayTyped, AgentTyped
<1>2. bulk \in Seq(Msgs) /\ late \in Seq(Msgs) /\ lost \in Seq(Msgs) /\ post \in Seq(Msgs) /\ uplink \in Seq(Msgs)
  BY QueuesAre
<1>3. \A y : /\ Bytes(b, y, c) = Bytes(bulk, y, c) /\ Bytes(Part(late, c), y, c) = Bytes(late, y, c)
             /\ Bytes(Part(lost, c), y, c) = Bytes(lost, y, c)
             /\ Bytes(p, y, c) = Bytes(post, y, c) /\ Bytes(q, y, c) = Bytes(uplink, y, c)
  BY <1>2, PartBytes
<1>4. b \in Seq(Msgs) /\ p \in Seq(Msgs) /\ q \in Seq(Msgs) BY <1>2, PartTyped
<1>5. Rising(c) = p \o q BY DEF Rising
<1>6. t.unacked = Bytes(Going(t, k, b), "data", c) + k.writing + Bytes(Rising(c), "ack", c) BY DEF Even, WriteEven
<1>7. k.unacked = Bytes(Rising(c), "data", c) + Bytes(t.in, "data", c) + t.pending
                  + Bytes(b, "ack", c) + Bytes(Part(late, c), "ack", c) + Bytes(Part(lost, c), "ack", c)
  BY DEF Even, ReadEven
<1>8. Going(t, k, b) = (k.in \o g) \o t.out BY DEF Going
<1> HIDE DEF t, k, b, p, q, g
<1>9. \A y : Bytes(Rising(c), y, c) = Bytes(post, y, c) + Bytes(uplink, y, c)
  <2> SUFFICES ASSUME NEW y PROVE Bytes(Rising(c), y, c) = Bytes(post, y, c) + Bytes(uplink, y, c) OBVIOUS
  <2>1. Bytes(p \o q, y, c) = Bytes(p, y, c) + Bytes(q, y, c) BY <1>4, BytesConcat
  <2> QED BY <1>3, <1>5, <2>1
<1>10. k.in \in Seq(Msgs) /\ t.out \in Seq(Msgs) /\ t.in \in Seq(Msgs) /\ g \in Seq(Msgs) /\ k.writing \in Nat /\ t.pending \in Nat
  BY <1>1, <1>4, GoingTyped DEF g
<1>11. Bytes(g, "data", c) = Bytes(b, "data", c)
  <2>1. \A m \in Msgs : m.type = "data" /\ m.conn = c => m \in WriteMsgs
    BY DEF Msgs, DownMsgs, UpMsgs, WriteMsgs, Message
  <2>2. Bytes(Kept(b, WriteMsgs), "data", c) = Bytes(b, "data", c) BY <1>4, <2>1, BytesKept
  <2> QED BY <2>2 DEF g
<1>12. Bytes(Going(t, k, b), "data", c) = (Bytes(k.in, "data", c) + Bytes(bulk, "data", c)) + Bytes(t.out, "data", c)
  <2> DEFINE a == k.in \o g
  <2>1. a \in Seq(Msgs) BY <1>10, ConcatProperties
  <2>2. Bytes(a, "data", c) = Bytes(k.in, "data", c) + Bytes(g, "data", c) BY <1>10, BytesConcat
  <2>3. Going(t, k, b) = a \o t.out BY <1>8
  <2> HIDE DEF a
  <2>4. Bytes(a \o t.out, "data", c) = Bytes(a, "data", c) + Bytes(t.out, "data", c) BY <1>10, <2>1, BytesConcat
  <2> QED BY <1>3, <1>11, <2>2, <2>3, <2>4
<1>13. \A y : /\ Bytes(post, y, c) \in Nat /\ Bytes(uplink, y, c) \in Nat /\ Bytes(bulk, y, c) \in Nat
              /\ Bytes(late, y, c) \in Nat /\ Bytes(lost, y, c) \in Nat /\ Bytes(t.in, y, c) \in Nat
              /\ Bytes(t.out, y, c) \in Nat /\ Bytes(k.in, y, c) \in Nat
  BY <1>2, <1>10, BytesTyped
<1>14. t.unacked = Bytes(t.out, "data", c) + Bytes(bulk, "data", c) + Bytes(k.in, "data", c) + k.writing
                   + Bytes(uplink, "ack", c) + Bytes(post, "ack", c)
  <2> DEFINE i == Bytes(k.in, "data", c)
             j == Bytes(bulk, "data", c)
             o == Bytes(t.out, "data", c)
             h == k.writing
             d == Bytes(post, "ack", c)
             e == Bytes(uplink, "ack", c)
  <2>1. i \in Nat /\ j \in Nat /\ o \in Nat /\ h \in Nat /\ d \in Nat /\ e \in Nat BY <1>10, <1>13
  <2>2. t.unacked = ((i + j) + o) + h + (d + e) BY <1>6, <1>9, <1>12
  <2> HIDE DEF i, j, o, h, d, e
  <2>3. ((i + j) + o) + h + (d + e) = o + j + i + h + e + d BY <2>1
  <2>4. t.unacked = o + j + i + h + e + d BY <2>2, <2>3
  <2> QED BY <2>4 DEF i, j, o, h, d, e
<1>15. k.unacked = Bytes(uplink, "data", c) + Bytes(post, "data", c) + Bytes(t.in, "data", c) + t.pending
                   + Bytes(bulk, "ack", c) + Bytes(late, "ack", c) + Bytes(lost, "ack", c)
  <2> DEFINE d == Bytes(post, "data", c)
             e == Bytes(uplink, "data", c)
             i == Bytes(t.in, "data", c)
             h == t.pending
             j == Bytes(bulk, "ack", c)
             l == Bytes(late, "ack", c)
             x == Bytes(lost, "ack", c)
  <2>1. i \in Nat /\ j \in Nat /\ l \in Nat /\ x \in Nat /\ h \in Nat /\ d \in Nat /\ e \in Nat BY <1>10, <1>13
  <2>2. k.unacked = (d + e) + i + h + j + l + x BY <1>3, <1>7, <1>9
  <2> HIDE DEF i, j, l, x, h, d, e
  <2>3. (d + e) + i + h + j + l + x = e + d + i + h + j + l + x BY <2>1
  <2>4. k.unacked = e + d + i + h + j + l + x BY <2>2, <2>3
  <2> QED BY <2>4 DEF i, j, l, x, h, d, e
<1> QED BY <1>14, <1>15 DEF t, k

\* While both ends of a tunnel are there and the downlink of its session reaches
\* the agent, what a side counts as unconfirmed is what is on its way or not yet
\* confirmed, byte for byte, in both directions: whatever the queues do, and
\* however the steps of relay, agent, user and target fall.
THEOREM WindowsAreBalanced == Spec => []WindowsBalanced
<1>1. Init => Typed /\ Life /\ Order /\ Windows BY InitTyped, InitLife, InitOrder, InitWindows
<1>2. Typed /\ Life /\ Order /\ Windows /\ [Next]_vars => (Typed /\ Life /\ Order /\ Windows)'
  BY TypedStep, LifeStep, OrderStep, WindowsStep
<1>3. Typed /\ Windows => WindowsBalanced
  <2> SUFFICES ASSUME Typed, Windows
               PROVE  \A c \in Conns : Joined(c) =>
                          /\ tunnel[c].unacked =
                                Bytes(tunnel[c].out, "data", c) + Bytes(bulk, "data", c)
                                + Bytes(conn[c].in, "data", c) + conn[c].writing
                                + Bytes(uplink, "ack", c) + Bytes(post, "ack", c)
                          /\ conn[c].unacked =
                                Bytes(uplink, "data", c) + Bytes(post, "data", c)
                                + Bytes(tunnel[c].in, "data", c) + tunnel[c].pending
                                + Bytes(bulk, "ack", c) + Bytes(late, "ack", c) + Bytes(lost, "ack", c)
    BY DEF WindowsBalanced
  <2> TAKE c \in Conns
  <2> HAVE Joined(c)
  <2>1. c \notin closed /\ Connected(tunnel[c], conn[c], Reaches(c)) BY DEF Joined, Connected, Living
  <2>2. Even(c, tunnel[c], conn[c], Part(bulk, c), Part(late, c), Part(lost, c), Rising(c)) BY <2>1, ViewOf
  <2> QED BY <2>1, <2>2, EvenBytes
<1> QED BY <1>1, <1>2, <1>3, PTL DEF Spec

-----------------------------------------------------------------------------
(***************************************************************************)
(* What the relay can hold an agent to: numbers without a gap, and never    *)
(* more bytes than the window.  The bytes of a tunnel d that are on their   *)
(* way to its user are a, those the user has been given and that are not    *)
(* confirmed yet h; u, p, b and l are what the queues hold.                 *)
(***************************************************************************)
Above(d, t, u, p) == Bytes(u, "data", d) + Bytes(p, "data", d) + Bytes(t.in, "data", d)
Behind(d, t, b, l) == t.pending + Bytes(b, "ack", d) + Bytes(l, "ack", d)

\* The connection has counted them all, and no more than the window.  Of one
\* that does not exist yet there are none.
Bounded(k, a, h) ==
    /\ a <= Window
    /\ k.pc = "none" => a + h = 0
    /\ k.pc \in Living => a + h <= k.unacked /\ k.unacked <= Window

BoundedAt(d) == Bounded(conn[d], Above(d, tunnel[d], uplink, post), Behind(d, tunnel[d], bulk, late))

Room == \A d \in Conns : BoundedAt(d)

LEMMA RoomSeen ==
    ASSUME NEW d \in Conns,
           Bounded(conn'[d], Above(d, tunnel'[d], uplink', post'), Behind(d, tunnel'[d], bulk', late'))
    PROVE  BoundedAt(d)'
BY DEF BoundedAt, Bounded, Above, Behind, Bytes, Sum

\* The bytes of a tunnel are numbers
LEMMA AboveTyped ==
    ASSUME NEW d, NEW t \in Tunnels, NEW u \in Seq(Msgs), NEW p \in Seq(Msgs)
    PROVE  /\ Bytes(u, "data", d) \in Nat /\ Bytes(p, "data", d) \in Nat /\ Bytes(t.in, "data", d) \in Nat
           /\ Above(d, t, u, p) \in Nat
<1>1. t.in \in Seq(Msgs)
  <2>1. t.in \in Seq(ReadMsgs) BY TunnelField
  <2> QED BY <2>1, AllMsgs
<1>2. Bytes(u, "data", d) \in Nat /\ Bytes(p, "data", d) \in Nat /\ Bytes(t.in, "data", d) \in Nat BY <1>1, BytesTyped
<1> QED BY <1>2 DEF Above

LEMMA BehindTyped ==
    ASSUME NEW d, NEW t \in Tunnels, NEW b \in Seq(Msgs), NEW l \in Seq(Msgs)
    PROVE  /\ t.pending \in Nat /\ Bytes(b, "ack", d) \in Nat /\ Bytes(l, "ack", d) \in Nat
           /\ Behind(d, t, b, l) \in Nat
<1>1. t.pending \in Nat BY TunnelField
<1>2. Bytes(b, "ack", d) \in Nat /\ Bytes(l, "ack", d) \in Nat BY BytesTyped
<1> QED BY <1>1, <1>2 DEF Behind

LEMMA NowTyped ==
    ASSUME Typed, NEW d \in Conns
    PROVE  tunnel[d] \in Tunnels /\ conn[d] \in Ends
BY DEF Typed, RelayTyped, AgentTyped

LEMMA NextTyped ==
    ASSUME Typed', NEW d \in Conns
    PROVE  /\ tunnel'[d] \in Tunnels /\ conn'[d] \in Ends
           /\ bulk' \in Seq(Msgs) /\ late' \in Seq(Msgs) /\ post' \in Seq(Msgs) /\ uplink' \in Seq(Msgs)
<1>1. conn' \in [Conns -> Ends] BY DEF Typed, AgentTyped, Ends, WriteMsgs, Message
<1>2. tunnel' \in [Conns -> Tunnels] BY DEF Typed, RelayTyped, Tunnels, WriteMsgs, ReadMsgs, Message
<1>3. bulk' \in Seq(DownMsgs) /\ late' \in Seq(LateMsgs) BY DEF Typed, QueuesTyped, DownMsgs, LateMsgs, Message
<1>4. post' \in Seq(UpMsgs) /\ uplink' \in Seq(UpMsgs) BY DEF Typed, QueuesTyped, AgentTyped, UpMsgs, Message
<1> QED BY <1>1, <1>2, <1>3, <1>4, AllMsgs

LEMMA LessOf ==
    ASSUME NEW a \in Nat, NEW h \in Nat, NEW b \in Nat, NEW i \in Nat, NEW w \in Nat, NEW n \in Nat,
           b <= a, b + i <= a + h
    PROVE  (a <= w => b <= w) /\ (a + h = 0 => b + i = 0) /\ (a + h <= n => b + i <= n)
<1>1. a <= w => b <= w OBVIOUS
<1>2. a + h = 0 => b + i = 0
  <2>1. b + i \in Nat /\ a + h \in Nat OBVIOUS
  <2> QED BY <2>1
<1>3. a + h <= n => b + i <= n OBVIOUS
<1> QED BY <1>1, <1>2, <1>3

\* A step after which there is no more of the tunnel than before, and no other
\* connection that reads
LEMMA RoomOn ==
    ASSUME Typed, Typed', NEW d \in Conns, BoundedAt(d),
           NEW a \in Nat, a = Above(d, tunnel[d], uplink, post),
           NEW h \in Nat, h = Behind(d, tunnel[d], bulk, late),
           NEW b \in Nat, b = Above(d, tunnel'[d], uplink', post'),
           NEW i \in Nat, i = Behind(d, tunnel'[d], bulk', late'),
           b <= a, b + i <= a + h,
           conn'[d].pc = "none" => conn[d].pc = "none",
           conn'[d].pc \in Living => conn[d].pc \in Living /\ conn'[d].unacked = conn[d].unacked
    PROVE  BoundedAt(d)'
<1> DEFINE k == conn[d]
           e == conn'[d]
<1>1. Bounded(k, a, h) BY DEF BoundedAt
<1>2. Window \in Nat BY TunnelAssumption
<1>3. k.unacked \in Nat
  <2>1. k \in Ends BY NowTyped
  <2> QED BY <2>1, EndField
<1>4. Bounded(e, b, i)
  <2>1. a <= Window => b <= Window BY <1>2, LessOf
  <2>2. a + h = 0 => b + i = 0 BY <1>2, LessOf
  <2>3. a + h <= k.unacked => b + i <= k.unacked BY <1>2, <1>3, LessOf
  <2> QED BY <1>1, <2>1, <2>2, <2>3 DEF Bounded
<1> QED BY <1>4, RoomSeen

\* Nothing of it changes.
LEMMA RoomSame ==
    ASSUME NEW d \in Conns, BoundedAt(d), conn'[d] = conn[d], Bytes(tunnel'[d].in, "data", d) = Bytes(tunnel[d].in, "data", d),
           tunnel'[d].pending = tunnel[d].pending,
           Bytes(uplink', "data", d) = Bytes(uplink, "data", d), Bytes(post', "data", d) = Bytes(post, "data", d),
           Bytes(bulk', "ack", d) = Bytes(bulk, "ack", d), Bytes(late', "ack", d) = Bytes(late, "ack", d)
    PROVE  BoundedAt(d)'
<1>1. Bounded(conn[d], Above(d, tunnel[d], uplink, post), Behind(d, tunnel[d], bulk, late)) BY DEF BoundedAt
<1>2. Above(d, tunnel'[d], uplink', post') = Above(d, tunnel[d], uplink, post) BY DEF Above
<1>3. Behind(d, tunnel'[d], bulk', late') = Behind(d, tunnel[d], bulk, late) BY DEF Behind
<1> QED BY <1>1, <1>2, <1>3, RoomSeen

-----------------------------------------------------------------------------
(***************************************************************************)
(* The relay's steps                                                        *)
(***************************************************************************)
\* What is put into the downlink
LEMMA PutBytes ==
    ASSUME Typed, NEW c \in Conns, NEW m \in Msgs, m.conn = c, UNCHANGED downlink \/ Puts(c, m)
    PROVE  /\ \A d \in Conns \ {c} : Bytes(bulk', "ack", d) = Bytes(bulk, "ack", d) /\ Bytes(late', "ack", d) = Bytes(late, "ack", d)
           /\ Bytes(bulk', "ack", c) \in Nat /\ Bytes(late', "ack", c) \in Nat
           /\ Bytes(bulk', "ack", c) + Bytes(late', "ack", c)
                  <= Bytes(bulk, "ack", c) + Bytes(late, "ack", c) + Amount(m, "ack", c)
<1>1. bulk \in Seq(Msgs) /\ late \in Seq(Msgs) BY QueuesAre
<1>2. \A d : \A q \in Seq(Msgs) : Bytes(q, "ack", d) \in Nat /\ Bytes(Append(q, m), "ack", d) = Bytes(q, "ack", d) + Amount(m, "ack", d)
  BY AddsOne
<1>3. Amount(m, "ack", c) \in Nat BY AllMsgs DEF Amount
<1>4. \A d \in Conns \ {c} : Amount(m, "ack", d) = 0 BY DEF Amount
<1>5. \A d \in Conns \ {c} : Bytes(Append(bulk, m), "ack", d) = Bytes(bulk, "ack", d)
                             /\ Bytes(Append(late, m), "ack", d) = Bytes(late, "ack", d)
  BY <1>1, <1>2, <1>4
<1> DEFINE p == Bytes(bulk, "ack", c)
           q == Bytes(late, "ack", c)
           n == Amount(m, "ack", c)
<1>6. p \in Nat /\ q \in Nat /\ n \in Nat BY <1>1, <1>2, <1>3
<1>7. Bytes(Append(bulk, m), "ack", c) = p + n /\ Bytes(Append(late, m), "ack", c) = q + n BY <1>1, <1>2
<1> HIDE DEF p, q, n
<1>8. p + n \in Nat /\ q + n \in Nat /\ p + q <= p + q + n /\ (p + n) + q <= p + q + n /\ p + (q + n) <= p + q + n BY <1>6
<1>9. CASE bulk' = bulk /\ late' = late BY <1>6, <1>8, <1>9 DEF p, q, n
<1>10. CASE bulk' = Append(bulk, m) /\ late' = late BY <1>5, <1>6, <1>7, <1>8, <1>10 DEF p, q, n
<1>11. CASE bulk' = bulk /\ late' = Append(late, m) BY <1>5, <1>6, <1>7, <1>8, <1>11 DEF p, q, n
<1> QED BY <1>9, <1>10, <1>11 DEF Puts, downlink

\* A step of one tunnel: the bytes its user takes from the queue are handed out
\* or confirmed.
LEMMA RelayRoom ==
    ASSUME Typed, Typed', Room, NEW c \in Conns, NEW t \in Tunnels, Becomes(c, t), UNCHANGED relayElse \/ Apart,
           NEW m \in Msgs, m.conn = c, UNCHANGED downlink \/ Puts(c, m),
           Bytes(t.in, "data", c) <= Bytes(tunnel[c].in, "data", c),
           Bytes(t.in, "data", c) + t.pending + Amount(m, "ack", c) <= Bytes(tunnel[c].in, "data", c) + tunnel[c].pending
    PROVE  Room'
<1>1. /\ tunnel'[c] = t /\ (\A d \in Conns \ {c} : tunnel'[d] = tunnel[d]) /\ conn' = conn BY RelayStill
<1>2. uplink' = uplink /\ post' = post BY DEF relayElse, agentVars, batch, Apart
<1>3. ASSUME NEW d \in Conns \ {c} PROVE BoundedAt(d)'
  <2>1. BoundedAt(d) BY DEF Room
  <2>2. Bytes(bulk', "ack", d) = Bytes(bulk, "ack", d) /\ Bytes(late', "ack", d) = Bytes(late, "ack", d) BY PutBytes
  <2> QED BY <1>1, <1>2, <2>1, <2>2, RoomSame
<1>4. BoundedAt(c)'
  <2> DEFINE s == tunnel[c]
             x == Bytes(uplink, "data", c)
             y == Bytes(post, "data", c)
             z == Bytes(s.in, "data", c)
             f == Bytes(t.in, "data", c)
             p == Bytes(bulk, "ack", c)
             q == Bytes(late, "ack", c)
             g == Bytes(bulk', "ack", c)
             j == Bytes(late', "ack", c)
             n == Amount(m, "ack", c)
             v == s.pending
             w == t.pending
             a == x + y + z
             b == x + y + f
             h == v + p + q
             i == w + g + j
  <2>1. s \in Tunnels BY NowTyped
  <2>2. uplink \in Seq(Msgs) /\ post \in Seq(Msgs) /\ bulk \in Seq(Msgs) /\ late \in Seq(Msgs) BY QueuesAre
  <2>3. x \in Nat /\ y \in Nat /\ z \in Nat /\ f \in Nat BY <2>1, <2>2, AboveTyped
  <2>4. v \in Nat /\ w \in Nat /\ p \in Nat /\ q \in Nat BY <2>1, <2>2, BehindTyped
  <2>5. g \in Nat /\ j \in Nat /\ g + j <= p + q + n BY PutBytes
  <2>6. n \in Nat BY AllMsgs DEF Amount
  <2>7. f <= z /\ f + w + n <= z + v OBVIOUS
  <2>8. a = Above(c, s, uplink, post) /\ h = Behind(c, s, bulk, late) BY DEF Above, Behind
  <2>9. b = Above(c, tunnel'[c], uplink', post') /\ i = Behind(c, tunnel'[c], bulk', late') BY <1>1, <1>2 DEF Above, Behind
  <2>10. BoundedAt(c) BY DEF Room
  <2> HIDE DEF x, y, z, f, p, q, g, j, n, v, w
  <2>11. a \in Nat /\ b \in Nat /\ h \in Nat /\ i \in Nat /\ b <= a BY <2>3, <2>4, <2>5, <2>7
  <2>12. b + i <= a + h
    <3>1. b + i = x + y + (f + w) + (g + j) BY <2>3, <2>4, <2>5
    <3>2. a + h = x + y + (z + v) + (p + q) BY <2>3, <2>4
    <3>3. (f + w) + (g + j) <= (z + v) + (p + q) BY <2>3, <2>4, <2>5, <2>6, <2>7
    <3> QED BY <2>3, <2>4, <2>5, <3>1, <3>2, <3>3
  <2> HIDE DEF a, b, h, i
  <2> QED BY <1>1, <2>8, <2>9, <2>10, <2>11, <2>12, RoomOn
<1> QED BY <1>3, <1>4 DEF Room

\* A step in which the user is given nothing and confirms nothing
KeepsRead(s, t) == t.in \in {s.in, <<>>} /\ t.pending \in {s.pending, 0}

LEMMA ControlRoom ==
    ASSUME Typed, Typed', Room, NEW c \in Conns, NEW t \in Tunnels, Becomes(c, t), UNCHANGED relayElse \/ Apart,
           NEW m \in Msgs, m.conn = c, m.type # "ack", UNCHANGED downlink \/ Puts(c, m),
           KeepsRead(tunnel[c], t)
    PROVE  Room'
<1> DEFINE s == tunnel[c]
           z == Bytes(s.in, "data", c)
           f == Bytes(t.in, "data", c)
           n == Amount(m, "ack", c)
           v == s.pending
           w == t.pending
<1>1. s \in Tunnels BY NowTyped
<1>2. n = 0 BY DEF Amount
<1>3. v \in Nat /\ w \in Nat BY <1>1, TunnelField
<1>4. z \in Nat
  <2>1. s.in \in Seq(ReadMsgs) BY <1>1, TunnelField
  <2> QED BY <2>1, AllMsgs, BytesTyped
<1>5. f \in {z, 0} BY BytesEmpty DEF KeepsRead
<1>6. w \in {v, 0} BY DEF KeepsRead
<1> HIDE DEF z, f, n, v, w
<1>7. f <= z /\ f + w + n <= z + v BY <1>2, <1>3, <1>4, <1>5, <1>6
<1> QED BY <1>7, RelayRoom DEF z, f, n, v, w

\* ... that sends nothing
LEMMA AloneRoom ==
    ASSUME Typed, Typed', Room, NEW c \in Conns, NEW t \in Tunnels, Becomes(c, t), UNCHANGED relayElse \/ Apart, UNCHANGED downlink,
           KeepsRead(tunnel[c], t)
    PROVE  Room'
<1>1. Ctrl("open", c) \in Msgs /\ Ctrl("open", c).conn = c /\ Ctrl("open", c).type # "ack" BY Opens
<1> QED BY <1>1, ControlRoom

LEMMA OpenLooksRoom == ASSUME Typed, Typed', Room, NEW c \in Conns, OpenLooks(c) PROVE Room'
<1> DEFINE t == [NoTunnel EXCEPT !.pc = "counting", !.session = channel]
<1>1. SetTunnel(c, t) /\ UNCHANGED downlink /\ UNCHANGED relayElse BY DEF OpenLooks
<1>2. t.in = <<>> /\ t.pending = 0 BY DEF NoTunnel
<1> HIDE DEF t
<1>3. t \in Tunnels
  <2>1. tunnel'[c] = t /\ tunnel' \in [Conns -> Tunnels]
    <3>1. tunnel' = [tunnel EXCEPT ![c] = t] BY <1>1 DEF SetTunnel
    <3>2. tunnel \in [Conns -> Tunnels] BY DEF Typed, RelayTyped
    <3>3. \A d \in Conns : tunnel'[d] \in Tunnels BY NextTyped
    <3> QED BY <3>1, <3>2, <3>3
  <2> QED BY <2>1
<1>4. KeepsRead(tunnel[c], t) BY <1>2 DEF KeepsRead
<1> QED BY <1>1, <1>3, <1>4, Becoming, AloneRoom

LEMMA OpenCountsRoom == ASSUME Typed, Typed', Room, NEW c \in Conns, OpenCounts(c) PROVE Room'
<1> DEFINE s == tunnel[c]
           t == [s EXCEPT !.pc = "inserting"]
<1>1. UNCHANGED downlink /\ UNCHANGED relayElse BY DEF OpenCounts, relayElse
<1>2. tunnel' = [tunnel EXCEPT ![c] = GoneTunnel] \/ tunnel' = [tunnel EXCEPT ![c] = t] BY DEF OpenCounts
<1>3. s \in Tunnels BY NowTyped
<1>4. t \in Tunnels BY <1>3, TunnelField
<1>5. t.in = s.in /\ t.pending = s.pending BY <1>3 DEF Tunnels
<1>6. KeepsRead(s, t) /\ KeepsRead(s, GoneTunnel) BY <1>5, GoneFields DEF KeepsRead
<1>7. Becomes(c, t) \/ Becomes(c, GoneTunnel) BY <1>2 DEF Becomes
<1> HIDE DEF t
<1> QED BY <1>1, <1>4, <1>6, <1>7, GoneTyped, AloneRoom

LEMMA OpenInsertsRoom == ASSUME Typed, Typed', Room, NEW c \in Conns, OpenInserts(c) PROVE Room'
<1> DEFINE s == tunnel[c]
           r == [s EXCEPT !.pc = "opening"]
           t == [r EXCEPT !.listed = TRUE]
<1>1. UNCHANGED downlink /\ UNCHANGED relayElse BY DEF OpenInserts
<1>2. s \in Tunnels BY NowTyped
<1>3. SetTunnel(c, t) BY DEF OpenInserts
<1>4. t \in Tunnels
  <2>1. r \in Tunnels BY <1>2, TunnelField
  <2> HIDE DEF r
  <2> QED BY <2>1, TunnelField
<1>5. t.in = s.in /\ t.pending = s.pending BY <1>2 DEF Tunnels
<1> HIDE DEF t, r
<1>6. KeepsRead(s, t) BY <1>5 DEF KeepsRead
<1> QED BY <1>1, <1>3, <1>4, <1>6, Becoming, AloneRoom

LEMMA OpenSendsRoom == ASSUME Typed, Typed', Room, NEW c \in Conns, OpenSends(c) PROVE Room'
<1> DEFINE s == tunnel[c]
           t == [s EXCEPT !.pc = "waiting"]
           m == Ctrl("open", c)
<1>1. SetTunnel(c, t) /\ UNCHANGED relayElse /\ Deliver(c, m) /\ late' = late BY DEF OpenSends
<1>2. s \in Tunnels BY NowTyped
<1>3. t \in Tunnels BY <1>2, TunnelField
<1>4. t.in = s.in /\ t.pending = s.pending BY <1>2 DEF Tunnels
<1>5. Puts(c, m) BY <1>1, DeliverPuts
<1> HIDE DEF t
<1>6. KeepsRead(s, t) BY <1>4 DEF KeepsRead
<1>7. m \in Msgs /\ m.conn = c /\ m.type # "ack" BY Opens
<1> HIDE DEF m
<1> QED BY <1>1, <1>3, <1>5, <1>6, <1>7, Becoming, ControlRoom

LEMMA GoneRoom ==
    ASSUME Typed, Typed', Room, NEW c \in Conns, TakeOut(c, GoneTunnel), UNCHANGED relayElse,
           UNCHANGED downlink \/ SendNonblocking(c, Ctrl("close", c))
    PROVE  Room'
<1> DEFINE m == Ctrl("close", c)
<1>1. m \in Msgs /\ m.conn = c /\ m.type # "ack" BY Opens
<1>2. UNCHANGED downlink \/ Puts(c, m) BY SendPuts
<1>3. KeepsRead(tunnel[c], GoneTunnel) BY GoneFields DEF KeepsRead
<1> HIDE DEF m
<1> QED BY <1>1, <1>2, <1>3, GoneTyped, Becoming, ControlRoom

LEMMA OpenSendTimesOutRoom == ASSUME Typed, Typed', Room, NEW c \in Conns, OpenSendTimesOut(c) PROVE Room'
BY GoneRoom DEF OpenSendTimesOut

LEMMA OpenTimesOutRoom == ASSUME Typed, Typed', Room, NEW c \in Conns, OpenTimesOut(c) PROVE Room'
BY GoneRoom DEF OpenTimesOut

LEMMA DropRoom == ASSUME Typed, Typed', Room, NEW c \in Conns, Drop(c) PROVE Room'
<1>1. UNCHANGED downlink \/ SendNonblocking(c, Ctrl("close", c)) BY DEF Drop, downlink
<1> QED BY <1>1, GoneRoom DEF Drop

LEMMA UserReadsErrorRoom == ASSUME Typed, Typed', Room, NEW c \in Conns, UserReadsError(c) PROVE Room'
<1> DEFINE s == tunnel[c]
           t == [s EXCEPT !.finished = TRUE]
<1>1. SetTunnel(c, t) /\ UNCHANGED downlink /\ UNCHANGED relayElse BY DEF UserReadsError
<1>2. s \in Tunnels BY NowTyped
<1>3. t \in Tunnels BY <1>2, TunnelField
<1>4. t.in = s.in /\ t.pending = s.pending BY <1>2 DEF Tunnels
<1> HIDE DEF t
<1>5. KeepsRead(s, t) BY <1>4 DEF KeepsRead
<1> QED BY <1>1, <1>3, <1>5, Becoming, AloneRoom

LEMMA SweepRemovesRoom == ASSUME Typed, Typed', Room, NEW c \in Conns, SweepRemoves(c) PROVE Room'
<1> DEFINE s == tunnel[c]
           t == IF s.listed THEN Failed(c) ELSE s
<1>1. Becomes(c, t) /\ UNCHANGED downlink /\ Apart
  <2>1. Becomes(c, t) /\ UNCHANGED downlink BY DEF SweepRemoves, Becomes
  <2>2. Apart BY DEF SweepRemoves, Apart, Typed, AgentTyped
  <2> QED BY <2>1, <2>2
<1>2. s \in Tunnels BY NowTyped
<1>3. Failed(c) \in Tunnels /\ Failed(c).in = <<>> /\ Failed(c).pending = 0 BY FailedFields
<1>4. t \in Tunnels BY <1>2, <1>3
<1>5. KeepsRead(s, t) BY <1>3 DEF KeepsRead
<1> HIDE DEF t
<1> QED BY <1>1, <1>4, <1>5, AloneRoom

LEMMA OpenSucceedsRoom == ASSUME Typed, Typed', Room, NEW c \in Conns, OpenSucceeds(c) PROVE Room'
<1> DEFINE s == tunnel[c]
           t == [s EXCEPT !.pc = "open"]
<1>1. SetTunnel(c, t) /\ UNCHANGED downlink /\ UNCHANGED relayElse BY DEF OpenSucceeds
<1>2. s \in Tunnels BY NowTyped
<1>3. t \in Tunnels BY <1>2, TunnelField
<1>4. t.in = s.in /\ t.pending = s.pending BY <1>2 DEF Tunnels
<1> HIDE DEF t
<1>5. KeepsRead(s, t) BY <1>4 DEF KeepsRead
<1> QED BY <1>1, <1>3, <1>5, Becoming, AloneRoom

LEMMA UserWritesRoom == ASSUME Typed, Typed', Room, NEW c \in Conns, UserWrites(c) PROVE Room'
<1>1. PICK size \in Chunks :
          LET n == Fits(size, tunnel[c].unacked)
          IN SetTunnel(c, [tunnel[c] EXCEPT
                  !.out = Append(@, Msg("data", c, tunnel[c].writeSeq, n)),
                  !.writeSeq = @ + 1, !.unacked = @ + n])
  BY Zenon DEF UserWrites
<1> DEFINE s == tunnel[c]
           n == Fits(size, s.unacked)
           m == Msg("data", c, s.writeSeq, n)
           t == [s EXCEPT !.out = Append(@, m), !.writeSeq = @ + 1, !.unacked = @ + n]
<1>2. SetTunnel(c, t) /\ UNCHANGED downlink /\ UNCHANGED relayElse BY <1>1 DEF UserWrites
<1>3. s \in Tunnels BY NowTyped
<1> HIDE DEF n, m, s
<1>4. t.in = s.in /\ t.pending = s.pending BY <1>3 DEF Tunnels
<1> HIDE DEF t
<1>5. t \in Tunnels
  <2>1. tunnel \in [Conns -> Tunnels] BY DEF Typed, RelayTyped
  <2>2. tunnel'[c] = t BY <1>2, <2>1 DEF SetTunnel
  <2>3. tunnel'[c] \in Tunnels BY NextTyped
  <2> QED BY <2>2, <2>3
<1>6. KeepsRead(tunnel[c], t) BY <1>4 DEF KeepsRead, s
<1> QED BY <1>2, <1>5, <1>6, Becoming, AloneRoom

LEMMA UserShutsDownRoom == ASSUME Typed, Typed', Room, NEW c \in Conns, UserShutsDown(c) PROVE Room'
<1> DEFINE s == tunnel[c]
           m == Ctrl("eof", c)
           t == [s EXCEPT !.writeClosed = TRUE, !.out = Append(@, m)]
<1>1. SetTunnel(c, t) /\ UNCHANGED downlink /\ UNCHANGED relayElse BY DEF UserShutsDown
<1>2. s \in Tunnels BY NowTyped
<1> HIDE DEF m, s
<1>3. t.in = s.in /\ t.pending = s.pending BY <1>2 DEF Tunnels
<1> HIDE DEF t
<1>4. t \in Tunnels
  <2>1. tunnel \in [Conns -> Tunnels] BY DEF Typed, RelayTyped
  <2>2. tunnel'[c] = t BY <1>1, <2>1 DEF SetTunnel
  <2>3. tunnel'[c] \in Tunnels BY NextTyped
  <2> QED BY <2>2, <2>3
<1>5. KeepsRead(tunnel[c], t) BY <1>3 DEF KeepsRead, s
<1> QED BY <1>1, <1>4, <1>5, Becoming, AloneRoom

LEMMA WriterSendsRoom == ASSUME Typed, Typed', Life, Windows, Room, NEW c \in Conns, WriterSends(c) PROVE Room'
<1> DEFINE s == tunnel[c]
           m == Head(s.out)
           t == [s EXCEPT !.out = Tail(@)]
<1>1. s.out # <<>> /\ Deliver(c, m) /\ late' = late /\ UNCHANGED relayElse /\ SetTunnel(c, t) BY DEF WriterSends
<1>2. s \in Tunnels BY NowTyped
<1>3. s.out \in Seq(WriteMsgs) BY <1>2, TunnelField
<1>4. m \in WriteMsgs /\ Tail(s.out) \in Seq(WriteMsgs) /\ ToSet(s.out) = {m} \cup ToSet(Tail(s.out)) BY <1>1, <1>3, TailLacks
<1>5. t = [s EXCEPT !.out = Tail(s.out)] BY <1>2 DEF Tunnels
<1>6. t \in Tunnels BY <1>2, <1>4, <1>5, TunnelField
<1>7. t.in = s.in /\ t.pending = s.pending BY <1>2 DEF Tunnels
<1>8. m.conn = c
  <2>1. Of(s.out, c) BY ViewOf
  <2> QED BY <1>4, <2>1 DEF Of
<1>9. m \in Msgs /\ m.type # "ack"
  <2>1. m.type \in {"data", "eof"} BY <1>4 DEF WriteMsgs, Message
  <2> QED BY <1>4, <2>1, Kinds DEF Msgs
<1>10. Puts(c, m) BY <1>1, DeliverPuts
<1>11. KeepsRead(s, t) BY <1>7 DEF KeepsRead
<1> HIDE DEF t, m
<1> QED BY <1>1, <1>6, <1>8, <1>9, <1>10, <1>11, Becoming, ControlRoom

\* What the user is given
LEMMA UserReadsRoom == ASSUME Typed, Typed', Windows, Room, NEW c \in Conns, UserReads(c) PROVE Room'
<1>1. PICK s, m : s = tunnel[c] /\ m = Head(s.in) OBVIOUS
<1>2. /\ s \in Tunnels /\ s.in \in Seq(ReadMsgs) /\ s.in # <<>> /\ m \in ReadMsgs /\ s.pending = 0
      /\ UNCHANGED <<downlink, relayElse>> /\ ReadTurns(c, s, m)
  BY <1>1, ReadBecomes
<1>3. PICK t \in Tunnels :
        /\ SetTunnel(c, t)
        /\ \/ /\ m.type = "data"
              /\ t = [[s EXCEPT !.in = Tail(s.in)] EXCEPT !.pending = m.bytes]
           \/ /\ m.type = "eof"
              /\ t = [[s EXCEPT !.in = Tail(s.in)] EXCEPT !.readEof = TRUE]
           \/ /\ m.type = "closed"
              /\ t = [[[s EXCEPT !.in = Tail(s.in)] EXCEPT !.readEof = TRUE] EXCEPT !.finished = TRUE]
  BY <1>2, Zenon DEF ReadTurns
<1>4. /\ t.in = Tail(s.in)
      /\ t.pending = IF m.type = "data" THEN m.bytes ELSE s.pending
  <2>1. CASE t = [[s EXCEPT !.in = Tail(s.in)] EXCEPT !.pending = m.bytes] /\ m.type = "data" BY <1>2, <2>1 DEF Tunnels
  <2>2. CASE t = [[s EXCEPT !.in = Tail(s.in)] EXCEPT !.readEof = TRUE] /\ m.type = "eof" BY <1>2, <2>2 DEF Tunnels
  <2>3. CASE t = [[[s EXCEPT !.in = Tail(s.in)] EXCEPT !.readEof = TRUE] EXCEPT !.finished = TRUE] /\ m.type = "closed"
    BY <1>2, <2>3 DEF Tunnels
  <2> QED BY <1>3, <2>1, <2>2, <2>3
<1>5. ToSet(s.in) = {m} \cup ToSet(Tail(s.in)) BY <1>1, <1>2, TailLacks
<1>6. m.conn = c
  <2>1. Of(s.in, c) BY <1>1, ViewOf
  <2> QED BY <1>5, <2>1 DEF Of
<1>7. m \in Msgs BY <1>2, Kinds DEF Msgs
<1>8. t.pending = Amount(m, "data", c) BY <1>2, <1>4, <1>6 DEF Amount
<1>9. Becomes(c, t) BY <1>3, Becoming
<1> DEFINE q == s.in
           z == Bytes(q, "data", c)
           f == Bytes(t.in, "data", c)
           n == Amount(m, "data", c)
           o == Ctrl("open", c)
<1>10. q \in Seq(Msgs) /\ q # <<>> /\ m = Head(q) /\ t.in = Tail(q) BY <1>1, <1>2, <1>4, AllMsgs
<1>11. z = n + f
  <2> HIDE DEF q
  <2> QED BY <1>10, BytesHead
<1>12. n \in Nat BY <1>7, AllMsgs DEF Amount
<1>13. f \in Nat
  <2>1. t.in \in Seq(ReadMsgs) BY TunnelField
  <2> QED BY <2>1, AllMsgs, BytesTyped
<1>14. o \in Msgs /\ o.conn = c /\ Amount(o, "ack", c) = 0 BY Opens DEF Amount
<1> HIDE DEF z, f, n, o
<1>15. f <= z /\ f + n + 0 <= z + 0 BY <1>11, <1>12, <1>13
<1>16. f + t.pending + Amount(o, "ack", c) <= z + s.pending BY <1>2, <1>8, <1>14, <1>15 DEF n
<1> QED BY <1>1, <1>2, <1>9, <1>14, <1>15, <1>16, RelayRoom DEF z, f

\* ... and what he confirms
LEMMA UserConsumesRoom == ASSUME Typed, Typed', Room, NEW c \in Conns, UserConsumes(c) PROVE Room'
<1> DEFINE s == tunnel[c]
           n == s.pending
           m == Msg("ack", c, 0, n)
           t == [s EXCEPT !.pending = 0]
           z == Bytes(s.in, "data", c)
<1>1. SendNonblocking(c, m) /\ SetTunnel(c, t) /\ UNCHANGED relayElse BY DEF UserConsumes
<1>2. s \in Tunnels BY NowTyped
<1>3. n \in Nat BY <1>2, TunnelField
<1>4. t \in Tunnels BY <1>2, TunnelField
<1>5. t.in = s.in /\ t.pending = 0 BY <1>2 DEF Tunnels
<1>6. m \in Msgs /\ m.conn = c /\ m.type = "ack" /\ m.bytes = n BY <1>3 DEF Msgs, DownMsgs, Msg, Message
<1>7. Amount(m, "ack", c) = n BY <1>6 DEF Amount
<1>8. Puts(c, m) BY <1>1, SendPuts
<1>9. Becomes(c, t) BY <1>1, Becoming
<1>10. z \in Nat
  <2>1. s.in \in Seq(ReadMsgs) BY <1>2, TunnelField
  <2> QED BY <2>1, AllMsgs, BytesTyped
<1> HIDE DEF t, m, n, z
<1>11. z <= z /\ z + 0 + n <= z + n BY <1>3, <1>10
<1>12. Bytes(t.in, "data", c) <= z /\ Bytes(t.in, "data", c) + t.pending + Amount(m, "ack", c) <= z + s.pending
  BY <1>5, <1>7, <1>11 DEF n, z
<1> QED BY <1>1, <1>4, <1>6, <1>8, <1>9, <1>12, RelayRoom DEF z

-----------------------------------------------------------------------------
(***************************************************************************)
(* Queues that are moved, filtered or lost                                  *)
(***************************************************************************)
\* What the connection counts is what it counted, if it still reads.
CountsOn(k, e) ==
    /\ e.pc = "none" => k.pc = "none"
    /\ e.pc \in Living => k.pc \in Living /\ e.unacked = k.unacked

LEMMA LessRoom ==
    ASSUME Typed, Typed', NEW d \in Conns, BoundedAt(d), tunnel'[d] = tunnel[d], CountsOn(conn[d], conn'[d]),
           Bytes(uplink', "data", d) + Bytes(post', "data", d) <= Bytes(uplink, "data", d) + Bytes(post, "data", d),
           Bytes(bulk', "ack", d) + Bytes(late', "ack", d) <= Bytes(bulk, "ack", d) + Bytes(late, "ack", d)
    PROVE  BoundedAt(d)'
<1> DEFINE s == tunnel[d]
           x == Bytes(uplink, "data", d)
           y == Bytes(post, "data", d)
           z == Bytes(s.in, "data", d)
           v == s.pending
           p == Bytes(bulk, "ack", d)
           q == Bytes(late, "ack", d)
           e == Bytes(uplink', "data", d)
           f == Bytes(post', "data", d)
           g == Bytes(bulk', "ack", d)
           j == Bytes(late', "ack", d)
           a == x + y + z
           b == e + f + z
           h == v + p + q
           i == v + g + j
<1>1. s \in Tunnels BY NowTyped
<1>2. uplink \in Seq(Msgs) /\ post \in Seq(Msgs) /\ bulk \in Seq(Msgs) /\ late \in Seq(Msgs) BY QueuesAre
<1>3. bulk' \in Seq(Msgs) /\ late' \in Seq(Msgs) /\ post' \in Seq(Msgs) /\ uplink' \in Seq(Msgs) BY NextTyped
<1>4. x \in Nat /\ y \in Nat /\ z \in Nat BY <1>1, <1>2, AboveTyped
<1>5. v \in Nat /\ p \in Nat /\ q \in Nat BY <1>1, <1>2, BehindTyped
<1>6. e \in Nat /\ f \in Nat BY <1>1, <1>3, AboveTyped
<1>7. g \in Nat /\ j \in Nat BY <1>1, <1>3, BehindTyped
<1>8. e + f <= x + y /\ g + j <= p + q OBVIOUS
<1>9. a = Above(d, s, uplink, post) /\ h = Behind(d, s, bulk, late) BY DEF Above, Behind
<1>10. b = Above(d, tunnel'[d], uplink', post') /\ i = Behind(d, tunnel'[d], bulk', late') BY DEF Above, Behind
<1> HIDE DEF x, y, z, v, p, q, e, f, g, j
<1>11. a \in Nat /\ b \in Nat /\ h \in Nat /\ i \in Nat /\ b <= a BY <1>4, <1>5, <1>6, <1>7, <1>8
<1>12. b + i <= a + h
  <2>1. b + i = (e + f) + z + v + (g + j) BY <1>4, <1>5, <1>6, <1>7
  <2>2. a + h = (x + y) + z + v + (p + q) BY <1>4, <1>5
  <2> QED BY <1>4, <1>5, <1>6, <1>7, <1>8, <2>1, <2>2
<1> HIDE DEF a, b, h, i
<1>13. conn'[d].pc = "none" => conn[d].pc = "none" BY DEF CountsOn
<1>14. conn'[d].pc \in Living => conn[d].pc \in Living /\ conn'[d].unacked = conn[d].unacked BY DEF CountsOn
<1> QED BY <1>9, <1>10, <1>11, <1>12, <1>13, <1>14, RoomOn

\* A part of a queue has no more bytes.
LEMMA BytesLess ==
    ASSUME NEW q \in Seq(Msgs), NEW K, NEW t, NEW c PROVE Bytes(Kept(q, K), t, c) <= Bytes(q, t, c)
<1> DEFINE P == {r \in Seq(Msgs) : Bytes(Kept(r, K), t, c) <= Bytes(r, t, c)}
<1>1. <<>> \in P
  <2>1. <<>> \in Seq(Msgs) OBVIOUS
  <2>2. Bytes(<<>>, t, c) = 0 /\ Kept(<<>>, K) = <<>> BY BytesEmpty, KeptEmpty
  <2> QED BY <2>1, <2>2
<1>2. ASSUME NEW r \in P, NEW m \in Msgs PROVE Append(r, m) \in P
  <2> DEFINE k == Kept(r, K)
             n == Amount(m, t, c)
             x == Bytes(k, t, c)
             y == Bytes(r, t, c)
  <2>1. r \in Seq(Msgs) /\ Append(r, m) \in Seq(Msgs) /\ k \in Seq(Msgs) BY KeptTyped
  <2>2. x <= y OBVIOUS
  <2>3. Kept(Append(r, m), K) = IF m \in K THEN Append(k, m) ELSE k BY <2>1, KeptAppend
  <2> HIDE DEF P, k
  <2>4. Bytes(Append(r, m), t, c) = y + n BY <2>1, BytesAppend
  <2>5. Bytes(Append(k, m), t, c) = x + n BY <2>1, BytesAppend
  <2>6. n \in Nat /\ x \in Nat /\ y \in Nat BY <2>1, AddsOne
  <2> HIDE DEF n, x, y
  <2>7. x + n <= y + n /\ x <= y + n BY <2>2, <2>6
  <2>8. Bytes(Kept(Append(r, m), K), t, c) <= Bytes(Append(r, m), t, c)
    <3>1. CASE m \in K BY <2>3, <2>4, <2>5, <2>7, <3>1
    <3>2. CASE m \notin K BY <2>3, <2>4, <2>7, <3>2 DEF x
    <3> QED BY <3>1, <3>2
  <2> QED BY <2>1, <2>8 DEF P
<1>3. P = Seq(Msgs)
  <2> HIDE DEF P
  <2>1. P \in SUBSET Seq(Msgs) BY DEF P
  <2> QED BY <1>1, <1>2, <2>1, AppendByAppend
<1> QED BY <1>3

LEMMA LateRoom == ASSUME Typed, Typed', Room, LateSend \/ LateTimesOut PROVE Room'
<1>1. UNCHANGED <<tunnel, conn, closed, uplink, post, agent>> BY LateMoves
<1>2. PICK i \in 1 .. Len(late) :
        /\ late' = RemoveAt(late, i) /\ late[i] \in LateMsgs
        /\ \/ bulk' = Append(bulk, late[i]) /\ lost' = lost
           \/ bulk' = bulk /\ lost' = Append(lost, late[i])
  BY LateMoves
<1> DEFINE m == late[i]
<1>3. m \in Msgs BY <1>2, Kinds DEF Msgs
<1>4. bulk \in Seq(Msgs) /\ late \in Seq(Msgs) BY QueuesAre
<1>5. i \in 1 .. Len(late) /\ late' = RemoveAt(late, i) BY <1>2
<1>6. ASSUME NEW d \in Conns PROVE BoundedAt(d)'
  <2> DEFINE n == Amount(m, "ack", d)
             p == Bytes(bulk, "ack", d)
             q == Bytes(late, "ack", d)
             g == Bytes(bulk', "ack", d)
             j == Bytes(late', "ack", d)
  <2>1. /\ late' \in Seq(Msgs)
        /\ m.conn # d => Part(late', d) = Part(late, d)
        /\ m.conn = d => \A y : Bytes(Part(late, d), y, d) = Bytes(Part(late', d), y, d) + Amount(m, y, d)
    BY <1>4, <1>5, PartWithout, ZenonT(60)
  <2>2. \A y : Bytes(Part(late, d), y, d) = Bytes(late, y, d) /\ Bytes(Part(late', d), y, d) = Bytes(late', y, d)
    BY <1>4, <2>1, PartBytes
  <2>3. p \in Nat /\ n \in Nat BY <1>3, <1>4, AddsOne
  <2>4. j \in Nat BY <2>1, BytesTyped
  <2>5. g \in {p, p + n}
    <3>1. Bytes(Append(bulk, m), "ack", d) = p + n BY <1>3, <1>4, AddsOne
    <3>2. bulk' = Append(bulk, m) \/ bulk' = bulk BY <1>2
    <3> HIDE DEF m, n
    <3> QED BY <3>1, <3>2
  <2>6. q = j + n
    <3>1. CASE m.conn = d BY <2>1, <2>2, <3>1
    <3>2. CASE m.conn # d
      <4>1. n = 0 BY <3>2 DEF Amount
      <4>2. q = j BY <2>1, <2>2, <3>2
      <4> QED BY <2>4, <4>1, <4>2
    <3> QED BY <3>1, <3>2
  <2> HIDE DEF n, p, q, g, j
  <2>7. g + j <= p + q BY <2>3, <2>4, <2>5, <2>6
  <2>8. BoundedAt(d) BY DEF Room
  <2>9. CountsOn(conn[d], conn'[d]) BY <1>1 DEF CountsOn
  <2>10. Bytes(uplink', "data", d) + Bytes(post', "data", d) <= Bytes(uplink, "data", d) + Bytes(post, "data", d)
    <3>1. uplink \in Seq(Msgs) /\ post \in Seq(Msgs) BY QueuesAre
    <3>2. Bytes(uplink, "data", d) \in Nat /\ Bytes(post, "data", d) \in Nat BY <3>1, BytesTyped
    <3> QED BY <1>1, <3>2
  <2>11. Typed /\ Typed' /\ tunnel'[d] = tunnel[d] BY <1>1
  <2> QED BY <2>7, <2>8, <2>9, <2>10, <2>11, LessRoom DEF p, q, g, j
<1> QED BY <1>6 DEF Room

\* A batch is cut off the queue of the uplink.
LEMMA UplinkTakesRoom == ASSUME Typed, Typed', Order, Room, UplinkTakes PROVE Room'
<1>1. UNCHANGED <<tunnel, conn, bulk, late>> /\ ~posting BY DEF UplinkTakes, relayVars, downlink
<1>2. post = <<>> BY <1>1 DEF Order
<1>3. PICK n \in 0 .. Len(uplink) : Batches(n) BY TakesTyped
<1>4. uplink \in Seq(UpMsgs) BY DEF Typed, AgentTyped
<1> DEFINE r == SubSeq(uplink, 1, n)
           w == SubSeq(uplink, n + 1, Len(uplink))
<1>5. r \in Seq(UpMsgs) /\ w \in Seq(UpMsgs) /\ uplink = r \o w BY <1>4, SplitAt
<1>6. post' = Open(r) /\ uplink' = w BY <1>3 DEF Batches
<1>7. PICK Q : Open(r) = Kept(r, Q) BY <1>5, OpenIsKept
<1> HIDE DEF r, w
<1>8. r \in Seq(Msgs) /\ w \in Seq(Msgs) BY <1>5, AllMsgs
<1>9. ASSUME NEW d \in Conns PROVE BoundedAt(d)'
  <2> DEFINE x == Bytes(r, "data", d)
             y == Bytes(w, "data", d)
             e == Bytes(post', "data", d)
             u == Bytes(uplink, "data", d)
             f == Bytes(post, "data", d)
  <2>1. e <= x BY <1>6, <1>7, <1>8, BytesLess
  <2>2. x \in Nat /\ y \in Nat BY <1>8, BytesTyped
  <2>3. u = x + y BY <1>5, <1>8, BytesConcat
  <2>4. f = 0 BY <1>2, BytesEmpty
  <2>5. e \in Nat
    <3>1. post' \in Seq(Msgs) BY NextTyped
    <3> QED BY <3>1, BytesTyped
  <2>6. Bytes(uplink', "data", d) = y BY <1>6
  <2> HIDE DEF x, y, e, u, f
  <2>7. y + e <= u + f BY <2>1, <2>2, <2>3, <2>4, <2>5
  <2>8. Bytes(uplink', "data", d) + Bytes(post', "data", d) <= Bytes(uplink, "data", d) + Bytes(post, "data", d)
    BY <2>6, <2>7 DEF e, u, f
  <2>9. Bytes(bulk', "ack", d) + Bytes(late', "ack", d) <= Bytes(bulk, "ack", d) + Bytes(late, "ack", d)
    <3>1. bulk \in Seq(Msgs) /\ late \in Seq(Msgs) BY QueuesAre
    <3>2. Bytes(bulk, "ack", d) \in Nat /\ Bytes(late, "ack", d) \in Nat BY <3>1, BytesTyped
    <3> QED BY <1>1, <3>2
  <2>10. CountsOn(conn[d], conn'[d]) BY <1>1 DEF CountsOn
  <2>11. BoundedAt(d) BY DEF Room
  <2>12. tunnel'[d] = tunnel[d] BY <1>1
  <2> QED BY <2>8, <2>9, <2>10, <2>11, <2>12, LessRoom
<1> QED BY <1>9 DEF Room

\* Messages and connections are lost.
LEMMA LostRoom ==
    ASSUME Typed, Typed', Room, tunnel' = tunnel, bulk' \in {bulk, <<>>}, late' \in {late, <<>>},
           uplink' \in {uplink, <<>>}, post' \in {post, <<>>}, \A d \in Conns : CountsOn(conn[d], conn'[d])
    PROVE  Room'
<1>1. ASSUME NEW d \in Conns PROVE BoundedAt(d)'
  <2> DEFINE x == Bytes(uplink, "data", d)
             y == Bytes(post, "data", d)
             p == Bytes(bulk, "ack", d)
             q == Bytes(late, "ack", d)
             e == Bytes(uplink', "data", d)
             f == Bytes(post', "data", d)
             g == Bytes(bulk', "ack", d)
             j == Bytes(late', "ack", d)
  <2>1. uplink \in Seq(Msgs) /\ post \in Seq(Msgs) /\ bulk \in Seq(Msgs) /\ late \in Seq(Msgs) BY QueuesAre
  <2>2. x \in Nat /\ y \in Nat /\ p \in Nat /\ q \in Nat BY <2>1, BytesTyped
  <2>3. e \in {x, 0} /\ f \in {y, 0} /\ g \in {p, 0} /\ j \in {q, 0}
    <3>1. Bytes(<<>>, "data", d) = 0 /\ Bytes(<<>>, "ack", d) = 0 BY BytesEmpty
    <3>2. e \in {x, 0} BY <3>1
    <3>3. f \in {y, 0} BY <3>1
    <3>4. g \in {p, 0} BY <3>1
    <3>5. j \in {q, 0} BY <3>1
    <3> QED BY <3>2, <3>3, <3>4, <3>5
  <2> HIDE DEF x, y, p, q, e, f, g, j
  <2>4. e + f <= x + y BY <2>2, <2>3
  <2>5. g + j <= p + q BY <2>2, <2>3
  <2>6. BoundedAt(d) /\ CountsOn(conn[d], conn'[d]) /\ tunnel'[d] = tunnel[d] BY DEF Room
  <2> QED BY <2>4, <2>5, <2>6, LessRoom DEF x, y, p, q, e, f, g, j
<1> QED BY <1>1 DEF Room

LEMMA NoneCounts == ASSUME NEW how \in {"gone", "down"}, Typed,
        conn' = [c \in Conns |-> IF c \in Records THEN Dropped(c, how) ELSE conn[c]]
    PROVE \A d \in Conns : CountsOn(conn[d], conn'[d])
<1> SUFFICES ASSUME NEW d \in Conns PROVE CountsOn(conn[d], conn'[d]) OBVIOUS
<1>1. conn'[d] = IF d \in Records THEN Dropped(d, how) ELSE conn[d] BY AllDropped
<1>2. Dropped(d, how).pc = how BY EndFields
<1> QED BY <1>1, <1>2 DEF CountsOn, Living

LEMMA EndsRoom == ASSUME Typed, Typed', Room, PostFails \/ SessionEnds PROVE Room'
<1>1. CASE PostFails
  <2>1. /\ UNCHANGED <<tunnel, bulk, late, uplink>> /\ post' = <<>>
        /\ conn' = [c \in Conns |-> IF c \in Records THEN Dropped(c, "gone") ELSE conn[c]]
    BY <1>1 DEF PostFails, relayVars, downlink, Aborted
  <2>2. \A d \in Conns : CountsOn(conn[d], conn'[d]) BY <2>1, NoneCounts
  <2> QED BY <2>1, <2>2, LostRoom
<1>2. CASE SessionEnds
  <2>1. /\ tunnel' = tunnel /\ bulk' = <<>> /\ late' = <<>> /\ uplink' = <<>> /\ post' = <<>>
        /\ conn' = [c \in Conns |-> IF c \in Records THEN Dropped(c, "down") ELSE conn[c]]
    BY <1>2 DEF SessionEnds, relayVars
  <2>2. \A d \in Conns : CountsOn(conn[d], conn'[d]) BY <2>1, NoneCounts
  <2> QED BY <2>1, <2>2, LostRoom
<1> QED BY <1>1, <1>2

LEMMA RestRoom ==
    ASSUME Typed, Typed', Room,
           \/ LoseDownlink \/ SessionBegins
           \/ Uncount \/ SweepEnds \/ PostSucceeds \/ SessionRemoved \/ RemovalSweeps \/ UNCHANGED vars
           \/ \E s \in streams : StreamDropped(s)
    PROVE  Room'
<1>1. UNCHANGED <<tunnel, conn, uplink, post>> /\ bulk' \in {bulk, <<>>} /\ late' \in {late, <<>>}
  <2>1. CASE Uncount \/ SweepEnds BY <2>1 DEF Uncount, SweepEnds, downlink, agentVars, batch
  <2>2. CASE PostSucceeds BY <2>2 DEF PostSucceeds, relayVars, downlink, agentVars
  <2>3. CASE SessionRemoved \/ RemovalSweeps BY <2>3 DEF SessionRemoved, RemovalSweeps, downlink, agentVars, batch
  <2>4. CASE UNCHANGED vars BY <2>4 DEF vars, relayVars, downlink, agentVars, batch
  <2>5. CASE \E s \in streams : StreamDropped(s)
    <3>1. PICK s \in streams : StreamDropped(s) BY <2>5
    <3> QED BY <3>1 DEF StreamDropped, downlink, agentVars, batch
  <2>6. CASE LoseDownlink BY <2>6 DEF LoseDownlink, relayVars, agentVars, batch
  <2>7. CASE SessionBegins BY <2>7 DEF SessionBegins, downlink, agentVars, batch
  <2> QED BY <2>1, <2>2, <2>3, <2>4, <2>5, <2>6, <2>7
<1>2. \A d \in Conns : CountsOn(conn[d], conn'[d]) BY <1>1 DEF CountsOn
<1> QED BY <1>1, <1>2, LostRoom

-----------------------------------------------------------------------------
(***************************************************************************)
(* The agent's steps                                                        *)
(***************************************************************************)
\* What may be put into the uplink's queue
LEMMA QueuedBytes ==
    ASSUME Typed, NEW m \in UpMsgs, uplink' \in {uplink, Append(uplink, m)}, NEW d
    PROVE  /\ Bytes(uplink, "data", d) \in Nat /\ Amount(m, "data", d) \in Nat
           /\ Bytes(uplink', "data", d) \in {Bytes(uplink, "data", d), Bytes(uplink, "data", d) + Amount(m, "data", d)}
<1>1. uplink \in Seq(Msgs) /\ m \in Msgs BY QueuesAre DEF Msgs
<1>2. Bytes(Append(uplink, m), "data", d) = Bytes(uplink, "data", d) + Amount(m, "data", d) BY <1>1, AddsOne
<1>3. Bytes(uplink, "data", d) \in Nat /\ Amount(m, "data", d) \in Nat BY <1>1, AddsOne
<1>4. CASE uplink' = uplink BY <1>3, <1>4
<1>5. CASE uplink' = Append(uplink, m) BY <1>2, <1>3, <1>5
<1> QED BY <1>4, <1>5

\* A connection's step: nothing but data it reads is added.
LEMMA SpokenRoom ==
    ASSUME Typed, Typed', NEW c \in Conns, BoundedAt(c), tunnel'[c] = tunnel[c], post' = post, bulk' = bulk, late' = late,
           NEW n \in Nat, Bytes(uplink', "data", c) \in {Bytes(uplink, "data", c), Bytes(uplink, "data", c) + n},
           \/ n = 0 /\ CountsOn(conn[c], conn'[c])
           \/ /\ conn[c].pc \in Living /\ conn'[c].pc \in Living
              /\ conn'[c].unacked = conn[c].unacked + n /\ conn[c].unacked + n <= Window
    PROVE  BoundedAt(c)'
<1> DEFINE k == conn[c]
           e == conn'[c]
           x == Bytes(uplink, "data", c)
           y == Bytes(post, "data", c)
           z == Bytes(tunnel[c].in, "data", c)
           f == Bytes(uplink', "data", c)
           h == Behind(c, tunnel[c], bulk, late)
           v == k.unacked
<1>1. tunnel[c] \in Tunnels /\ k \in Ends BY NowTyped
<1>2. uplink \in Seq(Msgs) /\ post \in Seq(Msgs) /\ bulk \in Seq(Msgs) /\ late \in Seq(Msgs) BY QueuesAre
<1>3. x \in Nat /\ y \in Nat /\ z \in Nat /\ h \in Nat BY <1>1, <1>2, AboveTyped, BehindTyped
<1>4. v \in Nat BY <1>1, EndField
<1>5. Window \in Nat BY TunnelAssumption
<1>6. f \in {x, x + n} OBVIOUS
<1>7. Bounded(k, x + y + z, h) BY DEF BoundedAt, Above
<1>8. Above(c, tunnel'[c], uplink', post') = f + y + z /\ Behind(c, tunnel'[c], bulk', late') = h BY DEF Above, Behind
<1>9. CASE n = 0 /\ CountsOn(k, e)
  <2>1. f = x BY <1>3, <1>6, <1>9
  <2>2. Bounded(e, x + y + z, h) BY <1>7, <1>9 DEF Bounded, CountsOn
  <2> QED BY <1>8, <2>1, <2>2, RoomSeen
<1>10. CASE k.pc \in Living /\ e.pc \in Living /\ e.unacked = v + n /\ v + n <= Window
  <2>1. x + y + z + h <= v BY <1>7, <1>10 DEF Bounded
  <2>2. e.pc # "none" BY <1>10 DEF Living
  <2>3. e.unacked = v + n BY <1>10
  <2> HIDE DEF x, y, z, f, h, v, e
  <2>4. f + y + z + h <= v + n /\ f + y + z <= v + n BY <1>3, <1>4, <1>6, <2>1
  <2>5. f + y + z <= Window
    <3>1. f \in Nat BY <1>3, <1>6
    <3> QED BY <1>3, <1>4, <1>5, <1>10, <2>4, <3>1
  <2>6. Bounded(e, f + y + z, h) BY <1>10, <2>2, <2>3, <2>4, <2>5 DEF Bounded
  <2> QED BY <1>8, <2>6, RoomSeen DEF e
<1> QED BY <1>9, <1>10

\* What a connection's tasks do counts the bytes they read, and no others.
LEMMA ConnCounts ==
    ASSUME NEW c \in Conns, conn[c] \in Ends, c \in Records, NEW m, NEW r,
           SetPc(c, m, r) \/ Reads(c, m, r) \/ Writes(c, m, r)
    PROVE  \/ (uplink' = uplink \/ m.type # "data") /\ CountsOn(conn[c], r)
           \/ /\ m.type = "data" /\ conn[c].pc \in Living /\ r.pc \in Living
              /\ r.unacked = conn[c].unacked + m.bytes /\ conn[c].unacked + m.bytes <= Window
<1> DEFINE k == conn[c]
<1>1. CASE SetPc(c, m, r)
  <2>1. \A t : Ctrl(t, c).type = t BY DEF Ctrl, Msg
  <2>2. uplink' = uplink \/ m.type # "data" BY <1>1, <2>1 DEF SetPc
  <2>3. Dropped(c, "gone").pc = "gone" BY EndFields
  <2>4. \A x \in {"running", "failing", "closing", "reported"} :
            [k EXCEPT !.pc = x].pc = x /\ [k EXCEPT !.pc = x].unacked = k.unacked BY DEF Ends
  <2> HIDE DEF k
  <2>5. CountsOn(k, r) BY <1>1, <2>3, <2>4 DEF SetPc, CountsOn, Living, k
  <2> QED BY <2>2, <2>5 DEF k
<1>2. CASE Reads(c, m, r)
  <2>1. k.pc = "running" BY <1>2 DEF Reads
  <2>2. CASE \E n \in Nat \ {0} :
            /\ k.unacked + n <= Window
            /\ m = Msg("data", c, k.outSeq, n)
            /\ r = [[k EXCEPT !.outSeq = k.outSeq + 1] EXCEPT !.unacked = k.unacked + n]
    <3>1. PICK n \in Nat :
            /\ k.unacked + n <= Window
            /\ m = Msg("data", c, k.outSeq, n)
            /\ r = [[k EXCEPT !.outSeq = k.outSeq + 1] EXCEPT !.unacked = k.unacked + n]
      BY <2>2
    <3>2. m.type = "data" /\ m.bytes = n BY <3>1 DEF Msg
    <3>3. r.pc = k.pc /\ r.unacked = k.unacked + n BY <3>1 DEF Ends
    <3> QED BY <2>1, <3>1, <3>2, <3>3 DEF Living
  <2>3. CASE m = Ctrl("eof", c) /\ r = [k EXCEPT !.readDone = TRUE]
    <3>1. m.type = "eof" BY <2>3 DEF Ctrl, Msg
    <3>2. r.pc = k.pc /\ r.unacked = k.unacked BY <2>3 DEF Ends
    <3> QED BY <3>1, <3>2 DEF CountsOn
  <2> QED BY <1>2, <2>2, <2>3 DEF Reads
<1>3. CASE Writes(c, m, r)
  <2>1. uplink' = uplink \/ m.type # "data" BY <1>3 DEF Writes, Msg
  <2>2. k.pc = "running" BY <1>3 DEF Writes
  <2>3. CASE r = [[k EXCEPT !.in = <<>>] EXCEPT !.writeDone = TRUE]
    <3>1. r.pc = k.pc /\ r.unacked = k.unacked BY <2>3 DEF Ends
    <3> QED BY <2>1, <3>1 DEF CountsOn
  <2>4. CASE r = [[[k EXCEPT !.in = Tail(k.in)] EXCEPT !.writing = Head(k.in).bytes] EXCEPT !.inSeq = k.inSeq + 1]
    <3>1. r.pc = k.pc /\ r.unacked = k.unacked BY <2>4 DEF Ends
    <3> QED BY <2>1, <3>1 DEF CountsOn
  <2>5. CASE r = [[k EXCEPT !.in = Tail(k.in)] EXCEPT !.pc = "failing"]
    <3>1. r.pc = "failing" BY <2>5 DEF Ends
    <3> QED BY <2>1, <3>1 DEF CountsOn, Living
  <2>6. CASE r = [k EXCEPT !.writing = 0]
    <3>1. r.pc = k.pc /\ r.unacked = k.unacked BY <2>6 DEF Ends
    <3> QED BY <2>1, <3>1 DEF CountsOn
  <2> QED BY <1>3, <2>3, <2>4, <2>5, <2>6 DEF Writes
<1> QED BY <1>1, <1>2, <1>3

LEMMA ConnDoesRoom == ASSUME Typed, Typed', Room, NEW c \in Conns, ConnDoes(c) PROVE Room'
<1>1. PICK r \in Ends, m \in UpMsgs :
        /\ c \in Records /\ Talks(c, r, m) /\ m.conn = c
        /\ SetPc(c, m, r) \/ Reads(c, m, r) \/ Writes(c, m, r)
  BY DEF ConnDoes
<1>2. conn \in [Conns -> Ends] BY DEF Typed, AgentTyped
<1>3. /\ UNCHANGED <<tunnel, bulk, late, post>>
      /\ conn' = [conn EXCEPT ![c] = r] /\ uplink' \in {uplink, Append(uplink, m)}
  BY <1>1 DEF Talks, SetConn, relayVars, downlink, batch
<1>4. conn'[c] = r /\ \A d \in Conns \ {c} : conn'[d] = conn[d] BY <1>2, <1>3
<1>5. \A d \in Conns : BoundedAt(d) BY DEF Room
<1>6. ASSUME NEW d \in Conns \ {c} PROVE BoundedAt(d)'
  <2>1. Amount(m, "data", d) = 0 BY <1>1 DEF Amount
  <2>2. Bytes(uplink', "data", d) = Bytes(uplink, "data", d) BY <1>3, <2>1, QueuedBytes
  <2>3. tunnel'[d] = tunnel[d] BY <1>3
  <2> QED BY <1>3, <1>4, <1>5, <2>2, <2>3, RoomSame
<1>7. BoundedAt(c)'
  <2> DEFINE n == Amount(m, "data", c)
             x == Bytes(uplink, "data", c)
  <2>1. x \in Nat /\ n \in Nat /\ Bytes(uplink', "data", c) \in {x, x + n} BY <1>3, QueuedBytes
  <2>2. tunnel'[c] = tunnel[c] BY <1>3
  <2>3. CASE (uplink' = uplink \/ m.type # "data") /\ CountsOn(conn[c], r)
    <3>1. m.type # "data" => n = 0 BY DEF Amount
    <3>2. Bytes(uplink', "data", c) \in {x, x + 0}
      <4> HIDE DEF n
      <4> QED BY <2>1, <2>3, <3>1
    <3>3. 0 \in Nat OBVIOUS
    <3> QED BY <1>3, <1>4, <1>5, <2>2, <2>3, <3>2, <3>3, SpokenRoom
  <2>4. CASE /\ m.type = "data" /\ conn[c].pc \in Living /\ r.pc \in Living
             /\ r.unacked = conn[c].unacked + m.bytes /\ conn[c].unacked + m.bytes <= Window
    <3>1. n = m.bytes BY <1>1, <2>4 DEF Amount
    <3> HIDE DEF n
    <3> QED BY <1>3, <1>4, <1>5, <2>1, <2>2, <2>4, <3>1, SpokenRoom
  <2> QED BY <1>1, <1>2, <2>3, <2>4, ConnCounts
<1> QED BY <1>6, <1>7 DEF Room

\* What the main loop leaves of the bytes of the tunnels
LEMMA ReceivedBytes ==
    ASSUME Typed, AgentReceives, NEW m, m = Head(bulk), NEW c, c = m.conn
    PROVE  /\ m \in DownMsgs /\ c \in Conns /\ Handled(m, c)
           /\ UNCHANGED <<tunnel, late, post>> /\ \A d \in Conns \ {c} : conn'[d] = conn[d]
           /\ \A d \in Conns : Bytes(uplink', "data", d) = Bytes(uplink, "data", d)
           /\ \A d \in Conns : /\ Bytes(bulk, "ack", d) = Amount(m, "ack", d) + Bytes(bulk', "ack", d)
                               /\ Amount(m, "ack", d) \in Nat /\ Bytes(bulk', "ack", d) \in Nat
<1>1. /\ bulk # <<>> /\ m \in DownMsgs /\ c \in Conns /\ bulk' = Tail(bulk)
      /\ UNCHANGED agentElse /\ Handled(m, c)
  BY ReceiveCases
<1>2. UNCHANGED <<tunnel, late, post>> BY <1>1 DEF agentElse, relayVars, batch
<1>3. bulk \in Seq(Msgs) /\ m \in Msgs BY <1>1, QueuesAre DEF Msgs
<1>4. conn \in [Conns -> Ends] BY DEF Typed, AgentTyped
<1>5. \A d \in Conns \ {c} : conn'[d] = conn[d] BY <1>1, <1>4 DEF Handled
<1> DEFINE x == Ctrl("error", c)
<1>6. uplink' \in {uplink, Append(uplink, x)} BY <1>1 DEF Handled
<1>7. x \in UpMsgs /\ x.type = "error" BY <1>1, CtrlTyped DEF Ctrl, Msg
<1> HIDE DEF x
<1>8. \A d \in Conns : Bytes(uplink', "data", d) = Bytes(uplink, "data", d)
  <2> SUFFICES ASSUME NEW d \in Conns PROVE Bytes(uplink', "data", d) = Bytes(uplink, "data", d) OBVIOUS
  <2>1. Amount(x, "data", d) = 0 BY <1>7 DEF Amount
  <2>2. /\ Bytes(uplink, "data", d) \in Nat
        /\ Bytes(uplink', "data", d) \in {Bytes(uplink, "data", d), Bytes(uplink, "data", d) + Amount(x, "data", d)}
    BY <1>6, <1>7, QueuedBytes
  <2> QED BY <2>1, <2>2
<1>9. bulk' \in Seq(Msgs) BY <1>1, <1>3, TailLacks
<1>10. \A d \in Conns : Bytes(bulk, "ack", d) = Amount(m, "ack", d) + Bytes(bulk', "ack", d)
  <2> SUFFICES ASSUME NEW d \in Conns PROVE Bytes(bulk, "ack", d) = Amount(m, "ack", d) + Bytes(bulk', "ack", d) OBVIOUS
  <2> QED BY <1>1, <1>3, BytesHead
<1>11. \A d \in Conns : Amount(m, "ack", d) \in Nat /\ Bytes(bulk', "ack", d) \in Nat
  BY <1>3, <1>9, AllMsgs, BytesTyped DEF Amount
<1> QED BY <1>1, <1>2, <1>5, <1>8, <1>10, <1>11

LEMMA NothingLeft ==
    ASSUME NEW a \in Nat, NEW v \in Nat, NEW n \in Nat, NEW p \in Nat, NEW q \in Nat, a + (v + (n + p) + q) = 0
    PROVE  a = 0 /\ v = 0 /\ p = 0 /\ q = 0
<1>1. a <= 0 /\ v <= 0 /\ p <= 0 /\ q <= 0 OBVIOUS
<1>2. \A x \in Nat : x <= 0 => x = 0 OBVIOUS
<1> QED BY <1>1, <1>2

\* A connection that counts on or confirms
LEMMA ReceivedRoom ==
    ASSUME Typed, Typed', NEW d \in Conns, BoundedAt(d), UNCHANGED <<tunnel, late, post>>,
           Bytes(uplink', "data", d) = Bytes(uplink, "data", d),
           NEW n \in Nat, Bytes(bulk', "ack", d) \in Nat, Bytes(bulk, "ack", d) = n + Bytes(bulk', "ack", d),
           \/ CountsOn(conn[d], conn'[d])
           \/ conn[d].pc = "none" /\ conn'[d].pc = "connecting" /\ conn'[d].unacked = 0
           \/ conn'[d].pc = conn[d].pc /\ conn'[d].unacked = Minus(conn[d].unacked, n)
    PROVE  BoundedAt(d)'
<1> DEFINE k == conn[d]
           e == conn'[d]
           a == Above(d, tunnel[d], uplink, post)
           v == tunnel[d].pending
           p == Bytes(bulk', "ack", d)
           q == Bytes(late, "ack", d)
           u == k.unacked
<1>1. tunnel[d] \in Tunnels /\ k \in Ends BY NowTyped
<1>2. uplink \in Seq(Msgs) /\ post \in Seq(Msgs) /\ bulk \in Seq(Msgs) /\ late \in Seq(Msgs) BY QueuesAre
<1>3. a \in Nat /\ v \in Nat /\ p \in Nat /\ q \in Nat BY <1>1, <1>2, AboveTyped, BehindTyped
<1>4. u \in Nat BY <1>1, EndField
<1>5. Window \in Nat BY TunnelAssumption
<1>6. Bounded(k, a, v + (n + p) + q) BY DEF BoundedAt, Behind
<1>7. Above(d, tunnel'[d], uplink', post') = a /\ Behind(d, tunnel'[d], bulk', late') = v + p + q BY DEF Above, Behind
<1> HIDE DEF a, v, p, q
<1>8. Bounded(e, a, v + p + q)
  <2>1. a <= Window BY <1>6 DEF Bounded
  <2>2. k.pc = "none" => a + (v + p + q) = 0 /\ a = 0
    <3>1. k.pc = "none" => a + (v + (n + p) + q) = 0 BY <1>6 DEF Bounded
    <3>2. a + (v + (n + p) + q) = 0 => a = 0 /\ v = 0 /\ p = 0 /\ q = 0 BY <1>3, NothingLeft
    <3>3. a = 0 /\ v = 0 /\ p = 0 /\ q = 0 => a + (v + p + q) = 0 /\ a = 0 OBVIOUS
    <3> QED BY <3>1, <3>2, <3>3
  <2>3. k.pc \in Living => a + (v + (n + p) + q) <= u /\ u <= Window BY <1>6 DEF Bounded
  <2> HIDE DEF u
  <2>4. a + (v + (n + p) + q) <= u => a + (v + p + q) <= u /\ ~(u < n) /\ a + (v + p + q) <= u - n BY <1>3, <1>4
  <2>5. CASE CountsOn(k, e)
    <3>1. e.pc = "none" => a + (v + p + q) = 0 BY <2>2, <2>5 DEF CountsOn
    <3>2. e.pc \in Living => a + (v + p + q) <= e.unacked /\ e.unacked <= Window BY <2>3, <2>4, <2>5 DEF CountsOn, u
    <3> QED BY <2>1, <3>1, <3>2 DEF Bounded
  <2>6. CASE k.pc = "none" /\ e.pc = "connecting" /\ e.unacked = 0
    <3>1. a + (v + p + q) <= 0 BY <1>3, <2>2, <2>6
    <3>2. 0 <= Window BY <1>5
    <3> QED BY <2>1, <2>6, <3>1, <3>2 DEF Bounded, Living
  <2>7. CASE e.pc = k.pc /\ e.unacked = Minus(u, n)
    <3>1. e.pc = "none" => a + (v + p + q) = 0 BY <2>2, <2>7
    <3>2. e.pc \in Living => a + (v + p + q) <= e.unacked /\ e.unacked <= Window
      <4> SUFFICES ASSUME e.pc \in Living PROVE a + (v + p + q) <= e.unacked /\ e.unacked <= Window OBVIOUS
      <4>1. a + (v + (n + p) + q) <= u /\ u <= Window BY <2>3, <2>7
      <4>2. e.unacked = u - n BY <2>4, <2>7, <4>1 DEF Minus
      <4> HIDE DEF e
      <4> QED BY <1>4, <1>5, <2>4, <4>1, <4>2
    <3> QED BY <2>1, <3>1, <3>2 DEF Bounded
  <2> QED BY <2>5, <2>6, <2>7 DEF u
<1> QED BY <1>7, <1>8, RoomSeen

LEMMA ReceivesRoom == ASSUME Typed, Typed', Life, Order, Room, AgentReceives PROVE Room'
<1>1. PICK m, c : m = Head(bulk) /\ c = m.conn OBVIOUS
<1>2. /\ m \in DownMsgs /\ c \in Conns /\ Handled(m, c)
      /\ UNCHANGED <<tunnel, late, post>> /\ \A d \in Conns \ {c} : conn'[d] = conn[d]
      /\ \A d \in Conns : Bytes(uplink', "data", d) = Bytes(uplink, "data", d)
      /\ \A d \in Conns : /\ Bytes(bulk, "ack", d) = Amount(m, "ack", d) + Bytes(bulk', "ack", d)
                          /\ Amount(m, "ack", d) \in Nat /\ Bytes(bulk', "ack", d) \in Nat
  BY <1>1, ReceivedBytes
<1>3. \A d \in Conns : BoundedAt(d) BY DEF Room
<1>4. ASSUME NEW d \in Conns \ {c} PROVE BoundedAt(d)'
  <2>1. CountsOn(conn[d], conn'[d]) BY <1>2 DEF CountsOn
  <2>2. d \in Conns OBVIOUS
  <2> QED BY <1>2, <1>3, <2>1, <2>2, ReceivedRoom
<1>5. BoundedAt(c)'
  <2> DEFINE k == conn[c]
             e == conn'[c]
             n == Amount(m, "ack", c)
  <2>1. CASE CountsOn(k, e) BY <1>2, <1>3, <2>1, ReceivedRoom
  <2>2. CASE m.type = "open" /\ e = [NoConn EXCEPT !.pc = "connecting"]
    <3>1. k = NoConn BY <1>1, <2>2, ReceiveStill
    <3>2. k.pc = "none" /\ e.pc = "connecting" /\ e.unacked = 0 BY <2>2, <3>1 DEF NoConn
    <3> HIDE DEF k, e, n
    <3>3. conn[c].pc = "none" /\ conn'[c].pc = "connecting" /\ conn'[c].unacked = 0 BY <3>2 DEF k, e
    <3> QED BY <1>2, <1>3, <3>3, ReceivedRoom
  <2>3. CASE EndLess(c, k, e) /\ e.pc \notin Living
    <3>1. e.pc = "none" => k.pc = "none" BY <2>3 DEF EndLess, Young
    <3>2. CountsOn(k, e) BY <2>3, <3>1 DEF CountsOn
    <3> QED BY <2>1, <3>2
  <2>4. CASE e = k
    <3>1. CountsOn(k, e) BY <2>4 DEF CountsOn
    <3> QED BY <2>1, <3>1
  <2>5. k \in Ends BY <1>2, NowTyped
  <2>6. CASE e = [k EXCEPT !.in = Append(k.in, m)]
    <3>1. e.pc = k.pc /\ e.unacked = k.unacked
      <4> HIDE DEF e
      <4> QED BY <2>5, <2>6 DEF Ends
    <3>2. CountsOn(k, e) BY <3>1 DEF CountsOn
    <3> QED BY <2>1, <3>2
  <2>7. CASE m.type = "ack" /\ e = [k EXCEPT !.unacked = Minus(k.unacked, m.bytes)]
    <3>1. e.pc = k.pc /\ e.unacked = Minus(k.unacked, m.bytes)
      <4> HIDE DEF e
      <4> QED BY <2>5, <2>7 DEF Ends
    <3>2. n = m.bytes BY <1>1, <2>7 DEF Amount
    <3>3. conn'[c].pc = conn[c].pc /\ conn'[c].unacked = Minus(conn[c].unacked, n) BY <3>1, <3>2
    <3> HIDE DEF n
    <3> QED BY <1>2, <1>3, <3>3, ReceivedRoom DEF n
  <2>8. Comes(c, m, k, e) BY <1>1, <1>2, HandledEnd
  <2> QED BY <2>2, <2>3, <2>4, <2>6, <2>7, <2>8, Zenon DEF Comes
<1> QED BY <1>4, <1>5 DEF Room

\* The batch has one message less.
LEMMA PostHead ==
    ASSUME Typed, post # <<>>, post' = Tail(post), NEW m, m = Head(post)
    PROVE  /\ m \in Msgs /\ Bytes(post', "data", m.conn) \in Nat /\ Amount(m, "data", m.conn) \in Nat
           /\ Bytes(post, "data", m.conn) = Amount(m, "data", m.conn) + Bytes(post', "data", m.conn)
           /\ \A d \in Conns \ {m.conn} : Bytes(post', "data", d) = Bytes(post, "data", d)
<1>1. post \in Seq(Msgs) BY QueuesAre
<1>2. m \in Msgs /\ post' \in Seq(Msgs) BY <1>1, TailLacks
<1>3. \A d : Bytes(post, "data", d) = Amount(m, "data", d) + Bytes(post', "data", d) BY <1>1, BytesHead
<1>4. \A d : Bytes(post', "data", d) \in Nat BY <1>2, BytesTyped
<1>5. Amount(m, "data", m.conn) \in Nat BY <1>2, AllMsgs DEF Amount
<1>6. ASSUME NEW d \in Conns \ {m.conn} PROVE Bytes(post', "data", d) = Bytes(post, "data", d)
  <2>1. Amount(m, "data", d) = 0 BY DEF Amount
  <2> DEFINE x == Bytes(post', "data", d)
             y == Bytes(post, "data", d)
  <2>2. y = 0 + x /\ x \in Nat BY <1>3, <1>4, <2>1
  <2> HIDE DEF x, y
  <2>3. x = y BY <2>2
  <2> QED BY <2>3 DEF x, y
<1> QED BY <1>2, <1>3, <1>4, <1>5, <1>6

\* What the queue of the tunnel takes over from the batch, if it takes it
LEMMA RoutedRoom ==
    ASSUME Typed, Typed', NEW c \in Conns, BoundedAt(c), UNCHANGED <<conn, uplink>>,
           NEW n \in Nat, Bytes(post', "data", c) \in Nat, Bytes(post, "data", c) = n + Bytes(post', "data", c),
           Bytes(bulk', "ack", c) + Bytes(late', "ack", c) <= Bytes(bulk, "ack", c) + Bytes(late, "ack", c),
           NEW t, tunnel'[c] = t, t.pending <= tunnel[c].pending,
           Bytes(t.in, "data", c) <= Bytes(tunnel[c].in, "data", c) + n
    PROVE  BoundedAt(c)'
<1> DEFINE s == tunnel[c]
           x == Bytes(uplink, "data", c)
           y == Bytes(post, "data", c)
           f == Bytes(post', "data", c)
           z == Bytes(s.in, "data", c)
           e == Bytes(t.in, "data", c)
           v == s.pending
           w == t.pending
           p == Bytes(bulk, "ack", c)
           q == Bytes(late, "ack", c)
           g == Bytes(bulk', "ack", c)
           j == Bytes(late', "ack", c)
           a == x + y + z
           b == x + f + e
           h == v + p + q
           i == w + g + j
<1>1. s \in Tunnels BY NowTyped
<1>2. uplink \in Seq(Msgs) /\ post \in Seq(Msgs) /\ bulk \in Seq(Msgs) /\ late \in Seq(Msgs) BY QueuesAre
<1>3. t \in Tunnels /\ bulk' \in Seq(Msgs) /\ late' \in Seq(Msgs) BY NextTyped
<1>4. x \in Nat /\ y \in Nat /\ z \in Nat BY <1>1, <1>2, AboveTyped
<1>5. v \in Nat /\ p \in Nat /\ q \in Nat BY <1>1, <1>2, BehindTyped
<1>6. e \in Nat BY <1>2, <1>3, AboveTyped
<1>7. w \in Nat /\ g \in Nat /\ j \in Nat BY <1>3, BehindTyped
<1>8. f \in Nat /\ y = n + f /\ g + j <= p + q /\ w <= v /\ e <= z + n OBVIOUS
<1>9. a = Above(c, s, uplink, post) /\ h = Behind(c, s, bulk, late) BY DEF Above, Behind
<1>10. b = Above(c, tunnel'[c], uplink', post') /\ i = Behind(c, tunnel'[c], bulk', late') BY DEF Above, Behind
<1> HIDE DEF x, y, f, z, e, v, w, p, q, g, j
<1>11. a \in Nat /\ b \in Nat /\ h \in Nat /\ i \in Nat BY <1>4, <1>5, <1>6, <1>7, <1>8
<1>12. b <= a
  <2>1. f + e <= y + z BY <1>4, <1>6, <1>8
  <2> QED BY <1>4, <1>6, <1>8, <2>1
<1>13. i <= h BY <1>5, <1>7, <1>8
<1> HIDE DEF a, b, h, i
<1>14. b + i <= a + h BY <1>11, <1>12, <1>13
<1>15. conn'[c] = conn[c] OBVIOUS
<1> QED BY <1>9, <1>10, <1>11, <1>12, <1>14, <1>15, RoomOn

LEMMA RouteRoom == ASSUME Typed, Typed', Windows, Room, Route PROVE Room'
<1>1. PICK m, c : m = Head(post) /\ c = m.conn OBVIOUS
<1>2. /\ post # <<>> /\ m \in UpMsgs /\ c \in Conns /\ post' = Tail(post)
      /\ tunnel[c] \in Tunnels
      /\ UNCHANGED <<agentVars, posting, agent, lost, failures, scene>>
      /\ \/ ~tunnel[c].listed /\ UNCHANGED <<relayVars, downlink, blamed>>
         \/ /\ tunnel[c].listed /\ ~(m.type = "data" /\ Violates(tunnel[c], m))
            /\ Routes(c, m)
            /\ UNCHANGED <<downlink, blamed>>
         \/ /\ tunnel[c].listed /\ m.type = "data" /\ Violates(tunnel[c], m)
            /\ TakeOut(c, Failed(c)) /\ SendNonblocking(c, Ctrl("close", c))
            /\ blamed' = blamed \cup Charges(tunnel[c], m)
  BY <1>1, RouteCases
<1> DEFINE n == Amount(m, "data", c)
           s == tunnel[c]
           h == Ctrl("close", c)
<1>3. /\ m \in Msgs /\ Bytes(post', "data", c) \in Nat /\ n \in Nat
      /\ Bytes(post, "data", c) = n + Bytes(post', "data", c)
      /\ \A d \in Conns \ {c} : Bytes(post', "data", d) = Bytes(post, "data", d)
  BY <1>1, <1>2, PostHead
<1>4. UNCHANGED <<conn, uplink>> BY <1>2 DEF agentVars
<1>5. \A d \in Conns : BoundedAt(d) BY DEF Room
<1>6. h \in Msgs /\ h.conn = c /\ h.type = "close" BY <1>2, Opens
<1>7. Amount(h, "ack", c) = 0 BY <1>6 DEF Amount
<1>8. s.in \in Seq(Msgs) /\ s.pending \in Nat
  <2>1. s.in \in Seq(ReadMsgs) /\ s.pending \in Nat BY <1>2, TunnelField
  <2> QED BY <2>1, AllMsgs
<1>9. Bytes(s.in, "data", c) \in Nat /\ Bytes(<<>>, "data", c) = 0 BY <1>8, BytesTyped, BytesEmpty
<1>10. bulk \in Seq(Msgs) /\ late \in Seq(Msgs) BY QueuesAre
<1>11. Bytes(bulk, "ack", c) \in Nat /\ Bytes(late, "ack", c) \in Nat BY <1>10, BytesTyped
<1> HIDE DEF h
<1>12. ASSUME UNCHANGED downlink \/ Puts(c, h)
       PROVE  /\ \A d \in Conns \ {c} : Bytes(bulk', "ack", d) = Bytes(bulk, "ack", d) /\ Bytes(late', "ack", d) = Bytes(late, "ack", d)
              /\ Bytes(bulk', "ack", c) + Bytes(late', "ack", c) <= Bytes(bulk, "ack", c) + Bytes(late, "ack", c)
  <2>1. /\ \A d \in Conns \ {c} : Bytes(bulk', "ack", d) = Bytes(bulk, "ack", d) /\ Bytes(late', "ack", d) = Bytes(late, "ack", d)
        /\ Bytes(bulk', "ack", c) \in Nat /\ Bytes(late', "ack", c) \in Nat
        /\ Bytes(bulk', "ack", c) + Bytes(late', "ack", c)
               <= Bytes(bulk, "ack", c) + Bytes(late, "ack", c) + Amount(h, "ack", c)
    BY <1>2, <1>6, <1>12, PutBytes
  <2> QED BY <1>7, <1>11, <2>1
<1>13. UNCHANGED downlink \/ Puts(c, h)
  <2>1. SendNonblocking(c, Ctrl("close", c)) => Puts(c, h) BY SendPuts DEF h
  <2> QED BY <1>2, <2>1
<1>14. PICK t : /\ tunnel'[c] = t /\ \A d \in Conns \ {c} : tunnel'[d] = tunnel[d]
                /\ t.pending <= s.pending /\ Bytes(t.in, "data", c) <= Bytes(s.in, "data", c) + n
  <2> SUFFICES /\ \A d \in Conns \ {c} : tunnel'[d] = tunnel[d]
               /\ tunnel'[c].pending <= s.pending /\ Bytes(tunnel'[c].in, "data", c) <= Bytes(s.in, "data", c) + n
    OBVIOUS
  <2> HIDE DEF n
  <2>1. CASE UNCHANGED <<relayVars, downlink, blamed>>
    <3>1. tunnel' = tunnel BY <2>1 DEF relayVars
    <3> QED BY <1>3, <1>8, <1>9, <3>1
  <2>2. CASE TakeOut(c, Failed(c))
    <3>1. Becomes(c, Failed(c)) BY <2>2, Becoming
    <3>2. Failed(c) \in Tunnels /\ Failed(c).in = <<>> /\ Failed(c).pending = 0 BY <1>2, FailedFields
    <3>3. tunnel'[c] = Failed(c) /\ \A d \in Conns \ {c} : tunnel'[d] = tunnel[d] BY <1>2, <3>1, <3>2, TunnelSet DEF Becomes
    <3> QED BY <1>3, <1>8, <1>9, <3>2, <3>3
  <2>3. CASE Routes(c, m)
    <3>1. PICK t \in Tunnels : SetTunnel(c, t) /\ Became(s, m, t) BY <2>3 DEF Routes
    <3>2. Becomes(c, t) BY <3>1, Becoming
    <3>3. tunnel'[c] = t /\ \A d \in Conns \ {c} : tunnel'[d] = tunnel[d] BY <1>2, <3>2, TunnelSet DEF Becomes
    <3>4. CASE m.type = "error"
      <4>1. t = [[[[s EXCEPT !.over = "failed"] EXCEPT !.in = <<>>] EXCEPT !.pending = 0]
                    EXCEPT !.answer = IF s.answer = None THEN "error" ELSE s.answer]
        BY <3>1, <3>4 DEF Became
      <4>2. t.in = <<>> /\ t.pending = 0 BY <1>2, <4>1 DEF Tunnels
      <4> QED BY <1>3, <1>8, <1>9, <3>3, <4>2
    <3>5. CASE m.type # "error"
      <4>1. t.pending = s.pending /\ Bytes(t.in, "data", c) = Bytes(s.in, "data", c) + n
        BY <1>1, <1>2, <3>1, <3>5, BecameEven DEF n
      <4>2. Bytes(t.in, "data", c) <= Bytes(s.in, "data", c) + n BY <1>3, <1>9, <4>1 DEF n
      <4> QED BY <1>8, <3>3, <4>1, <4>2
    <3> QED BY <3>4, <3>5
  <2> QED BY <1>2, <2>1, <2>2, <2>3
<1>15. ASSUME NEW d \in Conns \ {c} PROVE BoundedAt(d)'
  <2>1. Bytes(bulk', "ack", d) = Bytes(bulk, "ack", d) /\ Bytes(late', "ack", d) = Bytes(late, "ack", d) BY <1>12, <1>13
  <2>2. tunnel'[d] = tunnel[d] BY <1>14
  <2> QED BY <1>3, <1>4, <1>5, <2>1, <2>2, RoomSame
<1>16. BoundedAt(c)'
  <2>1. Bytes(bulk', "ack", c) + Bytes(late', "ack", c) <= Bytes(bulk, "ack", c) + Bytes(late, "ack", c) BY <1>12, <1>13
  <2>2. BoundedAt(c) BY <1>2, <1>5
  <2> HIDE DEF n
  <2> QED BY <1>2, <1>3, <1>4, <1>14, <2>1, <2>2, RoutedRoom DEF n
<1> QED BY <1>15, <1>16 DEF Room

LEMMA InitRoom == Init => Room
<1> SUFFICES ASSUME Init, NEW d \in Conns PROVE BoundedAt(d) BY DEF Room
<1>1. tunnel[d] = NoTunnel /\ conn[d] = NoConn /\ bulk = <<>> /\ late = <<>> /\ post = <<>> /\ uplink = <<>> BY DEF Init
<1>2. NoTunnel.in = <<>> /\ NoTunnel.pending = 0 BY DEF NoTunnel
<1>3. NoConn.pc = "none" BY DEF NoConn
<1>4. Bytes(<<>>, "data", d) = 0 /\ Bytes(<<>>, "ack", d) = 0 BY BytesEmpty
<1>5. Above(d, tunnel[d], uplink, post) = 0 /\ Behind(d, tunnel[d], bulk, late) = 0
  BY <1>1, <1>2, <1>4 DEF Above, Behind
<1>6. 0 <= Window BY TunnelAssumption
<1> QED BY <1>1, <1>3, <1>5, <1>6 DEF BoundedAt, Bounded, Living

LEMMA RoomStep == ASSUME Typed, Life, Order, Windows, Room, [Next]_vars PROVE Room'
<1>1. Typed' BY TypedStep
<1>2. CASE UNCHANGED vars BY <1>1, <1>2, RestRoom
<1>3. ASSUME NEW c \in Conns, RelayStep(c) PROVE Room'
  <2>1. OpenFails(c) => Drop(c) BY DEF OpenFails
  <2> QED BY <1>1, <1>3, <2>1, OpenCountsRoom, OpenInsertsRoom, OpenSendsRoom, OpenSucceedsRoom, DropRoom,
       OpenTimesOutRoom, WriterSendsRoom, SweepRemovesRoom DEF RelayStep
<1>4. ASSUME NEW c \in Conns, User(c) PROVE Room'
  <2>1. UserDrops(c) => Drop(c) BY DEF UserDrops
  <2> QED BY <1>1, <1>4, <2>1, OpenLooksRoom, OpenSendTimesOutRoom, UserWritesRoom, UserShutsDownRoom,
       UserReadsRoom, UserConsumesRoom, UserReadsErrorRoom, DropRoom DEF User
<1>5. ASSUME NEW c \in Conns, AgentStep(c) \/ Target(c) PROVE Room'
  <2>1. ConnActs(c) BY <1>5 DEF ConnActs, AgentStep, Target
  <2> QED BY <1>1, <2>1, ConnStep, ConnDoesRoom
<1>6. CASE LateSend \/ LateTimesOut BY <1>1, <1>6, LateRoom
<1>7. CASE Uncount \/ SweepEnds BY <1>1, <1>7, RestRoom
<1>8. CASE Route BY <1>1, <1>8, RouteRoom
<1>9. CASE AgentReceives BY <1>1, <1>9, ReceivesRoom
<1>10. CASE UplinkTakes BY <1>1, <1>10, UplinkTakesRoom
<1>11. CASE PostSucceeds BY <1>1, <1>11, RestRoom
<1>12. CASE PostFails \/ SessionEnds BY <1>1, <1>12, EndsRoom
<1>13. CASE LoseDownlink \/ SessionBegins BY <1>1, <1>13, RestRoom
<1>14. CASE SessionRemoved \/ RemovalSweeps \/ \E s \in streams : StreamDropped(s) BY <1>1, <1>14, RestRoom
<1> QED BY <1>2, <1>3, <1>4, <1>5, <1>6, <1>7, <1>8, <1>9, <1>10, <1>11, <1>12, <1>13, <1>14 DEF Next, Tasks

LEMMA CountTyped == ASSUME NEW q \in Seq(Msgs), NEW t PROVE Count(q, t) \in Nat
<1> DEFINE f == [i \in 1 .. Len(q) |-> IF q[i].type = t THEN 1 ELSE 0]
<1>1. Len(q) \in Nat OBVIOUS
<1>2. f \in Seq(Nat) BY <1>1
<1>3. Count(q, t) = Sum(f) BY DEF Count
<1> HIDE DEF f
<1> QED BY <1>2, <1>3, SumTyped

\* Only what a POST brings is held against the agent, and only a POST fails.
LEMMA BlameStays ==
    ASSUME Typed, [Next]_vars, ~Route, ~PostFails PROVE UNCHANGED <<failures, blamed>>
<1>1. ASSUME UNCHANGED history PROVE UNCHANGED <<failures, blamed>> BY <1>1 DEF history
<1>2. ASSUME UNCHANGED relayElse PROVE UNCHANGED <<failures, blamed>> BY <1>1, <1>2 DEF relayElse
<1>3. CASE UNCHANGED vars BY <1>1, <1>3 DEF vars
<1>4. ASSUME NEW c \in Conns, RelayStep(c) PROVE UNCHANGED <<failures, blamed>>
  <2>1. CASE SweepRemoves(c) BY <1>1, <2>1 DEF SweepRemoves
  <2>2. OpenFails(c) => Drop(c) BY DEF OpenFails
  <2>3. OpenCounts(c) \/ OpenInserts(c) => UNCHANGED relayElse BY DEF OpenCounts, OpenInserts
  <2>4. OpenSends(c) \/ WriterSends(c) => UNCHANGED relayElse BY DEF OpenSends, WriterSends
  <2>5. OpenSucceeds(c) \/ OpenTimesOut(c) => UNCHANGED relayElse BY DEF OpenSucceeds, OpenTimesOut
  <2>6. Drop(c) => UNCHANGED relayElse BY DEF Drop
  <2> QED BY <1>2, <1>4, <2>1, <2>2, <2>3, <2>4, <2>5, <2>6 DEF RelayStep
<1>5. ASSUME NEW c \in Conns, User(c) PROVE UNCHANGED <<failures, blamed>>
  <2>1. UserDrops(c) => Drop(c) BY DEF UserDrops
  <2>2. OpenLooks(c) \/ OpenSendTimesOut(c) => UNCHANGED relayElse BY DEF OpenLooks, OpenSendTimesOut
  <2>3. UserWrites(c) \/ UserShutsDown(c) => UNCHANGED relayElse BY DEF UserWrites, UserShutsDown
  <2>4. UserReads(c) \/ UserReadsError(c) => UNCHANGED relayElse BY DEF UserReads, UserReadsError
  <2>5. UserConsumes(c) => UNCHANGED relayElse BY DEF UserConsumes
  <2>6. Drop(c) => UNCHANGED relayElse BY DEF Drop
  <2> QED BY <1>2, <1>5, <2>1, <2>2, <2>3, <2>4, <2>5, <2>6 DEF User
<1>6. ASSUME NEW c \in Conns, AgentStep(c) \/ Target(c) PROVE UNCHANGED <<failures, blamed>>
  <2>1. ConnActs(c) BY <1>6 DEF ConnActs, AgentStep, Target
  <2>2. ConnDoes(c) BY <2>1, ConnStep
  <2>3. UNCHANGED history BY <2>2 DEF ConnDoes, Talks
  <2> QED BY <1>1, <2>3
<1>7. CASE LateSend BY <1>1, <1>7 DEF LateSend
<1>8. CASE LateTimesOut BY <1>8 DEF LateTimesOut
<1>9. CASE Uncount \/ SweepEnds BY <1>1, <1>9 DEF Uncount, SweepEnds
<1>10. CASE AgentReceives BY <1>1, <1>10 DEF AgentReceives, agentElse
<1>11. CASE UplinkTakes BY <1>1, <1>11 DEF UplinkTakes
<1>12. CASE PostSucceeds \/ SessionEnds BY <1>1, <1>12 DEF PostSucceeds, SessionEnds
<1>13. CASE LoseDownlink \/ SessionBegins \/ SessionRemoved \/ RemovalSweeps
  BY <1>1, <1>13 DEF LoseDownlink, SessionBegins, SessionRemoved, RemovalSweeps
<1>14. CASE \E s \in streams : StreamDropped(s) BY <1>1, <1>14 DEF StreamDropped
<1> QED BY <1>3, <1>4, <1>5, <1>6, <1>7, <1>8, <1>9, <1>10, <1>11, <1>12, <1>13, <1>14 DEF Next, Tasks

\* A message with the wrong number or too many bytes is never routed, and only
\* routing blames.
LEMMA RouteBlames ==
    ASSUME Typed, Order, Room, Route, failures = 0
    PROVE  blamed' \subseteq blamed \cup {"messages"}
<1>1. PICK m, c : m = Head(post) /\ c = m.conn OBVIOUS
<1>2. /\ post # <<>> /\ m \in UpMsgs /\ c \in Conns /\ post' = Tail(post)
      /\ tunnel[c] \in Tunnels
      /\ UNCHANGED <<agentVars, posting, agent, lost, failures, scene>>
      /\ \/ ~tunnel[c].listed /\ UNCHANGED <<relayVars, downlink, blamed>>
         \/ /\ tunnel[c].listed /\ ~(m.type = "data" /\ Violates(tunnel[c], m))
            /\ Routes(c, m)
            /\ UNCHANGED <<downlink, blamed>>
         \/ /\ tunnel[c].listed /\ m.type = "data" /\ Violates(tunnel[c], m)
            /\ TakeOut(c, Failed(c)) /\ SendNonblocking(c, Ctrl("close", c))
            /\ blamed' = blamed \cup Charges(tunnel[c], m)
  BY <1>1, RouteCases
<1> DEFINE s == tunnel[c]
<1>3. ASSUME s.listed, m.type = "data" PROVE Charges(s, m) \subseteq {"messages"}
  <2>1. m.seq = s.readSeq
    <3>1. uplink' = uplink /\ closed' = closed BY <1>2 DEF agentVars
    <3>2. m \in Stream(c) BY <1>1, <1>2, <1>3 DEF Stream
    <3>3. Coming(c) = <<m>> \o Coming(c)' /\ Coming(c)' \in Seq(UpMsgs) BY <1>1, <1>2, <3>1, <3>2, ComingRouted
    <3>4. Ordered(c) BY <1>2, <1>3 DEF Order, InOrder
    <3>5. s.readSeq \in Nat BY <1>2, TunnelField
    <3>6. conn[c].outSeq \in Nat
      <4>1. conn[c] \in Ends BY <1>2, NowTyped
      <4> QED BY <4>1, EndField
    <3>7. Runs(<<m>> \o Coming(c)', s.readSeq, conn[c].outSeq) BY <3>3, <3>4 DEF Ordered
    <3> HIDE DEF s
    <3> QED BY <1>2, <1>3, <3>3, <3>5, <3>6, <3>7, RunsHead
  <2>2. ~(Bytes(s.in, "data", m.conn) + m.bytes > Window)
    <3> DEFINE x == Bytes(uplink, "data", c)
               y == Bytes(post, "data", c)
               f == Bytes(post', "data", c)
               z == Bytes(s.in, "data", c)
               n == Amount(m, "data", c)
    <3>1. f \in Nat /\ n \in Nat /\ y = n + f BY <1>1, <1>2, PostHead
    <3>2. n = m.bytes BY <1>1, <1>3 DEF Amount
    <3>3. uplink \in Seq(Msgs) /\ post \in Seq(Msgs) BY QueuesAre
    <3>4. x \in Nat /\ z \in Nat BY <1>2, <3>3, AboveTyped
    <3>5. x + y + z <= Window BY <1>2 DEF Room, BoundedAt, Bounded, Above
    <3>6. Window \in Nat BY TunnelAssumption
    <3> HIDE DEF x, y, f, z, n
    <3>7. z + n <= x + y + z BY <3>1, <3>4
    <3>8. ~(z + n > Window) BY <3>1, <3>4, <3>5, <3>6, <3>7
    <3> QED BY <1>1, <3>2, <3>8 DEF z
  <2> HIDE DEF s
  <2> QED BY <2>1, <2>2 DEF Charges
<1> QED BY <1>2, <1>3

\* Nothing is added to what the agent is blamed for but the number of messages.
LEMMA NotBlamedStep ==
    ASSUME Typed, Order, Room, AgentNotBlamed, [Next]_vars PROVE AgentNotBlamed'
<1>1. failures \in Nat BY DEF Typed
<1> SUFFICES ASSUME failures' = 0 PROVE blamed' \subseteq {"messages"} BY DEF AgentNotBlamed
<1>2. CASE Route
  <2>1. failures = 0 BY <1>2 DEF Route
  <2> QED BY <1>2, <2>1, RouteBlames DEF AgentNotBlamed
<1>3. CASE PostFails
  <2>1. failures' = failures + 1 BY <1>3 DEF PostFails
  <2> QED BY <1>1, <2>1
<1>4. ASSUME UNCHANGED <<failures, blamed>> PROVE blamed' \subseteq {"messages"} BY <1>4 DEF AgentNotBlamed
<1>5. ~Route /\ ~PostFails => UNCHANGED <<failures, blamed>> BY BlameStays
<1> QED BY <1>2, <1>3, <1>4, <1>5

\* With no POST failed, the relay never finds that the agent breaks the order or
\* the window, whatever MAX_QUEUED_MSGS is: the numbers of the messages have no
\* gap and no message is routed twice or late, and what a connection sends before
\* it is confirmed is within the window, at every place it can be at.
THEOREM AgentIsNotBlamed == Spec => []AgentNotBlamed
<1>1. Init => Typed /\ Life /\ Order /\ Windows /\ Room /\ AgentNotBlamed
  <2>1. Init => AgentNotBlamed BY DEF Init, AgentNotBlamed
  <2> QED BY <2>1, InitTyped, InitLife, InitOrder, InitWindows, InitRoom
<1>2. Typed /\ Life /\ Order /\ Windows /\ Room /\ AgentNotBlamed /\ [Next]_vars
      => (Typed /\ Life /\ Order /\ Windows /\ Room /\ AgentNotBlamed)'
  BY TypedStep, LifeStep, OrderStep, WindowsStep, RoomStep, NotBlamedStep
<1> QED BY <1>1, <1>2, PTL DEF Spec
==============================================================================
