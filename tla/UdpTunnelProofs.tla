-------------------------- MODULE UdpTunnelProofs --------------------------
(***************************************************************************)
(* Proofs about UdpTunnel, for buffers, bytes and datagrams of any size:   *)
(* the two processes implement Relay, the pointers of struct relay stay in *)
(* the buffer, and "Remote closed the connection" is never said of a       *)
(* connection that is open.                                                *)
(*                                                                         *)
(* The argument follows the bytes of one direction.  What the receiver has *)
(* not yet consumed, in its buffer, on the wire or held back by a blocked  *)
(* send, is always the frames of the datagrams it has not passed on, after *)
(* the part of the first one that its state says it is in.                 *)
(***************************************************************************)
EXTENDS UdpTunnel, SequenceTheorems, TLAPS

-----------------------------------------------------------------------------
(* Sequences. *)

\* What SubSeq cuts in front and DropFirst leaves is the whole.
LEMMA TakeAndDrop ==
  ASSUME NEW S, NEW s \in Seq(S), NEW n \in 0 .. Len(s)
  PROVE  /\ SubSeq(s, 1, n) \in Seq(S) /\ Len(SubSeq(s, 1, n)) = n
         /\ \A i \in 1 .. n : SubSeq(s, 1, n)[i] = s[i]
         /\ DropFirst(s, n) \in Seq(S) /\ Len(DropFirst(s, n)) = Len(s) - n
         /\ \A i \in 1 .. Len(s) - n : DropFirst(s, n)[i] = s[n + i]
         /\ SubSeq(s, 1, n) \o DropFirst(s, n) = s
<1>1. Len(s) \in Nat /\ \A i \in 1 .. Len(s) : s[i] \in S
  BY LenProperties, ElementOfSeq
<1>2. /\ SubSeq(s, 1, n) \in Seq(S) /\ Len(SubSeq(s, 1, n)) = n
      /\ \A i \in 1 .. n : SubSeq(s, 1, n)[i] = s[i]
  <2>1. 1 \in Int /\ n \in Int /\ \A i \in 1 .. n : s[i] \in S
    BY <1>1
  <2>2. /\ SubSeq(s, 1, n) \in Seq(S)
        /\ Len(SubSeq(s, 1, n)) = IF 1 <= n THEN n - 1 + 1 ELSE 0
        /\ \A i \in 1 .. n - 1 + 1 : SubSeq(s, 1, n)[i] = s[1 + i - 1]
    BY <2>1, SubSeqProperties
  <2>3. QED
    BY <2>1, <2>2, <1>1
<1>3. /\ DropFirst(s, n) \in Seq(S) /\ Len(DropFirst(s, n)) = Len(s) - n
      /\ \A i \in 1 .. Len(s) - n : DropFirst(s, n)[i] = s[n + i]
  <2>1. n + 1 \in Int /\ Len(s) \in Int /\ \A i \in n + 1 .. Len(s) : s[i] \in S
    BY <1>1
  <2>2. /\ DropFirst(s, n) \in Seq(S)
        /\ Len(DropFirst(s, n)) = IF n + 1 <= Len(s) THEN Len(s) - (n + 1) + 1 ELSE 0
        /\ \A i \in 1 .. Len(s) - (n + 1) + 1 : DropFirst(s, n)[i] = s[(n + 1) + i - 1]
    BY <2>1, SubSeqProperties DEF DropFirst
  <2>3. QED
    BY <2>1, <2>2, <1>1
<1>4. SubSeq(s, 1, n) \o DropFirst(s, n) = s
  <2>1. 1 \in 1 .. Len(s) + 1 /\ n \in 1 - 1 .. Len(s) /\ Len(s) \in n .. Len(s)
    BY <1>1
  <2>2. SubSeq(s, 1, n) \o SubSeq(s, n + 1, Len(s)) = SubSeq(s, 1, Len(s))
    BY <2>1, ConcatAdjacentSubSeq
  <2>3. QED
    BY <2>2, SubSeqFull DEF DropFirst
<1>5. QED
  BY <1>2, <1>3, <1>4

\* Two cuts at the same place of the same bytes give the same parts.
LEMMA SameCut ==
  ASSUME NEW S, NEW a \in Seq(S), NEW b \in Seq(S), NEW c \in Seq(S), NEW d \in Seq(S),
         a \o b = c \o d, Len(a) = Len(c)
  PROVE  a = c /\ b = d
<1>1. /\ Len(a) \in Nat /\ Len(b) \in Nat /\ Len(c) \in Nat /\ Len(d) \in Nat
  BY LenProperties
<1>2. /\ Len(a \o b) = Len(a) + Len(b)
      /\ \A i \in 1 .. Len(a) + Len(b) : (a \o b)[i] = IF i <= Len(a) THEN a[i] ELSE b[i - Len(a)]
  BY ConcatProperties
<1>3. /\ Len(c \o d) = Len(c) + Len(d)
      /\ \A i \in 1 .. Len(c) + Len(d) : (c \o d)[i] = IF i <= Len(c) THEN c[i] ELSE d[i - Len(c)]
  BY ConcatProperties
<1>4. Len(b) = Len(d)
  BY <1>1, <1>2, <1>3
<1>5. \A i \in 1 .. Len(a) : a[i] = c[i]
  BY <1>1, <1>2, <1>3, <1>4
<1>6. \A i \in 1 .. Len(b) : b[i] = d[i]
  <2>1. SUFFICES ASSUME NEW i \in 1 .. Len(b) PROVE b[i] = d[i]
    OBVIOUS
  <2>2. /\ i + Len(a) \in 1 .. Len(a) + Len(b) /\ i + Len(a) \in 1 .. Len(c) + Len(d)
        /\ ~(i + Len(a) <= Len(a)) /\ ~(i + Len(a) <= Len(c))
        /\ (i + Len(a)) - Len(a) = i /\ (i + Len(a)) - Len(c) = i
    BY <1>1, <1>4
  <2>3. (a \o b)[i + Len(a)] = b[i] /\ (c \o d)[i + Len(a)] = d[i]
    BY <2>2, <1>2, <1>3
  <2>4. QED
    BY <2>3
<1>7. a = c
  BY <1>5, SeqEqual
<1>8. b = d
  BY <1>4, <1>6, SeqEqual
<1>9. QED
  BY <1>7, <1>8

\* Dropping what was put in front.
LEMMA DropPrefix ==
  ASSUME NEW S, NEW a \in Seq(S), NEW b \in Seq(S), NEW n \in Nat, n = Len(a)
  PROVE  /\ SubSeq(a \o b, 1, n) = a /\ DropFirst(a \o b, n) = b
         /\ a \o b \in Seq(S) /\ Len(a \o b) = n + Len(b)
<1> DEFINE ab == a \o b
<1>1. ab \in Seq(S) /\ Len(ab) = n + Len(b) /\ Len(b) \in Nat
  BY ConcatProperties, LenProperties
<1>2. n \in 0 .. Len(ab)
  BY <1>1
<1> HIDE DEF ab
<1>3. /\ SubSeq(ab, 1, n) \in Seq(S) /\ DropFirst(ab, n) \in Seq(S)
      /\ Len(SubSeq(ab, 1, n)) = n /\ SubSeq(ab, 1, n) \o DropFirst(ab, n) = ab
  BY <1>1, <1>2, TakeAndDrop
<1>4. SubSeq(ab, 1, n) \o DropFirst(ab, n) = a \o b
  BY <1>3 DEF ab
<1>5. SubSeq(ab, 1, n) = a /\ DropFirst(ab, n) = b
  BY <1>3, <1>4, SameCut
<1>6. QED
  BY <1>1, <1>5 DEF ab

\* A cut inside the first of two sequences.
LEMMA DropConcat ==
  ASSUME NEW S, NEW a \in Seq(S), NEW b \in Seq(S), NEW n \in 0 .. Len(a)
  PROVE  /\ SubSeq(a \o b, 1, n) = SubSeq(a, 1, n)
         /\ DropFirst(a \o b, n) = DropFirst(a, n) \o b
<1> DEFINE x == SubSeq(a, 1, n)
           y == DropFirst(a, n)
<1>1. x \in Seq(S) /\ y \in Seq(S) /\ Len(x) = n /\ x \o y = a
  BY TakeAndDrop
<1>2. Len(a) \in Nat /\ n \in Nat
  BY LenProperties
<1> HIDE DEF x, y
<1>3. a \o b = x \o (y \o b)
  <2>1. \A u, v, w \in Seq(S) : (u \o v) \o w = u \o (v \o w)
    OBVIOUS
  <2>2. x \in Seq(S) /\ y \in Seq(S) /\ b \in Seq(S)
    BY <1>1
  <2>3. (x \o y) \o b = x \o (y \o b)
    BY <2>1, <2>2, Zenon
  <2>4. QED
    BY <1>1, <2>3
<1>4. y \o b \in Seq(S)
  BY <1>1, ConcatProperties
<1>5. SubSeq(x \o (y \o b), 1, n) = x /\ DropFirst(x \o (y \o b), n) = y \o b
  <2>1. ASSUME NEW z \in Seq(S)
        PROVE  SubSeq(x \o z, 1, n) = x /\ DropFirst(x \o z, n) = z
    BY <1>1, <1>2, DropPrefix
  <2>2. QED
    BY <1>4, <2>1
<1>6. QED
  BY <1>3, <1>5 DEF x, y

\* Two cuts in turn.
LEMMA DropTwice ==
  ASSUME NEW S, NEW s \in Seq(S), NEW m \in Nat, NEW n \in Nat, m + n <= Len(s)
  PROVE  /\ DropFirst(DropFirst(s, m), n) = DropFirst(s, m + n)
         /\ SubSeq(DropFirst(s, m), 1, n) = SubSeq(s, m + 1, m + n)
<1>0. Len(s) \in Nat /\ \A i \in 1 .. Len(s) : s[i] \in S
  BY LenProperties, ElementOfSeq
<1> DEFINE t == DropFirst(s, m)
<1>1. /\ t \in Seq(S) /\ Len(t) = Len(s) - m
      /\ \A i \in 1 .. Len(s) - m : t[i] = s[m + i]
  BY <1>0, TakeAndDrop
<1> HIDE DEF t
<1>2. n \in 0 .. Len(t) /\ m + n \in 0 .. Len(s)
  BY <1>0, <1>1
<1>3. /\ DropFirst(t, n) \in Seq(S) /\ Len(DropFirst(t, n)) = Len(t) - n
      /\ \A i \in 1 .. Len(t) - n : DropFirst(t, n)[i] = t[n + i]
      /\ SubSeq(t, 1, n) \in Seq(S) /\ Len(SubSeq(t, 1, n)) = n
      /\ \A i \in 1 .. n : SubSeq(t, 1, n)[i] = t[i]
  BY <1>1, <1>2, TakeAndDrop
<1>4. /\ DropFirst(s, m + n) \in Seq(S) /\ Len(DropFirst(s, m + n)) = Len(s) - (m + n)
      /\ \A i \in 1 .. Len(s) - (m + n) : DropFirst(s, m + n)[i] = s[(m + n) + i]
  <2>1. ASSUME NEW k \in 0 .. Len(s)
        PROVE  /\ DropFirst(s, k) \in Seq(S) /\ Len(DropFirst(s, k)) = Len(s) - k
               /\ \A i \in 1 .. Len(s) - k : DropFirst(s, k)[i] = s[k + i]
    BY TakeAndDrop
  <2>2. QED
    BY <1>2, <2>1
<1>5. \A i \in 1 .. Len(DropFirst(t, n)) : DropFirst(t, n)[i] = DropFirst(s, m + n)[i]
  <2>1. SUFFICES ASSUME NEW i \in 1 .. Len(DropFirst(t, n))
                 PROVE  DropFirst(t, n)[i] = DropFirst(s, m + n)[i]
    OBVIOUS
  <2>2. /\ i \in 1 .. Len(t) - n /\ n + i \in 1 .. Len(s) - m
        /\ i \in 1 .. Len(s) - (m + n) /\ m + (n + i) = (m + n) + i
    BY <1>0, <1>1, <1>3
  <2>3. DropFirst(t, n)[i] = s[m + (n + i)] /\ DropFirst(s, m + n)[i] = s[(m + n) + i]
    BY <2>2, <1>1, <1>3, <1>4
  <2>4. QED
    BY <2>2, <2>3
<1>6. DropFirst(t, n) = DropFirst(s, m + n)
  <2>1. Len(DropFirst(t, n)) = Len(DropFirst(s, m + n))
    <3>1. /\ Len(DropFirst(t, n)) = Len(t) - n /\ Len(t) = Len(s) - m
          /\ Len(DropFirst(s, m + n)) = Len(s) - (m + n)
      BY <1>1, <1>3, <1>4
    <3>2. QED
      BY <3>1, <1>0
  <2>2. QED
    BY <2>1, <1>3, <1>4, <1>5, SeqEqual
<1>7. /\ SubSeq(s, m + 1, m + n) \in Seq(S) /\ Len(SubSeq(s, m + 1, m + n)) = n
      /\ \A i \in 1 .. n : SubSeq(s, m + 1, m + n)[i] = s[m + i]
  <2>1. m + 1 \in Int /\ m + n \in Int /\ \A i \in m + 1 .. m + n : s[i] \in S
    BY <1>0
  <2>2. /\ SubSeq(s, m + 1, m + n) \in Seq(S)
        /\ Len(SubSeq(s, m + 1, m + n)) = IF m + 1 <= m + n THEN m + n - (m + 1) + 1 ELSE 0
        /\ \A i \in 1 .. m + n - (m + 1) + 1 : SubSeq(s, m + 1, m + n)[i] = s[(m + 1) + i - 1]
    BY <2>1, SubSeqProperties
  <2>3. QED
    BY <2>2
<1>8. SubSeq(t, 1, n) = SubSeq(s, m + 1, m + n)
  <2>1. \A i \in 1 .. Len(SubSeq(t, 1, n)) : SubSeq(t, 1, n)[i] = SubSeq(s, m + 1, m + n)[i]
    BY <1>0, <1>1, <1>3, <1>7
  <2>2. QED
    BY <2>1, <1>3, <1>7, SeqEqual
<1>9. QED
  BY <1>6, <1>8 DEF t

\* Concatenation of bytes is associative.
LEMMA Assoc == \A a, b, c \in Seq(Byte) : (a \o b) \o c = a \o (b \o c)
OBVIOUS

-----------------------------------------------------------------------------
(* Frames. *)

\* ntohs of htons: the two bytes of a length below Base * Base are bytes, and
\* give the length back.
LEMMA LengthBytes ==
  ASSUME NEW l \in Nat, l < Base * Base
  PROVE  /\ l \div Base \in Byte /\ l % Base \in Byte
         /\ (l \div Base) * Base + (l % Base) = l
<1>1. Base \in Nat /\ Base > 0
  BY SizesAssumption
<1>2. PICK q \in Int, r \in Int : q = l \div Base /\ r = l % Base
  BY <1>1
<1>3. l = Base * q + r /\ 0 <= r /\ r < Base
  BY <1>1, <1>2
<1>4. q >= 0
  <2>1. q < 0 => Base * q <= Base * (-1)
    BY <1>1
  <2>2. QED
    BY <1>1, <1>3, <2>1
<1>5. q < Base
  <2>1. q >= Base => Base * q >= Base * Base
    BY <1>1, <1>4
  <2>2. QED
    BY <1>1, <1>3, <2>1
<1>6. QED
  BY <1>1, <1>2, <1>3, <1>4, <1>5 DEF Byte

\* A datagram of UdpRead is never cut by the buffer, and its frame is bytes.
LEMMA Datagrams ==
  ASSUME NEW d \in Datagram
  PROVE  /\ d \in Seq(Byte) /\ Len(d) \in Nat /\ Len(d) < Base * Base
         /\ SubSeq(d, 1, MinOf(Len(d), UDPBUFFERSIZE)) = d
         /\ Frame(d) \in Seq(Byte) /\ Len(Frame(d)) = Len(d) + 2
<1>1. d \in Seq(Byte) /\ Len(d) <= UDPBUFFERSIZE /\ Len(d) < Base * Base
  BY DataAssumption
<1>2. Len(d) \in Nat /\ UDPBUFFERSIZE \in Nat
  <2>1. UDPBUFFERSIZE \in Nat
    BY SizesAssumption DEF UDPBUFFERSIZE
  <2>2. QED
    BY <1>1, <2>1, LenProperties
<1>3. MinOf(Len(d), UDPBUFFERSIZE) = Len(d)
  BY <1>1, <1>2 DEF MinOf
<1>4. <<Len(d) \div Base, Len(d) % Base>> \in Seq(Byte)
  BY <1>1, <1>2, LengthBytes
<1>5. Len(<<Len(d) \div Base, Len(d) % Base>>) = 2
  OBVIOUS
<1>6. Frame(d) \in Seq(Byte) /\ Len(Frame(d)) = Len(d) + 2
  <2>1. ASSUME NEW h \in Seq(Byte), NEW b \in Seq(Byte), Len(h) = 2
        PROVE  h \o b \in Seq(Byte) /\ Len(h \o b) = Len(b) + 2
    <3>1. h \o b \in Seq(Byte) /\ Len(h \o b) = Len(h) + Len(b) /\ Len(b) \in Nat
      BY ConcatProperties, LenProperties
    <3>2. QED
      BY <2>1, <3>1
  <2>2. QED
    BY <1>1, <1>4, <1>5, <2>1 DEF Frame
<1>7. QED
  BY <1>1, <1>2, <1>3, <1>6, SubSeqFull

\* rest[i] is the frames of s after the i-th.
Chain(s, rest) ==
  /\ rest \in [0 .. Len(s) -> Seq(Byte)]
  /\ rest[Len(s)] = <<>>
  /\ \A i \in 0 .. Len(s) - 1 : rest[i] = Frame(s[i + 1]) \o rest[i + 1]

\* With k datagrams of s passed on, the state and packet_length of the
\* receiver of e's stream say how the bytes it has not consumed begin: with
\* the rest of a packet, with the greeting of a client, or with a frame.
Begins(e, state, length, bytes, s, k, rest) ==
  /\ k \in 0 .. Len(s)
  /\ IF state = "reading_packet"
     THEN /\ k < Len(s) /\ length = Len(s[k + 1])
          /\ bytes = s[k + 1] \o rest[k + 1]
     ELSE IF e = "client" /\ state \in {"uninitialized", "reading_handshake"}
          THEN \E g \in Seq(Byte) : Len(g) = HandshakeLen /\ bytes = g \o rest[k]
          ELSE bytes = rest[k]

Owed(e, state, length, bytes, s, k) ==
  \E rest : Chain(s, rest) /\ Begins(e, state, length, bytes, s, k, rest)

\* Nothing owed at the start but the greeting.
LEMMA OwedAtFirst ==
  ASSUME NEW e \in End, NEW g \in Seq(Byte), IF e = "client" THEN Len(g) = HandshakeLen ELSE g = <<>>
  PROVE  Owed(e, "uninitialized", 0, g, <<>>, 0)
<1> DEFINE rest == [i \in 0 .. 0 |-> <<>>]
<1>1. Len(<<>>) = 0 /\ <<>> \in Seq(Byte)
  OBVIOUS
<1>2. rest \in [0 .. 0 -> Seq(Byte)] /\ rest[0] = <<>>
  BY <1>1
<1> HIDE DEF rest
<1>3. Chain(<<>>, rest)
  <2>1. ~ \E i \in 0 .. Len(<<>>) - 1 : TRUE
    BY <1>1
  <2>2. QED
    BY <1>1, <1>2, <2>1 DEF Chain
<1>4. g \o rest[0] = g
  BY <1>2, ConcatEmptySeq
<1>5. Begins(e, "uninitialized", 0, g, <<>>, 0, rest)
  <2>1. 0 \in 0 .. Len(<<>>)
    BY <1>1
  <2>2. CASE e = "client"
    <3>1. Len(g) = HandshakeLen /\ g = g \o rest[0]
      BY <1>4, <2>2
    <3>2. QED
      BY <2>1, <2>2, <3>1 DEF Begins
  <2>3. CASE e # "client"
    BY <2>1, <2>3, <1>2 DEF Begins
  <2>4. QED
    BY <2>2, <2>3
<1>6. QED
  BY <1>3, <1>5 DEF Owed

\* A datagram framed by the sender is owed after the others.
LEMMA OwedAppend ==
  ASSUME NEW e \in End, NEW state \in States, NEW length \in Nat, NEW bytes \in Seq(Byte),
         NEW s \in Seq(Datagram), NEW k \in Nat, NEW d \in Datagram,
         Owed(e, state, length, bytes, s, k)
  PROVE  Owed(e, state, length, bytes \o Frame(d), Append(s, d), k)
<1>1. PICK rest : Chain(s, rest) /\ Begins(e, state, length, bytes, s, k, rest)
  BY DEF Owed
<1> DEFINE n == Len(s)
           t == Append(s, d)
           f == Frame(d)
           r == [i \in 0 .. n + 1 |-> IF i <= n THEN rest[i] \o f ELSE <<>>]
<1>2. n \in Nat /\ Len(t) = n + 1 /\ t[n + 1] = d /\ \A i \in 1 .. n : t[i] = s[i]
  BY AppendProperties, LenProperties
<1>3. f \in Seq(Byte)
  BY Datagrams
<1>4. \A i \in 1 .. n : s[i] \in Datagram
  BY ElementOfSeq
<1>5. /\ \A i \in 0 .. n : rest[i] \in Seq(Byte)
      /\ rest[n] = <<>> /\ \A i \in 0 .. n - 1 : rest[i] = Frame(s[i + 1]) \o rest[i + 1]
  BY <1>1 DEF Chain
<1>6. /\ \A i \in 0 .. n : r[i] = rest[i] \o f /\ r[i] \in Seq(Byte)
      /\ r[n + 1] = <<>>
  <2>1. \A i \in 0 .. n : i \in 0 .. n + 1 /\ i <= n
    BY <1>2
  <2>2. \A i \in 0 .. n : r[i] = rest[i] \o f
    BY <2>1
  <2>3. \A i \in 0 .. n : rest[i] \o f \in Seq(Byte)
    BY <1>3, <1>5, ConcatProperties
  <2>4. r[n + 1] = <<>>
    BY <1>2
  <2>5. QED
    BY <2>2, <2>3, <2>4
<1> HIDE DEF n, t, f
<1>7. r \in [0 .. n + 1 -> Seq(Byte)]
  <2>1. ASSUME NEW i \in 0 .. n + 1 PROVE (IF i <= n THEN rest[i] \o f ELSE <<>>) \in Seq(Byte)
    <3>1. CASE i <= n
      <4>1. i \in 0 .. n
        BY <3>1, <1>2
      <4>2. rest[i] \o f \in Seq(Byte)
        BY <4>1, <1>3, <1>5, ConcatProperties
      <4>3. QED
        BY <3>1, <4>2
    <3>2. CASE ~(i <= n)
      BY <3>2
    <3>3. QED
      BY <3>1, <3>2
  <2>2. QED
    BY <2>1
<1> HIDE DEF r
<1>8. \A i \in 0 .. n : r[i] = Frame(t[i + 1]) \o r[i + 1]
  <2>1. SUFFICES ASSUME NEW i \in 0 .. n PROVE r[i] = Frame(t[i + 1]) \o r[i + 1]
    OBVIOUS
  <2>2. CASE i = n
    <3>1. r[i] = <<>> \o f
      BY <2>2, <1>5, <1>6
    <3>2. r[i] = f /\ f \o <<>> = f
      BY <3>1, <1>3, ConcatEmptySeq
    <3>3. Frame(t[i + 1]) = f /\ r[i + 1] = <<>>
      BY <2>2, <1>2, <1>6 DEF f
    <3>4. QED
      BY <3>2, <3>3
  <2>3. CASE i # n
    <3>1. i \in 0 .. n - 1 /\ i + 1 \in 1 .. n /\ i + 1 \in 0 .. n
      BY <2>3, <1>2
    <3>2. t[i + 1] = s[i + 1] /\ s[i + 1] \in Datagram /\ rest[i + 1] \in Seq(Byte)
      BY <3>1, <1>2, <1>4, <1>5
    <3>3. r[i] = rest[i] \o f /\ rest[i] = Frame(s[i + 1]) \o rest[i + 1]
      BY <3>1, <1>5, <1>6
    <3>4. Frame(s[i + 1]) \in Seq(Byte)
      BY <3>2, Datagrams
    <3>5. (Frame(s[i + 1]) \o rest[i + 1]) \o f = Frame(s[i + 1]) \o (rest[i + 1] \o f)
      BY <3>2, <3>4, <1>3, Assoc, Zenon
    <3>6. r[i + 1] = rest[i + 1] \o f
      BY <3>1, <1>6
    <3>7. QED
      BY <3>2, <3>3, <3>5, <3>6
  <2>4. QED
    BY <2>2, <2>3
<1>9. Chain(t, r)
  <2>1. Len(t) - 1 = n /\ Len(t) = n + 1
    BY <1>2
  <2>2. QED
    BY <2>1, <1>6, <1>7, <1>8 DEF Chain
<1>10. k \in 0 .. n /\ k \in 0 .. n + 1 /\ rest[k] \in Seq(Byte)
  BY <1>1, <1>2, <1>5 DEF Begins, n
<1>11. Begins(e, state, length, bytes \o f, t, k, r)
  <2>1. CASE state = "reading_packet"
    <3>1. k < n /\ length = Len(s[k + 1]) /\ bytes = s[k + 1] \o rest[k + 1]
      BY <1>1, <2>1 DEF Begins, n
    <3>2. k + 1 \in 1 .. n /\ k + 1 \in 0 .. n
      BY <3>1, <1>2, <1>10
    <3>3. t[k + 1] = s[k + 1] /\ s[k + 1] \in Seq(Byte) /\ rest[k + 1] \in Seq(Byte)
          /\ r[k + 1] = rest[k + 1] \o f
      BY <3>2, <1>2, <1>4, <1>5, <1>6, Datagrams
    <3>4. bytes \o f = t[k + 1] \o r[k + 1]
      <4>1. (s[k + 1] \o rest[k + 1]) \o f = s[k + 1] \o (rest[k + 1] \o f)
        BY <3>3, <1>3, Assoc, Zenon
      <4>2. QED
        BY <4>1, <3>1, <3>3
    <3>5. QED
      BY <2>1, <3>1, <3>3, <3>4, <1>2, <1>10 DEF Begins
  <2>2. CASE state # "reading_packet" /\ e = "client" /\ state \in {"uninitialized", "reading_handshake"}
    <3>1. PICK g \in Seq(Byte) : Len(g) = HandshakeLen /\ bytes = g \o rest[k]
      BY <1>1, <2>2 DEF Begins
    <3>2. (g \o rest[k]) \o f = g \o (rest[k] \o f)
      BY <1>3, <1>10, Assoc, Zenon
    <3>3. bytes \o f = g \o r[k]
      BY <3>1, <3>2, <1>6, <1>10
    <3>4. QED
      BY <2>2, <3>1, <3>3, <1>2, <1>10 DEF Begins
  <2>3. CASE state # "reading_packet" /\ ~(e = "client" /\ state \in {"uninitialized", "reading_handshake"})
    <3>1. bytes = rest[k]
      BY <1>1, <2>3 DEF Begins
    <3>2. bytes \o f = r[k]
      BY <3>1, <1>6, <1>10
    <3>3. QED
      BY <2>3, <3>2, <1>2, <1>10 DEF Begins
  <2>4. QED
    BY <2>1, <2>2, <2>3
<1>12. QED
  BY <1>9, <1>11 DEF Owed, t, f

\* A length is read: the receiver is inside the packet it announces.
LEMMA OwedLength ==
  ASSUME NEW e \in End, NEW length \in Nat, NEW bytes \in Seq(Byte),
         NEW s \in Seq(Datagram), NEW k \in Nat, Len(bytes) >= 2,
         Owed(e, "reading_length", length, bytes, s, k)
  PROVE  Owed(e, "reading_packet", bytes[1] * Base + bytes[2], DropFirst(bytes, 2), s, k)
<1>1. PICK rest : Chain(s, rest) /\ Begins(e, "reading_length", length, bytes, s, k, rest)
  BY DEF Owed
<1>2. Len(s) \in Nat /\ \A i \in 1 .. Len(s) : s[i] \in Datagram
  BY LenProperties, ElementOfSeq
<1>3. k \in 0 .. Len(s) /\ bytes = rest[k]
  BY <1>1 DEF Begins
<1>4. k < Len(s)
  <2>1. k = Len(s) => bytes = <<>>
    BY <1>1, <1>3 DEF Chain
  <2>2. QED
    BY <2>1, <1>2, <1>3
<1>5. k \in 0 .. Len(s) - 1 /\ k + 1 \in 0 .. Len(s) /\ k + 1 \in 1 .. Len(s)
  BY <1>2, <1>3, <1>4
<1>6. PICK d \in Datagram, more \in Seq(Byte) :
        d = s[k + 1] /\ more = rest[k + 1] /\ bytes = Frame(d) \o more
  <2>1. s[k + 1] \in Datagram /\ rest[k + 1] \in Seq(Byte) /\ rest[k] = Frame(s[k + 1]) \o rest[k + 1]
    BY <1>1, <1>2, <1>5 DEF Chain
  <2>2. QED
    BY <2>1, <1>3
<1>7. d \in Seq(Byte) /\ Len(d) \in Nat
  BY Datagrams
<1>8. PICK h \in Seq(Byte) : h = <<Len(d) \div Base, Len(d) % Base>> /\ Len(h) = 2
  <2>1. Len(d) \div Base \in Byte /\ Len(d) % Base \in Byte
    BY Datagrams, LengthBytes
  <2>2. \A x, y \in Byte : <<x, y>> \in Seq(Byte) /\ Len(<<x, y>>) = 2
    OBVIOUS
  <2>3. QED
    BY <2>1, <2>2
<1>9. bytes = h \o (d \o more) /\ d \o more \in Seq(Byte)
  <2>1. bytes = (h \o d) \o more
    BY <1>6, <1>8 DEF Frame
  <2>2. h \in Seq(Byte) /\ d \in Seq(Byte) /\ more \in Seq(Byte)
    BY <1>7
  <2>3. (h \o d) \o more = h \o (d \o more)
    BY <2>2, Assoc, Zenon
  <2>4. d \o more \in Seq(Byte)
    BY <1>6, <1>7, ConcatProperties
  <2>5. QED
    BY <2>1, <2>3, <2>4
<1>10. DropFirst(bytes, 2) = d \o more
  <2>1. \A x, z \in Seq(Byte) : \A n \in Nat : n = Len(x) => DropFirst(x \o z, n) = z
    BY DropPrefix
  <2>2. 2 \in Nat /\ h \in Seq(Byte) /\ 2 = Len(h)
    BY <1>8
  <2>3. DropFirst(h \o (d \o more), 2) = d \o more
    BY <2>1, <2>2, <1>9, Zenon
  <2>4. QED
    BY <1>9, <2>3
<1>11. bytes[1] = Len(d) \div Base /\ bytes[2] = Len(d) % Base
  <2>1. \A z \in Seq(Byte) : (h \o z)[1] = h[1] /\ (h \o z)[2] = h[2]
    BY <1>8
  <2>2. h[1] = Len(d) \div Base /\ h[2] = Len(d) % Base
    BY <1>8
  <2>3. QED
    BY <1>9, <2>1, <2>2
<1>12. bytes[1] * Base + bytes[2] = Len(d)
  BY <1>11, Datagrams, LengthBytes
<1>13. Begins(e, "reading_packet", Len(d), DropFirst(bytes, 2), s, k, rest)
  BY <1>3, <1>4, <1>6, <1>10 DEF Begins
<1>14. QED
  BY <1>1, <1>12, <1>13 DEF Owed

\* A packet is cut out: it is the next datagram, whole.
LEMMA OwedPacket ==
  ASSUME NEW e \in End, NEW length \in Nat, NEW bytes \in Seq(Byte),
         NEW s \in Seq(Datagram), NEW k \in Nat,
         Owed(e, "reading_packet", length, bytes, s, k)
  PROVE  /\ k < Len(s) /\ length = Len(s[k + 1])
         /\ SubSeq(bytes, 1, length) = s[k + 1]
         /\ Owed(e, "reading_length", 2, DropFirst(bytes, length), s, k + 1)
<1>1. PICK rest : Chain(s, rest) /\ Begins(e, "reading_packet", length, bytes, s, k, rest)
  BY DEF Owed
<1>2. Len(s) \in Nat /\ \A i \in 1 .. Len(s) : s[i] \in Datagram
  BY LenProperties, ElementOfSeq
<1>3. k < Len(s) /\ length = Len(s[k + 1]) /\ bytes = s[k + 1] \o rest[k + 1]
  BY <1>1 DEF Begins
<1>4. k + 1 \in 0 .. Len(s) /\ k + 1 \in 1 .. Len(s)
  BY <1>2, <1>3
<1>5. s[k + 1] \in Seq(Byte) /\ rest[k + 1] \in Seq(Byte)
  BY <1>1, <1>2, <1>4, Datagrams DEF Chain
<1>6. SubSeq(bytes, 1, length) = s[k + 1] /\ DropFirst(bytes, length) = rest[k + 1]
  <2>1. \A d, z \in Seq(Byte) : \A n \in Nat :
          n = Len(d) => SubSeq(d \o z, 1, n) = d /\ DropFirst(d \o z, n) = z
    BY DropPrefix
  <2>2. QED
    BY <2>1, <1>3, <1>5
<1>7. Begins(e, "reading_length", 2, DropFirst(bytes, length), s, k + 1, rest)
  BY <1>4, <1>6 DEF Begins
<1>8. QED
  BY <1>1, <1>3, <1>6, <1>7 DEF Owed

\* The greeting is read.
LEMMA OwedGreeting ==
  ASSUME NEW length \in Nat, NEW bytes \in Seq(Byte), NEW s \in Seq(Datagram), NEW k \in Nat,
         Owed("client", "reading_handshake", length, bytes, s, k)
  PROVE  Owed("client", "reading_length", 2, DropFirst(bytes, HandshakeLen), s, k)
<1>1. PICK rest : Chain(s, rest) /\ Begins("client", "reading_handshake", length, bytes, s, k, rest)
  BY DEF Owed
<1>2. k \in 0 .. Len(s) /\ rest[k] \in Seq(Byte)
  BY <1>1 DEF Begins, Chain
<1>3. PICK g \in Seq(Byte) : Len(g) = HandshakeLen /\ bytes = g \o rest[k]
  BY <1>1 DEF Begins
<1>4. DropFirst(bytes, HandshakeLen) = rest[k]
  <2>1. HandshakeLen \in Nat
    BY SizesAssumption
  <2>2. \A z \in Seq(Byte) : DropFirst(g \o z, HandshakeLen) = z
    BY <1>3, <2>1, DropPrefix
  <2>3. QED
    BY <1>2, <1>3, <2>2
<1>5. Begins("client", "reading_length", 2, DropFirst(bytes, HandshakeLen), s, k, rest)
  BY <1>2, <1>4 DEF Begins
<1>6. QED
  BY <1>1, <1>5 DEF Owed

\* The first read sets the state up: for the server a greeting, for the client a
\* length comes first.
LEMMA OwedSetUp ==
  ASSUME NEW e \in End, NEW length \in Nat, NEW bytes \in Seq(Byte), NEW s \in Seq(Datagram),
         NEW k \in Nat, NEW state, NEW l,
         Owed(e, "uninitialized", length, bytes, s, k),
         state = IF e = "client" THEN "reading_handshake" ELSE "reading_length"
  PROVE  Owed(e, state, l, bytes, s, k)
BY DEF Owed, Begins

-----------------------------------------------------------------------------
(* The invariant. *)

\* What the receiver of e's stream has not consumed.
Pending(e) ==
  DropFirst(relay[Other(e)].buf, relay[Other(e)].start) \o (wire[e] \o out[e])

\* Where the pointers of end e are, in each state of tcp_to_udp.
PointersOf(e) ==
  /\ relay[e].start <= Len(relay[e].buf) /\ Len(relay[e].buf) <= TCPBUFFERSIZE
  /\ relay[e].state = "uninitialized" => relay[e].buf = <<>> /\ relay[e].start = 0
  /\ relay[e].state = "reading_handshake" =>
       e = "server" /\ relay[e].start = 0 /\ relay[e].length = HandshakeLen
  /\ relay[e].state = "reading_length" =>
       relay[e].start \in {0, HandshakeLen} /\ relay[e].length = 2
  /\ relay[e].state = "reading_packet" => relay[e].start \in {2, HandshakeLen + 2}

Pointers == \A e \in End : PointersOf(e)

\* The bytes on the way from e are the frames that are owed.
StreamOf(e) ==
  /\ sent[e] \in Seq(Datagram)
  /\ Owed(e, relay[Other(e)].state, relay[Other(e)].length, Pending(e),
          sent[e], Len(relayed[Other(e)]))

Stream == \A e \in End : StreamOf(e)

\* The kernels hold no more than they can.
InWindow == \A e \in End : Len(wire[e]) <= Window

Inv == TypeOK /\ Pointers /\ InWindow /\ Stream

\* The two ends.
LEMMA Ends ==
  ASSUME NEW e \in End
  PROVE  /\ Other(e) \in End /\ Other(e) # e /\ Other(Other(e)) = e
         /\ \A x \in End : x = e \/ x = Other(e)
BY DEF End, Other

\* The constants as numbers.
LEMMA Numbers ==
  /\ Base \in Nat /\ Base > 0 /\ HandshakeLen \in Nat /\ HandshakeLen > 0
  /\ TCPBUFFERSIZE \in Nat /\ TCPBUFFERSIZE > HandshakeLen + 2
  /\ Window \in Nat /\ Window >= HandshakeLen /\ MaxSent \in [End -> Nat] /\ Timeout \in [End -> Nat]
BY SizesAssumption, DataAssumption

\* The fields of a relay.
LEMMA Fields ==
  ASSUME TypeOK, NEW e \in End
  PROVE  /\ relay[e] \in RelayState /\ relay[e].buf \in Seq(Byte) /\ relay[e].start \in Nat
         /\ relay[e].length \in Nat /\ relay[e].state \in States
         /\ wire[e] \in Seq(Byte) /\ out[e] \in Seq(Byte)
         /\ Len(relay[e].buf) \in Nat /\ Len(wire[e]) \in Nat /\ Len(out[e]) \in Nat
         /\ remote[e] \in Address \cup {Nobody} /\ idle[e] \in Nat
         /\ status[e] \in Ended \cup {"run"}
         /\ sent[e] \in Seq(Seq(Byte)) /\ Len(sent[e]) \in Nat
         /\ relayed[e] \in Seq([to : Address \cup {Nobody}, data : Seq(Byte)])
         /\ Len(relayed[e]) \in Nat
<1>1. relay[e] \in RelayState
  BY DEF TypeOK
<1>2. /\ relay[e].buf \in Seq(Byte) /\ relay[e].start \in Nat
      /\ relay[e].length \in Nat /\ relay[e].state \in States
  BY <1>1 DEF RelayState
<1>3. /\ wire[e] \in Seq(Byte) /\ out[e] \in Seq(Byte) /\ remote[e] \in Address \cup {Nobody}
      /\ idle[e] \in Nat /\ status[e] \in Ended \cup {"run"} /\ sent[e] \in Seq(Seq(Byte))
      /\ relayed[e] \in Seq([to : Address \cup {Nobody}, data : Seq(Byte)])
  BY DEF TypeOK
<1>4. QED
  BY <1>1, <1>2, <1>3, LenProperties

\* Where the pointers are in order, what is pending is bytes.
LEMMA PendingBytes ==
  ASSUME TypeOK, Pointers, NEW e \in End
  PROVE  /\ DropFirst(relay[Other(e)].buf, relay[Other(e)].start) \in Seq(Byte)
         /\ Len(DropFirst(relay[Other(e)].buf, relay[Other(e)].start))
              = Len(relay[Other(e)].buf) - relay[Other(e)].start
         /\ wire[e] \o out[e] \in Seq(Byte) /\ Pending(e) \in Seq(Byte)
<1>1. PICK o \in End : o = Other(e)
  BY Ends
<1>2. relay[o].buf \in Seq(Byte) /\ relay[o].start \in 0 .. Len(relay[o].buf)
  <2>1. relay[o].start <= Len(relay[o].buf)
    BY DEF Pointers, PointersOf
  <2>2. QED
    BY <2>1, Fields
<1>3. /\ DropFirst(relay[o].buf, relay[o].start) \in Seq(Byte)
      /\ Len(DropFirst(relay[o].buf, relay[o].start)) = Len(relay[o].buf) - relay[o].start
  BY <1>2, TakeAndDrop
<1>4. wire[e] \o out[e] \in Seq(Byte)
  BY Fields, ConcatProperties
<1>5. DropFirst(relay[o].buf, relay[o].start) \o (wire[e] \o out[e]) \in Seq(Byte)
  BY <1>3, <1>4, ConcatProperties
<1>6. QED
  BY <1>1, <1>3, <1>4, <1>5 DEF Pending

\* A direction that a step does not touch.
LEMMA StreamKept ==
  ASSUME NEW e \in End, StreamOf(e), sent'[e] = sent[e], wire'[e] = wire[e], out'[e] = out[e],
         relay'[Other(e)] = relay[Other(e)], relayed'[Other(e)] = relayed[Other(e)]
  PROVE  StreamOf(e)'
<1>1. Pending(e)' = Pending(e)
  BY DEF Pending
<1>2. /\ relay'[Other(e)].state = relay[Other(e)].state
      /\ relay'[Other(e)].length = relay[Other(e)].length
      /\ Len(relayed'[Other(e)]) = Len(relayed[Other(e)])
  OBVIOUS
<1>3. sent'[e] \in Seq(Datagram)
  BY DEF StreamOf
<1>4. Owed(e, relay'[Other(e)].state, relay'[Other(e)].length, Pending(e)',
           sent'[e], Len(relayed'[Other(e)]))
  BY <1>1, <1>2 DEF StreamOf
<1>5. QED
  BY <1>3, <1>4 DEF StreamOf

\* A direction on which bytes only move on: what is pending stays.
LEMMA StreamMoved ==
  ASSUME NEW e \in End, StreamOf(e), sent'[e] = sent[e], Pending(e)' = Pending(e),
         relay'[Other(e)].state = relay[Other(e)].state,
         relay'[Other(e)].length = relay[Other(e)].length,
         relayed'[Other(e)] = relayed[Other(e)]
  PROVE  StreamOf(e)'
<1>1. sent'[e] \in Seq(Datagram)
  BY DEF StreamOf
<1>2. Owed(e, relay'[Other(e)].state, relay'[Other(e)].length, Pending(e)',
           sent'[e], Len(relayed'[Other(e)]))
  BY DEF StreamOf
<1>3. QED
  BY <1>1, <1>2 DEF StreamOf

\* The invariant holds at the start.
LEMMA Initially == Init => Inv
<1> SUFFICES ASSUME Init PROVE Inv
  OBVIOUS
<1>0. \A e \in End : /\ relay[e] = [buf |-> <<>>, start |-> 0, length |-> 0, state |-> "uninitialized"]
                     /\ out[e] = <<>> /\ sent[e] = <<>> /\ relayed[e] = <<>>
  BY DEF Init
<1>1. PICK g \in Greeting : wire = [client |-> g, server |-> <<>>]
  BY DEF Init
<1>2. g \in Seq(Byte) /\ Len(g) = HandshakeLen
  <2>1. g \in [1 .. HandshakeLen -> Byte]
    BY DataAssumption
  <2>2. QED
    BY <2>1, Numbers
<1>3. wire["client"] = g /\ wire["server"] = <<>>
  BY <1>1
<1>4. TypeOK
  <2>1. relay \in [End -> RelayState]
    BY DEF Init, RelayState, States
  <2>2. wire \in [End -> Seq(Byte)]
    <3>1. \A B : \A a, b \in B : [client |-> a, server |-> b] \in [End -> B]
      BY DEF End
    <3>2. g \in Seq(Byte) /\ <<>> \in Seq(Byte)
      BY <1>2
    <3>3. QED
      BY <1>1, <3>1, <3>2
  <2>3. remote \in [End -> Address \cup {Nobody}]
    BY DataAssumption DEF Init, End
  <2>4. out \in [End -> Seq(Byte)] /\ sent \in [End -> Seq(Seq(Byte))]
    BY DEF Init
  <2>5. relayed \in [End -> Seq([to : Address \cup {Nobody}, data : Seq(Byte)])]
    BY DEF Init
  <2>6. status \in [End -> Ended \cup {"run"}] /\ idle \in [End -> Nat]
    BY DEF Init
  <2>7. QED
    BY <2>1, <2>2, <2>3, <2>4, <2>5, <2>6 DEF TypeOK
<1>5. Pointers
  BY <1>0, Numbers DEF Pointers, PointersOf
<1>6. Stream
  <2>1. SUFFICES ASSUME NEW e \in End PROVE StreamOf(e)
    BY DEF Stream
  <2>2. PICK o \in End : o = Other(e)
    BY Ends
  <2>3. /\ relay[o].buf = <<>> /\ relay[o].start = 0 /\ relay[o].length = 0
        /\ relay[o].state = "uninitialized" /\ relayed[o] = <<>> /\ sent[e] = <<>> /\ out[e] = <<>>
    BY <1>0
  <2>4. DropFirst(<<>>, 0) = <<>>
    BY DEF DropFirst
  <2>5. wire[e] \in Seq(Byte) /\ IF e = "client" THEN Len(wire[e]) = HandshakeLen ELSE wire[e] = <<>>
    <3>1. CASE e = "client"
      BY <3>1, <1>2, <1>3
    <3>2. CASE e # "client"
      <4>1. e = "server"
        BY <3>2 DEF End
      <4>2. wire[e] = <<>> /\ <<>> \in Seq(Byte)
        BY <4>1, <1>3
      <4>3. QED
        BY <3>2, <4>2
    <3>3. QED
      BY <3>1, <3>2
  <2>6. Pending(e) = wire[e]
    <3>1. wire[e] \o <<>> = wire[e] /\ <<>> \o wire[e] = wire[e]
      BY <2>5, ConcatEmptySeq
    <3>2. Pending(e) = DropFirst(<<>>, 0) \o (wire[e] \o <<>>)
      BY <2>2, <2>3 DEF Pending
    <3>3. QED
      BY <3>1, <3>2, <2>4
  <2>7. Owed(e, "uninitialized", 0, wire[e], <<>>, 0)
    BY <2>5, OwedAtFirst
  <2>8. Len(relayed[o]) = 0 /\ <<>> \in Seq(Datagram)
    BY <2>3
  <2>9. QED
    BY <2>2, <2>3, <2>6, <2>7, <2>8 DEF StreamOf
<1>7. InWindow
  <2>1. Len(<<>>) = 0
    OBVIOUS
  <2>2. QED
    BY <2>1, <1>2, <1>3, Numbers DEF InWindow, End
<1>8. QED
  BY <1>4, <1>5, <1>6, <1>7 DEF Inv

-----------------------------------------------------------------------------
(* One lemma per action. *)

\* Steps that end a process or only let time pass.
LEMMA QuietStep ==
  ASSUME Inv, UNCHANGED <<relay, remote, wire, out, sent, relayed>>,
         status' \in [End -> Ended \cup {"run"}], idle' \in [End -> Nat]
  PROVE  Inv'
<1>1. TypeOK'
  BY DEF Inv, TypeOK
<1>2. Pointers'
  BY DEF Inv, Pointers, PointersOf
<1>3. Stream'
  <2>1. SUFFICES ASSUME NEW e \in End PROVE StreamOf(e)'
    BY DEF Stream
  <2>2. StreamOf(e)
    BY DEF Inv, Stream
  <2>3. QED
    BY <2>2, StreamKept
<1>4. InWindow'
  BY DEF Inv, InWindow
<1>5. QED
  BY <1>1, <1>2, <1>3, <1>4 DEF Inv

\* Status after an end has finished.
LEMMA FinishType ==
  ASSUME TypeOK, NEW e \in End, NEW why \in Ended, Finish(e, why)
  PROVE  status' \in [End -> Ended \cup {"run"}]
BY DEF TypeOK, Finish

\* The idle clock stays a number.
LEMMA ClockType ==
  ASSUME TypeOK, NEW e \in End, NEW fd, NEW dt \in Waits(e), Clock(e, fd, dt)
  PROVE  idle' \in [End -> Nat]
<1>1. dt \in Nat
  BY DEF Waits
<1>2. idle \in [End -> Nat] /\ Timeout[e] + 2 \in Nat
  BY Numbers DEF TypeOK
<1>3. MinOf(idle[e] + dt, Timeout[e] + 2) \in Nat
  BY <1>1, <1>2 DEF MinOf
<1>4. QED
  BY <1>2, <1>3 DEF Clock

\* The first read sets the state and nothing of the buffer.
LEMMA InitializedFields ==
  ASSUME TypeOK, NEW e \in End
  PROVE  /\ Initialized(e) \in RelayState
         /\ Initialized(e).buf = relay[e].buf /\ Initialized(e).start = relay[e].start
         /\ relay[e].state # "uninitialized" =>
              Initialized(e).state = relay[e].state /\ Initialized(e).length = relay[e].length
         /\ relay[e].state = "uninitialized" =>
              /\ Initialized(e).state = IF e = "server" THEN "reading_handshake" ELSE "reading_length"
              /\ Initialized(e).length = IF e = "server" THEN HandshakeLen ELSE 2
<1>1. relay[e] \in RelayState /\ HandshakeLen \in Nat
  BY Fields, Numbers
<1>2. QED
  BY <1>1 DEF Initialized, RelayState, States

\* Reading moves bytes from the wire to the buffer.
LEMMA TcpReadStep ==
  ASSUME Inv, NEW e \in End, NEW n \in 1 .. TCPBUFFERSIZE, NEW dt \in Waits(e), TcpRead(e, n, dt)
  PROVE  Inv'
<1>0. TypeOK /\ Pointers /\ InWindow /\ Stream
  BY DEF Inv
<1>1. PICK o \in End : o = Other(e) /\ o # e /\ Other(o) = e /\ \A x \in End : x = e \/ x = o
  BY Ends
<1>2. UNCHANGED <<remote, out, status, sent, relayed>> /\ Clock(e, "tcp", dt)
      /\ wire' = [wire EXCEPT ![o] = DropFirst(@, n)]
      /\ relay' = [relay EXCEPT ![e] = [Initialized(e) EXCEPT !.buf = @ \o SubSeq(wire[o], 1, n)]]
  BY <1>1 DEF TcpRead, ReadSome
<1>3. /\ relay \in [End -> RelayState] /\ wire \in [End -> Seq(Byte)]
      /\ relay[e].buf \in Seq(Byte) /\ relay[e].start \in Nat /\ Len(relay[e].buf) \in Nat
      /\ wire[o] \in Seq(Byte) /\ Len(wire[o]) \in Nat /\ out[o] \in Seq(Byte)
  BY <1>0, Fields DEF TypeOK
<1>4. n \in 0 .. Len(wire[o]) /\ Len(relay[e].buf) + n <= TCPBUFFERSIZE
  <2>1. n <= MinOf(Len(wire[o]), Room(e))
    BY <1>1 DEF TcpRead
  <2>2. Room(e) = TCPBUFFERSIZE - Len(relay[e].buf)
    BY DEF Room
  <2>3. QED
    BY <2>1, <2>2, <1>3, Numbers DEF MinOf
<1>5. PICK x \in Seq(Byte), y \in Seq(Byte) :
        /\ x = SubSeq(wire[o], 1, n) /\ y = DropFirst(wire[o], n)
        /\ Len(x) = n /\ x \o y = wire[o]
  <2>1. ASSUME NEW w \in Seq(Byte), NEW k \in 0 .. Len(w)
        PROVE  /\ SubSeq(w, 1, k) \in Seq(Byte) /\ DropFirst(w, k) \in Seq(Byte)
               /\ Len(SubSeq(w, 1, k)) = k /\ SubSeq(w, 1, k) \o DropFirst(w, k) = w
    BY TakeAndDrop
  <2>2. /\ SubSeq(wire[o], 1, n) \in Seq(Byte) /\ DropFirst(wire[o], n) \in Seq(Byte)
        /\ Len(SubSeq(wire[o], 1, n)) = n
        /\ SubSeq(wire[o], 1, n) \o DropFirst(wire[o], n) = wire[o]
    BY <2>1, <1>3, <1>4
  <2>3. QED
    BY <2>2
<1>6. PICK i \in RelayState : i = Initialized(e)
  BY <1>0, InitializedFields
<1>7. /\ i.buf = relay[e].buf /\ i.start = relay[e].start
      /\ relay[e].state # "uninitialized" => i.state = relay[e].state /\ i.length = relay[e].length
      /\ relay[e].state = "uninitialized" =>
           /\ i.state = IF e = "server" THEN "reading_handshake" ELSE "reading_length"
           /\ i.length = IF e = "server" THEN HandshakeLen ELSE 2
  BY <1>0, <1>6, InitializedFields
<1>8. PICK buf \in Seq(Byte) : buf = relay[e].buf \o x
  BY <1>3, <1>5, ConcatProperties
<1>9. Len(buf) = Len(relay[e].buf) + n
  BY <1>3, <1>5, <1>8, ConcatProperties
<1>10. relay' = [relay EXCEPT ![e] = [i EXCEPT !.buf = buf]]
  BY <1>2, <1>5, <1>6, <1>7, <1>8
<1>11. /\ relay' \in [End -> RelayState] /\ relay'[o] = relay[o]
       /\ relay'[e].buf = buf /\ relay'[e].start = i.start
       /\ relay'[e].length = i.length /\ relay'[e].state = i.state
  BY <1>1, <1>3, <1>10 DEF RelayState
<1>12. /\ wire' \in [End -> Seq(Byte)] /\ wire'[o] = y /\ wire'[e] = wire[e]
  BY <1>1, <1>2, <1>3, <1>5
<1>13. TypeOK'
  <2>1. idle' \in [End -> Nat]
    BY <1>0, <1>2, ClockType
  <2>2. QED
    BY <1>0, <1>2, <1>11, <1>12, <2>1 DEF TypeOK
<1>14. Pointers'
  <2>1. PointersOf(e) /\ PointersOf(o)
    BY <1>0 DEF Pointers
  <2>2. PointersOf(o)'
    BY <2>1, <1>11 DEF PointersOf
  <2>3. PointersOf(e)'
    <3>1. relay'[e].start <= Len(relay'[e].buf) /\ Len(relay'[e].buf) <= TCPBUFFERSIZE
      <4>1. relay[e].start <= Len(relay[e].buf) /\ TCPBUFFERSIZE \in Nat /\ n \in Nat
        BY <2>1, <1>4, Numbers DEF PointersOf
      <4>2. /\ relay'[e].start = relay[e].start /\ Len(relay'[e].buf) = Len(relay[e].buf) + n
        BY <1>7, <1>9, <1>11
      <4>3. QED
        BY <4>1, <4>2, <1>3, <1>4
    <3>2. CASE relay[e].state = "uninitialized"
      BY <3>1, <3>2, <2>1, <1>7, <1>11 DEF PointersOf
    <3>3. CASE relay[e].state # "uninitialized"
      BY <3>1, <3>3, <2>1, <1>7, <1>11 DEF PointersOf
    <3>4. QED
      BY <3>2, <3>3
  <2>4. QED
    BY <2>2, <2>3, <1>1 DEF Pointers
<1>15. StreamOf(o)'
  <2>1. StreamOf(o) /\ Pending(o) \in Seq(Byte)
    BY <1>0, PendingBytes DEF Stream
  <2>2. Pending(o)' = Pending(o)
    <3>1. PICK s \in Nat : s = relay[e].start /\ s \in 0 .. Len(relay[e].buf)
      BY <1>0, <1>3 DEF Pointers, PointersOf
    <3>2. PICK b \in Seq(Byte), c \in Seq(Byte) :
            b = DropFirst(relay[e].buf, s) /\ c = out[o] /\ DropFirst(buf, s) = b \o x
      <4>1. DropFirst(relay[e].buf, s) \in Seq(Byte)
        BY <3>1, <1>3, TakeAndDrop
      <4>2. DropFirst(buf, s) = DropFirst(relay[e].buf, s) \o x
        <5>1. \A a, b \in Seq(Byte) : \A k \in 0 .. Len(a) :
                DropFirst(a \o b, k) = DropFirst(a, k) \o b
          BY DropConcat
        <5>2. relay[e].buf \in Seq(Byte) /\ x \in Seq(Byte) /\ s \in 0 .. Len(relay[e].buf)
          BY <3>1, <1>3
        <5>3. DropFirst(relay[e].buf \o x, s) = DropFirst(relay[e].buf, s) \o x
          BY <5>1, <5>2, Zenon
        <5>4. QED
          BY <5>3, <1>8
      <4>3. QED
        BY <4>1, <4>2, <1>3
    <3>3. Pending(o) = b \o ((x \o y) \o c)
      BY <3>1, <3>2, <1>1, <1>5 DEF Pending
    <3>4. Pending(o)' = (b \o x) \o (y \o c)
      BY <3>1, <3>2, <1>1, <1>2, <1>7, <1>11, <1>12 DEF Pending
    <3>5. b \o ((x \o y) \o c) = (b \o x) \o (y \o c)
      <4>1. (x \o y) \o c = x \o (y \o c) /\ y \o c \in Seq(Byte)
        BY Assoc, ConcatProperties
      <4>2. \A z \in Seq(Byte) : (b \o x) \o z = b \o (x \o z)
        BY Assoc
      <4>3. QED
        BY <4>1, <4>2
    <3>6. QED
      BY <3>3, <3>4, <3>5
  <2>3. CASE relay[e].state # "uninitialized"
    BY <2>1, <2>2, <2>3, <1>1, <1>2, <1>7, <1>11, StreamMoved
  <2>4. CASE relay[e].state = "uninitialized"
    <3>1. /\ sent[o] \in Seq(Datagram)
          /\ Owed(o, "uninitialized", relay[e].length, Pending(o), sent[o], Len(relayed[e]))
      BY <2>1, <2>4, <1>1 DEF StreamOf
    <3>2. i.state = IF o = "client" THEN "reading_handshake" ELSE "reading_length"
      BY <2>4, <1>1, <1>7 DEF Other, End
    <3>3. Owed(o, i.state, i.length, Pending(o), sent[o], Len(relayed[e]))
      <4>1. relay[e].length \in Nat /\ Len(relayed[e]) \in Nat
        BY <1>0, Fields
      <4>2. QED
        BY <4>1, <3>1, <3>2, <2>1, OwedSetUp
    <3>4. Owed(o, relay'[e].state, relay'[e].length, Pending(o)', sent'[o], Len(relayed'[e]))
      BY <3>3, <2>2, <1>2, <1>11
    <3>5. QED
      BY <3>1, <3>4, <1>1, <1>2 DEF StreamOf
  <2>5. QED
    BY <2>3, <2>4
<1>16. StreamOf(e)'
  <2>1. StreamOf(e)
    BY <1>0 DEF Stream
  <2>2. QED
    BY <2>1, <1>1, <1>2, <1>11, <1>12, StreamKept
<1>17. InWindow'
  <2>1. Len(y) = Len(wire[o]) - n
    BY <1>3, <1>4, <1>5, TakeAndDrop
  <2>2. Len(y) <= Window
    BY <2>1, <1>0, <1>3, <1>4, Numbers DEF InWindow
  <2>3. QED
    BY <2>2, <1>0, <1>1, <1>12 DEF InWindow
<1>18. QED
  BY <1>1, <1>13, <1>14, <1>15, <1>16, <1>17 DEF Inv, Stream

\* The loop of tcp_to_udp takes m bytes of the buffer: they are the first of
\* what is pending, and the others stay.
LEMMA Consume ==
  ASSUME TypeOK, Pointers, NEW e \in End, NEW m \in Nat,
         relay[e].start + m <= Len(relay[e].buf)
  PROVE  /\ DropFirst(relay[e].buf, relay[e].start + m) \o (wire[Other(e)] \o out[Other(e)])
              = DropFirst(Pending(Other(e)), m)
         /\ SubSeq(Pending(Other(e)), 1, m)
              = SubSeq(relay[e].buf, relay[e].start + 1, relay[e].start + m)
         /\ Len(Pending(Other(e))) >= m
         /\ \A i \in 1 .. m : Pending(Other(e))[i] = relay[e].buf[relay[e].start + i]
<1>1. PICK o \in End : o = Other(e) /\ Other(o) = e
  BY Ends
<1>2. PICK buf \in Seq(Byte), s \in Nat : buf = relay[e].buf /\ s = relay[e].start
  BY Fields
<1>3. s + m <= Len(buf) /\ Len(buf) \in Nat
  BY <1>2, LenProperties
<1>4. PICK x \in Seq(Byte), y \in Seq(Byte) : x = DropFirst(buf, s) /\ y = wire[o] \o out[o]
  BY <1>1, <1>2, PendingBytes
<1>5. Pending(o) = x \o y
  BY <1>1, <1>2, <1>4 DEF Pending
<1>6. Len(x) = Len(buf) - s /\ \A i \in 1 .. Len(buf) - s : x[i] = buf[s + i]
  <2>1. s \in 0 .. Len(buf)
    BY <1>3
  <2>2. QED
    BY <2>1, <1>4, TakeAndDrop
<1>7. m \in 0 .. Len(x)
  BY <1>3, <1>6
<1>8. SubSeq(x \o y, 1, m) = SubSeq(x, 1, m) /\ DropFirst(x \o y, m) = DropFirst(x, m) \o y
  BY <1>7, DropConcat
<1>9. DropFirst(x, m) = DropFirst(buf, s + m) /\ SubSeq(x, 1, m) = SubSeq(buf, s + 1, s + m)
  BY <1>3, <1>4, DropTwice
<1>10. Len(x \o y) = Len(x) + Len(y) /\ Len(y) \in Nat
       /\ \A i \in 1 .. Len(x) : (x \o y)[i] = x[i]
  BY ConcatProperties, LenProperties
<1>11. \A i \in 1 .. m : (x \o y)[i] = buf[s + i]
  BY <1>6, <1>7, <1>10
<1>12. Len(x \o y) >= m
  BY <1>3, <1>6, <1>10
<1>13. QED
  BY <1>1, <1>2, <1>4, <1>5, <1>8, <1>9, <1>11, <1>12

\* A step of the loop changes only the end that takes it: what is left to show
\* is its own type, pointers and stream.
LEMMA LoopStep ==
  ASSUME Inv, NEW e \in End, NEW r \in RelayState, relay' = [relay EXCEPT ![e] = r],
         UNCHANGED <<remote, wire, out, status, idle, sent>>,
         relayed' \in [End -> Seq([to : Address \cup {Nobody}, data : Seq(Byte)])],
         relayed'[Other(e)] = relayed[Other(e)],
         PointersOf(e)', StreamOf(Other(e))'
  PROVE  Inv'
<1>0. TypeOK /\ Pointers /\ InWindow /\ Stream
  BY DEF Inv
<1>1. PICK o \in End : o = Other(e) /\ o # e /\ Other(o) = e /\ \A x \in End : x = e \/ x = o
  BY Ends
<1>2. relay \in [End -> RelayState]
  BY <1>0 DEF TypeOK
<1>3. relay' \in [End -> RelayState] /\ relay'[o] = relay[o]
  BY <1>1, <1>2
<1>4. TypeOK'
  BY <1>0, <1>3 DEF TypeOK
<1>5. PointersOf(o)'
  <2>1. PointersOf(o)
    BY <1>0 DEF Pointers
  <2>2. QED
    BY <2>1, <1>3 DEF PointersOf
<1>6. StreamOf(e)'
  <2>1. StreamOf(e)
    BY <1>0 DEF Stream
  <2>2. QED
    BY <2>1, <1>1, <1>3, StreamKept
<1>7. InWindow'
  BY <1>0 DEF InWindow
<1>8. QED
  BY <1>1, <1>4, <1>5, <1>6, <1>7 DEF Inv, Pointers, Stream

\* The handshake is dropped from the buffer.
LEMMA TakeHandshakeStep ==
  ASSUME Inv, NEW e \in End, TakeHandshake(e)
  PROVE  Inv'
<1>0. TypeOK /\ Pointers /\ Stream /\ PointersOf(e)
  BY DEF Inv, Pointers
<1>1. PICK o \in End : o = Other(e) /\ o # e /\ Other(o) = e /\ \A x \in End : x = e \/ x = o
  BY Ends
<1>2. /\ relay[e].state = "reading_handshake" /\ Complete(e)
      /\ UNCHANGED <<remote, wire, out, idle, sent, relayed>>
  BY DEF TakeHandshake, Loop
<1>3. CASE Finish(e, "handshake") /\ UNCHANGED relay
  <2>1. status' \in [End -> Ended \cup {"run"}]
    BY <1>0, <1>3, FinishType DEF Ended
  <2>2. idle' \in [End -> Nat]
    BY <1>0, <1>2 DEF TypeOK
  <2>3. QED
    BY <2>1, <2>2, <1>2, <1>3, QuietStep
<1>4. CASE /\ relay' = [relay EXCEPT ![e].length = 2,
                                     ![e].start = @ + HandshakeLen,
                                     ![e].state = "reading_length"]
           /\ UNCHANGED status
  <2>1. /\ relay[e] \in RelayState /\ relay \in [End -> RelayState]
        /\ relay[e].buf \in Seq(Byte) /\ Len(relay[e].buf) \in Nat
        /\ relay[e].length \in Nat /\ Len(relayed[e]) \in Nat /\ HandshakeLen \in Nat
    BY <1>0, Fields, Numbers DEF TypeOK
  <2>2. relay[e].start = 0 /\ relay[e].length = HandshakeLen /\ e = "server"
    BY <1>0, <1>2 DEF PointersOf
  <2>3. HandshakeLen <= Len(relay[e].buf)
    BY <1>2, <2>1, <2>2 DEF Complete
  <2>4. /\ relay'[e] \in RelayState /\ relay'[e].buf = relay[e].buf
        /\ relay'[e].start = relay[e].start + HandshakeLen
        /\ relay'[e].length = 2 /\ relay'[e].state = "reading_length"
    <3>1. relay[e].start + HandshakeLen \in Nat /\ "reading_length" \in States
      BY <2>1, <2>2 DEF States
    <3>2. QED
      BY <3>1, <1>4, <2>1 DEF RelayState
  <2>5. PICK r \in RelayState : r = relay'[e] /\ relay' = [relay EXCEPT ![e] = r]
    BY <1>4, <2>1, <2>4
  <2>6. relay'[e] = r /\ r.buf = relay[e].buf /\ r.start = HandshakeLen
        /\ r.length = 2 /\ r.state = "reading_length"
    BY <2>1, <2>2, <2>4, <2>5
  <2>7. PointersOf(e)'
    BY <1>0, <2>1, <2>3, <2>6 DEF PointersOf
  <2>8. StreamOf(o)'
    <3>1. o = "client"
      BY <2>2, <1>1 DEF Other
    <3>2. Pending(o) \in Seq(Byte) /\ StreamOf(o)
      BY <1>0, PendingBytes DEF Stream
    <3>3. Owed("client", "reading_handshake", relay[e].length, Pending(o), sent[o], Len(relayed[e]))
          /\ sent[o] \in Seq(Datagram)
      BY <3>1, <3>2, <1>1, <1>2 DEF StreamOf
    <3>4. Owed("client", "reading_length", 2, DropFirst(Pending(o), HandshakeLen), sent[o], Len(relayed[e]))
      BY <3>2, <3>3, <2>1, OwedGreeting
    <3>5. Pending(o)' = DropFirst(Pending(o), HandshakeLen)
      <4>1. relay[e].start + HandshakeLen = HandshakeLen
        BY <2>1, <2>2
      <4>2. DropFirst(relay[e].buf, HandshakeLen) \o (wire[o] \o out[o]) = DropFirst(Pending(o), HandshakeLen)
        BY <4>1, <2>1, <2>3, <1>0, <1>1, Consume
      <4>3. Pending(o)' = DropFirst(relay[e].buf, HandshakeLen) \o (wire[o] \o out[o])
        BY <1>1, <1>2, <2>6 DEF Pending
      <4>4. QED
        BY <4>2, <4>3
    <3>6. Owed(o, relay'[e].state, relay'[e].length, Pending(o)', sent'[o], Len(relayed'[e]))
      BY <3>1, <3>4, <3>5, <2>6, <1>2
    <3>7. QED
      BY <3>3, <3>6, <1>1, <1>2 DEF StreamOf
  <2>9. relayed' \in [End -> Seq([to : Address \cup {Nobody}, data : Seq(Byte)])]
    BY <1>0, <1>2 DEF TypeOK
  <2>10. QED
    BY <1>1, <1>2, <1>4, <2>5, <2>7, <2>8, <2>9, LoopStep
<1>5. QED
  BY <1>3, <1>4 DEF TakeHandshake

\* The length read is that of the next datagram of the stream.
LEMMA TakeLengthStep ==
  ASSUME Inv, NEW e \in End, TakeLength(e)
  PROVE  Inv'
<1>0. TypeOK /\ Pointers /\ Stream /\ PointersOf(e)
  BY DEF Inv, Pointers
<1>1. PICK o \in End : o = Other(e) /\ o # e /\ Other(o) = e /\ \A x \in End : x = e \/ x = o
  BY Ends
<1>2. /\ relay[e].state = "reading_length" /\ Complete(e) /\ relay' = AfterLength(e)
      /\ UNCHANGED <<remote, wire, out, status, idle, sent, relayed>>
  BY DEF TakeLength, Loop
<1>3. /\ relay[e] \in RelayState /\ relay \in [End -> RelayState]
      /\ relay[e].buf \in Seq(Byte) /\ Len(relay[e].buf) \in Nat /\ relay[e].start \in Nat
      /\ relay[e].length \in Nat /\ Len(relayed[e]) \in Nat /\ HandshakeLen \in Nat
  BY <1>0, Fields, Numbers DEF TypeOK
<1>4. relay[e].start \in {0, HandshakeLen} /\ relay[e].length = 2
  BY <1>0, <1>2 DEF PointersOf
<1>5. relay[e].start + 2 <= Len(relay[e].buf)
  BY <1>2, <1>3, <1>4 DEF Complete
<1>6. /\ DropFirst(relay[e].buf, relay[e].start + 2) \o (wire[o] \o out[o]) = DropFirst(Pending(o), 2)
      /\ Len(Pending(o)) >= 2
      /\ Pending(o)[1] = relay[e].buf[relay[e].start + 1]
      /\ Pending(o)[2] = relay[e].buf[relay[e].start + 2]
  <2>1. 2 \in Nat /\ 1 \in 1 .. 2 /\ 2 \in 1 .. 2
    OBVIOUS
  <2>2. /\ DropFirst(relay[e].buf, relay[e].start + 2) \o (wire[o] \o out[o]) = DropFirst(Pending(o), 2)
        /\ Len(Pending(o)) >= 2
        /\ \A i \in 1 .. 2 : Pending(o)[i] = relay[e].buf[relay[e].start + i]
    BY <1>0, <1>1, <1>5, <2>1, Consume
  <2>3. QED
    BY <2>1, <2>2
<1>7. PICK l \in Nat : l = LengthAt(e)
  <2>1. relay[e].buf[relay[e].start + 1] \in Byte /\ relay[e].buf[relay[e].start + 2] \in Byte
    BY <1>3, <1>5, ElementOfSeq
  <2>2. \A a, b \in Byte : a * Base + b \in Nat
    BY Numbers DEF Byte
  <2>3. QED
    BY <2>1, <2>2 DEF LengthAt
<1>8. PICK r \in RelayState : r = [buf |-> relay[e].buf, start |-> relay[e].start + 2,
                                   length |-> l, state |-> "reading_packet"]
  <2>1. relay[e].start + 2 \in Nat /\ "reading_packet" \in States
    BY <1>3 DEF States
  <2>2. QED
    BY <2>1, <1>3 DEF RelayState
<1>9. relay' = [relay EXCEPT ![e] = r]
  BY <1>2, <1>3, <1>7, <1>8 DEF RelayState, AfterLength
<1>10. relay'[e] = r /\ r.buf = relay[e].buf /\ r.start = relay[e].start + 2
       /\ r.length = l /\ r.state = "reading_packet"
  BY <1>3, <1>8, <1>9
<1>11. PointersOf(e)'
  BY <1>0, <1>3, <1>4, <1>5, <1>10 DEF PointersOf
<1>12. StreamOf(o)'
  <2>1. Pending(o) \in Seq(Byte) /\ StreamOf(o)
    BY <1>0, PendingBytes DEF Stream
  <2>2. Owed(o, "reading_length", relay[e].length, Pending(o), sent[o], Len(relayed[e]))
        /\ sent[o] \in Seq(Datagram)
    BY <2>1, <1>1, <1>2 DEF StreamOf
  <2>3. Owed(o, "reading_packet", Pending(o)[1] * Base + Pending(o)[2], DropFirst(Pending(o), 2),
             sent[o], Len(relayed[e]))
    BY <2>1, <2>2, <1>3, <1>6, OwedLength
  <2>4. Pending(o)[1] * Base + Pending(o)[2] = l
    BY <1>6, <1>7 DEF LengthAt
  <2>5. Pending(o)' = DropFirst(Pending(o), 2)
    BY <1>1, <1>2, <1>6, <1>10 DEF Pending
  <2>6. Owed(o, relay'[e].state, relay'[e].length, Pending(o)', sent'[o], Len(relayed'[e]))
    BY <2>3, <2>4, <2>5, <1>2, <1>10
  <2>7. QED
    BY <2>2, <2>6, <1>1, <1>2 DEF StreamOf
<1>13. relayed' \in [End -> Seq([to : Address \cup {Nobody}, data : Seq(Byte)])]
  BY <1>0, <1>2 DEF TypeOK
<1>14. QED
  BY <1>1, <1>2, <1>9, <1>11, <1>12, <1>13, LoopStep

\* The payload taken is the next datagram that the other end accepted.
LEMMA TakePacketStep ==
  ASSUME Inv, NEW e \in End, TakePacket(e)
  PROVE  /\ Inv'
         /\ Len(relayed[e]) < Len(sent[Other(e)])
         /\ Payload(e) = sent[Other(e)][Len(relayed[e]) + 1]
<1>0. TypeOK /\ Pointers /\ Stream /\ PointersOf(e)
  BY DEF Inv, Pointers
<1>1. PICK o \in End : o = Other(e) /\ o # e /\ Other(o) = e /\ \A x \in End : x = e \/ x = o
  BY Ends
<1>2. /\ relay[e].state = "reading_packet" /\ Complete(e) /\ relay' = AfterPacket(e)
      /\ relayed' = [relayed EXCEPT ![e] = Append(@, [to |-> remote[e], data |-> Payload(e)])]
      /\ UNCHANGED <<remote, wire, out, status, idle, sent>>
  BY DEF TakePacket, Loop
<1>3. /\ relay[e] \in RelayState /\ relay \in [End -> RelayState]
      /\ relay[e].buf \in Seq(Byte) /\ Len(relay[e].buf) \in Nat /\ relay[e].start \in Nat
      /\ relay[e].length \in Nat /\ Len(relayed[e]) \in Nat
  BY <1>0, Fields DEF TypeOK
<1>4. PICK m \in Nat : m = relay[e].length
  BY <1>3
<1>5. relay[e].start + m <= Len(relay[e].buf)
  BY <1>2, <1>3, <1>4 DEF Complete
<1>6. /\ DropFirst(relay[e].buf, relay[e].start + m) \o (wire[o] \o out[o]) = DropFirst(Pending(o), m)
      /\ SubSeq(Pending(o), 1, m) = Payload(e)
  BY <1>0, <1>1, <1>4, <1>5, Consume DEF Payload
<1>7. Pending(o) \in Seq(Byte) /\ StreamOf(o)
  BY <1>0, PendingBytes DEF Stream
<1>8. Owed(o, "reading_packet", m, Pending(o), sent[o], Len(relayed[e])) /\ sent[o] \in Seq(Datagram)
  BY <1>1, <1>2, <1>4, <1>7 DEF StreamOf
<1>9. /\ Len(relayed[e]) < Len(sent[o])
      /\ SubSeq(Pending(o), 1, m) = sent[o][Len(relayed[e]) + 1]
      /\ Owed(o, "reading_length", 2, DropFirst(Pending(o), m), sent[o], Len(relayed[e]) + 1)
  <2>1. PICK p \in Seq(Byte), s \in Seq(Datagram), k \in Nat :
          p = Pending(o) /\ s = sent[o] /\ k = Len(relayed[e])
    BY <1>3, <1>7, <1>8
  <2>2. Owed(o, "reading_packet", m, p, s, k)
    BY <2>1, <1>8
  <2>3. /\ k < Len(s) /\ SubSeq(p, 1, m) = s[k + 1]
        /\ Owed(o, "reading_length", 2, DropFirst(p, m), s, k + 1)
    BY <2>2, OwedPacket
  <2>4. QED
    BY <2>1, <2>3
<1>10. Payload(e) = sent[o][Len(relayed[e]) + 1]
  BY <1>6, <1>9
<1>11. PICK b \in Seq(Byte) : /\ b = DropFirst(relay[e].buf, relay[e].start + m)
                              /\ Len(b) = Len(relay[e].buf) - (relay[e].start + m)
  <2>1. relay[e].start + m \in 0 .. Len(relay[e].buf)
    BY <1>3, <1>5
  <2>2. \A n \in 0 .. Len(relay[e].buf) : /\ DropFirst(relay[e].buf, n) \in Seq(Byte)
                                          /\ Len(DropFirst(relay[e].buf, n)) = Len(relay[e].buf) - n
    BY <1>3, TakeAndDrop
  <2>3. QED
    BY <2>1, <2>2
<1>12. PICK r \in RelayState : r = [buf |-> b, start |-> 0, length |-> 2, state |-> "reading_length"]
  BY DEF RelayState, States
<1>13. relay' = [relay EXCEPT ![e] = r]
  BY <1>2, <1>3, <1>4, <1>11, <1>12 DEF RelayState, AfterPacket
<1>14. relay'[e] = r /\ r.buf = b /\ r.start = 0 /\ r.length = 2 /\ r.state = "reading_length"
  BY <1>3, <1>12, <1>13
<1>15. PointersOf(e)'
  <2>1. Len(b) \in Nat /\ Len(b) <= Len(relay[e].buf)
    BY <1>3, <1>5, <1>11
  <2>2. Len(b) <= TCPBUFFERSIZE
    BY <2>1, <1>0, <1>3, Numbers DEF PointersOf
  <2>3. QED
    BY <2>1, <2>2, <1>14 DEF PointersOf
<1>16. /\ relayed' \in [End -> Seq([to : Address \cup {Nobody}, data : Seq(Byte)])]
       /\ Len(relayed'[e]) = Len(relayed[e]) + 1 /\ relayed'[o] = relayed[o]
  <2>1. Payload(e) \in Seq(Byte)
    <3>1. Len(relayed[e]) + 1 \in 1 .. Len(sent[o])
      BY <1>3, <1>8, <1>9, LenProperties
    <3>2. sent[o][Len(relayed[e]) + 1] \in Datagram
      BY <3>1, <1>8, ElementOfSeq
    <3>3. QED
      BY <3>2, <1>10, Datagrams
  <2>2. PICK R : R = [to : Address \cup {Nobody}, data : Seq(Byte)]
    OBVIOUS
  <2>3. PICK p \in R : p = [to |-> remote[e], data |-> Payload(e)]
    BY <2>1, <2>2, <1>0, Fields
  <2>4. relayed \in [End -> Seq(R)]
    BY <1>0, <2>2 DEF TypeOK
  <2>5. Append(relayed[e], p) \in Seq(R) /\ Len(Append(relayed[e], p)) = Len(relayed[e]) + 1
    BY <2>4, AppendProperties
  <2>6. relayed' = [relayed EXCEPT ![e] = Append(relayed[e], p)]
    BY <1>2, <2>3
  <2>7. relayed' \in [End -> Seq(R)] /\ relayed'[e] = Append(relayed[e], p) /\ relayed'[o] = relayed[o]
    BY <1>1, <2>4, <2>5, <2>6
  <2>8. QED
    BY <2>2, <2>5, <2>7
<1>17. StreamOf(o)'
  <2>1. DropFirst(b, 0) = b
    BY SubSeqFull DEF DropFirst
  <2>2. Pending(o)' = DropFirst(Pending(o), m)
    BY <2>1, <1>1, <1>2, <1>6, <1>11, <1>14 DEF Pending
  <2>3. Owed(o, relay'[e].state, relay'[e].length, Pending(o)', sent'[o], Len(relayed'[e]))
    BY <2>2, <1>2, <1>9, <1>14, <1>16
  <2>4. QED
    BY <2>3, <1>1, <1>2, <1>8 DEF StreamOf
<1>18. Inv'
  BY <1>1, <1>2, <1>13, <1>15, <1>16, <1>17, LoopStep
<1>19. QED
  BY <1>1, <1>9, <1>10, <1>18

\* What send hands over and what it holds back is what was to be written.
LEMMA Writes ==
  ASSUME TypeOK, InWindow, NEW e \in End, NEW bytes \in Seq(Byte), Write(e, bytes)
  PROVE  /\ wire' \in [End -> Seq(Byte)] /\ out' \in [End -> Seq(Byte)]
         /\ wire'[e] \o out'[e] = wire[e] \o bytes
         /\ wire'[Other(e)] = wire[Other(e)] /\ out'[Other(e)] = out[Other(e)]
         /\ InWindow'
<1>1. /\ Len(bytes) \in Nat /\ Len(wire[e]) \in Nat /\ Len(wire[e]) <= Window /\ wire[e] \in Seq(Byte)
      /\ wire \in [End -> Seq(Byte)] /\ out \in [End -> Seq(Byte)]
  BY Fields, LenProperties DEF InWindow, TypeOK
<1>2. PICK k \in 0 .. Len(bytes) : k = MinOf(Len(bytes), Window - Len(wire[e]))
                                   /\ Len(wire[e]) + k <= Window
  <2>1. \A a, b, c \in Nat : b <= c => MinOf(a, c - b) \in 0 .. a /\ b + MinOf(a, c - b) <= c
    BY DEF MinOf
  <2>2. Window \in Nat
    BY Numbers
  <2>3. QED
    BY <2>1, <2>2, <1>1
<1>3. /\ wire' = [wire EXCEPT ![e] = wire[e] \o SubSeq(bytes, 1, k)]
      /\ out' = [out EXCEPT ![e] = DropFirst(bytes, k)]
  BY <1>2 DEF Write
<1>4. PICK x \in Seq(Byte), y \in Seq(Byte) :
        x = SubSeq(bytes, 1, k) /\ y = DropFirst(bytes, k) /\ Len(x) = k /\ x \o y = bytes
  <2>1. /\ SubSeq(bytes, 1, k) \in Seq(Byte) /\ DropFirst(bytes, k) \in Seq(Byte)
        /\ Len(SubSeq(bytes, 1, k)) = k /\ SubSeq(bytes, 1, k) \o DropFirst(bytes, k) = bytes
    BY TakeAndDrop
  <2>2. QED
    BY <2>1
<1>5. PICK w \in Seq(Byte) : w = wire[e] \o x /\ Len(w) = Len(wire[e]) + k
  <2>1. \A u, v \in Seq(Byte) : u \o v \in Seq(Byte) /\ Len(u \o v) = Len(u) + Len(v)
    BY ConcatProperties
  <2>2. wire[e] \o x \in Seq(Byte) /\ Len(wire[e] \o x) = Len(wire[e]) + Len(x)
    BY <2>1, <1>1
  <2>3. QED
    BY <2>2, <1>4
<1>6. /\ wire' \in [End -> Seq(Byte)] /\ out' \in [End -> Seq(Byte)]
      /\ wire'[e] = w /\ out'[e] = y
      /\ wire'[Other(e)] = wire[Other(e)] /\ out'[Other(e)] = out[Other(e)]
  BY <1>1, <1>3, <1>4, <1>5, Ends
<1>7. (wire[e] \o x) \o y = wire[e] \o (x \o y)
  BY <1>1, Assoc, Zenon
<1>8. InWindow'
  BY <1>2, <1>5, <1>6, Ends DEF InWindow
<1>9. QED
  BY <1>4, <1>5, <1>6, <1>7, <1>8

\* Writing moves bytes from the out buffer to the wire.
LEMMA PushStep ==
  ASSUME Inv, NEW e \in End, Push(e)
  PROVE  Inv'
<1>0. TypeOK /\ Pointers /\ InWindow /\ Stream
  BY DEF Inv
<1>1. PICK o \in End : o = Other(e) /\ o # e /\ Other(o) = e /\ \A x \in End : x = e \/ x = o
  BY Ends
<1>2. UNCHANGED <<relay, remote, status, idle, sent, relayed>> /\ Write(e, out[e])
  BY DEF Push
<1>3. /\ wire' \in [End -> Seq(Byte)] /\ out' \in [End -> Seq(Byte)]
      /\ wire'[e] \o out'[e] = wire[e] \o out[e]
      /\ wire'[o] = wire[o] /\ out'[o] = out[o] /\ InWindow'
  <2>1. out[e] \in Seq(Byte)
    BY <1>0, Fields
  <2>2. QED
    BY <2>1, <1>0, <1>1, <1>2, Writes
<1>4. TypeOK'
  BY <1>0, <1>2, <1>3 DEF TypeOK
<1>5. Pointers'
  BY <1>0, <1>2 DEF Pointers, PointersOf
<1>6. StreamOf(o)'
  BY <1>0, <1>1, <1>2, <1>3, StreamKept DEF Stream
<1>7. StreamOf(e)'
  <2>1. Pending(e)' = Pending(e)
    BY <1>2, <1>3 DEF Pending
  <2>2. StreamOf(e)
    BY <1>0 DEF Stream
  <2>3. QED
    BY <2>1, <2>2, <1>2, StreamMoved
<1>8. QED
  BY <1>1, <1>3, <1>4, <1>5, <1>6, <1>7 DEF Inv, Stream

\* A datagram accepted is framed at the end of the stream.
LEMMA UdpReadStep ==
  ASSUME Inv, NEW e \in End, NEW d \in Datagram, NEW a \in Address, NEW dt \in Waits(e),
         UdpRead(e, d, a, dt)
  PROVE  /\ Inv'
         /\ IF d = <<>> THEN UNCHANGED <<remote, sent>>
            ELSE /\ remote' = [remote EXCEPT ![e] = a]
                 /\ sent' = [sent EXCEPT ![e] = Append(@, d)]
<1>0. TypeOK /\ Pointers /\ InWindow /\ Stream
  BY DEF Inv
<1>1. PICK o \in End : o = Other(e) /\ o # e /\ Other(o) = e /\ \A x \in End : x = e \/ x = o
  BY Ends
<1>2. UNCHANGED <<relay, status, relayed>> /\ Clock(e, "udp", dt) /\ out[e] = <<>>
  BY DEF UdpRead, InSelect
<1>3. IF d = <<>> THEN UNCHANGED <<remote, wire, out, sent>>
      ELSE /\ remote' = [remote EXCEPT ![e] = a]
           /\ sent' = [sent EXCEPT ![e] = Append(@, d)]
           /\ Write(e, Frame(d))
  <2>1. SubSeq(d, 1, MinOf(Len(d), UDPBUFFERSIZE)) = d
    BY Datagrams
  <2>2. QED
    BY <2>1 DEF UdpRead
<1>4. idle' \in [End -> Nat]
  BY <1>0, <1>2, ClockType
<1>5. CASE d = <<>>
  <2>1. status' \in [End -> Ended \cup {"run"}]
    BY <1>0, <1>2 DEF TypeOK
  <2>2. Inv'
    BY <2>1, <1>2, <1>3, <1>4, <1>5, QuietStep
  <2>3. QED
    BY <2>2, <1>3, <1>5
<1>6. CASE d # <<>>
  <2>1. PICK f \in Seq(Byte) : f = Frame(d)
    BY Datagrams
  <2>2. /\ wire' \in [End -> Seq(Byte)] /\ out' \in [End -> Seq(Byte)]
        /\ wire'[e] \o out'[e] = wire[e] \o f
        /\ wire'[o] = wire[o] /\ out'[o] = out[o] /\ InWindow'
    BY <2>1, <1>0, <1>1, <1>3, <1>6, Writes
  <2>3. /\ sent \in [End -> Seq(Seq(Byte))] /\ remote \in [End -> Address \cup {Nobody}]
        /\ sent[e] \in Seq(Datagram) /\ d \in Seq(Byte) /\ StreamOf(e)
    BY <1>0, Datagrams DEF TypeOK, Stream, StreamOf
  <2>4. Append(sent[e], d) \in Seq(Seq(Byte)) /\ Append(sent[e], d) \in Seq(Datagram)
    BY <2>3, AppendProperties
  <2>5. /\ sent' \in [End -> Seq(Seq(Byte))] /\ remote' \in [End -> Address \cup {Nobody}]
        /\ sent'[e] = Append(sent[e], d) /\ sent'[o] = sent[o]
    BY <2>3, <2>4, <1>1, <1>3, <1>6
  <2>6. TypeOK'
    BY <2>2, <2>5, <1>0, <1>2, <1>4 DEF TypeOK
  <2>7. Pointers'
    BY <1>0, <1>2 DEF Pointers, PointersOf
  <2>8. StreamOf(o)'
    BY <2>2, <2>5, <1>0, <1>1, <1>2, StreamKept DEF Stream
  <2>9. StreamOf(e)'
    <3>1. PICK p \in Seq(Byte), l \in Nat, k \in Nat, st \in States :
            p = Pending(e) /\ l = relay[o].length /\ k = Len(relayed[o]) /\ st = relay[o].state
      BY <1>0, Fields, PendingBytes
    <3>2. Owed(e, st, l, p, sent[e], k)
      BY <2>3, <3>1, <1>1 DEF StreamOf
    <3>3. Owed(e, st, l, p \o f, Append(sent[e], d), k)
      BY <2>1, <2>3, <3>2, OwedAppend
    <3>4. Pending(e)' = p \o f
      <4>1. PICK x \in Seq(Byte), w \in Seq(Byte) :
              x = DropFirst(relay[o].buf, relay[o].start) /\ w = wire[e]
        BY <1>0, <1>1, Fields, PendingBytes
      <4>2. p = x \o w
        <5>1. p = x \o (w \o <<>>)
          BY <3>1, <4>1, <1>1, <1>2 DEF Pending
        <5>2. w \o <<>> = w
          BY ConcatEmptySeq
        <5>3. QED
          BY <5>1, <5>2
      <4>3. Pending(e)' = x \o (w \o f)
        BY <4>1, <2>2, <1>1, <1>2 DEF Pending
      <4>4. (x \o w) \o f = x \o (w \o f)
        BY Assoc, Zenon
      <4>5. QED
        BY <4>2, <4>3, <4>4
    <3>5. Owed(e, relay'[o].state, relay'[o].length, Pending(e)', sent'[e], Len(relayed'[o]))
      BY <3>1, <3>3, <3>4, <2>5, <1>2
    <3>6. QED
      BY <3>5, <2>4, <2>5, <1>1 DEF StreamOf
  <2>10. QED
    BY <2>2, <2>6, <2>7, <2>8, <2>9, <1>1, <1>3, <1>6 DEF Inv, Stream
<1>7. QED
  BY <1>5, <1>6

\* Every step keeps the invariant.
LEMMA InvStep == Inv /\ [Next]_vars => Inv'
<1> SUFFICES ASSUME Inv, [Next]_vars PROVE Inv'
  OBVIOUS
<1>0. TypeOK
  BY DEF Inv
<1>1. ASSUME NEW e \in End, Read(e) PROVE Inv'
  <2>1. ASSUME TcpClosed(e) PROVE Inv'
    <3>1. UNCHANGED <<relay, remote, wire, out, idle, sent, relayed>> /\ Finish(e, "closed")
      BY <2>1 DEF TcpClosed
    <3>2. status' \in [End -> Ended \cup {"run"}] /\ idle' \in [End -> Nat]
      BY <3>1, <1>0, FinishType DEF Ended, TypeOK
    <3>3. QED
      BY <3>1, <3>2, QuietStep
  <2>2. QED
    BY <1>1, <2>1, TcpReadStep DEF Read
<1>2. ASSUME NEW e \in End, Work(e) PROVE Inv'
  BY <1>2, TakeHandshakeStep, TakeLengthStep, TakePacketStep DEF Work
<1>3. ASSUME NEW e \in End, Reset(e) \/ SendtoFails(e) \/ Kill(e) PROVE Inv'
  <2>1. UNCHANGED <<relay, remote, wire, out, idle, sent, relayed>>
    BY <1>3 DEF Reset, SendtoFails, Kill
  <2>2. Finish(e, "broken") \/ Finish(e, "killed")
    BY <1>3 DEF Reset, SendtoFails, Kill
  <2>3. status' \in [End -> Ended \cup {"run"}] /\ idle' \in [End -> Nat]
    BY <2>1, <2>2, <1>0, FinishType DEF Ended, TypeOK
  <2>4. QED
    BY <2>1, <2>3, QuietStep
<1>4. ASSUME NEW e \in End, SelectTimeout(e) PROVE Inv'
  <2>1. /\ UNCHANGED <<relay, remote, wire, out, sent, relayed>>
        /\ idle' = [idle EXCEPT ![e] = MinOf(@ + 1, Timeout[e] + 2)]
        /\ Finish(e, "timeout") \/ UNCHANGED status
    BY <1>4 DEF SelectTimeout
  <2>2. status' \in [End -> Ended \cup {"run"}]
    BY <2>1, <1>0, FinishType DEF Ended, TypeOK
  <2>3. idle' \in [End -> Nat]
    <3>1. idle \in [End -> Nat] /\ Timeout[e] + 2 \in Nat
      BY <1>0, Numbers DEF TypeOK
    <3>2. MinOf(idle[e] + 1, Timeout[e] + 2) \in Nat
      BY <3>1 DEF MinOf
    <3>3. QED
      BY <2>1, <3>1, <3>2
  <2>4. QED
    BY <2>1, <2>2, <2>3, QuietStep
<1>5. CASE UNCHANGED vars
  <2>1. status' \in [End -> Ended \cup {"run"}] /\ idle' \in [End -> Nat]
    BY <1>0, <1>5 DEF TypeOK, vars
  <2>2. QED
    BY <2>1, <1>5, QuietStep DEF vars
<1>6. QED
  BY <1>1, <1>2, <1>3, <1>4, <1>5, PushStep, UdpReadStep DEF Next, Step

\* The bytes between the two processes are at all times the frames of the
\* datagrams that are still owed (udp_to_tcp, tcp_to_udp).
THEOREM Invariant == Spec => []Inv
<1>1. QED
  BY Initially, InvStep, PTL DEF Spec

\* The variables of both processes keep their types.
THEOREM TypeCorrect == Spec => []TypeOK
<1>1. Inv => TypeOK
  BY DEF Inv
<1>2. QED
  BY <1>1, Invariant, PTL

\* packet_start and buf_ptr stay inside buf, whatever the peer announces and
\* however the stream is cut into reads (tcp_to_udp).
THEOREM PointersStay == Spec => []PointersInBuffer
<1>1. Inv => PointersInBuffer
  BY DEF Inv, Pointers, PointersOf, PointersInBuffer
<1>2. QED
  BY <1>1, Invariant, PTL

-----------------------------------------------------------------------------
(* The refinement. *)

\* Initial states are initial states of the relay.
LEMMA RelayInit == Init => Tunnel!Init
BY DataAssumption DEF Init, Tunnel!Init, End

\* Steps that neither accept nor pass on a datagram.
LEMMA RelayStutter ==
  ASSUME UNCHANGED <<remote, sent, relayed>>
  PROVE  [Tunnel!Next]_(Tunnel!vars)
BY DEF Tunnel!vars

\* Every step is a step of the relay or leaves it alone.
LEMMA RelayStep == Inv /\ [Next]_vars => [Tunnel!Next]_(Tunnel!vars)
<1> SUFFICES ASSUME Inv, [Next]_vars PROVE [Tunnel!Next]_(Tunnel!vars)
  OBVIOUS
<1>1. ASSUME NEW e \in End, TakePacket(e) PROVE Tunnel!Next
  <2>1. /\ Len(relayed[e]) < Len(sent[Other(e)])
        /\ Payload(e) = sent[Other(e)][Len(relayed[e]) + 1]
    BY <1>1, TakePacketStep
  <2>2. /\ relayed' = [relayed EXCEPT ![e] = Append(@, [to |-> remote[e], data |-> Payload(e)])]
        /\ UNCHANGED <<sent, remote>>
    BY <1>1 DEF TakePacket
  <2>3. Tunnel!Deliver(e)
    BY <2>1, <2>2 DEF Tunnel!Deliver
  <2>4. QED
    BY <2>3 DEF Tunnel!Next
<1>2. ASSUME NEW e \in End, NEW d \in Datagram, NEW a \in Address, NEW dt \in Waits(e),
             UdpRead(e, d, a, dt)
      PROVE  [Tunnel!Next]_(Tunnel!vars)
  <2>1. UNCHANGED relayed
    BY <1>2 DEF UdpRead
  <2>2. CASE d = <<>>
    <3>1. UNCHANGED <<remote, sent>>
      BY <1>2, <2>2, UdpReadStep
    <3>2. QED
      BY <3>1, <2>1, RelayStutter
  <2>3. CASE d # <<>>
    <3>1. /\ remote' = [remote EXCEPT ![e] = a] /\ sent' = [sent EXCEPT ![e] = Append(@, d)]
      BY <1>2, <2>3, UdpReadStep
    <3>2. Tunnel!Accept(e, d, a)
      BY <3>1, <2>1 DEF Tunnel!Accept
    <3>3. d \in Datagram \ {<<>>}
      BY <2>3
    <3>4. QED
      BY <3>2, <3>3 DEF Tunnel!Next
  <2>4. QED
    BY <2>2, <2>3
<1>3. ASSUME NEW e \in End, \/ Read(e) \/ TakeHandshake(e) \/ TakeLength(e) \/ Push(e) \/ Reset(e)
                            \/ SelectTimeout(e) \/ SendtoFails(e) \/ Kill(e)
      PROVE  UNCHANGED <<remote, sent, relayed>>
  BY <1>3 DEF Read, TcpRead, TcpClosed, TakeHandshake, TakeLength, Push, Reset, SelectTimeout,
              SendtoFails, Kill
<1>4. CASE UNCHANGED vars
  BY <1>4, RelayStutter DEF vars
<1>5. QED
  BY <1>1, <1>2, <1>3, <1>4, RelayStutter DEF Next, Step, Work

\* Every behaviour of the two processes is one of the relay: datagrams come out
\* whole, once, in order and at the address heard of last, for buffers, windows
\* and datagrams of any size (udp_to_tcp, tcp_to_udp, send_udp_packet).
THEOREM Refinement == Spec => ImplementsRelay
<1>1. QED
  BY Invariant, RelayInit, RelayStep, PTL DEF Spec, ImplementsRelay, Tunnel!Spec

-----------------------------------------------------------------------------
(* The end of the connection. *)

\* Outside the loop the buffer has room for what is still missing.
LEMMA AlwaysRoom ==
  ASSUME Inv, DatagramsFit, NEW e \in End, ~Complete(e)
  PROVE  Room(e) # 0
<1>0. TypeOK /\ Pointers /\ Stream /\ PointersOf(e)
  BY DEF Inv, Pointers
<1>1. PICK o \in End : o = Other(e) /\ Other(o) = e
  BY Ends
<1>2. PICK len \in Nat, start \in Nat, m \in Nat :
        len = Len(relay[e].buf) /\ start = relay[e].start /\ m = relay[e].length
  BY <1>0, Fields
<1>3. TCPBUFFERSIZE \in Nat /\ HandshakeLen \in Nat /\ TCPBUFFERSIZE > HandshakeLen + 2
  BY Numbers
<1>4. Room(e) = TCPBUFFERSIZE - len
  BY <1>2 DEF Room
<1>5. CASE relay[e].state = "uninitialized"
  <2>1. len = 0
    BY <1>0, <1>2, <1>5 DEF PointersOf
  <2>2. QED
    BY <2>1, <1>3, <1>4
<1>6. CASE relay[e].state # "uninitialized"
  <2>1. len - start < m
    BY <1>2, <1>6 DEF Complete
  <2>2. start + m <= TCPBUFFERSIZE
    <3>1. relay[e].state \in {"reading_handshake", "reading_length", "reading_packet"}
      BY <1>0, <1>6, Fields DEF States
    <3>2. CASE relay[e].state = "reading_handshake"
      <4>1. start = 0 /\ m = HandshakeLen
        BY <1>0, <1>2, <3>2 DEF PointersOf
      <4>2. QED
        BY <4>1, <1>3
    <3>3. CASE relay[e].state = "reading_length"
      <4>1. start \in {0, HandshakeLen} /\ m = 2
        BY <1>0, <1>2, <3>3 DEF PointersOf
      <4>2. QED
        BY <4>1, <1>3
    <3>4. CASE relay[e].state = "reading_packet"
      <4>1. start \in {2, HandshakeLen + 2}
        BY <1>0, <1>2, <3>4 DEF PointersOf
      <4>2. m + HandshakeLen + 2 <= TCPBUFFERSIZE
        <5>1. PICK p \in Seq(Byte), s \in Seq(Datagram), k \in Nat :
                p = Pending(o) /\ s = sent[o] /\ k = Len(relayed[e])
          BY <1>0, Fields, PendingBytes DEF Stream, StreamOf
        <5>2. Owed(o, "reading_packet", m, p, s, k)
          BY <5>1, <3>4, <1>0, <1>1, <1>2 DEF Stream, StreamOf
        <5>3. k < Len(s) /\ m = Len(s[k + 1])
          BY <5>2, OwedPacket
        <5>4. s[k + 1] \in Datagram
          <6>1. k + 1 \in 1 .. Len(s)
            BY <5>3, LenProperties
          <6>2. QED
            BY <6>1, ElementOfSeq
        <5>5. m <= TCPBUFFERSIZE - HandshakeLen - 2
          BY <5>3, <5>4 DEF DatagramsFit
        <5>6. QED
          BY <5>5, <1>3
      <4>3. QED
        BY <4>1, <4>2, <1>3
    <3>5. QED
      BY <3>1, <3>2, <3>3, <3>4
  <2>3. QED
    BY <2>1, <2>2, <1>3, <1>4
<1>7. QED
  BY <1>5, <1>6

\* Where the datagrams fit, a process says that the remote closed the
\* connection only when it has (the read of 0 bytes in tcp_to_udp).
THEOREM ClosedIsClosed == ASSUME DatagramsFit PROVE Spec => []ClosedMeansClosed
<1>1. Init => ClosedMeansClosed
  BY DEF Init, ClosedMeansClosed
<1>2. Inv /\ ClosedMeansClosed /\ [Next]_vars => ClosedMeansClosed'
  <2> SUFFICES ASSUME Inv, ClosedMeansClosed, [Next]_vars PROVE ClosedMeansClosed'
    OBVIOUS
  <2>0. status \in [End -> Ended \cup {"run"}]
    BY DEF Inv, TypeOK
  <2>1. ASSUME NEW e \in End, NEW why \in Ended, status[e] = "run", Finish(e, why),
               why = "closed" => status[Other(e)] # "run"
        PROVE  ClosedMeansClosed'
    <3>1. status' = [status EXCEPT ![e] = why] /\ why # "run"
      BY <2>1 DEF Finish, Ended
    <3>2. QED
      BY <2>0, <2>1, <3>1, Ends DEF ClosedMeansClosed
  <2>2. ASSUME UNCHANGED status PROVE ClosedMeansClosed'
    BY <2>2 DEF ClosedMeansClosed
  <2>3. ASSUME NEW e \in End, TcpClosed(e) PROVE ClosedMeansClosed'
    <3>1. status[e] = "run" /\ ~Complete(e) /\ Finish(e, "closed")
      BY <2>3 DEF TcpClosed, InSelect
    <3>2. Room(e) # 0
      BY <3>1, AlwaysRoom
    <3>3. status[Other(e)] # "run"
      BY <2>3, <3>2 DEF TcpClosed
    <3>4. QED
      BY <3>1, <3>3, <2>1 DEF Ended
  <2>4. ASSUME NEW e \in End, Reset(e) \/ SendtoFails(e) \/ Kill(e) PROVE ClosedMeansClosed'
    <3>1. status[e] = "run" /\ (Finish(e, "broken") \/ Finish(e, "killed"))
      BY <2>4 DEF Reset, SendtoFails, Kill, Loop
    <3>2. QED
      BY <3>1, <2>1 DEF Ended
  <2>5. ASSUME NEW e \in End, SelectTimeout(e) PROVE ClosedMeansClosed'
    <3>1. status[e] = "run" /\ (Finish(e, "timeout") \/ UNCHANGED status)
      BY <2>5 DEF SelectTimeout, InSelect
    <3>2. QED
      BY <3>1, <2>1, <2>2 DEF Ended
  <2>6. ASSUME NEW e \in End, TakeHandshake(e) PROVE ClosedMeansClosed'
    <3>1. status[e] = "run" /\ (Finish(e, "handshake") \/ UNCHANGED status)
      BY <2>6 DEF TakeHandshake, Loop
    <3>2. QED
      BY <3>1, <2>1, <2>2 DEF Ended
  <2>7. ASSUME NEW e \in End,
               \/ \E n \in 1 .. TCPBUFFERSIZE, dt \in Waits(e) : TcpRead(e, n, dt)
               \/ TakeLength(e) \/ TakePacket(e) \/ Push(e)
               \/ \E d \in Datagram, a \in Address, dt \in Waits(e) : UdpRead(e, d, a, dt)
        PROVE  UNCHANGED status
    BY <2>7 DEF TcpRead, TakeLength, TakePacket, Push, UdpRead
  <2>8. CASE UNCHANGED vars
    BY <2>8, <2>2 DEF vars
  <2>9. QED
    BY <2>2, <2>3, <2>4, <2>5, <2>6, <2>7, <2>8 DEF Next, Step, Read, Work
<1>3. QED
  BY <1>1, <1>2, Invariant, PTL DEF Spec
=============================================================================
