----------------------------- MODULE TftpProofs -----------------------------
(***************************************************************************)
(* Proofs about Tftp, for logs, blocks and numbers of tries of any size:   *)
(* the file on the server is a prefix of the log, a thread that ended has  *)
(* left all of it there, and tries are used up by silence only.            *)
(*                                                                         *)
(* Both directions keep their order, so a packet under way is never older  *)
(* than what the server has stored and an ACK never older than the block   *)
(* before the current one, but for the sends that failed.  While these are *)
(* fewer than the numbers there are, no two blocks under way look alike.   *)
(***************************************************************************)
EXTENDS Tftp, SequenceTheorems, FiniteSetTheorems, TLAPS

-----------------------------------------------------------------------------
(* The invariant. *)

\* The current block may be under way.
Sending == pc \notin {"wrq", "refused", "outer", "stale"}

\* What the block in tx_pkt is of the log, and how the loop was left.
File ==
  /\ taken - cur = (tx_block - 1) * BlockSize
  /\ pc = "wrq" => tx_block = 1
  /\ pc \in {"wrq", "outer"} => rx_block = (tx_block - 1) % Width
  /\ pc = "send" => cur = BlockSize
  /\ pc \in {"wrq", "outer", "last", "done"} => cur < BlockSize
  /\ pc \in {"last", "done"} /\ ~early => closed /\ taken = written

\* What is in a queue, and that the blocks of its packets of one kind ascend.
Elems(s) == {s[i] : i \in 1 .. Len(s)}

Sorted(s, cmd) ==
  \A i, j \in 1 .. Len(s) :
    i < j /\ s[i].cmd = cmd /\ s[j].cmd = cmd => s[i].block <= s[j].block

\* A block on its way to the server: not older than what that has stored, and
\* with its part of the log.
GoodBlock(p) ==
  /\ p.block \in 1 .. tx_block /\ server.last <= p.block
  /\ p.block = tx_block => Sending /\ p.data = Bytes(taken - cur, taken)
  /\ p.block < tx_block => p.data = Bytes((p.block - 1) * BlockSize, p.block * BlockSize)

Blocks ==
  /\ \A p \in Elems(toServer) : p.cmd = "data" => GoodBlock(p)
  /\ Sorted(toServer, "data")

\* An ACK on its way back: of a stored block, and not older than the last that
\* was accepted.
GoodAck(p) ==
  1 <= p.block /\ p.block <= server.last /\ tx_block - 1 - broken <= p.block

Acks ==
  /\ \A p \in Elems(toClient) : p.cmd = "ack" => GoodAck(p)
  /\ Sorted(toClient, "ack")

\* What the server has.
Stored ==
  /\ server.last <= tx_block /\ tx_block - 1 - broken <= server.last
  /\ server.last = tx_block => Sending
  /\ server.over => /\ server.last = tx_block /\ cur < BlockSize
                    /\ server.data = Bytes(0, taken)
  /\ ~server.over => /\ server.data = Bytes(0, server.last * BlockSize)
                     /\ server.last = tx_block => cur = BlockSize
  /\ pc = "done" /\ broken = 0 => server.last = tx_block

Order == broken <= Width - 2 => Blocks /\ Acks /\ Stored

Inv == TypeOK /\ File /\ Order

\* Where the packets of block b are in a queue, and the copies of b under way, as
\* a block or as its ACK.
Places(s, cmd, b) == {i \in 1 .. Len(s) : s[i].cmd = cmd /\ s[i].block = b}
Count(s, cmd, b) == Cardinality(Places(s, cmd, b))
Copies(up, down, b) == Count(up, "data", b) + Count(down, "ack", b)

\* Tries that were no silence were used by copies of the block before, of which
\* there are no more than it was sent again.
Tries ==
  broken = 0 =>
    /\ pc \in Exchange \cup {"outer"} =>
         /\ Copies(toServer, toClient, tx_block - 1) + wait_ack <= silent.last + silent.now
         /\ Copies(toServer, toClient, tx_block) <= silent.now + (IF need_send THEN 0 ELSE 1)
         /\ pc = "outer" => silent.now = 0
    /\ pc = "aborted" => silent.last + silent.now >= TFTP_MAX_RETRY
    /\ pc # "stale"

-----------------------------------------------------------------------------
(* Numbers, queues and parts of the log. *)

\* The constants as numbers.
LEMMA Constants ==
  /\ TFTP_MAX_RETRY \in Nat /\ TFTP_MAX_RETRY > 0 /\ BlockSize \in Nat /\ BlockSize > 0
  /\ Width \in Nat /\ Width > 1 /\ Capacity \in Nat /\ MaxWritten \in Nat
BY TftpAssumption

\* Numbers closer than Width that look alike are equal.
LEMMA Alike ==
  ASSUME NEW a \in Nat, NEW b \in Nat, a <= b, b - a < Width, a % Width = b % Width
  PROVE  a = b
<1>1. Width \in Nat /\ Width > 0
  BY Constants
<1>2. PICK q \in Int, r \in Int, m \in Int :
        q = a \div Width /\ r = b \div Width /\ m = a % Width
  BY <1>1
<1>3. a = Width * q + m /\ b = Width * r + m
  BY <1>1, <1>2
<1>4. b - a = Width * (r - q)
  BY <1>1, <1>2, <1>3
<1>5. r - q < 1
  <2>1. r - q >= 1 => Width * (r - q) >= Width
    BY <1>1, <1>2
  <2>2. QED
    BY <2>1, <1>1, <1>2, <1>4
<1>6. r - q > -1
  <2>1. r - q <= -1 => Width * (r - q) <= -Width
    BY <1>1, <1>2
  <2>2. QED
    BY <2>1, <1>1, <1>2, <1>4
<1>7. r = q
  BY <1>2, <1>5, <1>6
<1>8. QED
  BY <1>2, <1>3, <1>7

\* Parts of the log.
LEMMA Parts ==
  ASSUME NEW a \in Nat, NEW b \in Nat, a <= b
  PROVE  /\ Bytes(a, b) \in Seq(Nat) /\ Len(Bytes(a, b)) = b - a
         /\ \A i \in 1 .. b - a : Bytes(a, b)[i] = a + i
<1>1. b - a \in Nat /\ \A i \in 1 .. b - a : a + i \in Nat
  OBVIOUS
<1>2. QED
  BY <1>1 DEF Bytes

\* Two parts of the log that meet are one part.
LEMMA PartsJoin ==
  ASSUME NEW a \in Nat, NEW b \in Nat, a <= b
  PROVE  Bytes(0, a) \o Bytes(a, b) = Bytes(0, b)
<1>1. PICK x \in Seq(Nat), y \in Seq(Nat), z \in Seq(Nat) :
        /\ x = Bytes(0, a) /\ y = Bytes(a, b) /\ z = Bytes(0, b)
        /\ Len(x) = a /\ Len(y) = b - a /\ Len(z) = b
        /\ \A i \in 1 .. a : x[i] = i
        /\ \A i \in 1 .. b - a : y[i] = a + i
        /\ \A i \in 1 .. b : z[i] = i
  <2>1. /\ Bytes(0, a) \in Seq(Nat) /\ Len(Bytes(0, a)) = a - 0
        /\ \A i \in 1 .. a - 0 : Bytes(0, a)[i] = 0 + i
    BY Parts
  <2>2. /\ Bytes(a, b) \in Seq(Nat) /\ Len(Bytes(a, b)) = b - a
        /\ \A i \in 1 .. b - a : Bytes(a, b)[i] = a + i
    BY Parts
  <2>3. /\ Bytes(0, b) \in Seq(Nat) /\ Len(Bytes(0, b)) = b - 0
        /\ \A i \in 1 .. b - 0 : Bytes(0, b)[i] = 0 + i
    BY Parts
  <2>4. QED
    BY <2>1, <2>2, <2>3
<1>2. /\ x \o y \in Seq(Nat) /\ Len(x \o y) = Len(x) + Len(y)
      /\ \A i \in 1 .. Len(x) + Len(y) : (x \o y)[i] = IF i <= Len(x) THEN x[i] ELSE y[i - Len(x)]
  BY ConcatProperties
<1>3. Len(x \o y) = Len(z)
  BY <1>1, <1>2
<1>4. \A i \in 1 .. Len(x \o y) : (x \o y)[i] = z[i]
  <2>1. SUFFICES ASSUME NEW i \in 1 .. b PROVE (x \o y)[i] = i /\ z[i] = i
    BY <1>1, <1>3
  <2>2. CASE i <= a
    BY <2>2, <1>1, <1>2
  <2>3. CASE ~(i <= a)
    <3>1. i - a \in 1 .. b - a /\ a + (i - a) = i
      BY <2>3
    <3>2. (x \o y)[i] = y[i - a]
      BY <2>3, <1>1, <1>2
    <3>3. QED
      BY <3>1, <3>2, <1>1
  <2>4. QED
    BY <2>2, <2>3
<1>5. x \o y = z
  BY <1>2, <1>3, <1>4, SeqEqual
<1>6. QED
  BY <1>1, <1>5

\* A queue after a packet was sent, perhaps lost.
LEMMA Sent ==
  ASSUME NEW S, NEW s \in Seq(S), NEW p \in S, NEW t \in Lossy(s, p), Len(s) <= Capacity
  PROVE  /\ t \in Seq(S) /\ Len(t) <= Capacity
         /\ t = s \/ t = Append(s, p)
<1>1. t = s \/ (t = Append(s, p) /\ Len(s) < Capacity)
  <2>1. CASE Len(s) < Capacity
    <3>1. t \in {s, Append(s, p)}
      BY <2>1 DEF Lossy
    <3>2. QED
      BY <2>1, <3>1
  <2>2. CASE ~(Len(s) < Capacity)
    <3>1. t \in {s}
      BY <2>2 DEF Lossy
    <3>2. QED
      BY <3>1
  <2>3. QED
    BY <2>1, <2>2
<1>2. Append(s, p) \in Seq(S) /\ Len(Append(s, p)) = Len(s) + 1 /\ Len(s) \in Nat
  BY AppendProperties, LenProperties
<1>3. QED
  BY <1>1, <1>2, Constants

\* A queue and its first packet.
LEMMA Received ==
  ASSUME NEW S, NEW s \in Seq(S), s # <<>>
  PROVE  /\ Head(s) \in S /\ Head(s) \in Elems(s) /\ Head(s) = s[1]
         /\ Tail(s) \in Seq(S) /\ Len(Tail(s)) = Len(s) - 1 /\ Len(s) \in Nat \ {0}
         /\ Elems(Tail(s)) \subseteq Elems(s)
         /\ \A i \in 1 .. Len(Tail(s)) : Tail(s)[i] = s[i + 1]
<1>1. /\ Head(s) \in S /\ Tail(s) \in Seq(S) /\ Len(Tail(s)) = Len(s) - 1
      /\ \A i \in 1 .. Len(Tail(s)) : Tail(s)[i] = s[i + 1]
      /\ Len(s) \in Nat \ {0}
  BY HeadTailProperties, EmptySeq, LenProperties
<1>2. Head(s) = s[1]
  OBVIOUS
<1>3. QED
  BY <1>1, <1>2 DEF Elems

\* The packets of a queue after one more is put in.
LEMMA Appended ==
  ASSUME NEW S, NEW s \in Seq(S), NEW p \in S
  PROVE  Elems(Append(s, p)) = Elems(s) \cup {p}
<1>1. /\ Len(Append(s, p)) = Len(s) + 1 /\ Len(s) \in Nat
      /\ \A i \in 1 .. Len(s) : Append(s, p)[i] = s[i]
      /\ Append(s, p)[Len(s) + 1] = p
  BY AppendProperties, LenProperties
<1>2. QED
  BY <1>1 DEF Elems

\* A packet not older than the others keeps a queue sorted.
LEMMA SortedAppend ==
  ASSUME NEW S, NEW s \in Seq(S), NEW p \in S, NEW cmd, Sorted(s, cmd),
         p.cmd = cmd => \A q \in Elems(s) : q.cmd = cmd => q.block <= p.block
  PROVE  Sorted(Append(s, p), cmd)
<1>1. /\ Len(Append(s, p)) = Len(s) + 1 /\ Len(s) \in Nat
      /\ \A i \in 1 .. Len(s) : Append(s, p)[i] = s[i] /\ s[i] \in Elems(s)
      /\ Append(s, p)[Len(s) + 1] = p
  BY AppendProperties, LenProperties DEF Elems
<1>2. SUFFICES ASSUME NEW i \in 1 .. Len(s) + 1, NEW j \in 1 .. Len(s) + 1, i < j,
                      Append(s, p)[i].cmd = cmd, Append(s, p)[j].cmd = cmd
               PROVE  Append(s, p)[i].block <= Append(s, p)[j].block
  BY <1>1 DEF Sorted
<1>3. i \in 1 .. Len(s) /\ (j \in 1 .. Len(s) \/ j = Len(s) + 1)
  BY <1>1, <1>2
<1>4. CASE j \in 1 .. Len(s)
  BY <1>1, <1>2, <1>3, <1>4 DEF Sorted
<1>5. CASE j = Len(s) + 1
  BY <1>1, <1>2, <1>3, <1>5
<1>6. QED
  BY <1>3, <1>4, <1>5

\* The first packet is the oldest, and the others stay sorted.
LEMMA SortedTail ==
  ASSUME NEW S, NEW s \in Seq(S), s # <<>>, NEW cmd, Sorted(s, cmd)
  PROVE  /\ Sorted(Tail(s), cmd)
         /\ Head(s).cmd = cmd => \A q \in Elems(Tail(s)) : q.cmd = cmd => Head(s).block <= q.block
<1>1. /\ Len(Tail(s)) = Len(s) - 1 /\ Len(s) \in Nat \ {0} /\ Head(s) = s[1]
      /\ \A i \in 1 .. Len(Tail(s)) : Tail(s)[i] = s[i + 1]
  BY Received
<1>2. \A i \in 1 .. Len(Tail(s)) : i + 1 \in 1 .. Len(s) /\ 1 < i + 1
  BY <1>1
<1>3. Sorted(Tail(s), cmd)
  BY <1>1, <1>2 DEF Sorted
<1>4. ASSUME NEW q \in Elems(Tail(s)), Head(s).cmd = cmd, q.cmd = cmd PROVE Head(s).block <= q.block
  <2>1. PICK i \in 1 .. Len(Tail(s)) : q = s[i + 1]
    BY <1>1 DEF Elems
  <2>2. 1 \in 1 .. Len(s) /\ i + 1 \in 1 .. Len(s) /\ 1 < i + 1
    BY <1>1, <1>2
  <2>3. QED
    BY <1>1, <1>4, <2>1, <2>2 DEF Sorted
<1>5. QED
  BY <1>3, <1>4

-----------------------------------------------------------------------------
(* Types. *)

\* The types of the numbers.
LEMMA Ints ==
  ASSUME TypeOK
  PROVE  /\ wait_ack \in Nat /\ wait_ack <= TFTP_MAX_RETRY
         /\ written \in Nat /\ taken \in Nat /\ taken <= written /\ written <= MaxWritten
         /\ cur \in Nat /\ cur <= BlockSize
         /\ tx_block \in Nat /\ tx_block > 0 /\ rx_block \in Nat /\ broken \in Nat
         /\ server.last \in Nat /\ server.data \in Seq(Nat) /\ server.over \in BOOLEAN
         /\ silent.last \in Nat /\ silent.now \in Nat
BY Constants DEF TypeOK

\* The queues as sequences of packets.
LEMMA Queues ==
  ASSUME TypeOK
  PROVE  /\ toServer \in Seq(Up) /\ Len(toServer) <= Capacity
         /\ toClient \in Seq(Down) /\ Len(toClient) <= Capacity
BY DEF TypeOK

\* The fields of a packet to the server.
LEMMA UpPacket ==
  ASSUME NEW p \in Up
  PROVE  /\ p.cmd \in {"wrq", "other", "data"}
         /\ p.cmd = "data" => p.block \in Nat /\ p.data \in Seq(Nat)
BY DEF Up

\* The fields of a packet to the client.
LEMMA DownPacket ==
  ASSUME NEW p \in Down
  PROVE  /\ p.cmd \in {"oack", "error", "ack"}
         /\ p.cmd = "ack" => p.block \in Nat
BY DEF Down

\* What is sent to the server.
LEMMA PacketType ==
  ASSUME TypeOK, File
  PROVE  /\ Packet \in Up
         /\ pc = "wrq" => Packet.cmd # "data"
         /\ pc # "wrq" => /\ Packet.cmd = "data" /\ Packet.block = tx_block
                          /\ Packet.data = Bytes(taken - cur, taken)
<1>1. CASE pc = "wrq"
  <2>1. Packet = [cmd |-> IF request THEN "wrq" ELSE "other"]
    BY <1>1 DEF Packet
  <2>2. QED
    BY <1>1, <2>1 DEF Up
<1>2. CASE pc # "wrq"
  <2>1. Packet = [cmd |-> "data", block |-> tx_block, data |-> Bytes(taken - cur, taken)]
    BY <1>2 DEF Packet
  <2>2. taken - cur \in Nat /\ taken \in Nat /\ taken - cur <= taken
    <3>1. \A n, b \in Nat : n > 0 => (n - 1) * b \in Nat
      OBVIOUS
    <3>2. (tx_block - 1) * BlockSize \in Nat
      BY <3>1, Ints, Constants
    <3>3. QED
      BY <3>2, Ints DEF File
  <2>3. Bytes(taken - cur, taken) \in Seq(Nat)
    BY <2>2, Parts
  <2>4. tx_block \in Nat
    BY Ints
  <2>5. QED
    BY <1>2, <2>1, <2>3, <2>4 DEF Up
<1>3. QED
  BY <1>1, <1>2

\* What is sent back.
LEMMA AnswerType ==
  /\ [cmd |-> "oack"] \in Down /\ [cmd |-> "error"] \in Down
  /\ \A b \in Nat : Ack(b) \in Down /\ Ack(b).cmd = "ack" /\ Ack(b).block = b
BY DEF Down, Ack

\* tftp_send_data_pkt returns: to the loop, or for the last time.
LEMMA ReturnedCases ==
  ASSUME NEW ok, Returned(ok)
  PROVE  /\ wait_ack' = 0 /\ need_send' = TRUE
         /\ \/ /\ pc = "send" /\ pc' = "outer" /\ rx_block' = tx_block % Width
               /\ tx_block' = tx_block + 1 /\ cur' = 0 /\ UNCHANGED <<taken, re_send>>
            \/ pc = "last" /\ pc' = "done" /\ UNCHANGED file
BY DEF Returned, Begin

\* The variables that a step changes keep their types if the others do.
LEMMA ClientType ==
  ASSUME TypeOK, UNCHANGED <<log, toServer, server>>,
         pc' \in Exchange \cup Over \cup {"outer"}, request' \in BOOLEAN,
         wait_ack' \in 0 .. TFTP_MAX_RETRY, need_send' \in BOOLEAN,
         taken' = taken, cur' \in {0, cur}, tx_block' \in {tx_block, tx_block + 1},
         rx_block' \in {rx_block, tx_block % Width}, re_send' = re_send,
         toClient' \in Seq(Down), Len(toClient') <= Capacity,
         silent' \in [last : Nat, now : Nat], broken' \in Nat, early' = early
  PROVE  TypeOK'
<1>1. /\ written' = written /\ closed' = closed /\ toServer' = toServer /\ server' = server
  BY DEF log
<1>2. cur' \in 0 .. BlockSize /\ tx_block' \in Nat \ {0}
  BY Ints, Constants DEF TypeOK
<1>3. rx_block' \in 0 .. Width - 1
  <2>1. \A n, w \in Nat : w > 0 => n % w \in 0 .. w - 1
    OBVIOUS
  <2>2. tx_block % Width \in 0 .. Width - 1
    <3>1. tx_block \in Nat /\ Width \in Nat /\ Width > 0
      BY Ints, Constants
    <3>2. QED
      BY <2>1, <3>1, Zenon
  <2>3. QED
    BY <2>2 DEF TypeOK
<1>4. QED
  BY <1>1, <1>2, <1>3 DEF TypeOK

\* The steps of the exchange.
LEMMA ExchangeType ==
  ASSUME TypeOK, File, Sendto \/ SendtoFails \/ Timeout \/ Answer \/ GiveUp
  PROVE  TypeOK'
<1>0. /\ wait_ack \in Nat /\ wait_ack <= TFTP_MAX_RETRY /\ TFTP_MAX_RETRY \in Nat
      /\ silent.last \in Nat /\ silent.now \in Nat /\ broken \in Nat
      /\ silent \in [last : Nat, now : Nat] /\ pc \in Exchange \cup Over \cup {"outer"}
      /\ request \in BOOLEAN /\ need_send \in BOOLEAN /\ wait_ack \in 0 .. TFTP_MAX_RETRY
      /\ toClient \in Seq(Down) /\ Len(toClient) <= Capacity /\ 0 \in 0 .. TFTP_MAX_RETRY
  BY Ints, Constants DEF TypeOK
<1>1. CASE Sendto
  <2>1. toServer' \in Seq(Up) /\ Len(toServer') <= Capacity
    <3>1. toServer' \in Lossy(toServer, Packet) /\ Packet \in Up
      BY <1>1, PacketType DEF Sendto
    <3>2. toServer \in Seq(Up) /\ Len(toServer) <= Capacity
      BY Queues
    <3>3. QED
      BY <3>1, <3>2, Sent
  <2>2. UNCHANGED <<pc, request, wait_ack, log, file, toClient, server, history>> /\ need_send' = FALSE
    BY <1>1 DEF Sendto
  <2>3. QED
    BY <2>1, <2>2 DEF TypeOK, log, file, history
<1>2. ASSUME Returned(FALSE) \/ Returned(TRUE)
      PROVE  /\ pc' \in Exchange \cup Over \cup {"outer"} /\ wait_ack' \in 0 .. TFTP_MAX_RETRY
             /\ need_send' \in BOOLEAN /\ taken' = taken /\ cur' \in {0, cur}
             /\ tx_block' \in {tx_block, tx_block + 1} /\ rx_block' \in {rx_block, tx_block % Width}
             /\ re_send' = re_send
  BY <1>0, <1>2, ReturnedCases DEF file, Over
<1>3. ASSUME NEW to \in Over \cup {"outer"}, Begin(to), UNCHANGED file
      PROVE  /\ pc' \in Exchange \cup Over \cup {"outer"} /\ wait_ack' \in 0 .. TFTP_MAX_RETRY
             /\ need_send' \in BOOLEAN /\ taken' = taken /\ cur' \in {0, cur}
             /\ tx_block' \in {tx_block, tx_block + 1} /\ rx_block' \in {rx_block, tx_block % Width}
             /\ re_send' = re_send
  BY <1>0, <1>3 DEF Begin, file
<1>4. ASSUME NEW b \in BOOLEAN, Retry(b), wait_ack < TFTP_MAX_RETRY
      PROVE  /\ pc' \in Exchange \cup Over \cup {"outer"} /\ wait_ack' \in 0 .. TFTP_MAX_RETRY
             /\ need_send' \in BOOLEAN /\ taken' = taken /\ cur' \in {0, cur}
             /\ tx_block' \in {tx_block, tx_block + 1} /\ rx_block' \in {rx_block, tx_block % Width}
             /\ re_send' = re_send
  <2>1. wait_ack + 1 \in 0 .. TFTP_MAX_RETRY
    BY <1>0, <1>4
  <2>2. QED
    BY <1>0, <1>4, <2>1 DEF Retry, file
<1>5. CASE SendtoFails
  <2>1. silent' \in [last : Nat, now : Nat] /\ broken' \in Nat
    BY <1>0, <1>5 DEF SendtoFails
  <2>2. /\ pc' \in Exchange \cup Over \cup {"outer"} /\ wait_ack' \in 0 .. TFTP_MAX_RETRY
        /\ need_send' \in BOOLEAN /\ taken' = taken /\ cur' \in {0, cur}
        /\ tx_block' \in {tx_block, tx_block + 1} /\ rx_block' \in {rx_block, tx_block % Width}
        /\ re_send' = re_send
    BY <1>2, <1>3, <1>5 DEF SendtoFails, Over
  <2>3. UNCHANGED <<request, log, toServer, toClient, server, early>>
    BY <1>5 DEF SendtoFails
  <2>4. QED
    BY <1>0, <2>1, <2>2, <2>3, ClientType
<1>6. CASE Timeout
  <2>1. silent' \in [last : Nat, now : Nat]
    BY <1>0, <1>6 DEF Timeout, Quiet
  <2>2. /\ pc' \in Exchange \cup Over \cup {"outer"} /\ wait_ack' \in 0 .. TFTP_MAX_RETRY
        /\ need_send' \in BOOLEAN /\ taken' = taken /\ cur' \in {0, cur}
        /\ tx_block' \in {tx_block, tx_block + 1} /\ rx_block' \in {rx_block, tx_block % Width}
        /\ re_send' = re_send
    BY <1>4, <1>6 DEF Timeout
  <2>3. UNCHANGED <<request, log, toServer, toClient, server, broken, early>>
    BY <1>6 DEF Timeout
  <2>4. QED
    BY <1>0, <2>1, <2>2, <2>3, ClientType
<1>7. CASE Answer
  <2>1. UNCHANGED <<log, toServer, server, broken, early>> /\ wait_ack < TFTP_MAX_RETRY
    BY <1>7 DEF Answer
  <2>2. toClient' \in Seq(Down) /\ Len(toClient') <= Capacity
    <3>1. toClient # <<>> /\ toClient' = Tail(toClient)
      BY <1>7 DEF Answer
    <3>2. Tail(toClient) \in Seq(Down) /\ Len(Tail(toClient)) = Len(toClient) - 1 /\ Len(toClient) \in Nat \ {0}
      BY <3>1, <1>0, Received
    <3>3. QED
      BY <3>1, <3>2, <1>0, Constants
  <2>3. silent' \in [last : Nat, now : Nat]
    <3>1. \/ silent' = [last |-> silent.now, now |-> 0] \/ silent' = silent
          \/ silent' = [last |-> silent.last, now |-> silent.now + 1]
      BY <1>7 DEF Answer, OpenAnswer, DataAnswer, Quiet
    <3>2. QED
      BY <3>1, <1>0
  <2>4. request' \in BOOLEAN
    BY <1>0, <1>7 DEF Answer, OpenAnswer
  <2>5. \/ Returned(TRUE) \/ Retry(TRUE) \/ Retry(FALSE)
        \/ (Begin("outer") \/ Begin("error")) /\ UNCHANGED file
    BY <1>7 DEF Answer, OpenAnswer, DataAnswer, AfterOldAck
  <2>6. /\ pc' \in Exchange \cup Over \cup {"outer"} /\ wait_ack' \in 0 .. TFTP_MAX_RETRY
        /\ need_send' \in BOOLEAN /\ taken' = taken /\ cur' \in {0, cur}
        /\ tx_block' \in {tx_block, tx_block + 1} /\ rx_block' \in {rx_block, tx_block % Width}
        /\ re_send' = re_send
    <3>1. TRUE \in BOOLEAN /\ FALSE \in BOOLEAN /\ "outer" \in Over \cup {"outer"} /\ "error" \in Over \cup {"outer"}
      BY DEF Over
    <3>2. QED
      BY <1>2, <1>3, <1>4, <2>1, <2>5, <3>1, Zenon
  <2>7. QED
    BY <2>1, <2>2, <2>3, <2>4, <2>6, <1>0, ClientType
<1>8. CASE GiveUp
  BY <1>0, <1>8 DEF GiveUp, TypeOK, Over, file, history, log
<1>9. QED
  BY <1>1, <1>5, <1>6, <1>7, <1>8

\* The steps of the loop and of qlog.
LEMMA LoopType ==
  ASSUME TypeOK, File,
         \/ StrayPacket \/ (\E n \in 1 .. BlockSize : TakeLog(n)) \/ EndOfLog \/ QuietPeriod
         \/ Write \/ Close
  PROVE  TypeOK'
<1>0. TFTP_MAX_RETRY \in Nat /\ 0 \in 0 .. TFTP_MAX_RETRY
  BY Constants
<1>1. CASE StrayPacket
  <2>1. toClient' \in Seq(Down) /\ Len(toClient') <= Capacity
    <3>1. toClient # <<>> /\ toClient' = Tail(toClient) /\ toClient \in Seq(Down) /\ Len(toClient) <= Capacity
      BY <1>1, Queues DEF StrayPacket
    <3>2. Tail(toClient) \in Seq(Down) /\ Len(Tail(toClient)) = Len(toClient) - 1 /\ Len(toClient) \in Nat \ {0}
      BY <3>1, Received
    <3>3. QED
      BY <3>1, <3>2, Constants
  <2>2. UNCHANGED <<request, wait_ack, need_send, log, file, toServer, server, history>>
        /\ pc' \in {"stale", "outer"}
    BY <1>1 DEF StrayPacket
  <2>3. QED
    BY <2>1, <2>2 DEF TypeOK, log, file, history, Over
<1>2. ASSUME NEW n \in 1 .. BlockSize, TakeLog(n) PROVE TypeOK'
  <2>1. /\ UNCHANGED <<request, log, tx_block, rx_block, re_send, toServer, toClient, server, history>>
        /\ taken' = taken + n /\ cur' = cur + n /\ n <= written - taken /\ n <= BlockSize - cur
    BY <1>2 DEF TakeLog
  <2>2. taken' \in 0 .. written /\ cur' \in 0 .. BlockSize
    <3>1. /\ taken' = taken + n /\ cur' = cur + n /\ n <= written - taken /\ n <= BlockSize - cur
          /\ taken \in Nat /\ cur \in Nat /\ written \in Nat /\ BlockSize \in Nat /\ n \in Nat
      BY <2>1, Ints, Constants
    <3>2. QED
      BY <3>1
  <2>3. /\ pc' \in Exchange \cup Over \cup {"outer"} /\ wait_ack' \in 0 .. TFTP_MAX_RETRY
        /\ need_send' \in BOOLEAN
    <3>1. \/ pc' = "send" /\ wait_ack' = 0 /\ need_send' = TRUE
          \/ UNCHANGED <<pc, wait_ack, need_send>>
      BY <1>2 DEF TakeLog, Begin
    <3>2. QED
      BY <3>1, <1>0 DEF TypeOK, Exchange
  <2>4. QED
    BY <2>1, <2>2, <2>3 DEF TypeOK, log, history
<1>3. CASE EndOfLog
  <2>1. /\ UNCHANGED <<request, log, file, toServer, toClient, server, history>>
        /\ pc' = "last" /\ wait_ack' = 0 /\ need_send' = TRUE
    BY <1>3 DEF EndOfLog, Begin
  <2>2. QED
    BY <2>1, <1>0 DEF TypeOK, log, file, history, Exchange
<1>4. CASE QuietPeriod
  <2>1. UNCHANGED <<request, log, taken, cur, tx_block, rx_block, toServer, toClient, server, silent, broken>>
    BY <1>4 DEF QuietPeriod
  <2>2. CASE re_send > TFTP_MAX_RETRY
    <3>1. pc' = "last" /\ wait_ack' = 0 /\ need_send' = TRUE /\ early' = TRUE /\ re_send' = re_send
      BY <1>4, <2>2 DEF QuietPeriod, Begin
    <3>2. QED
      BY <2>1, <3>1, <1>0 DEF TypeOK, log, Exchange
  <2>3. CASE ~(re_send > TFTP_MAX_RETRY)
    <3>1. re_send' = re_send + 1 /\ UNCHANGED <<pc, wait_ack, need_send, early>>
      BY <1>4, <2>3 DEF QuietPeriod
    <3>2. re_send' \in 0 .. TFTP_MAX_RETRY + 1
      BY <2>3, <3>1, <1>0 DEF TypeOK
    <3>3. QED
      BY <2>1, <3>1, <3>2 DEF TypeOK, log
  <2>4. QED
    BY <2>2, <2>3
<1>5. CASE Write
  <2>1. /\ UNCHANGED <<client, closed, file, toServer, toClient, server, history>>
        /\ written' = written + 1 /\ written < MaxWritten
    BY <1>5 DEF Write
  <2>2. written' \in 0 .. MaxWritten /\ taken \in 0 .. written'
    BY <2>1, Ints, Constants
  <2>3. QED
    BY <2>1, <2>2 DEF TypeOK, client, file, history
<1>6. CASE Close
  BY <1>6 DEF Close, TypeOK, client, file, history
<1>7. QED
  BY <1>1, <1>2, <1>3, <1>4, <1>5, <1>6

\* The steps of the server.
LEMMA ServeType ==
  ASSUME TypeOK, Serve
  PROVE  TypeOK'
<1>1. toServer # <<>> /\ toServer' = Tail(toServer) /\ UNCHANGED <<client, log, file, history>>
  BY DEF Serve
<1>2. /\ toServer \in Seq(Up) /\ Len(toServer) <= Capacity
      /\ toClient \in Seq(Down) /\ Len(toClient) <= Capacity
  BY Queues
<1>3. PICK p \in Up : p = Head(toServer) /\ (Open(p) \/ Store(p))
  BY <1>1, <1>2, Received DEF Serve
<1>4. toServer' \in Seq(Up) /\ Len(toServer') <= Capacity
  <2>1. Tail(toServer) \in Seq(Up) /\ Len(Tail(toServer)) = Len(toServer) - 1 /\ Len(toServer) \in Nat \ {0}
    BY <1>1, <1>2, Received
  <2>2. QED
    BY <1>1, <1>2, <2>1, Constants
<1>5. toClient' \in Seq(Down) /\ Len(toClient') <= Capacity
  <2>1. ASSUME NEW a \in Down, toClient' \in Lossy(toClient, a)
        PROVE  toClient' \in Seq(Down) /\ Len(toClient') <= Capacity
    BY <1>2, <2>1, Sent
  <2>2. CASE Open(p)
    BY <2>1, <2>2, AnswerType DEF Open
  <2>3. CASE Store(p)
    <3>1. p.block \in Nat
      BY <2>3, UpPacket DEF Store
    <3>2. Ack(p.block) \in Down
      BY <3>1, AnswerType
    <3>3. toClient' \in Lossy(toClient, Ack(p.block)) \/ toClient' = toClient
      BY <2>3 DEF Store
    <3>4. QED
      BY <1>2, <2>1, <3>2, <3>3
  <2>4. QED
    BY <1>3, <2>2, <2>3
<1>6. server' \in [last : Nat, data : Seq(Nat), over : BOOLEAN]
  <2>1. server \in [last : Nat, data : Seq(Nat), over : BOOLEAN]
    BY DEF TypeOK
  <2>2. CASE server' = server
    BY <2>1, <2>2
  <2>3. CASE server' = [last |-> server.last + 1, data |-> server.data \o p.data,
                        over |-> Len(p.data) < BlockSize] /\ p.cmd = "data"
    <3>1. p.data \in Seq(Nat) /\ server.data \in Seq(Nat) /\ server.last \in Nat
      BY <2>3, UpPacket, Ints
    <3>2. server.data \o p.data \in Seq(Nat) /\ server.last + 1 \in Nat /\ (Len(p.data) < BlockSize) \in BOOLEAN
      BY <3>1, ConcatProperties
    <3>3. QED
      BY <2>3, <3>2
  <2>4. QED
    BY <1>3, <2>2, <2>3 DEF Open, Store
<1>7. QED
  BY <1>1, <1>4, <1>5, <1>6 DEF TypeOK, client, log, file, history

-----------------------------------------------------------------------------
(* The file. *)

\* Products with the size of a block.
LEMMA Products ==
  /\ \A n \in Nat \ {0} : (n + 1 - 1) * BlockSize = (n - 1) * BlockSize + BlockSize
  /\ \A n \in Nat : (n + 1) * BlockSize = n * BlockSize + BlockSize /\ n * BlockSize \in Nat
  /\ \A m, n \in Nat : m <= n => m * BlockSize <= n * BlockSize
<1>1. BlockSize \in Nat
  BY Constants
<1>2. \A b \in Nat :
        /\ \A n \in Nat \ {0} : (n + 1 - 1) * b = (n - 1) * b + b
        /\ \A n \in Nat : (n + 1) * b = n * b + b /\ n * b \in Nat
        /\ \A m, n \in Nat : m <= n => m * b <= n * b
  OBVIOUS
<1>3. QED
  BY <1>1, <1>2

\* Returning from an exchange leaves the place in the log in order.
LEMMA FileReturned ==
  ASSUME TypeOK, File, NEW ok, Returned(ok), UNCHANGED <<log, early>>
  PROVE  File'
<1>0. /\ tx_block \in Nat \ {0} /\ taken \in Nat /\ cur \in Nat /\ BlockSize \in Nat /\ BlockSize > 0
  BY Ints, Constants
<1>1. CASE /\ pc = "send" /\ pc' = "outer" /\ rx_block' = tx_block % Width
           /\ tx_block' = tx_block + 1 /\ cur' = 0 /\ UNCHANGED <<taken, re_send>>
  <2>1. cur = BlockSize /\ taken - cur = (tx_block - 1) * BlockSize
    BY <1>1 DEF File
  <2>2. (tx_block' - 1) * BlockSize = (tx_block - 1) * BlockSize + BlockSize
    BY <1>0, <1>1, Products
  <2>3. taken' - cur' = (tx_block' - 1) * BlockSize
    BY <1>0, <1>1, <2>1, <2>2
  <2>4. tx_block' - 1 = tx_block
    BY <1>0, <1>1
  <2>5. rx_block' = (tx_block' - 1) % Width
    BY <1>1, <2>4
  <2>6. QED
    BY <1>0, <1>1, <2>3, <2>5 DEF File
<1>2. CASE pc = "last" /\ pc' = "done" /\ UNCHANGED file
  BY <1>2 DEF File, file, log
<1>3. QED
  BY <1>1, <1>2, ReturnedCases

\* The steps that leave the block alone.
LEMMA FileKept ==
  ASSUME File, UNCHANGED <<file, log, early>>,
         pc' \in {pc, "refused", "error", "aborted", "stale"}
  PROVE  File'
BY DEF File, file, log

\* Every step keeps the place in the log.
LEMMA FileStep ==
  ASSUME TypeOK, File, [Next]_vars
  PROVE  File'
<1>1. CASE Sendto \/ Timeout \/ GiveUp
  <2>1. UNCHANGED <<file, log, early>> /\ pc' \in {pc, "refused", "aborted"}
    BY <1>1 DEF Sendto, Timeout, GiveUp, Retry, history
  <2>2. QED
    BY <2>1, FileKept
<1>2. CASE SendtoFails
  <2>1. UNCHANGED <<log, early>>
    BY <1>2 DEF SendtoFails
  <2>2. CASE Returned(FALSE)
    BY <2>1, <2>2, FileReturned
  <2>3. CASE Begin("refused") /\ UNCHANGED file
    BY <2>1, <2>3, FileKept DEF Begin
  <2>4. QED
    BY <1>2, <2>2, <2>3 DEF SendtoFails
<1>3. CASE Answer
  <2>1. UNCHANGED <<log, early>>
    BY <1>3 DEF Answer
  <2>2. CASE Returned(TRUE)
    BY <2>1, <2>2, FileReturned
  <2>3. CASE pc' = pc /\ UNCHANGED file
    BY <2>1, <2>3, FileKept
  <2>4. CASE Begin("error") /\ UNCHANGED file
    BY <2>1, <2>4, FileKept DEF Begin
  <2>5. CASE pc = "wrq" /\ Begin("outer") /\ UNCHANGED file
    BY <2>1, <2>5 DEF Begin, File, file, log
  <2>6. QED
    BY <1>3, <2>2, <2>3, <2>4, <2>5 DEF Answer, OpenAnswer, DataAnswer, AfterOldAck, Retry
<1>4. CASE StrayPacket
  <2>1. UNCHANGED <<file, log, early>> /\ pc' \in {pc, "stale"}
    BY <1>4 DEF StrayPacket, history
  <2>2. QED
    BY <2>1, FileKept
<1>5. ASSUME NEW n \in 1 .. BlockSize, TakeLog(n) PROVE File'
  <2>1. /\ pc = "outer" /\ taken' = taken + n /\ cur' = cur + n /\ UNCHANGED <<log, tx_block, rx_block, early>>
        /\ n <= BlockSize - cur
    BY <1>5 DEF TakeLog, history
  <2>2. /\ (cur + n = BlockSize /\ pc' = "send") \/ (cur + n # BlockSize /\ pc' = "outer")
    BY <1>5 DEF TakeLog, Begin
  <2>3. /\ taken \in Nat /\ cur \in Nat /\ BlockSize \in Nat /\ n \in Nat
        /\ taken - cur = (tx_block - 1) * BlockSize /\ rx_block = (tx_block - 1) % Width
    BY <2>1, Ints, Constants DEF File
  <2>4. taken' - cur' = taken - cur /\ (cur + n # BlockSize => cur' < BlockSize)
    BY <2>1, <2>3
  <2>5. QED
    BY <2>1, <2>2, <2>3, <2>4 DEF File
<1>6. CASE EndOfLog \/ QuietPeriod
  <2>1. CASE pc' = "last"
    <3>1. /\ pc = "outer" /\ UNCHANGED <<log, taken, cur, tx_block, rx_block>>
          /\ (~early' => closed /\ taken = written)
      BY <1>6, <2>1 DEF EndOfLog, QuietPeriod, file
    <3>2. QED
      BY <2>1, <3>1 DEF File, log
  <2>2. CASE pc' = pc
    <3>1. pc = "outer" /\ UNCHANGED <<log, taken, cur, tx_block, rx_block>>
      BY <1>6, <2>2 DEF EndOfLog, QuietPeriod, file
    <3>2. QED
      BY <2>2, <3>1 DEF File, log
  <2>3. QED
    BY <1>6, <2>1, <2>2 DEF EndOfLog, QuietPeriod, Begin
<1>7. CASE Write \/ Close
  <2>1. UNCHANGED <<client, file, early>> /\ ~closed /\ pc # "wrq"
    BY <1>7 DEF Write, Close, history
  <2>2. pc # "done"
    BY <1>7 DEF Write, Close, Over
  <2>3. pc = "last" => early
    BY <2>1 DEF File
  <2>4. QED
    BY <2>1, <2>2, <2>3 DEF File, client, file
<1>8. CASE Serve
  <2>1. UNCHANGED <<file, log, early>> /\ pc' = pc
    BY <1>8 DEF Serve, client, history
  <2>2. QED
    BY <2>1, FileKept
<1>9. CASE UNCHANGED vars
  <2>1. UNCHANGED <<file, log, early>> /\ pc' = pc
    BY <1>9 DEF vars, client, history
  <2>2. QED
    BY <2>1, FileKept
<1>10. QED
  BY <1>1, <1>2, <1>3, <1>4, <1>5, <1>6, <1>7, <1>8, <1>9 DEF Next, Thread

-----------------------------------------------------------------------------
(* The order of blocks and ACKs. *)

\* What a queue of ACKs keeps when its first packet is read.
LEMMA AcksRead ==
  ASSUME TypeOK, Acks, toClient' = toClient \/ (toClient # <<>> /\ toClient' = Tail(toClient))
  PROVE  Elems(toClient') \subseteq Elems(toClient) /\ Sorted(toClient', "ack")
<1>1. toClient \in Seq(Down)
  BY Queues
<1>2. CASE toClient' = toClient
  BY <1>2 DEF Acks
<1>3. CASE toClient # <<>> /\ toClient' = Tail(toClient)
  <2>1. Elems(Tail(toClient)) \subseteq Elems(toClient)
    BY <1>1, <1>3, Received
  <2>2. Sorted(Tail(toClient), "ack")
    BY <1>1, <1>3, SortedTail DEF Acks
  <2>3. QED
    BY <1>3, <2>1, <2>2
<1>4. QED
  BY <1>2, <1>3

\* Elements of the queues have their types.
LEMMA ElemTypes ==
  ASSUME TypeOK
  PROVE  Elems(toServer) \subseteq Up /\ Elems(toClient) \subseteq Down
BY Queues, ElementOfSeq DEF Elems

\* Steps that neither send, store nor go on to another block.
LEMMA OrderKept ==
  ASSUME TypeOK, Blocks, Acks, Stored, UNCHANGED <<toServer, server, tx_block, taken, cur>>,
         broken' \in Nat, broken <= broken',
         toClient' = toClient \/ (toClient # <<>> /\ toClient' = Tail(toClient)),
         Sending => Sending',
         pc' = "done" /\ broken' = 0 => server.last = tx_block
  PROVE  Blocks' /\ Acks' /\ Stored'
<1>0. /\ tx_block \in Nat /\ broken \in Nat /\ server.last \in Nat
  BY Ints
<1>1. Blocks'
  BY DEF Blocks, GoodBlock
<1>2. Acks'
  <2>1. Elems(toClient') \subseteq Elems(toClient) /\ Sorted(toClient', "ack")
    BY AcksRead
  <2>2. ASSUME NEW p \in Elems(toClient'), p.cmd = "ack" PROVE GoodAck(p)'
    <3>1. GoodAck(p) /\ p \in Down
      BY <2>1, <2>2, ElemTypes DEF Acks
    <3>2. p.block \in Nat
      BY <2>2, <3>1, DownPacket
    <3>3. QED
      BY <1>0, <3>1, <3>2 DEF GoodAck
  <2>3. QED
    BY <2>1, <2>2 DEF Acks
<1>3. Stored'
  <2>1. tx_block - 1 - broken' <= server.last
    BY <1>0 DEF Stored
  <2>2. QED
    BY <2>1 DEF Stored
<1>4. QED
  BY <1>1, <1>2, <1>3

\* The thread goes on to the next block, after an ACK or a failed send.
LEMMA OrderReturned ==
  ASSUME TypeOK, File, Blocks, Acks, Stored, UNCHANGED <<toServer, server, taken>>,
         pc = "send", pc' = "outer", tx_block' = tx_block + 1, cur' = 0,
         broken' \in Nat,
         Elems(toClient') \subseteq Elems(toClient), Sorted(toClient', "ack"),
         \A p \in Elems(toClient') : p.cmd = "ack" => tx_block - broken' <= p.block,
         tx_block - broken' <= server.last
  PROVE  Blocks' /\ Acks' /\ Stored'
<1>0. /\ tx_block \in Nat /\ tx_block > 0 /\ broken \in Nat /\ server.last \in Nat
      /\ BlockSize \in Nat /\ BlockSize > 0 /\ taken \in Nat /\ cur \in Nat
      /\ tx_block' - 1 = tx_block
  BY Ints, Constants
<1>1. cur = BlockSize /\ taken - cur = (tx_block - 1) * BlockSize
  BY DEF File
<1>2. taken = tx_block * BlockSize
  <2>1. \A n, b, t \in Nat : n > 0 /\ t - b = (n - 1) * b => t = n * b
    OBVIOUS
  <2>2. QED
    BY <1>0, <1>1, <2>1
<1>3. Blocks'
  <2>1. ASSUME NEW p \in Elems(toServer), p.cmd = "data" PROVE GoodBlock(p)'
    <3>1. GoodBlock(p) /\ p.block \in Nat
      BY <2>1, ElemTypes, UpPacket DEF Blocks
    <3>2. p.block \in 1 .. tx_block' /\ p.block # tx_block' /\ server.last <= p.block
      BY <1>0, <3>1 DEF GoodBlock
    <3>3. p.data = Bytes((p.block - 1) * BlockSize, p.block * BlockSize)
      <4>1. CASE p.block = tx_block
        <5>1. p.data = Bytes(taken - cur, taken)
          BY <3>1, <4>1 DEF GoodBlock
        <5>2. QED
          BY <1>1, <1>2, <4>1, <5>1
      <4>2. CASE p.block # tx_block
        <5>1. p.block <= tx_block
          BY <3>1 DEF GoodBlock
        <5>2. p.block < tx_block
          BY <1>0, <3>1, <4>2, <5>1
        <5>3. QED
          BY <3>1, <5>2 DEF GoodBlock
      <4>3. QED
        BY <4>1, <4>2
    <3>4. QED
      BY <3>2, <3>3 DEF GoodBlock
  <2>2. QED
    BY <2>1 DEF Blocks
<1>4. Acks'
  <2>1. ASSUME NEW p \in Elems(toClient'), p.cmd = "ack" PROVE GoodAck(p)'
    <3>1. GoodAck(p) /\ tx_block - broken' <= p.block
      BY <2>1 DEF Acks
    <3>2. QED
      BY <1>0, <3>1 DEF GoodAck
  <2>2. QED
    BY <2>1 DEF Acks
<1>5. Stored'
  <2>1. ~server.over
    BY <1>0, <1>1 DEF Stored
  <2>2. server.last <= tx_block /\ server.data = Bytes(0, server.last * BlockSize)
    BY <2>1 DEF Stored
  <2>3. server.last <= tx_block' /\ server.last # tx_block'
    BY <1>0, <2>2
  <2>4. tx_block' - 1 - broken' <= server.last
    BY <1>0
  <2>5. QED
    BY <2>1, <2>2, <2>3, <2>4 DEF Stored
<1>6. QED
  BY <1>3, <1>4, <1>5

\* A block sent is the newest one in the queue.
LEMMA OrderSendto ==
  ASSUME TypeOK, File, Blocks, Acks, Stored, Sendto
  PROVE  Blocks' /\ Acks' /\ Stored'
<1>1. /\ toServer' \in Lossy(toServer, Packet) /\ pc \in Exchange
      /\ UNCHANGED <<pc, taken, cur, tx_block, toClient, server, broken>>
  BY DEF Sendto, file, history
<1>2. Acks'
  BY <1>1 DEF Acks, GoodAck
<1>3. Stored'
  BY <1>1 DEF Stored, Sending
<1>4. PICK p \in Up : p = Packet
  BY PacketType
<1>5. /\ toServer \in Seq(Up) /\ (toServer' = toServer \/ toServer' = Append(toServer, p))
  BY <1>1, <1>4, Queues, Sent
<1>6. \A q \in Elems(toServer) : q.cmd = "data" => GoodBlock(q)'
  BY <1>1 DEF Blocks, GoodBlock, Sending
<1>7. CASE toServer' = toServer
  BY <1>2, <1>3, <1>6, <1>7 DEF Blocks
<1>8. CASE toServer' = Append(toServer, p)
  <2>1. Elems(toServer') = Elems(toServer) \cup {p}
    BY <1>5, <1>8, Appended
  <2>2. p.cmd = "data" => /\ pc # "wrq" /\ p.block = tx_block /\ p.data = Bytes(taken - cur, taken)
    BY <1>4, PacketType
  <2>3. p.cmd = "data" => GoodBlock(p)'
    <3>1. SUFFICES ASSUME p.cmd = "data" PROVE GoodBlock(p)'
      OBVIOUS
    <3>2. Sending'
      BY <1>1, <2>2, <3>1 DEF Sending, Exchange
    <3>3. tx_block \in Nat /\ tx_block > 0 /\ server.last <= tx_block
      BY Ints DEF Stored
    <3>4. p.block \in 1 .. tx_block /\ ~(p.block < tx_block)
      BY <2>2, <3>1, <3>3
    <3>5. QED
      BY <1>1, <2>2, <3>1, <3>2, <3>3, <3>4 DEF GoodBlock
  <2>4. Sorted(toServer', "data")
    <3>1. p.cmd = "data" => \A q \in Elems(toServer) : q.cmd = "data" => q.block <= p.block
      BY <2>2, Ints DEF Blocks, GoodBlock
    <3>2. Sorted(toServer, "data")
      BY DEF Blocks
    <3>3. QED
      BY <1>5, <1>8, <3>1, <3>2, SortedAppend
  <2>5. Blocks'
    BY <1>6, <2>1, <2>3, <2>4 DEF Blocks
  <2>6. QED
    BY <1>2, <1>3, <2>5
<1>9. QED
  BY <1>5, <1>7, <1>8

\* Taking log leaves the packets and what is stored alone.
LEMMA OrderTakeLog ==
  ASSUME TypeOK, File, Blocks, Acks, Stored, NEW n \in 1 .. BlockSize, TakeLog(n)
  PROVE  Blocks' /\ Acks' /\ Stored'
<1>1. /\ pc = "outer" /\ pc' \in {"outer", "send"}
      /\ UNCHANGED <<tx_block, toServer, toClient, server, broken>>
  BY DEF TakeLog, Begin, history
<1>2. ~Sending
  BY <1>1 DEF Sending
<1>3. Blocks'
  <2>1. ASSUME NEW p \in Elems(toServer), p.cmd = "data" PROVE GoodBlock(p)'
    <3>1. GoodBlock(p)
      BY <2>1 DEF Blocks
    <3>2. p.block # tx_block
      BY <1>2, <3>1 DEF GoodBlock
    <3>3. QED
      BY <1>1, <3>1, <3>2 DEF GoodBlock
  <2>2. QED
    BY <1>1, <2>1 DEF Blocks
<1>4. Acks'
  BY <1>1 DEF Acks, GoodAck
<1>5. Stored'
  <2>1. server.last # tx_block /\ ~server.over
    BY <1>2 DEF Stored
  <2>2. QED
    BY <1>1, <2>1 DEF Stored
<1>6. QED
  BY <1>3, <1>4, <1>5

\* A block that looks like the last one or the next one is that one.
LEMMA LooksLike ==
  ASSUME TypeOK, Stored, broken <= Width - 2, NEW p \in Up, p.cmd = "data", GoodBlock(p)
  PROVE  /\ Number(p) = (server.last + 1) % Width => p.block = server.last + 1
         /\ Number(p) = server.last % Width => p.block = server.last
<1>0. /\ tx_block \in Nat /\ broken \in Nat /\ server.last \in Nat /\ p.block \in Nat
      /\ Width \in Nat /\ Width > 1
  BY Ints, Constants, UpPacket
<1>1. server.last <= p.block /\ p.block <= tx_block /\ tx_block - 1 - broken <= server.last
  BY DEF GoodBlock, Stored
<1>2. p.block - server.last < Width
  BY <1>0, <1>1
<1>3. ASSUME Number(p) = server.last % Width PROVE p.block = server.last
  <2>1. server.last % Width = p.block % Width
    BY <1>3 DEF Number
  <2>2. QED
    BY <1>0, <1>1, <1>2, <2>1, Alike
<1>4. ASSUME Number(p) = (server.last + 1) % Width PROVE p.block = server.last + 1
  <2>0. PICK m \in Nat : m = server.last + 1
    BY <1>0
  <2>1. m % Width = p.block % Width
    BY <1>4, <2>0 DEF Number
  <2>2. CASE p.block = server.last
    <3>1. server.last <= m /\ m - server.last < Width /\ server.last % Width = m % Width
      BY <1>0, <2>0, <2>1, <2>2
    <3>2. server.last = m
      BY <1>0, <3>1, Alike
    <3>3. QED
      BY <1>0, <2>0, <3>2
  <2>3. CASE p.block # server.last
    <3>1. m <= p.block /\ p.block - m < Width
      BY <1>0, <1>1, <1>2, <2>0, <2>3
    <3>2. m = p.block
      BY <1>0, <2>1, <3>1, Alike
    <3>3. QED
      BY <2>0, <3>2
  <2>4. QED
    BY <2>2, <2>3
<1>5. QED
  BY <1>3, <1>4

\* The server stores the next block.
LEMMA StoredNext ==
  ASSUME TypeOK, File, Stored, NEW p \in Up, p.cmd = "data", GoodBlock(p),
         p.block = server.last + 1, ~server.over,
         server' = [last |-> server.last + 1, data |-> server.data \o p.data,
                    over |-> Len(p.data) < BlockSize],
         UNCHANGED <<pc, tx_block, taken, cur, broken>>
  PROVE  Stored'
<1>0. /\ tx_block \in Nat /\ tx_block > 0 /\ broken \in Nat /\ server.last \in Nat /\ p.block \in Nat
      /\ BlockSize \in Nat /\ BlockSize > 0 /\ taken \in Nat /\ cur \in Nat /\ cur <= BlockSize
  BY Ints, Constants, UpPacket
<1>1. /\ server'.last = server.last + 1 /\ server'.data = server.data \o p.data
      /\ server'.over <=> Len(p.data) < BlockSize
  OBVIOUS
<1>2. /\ server.data = Bytes(0, server.last * BlockSize) /\ p.block <= tx_block
      /\ tx_block - 1 - broken <= server.last
  BY DEF Stored, GoodBlock
<1>3. pc = "done" /\ broken = 0 => FALSE
  <2>1. pc = "done" /\ broken = 0 => server.last = tx_block
    BY DEF Stored
  <2>2. QED
    BY <1>0, <1>2, <2>1
<1>4. PICK a \in Nat : a = server.last * BlockSize
  BY <1>0, Products
<1>5. (server.last + 1) * BlockSize = a + BlockSize
  BY <1>0, <1>4, Products
<1>6. CASE p.block = tx_block
  <2>1. Sending /\ p.data = Bytes(taken - cur, taken)
    BY <1>6 DEF GoodBlock
  <2>2. taken - cur = a
    <3>1. tx_block - 1 = server.last
      BY <1>0, <1>6
    <3>2. QED
      BY <3>1, <1>4 DEF File
  <2>3. a <= taken
    BY <1>0, <2>2
  <2>4. Len(p.data) = cur /\ server'.data = Bytes(0, taken)
    <3>1. Len(Bytes(a, taken)) = taken - a
      BY <1>0, <2>3, Parts
    <3>2. Bytes(0, a) \o Bytes(a, taken) = Bytes(0, taken)
      BY <1>0, <2>3, PartsJoin
    <3>3. taken - a = cur
      BY <1>0, <2>2
    <3>4. QED
      BY <1>1, <1>2, <1>4, <2>1, <2>2, <3>1, <3>2, <3>3
  <2>5. server'.last = tx_block /\ tx_block - 1 - broken <= server'.last
    BY <1>0, <1>1, <1>6
  <2>6. Sending'
    BY <2>1 DEF Sending
  <2>7. ~server'.over => cur = BlockSize /\ taken = server'.last * BlockSize
    <3>1. ~server'.over => cur = BlockSize
      BY <1>0, <1>1, <2>4
    <3>2. server'.last * BlockSize = a + BlockSize
      BY <1>1, <1>5
    <3>3. QED
      BY <1>0, <2>2, <3>1, <3>2
  <2>8. server'.over => cur < BlockSize
    BY <1>1, <2>4
  <2>9. server'.last <= tx_block
    BY <1>0, <2>5
  <2>10. QED
    BY <2>4, <2>5, <2>6, <2>7, <2>8, <2>9 DEF Stored
<1>7. CASE p.block # tx_block
  <2>1. p.block < tx_block
    BY <1>0, <1>2, <1>7
  <2>2. p.data = Bytes((p.block - 1) * BlockSize, p.block * BlockSize)
    BY <2>1 DEF GoodBlock
  <2>3. p.block - 1 = server.last
    BY <1>0
  <2>4. p.data = Bytes(a, a + BlockSize)
    BY <1>4, <1>5, <2>2, <2>3
  <2>5. PICK b \in Nat : b = a + BlockSize /\ a <= b /\ b - a = BlockSize
    BY <1>0
  <2>6. Len(p.data) = BlockSize /\ server'.data = Bytes(0, b)
    <3>1. Len(Bytes(a, b)) = b - a
      BY <2>5, Parts
    <3>2. Bytes(0, a) \o Bytes(a, b) = Bytes(0, b)
      BY <2>5, PartsJoin
    <3>3. QED
      BY <1>1, <1>2, <1>4, <2>4, <2>5, <3>1, <3>2
  <2>7. ~server'.over
    BY <1>0, <1>1, <2>6
  <2>8. /\ server'.last # tx_block /\ server'.last <= tx_block
        /\ tx_block - 1 - broken <= server'.last
    BY <1>0, <1>1, <1>2, <1>7
  <2>9. server'.data = Bytes(0, server'.last * BlockSize)
    <3>1. server'.last * BlockSize = b
      BY <1>1, <1>5, <2>5
    <3>2. QED
      BY <2>6, <3>1
  <2>10. QED
    BY <1>3, <2>7, <2>8, <2>9 DEF Stored
<1>8. QED
  BY <1>6, <1>7

\* An ACK is sent for the last block stored.
LEMMA AcksSent ==
  ASSUME TypeOK, Acks, Stored, NEW a \in Down, toClient' \in Lossy(toClient, a),
         UNCHANGED <<tx_block, broken>>, server'.last \in {server.last, server.last + 1},
         a.cmd = "ack" => a.block = server'.last /\ 1 <= a.block
  PROVE  Acks'
<1>0. tx_block \in Nat /\ broken \in Nat /\ server.last \in Nat /\ server'.last \in Nat
      /\ server.last <= server'.last
  BY Ints
<1>1. toClient \in Seq(Down) /\ (toClient' = toClient \/ toClient' = Append(toClient, a))
  BY Queues, Sent
<1>2. ASSUME NEW p \in Elems(toClient), p.cmd = "ack"
      PROVE  GoodAck(p)' /\ p.block <= server'.last
  <2>1. GoodAck(p) /\ p.block \in Nat
    BY <1>2, ElemTypes, DownPacket DEF Acks
  <2>2. QED
    BY <1>0, <2>1 DEF GoodAck
<1>3. a.cmd = "ack" => GoodAck(a)'
  <2>1. tx_block - 1 - broken <= server'.last
    BY <1>0 DEF Stored
  <2>2. QED
    BY <1>0, <2>1 DEF GoodAck
<1>4. CASE toClient' = toClient
  BY <1>2, <1>4 DEF Acks
<1>5. CASE toClient' = Append(toClient, a)
  <2>1. Elems(toClient') = Elems(toClient) \cup {a}
    BY <1>1, <1>5, Appended
  <2>2. Sorted(toClient', "ack")
    <3>1. a.cmd = "ack" => \A q \in Elems(toClient) : q.cmd = "ack" => q.block <= a.block
      BY <1>2
    <3>2. Sorted(toClient, "ack")
      BY DEF Acks
    <3>3. QED
      BY <1>1, <1>5, <3>1, <3>2, SortedAppend
  <2>3. QED
    BY <1>2, <1>3, <2>1, <2>2 DEF Acks
<1>6. QED
  BY <1>1, <1>4, <1>5

\* The server stores the next block and answers for it, or answers again for the last.
LEMMA OrderServe ==
  ASSUME TypeOK, File, Blocks, Acks, Stored, broken <= Width - 2, Serve
  PROVE  Blocks' /\ Acks' /\ Stored'
<1>1. toServer # <<>> /\ toServer' = Tail(toServer) /\ UNCHANGED <<pc, tx_block, taken, cur, broken>>
  BY DEF Serve, client, file, history
<1>2. /\ toServer \in Seq(Up) /\ Sorted(toServer, "data")
  BY Queues DEF Blocks
<1>3. PICK p \in Up : p = Head(toServer) /\ p \in Elems(toServer) /\ (Open(p) \/ Store(p))
  BY <1>1, <1>2, Received DEF Serve
<1>4. /\ Elems(toServer') \subseteq Elems(toServer) /\ Sorted(toServer', "data")
      /\ p.cmd = "data" => \A q \in Elems(toServer') : q.cmd = "data" => p.block <= q.block
  <2>1. Elems(Tail(toServer)) \subseteq Elems(toServer)
    BY <1>1, <1>2, Received
  <2>2. /\ Sorted(Tail(toServer), "data")
        /\ Head(toServer).cmd = "data" =>
             \A q \in Elems(Tail(toServer)) : q.cmd = "data" => Head(toServer).block <= q.block
    BY <1>1, <1>2, SortedTail
  <2>3. QED
    BY <1>1, <1>3, <2>1, <2>2
<1>5. ASSUME \A q \in Elems(toServer') : q.cmd = "data" => server'.last <= q.block
      PROVE  Blocks'
  <2>1. ASSUME NEW q \in Elems(toServer'), q.cmd = "data" PROVE GoodBlock(q)'
    <3>1. GoodBlock(q) /\ server'.last <= q.block
      BY <1>4, <1>5, <2>1 DEF Blocks
    <3>2. QED
      BY <1>1, <3>1 DEF GoodBlock, Sending
  <2>2. QED
    BY <1>4, <2>1 DEF Blocks
<1>6. CASE server' = server /\ toClient' = toClient
  <2>1. Blocks'
    <3>1. \A q \in Elems(toServer') : q.cmd = "data" => server'.last <= q.block
      BY <1>4, <1>6 DEF Blocks, GoodBlock
    <3>2. QED
      BY <1>5, <3>1
  <2>2. QED
    BY <1>1, <1>6, <2>1 DEF Acks, GoodAck, Stored, Sending
<1>7. ASSUME NEW a \in Down, toClient' \in Lossy(toClient, a), server' = server,
             a.cmd = "ack" => a.block = server.last /\ 1 <= a.block
      PROVE  Blocks' /\ Acks' /\ Stored'
  <2>1. Blocks'
    <3>1. \A q \in Elems(toServer') : q.cmd = "data" => server'.last <= q.block
      BY <1>4, <1>7 DEF Blocks, GoodBlock
    <3>2. QED
      BY <1>5, <3>1
  <2>2. Acks'
    BY <1>1, <1>7, AcksSent
  <2>3. Stored'
    BY <1>1, <1>7 DEF Stored, Sending
  <2>4. QED
    BY <2>1, <2>2, <2>3
<1>8. CASE Open(p)
  BY <1>7, <1>8, AnswerType DEF Open
<1>9. CASE Store(p)
  <2>1. p.cmd = "data" /\ p.block \in Nat
    BY <1>9, UpPacket DEF Store
  <2>2. GoodBlock(p)
    BY <1>3, <2>1 DEF Blocks
  <2>3. PICK a \in Down : a = Ack(p.block) /\ a.cmd = "ack" /\ a.block = p.block
    BY <2>1, AnswerType
  <2>4. 1 <= p.block /\ server.last \in Nat
    BY <2>2, Ints DEF GoodBlock
  <2>5. CASE /\ Number(p) = (server.last + 1) % Width /\ ~server.over
             /\ server' = [last |-> server.last + 1, data |-> server.data \o p.data,
                           over |-> Len(p.data) < BlockSize]
             /\ toClient' \in Lossy(toClient, a)
    <3>1. p.block = server.last + 1
      BY <2>1, <2>2, <2>5, LooksLike
    <3>2. server'.last = server.last + 1
      BY <2>5
    <3>3. Blocks'
      BY <1>4, <1>5, <2>1, <3>1, <3>2
    <3>4. Acks'
      <4>1. server'.last \in {server.last, server.last + 1}
        BY <3>2
      <4>2. a.cmd = "ack" => a.block = server'.last /\ 1 <= a.block
        BY <2>3, <2>4, <3>1, <3>2
      <4>3. QED
        BY <1>1, <2>5, <4>1, <4>2, AcksSent
    <3>5. Stored'
      BY <1>1, <2>1, <2>2, <2>5, <3>1, StoredNext
    <3>6. QED
      BY <3>3, <3>4, <3>5
  <2>6. CASE Number(p) = server.last % Width /\ toClient' \in Lossy(toClient, a) /\ server' = server
    <3>1. p.block = server.last
      BY <2>1, <2>2, <2>6, LooksLike
    <3>2. QED
      BY <1>7, <2>3, <2>4, <2>6, <3>1
  <2>7. QED
    BY <1>6, <1>9, <2>3, <2>5, <2>6 DEF Store
<1>10. QED
  BY <1>3, <1>8, <1>9

\* The ACK that is accepted is that of the current block, which the server has.
LEMMA AcceptedIsStored ==
  ASSUME TypeOK, Acks, Stored, broken <= Width - 2, toClient # <<>>, Accepts(Head(toClient))
  PROVE  /\ server.last = tx_block /\ Head(toClient).block = tx_block
         /\ \A p \in Elems(Tail(toClient)) : p.cmd = "ack" => tx_block <= p.block
<1>1. toClient \in Seq(Down) /\ Sorted(toClient, "ack")
  BY Queues DEF Acks
<1>2. PICK h \in Down : h = Head(toClient) /\ h \in Elems(toClient)
  BY <1>1, Received
<1>3. h.cmd = "ack" /\ h.block % Width = tx_block % Width /\ GoodAck(h)
  BY <1>2 DEF Accepts, Number, Acks
<1>4. /\ tx_block \in Nat /\ broken \in Nat /\ server.last \in Nat /\ h.block \in Nat
      /\ Width \in Nat
  BY <1>3, Ints, Constants, DownPacket
<1>5. h.block <= server.last /\ server.last <= tx_block /\ tx_block - 1 - broken <= h.block
  BY <1>3 DEF GoodAck, Stored
<1>6. h.block <= tx_block /\ tx_block - h.block < Width
  BY <1>4, <1>5
<1>7. h.block = tx_block
  BY <1>3, <1>4, <1>6, Alike
<1>8. \A p \in Elems(Tail(toClient)) : p.cmd = "ack" => h.block <= p.block
  BY <1>1, <1>2, <1>3, SortedTail
<1>9. QED
  BY <1>2, <1>4, <1>5, <1>7, <1>8

\* An answer taken for the current block is one that its block has earned.
LEMMA OrderAnswer ==
  ASSUME TypeOK, File, Blocks, Acks, Stored, broken <= Width - 2, Answer
  PROVE  Blocks' /\ Acks' /\ Stored'
<1>0. tx_block \in Nat /\ broken \in Nat /\ server.last \in Nat
  BY Ints
<1>1. /\ toClient # <<>> /\ toClient' = Tail(toClient) /\ pc \in Exchange
      /\ UNCHANGED <<toServer, server, broken>>
  BY DEF Answer
<1>2. CASE Accepts(Head(toClient)) /\ Returned(TRUE)
  <2>1. /\ server.last = tx_block
        /\ \A p \in Elems(toClient') : p.cmd = "ack" => tx_block <= p.block
    BY <1>1, <1>2, AcceptedIsStored
  <2>2. CASE /\ pc = "send" /\ pc' = "outer" /\ tx_block' = tx_block + 1 /\ cur' = 0
             /\ UNCHANGED taken
    <3>1. Elems(toClient') \subseteq Elems(toClient) /\ Sorted(toClient', "ack")
      BY <1>1, AcksRead
    <3>2. ASSUME NEW p \in Elems(toClient'), p.cmd = "ack" PROVE tx_block - broken' <= p.block
      <4>1. p.block \in Nat /\ tx_block <= p.block
        BY <2>1, <3>1, <3>2, ElemTypes, DownPacket
      <4>2. QED
        BY <1>0, <1>1, <4>1
    <3>3. tx_block - broken' <= server.last
      BY <1>0, <1>1, <2>1
    <3>4. broken' \in Nat
      BY <1>0, <1>1
    <3>5. QED
      BY <1>1, <2>2, <3>1, <3>2, <3>3, <3>4, OrderReturned
  <2>3. CASE pc = "last" /\ pc' = "done" /\ UNCHANGED file
    <3>1. Sending'
      BY <2>3 DEF Sending
    <3>2. UNCHANGED <<tx_block, taken, cur>> /\ broken' \in Nat /\ broken <= broken'
      BY <1>0, <1>1, <2>3 DEF file
    <3>3. QED
      BY <1>1, <2>1, <3>1, <3>2, OrderKept
  <2>4. QED
    BY <1>2, <2>2, <2>3, ReturnedCases
<1>3. CASE UNCHANGED file /\ (pc' = pc \/ pc' = "error" \/ (pc = "wrq" /\ pc' = "outer"))
  <2>1. Sending => Sending'
    BY <1>3 DEF Sending
  <2>2. UNCHANGED <<tx_block, taken, cur>> /\ broken' \in Nat /\ broken <= broken'
    BY <1>0, <1>1, <1>3 DEF file
  <2>3. pc' # "done"
    BY <1>1, <1>3 DEF Exchange
  <2>4. QED
    BY <1>1, <2>1, <2>2, <2>3, OrderKept
<1>4. QED
  BY <1>2, <1>3 DEF Answer, OpenAnswer, DataAnswer, AfterOldAck, Retry, Begin

\* A sendto that fails passes over one block and is counted.
LEMMA OrderSendtoFails ==
  ASSUME TypeOK, File, Blocks, Acks, Stored, SendtoFails
  PROVE  Blocks' /\ Acks' /\ Stored'
<1>0. tx_block \in Nat /\ broken \in Nat /\ server.last \in Nat
  BY Ints
<1>1. broken' = broken + 1 /\ UNCHANGED <<toServer, toClient, server>>
  BY DEF SendtoFails
<1>2. broken' \in Nat /\ broken <= broken' /\ broken' # 0
  BY <1>0, <1>1
<1>3. CASE /\ pc = "send" /\ pc' = "outer" /\ tx_block' = tx_block + 1 /\ cur' = 0
           /\ UNCHANGED taken
  <2>1. Sorted(toClient', "ack")
    BY <1>1 DEF Acks
  <2>2. ASSUME NEW p \in Elems(toClient'), p.cmd = "ack" PROVE tx_block - broken' <= p.block
    <3>1. p.block \in Nat /\ tx_block - 1 - broken <= p.block
      BY <1>1, <2>2, ElemTypes, DownPacket DEF Acks, GoodAck
    <3>2. QED
      BY <1>0, <1>1, <3>1
  <2>3. tx_block - broken' <= server.last
    BY <1>0, <1>1 DEF Stored
  <2>4. QED
    BY <1>1, <1>2, <1>3, <2>1, <2>2, <2>3, OrderReturned
<1>4. CASE UNCHANGED file /\ ((pc = "wrq" /\ pc' = "refused") \/ pc' = "done")
  <2>1. Sending => Sending'
    BY <1>4 DEF Sending
  <2>2. UNCHANGED <<tx_block, taken, cur>>
    BY <1>4 DEF file
  <2>3. QED
    BY <1>1, <1>2, <2>1, <2>2, OrderKept
<1>5. QED
  BY <1>3, <1>4, ReturnedCases DEF SendtoFails, Begin

\* Every step keeps blocks, acknowledgements and stored data in order.
LEMMA OrderStep ==
  ASSUME TypeOK, File, Order, [Next]_vars, TypeOK'
  PROVE  Order'
<1>0. broken \in Nat /\ broken' \in Nat /\ Width \in Nat
  BY Constants DEF TypeOK
<1>1. broken <= broken'
  <2>1. broken' \in {broken, broken + 1}
    BY DEF Next, Thread, Sendto, SendtoFails, Timeout, Answer, GiveUp, StrayPacket, TakeLog,
           EndOfLog, QuietPeriod, Write, Close, Serve, vars, history
  <2>2. QED
    BY <1>0, <2>1
<1>2. SUFFICES ASSUME broken' <= Width - 2 PROVE Blocks' /\ Acks' /\ Stored'
  BY DEF Order
<1>3. broken <= Width - 2 /\ Blocks /\ Acks /\ Stored
  BY <1>0, <1>1, <1>2 DEF Order
<1>4. ASSUME UNCHANGED <<toServer, server, tx_block, taken, cur>>,
             toClient' = toClient \/ (toClient # <<>> /\ toClient' = Tail(toClient)),
             Sending => Sending', pc' # "done" \/ pc' = pc, broken' = broken
      PROVE  Blocks' /\ Acks' /\ Stored'
  <2>1. pc' = "done" /\ broken' = 0 => server.last = tx_block
    BY <1>3, <1>4 DEF Stored
  <2>2. QED
    BY <1>0, <1>1, <1>3, <1>4, <2>1, OrderKept
<1>5. CASE Sendto
  BY <1>3, <1>5, OrderSendto
<1>6. CASE SendtoFails
  BY <1>3, <1>6, OrderSendtoFails
<1>7. CASE Answer
  BY <1>3, <1>7, OrderAnswer
<1>8. ASSUME NEW n \in 1 .. BlockSize, TakeLog(n) PROVE Blocks' /\ Acks' /\ Stored'
  BY <1>3, <1>8, OrderTakeLog
<1>9. CASE Serve
  BY <1>3, <1>9, OrderServe
<1>10. CASE Timeout \/ GiveUp
  <2>1. /\ UNCHANGED <<toServer, server, tx_block, taken, cur, toClient, broken>>
        /\ pc' = pc \/ (pc = "wrq" /\ pc' = "refused") \/ pc' = "aborted"
    BY <1>10 DEF Timeout, GiveUp, Retry, file, history
  <2>2. (Sending => Sending') /\ (pc' # "done" \/ pc' = pc)
    BY <2>1 DEF Sending
  <2>3. QED
    BY <1>4, <2>1, <2>2
<1>11. CASE StrayPacket
  <2>1. /\ UNCHANGED <<toServer, server, tx_block, taken, cur, broken>>
        /\ toClient # <<>> /\ toClient' = Tail(toClient) /\ pc = "outer" /\ pc' \in {"outer", "stale"}
    BY <1>11 DEF StrayPacket, file, history
  <2>2. (Sending => Sending') /\ (pc' # "done" \/ pc' = pc)
    BY <2>1 DEF Sending
  <2>3. QED
    BY <1>4, <2>1, <2>2
<1>12. CASE EndOfLog \/ QuietPeriod
  <2>1. /\ UNCHANGED <<toServer, server, tx_block, taken, cur, toClient, broken>>
        /\ pc = "outer" /\ pc' \in {"outer", "last"}
    BY <1>12 DEF EndOfLog, QuietPeriod, Begin, file, history
  <2>2. (Sending => Sending') /\ (pc' # "done" \/ pc' = pc)
    BY <2>1 DEF Sending
  <2>3. QED
    BY <1>4, <2>1, <2>2
<1>13. CASE Write \/ Close \/ UNCHANGED vars
  <2>1. UNCHANGED <<toServer, server, tx_block, taken, cur, toClient, broken, pc>>
    BY <1>13 DEF Write, Close, vars, file, client, history
  <2>2. (Sending => Sending') /\ (pc' # "done" \/ pc' = pc)
    BY <2>1 DEF Sending
  <2>3. QED
    BY <1>4, <2>1, <2>2
<1>14. QED
  BY <1>5, <1>6, <1>7, <1>8, <1>9, <1>10, <1>11, <1>12, <1>13 DEF Next, Thread

-----------------------------------------------------------------------------
(* The theorems. *)

\* The invariant holds at the start.
LEMMA InvInit ==
  ASSUME Init
  PROVE  Inv
<1>1. TypeOK
  <2>1. toServer \in Seq(Up) /\ Len(toServer) = 0 /\ toClient \in Seq(Down) /\ Len(toClient) = 0
    BY DEF Init
  <2>2. server \in [last : Nat, data : Seq(Nat), over : BOOLEAN]
    BY DEF Init
  <2>3. silent \in [last : Nat, now : Nat]
    BY DEF Init
  <2>4. /\ 0 \in 0 .. TFTP_MAX_RETRY /\ 0 \in 0 .. MaxWritten /\ 0 \in 0 .. 0 /\ 0 \in 0 .. BlockSize
        /\ 0 \in 0 .. Width - 1 /\ 0 \in 0 .. TFTP_MAX_RETRY + 1 /\ 0 <= Capacity
    BY Constants
  <2>5. /\ pc \in Exchange \cup Over \cup {"outer"} /\ request \in BOOLEAN /\ need_send \in BOOLEAN
        /\ closed \in BOOLEAN /\ early \in BOOLEAN
    BY DEF Init, Exchange
  <2>6. /\ wait_ack = 0 /\ written = 0 /\ taken = 0 /\ cur = 0 /\ rx_block = 0 /\ re_send = 0
        /\ broken \in Nat /\ tx_block \in Nat \ {0}
    BY DEF Init
  <2>7. Len(toServer) <= Capacity /\ Len(toClient) <= Capacity
    BY <2>1, <2>4
  <2>8. QED
    BY <2>1, <2>2, <2>3, <2>4, <2>5, <2>6, <2>7 DEF TypeOK
<1>2. File
  <2>1. (1 - 1) * BlockSize = 0 /\ (1 - 1) % Width = 0
    BY Constants
  <2>2. QED
    BY <2>1, Constants DEF Init, File
<1>3. Order
  <2>1. Elems(toServer) = {} /\ Elems(toClient) = {} /\ Len(toServer) = 0 /\ Len(toClient) = 0
    BY DEF Init, Elems
  <2>2. Blocks /\ Acks
    BY <2>1 DEF Blocks, Acks, Sorted
  <2>3. server.last = 0 /\ server.data = <<>> /\ ~server.over /\ tx_block = 1 /\ broken = 0 /\ pc = "wrq"
    BY DEF Init
  <2>4. Bytes(0, 0 * BlockSize) = <<>>
    <3>1. 0 * BlockSize = 0
      BY Constants
    <3>2. Bytes(0, 0) \in Seq(Nat) /\ Len(Bytes(0, 0)) = 0
      BY Parts
    <3>3. QED
      BY <3>1, <3>2, EmptySeq
  <2>5. Stored
    BY <2>3, <2>4 DEF Stored
  <2>6. QED
    BY <2>2, <2>5 DEF Order
<1>4. QED
  BY <1>1, <1>2, <1>3 DEF Inv

\* Every step keeps the invariant.
LEMMA InvStep ==
  ASSUME Inv, [Next]_vars
  PROVE  Inv'
<1>1. TypeOK /\ File /\ Order
  BY DEF Inv
<1>2. TypeOK'
  <2>1. CASE Sendto \/ SendtoFails \/ Timeout \/ Answer \/ GiveUp
    BY <1>1, <2>1, ExchangeType
  <2>2. CASE StrayPacket \/ (\E n \in 1 .. BlockSize : TakeLog(n)) \/ EndOfLog \/ QuietPeriod \/ Write \/ Close
    BY <1>1, <2>2, LoopType
  <2>3. CASE Serve
    BY <1>1, <2>3, ServeType
  <2>4. CASE UNCHANGED vars
    BY <1>1, <2>4 DEF TypeOK, vars, client, log, file, history
  <2>5. QED
    BY <2>1, <2>2, <2>3, <2>4 DEF Next, Thread
<1>3. File'
  BY <1>1, FileStep
<1>4. Order'
  BY <1>1, <1>2, OrderStep
<1>5. QED
  BY <1>2, <1>3, <1>4 DEF Inv

\* The types of the thread's variables, of the queues and of the server.
THEOREM TypeCorrect == Spec => []TypeOK
<1>1. Init => Inv
  BY InvInit
<1>2. Inv /\ [Next]_vars => Inv'
  BY InvStep
<1>3. Inv => TypeOK
  BY DEF Inv
<1>4. QED
  BY <1>1, <1>2, <1>3, PTL DEF Spec

\* The file on the server is a prefix of the log, for all losses, delays and
\* repetitions (tftp_send_data_pkt).
THEOREM NoGap == Spec => []StoredIsPrefix
<1>1. Init => Inv
  BY InvInit
<1>2. Inv /\ [Next]_vars => Inv'
  BY InvStep
<1>3. Inv => StoredIsPrefix
  <2>1. SUFFICES ASSUME TypeOK, File, Order, broken <= Width - 2
                 PROVE  server.data = Bytes(0, Len(server.data))
    BY DEF Inv, StoredIsPrefix
  <2>2. Stored
    BY <2>1 DEF Order
  <2>3. server.last \in Nat /\ taken \in Nat
    BY <2>1, Ints
  <2>4. PICK b \in Nat : server.data = Bytes(0, b)
    BY <2>2, <2>3, Products DEF Stored
  <2>5. Len(Bytes(0, b)) = b
    BY Parts
  <2>6. QED
    BY <2>4, <2>5
<1>4. QED
  BY <1>1, <1>2, <1>3, PTL DEF Spec

\* When the thread has ended by itself the server has the whole log and has
\* closed the file (tftp_write_thread).
THEOREM AllStored == Spec => []DoneMeansStored
<1>1. Init => Inv
  BY InvInit
<1>2. Inv /\ [Next]_vars => Inv'
  BY InvStep
<1>3. Inv => DoneMeansStored
  <2>1. SUFFICES ASSUME TypeOK, File, Order, pc = "done", broken = 0, ~early
                 PROVE  server.over /\ server.data = Bytes(0, written)
    BY DEF Inv, DoneMeansStored
  <2>2. 0 <= Width - 2
    BY Constants
  <2>3. Stored /\ server.last = tx_block
    BY <2>1, <2>2 DEF Order, Stored
  <2>4. cur < BlockSize /\ taken = written
    BY <2>1 DEF File
  <2>5. server.over
    BY <2>1, <2>3, <2>4, Ints, Constants DEF Stored
  <2>6. QED
    BY <2>3, <2>4, <2>5 DEF Stored
<1>4. QED
  BY <1>1, <1>2, <1>3, PTL DEF Spec

-----------------------------------------------------------------------------
(* The tries. *)

\* Copies of a packet in a queue are finitely many.
LEMMA CountType ==
  ASSUME NEW S, NEW s \in Seq(S), NEW cmd, NEW b
  PROVE  IsFiniteSet(Places(s, cmd, b)) /\ Count(s, cmd, b) \in Nat
<1>1. Places(s, cmd, b) \subseteq 1 .. Len(s) /\ Len(s) \in Int
  BY LenProperties DEF Places
<1>2. IsFiniteSet(1 .. Len(s))
  BY <1>1, FS_Interval
<1>3. IsFiniteSet(Places(s, cmd, b))
  BY <1>1, <1>2, FS_Subset
<1>4. QED
  BY <1>3, FS_CardinalityType DEF Count

\* No copy of a packet that is not in the queue.
LEMMA CountNone ==
  ASSUME NEW s, NEW cmd, NEW b, \A p \in Elems(s) : ~(p.cmd = cmd /\ p.block = b)
  PROVE  Count(s, cmd, b) = 0
<1>1. Places(s, cmd, b) = {}
  BY DEF Places, Elems
<1>2. QED
  BY <1>1, FS_EmptySet DEF Count

\* A packet that is sent adds at most one to its own kind.
LEMMA CountSent ==
  ASSUME NEW S, NEW s \in Seq(S), NEW p \in S, NEW cmd, NEW b, NEW t,
         t = s \/ t = Append(s, p)
  PROVE  /\ ~(p.cmd = cmd /\ p.block = b) => Count(t, cmd, b) = Count(s, cmd, b)
         /\ Count(t, cmd, b) \in {Count(s, cmd, b), Count(s, cmd, b) + 1}
<1>1. CASE t = s
  BY <1>1
<1>2. CASE t = Append(s, p)
  <2>1. /\ Len(t) = Len(s) + 1 /\ Len(s) \in Nat
        /\ \A i \in 1 .. Len(s) : t[i] = s[i]
        /\ t[Len(s) + 1] = p
    BY <1>2, AppendProperties, LenProperties
  <2>2. PICK n \in Nat : n = Len(s) + 1 /\ Len(t) = n /\ t[n] = p
    BY <2>1
  <2>3. 1 .. n = (1 .. Len(s)) \cup {n} /\ n \notin 1 .. Len(s)
    BY <2>1, <2>2
  <2>4. CASE p.cmd = cmd /\ p.block = b
    <3>1. Places(t, cmd, b) = Places(s, cmd, b) \cup {n} /\ n \notin Places(s, cmd, b)
      BY <2>1, <2>2, <2>3, <2>4 DEF Places
    <3>2. IsFiniteSet(Places(s, cmd, b))
      BY CountType
    <3>3. Cardinality(Places(s, cmd, b) \cup {n}) = Cardinality(Places(s, cmd, b)) + 1
      BY <3>1, <3>2, FS_AddElement
    <3>4. QED
      BY <2>4, <3>1, <3>3 DEF Count
  <2>5. CASE ~(p.cmd = cmd /\ p.block = b)
    <3>1. Places(t, cmd, b) = Places(s, cmd, b)
      BY <2>1, <2>2, <2>3, <2>5 DEF Places
    <3>2. QED
      BY <3>1 DEF Count
  <2>6. QED
    BY <2>4, <2>5
<1>3. QED
  BY <1>1, <1>2

\* A packet that is received takes one from its own kind.
LEMMA CountReceived ==
  ASSUME NEW S, NEW s \in Seq(S), s # <<>>, NEW cmd, NEW b
  PROVE  /\ Head(s).cmd = cmd /\ Head(s).block = b => Count(Tail(s), cmd, b) = Count(s, cmd, b) - 1
         /\ ~(Head(s).cmd = cmd /\ Head(s).block = b) => Count(Tail(s), cmd, b) = Count(s, cmd, b)
<1>1. PICK t \in Seq(S), n \in Nat :
        /\ t = Tail(s) /\ n = Len(t) /\ Len(s) = n + 1 /\ Head(s) = s[1]
        /\ \A i \in 1 .. n : t[i] = s[i + 1]
  <2>1. /\ Tail(s) \in Seq(S) /\ Len(Tail(s)) = Len(s) - 1 /\ Len(s) \in Nat \ {0}
        /\ \A i \in 1 .. Len(Tail(s)) : Tail(s)[i] = s[i + 1]
        /\ Head(s) = s[1]
    BY Received
  <2>2. Len(Tail(s)) \in Nat /\ Len(s) = Len(Tail(s)) + 1
    BY <2>1
  <2>3. QED
    BY <2>1, <2>2, Zenon
<1> DEFINE A == Places(t, cmd, b)
           B == Places(s, cmd, b) \ {1}
           f == [i \in A |-> i + 1]
<1>2. IsFiniteSet(A) /\ IsFiniteSet(Places(s, cmd, b)) /\ Count(t, cmd, b) \in Nat /\ Count(s, cmd, b) \in Nat
  BY CountType
<1>3. \A i \in A : i \in 1 .. n /\ i + 1 \in B
  BY <1>1 DEF Places
<1>4. \A j \in B : j \in 2 .. n + 1 /\ j - 1 \in A /\ j - 1 + 1 = j
  <2>1. ASSUME NEW j \in B PROVE j \in 2 .. n + 1 /\ j - 1 \in A /\ j - 1 + 1 = j
    <3>1. j \in 1 .. n + 1 /\ j # 1 /\ s[j].cmd = cmd /\ s[j].block = b
      BY <1>1 DEF Places
    <3>2. PICK i \in 1 .. n : i = j - 1 /\ i + 1 = j
      BY <3>1
    <3>3. t[i] = s[j]
      BY <1>1, <3>2
    <3>4. i \in A
      BY <1>1, <3>1, <3>3 DEF Places
    <3>5. QED
      BY <3>1, <3>2, <3>4
  <2>2. QED
    BY <2>1
<1>5. f \in Bijection(A, B)
  <2>1. f \in [A -> B]
    BY <1>3
  <2>2. \A i, j \in A : f[i] = f[j] => i = j
    BY <1>3
  <2>3. \A j \in B : \E i \in A : f[i] = j
    BY <1>4
  <2>4. QED
    BY <2>1, <2>2, <2>3 DEF Bijection, Injection, Surjection, IsInjective
<1>6. IsFiniteSet(B) /\ Cardinality(B) = Cardinality(A)
  BY <1>2, <1>5, FS_Bijection DEF ExistsBijection
<1>7. CASE Head(s).cmd = cmd /\ Head(s).block = b
  <2>1. 1 \in Places(s, cmd, b)
    BY <1>1, <1>7 DEF Places
  <2>2. Places(s, cmd, b) = B \cup {1} /\ 1 \notin B
    BY <2>1
  <2>3. Cardinality(B \cup {1}) = Cardinality(B) + 1
    BY <1>6, <2>2, FS_AddElement
  <2>4. Count(s, cmd, b) = Count(t, cmd, b) + 1
    BY <1>6, <2>2, <2>3 DEF Count
  <2>5. QED
    BY <1>1, <1>2, <1>7, <2>4
<1>8. CASE ~(Head(s).cmd = cmd /\ Head(s).block = b)
  <2>1. Places(s, cmd, b) = B
    BY <1>1, <1>8 DEF Places
  <2>2. QED
    BY <1>1, <1>6, <1>8, <2>1 DEF Count
<1>9. QED
  BY <1>7, <1>8

\* Copies under way: how sending and reading change them.
LEMMA CopiesNat ==
  ASSUME NEW up \in Seq(Up), NEW down \in Seq(Down), NEW b
  PROVE  /\ Count(up, "data", b) \in Nat /\ Count(down, "ack", b) \in Nat
         /\ Copies(up, down, b) \in Nat
<1>1. Count(up, "data", b) \in Nat /\ Count(down, "ack", b) \in Nat
  BY CountType
<1>2. QED
  BY <1>1 DEF Copies

\* Copies of a block are a number.
LEMMA CopiesType ==
  ASSUME TypeOK
  PROVE  \A b : /\ Count(toServer, "data", b) \in Nat /\ Count(toClient, "ack", b) \in Nat
                /\ Copies(toServer, toClient, b) \in Nat
BY Queues, CopiesNat

\* Before a block is sent there is no copy of it.
LEMMA CopiesNone ==
  ASSUME TypeOK, Blocks, Acks, Stored, ~Sending
  PROVE  Copies(toServer, toClient, tx_block) = 0
<1>1. \A p \in Elems(toServer) : ~(p.cmd = "data" /\ p.block = tx_block)
  BY DEF Blocks, GoodBlock
<1>2. \A p \in Elems(toClient) : ~(p.cmd = "ack" /\ p.block = tx_block)
  <2>1. ASSUME NEW p \in Elems(toClient), p.cmd = "ack" PROVE p.block # tx_block
    <3>1. p.block <= server.last /\ p.block \in Nat
      BY <2>1, ElemTypes, DownPacket DEF Acks, GoodAck
    <3>2. server.last <= tx_block /\ server.last # tx_block
      BY DEF Stored
    <3>3. server.last \in Nat /\ tx_block \in Nat
      BY Ints
    <3>4. QED
      BY <3>1, <3>2, <3>3
  <2>2. QED
    BY <2>1
<1>3. Count(toServer, "data", tx_block) = 0 /\ Count(toClient, "ack", tx_block) = 0
  BY <1>1, <1>2, CountNone
<1>4. QED
  BY <1>3 DEF Copies

\* The same after a step.
LEMMA CopiesNoneNext ==
  (TypeOK /\ Blocks /\ Acks /\ Stored /\ ~Sending => Copies(toServer, toClient, tx_block) = 0)'
<1>1. TypeOK /\ Blocks /\ Acks /\ Stored /\ ~Sending => Copies(toServer, toClient, tx_block) = 0
  BY CopiesNone
<1>2. QED
  BY <1>1, PTL

\* There is no copy of block 0.
LEMMA CopiesZero ==
  ASSUME Blocks, Acks
  PROVE  Copies(toServer, toClient, 0) = 0
<1>1. \A p \in Elems(toServer) : ~(p.cmd = "data" /\ p.block = 0)
  BY DEF Blocks, GoodBlock
<1>2. \A p \in Elems(toClient) : ~(p.cmd = "ack" /\ p.block = 0)
  BY DEF Acks, GoodAck
<1>3. Count(toServer, "data", 0) = 0 /\ Count(toClient, "ack", 0) = 0
  BY <1>1, <1>2, CountNone
<1>4. QED
  BY <1>3 DEF Copies

\* Reading a packet leaves fewer copies of its block.
LEMMA CopiesRead ==
  ASSUME TypeOK, toClient # <<>>, toClient' = Tail(toClient), toServer' = toServer
  PROVE  /\ \A b : Copies(toServer', toClient', b) <= Copies(toServer, toClient, b)
         /\ Head(toClient).cmd = "ack" =>
              Copies(toServer', toClient', Head(toClient).block) =
                Copies(toServer, toClient, Head(toClient).block) - 1
<1>1. toClient \in Seq(Down)
  BY Queues
<1>2. \A b : /\ Count(toServer, "data", b) \in Nat /\ Count(toClient, "ack", b) \in Nat
  BY CopiesType
<1>3. \A b : /\ Head(toClient).cmd = "ack" /\ Head(toClient).block = b =>
                  Count(toClient', "ack", b) = Count(toClient, "ack", b) - 1
             /\ ~(Head(toClient).cmd = "ack" /\ Head(toClient).block = b) =>
                  Count(toClient', "ack", b) = Count(toClient, "ack", b)
  BY <1>1, CountReceived
<1>4. \A b : Copies(toServer', toClient', b) <= Copies(toServer, toClient, b)
  <2>1. TAKE b
  <2>2. PICK x \in Nat, y \in Nat : x = Count(toServer, "data", b) /\ y = Count(toClient, "ack", b)
    BY <1>2
  <2>3. Count(toClient', "ack", b) = y \/ Count(toClient', "ack", b) = y - 1
    BY <1>3, <2>2, Zenon
  <2>4. QED
    BY <2>2, <2>3 DEF Copies
<1>5. ASSUME NEW b, Head(toClient).cmd = "ack", b = Head(toClient).block
      PROVE  Copies(toServer', toClient', b) = Copies(toServer, toClient, b) - 1
  <2>2. PICK x \in Nat, y \in Nat : x = Count(toServer, "data", b) /\ y = Count(toClient, "ack", b)
    BY <1>2
  <2>3. Count(toClient', "ack", b) = y - 1
    BY <1>3, <1>5, <2>2, Zenon
  <2>4. QED
    BY <2>2, <2>3 DEF Copies
<1>6. QED
  BY <1>4, <1>5

\* The server answers a block with at most one ACK of it.
LEMMA CopiesServe ==
  ASSUME TypeOK, Serve
  PROVE  \A b : Copies(toServer', toClient', b) <= Copies(toServer, toClient, b)
<1>1. toServer # <<>> /\ toServer' = Tail(toServer)
  BY DEF Serve
<1>2. /\ toServer \in Seq(Up) /\ toClient \in Seq(Down) /\ Len(toClient) <= Capacity
  BY Queues
<1>3. PICK p \in Up : p = Head(toServer) /\ (Open(p) \/ Store(p))
  BY <1>1, <1>2, Received DEF Serve
<1>4. TAKE b
<1>5. PICK x \in Nat, y \in Nat : x = Count(toServer, "data", b) /\ y = Count(toClient, "ack", b)
  BY CopiesType
<1>6. /\ p.cmd = "data" /\ p.block = b => Count(toServer', "data", b) = x - 1
      /\ ~(p.cmd = "data" /\ p.block = b) => Count(toServer', "data", b) = x
  BY <1>1, <1>2, <1>3, <1>5, CountReceived
<1>7. ASSUME NEW a \in Down, toClient' \in Lossy(toClient, a)
      PROVE  /\ ~(a.cmd = "ack" /\ a.block = b) => Count(toClient', "ack", b) = y
             /\ Count(toClient', "ack", b) \in {y, y + 1}
  <2>1. toClient' = toClient \/ toClient' = Append(toClient, a)
    BY <1>2, <1>7, Sent
  <2>2. QED
    BY <1>2, <1>5, <2>1, CountSent
<1>8. CASE Open(p)
  <2>1. Count(toClient', "ack", b) = y
    BY <1>7, <1>8, AnswerType DEF Open
  <2>2. Count(toServer', "data", b) = x
    BY <1>6, <1>8 DEF Open
  <2>3. QED
    BY <1>5, <2>1, <2>2 DEF Copies
<1>9. CASE Store(p)
  <2>1. p.cmd = "data" /\ p.block \in Nat
    BY <1>9, UpPacket DEF Store
  <2>2. PICK a \in Down : a = Ack(p.block) /\ a.cmd = "ack" /\ a.block = p.block
    BY <2>1, AnswerType
  <2>3. toClient' = toClient \/ toClient' \in Lossy(toClient, a)
    BY <1>9, <2>2 DEF Store
  <2>4. /\ p.block # b => Count(toClient', "ack", b) = y
        /\ Count(toClient', "ack", b) \in {y, y + 1}
    BY <1>5, <1>7, <2>2, <2>3
  <2>5. CASE p.block = b
    <3>1. Count(toServer', "data", b) = x - 1
      BY <1>6, <2>1, <2>5
    <3>2. QED
      BY <1>5, <2>4, <3>1 DEF Copies
  <2>6. CASE p.block # b
    <3>1. Count(toServer', "data", b) = x /\ Count(toClient', "ack", b) = y
      BY <1>6, <2>4, <2>6
    <3>2. QED
      BY <1>5, <3>1 DEF Copies
  <2>7. QED
    BY <2>5, <2>6
<1>10. QED
  BY <1>3, <1>8, <1>9

\* A try is sent.
LEMMA CopiesSendto ==
  ASSUME TypeOK, File, Sendto
  PROVE  /\ \A b : b # tx_block => Copies(toServer', toClient', b) = Copies(toServer, toClient, b)
         /\ Copies(toServer', toClient', tx_block) <= Copies(toServer, toClient, tx_block) + 1
<1>1. toServer' \in Lossy(toServer, Packet) /\ toClient' = toClient
  BY DEF Sendto
<1>2. PICK p \in Up : /\ p = Packet
                      /\ p.cmd = "data" => p.block = tx_block
  BY PacketType
<1>3. toServer \in Seq(Up) /\ (toServer' = toServer \/ toServer' = Append(toServer, p))
  BY <1>1, <1>2, Queues, Sent
<1>4. \A b : /\ ~(p.cmd = "data" /\ p.block = b) => Count(toServer', "data", b) = Count(toServer, "data", b)
             /\ Count(toServer', "data", b) \in {Count(toServer, "data", b), Count(toServer, "data", b) + 1}
  BY <1>3, CountSent
<1>5. \A b : b # tx_block => Copies(toServer', toClient', b) = Copies(toServer, toClient, b)
  BY <1>1, <1>2, <1>4 DEF Copies
<1>6. Copies(toServer', toClient', tx_block) <= Copies(toServer, toClient, tx_block) + 1
  <2>1. PICK x \in Nat, y \in Nat : x = Count(toServer, "data", tx_block) /\ y = Count(toClient, "ack", tx_block)
    BY CopiesType
  <2>2. Count(toServer', "data", tx_block) \in {x, x + 1}
    BY <1>4, <2>1
  <2>3. QED
    BY <1>1, <2>1, <2>2 DEF Copies
<1>7. QED
  BY <1>5, <1>6

\* Steps that leave the exchange as it is, and do not add copies.
LEMMA TriesKept ==
  ASSUME TypeOK, TypeOK', Tries, UNCHANGED <<pc, wait_ack, need_send, tx_block, silent, broken>>,
         \A b : Copies(toServer', toClient', b) <= Copies(toServer, toClient, b)
  PROVE  Tries'
<1>1. \A b : Copies(toServer, toClient, b) \in Nat /\ Copies(toServer', toClient', b) \in Nat
  BY CopiesNat DEF TypeOK
<1>2. PICK x \in Nat, y \in Nat, u \in Nat, v \in Nat :
        /\ x = Copies(toServer, toClient, tx_block - 1) /\ y = Copies(toServer, toClient, tx_block)
        /\ u = Copies(toServer', toClient', tx_block - 1) /\ v = Copies(toServer', toClient', tx_block)
        /\ u <= x /\ v <= y
  BY <1>1
<1>3. wait_ack \in Nat /\ silent.last \in Nat /\ silent.now \in Nat
  BY Ints
<1>4. x + wait_ack <= silent.last + silent.now => u + wait_ack <= silent.last + silent.now
  BY <1>2, <1>3
<1>5. \A r \in Nat : y <= r => v <= r
  BY <1>2
<1>6. silent.now + (IF need_send THEN 0 ELSE 1) \in Nat
  BY <1>3
<1>7. QED
  BY <1>2, <1>4, <1>5, <1>6 DEF Tries

\* A try without an ACK.
LEMMA TriesQuiet ==
  ASSUME TypeOK, TypeOK', Tries, pc \in Exchange, Retry(TRUE), Quiet, UNCHANGED broken,
         \A b : Copies(toServer', toClient', b) <= Copies(toServer, toClient, b)
  PROVE  Tries'
<1>1. /\ pc' = pc /\ tx_block' = tx_block /\ wait_ack' = wait_ack + 1 /\ need_send' = TRUE
      /\ silent'.last = silent.last /\ silent'.now = silent.now + 1
  BY DEF Retry, Quiet, file
<1>2. \A b : Copies(toServer, toClient, b) \in Nat /\ Copies(toServer', toClient', b) \in Nat
  BY CopiesNat DEF TypeOK
<1>3. PICK x \in Nat, y \in Nat, u \in Nat, v \in Nat :
        /\ x = Copies(toServer, toClient, tx_block - 1) /\ y = Copies(toServer, toClient, tx_block)
        /\ u = Copies(toServer', toClient', tx_block - 1) /\ v = Copies(toServer', toClient', tx_block)
        /\ u <= x /\ v <= y
  BY <1>2
<1>4. wait_ack \in Nat /\ silent.last \in Nat /\ silent.now \in Nat
  BY Ints
<1>5. SUFFICES ASSUME broken = 0
               PROVE  /\ u + wait_ack' <= silent'.last + silent'.now
                      /\ v <= silent'.now
  BY <1>1, <1>3, <1>4 DEF Tries, Exchange
<1>6. x + wait_ack <= silent.last + silent.now /\ y <= silent.now + 1
  BY <1>3, <1>4, <1>5 DEF Tries
<1>7. QED
  BY <1>1, <1>3, <1>4, <1>6

\* The block has gone out, or the next one is put together.
LEMMA TriesAnew ==
  ASSUME TypeOK, TypeOK', Blocks', Acks', Stored', pc' \in Exchange \cup {"outer"},
         ~Sending' \/ Copies(toServer', toClient', tx_block') = 0,
         Copies(toServer', toClient', tx_block' - 1) + wait_ack' <= silent'.last + silent'.now,
         pc' = "outer" => silent'.now = 0
  PROVE  Tries'
<1>1. Copies(toServer', toClient', tx_block') = 0
  BY CopiesNoneNext
<1>2. silent'.now \in Nat
  BY DEF TypeOK
<1>3. 0 <= silent'.now + (IF need_send' THEN 0 ELSE 1)
  BY <1>2
<1>4. pc' # "aborted" /\ pc' # "stale"
  BY DEF Exchange
<1>5. QED
  BY <1>1, <1>3, <1>4 DEF Tries

\* An ACK that comes when none is wanted is that of the block before.
LEMMA OldAck ==
  ASSUME TypeOK, Acks, Stored, broken = 0, toClient # <<>>, Head(toClient).cmd = "ack",
         Number(Head(toClient)) # tx_block % Width \/ ~Sending
  PROVE  Head(toClient).block = tx_block - 1
<1>1. PICK h \in Down : h = Head(toClient) /\ h \in Elems(toClient)
  BY Queues, Received
<1>2. GoodAck(h) /\ h.block \in Nat
  BY <1>1, DownPacket DEF Acks
<1>3. tx_block \in Nat /\ server.last \in Nat
  BY Ints
<1>4. tx_block - 1 <= h.block /\ h.block <= server.last /\ server.last <= tx_block
  BY <1>2, <1>3 DEF GoodAck, Stored
<1>5. h.block # tx_block
  <2>1. CASE Number(Head(toClient)) # tx_block % Width
    BY <1>1, <2>1 DEF Number
  <2>2. CASE ~Sending
    <3>1. server.last # tx_block
      BY <2>2 DEF Stored
    <3>2. QED
      BY <1>2, <1>3, <1>4, <3>1
  <2>3. QED
    BY <2>1, <2>2
<1>6. QED
  BY <1>1, <1>2, <1>3, <1>4, <1>5

\* Sending makes one more copy and clears need_send.
LEMMA TriesSendto ==
  ASSUME TypeOK, TypeOK', File, Tries, Sendto
  PROVE  Tries'
<1>1. /\ pc \in Exchange /\ need_send /\ need_send' = FALSE
      /\ UNCHANGED <<pc, wait_ack, tx_block, silent, broken>>
  BY DEF Sendto, file, history
<1>2. \A b : Copies(toServer, toClient, b) \in Nat /\ Copies(toServer', toClient', b) \in Nat
  BY CopiesNat DEF TypeOK
<1>3. tx_block \in Nat /\ tx_block - 1 # tx_block /\ silent.now \in Nat
  BY Ints
<1>4. PICK x \in Nat, y \in Nat, v \in Nat :
        /\ x = Copies(toServer, toClient, tx_block - 1) /\ y = Copies(toServer, toClient, tx_block)
        /\ x = Copies(toServer', toClient', tx_block - 1) /\ v = Copies(toServer', toClient', tx_block)
        /\ v <= y + 1
  BY <1>2, <1>3, CopiesSendto
<1>5. y <= silent.now => v <= silent.now + 1
  BY <1>3, <1>4
<1>6. SUFFICES ASSUME broken = 0
               PROVE  x + wait_ack <= silent.last + silent.now /\ v <= silent.now + 1
  BY <1>1, <1>3, <1>4 DEF Tries, Exchange
<1>7. x + wait_ack <= silent.last + silent.now /\ y <= silent.now + 0
  BY <1>1, <1>4, <1>6 DEF Tries
<1>8. QED
  BY <1>3, <1>5, <1>7

\* An answer uses up a copy, or is counted as a try.
LEMMA TriesAnswer ==
  ASSUME TypeOK, TypeOK', File, Blocks, Acks, Stored, Blocks', Acks', Stored', broken = 0,
         Tries, Answer
  PROVE  Tries'
<1>0. /\ wait_ack \in Nat /\ silent.last \in Nat /\ silent.now \in Nat /\ tx_block \in Nat
      /\ Width \in Nat /\ Width > 1
  BY Ints, Constants
<1>1. /\ toClient # <<>> /\ toClient' = Tail(toClient) /\ pc \in Exchange /\ ~need_send
      /\ UNCHANGED <<toServer, server, broken>>
  BY DEF Answer
<1>2. /\ \A b : Copies(toServer', toClient', b) <= Copies(toServer, toClient, b)
      /\ Head(toClient).cmd = "ack" =>
           Copies(toServer', toClient', Head(toClient).block) =
             Copies(toServer, toClient, Head(toClient).block) - 1
  BY <1>1, CopiesRead
<1>3. \A b : Copies(toServer, toClient, b) \in Nat /\ Copies(toServer', toClient', b) \in Nat
  BY CopiesNat DEF TypeOK
<1>4. /\ Copies(toServer, toClient, tx_block - 1) + wait_ack <= silent.last + silent.now
      /\ Copies(toServer, toClient, tx_block) <= silent.now + 1
  BY <1>1 DEF Tries
<1>5. CASE Retry(TRUE) /\ Quiet
  BY <1>1, <1>2, <1>5, TriesQuiet
<1>6. CASE Begin("error")
  BY <1>6 DEF Begin, Tries, Exchange
<1>7. CASE pc = "wrq" /\ Begin("outer") /\ UNCHANGED file /\ silent' = [last |-> silent.now, now |-> 0]
  <2>1. /\ pc' = "outer" /\ wait_ack' = 0 /\ tx_block' = tx_block /\ tx_block = 1
        /\ silent'.last = silent.now /\ silent'.now = 0
    BY <1>7 DEF Begin, file, File
  <2>2. Copies(toServer', toClient', tx_block' - 1) = 0
    <3>1. Copies(toServer, toClient, 0) = 0
      BY CopiesZero
    <3>2. PICK u \in Nat : u = Copies(toServer', toClient', 0) /\ u <= 0
      BY <1>2, <1>3, <3>1
    <3>3. tx_block' - 1 = 0
      BY <2>1
    <3>4. QED
      BY <3>2, <3>3
  <2>3. Copies(toServer', toClient', tx_block' - 1) + wait_ack' <= silent'.last + silent'.now
    BY <1>0, <2>1, <2>2
  <2>4. ~Sending'
    BY <2>1 DEF Sending
  <2>5. QED
    BY <2>1, <2>3, <2>4, TriesAnew
<1>8. CASE Accepts(Head(toClient)) /\ Returned(TRUE) /\ silent' = [last |-> silent.now, now |-> 0]
  <2>1. Head(toClient).block = tx_block /\ Head(toClient).cmd = "ack"
    <3>1. broken <= Width - 2
      BY <1>0
    <3>2. QED
      BY <1>1, <1>8, <3>1, AcceptedIsStored DEF Accepts
  <2>2. CASE pc' = "outer" /\ tx_block' = tx_block + 1 /\ wait_ack' = 0
    <3>1. PICK y \in Nat : y = Copies(toServer, toClient, tx_block) /\ y <= silent.now + 1
      BY <1>3, <1>4
    <3>2. Copies(toServer', toClient', tx_block) = y - 1
      BY <1>2, <2>1, <3>1
    <3>3. silent'.last = silent.now /\ silent'.now = 0 /\ tx_block' - 1 = tx_block
      BY <1>0, <1>8, <2>2
    <3>4. Copies(toServer', toClient', tx_block' - 1) + wait_ack' <= silent'.last + silent'.now
      BY <1>0, <2>2, <3>1, <3>2, <3>3
    <3>5. ~Sending'
      BY <2>2 DEF Sending
    <3>6. QED
      BY <2>2, <3>3, <3>4, <3>5, TriesAnew
  <2>3. CASE pc' = "done"
    BY <2>3 DEF Tries, Exchange
  <2>4. QED
    BY <1>8, <2>2, <2>3, ReturnedCases
<1>9. CASE ~Accepts(Head(toClient)) /\ Head(toClient).cmd = "ack" /\ AfterOldAck /\ UNCHANGED silent
  <2>1. /\ pc' = pc /\ tx_block' = tx_block /\ wait_ack' = wait_ack + 1 /\ need_send' = FALSE
    BY <1>9 DEF AfterOldAck, Retry, file
  <2>2. Head(toClient).block = tx_block - 1
    BY <1>1, <1>9, OldAck DEF Accepts
  <2>3. PICK x \in Nat, y \in Nat, v \in Nat :
          /\ x = Copies(toServer, toClient, tx_block - 1) /\ y = Copies(toServer, toClient, tx_block)
          /\ x - 1 = Copies(toServer', toClient', tx_block - 1) /\ v = Copies(toServer', toClient', tx_block)
          /\ v <= y
    BY <1>2, <1>3, <1>9, <2>2
  <2>4. /\ (x - 1) + wait_ack' <= silent.last + silent.now /\ v <= silent.now + 1
    BY <1>0, <1>4, <2>1, <2>3
  <2>5. QED
    BY <1>1, <1>9, <2>1, <2>3, <2>4 DEF Tries, Exchange
<1>10. QED
  BY <1>5, <1>6, <1>7, <1>8, <1>9 DEF Answer, OpenAnswer, DataAnswer

\* The loop: no ACK of another block comes, so none of its assertions fails.
LEMMA TriesLoop ==
  ASSUME TypeOK, TypeOK', File, Blocks, Acks, Stored, Blocks', Acks', Stored', broken = 0, Tries,
         StrayPacket \/ (\E n \in 1 .. BlockSize : TakeLog(n)) \/ EndOfLog \/ QuietPeriod
  PROVE  Tries'
<1>0. /\ wait_ack \in Nat /\ silent.last \in Nat /\ silent.now \in Nat /\ tx_block \in Nat
  BY Ints
<1>1. pc = "outer" /\ UNCHANGED <<tx_block, toServer, silent, broken>>
  BY DEF StrayPacket, TakeLog, EndOfLog, QuietPeriod, file, history
<1>2. ~Sending
  BY <1>1 DEF Sending
<1>3. CASE StrayPacket
  <2>1. /\ toClient # <<>> /\ toClient' = Tail(toClient) /\ UNCHANGED <<wait_ack, need_send>>
    BY <1>3 DEF StrayPacket
  <2>2. pc' = pc
    <3>1. Head(toClient).cmd = "ack" => Number(Head(toClient)) = rx_block
      <4>1. SUFFICES ASSUME Head(toClient).cmd = "ack" PROVE Number(Head(toClient)) = rx_block
        OBVIOUS
      <4>2. Head(toClient).block = tx_block - 1
        BY <1>2, <2>1, <4>1, OldAck
      <4>3. QED
        BY <1>1, <4>2 DEF File, Number
    <3>2. QED
      BY <1>1, <1>3, <3>1 DEF StrayPacket
  <2>3. \A b : Copies(toServer', toClient', b) <= Copies(toServer, toClient, b)
    BY <1>1, <2>1, CopiesRead
  <2>4. QED
    BY <1>1, <2>1, <2>2, <2>3, TriesKept
<1>4. CASE (\E n \in 1 .. BlockSize : TakeLog(n)) \/ EndOfLog \/ QuietPeriod
  <2>1. /\ toClient' = toClient /\ pc' \in {"outer", "send", "last"} /\ wait_ack' \in {0, wait_ack}
    BY <1>1, <1>4 DEF TakeLog, EndOfLog, QuietPeriod, Begin
  <2>2. PICK x \in Nat : x = Copies(toServer, toClient, tx_block - 1)
    BY CopiesType
  <2>3. x + wait_ack <= silent.last + silent.now /\ silent.now = 0
    BY <1>1, <2>2 DEF Tries
  <2>4. x + wait_ack' <= silent.last + silent.now
    BY <1>0, <2>1, <2>2, <2>3
  <2>5. Copies(toServer', toClient', tx_block') = 0
    BY <1>1, <1>2, <2>1, CopiesNone
  <2>6. silent' = silent /\ tx_block' = tx_block /\ toServer' = toServer
    BY <1>1
  <2>7. Copies(toServer', toClient', tx_block' - 1) + wait_ack' <= silent'.last + silent'.now
    BY <2>1, <2>2, <2>4, <2>6
  <2>8. pc' \in Exchange \cup {"outer"} /\ silent'.now = 0
    BY <2>1, <2>3, <2>6 DEF Exchange
  <2>9. QED
    BY <2>5, <2>7, <2>8, TriesAnew
<1>5. QED
  BY <1>3, <1>4

\* Every step keeps the account of tries.
LEMMA TriesStep ==
  ASSUME Inv, Inv', Tries, [Next]_vars
  PROVE  Tries'
<1>0. TypeOK /\ File /\ TypeOK' /\ broken \in Nat
  BY Ints DEF Inv
<1>1. SUFFICES ASSUME broken' = 0 PROVE Tries'
  BY DEF Tries
<1>2. broken' \in {broken, broken + 1} /\ (SendtoFails => broken' = broken + 1)
  BY DEF Next, Thread, Sendto, SendtoFails, Timeout, Answer, GiveUp, StrayPacket, TakeLog,
         EndOfLog, QuietPeriod, Write, Close, Serve, vars, history
<1>3. broken = 0 /\ ~SendtoFails
  BY <1>0, <1>1, <1>2
<1>4. Blocks /\ Acks /\ Stored /\ Blocks' /\ Acks' /\ Stored'
  <2>1. 0 <= Width - 2
    BY Constants
  <2>2. QED
    BY <1>1, <1>3, <2>1 DEF Inv, Order
<1>5. CASE Sendto
  BY <1>0, <1>5, TriesSendto
<1>6. CASE Answer
  BY <1>0, <1>3, <1>4, <1>6, TriesAnswer
<1>7. CASE StrayPacket \/ (\E n \in 1 .. BlockSize : TakeLog(n)) \/ EndOfLog \/ QuietPeriod
  BY <1>0, <1>3, <1>4, <1>7, TriesLoop
<1>8. ASSUME UNCHANGED <<toServer, toClient>>
      PROVE  \A b : Copies(toServer', toClient', b) <= Copies(toServer, toClient, b)
  <2>1. \A b : Copies(toServer, toClient, b) \in Nat
    BY <1>0, CopiesType
  <2>2. \A b : Copies(toServer', toClient', b) = Copies(toServer, toClient, b)
    BY <1>8
  <2>3. QED
    BY <2>1, <2>2
<1>9. CASE Timeout
  <2>1. pc \in Exchange /\ Retry(TRUE) /\ Quiet /\ UNCHANGED <<broken, toServer, toClient>>
    BY <1>9 DEF Timeout
  <2>2. QED
    BY <1>0, <1>8, <2>1, TriesQuiet
<1>10. CASE GiveUp
  <2>1. /\ pc \in Exchange /\ pc' \in {"refused", "aborted"} /\ wait_ack = TFTP_MAX_RETRY
        /\ UNCHANGED silent
    BY <1>10 DEF GiveUp, history
  <2>2. PICK x \in Nat : x = Copies(toServer, toClient, tx_block - 1)
    BY <1>0, CopiesType
  <2>3. x + wait_ack <= silent.last + silent.now
    BY <1>3, <2>1, <2>2 DEF Tries
  <2>4. silent.last + silent.now >= TFTP_MAX_RETRY
    BY <1>0, <2>1, <2>2, <2>3, Ints, Constants
  <2>5. QED
    BY <2>1, <2>4 DEF Tries, Exchange
<1>11. CASE Write \/ Close \/ UNCHANGED vars
  <2>1. UNCHANGED <<pc, wait_ack, need_send, tx_block, silent, broken, toServer, toClient>>
    BY <1>11 DEF Write, Close, vars, client, file, history
  <2>2. QED
    BY <1>0, <1>8, <2>1, TriesKept
<1>12. CASE Serve
  <2>1. UNCHANGED <<pc, wait_ack, need_send, tx_block, silent, broken>>
    BY <1>12 DEF Serve, client, file, history
  <2>2. \A b : Copies(toServer', toClient', b) <= Copies(toServer, toClient, b)
    BY <1>0, <1>12, CopiesServe
  <2>3. QED
    BY <1>0, <2>1, <2>2, TriesKept
<1>13. QED
  BY <1>3, <1>5, <1>6, <1>7, <1>9, <1>10, <1>11, <1>12 DEF Next, Thread

\* At the start nothing has been tried.
LEMMA TriesInit ==
  ASSUME Init
  PROVE  Tries
<1>1. Elems(toServer) = {} /\ Elems(toClient) = {}
  BY DEF Init, Elems
<1>2. \A b : Count(toServer, "data", b) = 0 /\ Count(toClient, "ack", b) = 0
  BY <1>1, CountNone
<1>3. \A b : Copies(toServer, toClient, b) = 0
  BY <1>2 DEF Copies
<1>4. QED
  BY <1>3 DEF Init, Tries

\* Tries are used up by silence only: the tool does not give up because of ACKs
\* that come twice, and the assertions of its loop hold (need_send).
THEOREM GivesUpInSilence == Spec => []GivesUpOnlyInSilence
<1>1. Init => Inv /\ Tries
  BY InvInit, TriesInit
<1>2. Inv /\ Tries /\ [Next]_vars => (Inv /\ Tries)'
  BY InvStep, TriesStep
<1>3. Inv /\ Tries => GivesUpOnlyInSilence
  BY DEF Tries, GivesUpOnlyInSilence
<1>4. QED
  BY <1>1, <1>2, <1>3, PTL DEF Spec
=============================================================================
