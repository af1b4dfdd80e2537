----------------------------- MODULE UdpTunnel -----------------------------
(***************************************************************************)
(* udptunnel: a client and a server process that carry UDP datagrams over  *)
(* one TCP connection.  Each end runs the same select loop: bytes from TCP *)
(* are collected in a fixed buffer, cut into packets and sent on as UDP;   *)
(* a datagram from UDP is framed with its length and written to TCP by a   *)
(* blocking send.                                                          *)
(*                                                                         *)
(* The two branches of the loop are separate actions: a select that        *)
(* returns both descriptors has the same effect as two selects that return *)
(* one each.  A byte is a number; a length field is the two bytes of       *)
(* htons, in base Base.  The network may deliver any part of what was      *)
(* written, so a read returns any number of bytes up to the free room.     *)
(***************************************************************************)
EXTENDS Integers, Sequences

CONSTANTS
  TCPBUFFERSIZE,   \* bytes of relay.buf
  HandshakeLen,    \* sizeof(relay.handshake)
  Base,            \* values of a byte
  Datagram,        \* the datagrams that arrive on either UDP side
  Address,         \* UDP addresses that send datagrams
  Destination,     \* the address given to the server
  Nobody,          \* ss_family == 0
  Window,          \* bytes the kernels hold per TCP direction
  Greeting,        \* first HandshakeLen bytes a TCP client may send
  Timeout,         \* Timeout[e]: option -T of end e, in selects; 0 is none
  MaxSent          \* bound: MaxSent[e], datagrams accepted by end e

End == {"client", "server"}
Other(e) == IF e = "client" THEN "server" ELSE "client"

Byte == 0 .. (Base - 1)
UDPBUFFERSIZE == TCPBUFFERSIZE - 2
Handshake == [i \in 1 .. HandshakeLen |-> 0]

ASSUME SizesAssumption ==
  /\ Base \in Nat \ {0}
  /\ HandshakeLen \in Nat \ {0}
  /\ TCPBUFFERSIZE \in Nat /\ TCPBUFFERSIZE > HandshakeLen + 2
  /\ Window \in Nat /\ Window >= HandshakeLen
  /\ MaxSent \in [End -> Nat]

ASSUME DataAssumption ==
  /\ Datagram \subseteq Seq(Byte)
  /\ \A d \in Datagram : Len(d) <= UDPBUFFERSIZE /\ Len(d) < Base * Base
  /\ Greeting \subseteq [1 .. HandshakeLen -> Byte]
  /\ Timeout \in [End -> Nat]
  /\ Destination \in Address
  /\ Nobody \notin Address

VARIABLES
  relay,     \* relay[e]: buf up to buf_ptr, packet_start, packet_length, state
  remote,    \* remote[e]: relay.remote_udpaddr
  wire,      \* wire[e]: bytes written by e that the other end has not read
  out,       \* out[e]: what a blocked send of e has still to write
  status,    \* status[e]: "run", or why the process ended
  idle,      \* idle[e]: selects' worth of time since the source had data
  sent,      \* history: datagrams e framed
  relayed    \* history: [to, data] e cut out of the stream

vars == <<relay, remote, wire, out, status, idle, sent, relayed>>

States == {"uninitialized", "reading_handshake", "reading_length",
           "reading_packet"}

Ended == {"closed", "timeout", "handshake", "broken", "killed"}

\* struct relay, without what never changes.
RelayState == [buf : Seq(Byte), start : Nat, length : Nat, state : States]

TypeOK ==
  /\ relay \in [End -> RelayState]
  /\ remote \in [End -> Address \cup {Nobody}]
  /\ wire \in [End -> Seq(Byte)]
  /\ out \in [End -> Seq(Byte)]
  /\ status \in [End -> Ended \cup {"run"}]
  /\ idle \in [End -> Nat]
  /\ sent \in [End -> Seq(Seq(Byte))]
  /\ relayed \in [End -> Seq([to : Address \cup {Nobody}, data : Seq(Byte)])]

\* main: memset, send_handshake by the client (any TCP client may connect),
\* udp_client by the server.
Init ==
  /\ relay = [e \in End |-> [buf |-> <<>>, start |-> 0, length |-> 0,
                             state |-> "uninitialized"]]
  /\ remote = [client |-> Nobody, server |-> Destination]
  /\ \E g \in Greeting : wire = [client |-> g, server |-> <<>>]
  /\ out = [e \in End |-> <<>>]
  /\ status = [e \in End |-> "run"]
  /\ idle = [e \in End |-> 0]
  /\ sent = [e \in End |-> <<>>]
  /\ relayed = [e \in End |-> <<>>]

-----------------------------------------------------------------------------
MinOf(a, b) == IF a < b THEN a ELSE b
DropFirst(s, n) == SubSeq(s, n + 1, Len(s))

\* Mutant of Complete: > for >=.
CompleteAndMore(e) ==
  /\ relay[e].state # "uninitialized"
  /\ Len(relay[e].buf) - relay[e].start > relay[e].length

\* The while condition of tcp_to_udp: a whole item is in the buffer.
Complete(e) ==
  /\ relay[e].state # "uninitialized"
  /\ Len(relay[e].buf) - relay[e].start >= relay[e].length

\* The process is in select: alive, not inside send, not inside tcp_to_udp.
InSelect(e) == status[e] = "run" /\ out[e] = <<>> /\ ~Complete(e)

Finish(e, why) == status' = [status EXCEPT ![e] = why]

\* Time the select took, counted in timeouts of select, when a timeout is set.
Waits(e) == IF Timeout[e] = 0 THEN {0} ELSE {0, 1}

\* The source of a client is its UDP socket, that of a server TCP.
Source(e) == IF e = "client" THEN "udp" ELSE "tcp"

\* last_udp_input and last_tcp_input; the count stops one past the point
\* where it cannot matter any more.
Clock(e, fd, dt) ==
  idle' = [idle EXCEPT ![e] = IF Source(e) = fd THEN 0
                              ELSE MinOf(@ + dt, Timeout[e] + 2)]

\* The first call of tcp_to_udp sets the state machine up.
Initialized(e) ==
  IF relay[e].state # "uninitialized" THEN relay[e]
  ELSE IF e = "server"
       THEN [relay[e] EXCEPT !.state = "reading_handshake",
                             !.length = HandshakeLen]
       ELSE [relay[e] EXCEPT !.state = "reading_length", !.length = 2]

\* Mutant of Room: the read is bounded by the size of the buffer only.
RoomOfAll(e) == TCPBUFFERSIZE

Room(e) == TCPBUFFERSIZE - Len(relay[e].buf)

\* tcp_to_udp, the read: some bytes of what is on the way, as many as the
\* room allows.
ReadSome(e, n) ==
  relay' = [relay EXCEPT
              ![e] = [Initialized(e) EXCEPT
                        !.buf = @ \o SubSeq(wire[Other(e)], 1, n)]]

TcpRead(e, n, dt) ==
  /\ InSelect(e)
  /\ n \in 1 .. MinOf(Len(wire[Other(e)]), Room(e))
  /\ ReadSome(e, n)
  /\ wire' = [wire EXCEPT ![Other(e)] = DropFirst(@, n)]
  /\ Clock(e, "tcp", dt)
  /\ UNCHANGED <<remote, out, status, sent, relayed>>

\* Mutant of TcpClosed: a read of 0 bytes is ignored.
TcpClosedGoesOn(e) ==
  /\ InSelect(e)
  /\ \/ wire[Other(e)] = <<>> /\ status[Other(e)] # "run"
     \/ wire[Other(e)] # <<>> /\ Room(e) = 0
  /\ UNCHANGED vars

\* tcp_to_udp, read returns 0: end of the stream, or no room to read into.
TcpClosed(e) ==
  /\ InSelect(e)
  /\ \/ wire[Other(e)] = <<>> /\ status[Other(e)] # "run"
     \/ wire[Other(e)] # <<>> /\ Room(e) = 0
  /\ Finish(e, "closed")
  /\ UNCHANGED <<relay, remote, wire, out, idle, sent, relayed>>

\* A peer that is gone answers what it did not read with a reset: the read
\* or the send fails, and err_sys (or SIGPIPE) ends this process.
Reset(e) ==
  /\ status[e] = "run"
  /\ status[Other(e)] # "run"
  /\ wire[e] # <<>> \/ out[e] # <<>>
  /\ Finish(e, "broken")
  /\ UNCHANGED <<relay, remote, wire, out, idle, sent, relayed>>

-----------------------------------------------------------------------------
\* The loop of tcp_to_udp, one action per branch.
Loop(e, state) ==
  /\ status[e] = "run"
  /\ relay[e].state = state
  /\ Complete(e)

TakeHandshake(e) ==
  /\ Loop(e, "reading_handshake")
  /\ IF SubSeq(relay[e].buf, relay[e].start + 1,
               relay[e].start + HandshakeLen) = Handshake
     THEN /\ relay' = [relay EXCEPT ![e].length = 2,
                                    ![e].start = @ + HandshakeLen,
                                    ![e].state = "reading_length"]
          /\ UNCHANGED status
     ELSE Finish(e, "handshake") /\ UNCHANGED relay
  /\ UNCHANGED <<remote, wire, out, idle, sent, relayed>>

\* ntohs of the two bytes at packet_start.
LengthAt(e) == LET r == relay[e]
               IN  r.buf[r.start + 1] * Base + r.buf[r.start + 2]

\* Mutant of AfterLength: packet_start is not moved past the length.
AfterLengthStays(e) ==
  [relay EXCEPT ![e].length = LengthAt(e),
                ![e].state = "reading_packet"]

AfterLength(e) ==
  [relay EXCEPT ![e].length = LengthAt(e),
                ![e].start = @ + 2,
                ![e].state = "reading_packet"]

TakeLength(e) ==
  /\ Loop(e, "reading_length")
  /\ relay' = AfterLength(e)
  /\ UNCHANGED <<remote, wire, out, status, idle, sent, relayed>>

Payload(e) == SubSeq(relay[e].buf, relay[e].start + 1,
                     relay[e].start + relay[e].length)

\* Mutant of AfterPacket: no memmove, the next packet starts where this one ends.
AfterPacketInPlace(e) ==
  [relay EXCEPT ![e].start = @ + relay[e].length,
                ![e].state = "reading_length",
                ![e].length = 2]

\* The memmove: what follows the packet moves to the front of the buffer.
AfterPacket(e) ==
  [relay EXCEPT ![e].buf = DropFirst(@, relay[e].start + relay[e].length),
                ![e].start = 0,
                ![e].state = "reading_length",
                ![e].length = 2]

\* send_udp_packet: sent to the remembered address, or dropped when there is
\* none (recorded with address Nobody); ECONNREFUSED is the same as sent.
TakePacket(e) ==
  /\ Loop(e, "reading_packet")
  /\ relayed' = [relayed EXCEPT
                   ![e] = Append(@, [to |-> remote[e], data |-> Payload(e)])]
  /\ relay' = AfterPacket(e)
  /\ UNCHANGED <<remote, wire, out, status, idle, sent>>

\* Any other error of sendto ends the process.
SendtoFails(e) ==
  /\ Loop(e, "reading_packet")
  /\ remote[e] # Nobody
  /\ Finish(e, "broken")
  /\ UNCHANGED <<relay, remote, wire, out, idle, sent, relayed>>

-----------------------------------------------------------------------------
Frame(d) == <<Len(d) \div Base, Len(d) % Base>> \o d

\* What the kernel takes of a send, and what the send blocks on.
Write(e, bytes) ==
  LET k == MinOf(Len(bytes), Window - Len(wire[e]))
  IN  /\ wire' = [wire EXCEPT ![e] = @ \o SubSeq(bytes, 1, k)]
      /\ out' = [out EXCEPT ![e] = DropFirst(bytes, k)]

\* udp_to_tcp: an empty datagram is ignored, the source of any other is
\* remembered, and the datagram is framed and sent.
UdpRead(e, d, a, dt) ==
  /\ InSelect(e)
  /\ Len(sent[e]) < MaxSent[e]
  /\ LET p == SubSeq(d, 1, MinOf(Len(d), UDPBUFFERSIZE))
     IN  IF p = <<>> THEN UNCHANGED <<remote, wire, out, sent>>
         ELSE /\ remote' = [remote EXCEPT ![e] = a]
              /\ sent' = [sent EXCEPT ![e] = Append(@, p)]
              /\ Write(e, Frame(p))
  /\ Clock(e, "udp", dt)
  /\ UNCHANGED <<relay, status, relayed>>

\* The blocked send goes on when the other end has made room.
Push(e) ==
  /\ status[e] = "run"
  /\ out[e] # <<>>
  /\ Len(wire[e]) < Window
  /\ Write(e, out[e])
  /\ UNCHANGED <<relay, remote, status, idle, sent, relayed>>

\* select returns 0: the only place where the timeouts are looked at.
SelectTimeout(e) ==
  /\ InSelect(e)
  /\ Timeout[e] # 0
  /\ idle' = [idle EXCEPT ![e] = MinOf(@ + 1, Timeout[e] + 2)]
  /\ IF idle[e] + 1 > Timeout[e] THEN Finish(e, "timeout")
     ELSE UNCHANGED status
  /\ UNCHANGED <<relay, remote, wire, out, sent, relayed>>

\* The process is stopped from outside.
Kill(e) ==
  /\ status[e] = "run"
  /\ Finish(e, "killed")
  /\ UNCHANGED <<relay, remote, wire, out, idle, sent, relayed>>

-----------------------------------------------------------------------------
Read(e) ==
  \/ \E n \in 1 .. TCPBUFFERSIZE, dt \in Waits(e) : TcpRead(e, n, dt)
  \/ TcpClosed(e)

Work(e) == TakeHandshake(e) \/ TakeLength(e) \/ TakePacket(e)

Step(e) ==
  \/ Read(e)
  \/ Work(e)
  \/ Push(e)
  \/ Reset(e)
  \/ SelectTimeout(e)
  \/ SendtoFails(e)
  \/ Kill(e)
  \/ \E d \in Datagram, a \in Address, dt \in Waits(e) : UdpRead(e, d, a, dt)

Next == \E e \in End : Step(e)

Spec == Init /\ [][Next]_vars

\* The processes are scheduled, TCP delivers what was written or reports the
\* connection lost.  UDP input, timeouts and signals are not promised.
Fairness ==
  \A e \in End : /\ WF_vars(Read(e))
                 /\ WF_vars(Work(e))
                 /\ WF_vars(Push(e))
                 /\ WF_vars(Reset(e))

FairSpec == Spec /\ Fairness

-----------------------------------------------------------------------------
Tunnel == INSTANCE Relay WITH accepted <- sent, delivered <- relayed,
                              known <- remote, Datagram <- Datagram \ {<<>>}

(* PROPERTIES *)

\* However TCP cuts the stream into reads and wherever a send blocks, the two
\* processes behave as the relay of module Relay: every datagram that comes
\* out is one that went in, whole, in order and once (udp_to_tcp, tcp_to_udp).
ImplementsRelay == Tunnel!Spec

\* The pointers of struct relay stay inside buf: packet_start never passes
\* buf_ptr and buf_ptr never passes the end, whatever length a peer announces.
PointersInBuffer ==
  \A e \in End : /\ relay[e].start <= Len(relay[e].buf)
                  /\ Len(relay[e].buf) <= TCPBUFFERSIZE

\* No datagram is longer than what the buffer has left beside the handshake and
\* a length.
DatagramsFit == \A d \in Datagram : Len(d) <= TCPBUFFERSIZE - HandshakeLen - 2

\* A process that ends with the message "Remote closed the connection" has a
\* remote that did: the buffer always has room for the item being read, if the
\* datagrams fit (tcp_to_udp; longer ones break it, see the README).
ClosedMeansClosed ==
  \A e \in End : status[e] = "closed" => status[Other(e)] # "run"

\* Both processes sit in send with both TCP directions full: neither reads.
Jammed == \A e \in End : out[e] # <<>> /\ Len(wire[e]) = Window

\* A datagram that was accepted is passed on, unless a process ends or the
\* two blocking sends wait for each other: in particular one blocked send,
\* or a length split over two reads, never stops the tunnel.
DatagramsArrive ==
  \A e \in End : \A k \in 1 .. MaxSent[e] :
    Len(sent[e]) >= k ~>
      \/ Len(relayed[Other(e)]) >= k
      \/ \E x \in End : status[x] # "run"
      \/ Jammed

\* When one process ends, whatever it was doing, the other ends too, even
\* from inside a blocked send: no half of a tunnel is left behind.
EndsTogether ==
  \A e \in End : status[e] # "run" ~> status[Other(e)] # "run"
=============================================================================
