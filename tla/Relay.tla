------------------------------- MODULE Relay -------------------------------
(***************************************************************************)
(* What a pair of udptunnel processes promises: each end accepts UDP       *)
(* datagrams from its local side and the other end passes them on, whole,  *)
(* once and in the order of acceptance, each one to the local address that *)
(* end has heard of last, or to nobody (dropped) while it has heard of     *)
(* none.  TCP, framing and buffers do not appear here; module UdpTunnel    *)
(* implements this specification.                                          *)
(***************************************************************************)
EXTENDS Naturals, Sequences

CONSTANTS End, Other(_), Datagram, Address, Nobody

VARIABLES
  accepted,    \* accepted[e]: datagrams end e took from its UDP socket
  delivered,   \* delivered[e]: [to, data] end e passed to its UDP socket
  known        \* known[e]: the address end e would deliver to now

vars == <<accepted, delivered, known>>

Init ==
  /\ accepted = [e \in End |-> <<>>]
  /\ delivered = [e \in End |-> <<>>]
  /\ known \in [End -> Address \cup {Nobody}]

\* A datagram arrives at end e, and its source becomes the one to answer.
Accept(e, d, a) ==
  /\ accepted' = [accepted EXCEPT ![e] = Append(@, d)]
  /\ known' = [known EXCEPT ![e] = a]
  /\ UNCHANGED delivered

\* End e hands on the oldest datagram of the other end that it still owes.
Deliver(e) ==
  /\ Len(delivered[e]) < Len(accepted[Other(e)])
  /\ LET d == accepted[Other(e)][Len(delivered[e]) + 1]
     IN  delivered' = [delivered EXCEPT
                         ![e] = Append(@, [to |-> known[e], data |-> d])]
  /\ UNCHANGED <<accepted, known>>

Next ==
  \E e \in End :
    \/ \E d \in Datagram, a \in Address : Accept(e, d, a)
    \/ Deliver(e)

Spec == Init /\ [][Next]_vars
=============================================================================
