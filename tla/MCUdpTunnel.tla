---------------------------- MODULE MCUdpTunnel ----------------------------
(* Instances of UdpTunnel for TLC: a buffer of six bytes, two of handshake. *)
EXTENDS UdpTunnel

CONSTANTS dest, local

MCAddress == {dest, local}
MCGreeting == {<<0, 0>>, <<0, 1>>}
MCDatagram == {<<>>, <<2, 1>>}
MCTimeout == [client |-> 1, server |-> 0]
MCMaxSent == [client |-> 2, server |-> 1]

\* The instance meets the hypothesis of the theorem about ClosedMeansClosed.
ASSUME DatagramsAssumption == DatagramsFit
=============================================================================
