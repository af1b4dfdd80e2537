----------------------------- MODULE MCConnect -----------------------------
(***************************************************************************)
(* Instances of Connect for TLC.                                           *)
(***************************************************************************)
EXTENDS Connect, TLC

TwoWans == 1..2
ThreeWans == 1..3

\* Both modems want WAN 1.
SameWan == (1 :> 1) @@ (2 :> 1)

\* Modem 1 has no WAN in its profile, modem 2 wants WAN 1 and modem 3 is off.
MixedWans == (1 :> 0) @@ (2 :> 1) @@ (3 :> 5)

\* Each modem wants the WAN with the other one's number.
CrossedWans == (1 :> 2) @@ (2 :> 1)
=============================================================================
