---------------------------- MODULE MCModeswitch ----------------------------
(***************************************************************************)
(* Instances of Modeswitch for TLC.                                        *)
(***************************************************************************)
EXTENDS Modeswitch, TLC

CONSTANTS d1, d2

TwoPorts == {d1, d2}

ThreeHandlers == 1..3

StorageAndModem == (d1 :> "storage") @@ (d2 :> "modem")
CameraAndModem == (d1 :> "camera") @@ (d2 :> "modem")
=============================================================================
