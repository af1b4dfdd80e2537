----------------------------- MODULE MCSmsStore -----------------------------
(* Instances of SmsStore for TLC.                                           *)
EXTENDS SmsStore

CONSTANTS m1, m2, r1

MCMsgs == {m1, m2}
MCOne == {m1}
MCNone == {}
MCRequests == {AutoDelete, r1}
=============================================================================
