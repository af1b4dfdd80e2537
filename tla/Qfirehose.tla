----------------------------- MODULE Qfirehose -----------------------------
(***************************************************************************)
(* qfirehose as main runs it: sahara_main loads the programmer into the    *)
(* module, firehose_main then writes the firmware; a call that failed is   *)
(* repeated, on a module that starts from emergency download mode again.   *)
(***************************************************************************)
EXTENDS Firehose

CONSTANTS ImageSize, FileSizes, KnownIds, OtherIds, MaxAsk  \* see Sahara

ASSUME SaharaAssumption ==
  /\ ImageSize \in Nat \ {0} /\ MaxAsk \in Nat \ {0}
  /\ FileSizes \subseteq Nat
  /\ KnownIds \cap OtherIds = {}

VARIABLES
  spc,      \* where sahara_flash_all is, or "over" once firehose_main has begun
  sdev,     \* the boot loader of the module
  toHost, toDev, loaded, want, id, file  \* see Sahara

svars == <<spc, toHost, toDev, sdev, loaded, want, id, file>>
allvars == <<vars, svars>>

S == INSTANCE Sahara WITH pc <- spc, dev <- sdev

QInit == Init /\ S!Init

\* sahara_main, before firehose_main.
LoadProgrammer == spc # "over" /\ S!Next /\ UNCHANGED vars

\* The programmer answers now; nothing is left of the boot loader.
BeginFirehose ==
  /\ spc = "ok"
  /\ Start
  /\ spc' = "over" /\ sdev' = "mute"
  /\ toHost' = <<>> /\ toDev' = <<>>
  /\ loaded' = <<>> /\ want' = 0
  /\ id' = CHOOSE i \in KnownIds : TRUE
  /\ file' = ImageSize

\* The tool has ended without success and is called again.
CallAgain ==
  /\ spc = "fail" \/ pc = "failed"
  /\ spc \in {"fail", "over"}
  /\ runs < MaxRuns
  /\ spc' = "hello"
  /\ \E b \in S!Beginnings : sdev' = b.dev /\ toHost' = b.toHost
  /\ toDev' = <<>> /\ loaded' = <<>> /\ want' = 0
  /\ id' \in KnownIds \cup OtherIds
  /\ file' \in FileSizes
  /\ pc' = "idle"
  /\ at' = 1 /\ group' = 0 /\ payload' = MaxPayload /\ filesend' = 0
  /\ sk' = <<>> /\ usb' = <<>> /\ reader' = "run" /\ logs' = 0
  /\ dev' = Idle(MaxPayload)
  /\ UNCHANGED <<job, plan, flash, runs>>

QNext ==
  \/ LoadProgrammer
  \/ BeginFirehose
  \/ Work /\ UNCHANGED svars
  \/ CallAgain

\* The tool runs on, and every wait of it ends: by a packet or an answer, or by
\* its timeout.
QSpec ==
  /\ QInit /\ [][QNext]_allvars
  /\ WF_allvars(BeginFirehose)
  /\ WF_allvars(MainThread /\ UNCHANGED svars)
  /\ WF_allvars((S!Silence \/ S!Rx) /\ UNCHANGED vars)

-----------------------------------------------------------------------------
(* PROPERTIES of Sahara, in every call of the tool *)

\* "Sahara protocol completed" is said only of a module that has received
\* every piece of the programmer, each once and in its place, however the
\* requests were cut and although the result of a transfer is ignored
\* (start_image_transfer).
CompletedMeansLoaded == S!CompletedMeansLoaded

\* A hello that was lost, late or said twice never makes the two ends lose
\* step: the module gets nothing it does not expect, and the last packet
\* read is the answer to the done packet (sahara_flash_all).
NeverOutOfStep == S!NeverOutOfStep

\* Every call ends, in sahara_main or in firehose_main, with a module that
\* stops answering anywhere.
CallEnds == spc = "hello" ~> spc = "fail" \/ pc \in {"done", "failed"}
=============================================================================
