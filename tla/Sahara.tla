------------------------------- MODULE Sahara -------------------------------
(***************************************************************************)
(* qfirehose, sahara.c: loading the programmer into a module that is in    *)
(* emergency download mode.  The module leads: it says hello, asks for     *)
(* pieces of the image, says that it has them all; the tool answers.  The  *)
(* hello may be lost or late: after five seconds of silence the tool sends *)
(* one byte, which makes the module say hello again.                       *)
(***************************************************************************)
EXTENDS Integers, Sequences

CONSTANTS
  ImageSize,   \* the programmer the module asks for, in pieces: the buffers of
               \* Q_SAHARA_RAW_BUF_SZ that start_image_transfer reads and sends
  FileSizes,   \* pieces the file on the router may have
  KnownIds,    \* the image ids 13, 7 and 21
  OtherIds,    \* other image ids
  MaxAsk       \* pieces a module asks for at a time, at most

VARIABLES
  pc,       \* where sahara_flash_all is
  toHost,   \* packets of the module
  toDev,    \* packets and data of the tool
  dev,      \* state of the module
  loaded,   \* the pieces the module has received
  want,     \* the pieces it still waits for
  id,       \* the image id the module reports
  file      \* pieces in the file

vars == <<pc, toHost, toDev, dev, loaded, want, id, file>>

Pkt(cmd, a, b) == [cmd |-> cmd, a |-> a, b |-> b]

\* "other" is a command the loop has no branch for, "noise" no packet at all.
Cmds == {"hello", "read", "end", "done_response", "other", "noise"}

TypeOK ==
  /\ pc \in {"hello", "nudged", "loop", "finish", "ok", "fail"}
  /\ \A i \in 1 .. Len(toHost) : toHost[i].cmd \in Cmds
  /\ \A i \in 1 .. Len(toDev) :
       toDev[i].cmd \in {"byte", "hello_response", "data", "done", "reset"}
  /\ dev \in {"mute", "late", "hello", "ask", "loaded", "left", "lost"}
  /\ loaded \in Seq(1 .. ImageSize)
  /\ want \in 0 .. MaxAsk
  /\ id \in KnownIds \cup OtherIds
  /\ file \in FileSizes

\* The first hello is waiting, has still to come, or was read by somebody else.
Beginnings ==
  {[dev |-> "hello", toHost |-> <<Pkt("hello", 0, 0)>>]}
    \cup {[dev |-> d, toHost |-> <<>>] : d \in {"late", "mute"}}

Init ==
  /\ pc = "hello"
  /\ \E b \in Beginnings : dev = b.dev /\ toHost = b.toHost
  /\ toDev = <<>>
  /\ loaded = <<>> /\ want = 0
  /\ id \in KnownIds \cup OtherIds
  /\ file \in FileSizes

-----------------------------------------------------------------------------
(* sahara_flash_all *)

Tell(p) == toDev' = Append(toDev, p)

\* sahara_tx_data, where its result is not looked at.
TryToTell(p) == Tell(p) \/ UNCHANGED toDev

\* sahara_rx_data returns 0: nothing for five seconds, or no packet.
Nothing ==
  \/ toHost = <<>> /\ UNCHANGED toHost
  \/ toHost # <<>> /\ Head(toHost).cmd = "noise" /\ toHost' = Tail(toHost)

\* The first time it sends one byte; after that it gives up.
Silence ==
  /\ pc \in {"hello", "nudged", "loop", "finish"}
  /\ Nothing
  /\ IF pc = "hello" THEN pc' = "nudged" /\ TryToTell(Pkt("byte", 0, 0))
     ELSE pc' = "fail" /\ UNCHANGED toDev
  /\ UNCHANGED <<dev, loaded, want, id, file>>

ReadHello(p) ==
  \/ p.cmd = "hello" /\ pc' = "loop" /\ Tell(Pkt("hello_response", 0, 0))
  \/ p.cmd = "hello" /\ pc' = "fail" /\ UNCHANGED toDev
  \/ p.cmd # "hello" /\ pc' = "fail" /\ TryToTell(Pkt("reset", 0, 0))

\* Mutant of Pieces: no lseek, the file is read from its start.
PiecesFromStart(p) == Pkt("data", 0, IF p.b <= file THEN p.b ELSE file)

\* start_image_transfer: the pieces asked for, as far as the file has them;
\* that it came up short is not looked at.
Pieces(p) == Pkt("data", p.a, IF p.a + p.b <= file THEN p.b
                              ELSE IF p.a < file THEN file - p.a ELSE 0)

\* Mutant of ReadInLoop: a second hello is answered too.
ReadInLoopGreets(p) ==
  CASE p.cmd = "read" -> pc' = "loop" /\ TryToTell(Pieces(p))
    [] p.cmd = "end" /\ p.a = 0 -> pc' = "finish" /\ TryToTell(Pkt("done", 0, 0))
    [] p.cmd = "end" /\ p.a # 0 -> pc' = "fail" /\ UNCHANGED toDev
    [] p.cmd = "hello" -> pc' = "loop" /\ Tell(Pkt("hello_response", 0, 0))
    [] OTHER -> pc' = "fail" /\ TryToTell(Pkt("reset", 0, 0))

ReadInLoop(p) ==
  CASE p.cmd = "read" -> pc' = "loop" /\ TryToTell(Pieces(p))
    [] p.cmd = "end" /\ p.a = 0 -> pc' = "finish" /\ TryToTell(Pkt("done", 0, 0))
    [] p.cmd = "end" /\ p.a # 0 -> pc' = "fail" /\ UNCHANGED toDev
    [] p.cmd = "hello" -> pc' = "loop" /\ UNCHANGED toDev
    [] OTHER -> pc' = "fail" /\ TryToTell(Pkt("reset", 0, 0))

\* The answer to the done packet, taken for one whatever its command is.
ReadDone(p) ==
  /\ pc' = IF p.a = 1 \/ (p.a = 0 /\ id \in KnownIds) THEN "ok" ELSE "fail"
  /\ UNCHANGED toDev

Rx ==
  /\ toHost # <<>> /\ Head(toHost).cmd # "noise"
  /\ toHost' = Tail(toHost)
  /\ LET p == Head(toHost)
     IN  \/ pc \in {"hello", "nudged"} /\ ReadHello(p)
         \/ pc = "loop" /\ ReadInLoop(p)
         \/ pc = "finish" /\ ReadDone(p)
  /\ UNCHANGED <<dev, loaded, want, id, file>>

-----------------------------------------------------------------------------
(* The module. *)

Say(p) == toHost' = Append(toHost, p)

\* A hello that comes late; the module listens only from then on.
LateHello ==
  /\ dev = "late"
  /\ dev' = "hello"
  /\ Say(Pkt("hello", 0, 0))
  /\ UNCHANGED <<pc, toDev, loaded, want, id, file>>

\* The next request, or the end of the image, good or not.
AskOrEnd(have) ==
  IF have < ImageSize
  THEN \E n \in 1 .. MaxAsk : /\ have + n <= ImageSize
                              /\ want' = n
                              /\ Say(Pkt("read", have, n))
  ELSE /\ want' = 0
       /\ \E status \in {0, 1} : Say(Pkt("end", status, 0))

TakeData(p) ==
  /\ loaded' = loaded \o [i \in 1 .. p.b |-> p.a + i]
  /\ IF p.b < want THEN want' = want - p.b /\ UNCHANGED toHost
     ELSE AskOrEnd(Len(loaded'))

Take ==
  /\ toDev # <<>> /\ dev # "late"
  /\ toDev' = Tail(toDev)
  /\ LET p == Head(toDev)
     IN  CASE dev = "left" ->
                UNCHANGED <<dev, loaded, want, toHost>>
           [] p.cmd = "byte" /\ dev \in {"mute", "hello"} ->
                dev' = "hello" /\ Say(Pkt("hello", 0, 0))
                /\ UNCHANGED <<loaded, want>>
           [] p.cmd = "hello_response" /\ dev = "hello" ->
                dev' = "ask" /\ AskOrEnd(0) /\ UNCHANGED loaded
           [] p.cmd = "data" /\ dev = "ask" ->
                TakeData(p) /\ UNCHANGED dev
           [] p.cmd = "done" /\ dev = "ask" /\ want = 0 ->
                dev' = "loaded" /\ UNCHANGED <<loaded, want>>
                /\ \E status \in {0, 1, 2} :
                     Say(Pkt("done_response", status, 0))
           [] p.cmd = "reset" /\ dev # "left" ->
                dev' = "left" /\ UNCHANGED <<loaded, want, toHost>>
           [] OTHER ->
                dev' = "lost" /\ UNCHANGED <<loaded, want, toHost>>
  /\ UNCHANGED <<pc, id, file>>

\* A module in another mode sends something else.
Strange ==
  /\ dev = "mute" \/ (dev = "ask" /\ want > 0)
  /\ toHost = <<>>
  /\ dev' = "left"
  /\ Say(Pkt("other", 0, 0)) \/ Say(Pkt("noise", 0, 0))
  /\ UNCHANGED <<pc, toDev, loaded, want, id, file>>

Next == Silence \/ Rx \/ LateHello \/ Take \/ Strange

Spec == Init /\ [][Next]_vars

-----------------------------------------------------------------------------
(* PROPERTIES *)

\* "Sahara protocol completed" is said only of a module that has received
\* every piece of the programmer, each once and in its place, however the
\* requests were cut and although the result of a transfer is ignored.
CompletedMeansLoaded == pc = "ok" => loaded = [i \in 1 .. ImageSize |-> i]

\* A hello that was lost, late or said twice never makes the two ends lose
\* step: the module gets nothing it does not expect, and the last packet
\* read is the answer to the done packet.
NeverOutOfStep ==
  /\ dev # "lost"
  /\ pc = "finish" /\ toHost # <<>> => Head(toHost).cmd = "done_response"
=============================================================================
