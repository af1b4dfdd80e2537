-------------------------------- MODULE Tftp --------------------------------
(***************************************************************************)
(* qlog, tftp.c: uploading a log file to a TFTP server while it is being   *)
(* written.  tftp_write_request opens the transfer and starts a thread     *)
(* that takes the log from a socketpair and sends it block by block;       *)
(* N_DATA is 1, so every block is sent by tftp_send_data_pkt, which waits  *)
(* for its ACK.  The network loses packets and delays them beyond the      *)
(* timeout of 200 ms, which makes the tool send them twice; it keeps their *)
(* order.  The server is external: it stores the block that comes next and *)
(* acknowledges it, and again when it comes again.                         *)
(*                                                                         *)
(* The bytes of the log are 1, 2, 3 ...  The number of a block is kept     *)
(* whole; in a packet, in rx_block and to the server it is taken modulo    *)
(* Width, and compared that way only (Number).                             *)
(***************************************************************************)
EXTENDS Integers, Sequences

CONSTANTS
  TFTP_MAX_RETRY,
  BlockSize,      \* block_size, in bytes
  Width,          \* block numbers are taken modulo this (2^16)
  Capacity,       \* packets on the way in one direction; more are lost
  MaxWritten      \* bound: bytes of the log

ASSUME TftpAssumption ==
  /\ TFTP_MAX_RETRY \in Nat \ {0} /\ BlockSize \in Nat \ {0}
  /\ Width \in Nat \ {0, 1} /\ Capacity \in Nat \ {0} /\ MaxWritten \in Nat

VARIABLES
  pc,         \* tftp_write_request ("wrq"), the loop of the thread ("outer"),
              \* tftp_send_data_pkt ("send", "last"), or how it ended
  request,    \* tx_pkt of tftp_write_request is still the request
  wait_ack,   \* tries of the current exchange
  need_send,  \* the next step of the exchange is to send
  written,    \* bytes qlog has written to the pipe
  closed,     \* qlog has closed its end
  taken,      \* bytes read from the pipe
  cur,        \* of those, the ones in tx_pkt
  tx_block, rx_block,
  re_send,    \* quiet periods counted in the loop
  toServer, toClient,
  server,     \* [last, data, over]: last block stored, the file, closed
  silent,     \* history: tries without an ACK, in this exchange and the last
  broken,     \* history: how many calls of sendto have failed
  early       \* history: the loop ended although the log went on

client == <<pc, request, wait_ack, need_send>>
log == <<written, closed>>
file == <<taken, cur, tx_block, rx_block, re_send>>
history == <<silent, broken, early>>
vars == <<client, log, file, toServer, toClient, server, history>>

Over == {"refused", "done", "aborted", "stale", "error"}
Bytes(a, b) == [i \in 1 .. b - a |-> a + i]

Init ==
  /\ pc = "wrq" /\ request = TRUE /\ wait_ack = 0 /\ need_send = TRUE
  /\ written = 0 /\ closed = FALSE
  /\ taken = 0 /\ cur = 0 /\ tx_block = 1 /\ rx_block = 0 /\ re_send = 0
  /\ toServer = <<>> /\ toClient = <<>>
  /\ server = [last |-> 0, data |-> <<>>, over |-> FALSE]
  /\ silent = [last |-> 0, now |-> 0] /\ broken = 0 /\ early = FALSE

-----------------------------------------------------------------------------
(* The exchange of tftp_write_request and of tftp_send_data_pkt. *)

Exchange == {"wrq", "send", "last"}

\* What a packet shows of its block's number.
Number(p) == p.block % Width

Lossy(wire, p) == IF Len(wire) < Capacity THEN {wire, Append(wire, p)} ELSE {wire}

Packet ==
  IF pc = "wrq" THEN [cmd |-> IF request THEN "wrq" ELSE "other"]
  ELSE [cmd |-> "data", block |-> tx_block, data |-> Bytes(taken - cur, taken)]

Sendto ==
  /\ pc \in Exchange /\ need_send /\ wait_ack < TFTP_MAX_RETRY
  /\ toServer' \in Lossy(toServer, Packet)
  /\ need_send' = FALSE
  /\ UNCHANGED <<pc, request, wait_ack, log, file, toClient, server, history>>

\* The exchange is over; the next one starts afresh.
Begin(to) ==
  /\ pc' = to
  /\ wait_ack' = 0 /\ need_send' = TRUE

\* Mutant of Returned: a block that was not sent leaves its number to the next.
ReturnedKeepsNumber(ok) ==
  \/ /\ pc = "send"
     /\ Begin("outer")
     /\ tx_block' = IF ok THEN tx_block + 1 ELSE tx_block
     /\ rx_block' = tx_block % Width
     /\ cur' = 0
     /\ UNCHANGED <<taken, re_send>>
  \/ pc = "last" /\ Begin("done") /\ UNCHANGED file

\* tftp_send_data_pkt returns to the thread, which does not look at the result.
Returned(ok) ==
  \/ /\ pc = "send"
     /\ Begin("outer")
     /\ rx_block' = tx_block % Width
     /\ tx_block' = tx_block + 1
     /\ cur' = 0
     /\ UNCHANGED <<taken, re_send>>
  \/ pc = "last" /\ Begin("done") /\ UNCHANGED file

SendtoFails ==
  /\ pc \in Exchange /\ need_send /\ wait_ack < TFTP_MAX_RETRY
  /\ \/ pc = "wrq" /\ Begin("refused") /\ UNCHANGED file
     \/ Returned(FALSE)
  /\ broken' = broken + 1
  /\ silent' = [last |-> silent.now, now |-> 0]
  /\ UNCHANGED <<request, log, toServer, toClient, server, early>>

\* Another try, with or without sending again.
Retry(send) ==
  /\ wait_ack' = wait_ack + 1
  /\ need_send' = send
  /\ UNCHANGED <<pc, file>>

Quiet == silent' = [last |-> silent.last, now |-> silent.now + 1]

\* Mutant of Timeout: a timeout is no try.
TimeoutFree ==
  /\ pc \in Exchange /\ ~need_send /\ wait_ack < TFTP_MAX_RETRY
  /\ toClient = <<>>
  /\ need_send' = TRUE
  /\ UNCHANGED <<pc, request, wait_ack, log, file, toServer, toClient, server, history>>

\* poll returns 0.
Timeout ==
  /\ pc \in Exchange /\ ~need_send /\ wait_ack < TFTP_MAX_RETRY
  /\ toClient = <<>>
  /\ Retry(TRUE) /\ Quiet
  /\ UNCHANGED <<request, log, toServer, toClient, server, broken, early>>

\* The answer to the request.  Any answer is received over the request, which is
\* what the next try sends.
OpenAnswer(p) ==
  \/ /\ p.cmd = "oack"
     /\ Begin("outer")
     /\ silent' = [last |-> silent.now, now |-> 0]
     /\ UNCHANGED <<request, file>>
  \/ p.cmd # "oack" /\ request' = FALSE /\ Retry(TRUE) /\ Quiet

\* Mutant of Accepts: any ACK will do.
AcceptsAny(p) == p.cmd = "ack"

Accepts(p) == p.cmd = "ack" /\ Number(p) = tx_block % Width

\* Mutant of AfterOldAck: the block is sent again at once.
AfterOldAckSends == Retry(TRUE)

\* need_send = 0: the block is on its way, the ACK of it still to come.
AfterOldAck == Retry(FALSE)

\* The answer to a block.
DataAnswer(p) ==
  \/ /\ Accepts(p)
     /\ Returned(TRUE)
     /\ silent' = [last |-> silent.now, now |-> 0]
  \/ ~Accepts(p) /\ p.cmd = "ack" /\ AfterOldAck /\ UNCHANGED silent
  \/ p.cmd = "error" /\ Begin("error") /\ UNCHANGED <<file, silent>>
  \/ p.cmd = "oack" /\ Retry(TRUE) /\ Quiet

Answer ==
  /\ pc \in Exchange /\ ~need_send /\ wait_ack < TFTP_MAX_RETRY
  /\ toClient # <<>>
  /\ toClient' = Tail(toClient)
  /\ \/ pc = "wrq" /\ OpenAnswer(Head(toClient))
     \/ pc # "wrq" /\ DataAnswer(Head(toClient)) /\ UNCHANGED request
  /\ UNCHANGED <<log, toServer, server, broken, early>>

\* return -1, or assert(0).
GiveUp ==
  /\ pc \in Exchange /\ wait_ack = TFTP_MAX_RETRY
  /\ pc' = IF pc = "wrq" THEN "refused" ELSE "aborted"
  /\ UNCHANGED <<request, wait_ack, need_send, log, file, toServer, toClient, server, history>>

-----------------------------------------------------------------------------
(* The loop of tftp_write_thread. *)

\* A packet outside an exchange: the ACK of the last block again is ignored, that
\* of any other block fails one of the assertions, the rest is not looked at.
StrayPacket ==
  /\ pc = "outer" /\ toClient # <<>>
  /\ toClient' = Tail(toClient)
  /\ pc' = IF Head(toClient).cmd = "ack" /\ Number(Head(toClient)) # rx_block
           THEN "stale" ELSE "outer"
  /\ UNCHANGED <<request, wait_ack, need_send, log, file, toServer, server, history>>

\* read from the pipe; a full block is sent.
TakeLog(n) ==
  /\ pc = "outer"
  /\ n <= written - taken /\ n <= BlockSize - cur
  /\ taken' = taken + n /\ cur' = cur + n
  /\ IF cur + n = BlockSize THEN Begin("send") ELSE UNCHANGED <<pc, wait_ack, need_send>>
  /\ UNCHANGED <<request, log, tx_block, rx_block, re_send, toServer, toClient, server, history>>

\* The end of the log: what is left, perhaps nothing, is the last block.
EndOfLog ==
  /\ pc = "outer"
  /\ closed /\ taken = written
  /\ Begin("last")
  /\ UNCHANGED <<request, log, file, toServer, toClient, server, history>>

\* Nothing for 12 s.  The count is reset only by ACKs read in this loop, which
\* there are none of.
QuietPeriod ==
  /\ pc = "outer"
  /\ toClient = <<>> /\ taken = written /\ ~closed
  /\ IF re_send > TFTP_MAX_RETRY
     THEN Begin("last") /\ early' = TRUE /\ UNCHANGED re_send
     ELSE re_send' = re_send + 1 /\ UNCHANGED <<pc, wait_ack, need_send, early>>
  /\ UNCHANGED <<request, log, taken, cur, tx_block, rx_block, toServer, toClient, server,
                 silent, broken>>

-----------------------------------------------------------------------------
(* qlog, and the server. *)

Write ==
  /\ pc \notin {"wrq"} \cup Over
  /\ ~closed /\ written < MaxWritten
  /\ written' = written + 1
  /\ UNCHANGED <<client, closed, file, toServer, toClient, server, history>>

Close ==
  /\ pc \notin {"wrq"} \cup Over
  /\ ~closed
  /\ closed' = TRUE
  /\ UNCHANGED <<client, written, file, toServer, toClient, server, history>>

Ack(b) == [cmd |-> "ack", block |-> b]

\* A request is granted or not; to what is no request there is an error, if any
\* answer.
Open(p) ==
  /\ p.cmd \in {"wrq", "other"}
  /\ \/ p.cmd = "wrq" /\ toClient' \in Lossy(toClient, [cmd |-> "oack"])
     \/ toClient' \in Lossy(toClient, [cmd |-> "error"])
  /\ UNCHANGED server

\* The next block is stored and acknowledged, the last one is acknowledged again.
Store(p) ==
  /\ p.cmd = "data"
  /\ \/ /\ Number(p) = (server.last + 1) % Width /\ ~server.over
        /\ server' = [last |-> server.last + 1, data |-> server.data \o p.data,
                      over |-> Len(p.data) < BlockSize]
        /\ toClient' \in Lossy(toClient, Ack(p.block))
     \/ /\ Number(p) = server.last % Width
        /\ toClient' \in Lossy(toClient, Ack(p.block))
        /\ UNCHANGED server
     \/ /\ Number(p) \notin {server.last % Width, (server.last + 1) % Width} \/ server.over
        /\ UNCHANGED <<toClient, server>>

Serve ==
  /\ toServer # <<>>
  /\ toServer' = Tail(toServer)
  /\ Open(Head(toServer)) \/ Store(Head(toServer))
  /\ UNCHANGED <<client, log, file, history>>

-----------------------------------------------------------------------------
Thread ==
  \/ Sendto \/ SendtoFails \/ Timeout \/ Answer \/ GiveUp
  \/ StrayPacket \/ (\E n \in 1 .. BlockSize : TakeLog(n)) \/ EndOfLog \/ QuietPeriod

Next == Thread \/ Write \/ Close \/ Serve

Spec == Init /\ [][Next]_vars

\* The thread runs on: every poll has a timeout.
FairSpec == Spec /\ WF_vars(Thread)

(* PROPERTIES *)

Up == [cmd : {"wrq", "other"}] \cup [cmd : {"data"}, block : Nat, data : Seq(Nat)]
Down == [cmd : {"oack", "error"}] \cup [cmd : {"ack"}, block : Nat]

TypeOK ==
  /\ pc \in Exchange \cup Over \cup {"outer"} /\ request \in BOOLEAN
  /\ wait_ack \in 0 .. TFTP_MAX_RETRY /\ need_send \in BOOLEAN
  /\ written \in 0 .. MaxWritten /\ closed \in BOOLEAN
  /\ taken \in 0 .. written /\ cur \in 0 .. BlockSize
  /\ tx_block \in Nat \ {0} /\ rx_block \in 0 .. Width - 1
  /\ re_send \in 0 .. TFTP_MAX_RETRY + 1
  /\ toServer \in Seq(Up) /\ Len(toServer) <= Capacity
  /\ toClient \in Seq(Down) /\ Len(toClient) <= Capacity
  /\ server \in [last : Nat, data : Seq(Nat), over : BOOLEAN]
  /\ silent \in [last : Nat, now : Nat] /\ broken \in Nat /\ early \in BOOLEAN

\* The file on the server never has a gap and nothing twice, whatever is lost or
\* sent again, also when sendto failed and the thread went on as if it had not.
\* Only when it failed for nearly all the numbers there are can a later block
\* pass for the one that comes next.
StoredIsPrefix ==
  broken <= Width - 2 => server.data = Bytes(0, Len(server.data))

\* When the thread ends the server has the whole log and has closed the file,
\* unless a sendto failed or the log was quiet for too long (tftp_write_thread).
DoneMeansStored ==
  pc = "done" /\ broken = 0 /\ ~early =>
    server.over /\ server.data = Bytes(0, written)

\* The tool gives up only when it was left without an ACK as often as it tries,
\* in the exchange that failed and the one before: ACKs that come twice because
\* a block was sent twice do not use up the tries of the next block, and never
\* meet an assertion of the loop (need_send in tftp_send_data_pkt).
GivesUpOnlyInSilence ==
  broken = 0 =>
    /\ pc # "stale"
    /\ pc = "aborted" => silent.last + silent.now >= TFTP_MAX_RETRY

\* After qlog has closed the log the thread ends, so the pthread_join in front of
\* the next file returns, whatever the server does.
UploadEnds == closed ~> pc \in Over
=============================================================================
