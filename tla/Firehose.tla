------------------------------ MODULE Firehose ------------------------------
(***************************************************************************)
(* qfirehose, firehose_protocol.c: writing a firmware image to a module    *)
(* that runs the Firehose programmer.  The main thread walks the commands  *)
(* of the XML files in a fixed order of loops and waits for the answer to  *)
(* each one; a reader thread takes messages off USB, drops the logs and    *)
(* hands the answers over through a socketpair.  The module executes       *)
(* commands in order, may refuse them, may log at any time, and may lose   *)
(* power at any time; the tool is then started again.                      *)
(*                                                                         *)
(* Sizes are in units of four bytes; a partition is its place in flash,    *)
(* and the one at start_sector 0 holds SBL, the loader the module boots    *)
(* from.                                                                   *)
(***************************************************************************)
EXTENDS Sparse, FiniteSets

CONSTANTS
  Jobs,         \* what the tool is called for: [table, nand, eraseall, zip],
                \* fh_cmd_table with its [type, part, empty, size, image] records,
                \* q_device_type, q_erase_all_before_download and
                \* is_upgrade_fimeware_zip_7z; a plain image has image <<>>
  Partition,    \* the partitions of the module; 0 is at start_sector 0
  MaxPayload,   \* the payload size the host proposes
  Limits,       \* the payload sizes a module may insist on
  MaxLogs,      \* bound: unsolicited messages of a module per run
  MaxRuns       \* bound: times the tool is started

ASSUME SizesAssumption ==
  /\ \A s \in Limits \cup {MaxPayload} :
       s \in Nat \ {0} /\ s % SECTOR_SIZE_IN_BYTES = 0
  /\ 0 \in Partition
  /\ MaxLogs \in Nat /\ MaxRuns \in Nat

\* fh_cmd_table as firehose_main accepts it: a file that is empty or missing ends the
\* call (line 2143).
Entry == [type : {"erase", "vendor", "program", "patch"}, part : Partition,
          empty : BOOLEAN, size : Nat, image : Seq(SparseChunk)]

ASSUME JobsAssumption ==
  \A j \in Jobs :
    /\ {j.nand, j.eraseall, j.zip} \subseteq BOOLEAN
    /\ j.table \in Seq(Entry)
    /\ \A i \in 1 .. Len(j.table) :
         IF j.table[i].type = "program"
         THEN j.table[i].image = <<>> => j.table[i].size > 0
         ELSE j.table[i].image = <<>>

VARIABLES
  job,       \* the call of the tool
  plan,      \* the commands it will send, with their runs of data
  pc,        \* where the main thread is
  at,        \* the command of the plan it works on
  group,     \* fh_process_program: runs of the image already programmed
  payload,   \* MaxPayloadSizeToTargetInBytes in use
  filesend,  \* fh_send_rawmode_image: bytes sent of this run
  sk,        \* fh_recv_cmd_sk: answers handed over by the reader thread
  reader,    \* "run", or "dead" after a message it cannot parse
  usb,       \* messages of the module not yet read
  dev,       \* the module: its mode, its command, data received, payload limit
  flash,     \* each partition: still the old contents, else the pieces written
  logs, runs \* counters of MaxLogs and MaxRuns

host == <<job, plan, pc, at, group, payload, filesend>>
vars == <<job, plan, pc, at, group, payload, filesend, sk, reader, usb, dev, flash,
          logs, runs>>

-----------------------------------------------------------------------------
(* The order of the work: the loops of firehose_main, one after the other. *)

Command(t) == [type |-> t, part |-> 0, empty |-> FALSE, size |-> 0,
               image |-> <<>>]

FirstErase(c) == c.type = "erase" /\ c.part = 0
Vendor(c) == c.type = "vendor"
Program(c) == c.type = "program"
Patch(c) == c.type = "patch"

\* One loop over the table: the commands of a set, in their order.
Only(table, C) ==
  LET taken[i \in 0 .. Len(table)] ==
        IF i = 0 THEN <<>>
        ELSE IF table[i] \in C THEN Append(taken[i - 1], table[i]) ELSE taken[i - 1]
  IN  taken[Len(table)]

\* Erase commands after the first loop, and program commands, without SBL's.
OtherErase(j) ==
  Only(j.table, {c \in Entry : /\ c.type = "erase" /\ ~c.empty
                               /\ ~(j.nand /\ c.part = 0)})
FirstProgram(j) ==
  Only(j.table, {c \in Entry : Program(c) /\ ~(j.nand /\ c.part = 0)})
LastProgram(j) ==
  Only(j.table, {c \in Entry : Program(c) /\ j.nand /\ c.part = 0})

\* Mutant of Plan: SBL is programmed where it comes in the table.
PlanInTurn(j) ==
  <<Command("configure")>>
  \o (IF j.nand \/ j.eraseall THEN Only(j.table, {c \in Entry : FirstErase(c)}) ELSE <<>>)
  \o (IF j.eraseall THEN <<>> ELSE OtherErase(j))
  \o Only(j.table, {c \in Entry : Program(c)})
  \o <<Command("reset")>>

Plan(j) ==
  <<Command("configure")>>
  \o (IF j.nand \/ j.eraseall THEN Only(j.table, {c \in Entry : FirstErase(c)}) ELSE <<>>)
  \o Only(j.table, {c \in Entry : Vendor(c)})
  \o (IF j.eraseall THEN <<>> ELSE OtherErase(j))
  \o FirstProgram(j)
  \o LastProgram(j)
  \o Only(j.table, {c \in Entry : Patch(c)})
  \o (IF j.nand THEN <<>> ELSE <<Command("setbootablestoragedrive")>>)
  \o <<Command("reset")>>

\* How often a command is sent, and with which data.  A plain image is one run
\* of the whole file; a sparse one has the runs fh_process_sparse_program found.
\* That function looks for the image beside the XML files even when they are in
\* a zip file; its result is not used.
Whole(size) == [start |-> 0, offset |-> 0, size |-> size]
RunsOf(j, c) == IF c.image = <<>> THEN <<Whole(c.size)>>
                ELSE IF j.zip THEN <<>> ELSE Runs(c.image)

Schedule(j) ==
  LET p == Plan(j)
  IN  [k \in 1 .. Len(p) |->
         [type |-> p[k].type, part |-> p[k].part, runs |-> RunsOf(j, p[k])]]

Now == plan[at]
Run == Now.runs[group + 1]

Phases == {"idle", "drain", "send", "answer", "again", "answer2", "image",
           "written", "bye", "done", "failed"}

Answer == [kind : {"response"}, ack : BOOLEAN, raw : BOOLEAN,
           max : Limits \cup {MaxPayload, 0}]
Response(ack, raw, max) ==
  [kind |-> "response", ack |-> ack, raw |-> raw, max |-> max]
Log == [kind |-> "log"]
Junk == [kind |-> "junk"]

Idle(limit) == [mode |-> "idle", type |-> "none", part |-> 0,
                run |-> Whole(0), got |-> 0, limit |-> limit]

\* A run of an image in flash, by where it is and what it was read from.
Piece(r) == [start |-> r.start, offset |-> r.offset]
Erasure == [old |-> FALSE, pieces |-> {}]

TypeOK ==
  /\ job \in Jobs
  /\ pc \in Phases
  /\ at \in 1 .. Len(plan)
  /\ group \in Nat /\ filesend \in Nat
  /\ payload \in Limits \cup {MaxPayload}
  /\ sk \in Seq(Answer)
  /\ reader \in {"run", "dead"}
  /\ usb \in Seq(Answer \cup {Log, Junk})
  /\ dev.mode \in {"idle", "cmd", "raw"} /\ dev.limit \in Limits \cup {MaxPayload}
  /\ \A p \in Partition : flash[p].old \in BOOLEAN
  /\ logs \in 0 .. MaxLogs /\ runs \in 0 .. MaxRuns

Init ==
  /\ job \in Jobs /\ plan = Schedule(job)
  /\ pc = "idle"
  /\ at = 1 /\ group = 0 /\ payload = MaxPayload /\ filesend = 0
  /\ sk = <<>> /\ usb = <<>>
  /\ reader = "run"
  /\ dev = Idle(MaxPayload)
  /\ flash = [p \in Partition |-> [old |-> TRUE, pieces |-> {}]]
  /\ logs = 0 /\ runs = 0

-----------------------------------------------------------------------------
(* The main thread. *)

\* The tool is started on a module that has just been reset into the
\* programmer (sahara_main): socketpair, thread, the first drain.
Start ==
  /\ pc \in {"idle", "failed"}
  /\ runs < MaxRuns
  /\ runs' = runs + 1
  /\ pc' = "drain"
  /\ at' = 1 /\ group' = 0 /\ payload' = MaxPayload /\ filesend' = 0
  /\ sk' = <<>> /\ usb' = <<>> /\ reader' = "run" /\ logs' = 0
  /\ \E l \in Limits : dev' = Idle(l)
  /\ UNCHANGED <<job, plan, flash>>

\* while (fh_recv_cmd(...) == 0): answers nobody asked for are thrown away.
Drain ==
  /\ pc \in {"drain", "bye"}
  /\ IF sk # <<>> THEN sk' = Tail(sk) /\ UNCHANGED pc
     ELSE sk' = sk /\ pc' = IF pc = "drain" THEN "send" ELSE "done"
  /\ UNCHANGED <<job, plan, at, group, payload, filesend, reader, usb, dev, flash, logs,
                 runs>>

\* All runs are done (or there were none): on to the next command.
Skip ==
  /\ pc = "send"
  /\ group = Len(Now.runs)
  /\ at' = at + 1 /\ group' = 0
  /\ UNCHANGED <<job, plan, pc, payload, filesend, sk, reader, usb, dev, flash, logs,
                 runs>>

\* fh_send_cmd; the callers ignore its result, so a failed write goes
\* unnoticed until the answer does not come.
Send ==
  /\ pc \in {"send", "again"}
  /\ group < Len(Now.runs)
  /\ \/ dev' = [dev EXCEPT !.mode = "cmd", !.type = Now.type,
                            !.part = Now.part, !.run = Run]
     \/ UNCHANGED dev
  /\ pc' = IF pc = "send" THEN "answer" ELSE "answer2"
  /\ UNCHANGED <<job, plan, at, group, payload, filesend, sk, reader, usb, flash, logs,
                 runs>>

\* fh_wait_response_cmd and what each caller makes of the answer.
NextCommand == at' = at + 1 /\ group' = 0 /\ pc' = "send"

Refused(r) == ~r.ack /\ Now.type \notin {"setbootablestoragedrive", "reset"}

Smaller(r) == Now.type = "configure" /\ ~r.ack /\ r.max # 0 /\ pc = "answer"

Answered(r) ==
  \/ Smaller(r) /\ pc' = "again" /\ payload' = r.max /\ UNCHANGED <<at, group>>
  \/ /\ Refused(r) /\ ~Smaller(r)
     /\ pc' = "failed" /\ UNCHANGED <<at, group, payload>>
  \/ /\ ~Refused(r) /\ Now.type = "program"
     /\ pc' = IF r.raw THEN "image" ELSE "failed"
     /\ UNCHANGED <<at, group, payload>>
  \/ Now.type = "reset" /\ pc' = "bye" /\ UNCHANGED <<at, group, payload>>
  \/ /\ ~Refused(r) /\ Now.type \notin {"program", "reset"}
     /\ NextCommand /\ UNCHANGED payload

Receive ==
  /\ pc \in {"answer", "answer2"}
  /\ sk # <<>>
  /\ Answered(Head(sk))
  /\ sk' = Tail(sk)
  /\ filesend' = 0
  /\ UNCHANGED <<job, plan, reader, usb, dev, flash, logs, runs>>

MinOf(a, b) == IF a < b THEN a ELSE b

\* A chunk is read, padded to whole sectors and written.
Padded(n) == LET s == SECTOR_SIZE_IN_BYTES
             IN  IF n % s = 0 THEN n ELSE n + s - (n % s)

\* Mutant of Chunk: the last chunk is as long as the others.
ChunkOfPayload == Padded(payload)

Chunk == Padded(MinOf(payload, Run.size - filesend))

\* fh_send_rawmode_image: one turn of its loop; a failed write ends it.
SendImage ==
  /\ pc = "image"
  /\ filesend < Run.size
  /\ \/ /\ filesend' = filesend + Chunk
        /\ IF dev.mode = "raw"
           THEN /\ dev' = [dev EXCEPT !.got = @ + Chunk]
                /\ flash' = [flash EXCEPT ![dev.part] =
                              [old |-> FALSE, pieces |-> @.pieces \ {Piece(dev.run)}]]
           ELSE UNCHANGED <<dev, flash>>
        /\ pc' = IF filesend' >= Run.size THEN "written" ELSE "image"
     \/ pc' = "failed" /\ UNCHANGED <<filesend, dev, flash>>
  /\ UNCHANGED <<job, plan, at, group, payload, sk, reader, usb, logs, runs>>

\* The answer after the image.
Written ==
  /\ pc = "written"
  /\ sk # <<>>
  /\ sk' = Tail(sk)
  /\ IF Head(sk).ack /\ ~Head(sk).raw
     THEN group' = group + 1 /\ pc' = "send"
     ELSE pc' = "failed" /\ UNCHANGED group
  /\ UNCHANGED <<job, plan, at, payload, filesend, reader, usb, dev, flash, logs, runs>>

\* Mutant of TimedOut: the command is sent again.
TimedOutResends ==
  /\ pc \in {"answer", "answer2", "written"}
  /\ sk = <<>>
  /\ pc' = IF pc = "answer" THEN "send" ELSE "failed"
  /\ UNCHANGED <<job, plan, at, group, payload, filesend, sk, reader, usb, dev, flash,
                 logs, runs>>

\* Mutant of TimedOut: the wait has no timeout.
TimedOutNever ==
  /\ pc \in {"answer", "answer2", "written"}
  /\ sk = <<>>
  /\ UNCHANGED vars

\* poll returns 0 in a wait: the run fails.
TimedOut ==
  /\ pc \in {"answer", "answer2", "written"}
  /\ sk = <<>>
  /\ pc' = "failed"
  /\ UNCHANGED <<job, plan, at, group, payload, filesend, sk, reader, usb, dev, flash,
                 logs, runs>>

-----------------------------------------------------------------------------
(* The reader thread: _fh_recv_cmd on one USB transfer of k messages. *)

Responses(b) == {i \in 1 .. Len(b) : b[i].kind = "response"}

\* Parsing stops at a log that follows a response.
StopAt(b) == {i \in 1 .. Len(b) : b[i] = Log /\ \E j \in Responses(b) : j < i}

Parsed(b) == {i \in 1 .. Len(b) : \A j \in StopAt(b) : i < j}

\* The last response of the transfer is handed over; a message that is
\* neither log nor response ends the thread.
ReadUsb(k) ==
  LET b == SubSeq(usb, 1, k)
      answers == Responses(b) \cap Parsed(b)
      broken == \E i \in Parsed(b) : b[i] = Junk
  IN  /\ reader = "run"
      /\ pc \notin {"idle", "done", "failed"}
      /\ usb' = SubSeq(usb, k + 1, Len(usb))
      /\ \/ broken /\ reader' = "dead" /\ UNCHANGED sk
         \/ ~broken /\ answers = {} /\ UNCHANGED <<sk, reader>>
         \/ /\ ~broken
            /\ \E i \in answers : /\ \A j \in answers : j <= i
                                  /\ sk' = Append(sk, b[i])
            /\ UNCHANGED reader
      /\ UNCHANGED <<host, dev, flash, logs, runs>>

-----------------------------------------------------------------------------
(* The module. *)

Say(m) == usb' = Append(usb, m)

\* The erase of partition 0 with -e takes the whole flash.
WithoutErased ==
  [p \in Partition |-> IF p = dev.part \/ (job.eraseall /\ dev.part = 0) THEN Erasure
                       ELSE flash[p]]

\* It executes a command and accepts it, or refuses it.
Execute ==
  /\ dev.mode = "cmd"
  /\ \/ /\ ~(dev.type = "configure" /\ payload > dev.limit)
        /\ dev' = [dev EXCEPT !.got = 0,
                              !.mode = IF dev.type = "program" THEN "raw"
                                       ELSE "idle"]
        /\ flash' = IF dev.type = "erase" THEN WithoutErased ELSE flash
        /\ Say(Response(TRUE, dev.type = "program", 0))
     \/ /\ dev' = [dev EXCEPT !.mode = "idle"]
        /\ Say(Response(FALSE, FALSE, IF dev.type = "configure"
                                      THEN dev.limit ELSE 0))
        /\ UNCHANGED flash
  /\ UNCHANGED <<host, sk, reader, logs, runs>>

\* The sectors announced by the program command have all come in.
Expected == Padded(dev.run.size)

Store ==
  /\ dev.mode = "raw"
  /\ dev.got >= Expected
  /\ dev' = [dev EXCEPT !.mode = "idle", !.got = 0]
  /\ \/ /\ flash' = [flash EXCEPT ![dev.part].pieces = @ \cup {Piece(dev.run)}]
        /\ Say(Response(TRUE, FALSE, 0))
     \/ Say(Response(FALSE, FALSE, 0)) /\ UNCHANGED flash
  /\ UNCHANGED <<host, sk, reader, logs, runs>>

\* Logs come at any time, and once in a while something else.
Chatter ==
  /\ pc \notin {"idle", "done", "failed"}
  /\ logs < MaxLogs
  /\ logs' = logs + 1
  /\ Say(Log) \/ Say(Junk)
  /\ UNCHANGED <<host, sk, reader, dev, flash, runs>>

\* sdx20 answers once more after the reset.
SecondAnswer ==
  /\ pc = "bye"
  /\ logs < MaxLogs
  /\ logs' = logs + 1
  /\ Say(Response(TRUE, FALSE, 0))
  /\ UNCHANGED <<host, sk, reader, dev, flash, runs>>

\* Power or cable is lost; what was being erased is left half erased.
PowerCut ==
  /\ pc \notin {"idle", "done", "failed"}
  /\ pc' = "failed"
  /\ dev' = Idle(dev.limit)
  /\ usb' = <<>> /\ sk' = <<>>
  /\ flash' \in IF dev.mode = "cmd" /\ dev.type = "erase" THEN {flash, WithoutErased}
                 ELSE {flash}
  /\ UNCHANGED <<job, plan, at, group, payload, filesend, reader, logs, runs>>

Work ==
  \/ Drain \/ Skip \/ Send \/ Receive \/ SendImage \/ Written
  \/ TimedOut \/ Execute \/ Store \/ Chatter \/ SecondAnswer \/ PowerCut
  \/ \E k \in 1 .. Len(usb) : ReadUsb(k)

Next == Start \/ Work

Spec == Init /\ [][Next]_vars

\* Every wait of the main thread ends by an answer or by its timeout.
MainThread == \/ Drain \/ Skip \/ Send \/ Receive \/ SendImage \/ Written
              \/ TimedOut

-----------------------------------------------------------------------------
(* PROPERTIES *)

Table == job.table

ToProgram == {i \in 1 .. Len(Table) : Table[i].type = "program"}

ErasesSbl == \E i \in 1 .. Len(Table) : FirstErase(Table[i])

\* What a partition holds, measured by what the image of command i means.
Image(i) ==
  LET wanted == IF Table[i].image = <<>> THEN {Piece(Whole(0))}
                ELSE Pieces(Table[i].image)
      has == flash[Table[i].part]
  IN  IF has.old THEN "old" ELSE IF has.pieces = wanted THEN "new" ELSE "broken"

\* On NAND, SBL is erased first and programmed last: whenever the power goes,
\* in any run, a module that can boot boots from a whole image, all old or
\* all new (firehose_main, first_earse_and_last_programm_SBL).
SblOverWholeImage ==
  job.nand /\ ErasesSbl =>
    \A s, i \in ToProgram : Table[s].part = 0 /\ Image(s) # "broken" =>
                           Image(i) = Image(s)

\* Images fh_process_sparse_program gets right: not in a zip file, no hole in
\* front, and no fill chunk, which has more blocks than bytes.
Right(j, c) ==
  \/ c.image = <<>>
  \/ /\ ~j.zip
     /\ IsData(c.image[1].type)
     /\ \A k \in 1 .. Len(c.image) : c.image[k].type # "fill"
Handled(c) == Right(job, c)

\* Packages in which no two commands program the same partition.
ProgrammedOnce ==
  \A j \in Jobs : \A i, k \in 1 .. Len(j.table) :
    /\ j.table[i].type = "program" /\ j.table[k].type = "program"
    /\ j.table[i].part = j.table[k].part
    => i = k

\* Sparse images are for eMMC; those of a NAND package, if any, are handled.
NandHandled ==
  \A j \in Jobs : j.nand =>
    \A i \in 1 .. Len(j.table) : Program(j.table[i]) => Right(j, j.table[i])

\* When firehose_main returns 0 ("Upgrade module successfully") every
\* partition the XML files program holds its image: each run of its data was
\* acknowledged, at the place and from the part of the file it belongs to, if
\* the image is one of those above.
SuccessIsComplete ==
  pc = "done" => \A i \in ToProgram : Handled(Table[i]) => Image(i) = "new"

\* Answers the main thread has not consumed yet, wherever they are.
Outstanding ==
  Len(sk) + Cardinality(Responses(usb)) + (IF dev.mode = "cmd" THEN 1 ELSE 0)

\* The protocol is in lock step: no command is sent, and no image chunk, while
\* an earlier answer is still under way, so an answer always belongs to the
\* command that waits for it (answers carry no number).
LockStep ==
  /\ pc \in {"send", "again", "image"} => Outstanding = 0
  /\ pc \in {"answer", "answer2", "written"} => Outstanding <= 1

\* Image data goes out only while the module is in raw mode, in payloads it
\* agreed to and in exactly the whole sectors the command announced.
ImageFits ==
  /\ pc = "image" => dev.mode = "raw" /\ payload <= dev.limit
  /\ dev.mode = "raw" => dev.got <= Expected
=============================================================================
