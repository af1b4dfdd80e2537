----------------------------- MODULE Modeswitch -----------------------------
(***************************************************************************)
(* USB hotplug handling (usr/lib/rooter/modeswitch.sh), the boot script    *)
(* that prepares its tables (initialize.sh), the driver probe both of its  *)
(* rounds use (proto.sh) and the part of luci/restartrun.sh that shares    *)
(* the /tmp/usbwait flag with it.                                          *)
(*                                                                         *)
(* Every uevent starts a background process (hotplug.d/usb), so handlers   *)
(* for several devices, or for several events of one device, interleave.   *)
(* They meet in the uci slots modem.modem1..MODCNT, in /tmp/usbwait and in *)
(* /tmp/proto.  Clocks are left out: a sleep is any number of steps of the *)
(* others, and only counted waits (DELAY) are counted.                     *)
(***************************************************************************)
EXTENDS Naturals, Sequences, FiniteSets

CONSTANTS
    Devices,     \* USB ports: the DEVICENAME of a uevent
    Kind,        \* what is behind each port
    Handlers,    \* PIDs of the processes that may ever run, one per event or restart
    MODCNT,      \* number of modem slots (maxmodem.maxmodem.maxmodem)
    DelayLimit,  \* waits for usbwait before a handler goes on anyway (35)
    MaxBoots,    \* bound: how often the router reboots
    None

Services == {"camera", "printer"}

Kinds == Services \union {"ignored", "storage", "other", "modem"}

ASSUME KindAssumption == Kind \in [Devices -> Kinds]
ASSUME CountAssumption == MODCNT \in Nat \ {0} /\ DelayLimit \in Nat /\ MaxBoots \in Nat
ASSUME HandlersAssumption == Handlers \subseteq Nat
ASSUME NoneAssumption == None \notin Devices /\ None \notin Handlers /\ None \notin Kinds

VARIABLES
    boot,        \* initialize.sh: "start", "reset" (tables done), "done" (bootend.file)
    boots,       \* reboots so far
    plugged,     \* what is on the bus
    events,      \* uevents not yet dispatched
    used,        \* slots with modem.modemN.empty = 0
    active,      \* slots with modem.modemN.active = 1
    connected,   \* slots with modem.modemN.connected = 1
    device,      \* modem.modemN.device
    by,          \* auxiliary: the handler that filled the slot
    usbwait,     \* /tmp/usbwait exists
    proto,       \* /tmp/proto: the retval written in it, or None
    idv,         \* device recorded for the streamer and the print server
    pc,          \* where each process is
    job,         \* its DEVICENAME
    cur,         \* its COUNTER, then CURRMODEM or retresult
    delay,       \* its DELAY
    retval,      \* its retval
    overlapped,  \* auxiliary: handlers that shared the section usbwait guards
    raced        \* auxiliary: devices for which two handlers were at work at once

slot == <<used, active, connected, device, by>>
shared == <<slot, usbwait, proto, idv>>
local == <<job, cur, delay, retval>>
world == <<boot, boots, plugged, events>>
aux == <<overlapped, raced>>
vars == <<world, shared, pc, local, aux>>

Slots == 1..MODCNT

\* Between echo "1" > /tmp/usbwait and the rm that gives it back.
Critical == {"proto0", "source0", "classify", "find", "switch", "proto1", "source1",
             "register", "activate"}

Adding == Critical \union {"bootdelay", "test", "wait", "take"}

Removing == {"rfind", "clear", "kill", "check", "wipe", "finish"}

\* Where cur is the number of a slot, no longer a counter.
OnSlot == {"switch", "proto1", "source1", "register", "activate", "connect", "dial", "clear"}

Ended == {"idle", "done", "dead", "off", "spin"}

PCs == Adding \union Removing \union Ended \union {"connect", "dial", "rwait"}

Init ==
    /\ boot = "start"
    /\ boots = 0
    /\ plugged = {}
    /\ events = <<>>
    /\ used = {} /\ active = {} /\ connected = {}
    /\ device = [s \in Slots |-> None]
    /\ by = [s \in Slots |-> None]
    /\ usbwait = FALSE
    /\ proto = None
    /\ idv = [k \in Services |-> None]
    /\ pc = [h \in Handlers |-> "idle"]
    /\ job = [h \in Handlers |-> None]
    /\ cur = [h \in Handlers |-> 1]
    /\ delay = [h \in Handlers |-> 1]
    /\ retval = [h \in Handlers |-> None]
    /\ overlapped = {}
    /\ raced = {}

-----------------------------------------------------------------------------
(* The world: booting, power loss, and devices that come and go.           *)

\* uci delete of whole sections, and empty = 1 in what replaces them.
DeleteSlots(S) ==
    /\ used' = used \ S
    /\ active' = active \ S
    /\ connected' = connected \ S
    /\ device' = [s \in Slots |-> IF s \in S THEN None ELSE device[s]]
    /\ by' = [s \in Slots |-> IF s \in S THEN None ELSE by[s]]

\* initialize.sh deletes the slots left by the last run and makes them empty.
InitModems ==
    /\ boot = "start"
    /\ boot' = "reset"
    /\ DeleteSlots(Slots)
    /\ UNCHANGED <<boots, plugged, events, usbwait, proto, idv, pc, local, aux>>

BootEnd ==
    /\ boot = "reset"
    /\ boot' = "done"
    /\ UNCHANGED <<boots, plugged, events, shared, pc, local, aux>>

\* A reboot clears /tmp and every process; the uci sections are on flash.  Who raced
\* before it no longer matters.
Reboot ==
    /\ boots < MaxBoots
    /\ boots' = boots + 1
    /\ boot' = "start"
    /\ plugged' = {}
    /\ events' = <<>>
    /\ usbwait' = FALSE
    /\ proto' = None
    /\ pc' = [h \in Handlers |-> IF pc[h] = "idle" THEN "idle" ELSE "off"]
    /\ job' = [h \in Handlers |-> None]
    /\ cur' = [h \in Handlers |-> 1]
    /\ delay' = [h \in Handlers |-> 1]
    /\ retval' = [h \in Handlers |-> None]
    /\ raced' = {}
    /\ UNCHANGED <<slot, idv, overlapped>>

\* Bound: there is a process for every event.
RoomForEvent == Len(events) < Cardinality({h \in Handlers : pc[h] = "idle"})

Event(act, d) ==
    /\ RoomForEvent
    /\ events' = Append(events, <<act, d>>)
    /\ UNCHANGED <<boot, boots, shared, pc, local, aux>>

Plug(d) == d \notin plugged /\ plugged' = plugged \union {d} /\ Event("add", d)

Unplug(d) == d \in plugged /\ plugged' = plugged \ {d} /\ Event("remove", d)

\* PIDs are given out in increasing order.
NextPid(h) == pc[h] = "idle" /\ \A g \in Handlers : pc[g] = "idle" => h <= g

\* hotplug.d/usb/20-usb_mode starts modeswitch.sh in the background.
Spawn(h) ==
    /\ NextPid(h)
    /\ events # <<>>
    /\ pc' = [pc EXCEPT ![h] = IF Head(events)[1] = "add" THEN "bootdelay" ELSE "rfind"]
    /\ job' = [job EXCEPT ![h] = Head(events)[2]]
    /\ events' = Tail(events)
    /\ raced' = IF \E g \in Handlers : pc[g] \in Adding \union Removing /\ job[g] = job'[h]
                THEN raced \union {job'[h]} ELSE raced
    /\ UNCHANGED <<boot, boots, plugged, shared, cur, delay, retval, overlapped>>

-----------------------------------------------------------------------------
(* ACTION = add.                                                           *)

Goto(h, from, to) == pc[h] = from /\ pc' = [pc EXCEPT ![h] = to]

\* Mutant: the handler does not wait for bootend.file.
NoBootDelay(h) ==
    /\ Goto(h, "bootdelay", IF Kind[job[h]] = "ignored" THEN "done" ELSE "test")
    /\ UNCHANGED <<world, shared, local, aux>>

\* bootdelay, then the devices that are no business of this script.
BootDelay(h) ==
    /\ boot = "done"
    /\ Goto(h, "bootdelay", IF Kind[job[h]] = "ignored" THEN "done" ELSE "test")
    /\ UNCHANGED <<world, shared, local, aux>>

TestUsbwait(h) ==
    /\ Goto(h, "test", IF usbwait THEN "wait" ELSE "take")
    /\ UNCHANGED <<world, shared, local, aux>>

\* Mutant: DELAY is not limited.
WaitForever(h) ==
    /\ Goto(h, "wait", "take")
    /\ ~usbwait
    /\ UNCHANGED <<world, shared, local, aux>>

\* The wait ends when the flag has gone or when DELAY exceeds its limit.
WaitUsbwait(h) ==
    /\ Goto(h, "wait", IF usbwait /\ delay[h] + 1 <= DelayLimit THEN "wait" ELSE "take")
    /\ delay' = IF usbwait THEN [delay EXCEPT ![h] = @ + 1] ELSE delay
    /\ UNCHANGED <<world, shared, job, cur, retval, aux>>

InSection == {h \in Handlers : pc[h] \in Critical}

TakeUsbwait(h) ==
    /\ Goto(h, "take", "proto0")
    /\ usbwait' = TRUE
    /\ overlapped' = IF InSection = {} THEN overlapped
                     ELSE overlapped \union InSection \union {h}
    /\ UNCHANGED <<world, slot, proto, idv, local, raced>>

\* proto.sh finds the driver of a device and writes it to /tmp/proto.  Its loops
\* count interfaces that exist: for a device that has gone they never end.
Probe(h, from, to) ==
    /\ Goto(h, from, IF job[h] \in plugged THEN to ELSE "spin")
    /\ proto' = IF job[h] \in plugged THEN Kind[job[h]] ELSE proto
    /\ UNCHANGED <<world, slot, usbwait, idv, local, aux>>

\* source /tmp/proto: a file another handler has removed ends the shell.
Source(h, from, to) ==
    /\ Goto(h, from, IF proto = None THEN "done" ELSE to)
    /\ retval' = [retval EXCEPT ![h] = proto]
    /\ UNCHANGED <<world, shared, job, cur, delay, aux>>

Probe0(h) == Probe(h, "proto0", "source0")

Source0(h) == Source(h, "source0", "classify")

\* Mutant: storage is not sent away.
ClassifyKeepsStorage(h) ==
    /\ proto' = None
    /\ Goto(h, "classify", "find")
    /\ cur' = [cur EXCEPT ![h] = 1]
    /\ UNCHANGED <<world, slot, usbwait, idv, job, delay, retval, aux>>

\* Cameras and printers get their service, storage is left alone; only storage
\* gives the flag back.
Classify(h) ==
    /\ proto' = None
    /\ \/ /\ retval[h] \in Services
          /\ Goto(h, "classify", "done")
          /\ idv' = [idv EXCEPT ![retval[h]] = job[h]]
          /\ UNCHANGED <<usbwait, cur>>
       \/ /\ retval[h] = "storage"
          /\ Goto(h, "classify", "done")
          /\ usbwait' = FALSE
          /\ UNCHANGED <<idv, cur>>
       \/ /\ retval[h] \notin Services \union {"storage"}
          /\ Goto(h, "classify", "find")
          /\ cur' = [cur EXCEPT ![h] = 1]
          /\ UNCHANGED <<usbwait, idv>>
    /\ UNCHANGED <<world, slot, job, delay, retval, aux>>

\* Mutant: a slot counts as free when its modem is not connected.
FindUnconnected(h) ==
    /\ \/ cur[h] > MODCNT /\ Goto(h, "find", "done") /\ UNCHANGED cur
       \/ /\ cur[h] <= MODCNT
          /\ cur[h] \notin connected
          /\ Goto(h, "find", "switch")
          /\ UNCHANGED cur
       \/ /\ cur[h] <= MODCNT
          /\ cur[h] \in connected
          /\ Goto(h, "find", "find")
          /\ cur' = [cur EXCEPT ![h] = @ + 1]
    /\ UNCHANGED <<world, shared, job, delay, retval, aux>>

\* find_empty reads one slot after the other; with none left the handler exits
\* and leaves the flag.
FindEmpty(h) ==
    /\ \/ cur[h] > MODCNT /\ Goto(h, "find", "done") /\ UNCHANGED cur
       \/ /\ cur[h] <= MODCNT
          /\ cur[h] \notin used
          /\ Goto(h, "find", "switch")
          /\ UNCHANGED cur
       \/ /\ cur[h] <= MODCNT
          /\ cur[h] \in used
          /\ Goto(h, "find", "find")
          /\ cur' = [cur EXCEPT ![h] = @ + 1]
    /\ UNCHANGED <<world, shared, job, delay, retval, aux>>

\* The configuration is selected once the device shows one; what the device does
\* on the bus meanwhile is the world's.
SwitchMode(h) ==
    /\ Goto(h, "switch", "proto1")
    /\ job[h] \in plugged
    /\ usbwait' = TRUE
    /\ UNCHANGED <<world, slot, proto, idv, local, aux>>

Probe1(h) == Probe(h, "proto1", "source1")

Source1(h) == Source(h, "source1", "register")

\* The slot is filled in field by field: first it stops being empty ...
Register(h) ==
    /\ proto' = None
    /\ \/ /\ retval[h] = "other"
          /\ Goto(h, "register", "done")
          /\ usbwait' = FALSE
          /\ UNCHANGED slot
       \/ /\ retval[h] # "other"
          /\ Goto(h, "register", "activate")
          /\ used' = used \union {cur[h]}
          /\ device' = [device EXCEPT ![cur[h]] = job[h]]
          /\ by' = [by EXCEPT ![cur[h]] = h]
          /\ UNCHANGED <<usbwait, active, connected>>
    /\ UNCHANGED <<world, idv, local, aux>>

\* ... then it becomes active, the flag is given back and create_proto starts.
Activate(h) ==
    /\ Goto(h, "activate", IF retval[h] = "modem" THEN "connect" ELSE "done")
    /\ active' = active \union {cur[h]}
    /\ connected' = connected \ {cur[h]}
    /\ usbwait' = FALSE
    /\ UNCHANGED <<world, used, device, by, proto, idv, local, aux>>

\* create_connect.sh removes the flag once more when it starts ...
ConnectStart(h) ==
    /\ Goto(h, "connect", "dial")
    /\ usbwait' = FALSE
    /\ UNCHANGED <<world, slot, proto, idv, local, aux>>

\* ... and gives up or sets the slot connected.
ConnectEnd(h) ==
    /\ Goto(h, "dial", "done")
    /\ connected' \in {connected, connected \union {cur[h]}}
    /\ UNCHANGED <<world, used, active, device, by, usbwait, proto, idv, local, aux>>

-----------------------------------------------------------------------------
(* ACTION = remove.                                                        *)

\* find_device: the first slot in use whose device is this port.  When there is
\* none the port may be the camera's or the printer's.
FindDevice(h) ==
    /\ \/ /\ cur[h] > MODCNT
          /\ Goto(h, "rfind", "done")
          /\ idv' = [k \in Services |-> IF idv[k] = job[h] THEN None ELSE idv[k]]
          /\ UNCHANGED cur
       \/ /\ cur[h] <= MODCNT
          /\ cur[h] \in used /\ device[cur[h]] = job[h]
          /\ Goto(h, "rfind", "clear")
          /\ UNCHANGED <<idv, cur>>
       \/ /\ cur[h] <= MODCNT
          /\ cur[h] \notin used \/ device[cur[h]] # job[h]
          /\ Goto(h, "rfind", "rfind")
          /\ cur' = [cur EXCEPT ![h] = @ + 1]
          /\ UNCHANGED idv
    /\ UNCHANGED <<world, slot, usbwait, proto, job, delay, retval, aux>>

\* Mutant: the slot of a removed modem is not marked empty.
ClearForgetsEmpty(h) ==
    /\ Goto(h, "clear", "kill")
    /\ active' = active \ {cur[h]}
    /\ connected' = connected \ {cur[h]}
    /\ UNCHANGED <<world, used, device, by, usbwait, proto, idv, local, aux>>

ClearSlot(h) ==
    /\ Goto(h, "clear", "kill")
    /\ active' = active \ {cur[h]}
    /\ used' = used \ {cur[h]}
    /\ connected' = connected \ {cur[h]}
    /\ UNCHANGED <<world, device, by, usbwait, proto, idv, local, aux>>

Connecting(s) == {g \in Handlers : pc[g] \in {"connect", "dial"} /\ cur[g] = s}

\* kill -9 of the first create_protoN that ps lists.
KillConnect(h) ==
    /\ pc[h] = "kill"
    /\ \/ Connecting(cur[h]) = {} /\ pc' = [pc EXCEPT ![h] = "check"]
       \/ \E g \in Connecting(cur[h]) : pc' = [pc EXCEPT ![h] = "check", ![g] = "dead"]
    /\ cur' = [cur EXCEPT ![h] = 1]
    /\ UNCHANGED <<world, shared, job, delay, retval, aux>>

InUse(s) == s \in used /\ s \in active

\* check_all_empty: it stops at the first active modem it reads ...
CheckAllEmpty(h) ==
    /\ \/ cur[h] > MODCNT /\ Goto(h, "check", "wipe") /\ cur' = [cur EXCEPT ![h] = 1]
       \/ cur[h] <= MODCNT /\ InUse(cur[h]) /\ Goto(h, "check", "finish") /\ UNCHANGED cur
       \/ /\ cur[h] <= MODCNT /\ ~InUse(cur[h])
          /\ Goto(h, "check", "check")
          /\ cur' = [cur EXCEPT ![h] = @ + 1]
    /\ UNCHANGED <<world, shared, job, delay, retval, aux>>

\* ... and deletes the slots one after the other when it has read none.
Wipe(h) ==
    /\ \/ cur[h] > MODCNT /\ Goto(h, "wipe", "finish") /\ UNCHANGED <<cur, slot>>
       \/ /\ cur[h] <= MODCNT
          /\ Goto(h, "wipe", "wipe")
          /\ DeleteSlots({cur[h]})
          /\ cur' = [cur EXCEPT ![h] = @ + 1]
    /\ UNCHANGED <<world, usbwait, proto, idv, job, delay, retval, aux>>

\* The flag is removed whoever holds it.
FinishRemove(h) ==
    /\ Goto(h, "finish", "done")
    /\ usbwait' = FALSE
    /\ UNCHANGED <<world, slot, proto, idv, local, aux>>

-----------------------------------------------------------------------------
(* restartrun.sh: raise the flag, reset the modem (what the modem then does  *)
(* on the bus is the world's), and wait for somebody to remove the flag.   *)

RestartRun(h, s) ==
    /\ RoomForEvent
    /\ NextPid(h)
    /\ s \in used
    /\ Goto(h, "idle", "rwait")
    /\ usbwait' = TRUE
    /\ UNCHANGED <<world, slot, proto, idv, local, aux>>

\* Mutant: the test of the flag is inverted.
RestartWaitsForFlag(h) ==
    /\ usbwait
    /\ Goto(h, "rwait", "done")
    /\ UNCHANGED <<world, shared, local, aux>>

RestartEnd(h) ==
    /\ ~usbwait
    /\ Goto(h, "rwait", "done")
    /\ UNCHANGED <<world, shared, local, aux>>

AddStep(h) ==
    \/ BootDelay(h) \/ TestUsbwait(h) \/ WaitUsbwait(h) \/ TakeUsbwait(h)
    \/ Probe0(h) \/ Source0(h) \/ Classify(h) \/ FindEmpty(h) \/ SwitchMode(h)
    \/ Probe1(h) \/ Source1(h) \/ Register(h) \/ Activate(h)
    \/ ConnectStart(h) \/ ConnectEnd(h)

RemoveStep(h) ==
    \/ FindDevice(h) \/ ClearSlot(h) \/ KillConnect(h)
    \/ CheckAllEmpty(h) \/ Wipe(h) \/ FinishRemove(h)

Step(h) == Spawn(h) \/ AddStep(h) \/ RemoveStep(h) \/ RestartEnd(h)

Next ==
    \/ InitModems \/ BootEnd \/ Reboot
    \/ \E d \in Devices : Plug(d) \/ Unplug(d)
    \/ \E h \in Handlers : Step(h) \/ \E s \in Slots : RestartRun(h, s)

\* Processes that can take a step are scheduled, and the boot script is one.
Fairness ==
    /\ WF_vars(InitModems \/ BootEnd)
    /\ \A h \in Handlers : WF_vars(Step(h))

Spec == Init /\ [][Next]_vars /\ Fairness

-----------------------------------------------------------------------------

\* Every variable keeps its type: no handler touches a slot beyond MODCNT.
TypeOK ==
    /\ boot \in {"start", "reset", "done"}
    /\ boots \in 0..MaxBoots
    /\ plugged \subseteq Devices
    /\ events \in Seq({"add", "remove"} \X Devices)
    /\ used \subseteq Slots /\ active \subseteq Slots /\ connected \subseteq Slots
    /\ device \in [Slots -> Devices \union {None}]
    /\ by \in [Slots -> Handlers \union {None}]
    /\ usbwait \in BOOLEAN
    /\ proto \in Kinds \union {None}
    /\ idv \in [Services -> Devices \union {None}]
    /\ pc \in [Handlers -> PCs]
    /\ job \in [Handlers -> Devices \union {None}]
    /\ cur \in [Handlers -> 1..(MODCNT + 1)]
    /\ delay \in [Handlers -> Nat]
    /\ retval \in [Handlers -> Kinds \union {None}]
    /\ overlapped \subseteq Handlers
    /\ raced \subseteq Devices

\* The companion TypeOK needs to be inductive: a handler that left find_empty or
\* find_device with a number left it with the number of a slot.
CurIsSlot == \A h \in Handlers : pc[h] \in OnSlot => cur[h] \in Slots

\* find_empty's answer is used some 12 seconds later (line 308, line 445).  It is
\* still right then, and no registered modem is overwritten, for every handler
\* that was alone between taking and giving back /tmp/usbwait.
FreshSlot ==
    \A h \in Handlers :
        pc[h] \in {"switch", "proto1", "source1", "register"} /\ h \notin overlapped
            => cur[h] \notin used

\* Only modems get a slot, and not the storage, printer or camera another handler
\* put into /tmp/proto meanwhile (lines 263-265, 411-413), if the handler that
\* filled the slot was alone in the section usbwait guards.
OnlyModems ==
    \A s \in used : by[s] \notin overlapped => Kind[device[s]] = "modem"

\* initialize.sh never deletes a modem found since the reboot: handlers wait for
\* bootend.file, which is written after the slots were reset (line 315).
BootLosesNothing ==
    boot = "start" => \A s \in used : pc[by[s]] = "off"

Quiet == events = <<>> /\ \A h \in Handlers : pc[h] \in Ended \union {"rwait"}

\* When all handlers are done, a slot names a device that is not there, or two
\* slots name one device, only if a handler for that device was started before
\* the previous one had ended: the remove path neither waits for usbwait nor
\* comes back, and the add path does not look whether the port has a slot
\* already (lines 307, 576).
TableMatchesBus ==
    Quiet /\ boot # "start" =>
        \A s \in used : device[s] \notin raced =>
            device[s] \in plugged /\ \A t \in used \ {s} : device[t] # device[s]

\* Every handler ends, although several exits leave /tmp/usbwait behind: the wait
\* is bounded.  The exceptions are a device that went away under its handler,
\* which then waits for a configuration (line 342) or spins in proto.sh.
HandlersEnd ==
    \A h \in Handlers :
        pc[h] \in Adding \union Removing
            ~> (pc[h] \in Ended \/ (pc[h] = "switch" /\ job[h] \notin plugged))

\* restartrun.sh waits without limit (line 204), but only hangs when the flag is up
\* and no handler is left that could remove it.
RestartsEnd ==
    \A h \in Handlers :
        pc[h] = "rwait"
            ~> (pc[h] \in Ended
                \/ (usbwait /\ \A g \in Handlers :
                        pc[g] \in Ended \union {"rwait", "switch"}))

=============================================================================
