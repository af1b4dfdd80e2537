-------------------------- MODULE ModeswitchProofs --------------------------
(***************************************************************************)
(* Proofs about Modeswitch for any set of ports and processes and any      *)
(* number of slots.                                                        *)
(***************************************************************************)
EXTENDS Modeswitch, TLAPS

USE DEF slot, shared, local, world, aux

\* The names of control points are distinct from one another and known to PCs.
LEMMA PCsKnown ==
    /\ Critical \subseteq PCs /\ Adding \subseteq PCs /\ Removing \subseteq PCs
    /\ {"idle", "done", "dead", "off", "spin", "connect", "dial", "rwait"} \subseteq PCs
BY DEF PCs, Adding, Removing, Critical, Ended

\* A jump changes one process and stays among the control points.
LEMMA GotoType ==
    ASSUME NEW h \in Handlers, NEW from, NEW to \in PCs, TypeOK, Goto(h, from, to)
    PROVE  pc' \in [Handlers -> PCs]
BY DEF TypeOK, Goto

\* Deleting slots keeps their types.
LEMMA DeleteType ==
    ASSUME TypeOK, NEW S, DeleteSlots(S)
    PROVE  /\ used' \subseteq Slots /\ active' \subseteq Slots /\ connected' \subseteq Slots
           /\ device' \in [Slots -> Devices \union {None}]
           /\ by' \in [Slots -> Handlers \union {None}]
BY DEF TypeOK, DeleteSlots

\* The first event of a queue, and the rest of it.
LEMMA HeadTail ==
    ASSUME NEW E, NEW q \in Seq(E), q # <<>>
    PROVE  Head(q) \in E /\ Tail(q) \in Seq(E)
OBVIOUS

\* A queue with one event more.
LEMMA AppendType ==
    ASSUME NEW E, NEW q \in Seq(E), NEW e \in E
    PROVE  Append(q, e) \in Seq(E)
OBVIOUS

\* Every step keeps the types.
LEMMA TypeStep ==
    ASSUME TypeOK, CurIsSlot, [Next]_vars
    PROVE  TypeOK'
<1>1. CASE UNCHANGED vars
    BY <1>1 DEF vars, TypeOK
<1>2. CASE InitModems
    BY <1>2, DeleteType DEF TypeOK, InitModems
<1>3. CASE BootEnd
    BY <1>3 DEF TypeOK, BootEnd
<1>4. CASE Reboot
    <2>1. boots' \in 0..MaxBoots
        BY <1>4, CountAssumption DEF TypeOK, Reboot
    <2>2. pc' \in [Handlers -> PCs]
        BY <1>4, PCsKnown DEF TypeOK, Reboot
    <2>3. events' \in Seq({"add", "remove"} \X Devices)
        BY <1>4 DEF Reboot
    <2>4. /\ job' \in [Handlers -> Devices \union {None}]
          /\ cur' \in [Handlers -> 1..(MODCNT + 1)]
          /\ delay' \in [Handlers -> Nat]
          /\ retval' \in [Handlers -> Kinds \union {None}]
        BY <1>4, CountAssumption DEF Reboot
    <2>5. QED
        BY <1>4, <2>1, <2>2, <2>3, <2>4 DEF TypeOK, Reboot
<1>5. ASSUME NEW d \in Devices, Plug(d) \/ Unplug(d)
      PROVE  TypeOK'
    <2>1. events' \in Seq({"add", "remove"} \X Devices)
        <3>1. PICK e \in {"add", "remove"} \X Devices : events' = Append(events, e)
            BY <1>5 DEF Plug, Unplug, Event
        <3>2. QED
            BY <3>1, AppendType DEF TypeOK
    <2>2. QED
        BY <1>5, <2>1 DEF TypeOK, Plug, Unplug, Event
<1>6. ASSUME NEW h \in Handlers, Spawn(h)
      PROVE  TypeOK'
    <2>1. Head(events) \in {"add", "remove"} \X Devices
          /\ events' \in Seq({"add", "remove"} \X Devices)
        BY <1>6, HeadTail DEF TypeOK, Spawn
    <2>2. job' \in [Handlers -> Devices \union {None}] /\ job'[h] \in Devices
        BY <1>6, <2>1 DEF TypeOK, Spawn
    <2>3. pc' \in [Handlers -> PCs]
        BY <1>6 DEF TypeOK, Spawn, PCs, Adding, Removing
    <2>4. raced' \subseteq Devices
        BY <1>6, <2>2 DEF TypeOK, Spawn
    <2>5. QED
        BY <1>6, <2>1, <2>2, <2>3, <2>4 DEF TypeOK, Spawn
<1>7. ASSUME NEW h \in Handlers,
             BootDelay(h) \/ TestUsbwait(h) \/ TakeUsbwait(h) \/ SwitchMode(h)
             \/ ConnectStart(h) \/ FinishRemove(h) \/ RestartEnd(h)
             \/ \E s \in Slots : RestartRun(h, s)
      PROVE  TypeOK'
    <2>1. pc' \in [Handlers -> PCs]
        BY <1>7 DEF TypeOK, Goto, BootDelay, TestUsbwait, TakeUsbwait, SwitchMode,
             ConnectStart, FinishRemove, RestartEnd, RestartRun, PCs, Adding, Critical, Ended
    <2>2. overlapped' \subseteq Handlers
        BY <1>7 DEF TypeOK, BootDelay, TestUsbwait, TakeUsbwait, SwitchMode,
             ConnectStart, FinishRemove, RestartEnd, RestartRun, InSection
    <2>3. QED
        BY <1>7, <2>1, <2>2 DEF TypeOK, BootDelay, TestUsbwait, TakeUsbwait, SwitchMode,
             ConnectStart, FinishRemove, RestartEnd, RestartRun
<1>8. ASSUME NEW h \in Handlers, WaitUsbwait(h)
      PROVE  TypeOK'
    <2>1. pc' \in [Handlers -> PCs]
        BY <1>8 DEF TypeOK, Goto, WaitUsbwait, PCs, Adding
    <2>2. delay' \in [Handlers -> Nat]
        BY <1>8 DEF TypeOK, WaitUsbwait
    <2>3. QED
        BY <1>8, <2>1, <2>2 DEF TypeOK, WaitUsbwait
<1>9. ASSUME NEW h \in Handlers, Probe0(h) \/ Probe1(h)
      PROVE  TypeOK'
    <2>1. pc' \in [Handlers -> PCs]
        BY <1>9 DEF TypeOK, Goto, Probe0, Probe1, Probe, PCs, Adding, Critical, Ended
    <2>2. proto' \in Kinds \union {None}
        BY <1>9, KindAssumption DEF TypeOK, Probe0, Probe1, Probe
    <2>3. QED
        BY <1>9, <2>1, <2>2 DEF TypeOK, Probe0, Probe1, Probe
<1>10. ASSUME NEW h \in Handlers, Source0(h) \/ Source1(h)
      PROVE  TypeOK'
    <2>1. pc' \in [Handlers -> PCs]
        BY <1>10 DEF TypeOK, Goto, Source0, Source1, Source, PCs, Adding, Critical, Ended
    <2>2. QED
        BY <1>10, <2>1 DEF TypeOK, Source0, Source1, Source
<1>11. ASSUME NEW h \in Handlers, Classify(h)
      PROVE  TypeOK'
    <2>1. pc' \in [Handlers -> PCs]
        BY <1>11 DEF TypeOK, Goto, Classify, PCs, Adding, Critical, Ended
    <2>2. idv' \in [Services -> Devices \union {None}]
        BY <1>11 DEF TypeOK, Classify
    <2>3. cur' \in [Handlers -> 1..(MODCNT + 1)]
        BY <1>11, CountAssumption DEF TypeOK, Classify
    <2>4. QED
        BY <1>11, <2>1, <2>2, <2>3 DEF TypeOK, Classify
<1>12. ASSUME NEW h \in Handlers, FindEmpty(h) \/ FindDevice(h) \/ CheckAllEmpty(h)
      PROVE  TypeOK'
    <2>1. pc' \in [Handlers -> PCs]
        BY <1>12 DEF TypeOK, Goto, FindEmpty, FindDevice, CheckAllEmpty,
                     PCs, Adding, Critical, Removing, Ended
    <2>2. cur' \in [Handlers -> 1..(MODCNT + 1)]
        BY <1>12, CountAssumption DEF TypeOK, FindEmpty, FindDevice, CheckAllEmpty
    <2>3. idv' \in [Services -> Devices \union {None}]
        BY <1>12 DEF TypeOK, FindEmpty, FindDevice, CheckAllEmpty
    <2>4. QED
        BY <1>12, <2>1, <2>2, <2>3 DEF TypeOK, FindEmpty, FindDevice, CheckAllEmpty
<1>13. ASSUME NEW h \in Handlers, Wipe(h)
      PROVE  TypeOK'
    <2>1. pc' \in [Handlers -> PCs]
        BY <1>13 DEF TypeOK, Goto, Wipe, PCs, Removing, Ended
    <2>2. cur' \in [Handlers -> 1..(MODCNT + 1)]
        <3>1. CASE cur' = cur
            BY <3>1 DEF TypeOK
        <3>2. CASE cur[h] <= MODCNT /\ cur' = [cur EXCEPT ![h] = @ + 1]
            BY <3>2, CountAssumption DEF TypeOK
        <3>3. QED
            BY <1>13, <3>1, <3>2 DEF Wipe
    <2>3. QED
        BY <1>13, <2>1, <2>2, DeleteType DEF TypeOK, Wipe
<1>14. ASSUME NEW h \in Handlers, Register(h)
      PROVE  TypeOK'
    <2>1. pc' \in [Handlers -> PCs]
        BY <1>14 DEF TypeOK, Goto, Register, PCs, Adding, Critical, Ended
    <2>2. cur[h] \in Slots
        BY <1>14 DEF CurIsSlot, OnSlot, Register, Goto
    <2>3. QED
        BY <1>14, <2>1, <2>2 DEF TypeOK, Register
<1>15. ASSUME NEW h \in Handlers, Activate(h) \/ ConnectEnd(h) \/ ClearSlot(h)
      PROVE  TypeOK'
    <2>1. pc' \in [Handlers -> PCs]
        BY <1>15 DEF TypeOK, Goto, Activate, ConnectEnd, ClearSlot, PCs, Removing, Ended
    <2>2. cur[h] \in Slots
        BY <1>15 DEF CurIsSlot, OnSlot, Activate, ConnectEnd, ClearSlot, Goto
    <2>3. QED
        BY <1>15, <2>1, <2>2 DEF TypeOK, Activate, ConnectEnd, ClearSlot
<1>16. ASSUME NEW h \in Handlers, KillConnect(h)
      PROVE  TypeOK'
    <2>1. pc' \in [Handlers -> PCs]
        BY <1>16 DEF TypeOK, KillConnect, Connecting, PCs, Removing, Ended
    <2>2. cur' \in [Handlers -> 1..(MODCNT + 1)]
        BY <1>16, CountAssumption DEF TypeOK, KillConnect
    <2>3. QED
        BY <1>16, <2>1, <2>2 DEF TypeOK, KillConnect
<1>17. QED
    BY <1>1, <1>2, <1>3, <1>4, <1>5, <1>6, <1>7, <1>8, <1>9, <1>10, <1>11, <1>12, <1>13,
       <1>14, <1>15, <1>16 DEF Next, Step, AddStep, RemoveStep

\* A handler's number of a slot comes from find_empty or find_device and is kept.
LEMMA CurStep ==
    ASSUME TypeOK, CurIsSlot, [Next]_vars
    PROVE  CurIsSlot'
<1> USE DEF CurIsSlot
<1>1. CASE UNCHANGED vars
    BY <1>1 DEF vars
<1>2. CASE InitModems \/ BootEnd \/ \E d \in Devices : Plug(d) \/ Unplug(d)
    BY <1>2 DEF InitModems, BootEnd, Plug, Unplug, Event
<1>3. CASE Reboot
    BY <1>3 DEF Reboot, OnSlot
<1>4. ASSUME NEW h \in Handlers, FindEmpty(h) \/ FindDevice(h)
      PROVE  CurIsSlot'
    <2>1. cur[h] \in 1..(MODCNT + 1)
        BY DEF TypeOK
    <2>2. pc'[h] \in OnSlot => cur'[h] \in Slots
        BY <1>4, <2>1, CountAssumption
        DEF TypeOK, FindEmpty, FindDevice, Goto, OnSlot, Slots
    <2>3. \A g \in Handlers \ {h} : pc'[g] = pc[g] /\ cur'[g] = cur[g]
        BY <1>4 DEF TypeOK, FindEmpty, FindDevice, Goto
    <2>4. QED
        BY <2>2, <2>3
<1>5. ASSUME NEW h \in Handlers, Classify(h) \/ CheckAllEmpty(h) \/ Wipe(h) \/ KillConnect(h)
      PROVE  CurIsSlot'
    <2>1. pc'[h] \notin OnSlot
        BY <1>5 DEF TypeOK, Classify, CheckAllEmpty, Wipe, KillConnect, Connecting, Goto, OnSlot
    <2>2. \A g \in Handlers \ {h} : cur'[g] = cur[g] /\ (pc'[g] = pc[g] \/ pc'[g] \notin OnSlot)
        BY <1>5 DEF TypeOK, Classify, CheckAllEmpty, Wipe, KillConnect, Connecting, Goto, OnSlot
    <2>3. QED
        BY <2>1, <2>2
<1>6. ASSUME NEW h \in Handlers,
             Spawn(h) \/ BootDelay(h) \/ TestUsbwait(h) \/ WaitUsbwait(h) \/ TakeUsbwait(h)
             \/ Probe0(h) \/ Source0(h) \/ FinishRemove(h) \/ RestartEnd(h)
             \/ \E s \in Slots : RestartRun(h, s)
      PROVE  CurIsSlot'
    BY <1>6 DEF TypeOK, Spawn, BootDelay, TestUsbwait, WaitUsbwait, TakeUsbwait, Probe0, Probe,
         Source0, Source, FinishRemove, RestartEnd, RestartRun, Goto, OnSlot
<1>7. ASSUME NEW h \in Handlers,
             SwitchMode(h) \/ Probe1(h) \/ Source1(h) \/ Register(h) \/ Activate(h)
             \/ ConnectStart(h) \/ ConnectEnd(h) \/ ClearSlot(h)
      PROVE  CurIsSlot'
    <2>1. pc[h] \in OnSlot /\ cur' = cur
        BY <1>7 DEF SwitchMode, Probe1, Probe, Source1, Source, Register, Activate,
             ConnectStart, ConnectEnd, ClearSlot, Goto, OnSlot
    <2>2. \A g \in Handlers \ {h} : pc'[g] = pc[g]
        BY <1>7 DEF TypeOK, SwitchMode, Probe1, Probe, Source1, Source, Register, Activate,
             ConnectStart, ConnectEnd, ClearSlot, Goto
    <2>3. QED
        BY <2>1, <2>2
<1>8. QED
    BY <1>1, <1>2, <1>3, <1>4, <1>5, <1>6, <1>7 DEF Next, Step, AddStep, RemoveStep

\* The tables and flags of the hotplug scripts keep their types, and no handler
\* works on a slot that does not exist.
THEOREM TypeCorrect == Spec => [](TypeOK /\ CurIsSlot)
<1>1. Init => TypeOK /\ CurIsSlot
    <2>1. Init => TypeOK
        <3>1. 1 \in 1..(MODCNT + 1) /\ 0 \in 0..MaxBoots /\ 1 \in Nat
            BY CountAssumption
        <3>2. <<>> \in Seq({"add", "remove"} \X Devices) /\ "idle" \in PCs
            BY PCsKnown
        <3>3. QED
            BY <3>1, <3>2 DEF Init, TypeOK
    <2>2. Init => CurIsSlot
        BY DEF Init, CurIsSlot, OnSlot
    <2>3. QED
        BY <2>1, <2>2
<1>2. TypeOK /\ CurIsSlot /\ [Next]_vars => (TypeOK /\ CurIsSlot)'
    BY TypeStep, CurStep
<1>3. QED
    BY <1>1, <1>2, PTL DEF Spec

-----------------------------------------------------------------------------
(* The section that /tmp/usbwait guards.                                   *)

\* Two handlers in the section at once are both known to have overlapped.
Alone ==
    \A h, g \in Handlers :
        h # g /\ pc[h] \in Critical /\ pc[g] \in Critical => h \in overlapped

\* The section is entered by TakeUsbwait only.
LEMMA SectionEntry ==
    ASSUME TypeOK, [Next]_vars, ~ \E h \in Handlers : TakeUsbwait(h)
    PROVE  /\ \A x \in Handlers : pc'[x] \in Critical => pc[x] \in Critical
           /\ overlapped' = overlapped
<1>1. CASE UNCHANGED vars
    BY <1>1 DEF vars
<1>2. CASE InitModems \/ BootEnd \/ \E d \in Devices : Plug(d) \/ Unplug(d)
    BY <1>2 DEF InitModems, BootEnd, Plug, Unplug, Event
<1>3. CASE Reboot
    BY <1>3 DEF Reboot, Critical
<1>4. ASSUME NEW h \in Handlers,
             Spawn(h) \/ BootDelay(h) \/ TestUsbwait(h) \/ WaitUsbwait(h)
             \/ ConnectStart(h) \/ ConnectEnd(h) \/ RestartEnd(h)
             \/ \E s \in Slots : RestartRun(h, s)
      PROVE  /\ \A x \in Handlers : pc'[x] \in Critical => pc[x] \in Critical
             /\ overlapped' = overlapped
    BY <1>4 DEF TypeOK, Spawn, BootDelay, TestUsbwait, WaitUsbwait, ConnectStart, ConnectEnd,
         RestartEnd, RestartRun, Goto, Critical
<1>5. ASSUME NEW h \in Handlers,
             Probe0(h) \/ Source0(h) \/ Classify(h) \/ FindEmpty(h) \/ SwitchMode(h)
             \/ Probe1(h) \/ Source1(h) \/ Register(h) \/ Activate(h)
      PROVE  /\ \A x \in Handlers : pc'[x] \in Critical => pc[x] \in Critical
             /\ overlapped' = overlapped
    BY <1>5 DEF TypeOK, Probe0, Probe1, Probe, Source0, Source1, Source, Classify, FindEmpty,
         SwitchMode, Register, Activate, Goto, Critical
<1>6. ASSUME NEW h \in Handlers, RemoveStep(h)
      PROVE  /\ \A x \in Handlers : pc'[x] \in Critical => pc[x] \in Critical
             /\ overlapped' = overlapped
    BY <1>6 DEF TypeOK, RemoveStep, FindDevice, ClearSlot, KillConnect, Connecting,
         CheckAllEmpty, Wipe, FinishRemove, Goto, Critical
<1>7. QED
    BY <1>1, <1>2, <1>3, <1>4, <1>5, <1>6 DEF Next, Step, AddStep

\* Alone is inductive: whoever enters sees who is in.
LEMMA AloneStep ==
    ASSUME TypeOK, Alone, [Next]_vars
    PROVE  Alone'
<1>1. CASE ~ \E h \in Handlers : TakeUsbwait(h)
    BY <1>1, SectionEntry DEF Alone
<1>2. ASSUME NEW h \in Handlers, TakeUsbwait(h)
      PROVE  Alone'
    <2>1. \A x \in Handlers \ {h} : pc'[x] = pc[x]
        BY <1>2 DEF TypeOK, TakeUsbwait, Goto
    <2>2. \A x \in Handlers \ {h} : pc[x] \in Critical => x \in overlapped' /\ h \in overlapped'
        BY <1>2 DEF TakeUsbwait, InSection
    <2>3. overlapped \subseteq overlapped'
        BY <1>2 DEF TakeUsbwait
    <2>4. QED
        BY <2>1, <2>2, <2>3 DEF Alone
<1>3. QED
    BY <1>1, <1>2

Claimed == {"switch", "proto1", "source1", "register"}

\* A claimed slot stays empty: only Register fills slots, and a handler that
\* registers while another has claimed shares the section with it.
LEMMA FreshStep ==
    ASSUME TypeOK, Alone, FreshSlot, [Next]_vars
    PROVE  FreshSlot'
<1> DEFINE Keeps(h) == pc'[h] \in Claimed /\ h \notin overlapped'
                          => pc[h] \in Claimed /\ h \notin overlapped /\ cur'[h] = cur[h]
<1>1. (used' \subseteq used /\ \A h \in Handlers : Keeps(h)) => FreshSlot'
    BY DEF FreshSlot, Claimed
<1>2. CASE UNCHANGED vars
    BY <1>1, <1>2 DEF vars
<1>3. CASE InitModems \/ BootEnd \/ \E d \in Devices : Plug(d) \/ Unplug(d)
    BY <1>1, <1>3 DEF InitModems, DeleteSlots, BootEnd, Plug, Unplug, Event
<1>4. CASE Reboot
    BY <1>1, <1>4 DEF Reboot, Claimed
<1>5. ASSUME NEW h \in Handlers,
             Spawn(h) \/ BootDelay(h) \/ TestUsbwait(h) \/ WaitUsbwait(h) \/ TakeUsbwait(h)
             \/ ConnectStart(h) \/ ConnectEnd(h) \/ RestartEnd(h)
             \/ \E s \in Slots : RestartRun(h, s)
      PROVE  FreshSlot'
    BY <1>1, <1>5 DEF TypeOK, Spawn, BootDelay, TestUsbwait, WaitUsbwait, TakeUsbwait,
         ConnectStart, ConnectEnd, RestartEnd, RestartRun, Goto, Claimed
<1>6. ASSUME NEW h \in Handlers,
             Probe0(h) \/ Source0(h) \/ Classify(h) \/ SwitchMode(h)
             \/ Probe1(h) \/ Source1(h) \/ Activate(h)
      PROVE  FreshSlot'
    BY <1>1, <1>6 DEF TypeOK, Probe0, Probe1, Probe, Source0, Source1, Source, Classify,
         SwitchMode, Activate, Goto, Claimed
<1>7. ASSUME NEW h \in Handlers, FindEmpty(h)
      PROVE  FreshSlot'
    <2>1. used' = used /\ overlapped' = overlapped
        BY <1>7 DEF FindEmpty
    <2>2. \A g \in Handlers \ {h} : pc'[g] = pc[g] /\ cur'[g] = cur[g]
        BY <1>7 DEF TypeOK, FindEmpty, Goto
    <2>3. pc'[h] \in Claimed => cur'[h] \notin used'
        BY <1>7 DEF TypeOK, FindEmpty, Goto, Claimed
    <2>4. QED
        BY <2>1, <2>2, <2>3 DEF FreshSlot, Claimed
<1>8. ASSUME NEW h \in Handlers, Register(h)
      PROVE  FreshSlot'
    <2>1. pc[h] \in Critical /\ pc'[h] \notin Claimed
        BY <1>8 DEF TypeOK, Register, Goto, Critical, Claimed
    <2>2. \A g \in Handlers \ {h} : pc'[g] = pc[g] /\ (pc[g] \in Claimed => g \in overlapped')
        BY <1>8, <2>1 DEF TypeOK, Register, Goto, Alone, Critical, Claimed
    <2>3. QED
        BY <2>1, <2>2 DEF FreshSlot, Claimed
<1>9. ASSUME NEW h \in Handlers, RemoveStep(h)
      PROVE  FreshSlot'
    <2>1. used' \subseteq used
        BY <1>9 DEF RemoveStep, FindDevice, ClearSlot, KillConnect, CheckAllEmpty, Wipe,
             DeleteSlots, FinishRemove
    <2>2. ASSUME NEW g \in Handlers
          PROVE  Keeps(g)
        BY <1>9 DEF TypeOK, RemoveStep, FindDevice, ClearSlot, KillConnect, Connecting,
             CheckAllEmpty, Wipe, FinishRemove, Goto, Claimed
    <2>3. QED
        BY <1>1, <2>1, <2>2
<1>10. QED
    BY <1>2, <1>3, <1>4, <1>5, <1>6, <1>7, <1>8, <1>9 DEF Next, Step, AddStep

\* No handler that was alone in the section overwrites a registered modem.
THEOREM FreshSlotHolds == Spec => []FreshSlot
<1>1. Init => Alone /\ FreshSlot
    BY DEF Init, Alone, FreshSlot, Critical
<1>2. TypeOK /\ Alone /\ FreshSlot /\ [Next]_vars => Alone' /\ FreshSlot'
    BY AloneStep, FreshStep
<1>3. QED
    BY <1>1, <1>2, TypeCorrect, PTL DEF Spec

-----------------------------------------------------------------------------
(* What a handler reads from /tmp/proto.                                   *)

\* A handler that has passed the list of ignored devices has a device, and not
\* an ignored one.
Wanted ==
    \A h \in Handlers :
        /\ pc[h] \in Adding => job[h] \in Devices
        /\ pc[h] \in Adding \ {"bootdelay"} => Kind[job[h]] # "ignored"

\* A handler alone in the section finds its own driver in /tmp/proto, and works
\* on after the first probe only for a modem or an unknown device.
OwnDriver ==
    \A h \in Handlers : h \notin overlapped =>
        /\ pc[h] \in {"source0", "source1"} => proto = Kind[job[h]]
        /\ pc[h] \in {"classify", "register"} => retval[h] = Kind[job[h]]
        /\ pc[h] \in {"find"} \union Claimed => Kind[job[h]] \notin Services \union {"storage"}

\* Wanted is inductive: a process gets its device when it is started.
LEMMA WantedStep ==
    ASSUME TypeOK, Wanted, [Next]_vars
    PROVE  Wanted'
<1> DEFINE Keeps(x) == pc'[x] \in Adding =>
              /\ pc[x] \in Adding /\ job'[x] = job[x]
              /\ pc'[x] = "bootdelay" \/ pc[x] # "bootdelay"
<1>1. (\A x \in Handlers : Keeps(x)) => Wanted'
    BY DEF Wanted
<1>2. CASE UNCHANGED vars
    BY <1>1, <1>2 DEF vars
<1>3. CASE InitModems \/ BootEnd \/ \E d \in Devices : Plug(d) \/ Unplug(d)
    BY <1>1, <1>3 DEF InitModems, BootEnd, Plug, Unplug, Event
<1>4. CASE Reboot
    BY <1>1, <1>4 DEF Reboot, Adding, Critical
<1>5. ASSUME NEW h \in Handlers, Spawn(h)
      PROVE  Wanted'
    <2>1. Head(events) \in {"add", "remove"} \X Devices
        BY <1>5, HeadTail DEF TypeOK, Spawn
    <2>2. pc'[h] \in {"bootdelay", "rfind"} /\ job'[h] \in Devices
        BY <1>5, <2>1 DEF TypeOK, Spawn
    <2>3. \A x \in Handlers \ {h} : pc'[x] = pc[x] /\ job'[x] = job[x]
        BY <1>5 DEF TypeOK, Spawn
    <2>4. QED
        BY <2>2, <2>3 DEF Wanted, Adding, Critical
<1>6. ASSUME NEW h \in Handlers, BootDelay(h)
      PROVE  Wanted'
    <2>1. \A x \in Handlers \ {h} : pc'[x] = pc[x] /\ job'[x] = job[x]
        BY <1>6 DEF TypeOK, BootDelay, Goto
    <2>2. pc'[h] \in Adding => Kind[job[h]] # "ignored"
        BY <1>6 DEF TypeOK, BootDelay, Goto, Adding, Critical
    <2>3. job' = job /\ pc[h] \in Adding
        BY <1>6 DEF BootDelay, Goto, Adding
    <2>4. QED
        BY <2>1, <2>2, <2>3 DEF Wanted
<1>7. ASSUME NEW h \in Handlers,
             TestUsbwait(h) \/ WaitUsbwait(h) \/ TakeUsbwait(h)
             \/ Probe0(h) \/ Source0(h) \/ Classify(h) \/ FindEmpty(h) \/ SwitchMode(h)
             \/ Probe1(h) \/ Source1(h) \/ Register(h) \/ Activate(h)
             \/ ConnectStart(h) \/ ConnectEnd(h) \/ RestartEnd(h)
             \/ \E s \in Slots : RestartRun(h, s)
      PROVE  Wanted'
    <2>1. job' = job
        BY <1>7 DEF TestUsbwait, WaitUsbwait, TakeUsbwait, Probe0, Probe1, Probe, Source0,
             Source1, Source, Classify, FindEmpty, SwitchMode, Register, Activate,
             ConnectStart, ConnectEnd, RestartEnd, RestartRun
    <2>2. \A x \in Handlers \ {h} : pc'[x] = pc[x]
        BY <1>7 DEF TypeOK, TestUsbwait, WaitUsbwait, TakeUsbwait, Probe0, Probe1, Probe,
             Source0, Source1, Source, Classify, FindEmpty, SwitchMode, Register, Activate,
             ConnectStart, ConnectEnd, RestartEnd, RestartRun, Goto
    <2>3. pc'[h] \in Adding => pc[h] \in Adding \ {"bootdelay"}
        BY <1>7 DEF TypeOK, TestUsbwait, WaitUsbwait, TakeUsbwait, Probe0, Probe1, Probe,
             Source0, Source1, Source, Classify, FindEmpty, SwitchMode, Register, Activate,
             ConnectStart, ConnectEnd, RestartEnd, RestartRun, Goto, Adding, Critical
    <2>4. QED
        BY <1>1, <2>1, <2>2, <2>3
<1>8. ASSUME NEW h \in Handlers, RemoveStep(h)
      PROVE  Wanted'
    <2>1. \A x \in Handlers : Keeps(x)
        BY <1>8 DEF TypeOK, RemoveStep, FindDevice, ClearSlot, KillConnect, Connecting,
             CheckAllEmpty, Wipe, FinishRemove, Goto, Adding, Critical
    <2>2. QED
        BY <1>1, <2>1
<1>9. QED
    BY <1>2, <1>3, <1>4, <1>5, <1>6, <1>7, <1>8 DEF Next, Step, AddStep

\* OwnDriver is inductive: /tmp/proto is written and removed only in the section.
LEMMA DriverStep ==
    ASSUME TypeOK, Alone, Wanted, OwnDriver, [Next]_vars
    PROVE  OwnDriver'
<1> DEFINE Reads == {"source0", "source1", "classify", "register", "find"} \union Claimed
           Same(x) == pc'[x] \in Reads /\ x \notin overlapped' =>
                /\ pc'[x] = pc[x] /\ x \notin overlapped
                /\ job'[x] = job[x] /\ retval'[x] = retval[x]
                /\ pc[x] \in {"source0", "source1"} => proto' = proto
<1>1. (\A x \in Handlers : Same(x)) => OwnDriver'
    BY DEF OwnDriver, Claimed
<1>2. CASE UNCHANGED vars
    BY <1>1, <1>2 DEF vars
<1>3. CASE InitModems \/ BootEnd \/ \E d \in Devices : Plug(d) \/ Unplug(d)
    BY <1>1, <1>3 DEF InitModems, BootEnd, Plug, Unplug, Event
<1>4. CASE Reboot
    BY <1>1, <1>4 DEF Reboot, Claimed
<1>5. ASSUME NEW h \in Handlers,
             Spawn(h) \/ BootDelay(h) \/ TestUsbwait(h) \/ WaitUsbwait(h) \/ TakeUsbwait(h)
             \/ Activate(h) \/ ConnectStart(h) \/ ConnectEnd(h) \/ RestartEnd(h)
             \/ \E s \in Slots : RestartRun(h, s)
      PROVE  OwnDriver'
    <2>1. \A x \in Handlers : Same(x)
        BY <1>5 DEF TypeOK, Spawn, BootDelay, TestUsbwait, WaitUsbwait, TakeUsbwait, Activate,
             ConnectStart, ConnectEnd, RestartEnd, RestartRun, Goto, Claimed
    <2>2. QED
        BY <1>1, <2>1
<1>6. ASSUME NEW h \in Handlers, RemoveStep(h)
      PROVE  OwnDriver'
    <2>1. \A x \in Handlers : Same(x)
        BY <1>6 DEF TypeOK, RemoveStep, FindDevice, ClearSlot, KillConnect, Connecting,
             CheckAllEmpty, Wipe, FinishRemove, Goto, Claimed
    <2>2. QED
        BY <1>1, <2>1
<1>7. ASSUME NEW h \in Handlers,
             Probe0(h) \/ Source0(h) \/ Classify(h) \/ FindEmpty(h) \/ SwitchMode(h)
             \/ Probe1(h) \/ Source1(h) \/ Register(h)
      PROVE  OwnDriver'
    <2>1. pc[h] \in Critical /\ job' = job /\ overlapped' = overlapped
        BY <1>7 DEF Probe0, Probe1, Probe, Source0, Source1, Source, Classify, FindEmpty,
             SwitchMode, Register, Goto, Critical
    <2>2. \A x \in Handlers \ {h} : pc'[x] = pc[x] /\ retval'[x] = retval[x]
        BY <1>7 DEF TypeOK, Probe0, Probe1, Probe, Source0, Source1, Source, Classify,
             FindEmpty, SwitchMode, Register, Goto
    <2>3. \A x \in Handlers \ {h} : pc[x] \in Critical => x \in overlapped
        BY <2>1 DEF Alone
    <2>4. Reads \subseteq Critical
        BY DEF Claimed, Critical
    <2>5. ASSUME h \notin overlapped
          PROVE  /\ pc'[h] \in {"source0", "source1"} => proto' = Kind[job[h]]
                 /\ pc'[h] \in {"classify", "register"} => retval'[h] = Kind[job[h]]
                 /\ pc'[h] \in {"find"} \union Claimed
                        => Kind[job[h]] \notin Services \union {"storage"}
        <3>1. CASE Probe0(h) \/ Probe1(h)
            BY <2>5, <3>1 DEF TypeOK, OwnDriver, Probe0, Probe1, Probe, Goto, Claimed
        <3>2. CASE Source0(h) \/ Source1(h)
            BY <2>5, <3>2 DEF TypeOK, OwnDriver, Source0, Source1, Source, Goto, Claimed
        <3>3. CASE Classify(h)
            BY <2>5, <3>3 DEF TypeOK, OwnDriver, Classify, Goto, Claimed
        <3>4. CASE FindEmpty(h) \/ SwitchMode(h) \/ Register(h)
            BY <2>5, <3>4 DEF TypeOK, OwnDriver, FindEmpty, SwitchMode, Register, Goto, Claimed
        <3>5. QED
            BY <1>7, <3>1, <3>2, <3>3, <3>4
    <2>6. QED
        BY <2>1, <2>2, <2>3, <2>4, <2>5 DEF OwnDriver, Claimed
<1>8. QED
    BY <1>2, <1>3, <1>4, <1>5, <1>6, <1>7 DEF Next, Step, AddStep

\* A slot is filled by Register only, which is where OwnDriver tells the kind.
LEMMA OnlyModemsStep ==
    ASSUME TypeOK, CurIsSlot, Wanted, OwnDriver, OnlyModems, [Next]_vars
    PROVE  OnlyModems'
<1> DEFINE Kept == /\ used' \subseteq used
                   /\ \A s \in used' : device'[s] = device[s] /\ by'[s] = by[s]
<1>1. overlapped \subseteq overlapped'
    <2>1. CASE ~ \E h \in Handlers : TakeUsbwait(h)
        BY <2>1, SectionEntry
    <2>2. CASE \E h \in Handlers : TakeUsbwait(h)
        BY <2>2 DEF TakeUsbwait
    <2>3. QED
        BY <2>1, <2>2
<1>2. Kept => OnlyModems'
    BY <1>1 DEF OnlyModems
<1>3. CASE UNCHANGED vars
    BY <1>2, <1>3 DEF vars
<1>4. CASE InitModems \/ BootEnd \/ Reboot \/ \E d \in Devices : Plug(d) \/ Unplug(d)
    <2>1. Kept
        BY <1>4 DEF TypeOK, InitModems, DeleteSlots, BootEnd, Reboot, Plug, Unplug, Event
    <2>2. QED
        BY <1>2, <2>1
<1>5. ASSUME NEW h \in Handlers,
             Spawn(h) \/ BootDelay(h) \/ TestUsbwait(h) \/ WaitUsbwait(h) \/ TakeUsbwait(h)
             \/ Probe0(h) \/ Source0(h) \/ Classify(h) \/ FindEmpty(h) \/ SwitchMode(h)
             \/ Probe1(h) \/ Source1(h) \/ Activate(h) \/ ConnectStart(h) \/ ConnectEnd(h)
             \/ RestartEnd(h) \/ \E s \in Slots : RestartRun(h, s)
      PROVE  OnlyModems'
    <2>1. used' = used /\ device' = device /\ by' = by
        BY <1>5 DEF Spawn, BootDelay, TestUsbwait, WaitUsbwait, TakeUsbwait, Probe0, Probe1,
             Probe, Source0, Source1, Source, Classify, FindEmpty, SwitchMode, Activate,
             ConnectStart, ConnectEnd, RestartEnd, RestartRun
    <2>2. QED
        BY <1>2, <2>1
<1>6. ASSUME NEW h \in Handlers, RemoveStep(h)
      PROVE  OnlyModems'
    <2>1. Kept
        BY <1>6 DEF TypeOK, RemoveStep, FindDevice, ClearSlot, KillConnect, CheckAllEmpty,
             Wipe, DeleteSlots, FinishRemove
    <2>2. QED
        BY <1>2, <2>1
<1>7. ASSUME NEW h \in Handlers, Register(h)
      PROVE  OnlyModems'
    <2>1. CASE used' = used /\ device' = device /\ by' = by
        BY <1>2, <2>1
    <2>2. CASE retval[h] # "other" /\ used' = used \union {cur[h]}
               /\ device' = [device EXCEPT ![cur[h]] = job[h]]
               /\ by' = [by EXCEPT ![cur[h]] = h]
        <3>1. pc[h] = "register"
            BY <1>7 DEF Register, Goto
        <3>2. job[h] \in Devices /\ Kind[job[h]] # "ignored"
            BY <3>1 DEF Wanted, Adding, Critical
        <3>3. h \notin overlapped => Kind[job[h]] = "modem"
            BY <2>2, <3>1, <3>2, KindAssumption DEF OwnDriver, Kinds, Services, Claimed
        <3>4. cur[h] \in Slots
            BY <3>1 DEF CurIsSlot, OnSlot
        <3>5. \A s \in used' \ {cur[h]} : s \in used /\ device'[s] = device[s] /\ by'[s] = by[s]
            BY <2>2 DEF TypeOK
        <3>6. device'[cur[h]] = job[h] /\ by'[cur[h]] = h
            BY <2>2, <3>4 DEF TypeOK
        <3>7. QED
            BY <1>1, <3>3, <3>5, <3>6 DEF OnlyModems
    <2>3. QED
        BY <1>7, <2>1, <2>2 DEF Register
<1>8. QED
    BY <1>3, <1>4, <1>5, <1>6, <1>7 DEF Next, Step, AddStep

\* No handler that was alone in the section gives a slot to something that is not
\* a modem.
THEOREM OnlyModemsHolds == Spec => []OnlyModems
<1>1. Init => Alone /\ Wanted /\ OwnDriver /\ OnlyModems
    BY DEF Init, Alone, Wanted, OwnDriver, OnlyModems, Claimed, Adding, Critical
<1>2. TypeOK /\ CurIsSlot /\ Alone /\ Wanted /\ OwnDriver /\ OnlyModems /\ [Next]_vars
          => Alone' /\ Wanted' /\ OwnDriver' /\ OnlyModems'
    BY AloneStep, WantedStep, DriverStep, OnlyModemsStep
<1>3. QED
    BY <1>1, <1>2, TypeCorrect, PTL DEF Spec

-----------------------------------------------------------------------------
(* The boot script and the slots.                                          *)

\* Handlers past bootdelay exist only after bootend.file, a filled slot names the
\* process that filled it, and what an idle process will count from.
Started ==
    /\ boot # "done" => \A h \in Handlers : pc[h] \notin Adding \ {"bootdelay"}
    /\ \A s \in used : by[s] \in Handlers /\ pc[by[s]] # "idle" /\ device[s] \in Devices
    /\ \A h \in Handlers : pc[h] = "idle" => cur[h] = 1

\* Started is inductive: processes are started once, pass bootdelay only after
\* bootend.file, and only Register fills a slot.
LEMMA StartedStep ==
    ASSUME TypeOK, CurIsSlot, Wanted, Started, [Next]_vars
    PROVE  Started'
<1> DEFINE Late == Adding \ {"bootdelay"}
           Kept == /\ \A h \in Handlers : pc'[h] \in Late => pc[h] \in Late \/ boot = "done"
                   /\ boot' = boot \/ (boot' = "done" /\ boot = "reset")
                   /\ \A s \in used' : s \in used /\ by'[s] = by[s] /\ device'[s] = device[s]
                   /\ \A h \in Handlers : pc'[h] = "idle" => pc[h] = "idle" /\ cur'[h] = cur[h]
<1>1. Kept => Started'
    BY DEF Started
<1>2. CASE UNCHANGED vars
    BY <1>1, <1>2 DEF vars
<1>3. CASE InitModems
    <2>1. used' = {} /\ pc' = pc /\ cur' = cur /\ boot = "start"
        BY <1>3 DEF InitModems, DeleteSlots, TypeOK
    <2>2. QED
        BY <2>1 DEF Started
<1>4. CASE BootEnd \/ \E d \in Devices : Plug(d) \/ Unplug(d)
    BY <1>1, <1>4 DEF BootEnd, Plug, Unplug, Event
<1>5. CASE Reboot
    <2>1. \A h \in Handlers : pc'[h] \in {"idle", "off"} /\ cur'[h] = 1 /\ (pc'[h] = "idle" <=> pc[h] = "idle")
        BY <1>5 DEF Reboot
    <2>2. used' = used /\ by' = by /\ device' = device
        BY <1>5 DEF Reboot
    <2>3. QED
        BY <2>1, <2>2 DEF Started, Adding, Critical
<1>6. ASSUME NEW h \in Handlers,
             Spawn(h) \/ BootDelay(h) \/ TestUsbwait(h) \/ WaitUsbwait(h) \/ TakeUsbwait(h)
             \/ RestartEnd(h) \/ \E s \in Slots : RestartRun(h, s)
      PROVE  Started'
    <2>1. UNCHANGED <<boot, used, by, device, cur>>
        BY <1>6 DEF Spawn, BootDelay, TestUsbwait, WaitUsbwait, TakeUsbwait, RestartEnd, RestartRun
    <2>2. \A x \in Handlers \ {h} : pc'[x] = pc[x]
        BY <1>6 DEF TypeOK, Spawn, BootDelay, TestUsbwait, WaitUsbwait, TakeUsbwait, RestartEnd,
             RestartRun, Goto
    <2>3. pc'[h] # "idle" /\ (pc'[h] \in Late => pc[h] \in Late \/ boot = "done")
        BY <1>6 DEF TypeOK, Spawn, BootDelay, TestUsbwait, WaitUsbwait, TakeUsbwait, RestartEnd,
             RestartRun, Goto, Adding, Critical
    <2>4. QED
        BY <1>1, <2>1, <2>2, <2>3
<1>7. ASSUME NEW h \in Handlers,
             Probe0(h) \/ Source0(h) \/ Classify(h) \/ FindEmpty(h) \/ SwitchMode(h)
             \/ Probe1(h) \/ Source1(h) \/ Activate(h) \/ ConnectStart(h) \/ ConnectEnd(h)
      PROVE  Started'
    <2>1. UNCHANGED <<boot, used, by, device>>
        BY <1>7 DEF Probe0, Probe1, Probe, Source0, Source1, Source, Classify, FindEmpty,
             SwitchMode, Activate, ConnectStart, ConnectEnd
    <2>2. \A x \in Handlers \ {h} : pc'[x] = pc[x] /\ cur'[x] = cur[x]
        BY <1>7 DEF TypeOK, Probe0, Probe1, Probe, Source0, Source1, Source, Classify, FindEmpty,
             SwitchMode, Activate, ConnectStart, ConnectEnd, Goto
    <2>3. pc'[h] # "idle" /\ (pc'[h] \in Late => pc[h] \in Late)
        BY <1>7 DEF TypeOK, Probe0, Probe1, Probe, Source0, Source1, Source, Classify, FindEmpty,
             SwitchMode, Activate, ConnectStart, ConnectEnd, Goto, Adding, Critical
    <2>4. QED
        BY <1>1, <2>1, <2>2, <2>3
<1>8. ASSUME NEW h \in Handlers, Register(h)
      PROVE  Started'
    <2>1. /\ pc[h] = "register" /\ pc'[h] \in {"done", "activate"} /\ UNCHANGED <<boot, cur>>
          /\ \A x \in Handlers \ {h} : pc'[x] = pc[x]
        BY <1>8 DEF TypeOK, Register, Goto
    <2>2. job[h] \in Devices /\ pc[h] \in Late /\ cur[h] \in Slots
        BY <2>1 DEF Wanted, Adding, Critical, CurIsSlot, OnSlot
    <2>3. \A s \in used' : \/ s \in used /\ by'[s] = by[s] /\ device'[s] = device[s]
                           \/ by'[s] = h /\ device'[s] = job[h]
        BY <1>8, <2>2 DEF Register, TypeOK
    <2>4. QED
        BY <2>1, <2>2, <2>3 DEF Started
<1>9. ASSUME NEW h \in Handlers, RemoveStep(h)
      PROVE  Started'
    <2>1. boot' = boot /\ \A s \in used' : s \in used /\ by'[s] = by[s] /\ device'[s] = device[s]
        BY <1>9 DEF TypeOK, RemoveStep, FindDevice, ClearSlot, KillConnect, CheckAllEmpty,
             Wipe, DeleteSlots, FinishRemove
    <2>2. \A x \in Handlers \ {h} : cur'[x] = cur[x] /\ (pc'[x] = pc[x] \/ pc'[x] = "dead")
        BY <1>9 DEF TypeOK, RemoveStep, FindDevice, ClearSlot, KillConnect, Connecting,
             CheckAllEmpty, Wipe, FinishRemove, Goto
    <2>3. pc'[h] # "idle" /\ pc'[h] \notin Late
        BY <1>9 DEF TypeOK, RemoveStep, FindDevice, ClearSlot, KillConnect, Connecting,
             CheckAllEmpty, Wipe, FinishRemove, Goto, Adding, Critical
    <2>4. "dead" \notin Late
        BY DEF Adding, Critical
    <2>5. QED
        BY <1>1, <2>1, <2>2, <2>3, <2>4
<1>10. QED
    BY <1>2, <1>3, <1>4, <1>5, <1>6, <1>7, <1>8, <1>9 DEF Next, Step, AddStep

\* No process that a reboot has ended goes on.
LEMMA OffStays ==
    ASSUME TypeOK, [Next]_vars, ~Reboot
    PROVE  \A x \in Handlers : pc[x] = "off" => pc'[x] = "off"
<1>1. CASE UNCHANGED vars \/ InitModems \/ BootEnd \/ \E d \in Devices : Plug(d) \/ Unplug(d)
    BY <1>1 DEF vars, InitModems, BootEnd, Plug, Unplug, Event
<1>2. ASSUME NEW h \in Handlers, Spawn(h) \/ RestartEnd(h) \/ \E s \in Slots : RestartRun(h, s)
      PROVE  \A x \in Handlers : pc[x] = "off" => pc'[x] = "off"
    BY <1>2 DEF TypeOK, Spawn, NextPid, RestartEnd, RestartRun, Goto
<1>3. ASSUME NEW h \in Handlers, AddStep(h)
      PROVE  \A x \in Handlers : pc[x] = "off" => pc'[x] = "off"
    BY <1>3 DEF TypeOK, AddStep, BootDelay, TestUsbwait, WaitUsbwait, TakeUsbwait, Probe0, Probe1,
         Probe, Source0, Source1, Source, Classify, FindEmpty, SwitchMode, Register, Activate,
         ConnectStart, ConnectEnd, Goto
<1>4. ASSUME NEW h \in Handlers, RemoveStep(h)
      PROVE  \A x \in Handlers : pc[x] = "off" => pc'[x] = "off"
    BY <1>4 DEF TypeOK, RemoveStep, FindDevice, ClearSlot, KillConnect, Connecting,
         CheckAllEmpty, Wipe, FinishRemove, Goto
<1>5. QED
    BY <1>1, <1>2, <1>3, <1>4 DEF Next, Step

\* At the start of the boot script nobody fills a slot, and a process that a
\* reboot has ended stays ended.
LEMMA BootStep ==
    ASSUME TypeOK, CurIsSlot, Wanted, Started, BootLosesNothing, [Next]_vars
    PROVE  BootLosesNothing'
<1>1. SUFFICES ASSUME boot' = "start", NEW s \in used'
               PROVE  pc'[by'[s]] = "off"
    BY DEF BootLosesNothing
<1>2. CASE Reboot
    <2>1. s \in used /\ by'[s] = by[s] /\ by[s] \in Handlers /\ pc[by[s]] # "idle"
        BY <1>1, <1>2 DEF Reboot, Started
    <2>2. QED
        BY <1>2, <2>1 DEF Reboot
<1>3. CASE ~Reboot
    <2>1. boot = "start" /\ s \in used /\ by'[s] = by[s]
        <3>1. boot = "start"
            BY <1>1, <1>3 DEF Next, Step, AddStep, RemoveStep, InitModems, BootEnd, Plug, Unplug, Event,
                 Spawn, BootDelay, TestUsbwait, WaitUsbwait, TakeUsbwait, Probe0, Probe1, Probe, Source0,
                 Source1, Source, Classify, FindEmpty, SwitchMode, Register, Activate, ConnectStart,
                 ConnectEnd, FindDevice, ClearSlot, KillConnect, CheckAllEmpty, Wipe, FinishRemove,
                 RestartEnd, RestartRun, vars
        <3>2. ASSUME NEW h \in Handlers, Register(h) PROVE FALSE
            BY <3>1, <3>2 DEF Started, Register, Goto, Adding, Critical
        <3>3. ASSUME NEW h \in Handlers, Wipe(h) PROVE s \in used /\ by'[s] = by[s]
            BY <1>1, <3>3 DEF Wipe, DeleteSlots, TypeOK
        <3>4. ASSUME NEW h \in Handlers, ClearSlot(h) PROVE s \in used /\ by'[s] = by[s]
            BY <1>1, <3>4 DEF ClearSlot
        <3>5. CASE InitModems
            BY <1>1, <3>5 DEF InitModems
        <3>6. CASE UNCHANGED <<used, by>>
            BY <1>1, <3>1, <3>6
        <3>7. QED
            BY <1>3, <3>1, <3>2, <3>3, <3>4, <3>5, <3>6
            DEF Next, Step, AddStep, RemoveStep, BootEnd, Plug, Unplug, Event,
                 Spawn, BootDelay, TestUsbwait, WaitUsbwait, TakeUsbwait, Probe0, Probe1, Probe, Source0,
                 Source1, Source, Classify, FindEmpty, SwitchMode, Activate, ConnectStart,
                 ConnectEnd, FindDevice, KillConnect, CheckAllEmpty, FinishRemove,
                 RestartEnd, RestartRun, vars
    <2>2. pc[by[s]] = "off" /\ by[s] \in Handlers
        BY <2>1 DEF BootLosesNothing, Started
    <2>3. \A x \in Handlers : pc[x] = "off" => pc'[x] = "off"
        BY <1>3, OffStays
    <2>4. QED
        BY <2>1, <2>2, <2>3
<1>4. QED
    BY <1>2, <1>3

\* initialize.sh deletes no modem that was found since the reboot.
THEOREM BootLosesNothingHolds == Spec => []BootLosesNothing
<1>1. Init => Wanted /\ Started /\ BootLosesNothing
    BY DEF Init, Wanted, Started, BootLosesNothing, Adding, Critical
<1>2. TypeOK /\ CurIsSlot /\ Wanted /\ Started /\ BootLosesNothing /\ [Next]_vars
          => Wanted' /\ Started' /\ BootLosesNothing'
    BY WantedStep, StartedStep, BootStep
<1>3. QED
    BY <1>1, <1>2, TypeCorrect, PTL DEF Spec

-----------------------------------------------------------------------------
(* The slots and the bus.                                                  *)

\* The set of plugged devices before and after a uevent.
Moves(A, e, B) ==
    \/ e[1] = "add" /\ e[2] \notin A /\ B = A \union {e[2]}
    \/ e[1] = "remove" /\ e[2] \in A /\ B = A \ {e[2]}

\* The events in q lead from the devices in A to those in B.
Path(A, q, B) ==
    \E bus \in [0..Len(q) -> SUBSET Devices] :
        /\ bus[0] = A /\ bus[Len(q)] = B
        /\ \A i \in 1..Len(q) : Moves(bus[i - 1], q[i], bus[i])

\* Handlers at work for a device that was never raced for: there is one, and it
\* does what the last event it was told of says.
Work(told) ==
    /\ \A g, h \in Handlers :
         g # h /\ pc[g] \in Adding \union Removing /\ pc[h] \in Adding \union Removing
               /\ job[g] = job[h]
             => job[h] \in raced
    /\ \A h \in Handlers : job[h] \notin raced =>
         /\ pc[h] \in Adding => job[h] \in told
         /\ pc[h] \in Removing => job[h] \notin told

\* A slot of such a device is its only one, and the device was announced or a
\* handler is about to find the slot.
Table(told) ==
    \A s \in used : device[s] \notin raced =>
        /\ \A t \in used : device[t] = device[s] => t = s
        /\ \/ device[s] \in told
           \/ \E h \in Handlers :
                 /\ job[h] = device[s]
                 /\ (pc[h] = "rfind" /\ cur[h] <= s) \/ (pc[h] = "clear" /\ cur[h] = s)
        /\ \A h \in Handlers : job[h] = device[s] /\ pc[h] \in Adding => pc[h] = "activate"

\* told: the devices plugged in, as far as handlers were started for it.
BusKnown ==
    \E told \in SUBSET Devices :
        Path(told, events, plugged) /\ Work(told) /\ (boot # "start" => Table(told))

\* An event more at the end of the queue, for what happened on the bus.
LEMMA PathAppend ==
    ASSUME NEW A, NEW B, NEW E, NEW q \in Seq(E), NEW e \in E, NEW C \in SUBSET Devices,
           Path(A, q, B), Moves(B, e, C)
    PROVE  Path(A, Append(q, e), C)
<1>1. PICK n \in Nat : n = Len(q)
    OBVIOUS
<1>2. PICK bus \in [0..n -> SUBSET Devices] :
          /\ bus[0] = A /\ bus[n] = B
          /\ \A i \in 1..n : Moves(bus[i - 1], q[i], bus[i])
    BY <1>1 DEF Path
<1> DEFINE r == Append(q, e)
           new == [i \in 0..(n + 1) |-> IF i <= n THEN bus[i] ELSE C]
<1>3. /\ Len(r) = n + 1 /\ r[n + 1] = e /\ \A i \in 1..n : r[i] = q[i]
    BY <1>1
<1>4. new \in [0..(n + 1) -> SUBSET Devices]
    BY <1>1
<1>5. new[0] = A /\ new[n + 1] = C /\ new[n] = B
    BY <1>1, <1>2
<1>6. ASSUME NEW i \in 1..(n + 1) PROVE Moves(new[i - 1], r[i], new[i])
    <2>1. CASE i \in 1..n
        <3>1. new[i - 1] = bus[i - 1] /\ new[i] = bus[i] /\ r[i] = q[i]
            BY <1>1, <1>3, <2>1
        <3>2. QED
            BY <1>2, <2>1, <3>1
    <2>2. CASE i = n + 1
        <3>1. i - 1 = n
            BY <1>1, <2>2
        <3>2. QED
            BY <1>3, <1>5, <2>2, <3>1
    <2>3. QED
        BY <1>1, <2>1, <2>2
<1> HIDE DEF new, r
<1>7. QED
    BY <1>3, <1>4, <1>5, <1>6 DEF Path, r

\* The first event is taken from the queue.
LEMMA PathTail ==
    ASSUME NEW A, NEW B, NEW E, NEW q \in Seq(E), q # <<>>, Path(A, q, B)
    PROVE  \E C \in SUBSET Devices : Moves(A, Head(q), C) /\ Path(C, Tail(q), B)
<1>1. PICK n \in Nat : Len(q) = n + 1
    <2>1. Len(q) \in Nat /\ Len(q) # 0
        OBVIOUS
    <2>2. Len(q) - 1 \in Nat /\ Len(q) = (Len(q) - 1) + 1
        BY <2>1
    <2>3. QED
        BY <2>2
<1>2. PICK bus \in [0..(n + 1) -> SUBSET Devices] :
          /\ bus[0] = A /\ bus[n + 1] = B
          /\ \A i \in 1..(n + 1) : Moves(bus[i - 1], q[i], bus[i])
    BY <1>1 DEF Path
<1> DEFINE r == Tail(q)
           new == [i \in 0..n |-> bus[i + 1]]
<1>3. Len(r) = n /\ Head(q) = q[1] /\ \A i \in 1..n : r[i] = q[i + 1]
    BY <1>1
<1>4. new \in [0..n -> SUBSET Devices]
    BY <1>1
<1>5. new[0] = bus[1] /\ new[n] = B /\ bus[1] \in SUBSET Devices
    BY <1>1, <1>2
<1>6. ASSUME NEW i \in 1..n PROVE Moves(new[i - 1], r[i], new[i])
    <2>1. i + 1 \in 1..(n + 1) /\ (i + 1) - 1 = i /\ (i - 1) + 1 = i /\ i - 1 \in 0..n /\ i \in 0..n
        BY <1>1
    <2>2. new[i - 1] = bus[i] /\ new[i] = bus[i + 1] /\ r[i] = q[i + 1]
        BY <1>3, <2>1
    <2>3. Moves(bus[(i + 1) - 1], q[i + 1], bus[i + 1])
        BY <1>2, <2>1
    <2>4. QED
        BY <2>1, <2>2, <2>3
<1>7. Moves(A, Head(q), bus[1])
    <2>1. 1 \in 1..(n + 1) /\ 1 - 1 = 0
        BY <1>1
    <2>2. Moves(bus[1 - 1], q[1], bus[1])
        BY <1>2, <2>1
    <2>3. QED
        BY <1>2, <1>3, <2>1, <2>2
<1> HIDE DEF new, r
<1>8. Path(bus[1], r, B)
    BY <1>3, <1>4, <1>5, <1>6 DEF Path
<1>9. QED
    BY <1>5, <1>7, <1>8 DEF r

\* No events: the handlers know the bus.
LEMMA PathEmpty ==
    /\ Path({}, <<>>, {})
    /\ \A A, B : Path(A, <<>>, B) => A = B
<1>1. Len(<<>>) = 0 /\ 1..0 = {}
    OBVIOUS
<1>2. Path({}, <<>>, {})
    <2>1. PICK bus \in [0..0 -> SUBSET Devices] : bus[0] = {}
        <3>1. 0 \in 0..0
            OBVIOUS
        <3>2. /\ [i \in 0..0 |-> {}] \in [0..0 -> SUBSET Devices]
              /\ [i \in 0..0 |-> {}][0] = {}
            BY <3>1
        <3>3. QED
            BY <3>2, Zenon
    <2>2. QED
        BY <1>1, <2>1 DEF Path
<1>3. QED
    BY <1>1, <1>2 DEF Path

\* Steps after which the same handlers are at work on the same devices.
LEMMA WorkKept ==
    ASSUME NEW told, Work(told), raced' = raced,
           \A x \in Handlers :
               /\ pc'[x] \in Adding => pc[x] \in Adding /\ job'[x] = job[x]
               /\ pc'[x] \in Removing => pc[x] \in Removing /\ job'[x] = job[x]
    PROVE  Work(told)'
<1>1. ASSUME NEW g \in Handlers, NEW h \in Handlers, g # h,
             pc'[g] \in Adding \union Removing, pc'[h] \in Adding \union Removing,
             job'[g] = job'[h]
      PROVE  job'[h] \in raced'
    BY <1>1 DEF Work
<1>2. ASSUME NEW h \in Handlers, job'[h] \notin raced'
      PROVE  /\ pc'[h] \in Adding => job'[h] \in told
             /\ pc'[h] \in Removing => job'[h] \notin told
    BY <1>2 DEF Work
<1>3. QED
    BY <1>1, <1>2 DEF Work

\* Steps that fill no slot and do not touch a handler that looks for one.
LEMMA TableKept ==
    ASSUME NEW told, Table(told), raced' = raced,
           \A s \in used' : s \in used /\ device'[s] = device[s],
           \A x \in Handlers :
               /\ pc'[x] \in Adding => /\ pc[x] \in Adding /\ job'[x] = job[x]
                                       /\ pc'[x] = "activate" \/ pc[x] # "activate"
               /\ pc[x] \in {"rfind", "clear"} =>
                      pc'[x] = pc[x] /\ cur'[x] = cur[x] /\ job'[x] = job[x]
    PROVE  Table(told)'
<1>1. SUFFICES ASSUME NEW s \in used', device'[s] \notin raced'
               PROVE  /\ \A t \in used' : device'[t] = device'[s] => t = s
                      /\ \/ device'[s] \in told
                         \/ \E h \in Handlers :
                               /\ job'[h] = device'[s]
                               /\ (pc'[h] = "rfind" /\ cur'[h] <= s) \/ (pc'[h] = "clear" /\ cur'[h] = s)
                      /\ \A h \in Handlers :
                            job'[h] = device'[s] /\ pc'[h] \in Adding => pc'[h] = "activate"
    BY DEF Table
<1>2. s \in used /\ device'[s] = device[s] /\ device[s] \notin raced
    BY <1>1
<1>3. \A t \in used' : device'[t] = device'[s] => t = s
    BY <1>2 DEF Table
<1>4. \/ device'[s] \in told
      \/ \E h \in Handlers :
            /\ job'[h] = device'[s]
            /\ (pc'[h] = "rfind" /\ cur'[h] <= s) \/ (pc'[h] = "clear" /\ cur'[h] = s)
    <2>1. CASE device[s] \in told
        BY <1>2, <2>1
    <2>2. ASSUME NEW h \in Handlers, job[h] = device[s],
                 (pc[h] = "rfind" /\ cur[h] <= s) \/ (pc[h] = "clear" /\ cur[h] = s)
          PROVE  \E x \in Handlers :
                     /\ job'[x] = device'[s]
                     /\ (pc'[x] = "rfind" /\ cur'[x] <= s) \/ (pc'[x] = "clear" /\ cur'[x] = s)
        BY <1>2, <2>2
    <2>3. QED
        BY <1>2, <2>1, <2>2 DEF Table
<1>5. \A h \in Handlers : job'[h] = device'[s] /\ pc'[h] \in Adding => pc'[h] = "activate"
    BY <1>2 DEF Table
<1>6. QED
    BY <1>3, <1>4, <1>5

\* The steps that leave the queue, the bus and the slots to others.
LEMMA BusQuietStep ==
    ASSUME TypeOK, NEW told \in SUBSET Devices, Work(told), NEW h \in Handlers,
           \/ BootDelay(h) \/ TestUsbwait(h) \/ WaitUsbwait(h) \/ TakeUsbwait(h)
           \/ Probe0(h) \/ Source0(h) \/ Classify(h) \/ FindEmpty(h) \/ SwitchMode(h)
           \/ Probe1(h) \/ Source1(h) \/ Activate(h) \/ ConnectStart(h) \/ ConnectEnd(h)
           \/ RestartEnd(h) \/ (\E s \in Slots : RestartRun(h, s))
           \/ KillConnect(h) \/ CheckAllEmpty(h) \/ Wipe(h) \/ FinishRemove(h)
    PROVE  Work(told)' /\ (Table(told) => Table(told)')
<1>1. raced' = raced /\ job' = job
    BY DEF BootDelay, TestUsbwait, WaitUsbwait, TakeUsbwait, Probe0, Probe1, Probe, Source0,
         Source1, Source, Classify, FindEmpty, SwitchMode, Activate, ConnectStart, ConnectEnd,
         RestartEnd, RestartRun, KillConnect, CheckAllEmpty, Wipe, FinishRemove
<1>2. CASE \/ BootDelay(h) \/ TestUsbwait(h) \/ WaitUsbwait(h) \/ TakeUsbwait(h)
           \/ Probe0(h) \/ Source0(h) \/ Classify(h) \/ FindEmpty(h) \/ SwitchMode(h)
           \/ Probe1(h) \/ Source1(h) \/ Activate(h) \/ ConnectStart(h) \/ ConnectEnd(h)
           \/ RestartEnd(h) \/ (\E s \in Slots : RestartRun(h, s))
    <2>1. used' = used /\ device' = device
        BY <1>2 DEF BootDelay, TestUsbwait, WaitUsbwait, TakeUsbwait, Probe0, Probe1, Probe, Source0,
             Source1, Source, Classify, FindEmpty, SwitchMode, Activate, ConnectStart, ConnectEnd,
             RestartEnd, RestartRun
    <2>2. \A x \in Handlers \ {h} : pc'[x] = pc[x] /\ cur'[x] = cur[x]
        BY <1>2 DEF TypeOK, BootDelay, TestUsbwait, WaitUsbwait, TakeUsbwait, Probe0, Probe1, Probe,
             Source0, Source1, Source, Classify, FindEmpty, SwitchMode, Activate, ConnectStart,
             ConnectEnd, RestartEnd, RestartRun, Goto
    <2>3. /\ pc'[h] \in Adding => pc[h] \in Adding /\ (pc'[h] = "activate" \/ pc[h] # "activate")
          /\ pc'[h] \notin Removing /\ pc[h] \notin {"rfind", "clear"}
        BY <1>2 DEF TypeOK, BootDelay, TestUsbwait, WaitUsbwait, TakeUsbwait, Probe0, Probe1, Probe,
             Source0, Source1, Source, Classify, FindEmpty, SwitchMode, Activate, ConnectStart,
             ConnectEnd, RestartEnd, RestartRun, Goto, Adding, Critical, Removing
    <2>4. \A x \in Handlers :
             /\ pc'[x] \in Adding => pc[x] \in Adding /\ (pc'[x] = "activate" \/ pc[x] # "activate")
             /\ pc'[x] \in Removing => pc[x] \in Removing
             /\ pc[x] \in {"rfind", "clear"} => pc'[x] = pc[x] /\ cur'[x] = cur[x]
        BY <2>2, <2>3
    <2>5. QED
        BY <1>1, <2>1, <2>4, WorkKept, TableKept
<1>3. CASE KillConnect(h) \/ CheckAllEmpty(h) \/ Wipe(h) \/ FinishRemove(h)
    <2>1. \A s \in used' : s \in used /\ device'[s] = device[s]
        BY <1>3 DEF TypeOK, KillConnect, CheckAllEmpty, Wipe, DeleteSlots, FinishRemove
    <2>2. \A x \in Handlers \ {h} :
              cur'[x] = cur[x] /\ (pc'[x] = pc[x] \/ (pc[x] \in {"connect", "dial"} /\ pc'[x] = "dead"))
        BY <1>3 DEF TypeOK, KillConnect, Connecting, CheckAllEmpty, Wipe, FinishRemove, Goto
    <2>3. pc'[h] \notin Adding /\ pc[h] \in Removing /\ pc[h] \notin {"rfind", "clear"}
        BY <1>3 DEF TypeOK, KillConnect, Connecting, CheckAllEmpty, Wipe, FinishRemove, Goto, Adding,
             Critical, Removing
    <2>4. "dead" \notin Adding \union Removing
        BY DEF Adding, Critical, Removing
    <2>5. \A x \in Handlers :
             /\ pc'[x] \in Adding => pc[x] \in Adding /\ pc'[x] = pc[x]
             /\ pc'[x] \in Removing => pc[x] \in Removing
             /\ pc[x] \in {"rfind", "clear"} => pc'[x] = pc[x] /\ cur'[x] = cur[x]
        BY <2>2, <2>3, <2>4
    <2>6. QED
        BY <1>1, <2>1, <2>5, WorkKept, TableKept
<1>4. QED
    BY <1>2, <1>3

\* The handlers that look for the slot of a removed device.
LEMMA BusRemoveStep ==
    ASSUME TypeOK, NEW told \in SUBSET Devices, Table(told), NEW h \in Handlers,
           FindDevice(h) \/ ClearSlot(h)
    PROVE  Table(told)'
<1>0. used \subseteq 1..MODCNT /\ cur[h] \in Nat /\ MODCNT \in Nat
    BY CountAssumption DEF TypeOK, Slots
<1>1. /\ raced' = raced /\ job' = job /\ device' = device /\ used' \subseteq used
      /\ \A x \in Handlers \ {h} : pc'[x] = pc[x] /\ cur'[x] = cur[x]
      /\ pc'[h] \notin Adding
    BY DEF TypeOK, FindDevice, ClearSlot, Goto, Adding, Critical
<1>2. SUFFICES ASSUME NEW s \in used', device[s] \notin raced
               PROVE  /\ \A t \in used' : device[t] = device[s] => t = s
                      /\ \/ device[s] \in told
                         \/ \E x \in Handlers :
                               /\ job[x] = device[s]
                               /\ (pc'[x] = "rfind" /\ cur'[x] <= s) \/ (pc'[x] = "clear" /\ cur'[x] = s)
                      /\ \A x \in Handlers :
                            job[x] = device[s] /\ pc'[x] \in Adding => pc'[x] = "activate"
    BY <1>1 DEF Table
<1>3. s \in used /\ s \in 1..MODCNT
    BY <1>0, <1>1
<1>4. \A t \in used' : device[t] = device[s] => t = s
    BY <1>1, <1>2, <1>3 DEF Table
<1>5. \A x \in Handlers : job[x] = device[s] /\ pc'[x] \in Adding => pc'[x] = "activate"
    BY <1>1, <1>2, <1>3 DEF Table
<1>6. \/ device[s] \in told
      \/ \E x \in Handlers :
            /\ job[x] = device[s]
            /\ (pc'[x] = "rfind" /\ cur'[x] <= s) \/ (pc'[x] = "clear" /\ cur'[x] = s)
    <2>1. CASE device[s] \in told
        BY <2>1
    <2>2. ASSUME NEW x \in Handlers, job[x] = device[s],
                 (pc[x] = "rfind" /\ cur[x] <= s) \/ (pc[x] = "clear" /\ cur[x] = s)
          PROVE  /\ job[x] = device[s]
                 /\ (pc'[x] = "rfind" /\ cur'[x] <= s) \/ (pc'[x] = "clear" /\ cur'[x] = s)
        <3>1. CASE x # h
            BY <1>1, <2>2, <3>1
        <3>2. CASE x = h /\ ClearSlot(h)
            BY <1>2, <2>2, <3>2 DEF ClearSlot, Goto
        <3>3. CASE x = h /\ FindDevice(h)
            <4>1. pc[h] = "rfind" /\ cur[h] <= s
                BY <2>2, <3>3 DEF FindDevice, Goto
            <4>2. cur[h] <= MODCNT
                BY <1>0, <1>3, <4>1
            <4>3. CASE cur[h] \in used /\ device[cur[h]] = job[h]
                <5>1. cur[h] = s
                    BY <1>2, <1>3, <2>2, <3>3, <4>3 DEF Table
                <5>2. pc'[h] = "clear" /\ cur' = cur
                    BY <3>3, <4>2, <4>3, <1>0 DEF FindDevice, Goto, TypeOK
                <5>3. QED
                    BY <2>2, <3>3, <5>1, <5>2
            <4>4. CASE ~(cur[h] \in used /\ device[cur[h]] = job[h])
                <5>1. cur[h] # s
                    BY <1>3, <2>2, <3>3, <4>4
                <5>2. pc'[h] = "rfind" /\ cur'[h] = cur[h] + 1
                    BY <3>3, <4>2, <4>4, <1>0 DEF FindDevice, Goto, TypeOK
                <5>3. cur[h] + 1 <= s
                    BY <1>0, <1>3, <4>1, <5>1
                <5>4. QED
                    BY <2>2, <3>3, <5>2, <5>3
            <4>5. QED
                BY <4>3, <4>4
        <3>4. QED
            BY <3>1, <3>2, <3>3
    <2>3. QED
        BY <1>2, <1>3, <2>1, <2>2 DEF Table
<1>7. QED
    BY <1>4, <1>5, <1>6

\* A slot is filled.
LEMMA BusRegister ==
    ASSUME TypeOK, CurIsSlot, NEW told \in SUBSET Devices, Work(told), Table(told),
           NEW h \in Handlers, Register(h)
    PROVE  Table(told)'
<1>1. /\ raced' = raced /\ job' = job /\ cur' = cur /\ pc[h] = "register"
      /\ \A x \in Handlers \ {h} : pc'[x] = pc[x]
    BY DEF TypeOK, Register, Goto
<1>2. /\ cur[h] \in Slots /\ pc[h] \in Adding /\ "activate" \in Adding
    BY <1>1 DEF CurIsSlot, OnSlot, Adding, Critical
<1>3. CASE used' = used /\ device' = device /\ pc'[h] = "done"
    <2>1. \A x \in Handlers :
             /\ pc'[x] \in Adding => pc[x] \in Adding /\ pc'[x] = pc[x]
             /\ pc[x] \in {"rfind", "clear"} => pc'[x] = pc[x]
        BY <1>1, <1>3 DEF Adding, Critical
    <2>2. QED
        BY <1>1, <1>3, <2>1, TableKept
<1>4. CASE /\ pc'[h] = "activate" /\ used' = used \union {cur[h]}
           /\ device' = [device EXCEPT ![cur[h]] = job[h]]
    <2>1. \A s \in used' \ {cur[h]} : s \in used /\ device'[s] = device[s]
        BY <1>4 DEF TypeOK
    <2>2. device'[cur[h]] = job[h]
        BY <1>2, <1>4 DEF TypeOK
    <2>3. job[h] \notin raced => \A s \in used : device[s] # job[h]
        BY <1>1, <1>2 DEF Table
    <2>4. job[h] \notin raced => job[h] \in told
        BY <1>2 DEF Work
    <2>5. ASSUME NEW s \in used', device'[s] \notin raced', s = cur[h]
          PROVE  /\ \A t \in used' : device'[t] = device'[s] => t = s
                 /\ device'[s] \in told
                 /\ \A x \in Handlers :
                       job'[x] = device'[s] /\ pc'[x] \in Adding => pc'[x] = "activate"
        <3>1. device'[s] = job[h] /\ job[h] \notin raced
            BY <1>1, <2>2, <2>5
        <3>2. ASSUME NEW x \in Handlers, job'[x] = device'[s], pc'[x] \in Adding
              PROVE  pc'[x] = "activate"
            <4>1. CASE x = h
                BY <1>4, <4>1
            <4>2. CASE x # h
                BY <1>1, <1>2, <3>1, <3>2, <4>2 DEF Work
            <4>3. QED
                BY <4>1, <4>2
        <3>3. QED
            BY <2>1, <2>3, <2>4, <2>5, <3>1, <3>2
    <2>6. ASSUME NEW s \in used', device'[s] \notin raced', s # cur[h]
          PROVE  /\ \A t \in used' : device'[t] = device'[s] => t = s
                 /\ \/ device'[s] \in told
                    \/ \E x \in Handlers :
                          /\ job'[x] = device'[s]
                          /\ (pc'[x] = "rfind" /\ cur'[x] <= s) \/ (pc'[x] = "clear" /\ cur'[x] = s)
                 /\ \A x \in Handlers :
                       job'[x] = device'[s] /\ pc'[x] \in Adding => pc'[x] = "activate"
        <3>1. s \in used /\ device'[s] = device[s] /\ device[s] \notin raced
            BY <1>1, <2>1, <2>6
        <3>2. device[s] # job[h]
            BY <2>3, <3>1
        <3>3. \A t \in used' : device'[t] = device'[s] => t = s
            BY <2>1, <2>2, <3>1, <3>2 DEF Table
        <3>4. \/ device[s] \in told
              \/ \E x \in Handlers :
                    /\ job[x] = device[s]
                    /\ (pc'[x] = "rfind" /\ cur[x] <= s) \/ (pc'[x] = "clear" /\ cur[x] = s)
            <4>1. \A x \in Handlers : job[x] = device[s] => pc'[x] = pc[x]
                BY <1>1, <3>2
            <4>2. QED
                BY <3>1, <4>1 DEF Table
        <3>5. \A x \in Handlers : job[x] = device[s] /\ pc'[x] \in Adding => pc'[x] = "activate"
            BY <1>1, <3>1, <3>2 DEF Table
        <3>6. QED
            BY <1>1, <3>1, <3>3, <3>4, <3>5
    <2>7. QED
        BY <2>5, <2>6 DEF Table
<1>5. QED
    BY <1>3, <1>4 DEF Register, Goto, TypeOK

\* A handler is started for the first event of the queue.
LEMMA SpawnFacts ==
    ASSUME TypeOK, NEW h \in Handlers, Spawn(h)
    PROVE  \E e \in {"add", "remove"} \X Devices :
               /\ events # <<>> /\ e = Head(events) /\ events' = Tail(events)
               /\ pc[h] = "idle" /\ job'[h] = e[2]
               /\ e[1] = "add" => pc'[h] = "bootdelay"
               /\ e[1] = "remove" => pc'[h] = "rfind"
               /\ \A x \in Handlers \ {h} : pc'[x] = pc[x] /\ job'[x] = job[x]
               /\ raced \subseteq raced'
               /\ e[2] \notin raced' =>
                      ~ \E g \in Handlers : pc[g] \in Adding \union Removing /\ job[g] = e[2]
               /\ UNCHANGED <<boot, plugged, used, device, cur>>
<1>1. Head(events) \in {"add", "remove"} \X Devices /\ events # <<>>
    BY HeadTail DEF TypeOK, Spawn
<1>2. PICK e \in {"add", "remove"} \X Devices : e = Head(events)
    BY <1>1
<1>3. job'[h] = e[2] /\ pc[h] = "idle" /\ \A x \in Handlers \ {h} : pc'[x] = pc[x] /\ job'[x] = job[x]
    BY <1>2 DEF Spawn, NextPid, TypeOK
<1>4. (e[1] = "add" => pc'[h] = "bootdelay") /\ (e[1] = "remove" => pc'[h] = "rfind")
    BY <1>2 DEF Spawn, TypeOK
<1>5. /\ raced \subseteq raced'
      /\ e[2] \notin raced' => ~ \E g \in Handlers : pc[g] \in Adding \union Removing /\ job[g] = e[2]
    BY <1>3 DEF Spawn
<1>6. events' = Tail(events) /\ UNCHANGED <<boot, plugged, used, device, cur>>
    BY DEF Spawn
<1>7. QED
    BY <1>1, <1>2, <1>3, <1>4, <1>5, <1>6

\* Starting a handler: the event leaves the queue and becomes the handler's work.
LEMMA BusSpawn ==
    ASSUME TypeOK, Started, NEW told \in SUBSET Devices, Path(told, events, plugged), Work(told),
           boot # "start" => Table(told), NEW h \in Handlers, Spawn(h)
    PROVE  BusKnown'
<1>1. PICK e \in {"add", "remove"} \X Devices :
               /\ events # <<>> /\ e = Head(events) /\ events' = Tail(events)
               /\ pc[h] = "idle" /\ job'[h] = e[2]
               /\ e[1] = "add" => pc'[h] = "bootdelay"
               /\ e[1] = "remove" => pc'[h] = "rfind"
               /\ \A x \in Handlers \ {h} : pc'[x] = pc[x] /\ job'[x] = job[x]
               /\ raced \subseteq raced'
               /\ e[2] \notin raced' =>
                      ~ \E g \in Handlers : pc[g] \in Adding \union Removing /\ job[g] = e[2]
               /\ UNCHANGED <<boot, plugged, used, device, cur>>
    BY SpawnFacts
<1>2. PICK next \in SUBSET Devices : Moves(told, e, next) /\ Path(next, events', plugged)
    BY <1>1, PathTail DEF TypeOK
<1>3. \A d : d # e[2] => (d \in next <=> d \in told)
    BY <1>2 DEF Moves
<1>4. /\ e[1] = "add" => e[2] \in next /\ e[2] \notin told
      /\ e[1] = "remove" => e[2] \notin next
      /\ e[1] = "add" \/ e[1] = "remove"
    BY <1>2 DEF Moves
<1>5. /\ "bootdelay" \in Adding /\ "bootdelay" \notin Removing /\ "rfind" \in Removing
      /\ "rfind" \notin Adding /\ "clear" \in Removing /\ "idle" \notin Adding \union Removing
    BY DEF Adding, Critical, Removing
<1>6. Work(next)'
    <2>1. ASSUME NEW g \in Handlers, NEW x \in Handlers, g # x,
                 pc'[g] \in Adding \union Removing, pc'[x] \in Adding \union Removing,
                 job'[g] = job'[x]
          PROVE  job'[x] \in raced'
        <3>1. CASE g # h /\ x # h
            BY <1>1, <2>1, <3>1 DEF Work
        <3>2. CASE g = h
            BY <1>1, <2>1, <3>2
        <3>3. CASE x = h
            BY <1>1, <2>1, <3>3
        <3>4. QED
            BY <3>1, <3>2, <3>3
    <2>2. ASSUME NEW x \in Handlers, job'[x] \notin raced'
          PROVE  /\ pc'[x] \in Adding => job'[x] \in next
                 /\ pc'[x] \in Removing => job'[x] \notin next
        <3>1. CASE x = h
            BY <1>1, <1>4, <1>5, <3>1
        <3>2. CASE x # h /\ job[x] # e[2]
            BY <1>1, <1>3, <2>2, <3>2 DEF Work
        <3>3. CASE x # h /\ job[x] = e[2]
            BY <1>1, <2>2, <3>3
        <3>4. QED
            BY <3>1, <3>2, <3>3
    <2>3. QED
        BY <2>1, <2>2 DEF Work
<1>7. ASSUME boot # "start" PROVE Table(next)'
    <2>0. Table(told) /\ used \subseteq 1..MODCNT
        BY <1>7 DEF TypeOK, Slots
    <2>1. SUFFICES ASSUME NEW s \in used, device[s] \notin raced'
                   PROVE  /\ \A t \in used : device[t] = device[s] => t = s
                          /\ \/ device[s] \in next
                             \/ \E x \in Handlers :
                                   /\ job'[x] = device[s]
                                   /\ (pc'[x] = "rfind" /\ cur[x] <= s) \/ (pc'[x] = "clear" /\ cur[x] = s)
                          /\ \A x \in Handlers :
                                job'[x] = device[s] /\ pc'[x] \in Adding => pc'[x] = "activate"
        BY <1>1 DEF Table
    <2>2. device[s] \notin raced /\ \A t \in used : device[t] = device[s] => t = s
        BY <1>1, <2>0, <2>1 DEF Table
    <2>3. \/ device[s] \in told
          \/ \E x \in Handlers :
                /\ job[x] = device[s]
                /\ (pc[x] = "rfind" /\ cur[x] <= s) \/ (pc[x] = "clear" /\ cur[x] = s)
        BY <2>0, <2>2 DEF Table
    <2>4. \A x \in Handlers : job[x] = device[s] /\ pc[x] \in Adding => pc[x] = "activate"
        BY <2>0, <2>2 DEF Table
    <2>5. CASE device[s] # e[2]
        <3>1. \A x \in Handlers : job'[x] = device[s] /\ pc'[x] \in Adding => pc'[x] = "activate"
            BY <1>1, <2>4, <2>5
        <3>2. CASE device[s] \in told
            BY <1>3, <2>2, <2>5, <3>1, <3>2
        <3>3. ASSUME NEW x \in Handlers, job[x] = device[s],
                     (pc[x] = "rfind" /\ cur[x] <= s) \/ (pc[x] = "clear" /\ cur[x] = s)
              PROVE  /\ job'[x] = device[s]
                     /\ (pc'[x] = "rfind" /\ cur[x] <= s) \/ (pc'[x] = "clear" /\ cur[x] = s)
            BY <1>1, <3>3
        <3>4. QED
            BY <2>2, <2>3, <3>1, <3>2, <3>3
    <2>6. CASE device[s] = e[2]
        <3>1. \A g \in Handlers : job[g] = e[2] => pc[g] \notin Adding \union Removing
            BY <1>1, <2>1, <2>6
        <3>2. e[2] \in told
            BY <1>5, <2>3, <2>6, <3>1
        <3>3. e[1] = "remove" /\ pc'[h] = "rfind"
            BY <1>1, <1>4, <3>2
        <3>4. cur[h] = 1 /\ cur[h] <= s
            BY <1>1, <2>0, <2>1, CountAssumption DEF Started
        <3>5. \A x \in Handlers : job'[x] = device[s] => pc'[x] \notin Adding
            BY <1>1, <1>5, <2>6, <3>1, <3>3
        <3>6. QED
            BY <1>1, <2>2, <2>6, <3>3, <3>4, <3>5
    <2>7. QED
        BY <2>5, <2>6
<1>8. QED
    BY <1>1, <1>2, <1>6, <1>7 DEF BusKnown

\* The bus changes, and an event tells so.
LEMMA BusEvent ==
    ASSUME TypeOK, NEW told \in SUBSET Devices, Path(told, events, plugged), Work(told),
           boot # "start" => Table(told), NEW d \in Devices, Plug(d) \/ Unplug(d)
    PROVE  BusKnown'
<1>1. UNCHANGED <<boot, used, device, pc, job, cur, raced>> /\ plugged' \in SUBSET Devices
    BY DEF Plug, Unplug, Event, TypeOK
<1>2. PICK e \in {"add", "remove"} \X Devices : events' = Append(events, e) /\ Moves(plugged, e, plugged')
    <2>1. CASE Plug(d)
        <3>0. /\ <<"add", d>> \in {"add", "remove"} \X Devices
              /\ <<"add", d>>[1] = "add" /\ <<"add", d>>[2] = d
            OBVIOUS
        <3>1. PICK e \in {"add", "remove"} \X Devices : e = <<"add", d>> /\ e[1] = "add" /\ e[2] = d
            BY <3>0, Zenon
        <3>2. events' = Append(events, e) /\ Moves(plugged, e, plugged')
            BY <2>1, <3>1 DEF Plug, Event, Moves
        <3>3. QED
            BY <3>2
    <2>2. CASE Unplug(d)
        <3>0. /\ <<"remove", d>> \in {"add", "remove"} \X Devices
              /\ <<"remove", d>>[1] = "remove" /\ <<"remove", d>>[2] = d
            OBVIOUS
        <3>1. PICK e \in {"add", "remove"} \X Devices : e = <<"remove", d>> /\ e[1] = "remove" /\ e[2] = d
            BY <3>0, Zenon
        <3>2. events' = Append(events, e) /\ Moves(plugged, e, plugged')
            BY <2>2, <3>1 DEF Unplug, Event, Moves
        <3>3. QED
            BY <3>2
    <2>3. QED
        BY <2>1, <2>2
<1>3. Path(told, events', plugged')
    BY <1>1, <1>2, PathAppend DEF TypeOK
<1>4. Work(told)'
    BY <1>1 DEF Work
<1>5. boot' # "start" => Table(told)'
    BY <1>1 DEF Table
<1>6. QED
    BY <1>3, <1>4, <1>5 DEF BusKnown

\* Every step keeps the account of what the bus has told.
LEMMA BusStep ==
    ASSUME TypeOK, CurIsSlot, Started, BusKnown, [Next]_vars
    PROVE  BusKnown'
<1>1. PICK told \in SUBSET Devices :
          Path(told, events, plugged) /\ Work(told) /\ (boot # "start" => Table(told))
    BY DEF BusKnown
<1>2. CASE UNCHANGED vars \/ BootEnd
    <2>1. /\ UNCHANGED <<events, plugged, used, device, pc, job, cur, raced>>
          /\ boot' # "start" => boot # "start"
        BY <1>2 DEF vars, BootEnd
    <2>2. Path(told, events', plugged') /\ Work(told)'
        BY <1>1, <2>1 DEF Work
    <2>3. boot' # "start" => Table(told)'
        BY <1>1, <2>1 DEF Table
    <2>4. QED
        BY <2>2, <2>3 DEF BusKnown
<1>3. CASE InitModems
    <2>1. UNCHANGED <<events, plugged, pc, job, raced>> /\ used' = {}
        BY <1>3 DEF InitModems, DeleteSlots, TypeOK
    <2>2. Path(told, events', plugged') /\ Work(told)'
        BY <1>1, <2>1 DEF Work
    <2>3. Table(told)'
        BY <2>1 DEF Table
    <2>4. QED
        BY <2>2, <2>3 DEF BusKnown
<1>4. CASE Reboot
    <2>1. /\ boot' = "start" /\ events' = <<>> /\ plugged' = {}
          /\ \A h \in Handlers : pc'[h] \in {"idle", "off"}
        BY <1>4 DEF Reboot
    <2>2. Path({}, events', plugged')
        BY <2>1, PathEmpty
    <2>3. \A h \in Handlers : pc'[h] \notin Adding \union Removing
        BY <2>1 DEF Adding, Critical, Removing
    <2>4. Work({})'
        BY <2>3 DEF Work
    <2>5. QED
        BY <2>1, <2>2, <2>4 DEF BusKnown
<1>5. ASSUME NEW d \in Devices, Plug(d) \/ Unplug(d) PROVE BusKnown'
    BY <1>1, <1>5, BusEvent
<1>6. ASSUME NEW h \in Handlers, Spawn(h) PROVE BusKnown'
    BY <1>1, <1>6, BusSpawn
<1>7. ASSUME NEW h \in Handlers,
             \/ BootDelay(h) \/ TestUsbwait(h) \/ WaitUsbwait(h) \/ TakeUsbwait(h)
             \/ Probe0(h) \/ Source0(h) \/ Classify(h) \/ FindEmpty(h) \/ SwitchMode(h)
             \/ Probe1(h) \/ Source1(h) \/ Activate(h) \/ ConnectStart(h) \/ ConnectEnd(h)
             \/ RestartEnd(h) \/ (\E s \in Slots : RestartRun(h, s))
             \/ KillConnect(h) \/ CheckAllEmpty(h) \/ Wipe(h) \/ FinishRemove(h)
      PROVE  BusKnown'
    <2>1. UNCHANGED <<boot, events, plugged>>
        BY <1>7 DEF BootDelay, TestUsbwait, WaitUsbwait, TakeUsbwait, Probe0, Probe1, Probe, Source0,
             Source1, Source, Classify, FindEmpty, SwitchMode, Activate, ConnectStart, ConnectEnd,
             RestartEnd, RestartRun, KillConnect, CheckAllEmpty, Wipe, FinishRemove
    <2>2. Work(told)' /\ (boot # "start" => Table(told)')
        BY <1>1, <1>7, BusQuietStep
    <2>3. QED
        BY <1>1, <2>1, <2>2 DEF BusKnown
<1>8. ASSUME NEW h \in Handlers, FindDevice(h) \/ ClearSlot(h) \/ Register(h)
      PROVE  BusKnown'
    <2>1. UNCHANGED <<boot, events, plugged, raced, job>>
        BY <1>8 DEF FindDevice, ClearSlot, Register
    <2>2. boot # "start" => Table(told)'
        BY <1>1, <1>8, BusRemoveStep, BusRegister
    <2>3. \A x \in Handlers \ {h} : pc'[x] = pc[x]
        BY <1>8 DEF TypeOK, FindDevice, ClearSlot, Register, Goto
    <2>4. /\ pc'[h] \in Adding => pc[h] \in Adding
          /\ pc'[h] \in Removing => pc[h] \in Removing
        BY <1>8 DEF TypeOK, FindDevice, ClearSlot, Register, Goto, Adding, Critical, Removing
    <2>5. Work(told)'
        BY <1>1, <2>1, <2>3, <2>4, WorkKept
    <2>6. QED
        BY <1>1, <2>1, <2>2, <2>5 DEF BusKnown
<1>9. QED
    BY <1>2, <1>3, <1>4, <1>5, <1>6, <1>7, <1>8 DEF Next, Step, AddStep, RemoveStep

\* When the handlers are done the slots show the bus, but for devices for which
\* one was started before the one before it had ended.
THEOREM TableMatchesBusHolds == Spec => []TableMatchesBus
<1>1. Init => Wanted /\ Started /\ BusKnown
    <2>1. SUFFICES ASSUME Init PROVE Wanted /\ Started /\ BusKnown
        OBVIOUS
    <2>2. Wanted /\ Started
        BY <2>1 DEF Init, Wanted, Started, Adding, Critical
    <2>3. Path({}, events, plugged)
        BY <2>1, PathEmpty DEF Init
    <2>4. \A h \in Handlers : pc[h] \notin Adding \union Removing
        BY <2>1 DEF Init, Adding, Critical, Removing
    <2>5. Work({}) /\ boot = "start"
        BY <2>1, <2>4 DEF Init, Work
    <2>6. QED
        BY <2>2, <2>3, <2>5 DEF BusKnown
<1>2. TypeOK /\ CurIsSlot /\ Wanted /\ Started /\ BusKnown /\ [Next]_vars
          => Wanted' /\ Started' /\ BusKnown'
    BY WantedStep, StartedStep, BusStep
<1>3. TypeOK /\ Started /\ BusKnown => TableMatchesBus
    <2>1. SUFFICES ASSUME Started, BusKnown, Quiet, boot # "start",
                          NEW s \in used, device[s] \notin raced
                   PROVE  device[s] \in plugged /\ \A t \in used \ {s} : device[t] # device[s]
        BY DEF TableMatchesBus
    <2>2. PICK told \in SUBSET Devices : Path(told, <<>>, plugged) /\ Table(told)
        BY <2>1 DEF BusKnown, Quiet
    <2>3. told = plugged
        BY <2>2, PathEmpty
    <2>4. \A h \in Handlers : pc[h] \notin {"rfind", "clear"}
        BY <2>1 DEF Quiet, Ended
    <2>5. QED
        BY <2>1, <2>2, <2>3, <2>4 DEF Table
<1>4. QED
    BY <1>1, <1>2, <1>3, TypeCorrect, PTL DEF Spec
=============================================================================
