--------------------------- MODULE ConnectProofs ---------------------------
(***************************************************************************)
(* Proofs about Connect for any number of modems, WANs, APNs and polls and *)
(* any profiles: its types, that an unplugged modem leaves no process,     *)
(* that two modems only share a WAN after a race, and that a connected     *)
(* modem has the network section of its WAN.                               *)
(***************************************************************************)
EXTENDS Connect, TLAPS

USE DEF tables, section, network, script, watch, unplug, counts, aux

\* What one step needs to know about the scripts to keep the types.
Local == InterIsWan /\ ApnCounted /\ NoOrphans /\ KilledStaysDead /\ ServesNetifd

\* What one step needs to know to keep the first two modems apart.
Apart == WanUnshared /\ ChoiceStaysFree /\ BothChoosing

\* What one step needs to know to keep an unplug handler off the other modem's WAN.
Tearing == UnplugTearsOwn /\ ChoiceSparesTear /\ PlacedHasWan /\ UnpluggedIsUnused

Inv == TypeOK /\ Local /\ Apart /\ Tearing /\ KeepsSection

-----------------------------------------------------------------------------

\* A jump stays among the control points.
LEMMA GotoType ==
    ASSUME TypeOK, NEW m \in Modems, NEW from, NEW to \in PCs, Goto(m, from, to)
    PROVE  pc' \in [Modems -> PCs]
BY DEF TypeOK, Goto

\* Rewriting the section of a WAN keeps the types of the configuration.
LEMMA SetWanType ==
    ASSUME TypeOK, NEW w \in Wans, NEW m \in Modems \union {0}, NEW cm \in Modems \union {0},
           SetWan(w, m, cm)
    PROVE  /\ wan' \in [Wans -> Modems \union {0}]
           /\ currmodem' \in [Wans -> Modems \union {0}]
BY DEF TypeOK, SetWan

\* Only modems lose a WAN.
LEMMA LosesType ==
    ASSUME TypeOK, NEW w, NEW m
    PROVE  Loses(w, m) \subseteq Modems
BY DEF TypeOK, Loses

\* So does create_connect.sh, once it has chosen a WAN.
LEMMA WriteSectionType ==
    ASSUME TypeOK, NEW m \in Modems, my[m] \in Wans, NEW cm \in Modems \union {0},
           WriteSection(m, cm)
    PROVE  /\ wan' \in [Wans -> Modems \union {0}]
           /\ currmodem' \in [Wans -> Modems \union {0}]
           /\ hit' \subseteq Modems
<1>1. SetWan(my[m], m, cm) /\ hit' = hit \union Loses(my[m], m)
    BY DEF WriteSection
<1>2. hit' \subseteq Modems
    BY <1>1, LosesType DEF TypeOK
<1>3. QED
    BY <1>1, <1>2, SetWanType

\* A restart of a modem keeps the types, whether it gets to work or not.
LEMMA RestartType ==
    ASSUME TypeOK, NEW m \in Modems, RestartBegin(m)
    PROVE  /\ rst' \in [Modems -> {"off", "tear", "wait"}]
           /\ restarts' \in 0..MaxRestarts
           /\ usbwait' \in BOOLEAN
           /\ reset' \subseteq Modems
<1>1. rst' \in [Modems -> {"off", "tear", "wait"}] /\ usbwait' \in BOOLEAN
      /\ reset' \subseteq Modems
    BY DEF TypeOK, RestartBegin
<1>2. restarts' \in 0..MaxRestarts
    BY BoundAssumption DEF TypeOK, RestartBegin
<1>3. QED
    BY <1>1, <1>2

\* The WAN a script chooses is one, unless its profile is disabled.
LEMMA ChosenIsWan ==
    ASSUME NEW m \in Modems, pc[m] = "select", InterIsWan
    PROVE  Wanted(m) \in Wans
<1>1. Profile[m] \in Wans \union {0} /\ m \in Wans
    BY ProfileAssumption, WanAssumption DEF InterIsWan
<1>2. QED
    BY <1>1 DEF Wanted

-----------------------------------------------------------------------------

\* Every step keeps the types.
LEMMA TypeStep ==
    ASSUME TypeOK, InterIsWan, ApnCounted, [Next]_vars
    PROVE  TypeOK'
<1>1. CASE UNCHANGED vars
    BY <1>1 DEF vars, TypeOK
<1>2. ASSUME NEW m \in Modems, Plug(m) PROVE TypeOK'
    <2>1. plugs' \in 0..MaxPlugs
        BY <1>2, BoundAssumption DEF TypeOK, Plug
    <2>2. pc' \in [Modems -> PCs]
        BY <1>2 DEF TypeOK, Plug, PCs
    <2>3. QED
        BY <1>2, <2>1, <2>2 DEF TypeOK, Plug, Forget
<1>3. ASSUME NEW m \in Modems, Ports(m) PROVE TypeOK'
    <2>1. pc' \in [Modems -> PCs]
        <3>1. {"success", "sim", "done"} \subseteq PCs
            BY DEF PCs
        <3>2. QED
            BY <1>3, <3>1, GotoType DEF Ports
    <2>2. QED
        BY <1>3, <2>1 DEF TypeOK, Ports
<1>4. ASSUME NEW m \in Modems, Sim(m) PROVE TypeOK'
    <2>1. pc' \in [Modems -> PCs]
        BY <1>4 DEF TypeOK, Sim, Goto, PCs
    <2>2. /\ rst' \in [Modems -> {"off", "tear", "wait"}]
          /\ restarts' \in 0..MaxRestarts /\ usbwait' \in BOOLEAN /\ reset' \subseteq Modems
        BY <1>4, RestartType DEF TypeOK, Sim
    <2>3. QED
        BY <1>4, <2>1, <2>2 DEF TypeOK, Sim
<1>5. ASSUME NEW m \in Modems, SelectWan(m) PROVE TypeOK'
    <2>1. pc' \in [Modems -> PCs]
        BY <1>5 DEF TypeOK, SelectWan, Goto, PCs
    <2>2. my' \in [Modems -> Wans \union {0}]
        BY <1>5, WanAssumption, ChosenIsWan DEF TypeOK, SelectWan, Goto
    <2>3. raced' \subseteq Modems
        <3>1. Moving(m) \subseteq Modems
            BY DEF Moving
        <3>2. QED
            BY <1>5, <3>1 DEF TypeOK, SelectWan
    <2>4. QED
        BY <1>5, <2>1, <2>2, <2>3 DEF TypeOK, SelectWan
<1>6. ASSUME NEW m \in Modems, Claim(m) PROVE TypeOK'
    <2>1. pc' \in [Modems -> PCs]
        BY <1>6 DEF TypeOK, Claim, Goto, PCs
    <2>2. inter' \in [Modems -> Wans \union {0}]
        BY <1>6 DEF TypeOK, Claim
    <2>3. QED
        BY <1>6, <2>1, <2>2 DEF TypeOK, Claim
<1>7. ASSUME NEW m \in Modems, Configure(m) PROVE TypeOK'
    <2>1. pc' \in [Modems -> PCs]
        BY <1>7 DEF TypeOK, Configure, Goto, PCs
    <2>2. my[m] \in Wans
        BY <1>7 DEF InterIsWan, Chosen, Configure, Goto
    <2>3. /\ wan' \in [Wans -> Modems \union {0}]
          /\ currmodem' \in [Wans -> Modems \union {0}] /\ hit' \subseteq Modems
        <3>1. CASE UNCHANGED <<section, hit>>
            BY <3>1 DEF TypeOK
        <3>2. CASE WriteSection(m, 0)
            BY <2>2, <3>2, WriteSectionType
        <3>3. QED
            BY <1>7, <3>1, <3>2 DEF Configure
    <2>4. QED
        BY <1>7, <2>1, <2>3 DEF TypeOK, Configure
<1>8. ASSUME NEW m \in Modems, Attempt(m) PROVE TypeOK'
    <2>1. pc' \in [Modems -> PCs]
        BY <1>8 DEF TypeOK, Attempt, Goto, PCs
    <2>2. apn' \in [Modems -> 0..Apns]
        BY <1>8, CountAssumption DEF TypeOK, ApnCounted, Attempt, Goto
    <2>3. wd' \in [Modems -> {"none", "poll", "restart"}]
        BY <1>8 DEF TypeOK, Attempt
    <2>4. left' \in [Modems -> 0..(Polls + 1)]
        BY <1>8, CountAssumption DEF TypeOK, Attempt
    <2>5. QED
        BY <1>8, <2>1, <2>2, <2>3, <2>4 DEF TypeOK, Attempt
<1>9. ASSUME NEW m \in Modems, PinLocked(m) PROVE TypeOK'
    BY <1>9 DEF TypeOK, PinLocked, Goto, PCs
<1>10. ASSUME NEW m \in Modems, Dial(m) PROVE TypeOK'
    <2>1. pc' \in [Modems -> PCs]
        BY <1>10 DEF TypeOK, Dial, Goto, PCs
    <2>2. my[m] \in Wans
        BY <1>10 DEF InterIsWan, Chosen, Dial, Goto
    <2>3. /\ wan' \in [Wans -> Modems \union {0}]
          /\ currmodem' \in [Wans -> Modems \union {0}] /\ hit' \subseteq Modems
        <3>1. CASE UNCHANGED <<section, hit>>
            BY <3>1 DEF TypeOK
        <3>2. CASE WriteSection(m, 0)
            BY <2>2, <3>2, WriteSectionType
        <3>3. QED
            BY <1>10, <3>1, <3>2 DEF Dial
    <2>4. QED
        BY <1>10, <2>1, <2>3 DEF TypeOK, Dial
<1>11. ASSUME NEW m \in Modems, NetifdUp(m) PROVE TypeOK'
    <2>1. pc' \in [Modems -> PCs]
        BY <1>11 DEF TypeOK, NetifdUp, Goto, PCs
    <2>2. my[m] \in Wans
        BY <1>11 DEF InterIsWan, Chosen, NetifdUp, Goto
    <2>3. /\ wan' \in [Wans -> Modems \union {0}]
          /\ currmodem' \in [Wans -> Modems \union {0}] /\ hit' \subseteq Modems
        BY <1>11, <2>2, WriteSectionType DEF NetifdUp
    <2>4. QED
        BY <1>11, <2>1, <2>3 DEF TypeOK, NetifdUp
<1>12. ASSUME NEW m \in Modems, Success(m) PROVE TypeOK'
    <2>1. pc' \in [Modems -> PCs]
        BY <1>12 DEF TypeOK, Success, Goto, PCs
    <2>2. QED
        BY <1>12, <2>1 DEF TypeOK, Success
<1>13. ASSUME NEW m \in Modems, Poll(m) PROVE TypeOK'
    <2>1. wd' \in [Modems -> {"none", "poll", "restart"}]
        BY <1>13 DEF TypeOK, Poll
    <2>2. left' \in [Modems -> 0..(Polls + 1)]
        <3>1. left[m] \in 0..(Polls + 1)
            BY DEF TypeOK
        <3>2. \E i \in 0..(Polls + 1) : left' = [left EXCEPT ![m] = i] \/ left' = left
            BY <1>13, <3>1, CountAssumption DEF Poll
        <3>3. QED
            BY <3>2 DEF TypeOK
    <2>3. /\ rst' \in [Modems -> {"off", "tear", "wait"}]
          /\ restarts' \in 0..MaxRestarts /\ usbwait' \in BOOLEAN /\ reset' \subseteq Modems
        BY <1>13, RestartType DEF TypeOK, Poll
    <2>4. QED
        BY <1>13, <2>1, <2>2, <2>3 DEF TypeOK, Poll
<1>14. ASSUME NEW m \in Modems, WatchEnd(m) PROVE TypeOK'
    BY <1>14 DEF TypeOK, WatchEnd
<1>15. ASSUME NEW m \in Modems, RestartTear(m) PROVE TypeOK'
    <2>1. rst' \in [Modems -> {"off", "tear", "wait"}]
        BY <1>15 DEF TypeOK, RestartTear
    <2>2. /\ wan' \in [Wans -> Modems \union {0}]
          /\ currmodem' \in [Wans -> Modems \union {0}]
        BY <1>15, SetWanType, WanAssumption DEF RestartTear
    <2>3. hit' \subseteq Modems
        BY <1>15, LosesType DEF TypeOK, RestartTear
    <2>4. net' \in [Wans -> {"down", "begin", "setup", "up"}]
        BY <1>15 DEF TypeOK, RestartTear
    <2>5. QED
        BY <1>15, <2>1, <2>2, <2>3, <2>4 DEF TypeOK, RestartTear
<1>16. ASSUME NEW m \in Modems, RestartEnd(m) PROVE TypeOK'
    BY <1>16 DEF TypeOK, RestartEnd
<1>17. ASSUME NEW m \in Modems, UnplugTear(m) PROVE TypeOK'
    <2>1. rint[m] \in Wans
        BY <1>17 DEF InterIsWan, UnplugTear
    <2>2. /\ wan' \in [Wans -> Modems \union {0}]
          /\ currmodem' \in [Wans -> Modems \union {0}]
        BY <1>17, <2>1, SetWanType DEF UnplugTear
    <2>3. hit' \subseteq Modems
        BY <1>17, LosesType DEF TypeOK, UnplugTear
    <2>4. QED
        BY <1>17, <2>2, <2>3 DEF TypeOK, UnplugTear
<1>18. ASSUME NEW m \in Modems, UnplugKill(m) PROVE TypeOK'
    <2>1. rm' \in [Modems -> {"off", "tear", "kill", "finish"}] /\ pc' \in [Modems -> PCs]
          /\ my' \in [Modems -> Wans \union {0}] /\ mon' \subseteq Modems
        BY <1>18 DEF TypeOK, UnplugKill, PCs
    <2>2. apn' \in [Modems -> 0..Apns]
        BY <1>18, CountAssumption DEF TypeOK, UnplugKill
    <2>3. /\ wd' \in [Modems -> {"none", "poll", "restart"}]
          /\ left' \in [Modems -> 0..(Polls + 1)] /\ unwatched' \subseteq Modems
        <3>1. CASE UNCHANGED <<wd, left, unwatched>>
            BY <3>1 DEF TypeOK
        <3>2. ASSUME NEW g \in Modems, wd' = [wd EXCEPT ![g] = "none"],
                     left' = [left EXCEPT ![g] = 0],
                     unwatched' = IF g = m THEN unwatched ELSE unwatched \union {g, m}
              PROVE  /\ wd' \in [Modems -> {"none", "poll", "restart"}]
                     /\ left' \in [Modems -> 0..(Polls + 1)] /\ unwatched' \subseteq Modems
            BY <3>2, CountAssumption DEF TypeOK
        <3>3. Watches \subseteq Modems
            BY DEF Watches
        <3>4. QED
            BY <1>18, <3>1, <3>2, <3>3 DEF UnplugKill
    <2>4. QED
        BY <1>18, <2>1, <2>2, <2>3 DEF TypeOK, UnplugKill
<1>19. ASSUME NEW m \in Modems, UnplugFinish(m) PROVE TypeOK'
    BY <1>19 DEF TypeOK, UnplugFinish, Forget
<1>20. ASSUME NEW m \in Modems, Unplug(m) PROVE TypeOK'
    BY <1>20, WanAssumption DEF TypeOK, Unplug
<1>21. ASSUME NEW m \in Modems, Disconnect(m) PROVE TypeOK'
    BY <1>21 DEF TypeOK, Disconnect
<1>22. ASSUME NEW m \in Modems, Monitor(m) PROVE TypeOK'
    <2>1. /\ rst' \in [Modems -> {"off", "tear", "wait"}]
          /\ restarts' \in 0..MaxRestarts /\ usbwait' \in BOOLEAN /\ reset' \subseteq Modems
        BY <1>22, RestartType DEF TypeOK, Monitor
    <2>2. QED
        BY <1>22, <2>1 DEF TypeOK, Monitor
<1>23. ASSUME NEW w \in Wans, QmiBegin(w) \/ QmiNoDevice(w) \/ QmiCallFailed(w) PROVE TypeOK'
    BY <1>23 DEF TypeOK, QmiBegin, QmiNoDevice, QmiCallFailed
<1>24. ASSUME NEW w \in Wans, QmiConnected(w) PROVE TypeOK'
    <2>1. qmi[w] \in Modems
        BY <1>24 DEF TypeOK, QmiConnected
    <2>2. QED
        BY <1>24, <2>1 DEF TypeOK, QmiConnected
<1>25. ASSUME NEW w \in Wans, QmiDenied(w) PROVE TypeOK'
    <2>1. qmi[w] \in Modems
        BY <1>25 DEF TypeOK, QmiDenied
    <2>2. /\ rst' \in [Modems -> {"off", "tear", "wait"}]
          /\ restarts' \in 0..MaxRestarts /\ usbwait' \in BOOLEAN /\ reset' \subseteq Modems
        <3>1. CASE RestartBegin(qmi[w])
            BY <2>1, <3>1, RestartType
        <3>2. CASE UNCHANGED <<restarts, rst, usbwait, reset>>
            BY <3>2 DEF TypeOK
        <3>3. QED
            BY <1>25, <3>1, <3>2 DEF QmiDenied
    <2>3. net' \in [Wans -> {"down", "begin", "setup", "up"}]
        BY <1>25, WanAssumption DEF TypeOK, QmiDenied
    <2>4. QED
        BY <1>25, <2>2, <2>3 DEF TypeOK, QmiDenied
<1>26. QED
    BY <1>1, <1>2, <1>3, <1>4, <1>5, <1>6, <1>7, <1>8, <1>9, <1>10, <1>11, <1>12,
       <1>13, <1>14, <1>15, <1>16, <1>17, <1>18, <1>19, <1>20, <1>21, <1>22, <1>23,
       <1>24, <1>25 DEF Next, ScriptStep, WatchStep, RestartStep, UnplugStep

\* Every step keeps the facts about the scripts.
LEMMA LocalStep ==
    ASSUME TypeOK, Local, [Next]_vars
    PROVE  Local'
<1>1. CASE UNCHANGED vars
    BY <1>1 DEF vars, TypeOK, Local, InterIsWan, ApnCounted, NoOrphans,
       KilledStaysDead, ServesNetifd, Chosen, Unattempted
<1>2. ASSUME NEW m \in Modems, Plug(m) PROVE Local'
    BY <1>2 DEF Plug, Forget, TypeOK, Local, InterIsWan, ApnCounted, NoOrphans,
       KilledStaysDead, ServesNetifd, Chosen, Unattempted
<1>3. ASSUME NEW m \in Modems, Ports(m) PROVE Local'
    BY <1>3 DEF Ports, Goto, TypeOK, Local, InterIsWan, ApnCounted, NoOrphans,
       KilledStaysDead, ServesNetifd, Chosen, Unattempted
<1>4. ASSUME NEW m \in Modems, Sim(m) PROVE Local'
    BY <1>4 DEF Sim, Goto, RestartBegin, TypeOK, Local, InterIsWan, ApnCounted,
       NoOrphans, KilledStaysDead, ServesNetifd, Chosen, Unattempted
<1>5. ASSUME NEW m \in Modems, SelectWan(m) PROVE Local'
    <2>1. InterIsWan'
        <3>1. my'[m] \in Wans
            BY <1>5, WanAssumption, ChosenIsWan DEF TypeOK, Local, SelectWan, Goto
        <3>2. QED
            BY <1>5, <3>1 DEF TypeOK, Local, InterIsWan, SelectWan, Goto
    <2>2. ApnCounted'
        BY <1>5 DEF TypeOK, Local, ApnCounted, Unattempted, SelectWan, Goto
    <2>3. (NoOrphans /\ KilledStaysDead /\ ServesNetifd)'
        BY <1>5 DEF TypeOK, Local, NoOrphans, KilledStaysDead, ServesNetifd, SelectWan, Goto
    <2>4. QED
        BY <2>1, <2>2, <2>3 DEF Local
<1>6. ASSUME NEW m \in Modems, Claim(m) PROVE Local'
    BY <1>6 DEF Claim, Goto, TypeOK, Local, InterIsWan, ApnCounted, NoOrphans,
       KilledStaysDead, ServesNetifd, Chosen, Unattempted
<1>7. ASSUME NEW m \in Modems, Configure(m) PROVE Local'
    BY <1>7, CountAssumption DEF Configure, Goto, WriteSection, SetWan, TypeOK, Local,
       InterIsWan, ApnCounted, NoOrphans, KilledStaysDead, ServesNetifd, Chosen,
       Unattempted
<1>8. ASSUME NEW m \in Modems, Attempt(m) PROVE Local'
    BY <1>8 DEF Attempt, Goto, TypeOK, Local, InterIsWan, ApnCounted, NoOrphans,
       KilledStaysDead, ServesNetifd, Chosen, Unattempted
<1>9. ASSUME NEW m \in Modems, PinLocked(m) PROVE Local'
    BY <1>9 DEF PinLocked, Goto, TypeOK, Local, InterIsWan, ApnCounted, NoOrphans,
       KilledStaysDead, ServesNetifd, Chosen, Unattempted
<1>10. ASSUME NEW m \in Modems, Dial(m) PROVE Local'
    BY <1>10, CountAssumption DEF Dial, Goto, WriteSection, SetWan, TypeOK, Local,
       InterIsWan, ApnCounted, NoOrphans, KilledStaysDead, ServesNetifd, Chosen,
       Unattempted
<1>11. ASSUME NEW m \in Modems, NetifdUp(m) PROVE Local'
    BY <1>11 DEF NetifdUp, Goto, WriteSection, SetWan, TypeOK, Local, InterIsWan,
       ApnCounted, NoOrphans, KilledStaysDead, ServesNetifd, Chosen, Unattempted
<1>12. ASSUME NEW m \in Modems, Success(m) PROVE Local'
    BY <1>12 DEF Success, Goto, TypeOK, Local, InterIsWan, ApnCounted, NoOrphans,
       KilledStaysDead, ServesNetifd, Chosen, Unattempted
<1>13. ASSUME NEW m \in Modems, Poll(m) PROVE Local'
    BY <1>13 DEF Poll, RestartBegin, TypeOK, Local, InterIsWan, ApnCounted, NoOrphans,
       KilledStaysDead, ServesNetifd, Chosen, Unattempted
<1>14. ASSUME NEW m \in Modems, WatchEnd(m) PROVE Local'
    BY <1>14 DEF WatchEnd, TypeOK, Local, InterIsWan, ApnCounted, NoOrphans,
       KilledStaysDead, ServesNetifd, Chosen, Unattempted
<1>15. ASSUME NEW m \in Modems, RestartTear(m) PROVE Local'
    BY <1>15 DEF RestartTear, SetWan, TypeOK, Local, InterIsWan, ApnCounted, NoOrphans,
       KilledStaysDead, ServesNetifd, Chosen, Unattempted
<1>16. ASSUME NEW m \in Modems, RestartEnd(m) PROVE Local'
    BY <1>16 DEF RestartEnd, TypeOK, Local, InterIsWan, ApnCounted, NoOrphans,
       KilledStaysDead, ServesNetifd, Chosen, Unattempted
<1>17. ASSUME NEW m \in Modems, UnplugTear(m) PROVE Local'
    BY <1>17 DEF UnplugTear, SetWan, TypeOK, Local, InterIsWan, ApnCounted, NoOrphans,
       KilledStaysDead, ServesNetifd, Chosen, Unattempted
<1>18. ASSUME NEW m \in Modems, UnplugKill(m) PROVE Local'
    BY <1>18 DEF UnplugKill, TypeOK, Local, InterIsWan, ApnCounted, NoOrphans,
       KilledStaysDead, ServesNetifd, Chosen, Unattempted
<1>19. ASSUME NEW m \in Modems, UnplugFinish(m) PROVE Local'
    BY <1>19 DEF UnplugFinish, Forget, TypeOK, Local, InterIsWan, ApnCounted, NoOrphans,
       KilledStaysDead, ServesNetifd, Chosen, Unattempted
<1>20. ASSUME NEW m \in Modems, Unplug(m) PROVE Local'
    BY <1>20, WanAssumption DEF Unplug, TypeOK, Local, InterIsWan, ApnCounted,
       NoOrphans, KilledStaysDead, ServesNetifd, Chosen, Unattempted
<1>21. ASSUME NEW m \in Modems, Disconnect(m) PROVE Local'
    BY <1>21 DEF Disconnect, TypeOK, Local, InterIsWan, ApnCounted, NoOrphans,
       KilledStaysDead, ServesNetifd, Chosen, Unattempted
<1>22. ASSUME NEW m \in Modems, Monitor(m) PROVE Local'
    BY <1>22 DEF Monitor, RestartBegin, TypeOK, Local, InterIsWan, ApnCounted,
       NoOrphans, KilledStaysDead, ServesNetifd, Chosen, Unattempted
<1>23. ASSUME NEW w \in Wans, QmiBegin(w) PROVE Local'
    BY <1>23 DEF QmiBegin, TypeOK, Local, InterIsWan, ApnCounted, NoOrphans,
       KilledStaysDead, ServesNetifd, Chosen, Unattempted
<1>24. ASSUME NEW w \in Wans, QmiConnected(w) PROVE Local'
    BY <1>24 DEF QmiConnected, TypeOK, Local, InterIsWan, ApnCounted, NoOrphans,
       KilledStaysDead, ServesNetifd, Chosen, Unattempted
<1>25. ASSUME NEW w \in Wans, QmiNoDevice(w) PROVE Local'
    BY <1>25 DEF QmiNoDevice, TypeOK, Local, InterIsWan, ApnCounted, NoOrphans,
       KilledStaysDead, ServesNetifd, Chosen, Unattempted
<1>26. ASSUME NEW w \in Wans, QmiCallFailed(w) PROVE Local'
    BY <1>26 DEF QmiCallFailed, TypeOK, Local, InterIsWan, ApnCounted, NoOrphans,
       KilledStaysDead, ServesNetifd, Chosen, Unattempted
<1>27. ASSUME NEW w \in Wans, QmiDenied(w) PROVE Local'
    BY <1>27 DEF QmiDenied, RestartBegin, TypeOK, Local, InterIsWan, ApnCounted,
       NoOrphans, KilledStaysDead, ServesNetifd, Chosen, Unattempted
<1>28. QED
    BY <1>1, <1>2, <1>3, <1>4, <1>5, <1>6, <1>7, <1>8, <1>9, <1>10, <1>11, <1>12,
       <1>13, <1>14, <1>15, <1>16, <1>17, <1>18, <1>19, <1>20, <1>21, <1>22, <1>23,
       <1>24, <1>25, <1>26, <1>27 DEF Next, ScriptStep, WatchStep, RestartStep,
       UnplugStep

\* Every step keeps the first two modems apart.
LEMMA ApartStep ==
    ASSUME TypeOK, Local, Apart, [Next]_vars
    PROVE  Apart'
<1>1. CASE UNCHANGED vars
    BY <1>1 DEF vars, TypeOK, Local, NoOrphans, KilledStaysDead, Apart, WanUnshared,
       ChoiceStaysFree, BothChoosing, Placed, Other
<1>2. ASSUME NEW m \in Modems, Plug(m) PROVE Apart'
    BY <1>2 DEF Plug, Forget, TypeOK, Local, NoOrphans, KilledStaysDead, Apart,
       WanUnshared, ChoiceStaysFree, BothChoosing, Placed, Other
<1>3. ASSUME NEW m \in Modems, Ports(m) PROVE Apart'
    BY <1>3 DEF Ports, Goto, TypeOK, Local, NoOrphans, KilledStaysDead, Apart,
       WanUnshared, ChoiceStaysFree, BothChoosing, Placed, Other
<1>4. ASSUME NEW m \in Modems, Sim(m) PROVE Apart'
    BY <1>4 DEF Sim, Goto, TypeOK, Local, NoOrphans, KilledStaysDead, Apart,
       WanUnshared, ChoiceStaysFree, BothChoosing, Placed, Other
<1>5. ASSUME NEW m \in Modems, SelectWan(m) PROVE Apart'
    BY <1>5 DEF SelectWan, Goto, Wanted, Moving, TypeOK, Local, NoOrphans,
       KilledStaysDead, Apart, WanUnshared, ChoiceStaysFree, BothChoosing, Placed,
       Other
<1>6. ASSUME NEW m \in Modems, Claim(m) PROVE Apart'
    BY <1>6 DEF Claim, Goto, TypeOK, Local, NoOrphans, KilledStaysDead, Apart,
       WanUnshared, ChoiceStaysFree, BothChoosing, Placed, Other
<1>7. ASSUME NEW m \in Modems, Configure(m) PROVE Apart'
    BY <1>7 DEF Configure, Goto, TypeOK, Local, NoOrphans, KilledStaysDead, Apart,
       WanUnshared, ChoiceStaysFree, BothChoosing, Placed, Other
<1>8. ASSUME NEW m \in Modems, Attempt(m) PROVE Apart'
    BY <1>8 DEF Attempt, Goto, TypeOK, Local, NoOrphans, KilledStaysDead, Apart,
       WanUnshared, ChoiceStaysFree, BothChoosing, Placed, Other
<1>9. ASSUME NEW m \in Modems, PinLocked(m) PROVE Apart'
    BY <1>9 DEF PinLocked, Goto, TypeOK, Local, NoOrphans, KilledStaysDead, Apart,
       WanUnshared, ChoiceStaysFree, BothChoosing, Placed, Other
<1>10. ASSUME NEW m \in Modems, Dial(m) PROVE Apart'
    BY <1>10 DEF Dial, Goto, TypeOK, Local, NoOrphans, KilledStaysDead, Apart,
       WanUnshared, ChoiceStaysFree, BothChoosing, Placed, Other
<1>11. ASSUME NEW m \in Modems, NetifdUp(m) PROVE Apart'
    BY <1>11 DEF NetifdUp, Goto, TypeOK, Local, NoOrphans, KilledStaysDead, Apart,
       WanUnshared, ChoiceStaysFree, BothChoosing, Placed, Other
<1>12. ASSUME NEW m \in Modems, Success(m) PROVE Apart'
    BY <1>12 DEF Success, Goto, TypeOK, Local, NoOrphans, KilledStaysDead, Apart,
       WanUnshared, ChoiceStaysFree, BothChoosing, Placed, Other
<1>13. ASSUME NEW m \in Modems, Poll(m) PROVE Apart'
    BY <1>13 DEF Poll, TypeOK, Local, NoOrphans, KilledStaysDead, Apart, WanUnshared,
       ChoiceStaysFree, BothChoosing, Placed, Other
<1>14. ASSUME NEW m \in Modems, WatchEnd(m) PROVE Apart'
    BY <1>14 DEF WatchEnd, TypeOK, Local, NoOrphans, KilledStaysDead, Apart,
       WanUnshared, ChoiceStaysFree, BothChoosing, Placed, Other
<1>15. ASSUME NEW m \in Modems, RestartTear(m) PROVE Apart'
    BY <1>15 DEF RestartTear, TypeOK, Local, NoOrphans, KilledStaysDead, Apart,
       WanUnshared, ChoiceStaysFree, BothChoosing, Placed, Other
<1>16. ASSUME NEW m \in Modems, RestartEnd(m) PROVE Apart'
    BY <1>16 DEF RestartEnd, TypeOK, Local, NoOrphans, KilledStaysDead, Apart,
       WanUnshared, ChoiceStaysFree, BothChoosing, Placed, Other
<1>17. ASSUME NEW m \in Modems, UnplugTear(m) PROVE Apart'
    BY <1>17 DEF UnplugTear, TypeOK, Local, NoOrphans, KilledStaysDead, Apart,
       WanUnshared, ChoiceStaysFree, BothChoosing, Placed, Other
<1>18. ASSUME NEW m \in Modems, UnplugKill(m) PROVE Apart'
    BY <1>18 DEF UnplugKill, TypeOK, Local, NoOrphans, KilledStaysDead, Apart,
       WanUnshared, ChoiceStaysFree, BothChoosing, Placed, Other
<1>19. ASSUME NEW m \in Modems, UnplugFinish(m) PROVE Apart'
    BY <1>19 DEF UnplugFinish, Forget, TypeOK, Local, NoOrphans, KilledStaysDead, Apart,
       WanUnshared, ChoiceStaysFree, BothChoosing, Placed, Other
<1>20. ASSUME NEW m \in Modems, Unplug(m) PROVE Apart'
    BY <1>20 DEF Unplug, TypeOK, Local, NoOrphans, KilledStaysDead, Apart, WanUnshared,
       ChoiceStaysFree, BothChoosing, Placed, Other
<1>21. ASSUME NEW m \in Modems, Disconnect(m) PROVE Apart'
    BY <1>21 DEF Disconnect, TypeOK, Local, NoOrphans, KilledStaysDead, Apart,
       WanUnshared, ChoiceStaysFree, BothChoosing, Placed, Other
<1>22. ASSUME NEW m \in Modems, Monitor(m) PROVE Apart'
    BY <1>22 DEF Monitor, TypeOK, Local, NoOrphans, KilledStaysDead, Apart, WanUnshared,
       ChoiceStaysFree, BothChoosing, Placed, Other
<1>23. ASSUME NEW w \in Wans, QmiBegin(w) PROVE Apart'
    BY <1>23 DEF QmiBegin, TypeOK, Local, NoOrphans, KilledStaysDead, Apart,
       WanUnshared, ChoiceStaysFree, BothChoosing, Placed, Other
<1>24. ASSUME NEW w \in Wans, QmiConnected(w) PROVE Apart'
    BY <1>24 DEF QmiConnected, TypeOK, Local, NoOrphans, KilledStaysDead, Apart,
       WanUnshared, ChoiceStaysFree, BothChoosing, Placed, Other
<1>25. ASSUME NEW w \in Wans, QmiNoDevice(w) PROVE Apart'
    BY <1>25 DEF QmiNoDevice, TypeOK, Local, NoOrphans, KilledStaysDead, Apart,
       WanUnshared, ChoiceStaysFree, BothChoosing, Placed, Other
<1>26. ASSUME NEW w \in Wans, QmiCallFailed(w) PROVE Apart'
    BY <1>26 DEF QmiCallFailed, TypeOK, Local, NoOrphans, KilledStaysDead, Apart,
       WanUnshared, ChoiceStaysFree, BothChoosing, Placed, Other
<1>27. ASSUME NEW w \in Wans, QmiDenied(w) PROVE Apart'
    BY <1>27 DEF QmiDenied, TypeOK, Local, NoOrphans, KilledStaysDead, Apart,
       WanUnshared, ChoiceStaysFree, BothChoosing, Placed, Other
<1>28. QED
    BY <1>1, <1>2, <1>3, <1>4, <1>5, <1>6, <1>7, <1>8, <1>9, <1>10, <1>11, <1>12,
       <1>13, <1>14, <1>15, <1>16, <1>17, <1>18, <1>19, <1>20, <1>21, <1>22, <1>23,
       <1>24, <1>25, <1>26, <1>27 DEF Next, ScriptStep, WatchStep, RestartStep,
       UnplugStep

\* Every step keeps what is taken down apart from what is in use.
LEMMA TearingStep ==
    ASSUME TypeOK, Local, Apart, Tearing, [Next]_vars
    PROVE  Tearing'
<1>1. CASE UNCHANGED vars
    BY <1>1 DEF vars, TypeOK, Local, InterIsWan, Chosen, KilledStaysDead, Apart,
       WanUnshared, ChoiceStaysFree, BothChoosing, Tearing, UnplugTearsOwn,
       ChoiceSparesTear, PlacedHasWan, UnpluggedIsUnused, Placed, Other
<1>2. ASSUME NEW m \in Modems, Plug(m) PROVE Tearing'
    BY <1>2, WanAssumption DEF Plug, Forget, TypeOK, Local, InterIsWan, Chosen,
       KilledStaysDead, Apart, WanUnshared, ChoiceStaysFree, BothChoosing, Tearing,
       UnplugTearsOwn, ChoiceSparesTear, PlacedHasWan, UnpluggedIsUnused, Placed,
       Other
<1>3. ASSUME NEW m \in Modems, Ports(m) PROVE Tearing'
    BY <1>3, WanAssumption DEF Ports, Goto, TypeOK, Local, InterIsWan, Chosen,
       KilledStaysDead, Apart, WanUnshared, ChoiceStaysFree, BothChoosing, Tearing,
       UnplugTearsOwn, ChoiceSparesTear, PlacedHasWan, UnpluggedIsUnused, Placed,
       Other
<1>4. ASSUME NEW m \in Modems, Sim(m) PROVE Tearing'
    BY <1>4, WanAssumption DEF Sim, Goto, TypeOK, Local, InterIsWan, Chosen,
       KilledStaysDead, Apart, WanUnshared, ChoiceStaysFree, BothChoosing, Tearing,
       UnplugTearsOwn, ChoiceSparesTear, PlacedHasWan, UnpluggedIsUnused, Placed,
       Other
<1>5. ASSUME NEW m \in Modems, SelectWan(m) PROVE Tearing'
    BY <1>5, WanAssumption DEF SelectWan, Goto, Wanted, Moving, TypeOK, Local,
       InterIsWan, Chosen, KilledStaysDead, Apart, WanUnshared, ChoiceStaysFree,
       BothChoosing, Tearing, UnplugTearsOwn, ChoiceSparesTear, PlacedHasWan,
       UnpluggedIsUnused, Placed, Other
<1>6. ASSUME NEW m \in Modems, Claim(m) PROVE Tearing'
    BY <1>6, WanAssumption DEF Claim, Goto, TypeOK, Local, InterIsWan, Chosen,
       KilledStaysDead, Apart, WanUnshared, ChoiceStaysFree, BothChoosing, Tearing,
       UnplugTearsOwn, ChoiceSparesTear, PlacedHasWan, UnpluggedIsUnused, Placed,
       Other
<1>7. ASSUME NEW m \in Modems, Configure(m) PROVE Tearing'
    BY <1>7, WanAssumption DEF Configure, Goto, TypeOK, Local, InterIsWan, Chosen,
       KilledStaysDead, Apart, WanUnshared, ChoiceStaysFree, BothChoosing, Tearing,
       UnplugTearsOwn, ChoiceSparesTear, PlacedHasWan, UnpluggedIsUnused, Placed,
       Other
<1>8. ASSUME NEW m \in Modems, Attempt(m) PROVE Tearing'
    BY <1>8, WanAssumption DEF Attempt, Goto, TypeOK, Local, InterIsWan, Chosen,
       KilledStaysDead, Apart, WanUnshared, ChoiceStaysFree, BothChoosing, Tearing,
       UnplugTearsOwn, ChoiceSparesTear, PlacedHasWan, UnpluggedIsUnused, Placed,
       Other
<1>9. ASSUME NEW m \in Modems, PinLocked(m) PROVE Tearing'
    BY <1>9, WanAssumption DEF PinLocked, Goto, TypeOK, Local, InterIsWan, Chosen,
       KilledStaysDead, Apart, WanUnshared, ChoiceStaysFree, BothChoosing, Tearing,
       UnplugTearsOwn, ChoiceSparesTear, PlacedHasWan, UnpluggedIsUnused, Placed,
       Other
<1>10. ASSUME NEW m \in Modems, Dial(m) PROVE Tearing'
    BY <1>10, WanAssumption DEF Dial, Goto, TypeOK, Local, InterIsWan, Chosen,
       KilledStaysDead, Apart, WanUnshared, ChoiceStaysFree, BothChoosing, Tearing,
       UnplugTearsOwn, ChoiceSparesTear, PlacedHasWan, UnpluggedIsUnused, Placed,
       Other
<1>11. ASSUME NEW m \in Modems, NetifdUp(m) PROVE Tearing'
    BY <1>11, WanAssumption DEF NetifdUp, Goto, TypeOK, Local, InterIsWan, Chosen,
       KilledStaysDead, Apart, WanUnshared, ChoiceStaysFree, BothChoosing, Tearing,
       UnplugTearsOwn, ChoiceSparesTear, PlacedHasWan, UnpluggedIsUnused, Placed,
       Other
<1>12. ASSUME NEW m \in Modems, Success(m) PROVE Tearing'
    BY <1>12, WanAssumption DEF Success, Goto, TypeOK, Local, InterIsWan, Chosen,
       KilledStaysDead, Apart, WanUnshared, ChoiceStaysFree, BothChoosing, Tearing,
       UnplugTearsOwn, ChoiceSparesTear, PlacedHasWan, UnpluggedIsUnused, Placed,
       Other
<1>13. ASSUME NEW m \in Modems, Poll(m) PROVE Tearing'
    BY <1>13, WanAssumption DEF Poll, TypeOK, Local, InterIsWan, Chosen,
       KilledStaysDead, Apart, WanUnshared, ChoiceStaysFree, BothChoosing, Tearing,
       UnplugTearsOwn, ChoiceSparesTear, PlacedHasWan, UnpluggedIsUnused, Placed,
       Other
<1>14. ASSUME NEW m \in Modems, WatchEnd(m) PROVE Tearing'
    BY <1>14, WanAssumption DEF WatchEnd, TypeOK, Local, InterIsWan, Chosen,
       KilledStaysDead, Apart, WanUnshared, ChoiceStaysFree, BothChoosing, Tearing,
       UnplugTearsOwn, ChoiceSparesTear, PlacedHasWan, UnpluggedIsUnused, Placed,
       Other
<1>15. ASSUME NEW m \in Modems, RestartTear(m) PROVE Tearing'
    BY <1>15, WanAssumption DEF RestartTear, TypeOK, Local, InterIsWan, Chosen,
       KilledStaysDead, Apart, WanUnshared, ChoiceStaysFree, BothChoosing, Tearing,
       UnplugTearsOwn, ChoiceSparesTear, PlacedHasWan, UnpluggedIsUnused, Placed,
       Other
<1>16. ASSUME NEW m \in Modems, RestartEnd(m) PROVE Tearing'
    BY <1>16, WanAssumption DEF RestartEnd, TypeOK, Local, InterIsWan, Chosen,
       KilledStaysDead, Apart, WanUnshared, ChoiceStaysFree, BothChoosing, Tearing,
       UnplugTearsOwn, ChoiceSparesTear, PlacedHasWan, UnpluggedIsUnused, Placed,
       Other
<1>17. ASSUME NEW m \in Modems, UnplugTear(m) PROVE Tearing'
    BY <1>17, WanAssumption DEF UnplugTear, TypeOK, Local, InterIsWan, Chosen,
       KilledStaysDead, Apart, WanUnshared, ChoiceStaysFree, BothChoosing, Tearing,
       UnplugTearsOwn, ChoiceSparesTear, PlacedHasWan, UnpluggedIsUnused, Placed,
       Other
<1>18. ASSUME NEW m \in Modems, UnplugKill(m) PROVE Tearing'
    BY <1>18, WanAssumption DEF UnplugKill, TypeOK, Local, InterIsWan, Chosen,
       KilledStaysDead, Apart, WanUnshared, ChoiceStaysFree, BothChoosing, Tearing,
       UnplugTearsOwn, ChoiceSparesTear, PlacedHasWan, UnpluggedIsUnused, Placed,
       Other
<1>19. ASSUME NEW m \in Modems, UnplugFinish(m) PROVE Tearing'
    BY <1>19, WanAssumption DEF UnplugFinish, Forget, TypeOK, Local, InterIsWan, Chosen,
       KilledStaysDead, Apart, WanUnshared, ChoiceStaysFree, BothChoosing, Tearing,
       UnplugTearsOwn, ChoiceSparesTear, PlacedHasWan, UnpluggedIsUnused, Placed,
       Other
<1>20. ASSUME NEW m \in Modems, Unplug(m) PROVE Tearing'
    BY <1>20, WanAssumption DEF Unplug, TypeOK, Local, InterIsWan, Chosen,
       KilledStaysDead, Apart, WanUnshared, ChoiceStaysFree, BothChoosing, Tearing,
       UnplugTearsOwn, ChoiceSparesTear, PlacedHasWan, UnpluggedIsUnused, Placed,
       Other
<1>21. ASSUME NEW m \in Modems, Disconnect(m) PROVE Tearing'
    BY <1>21, WanAssumption DEF Disconnect, TypeOK, Local, InterIsWan, Chosen,
       KilledStaysDead, Apart, WanUnshared, ChoiceStaysFree, BothChoosing, Tearing,
       UnplugTearsOwn, ChoiceSparesTear, PlacedHasWan, UnpluggedIsUnused, Placed,
       Other
<1>22. ASSUME NEW m \in Modems, Monitor(m) PROVE Tearing'
    BY <1>22, WanAssumption DEF Monitor, TypeOK, Local, InterIsWan, Chosen,
       KilledStaysDead, Apart, WanUnshared, ChoiceStaysFree, BothChoosing, Tearing,
       UnplugTearsOwn, ChoiceSparesTear, PlacedHasWan, UnpluggedIsUnused, Placed,
       Other
<1>23. ASSUME NEW w \in Wans, QmiBegin(w) PROVE Tearing'
    BY <1>23, WanAssumption DEF QmiBegin, TypeOK, Local, InterIsWan, Chosen,
       KilledStaysDead, Apart, WanUnshared, ChoiceStaysFree, BothChoosing, Tearing,
       UnplugTearsOwn, ChoiceSparesTear, PlacedHasWan, UnpluggedIsUnused, Placed,
       Other
<1>24. ASSUME NEW w \in Wans, QmiConnected(w) PROVE Tearing'
    BY <1>24, WanAssumption DEF QmiConnected, TypeOK, Local, InterIsWan, Chosen,
       KilledStaysDead, Apart, WanUnshared, ChoiceStaysFree, BothChoosing, Tearing,
       UnplugTearsOwn, ChoiceSparesTear, PlacedHasWan, UnpluggedIsUnused, Placed,
       Other
<1>25. ASSUME NEW w \in Wans, QmiNoDevice(w) PROVE Tearing'
    BY <1>25, WanAssumption DEF QmiNoDevice, TypeOK, Local, InterIsWan, Chosen,
       KilledStaysDead, Apart, WanUnshared, ChoiceStaysFree, BothChoosing, Tearing,
       UnplugTearsOwn, ChoiceSparesTear, PlacedHasWan, UnpluggedIsUnused, Placed,
       Other
<1>26. ASSUME NEW w \in Wans, QmiCallFailed(w) PROVE Tearing'
    BY <1>26, WanAssumption DEF QmiCallFailed, TypeOK, Local, InterIsWan, Chosen,
       KilledStaysDead, Apart, WanUnshared, ChoiceStaysFree, BothChoosing, Tearing,
       UnplugTearsOwn, ChoiceSparesTear, PlacedHasWan, UnpluggedIsUnused, Placed,
       Other
<1>27. ASSUME NEW w \in Wans, QmiDenied(w) PROVE Tearing'
    BY <1>27, WanAssumption DEF QmiDenied, TypeOK, Local, InterIsWan, Chosen,
       KilledStaysDead, Apart, WanUnshared, ChoiceStaysFree, BothChoosing, Tearing,
       UnplugTearsOwn, ChoiceSparesTear, PlacedHasWan, UnpluggedIsUnused, Placed,
       Other
<1>28. QED
    BY <1>1, <1>2, <1>3, <1>4, <1>5, <1>6, <1>7, <1>8, <1>9, <1>10, <1>11, <1>12,
       <1>13, <1>14, <1>15, <1>16, <1>17, <1>18, <1>19, <1>20, <1>21, <1>22, <1>23,
       <1>24, <1>25, <1>26, <1>27 DEF Next, ScriptStep, WatchStep, RestartStep,
       UnplugStep

\* A script that writes the section of its WAN leaves every other modem its section,
\* or counts it as hit.
LEMMA OthersKept ==
    ASSUME TypeOK, InterIsWan, KeepsSection, NEW m \in Modems, NEW n \in Modems \ {m},
           my[m] \in Wans,
           WriteSection(m, 0) \/ UNCHANGED <<section, hit>>, UNCHANGED <<tables, my, reset>>,
           pc'[n] = pc[n],
           n \in (used \ (NoPort \union Netifd \union reset \union hit))'
    PROVE  SectionKept(n)'
<1>1. SectionKept(n) /\ n \in used
    BY DEF KeepsSection, SectionKept, WriteSection
<1>2. my[n] \in Wans \/ my[n] = 0
    BY DEF TypeOK
<1>3. inter[n] \in Wans \/ inter[n] = 0
    BY DEF TypeOK
<1>4. ASSUME NEW w \in Wans, wan[w] = n PROVE wan'[w] = n
    BY <1>1, <1>4 DEF TypeOK, WriteSection, SetWan, Loses
<1>5. pc[n] \in {"attempt", "dial"} => my[n] \in Wans
    BY DEF InterIsWan, Chosen
<1>6. QED
    BY <1>1, <1>2, <1>3, <1>4, <1>5 DEF SectionKept

\* Every step keeps the section of a modem's WAN its own.
LEMMA KeepsSectionStep ==
    ASSUME TypeOK, Local, UnpluggedIsUnused, KeepsSection, [Next]_vars
    PROVE  KeepsSection'
<1>1. CASE UNCHANGED vars
    BY <1>1 DEF vars, KeepsSection, SectionKept
<1>2. ASSUME NEW m \in Modems, Plug(m) PROVE KeepsSection'
    BY <1>2, WanAssumption DEF Plug, Forget, TypeOK, Local, InterIsWan,
       ServesNetifd, Chosen, UnpluggedIsUnused, KeepsSection, SectionKept
<1>3. ASSUME NEW m \in Modems, Ports(m) PROVE KeepsSection'
    BY <1>3, WanAssumption DEF Ports, Goto, TypeOK, Local, InterIsWan, ServesNetifd,
       Chosen, UnpluggedIsUnused, KeepsSection, SectionKept
<1>4. ASSUME NEW m \in Modems, Sim(m) PROVE KeepsSection'
    BY <1>4, WanAssumption DEF Sim, Goto, RestartBegin, TypeOK, Local, InterIsWan,
       ServesNetifd, Chosen, UnpluggedIsUnused, KeepsSection, SectionKept
<1>5. ASSUME NEW m \in Modems, SelectWan(m) PROVE KeepsSection'
    BY <1>5, WanAssumption DEF SelectWan, Goto, TypeOK, Local, InterIsWan,
       ServesNetifd, Chosen, UnpluggedIsUnused, KeepsSection, SectionKept
<1>6. ASSUME NEW m \in Modems, Claim(m) PROVE KeepsSection'
    BY <1>6, WanAssumption DEF Claim, Goto, TypeOK, Local, InterIsWan, ServesNetifd,
       Chosen, UnpluggedIsUnused, KeepsSection, SectionKept
<1>7. ASSUME NEW m \in Modems, Configure(m) PROVE KeepsSection'
    <2>1. my[m] \in Wans
        BY <1>7 DEF Configure, Goto, Local, InterIsWan, Chosen
    <2>2. /\ WriteSection(m, 0) \/ UNCHANGED <<section, hit>>
          /\ UNCHANGED <<tables, my, reset>>
        BY <1>7 DEF Configure
    <2>3. ASSUME NEW n \in (used \ (NoPort \union Netifd \union reset \union hit))'
          PROVE  SectionKept(n)'
        <3>1. n \in Modems
            BY <2>2 DEF TypeOK
        <3>2. CASE n # m
            <4>1. pc'[n] = pc[n]
                BY <1>7, <3>1, <3>2 DEF TypeOK, Configure, Goto
            <4>2. QED
                BY <2>1, <2>2, <2>3, <3>1, <3>2, <4>1, OthersKept DEF Local
        <3>3. CASE n = m
            <4>1. SectionKept(m) /\ m \in used
                BY <2>2, <2>3, <3>3 DEF KeepsSection, SectionKept, WriteSection
            <4>2. pc[m] = "config" /\ m \notin connected /\ inter[m] = my[m] /\ my[m] # 0
                BY <1>7, <2>1, <4>1, WanAssumption DEF Configure, Goto, SectionKept
            <4>3. WriteSection(m, 0) => wan'[my[m]] = m
                BY <2>1 DEF TypeOK, WriteSection, SetWan
            <4>4. /\ pc'[m] \in {"attempt", "done"}
                  /\ m \notin NoDhcp => wan'[my[m]] = m
                BY <1>7, <2>2, <3>1, <3>3, <4>1, <4>3 DEF TypeOK, Configure, Goto, SectionKept
            <4>5. QED
                BY <2>2, <3>3, <4>2, <4>4 DEF SectionKept
        <3>4. QED
            BY <3>2, <3>3
    <2>4. QED
        BY <2>3 DEF KeepsSection
<1>8. ASSUME NEW m \in Modems, Attempt(m) PROVE KeepsSection'
    BY <1>8, WanAssumption DEF Attempt, Goto, TypeOK, Local, InterIsWan,
       ServesNetifd, Chosen, UnpluggedIsUnused, KeepsSection, SectionKept
<1>9. ASSUME NEW m \in Modems, PinLocked(m) PROVE KeepsSection'
    BY <1>9, WanAssumption DEF PinLocked, Goto, TypeOK, Local, InterIsWan,
       ServesNetifd, Chosen, UnpluggedIsUnused, KeepsSection, SectionKept
<1>10. ASSUME NEW m \in Modems, Dial(m) PROVE KeepsSection'
    <2>1. my[m] \in Wans
        BY <1>10 DEF Dial, Goto, Local, InterIsWan, Chosen
    <2>2. /\ WriteSection(m, 0) \/ UNCHANGED <<section, hit>>
          /\ UNCHANGED <<tables, my, reset>>
        BY <1>10 DEF Dial
    <2>3. ASSUME NEW n \in (used \ (NoPort \union Netifd \union reset \union hit))'
          PROVE  SectionKept(n)'
        <3>1. n \in Modems
            BY <2>2 DEF TypeOK
        <3>2. CASE n # m
            <4>1. pc'[n] = pc[n]
                BY <1>10, <3>1, <3>2 DEF TypeOK, Dial, Goto
            <4>2. QED
                BY <2>1, <2>2, <2>3, <3>1, <3>2, <4>1, OthersKept DEF Local
        <3>3. CASE n = m
            <4>1. SectionKept(m) /\ m \in used
                BY <2>2, <2>3, <3>3 DEF KeepsSection, SectionKept, WriteSection
            <4>2. pc[m] = "dial" /\ m \notin connected /\ inter[m] = my[m] /\ my[m] # 0
                BY <1>10, <2>1, <4>1, WanAssumption DEF Dial, Goto, SectionKept
            <4>3. WriteSection(m, 0) => wan'[my[m]] = m
                BY <2>1 DEF TypeOK, WriteSection, SetWan
            <4>4. /\ pc'[m] \in {"success", "attempt", "failed"}
                  /\ pc'[m] = "success" \/ m \notin NoDhcp => wan'[my[m]] = m
                BY <1>10, <2>2, <3>1, <3>3, <4>1, <4>3 DEF TypeOK, Dial, Goto, SectionKept
            <4>5. QED
                BY <2>2, <3>3, <4>2, <4>4 DEF SectionKept
        <3>4. QED
            BY <3>2, <3>3
    <2>4. QED
        BY <2>3 DEF KeepsSection
<1>11. ASSUME NEW m \in Modems, NetifdUp(m) PROVE KeepsSection'
    BY <1>11, WanAssumption DEF NetifdUp, Goto, WriteSection, SetWan, Loses, TypeOK,
       Local, InterIsWan, ServesNetifd, Chosen, UnpluggedIsUnused, KeepsSection, SectionKept
<1>12. ASSUME NEW m \in Modems, Success(m) PROVE KeepsSection'
    BY <1>12, WanAssumption DEF Success, Goto, TypeOK, Local, InterIsWan,
       ServesNetifd, Chosen, UnpluggedIsUnused, KeepsSection, SectionKept
<1>13. ASSUME NEW m \in Modems, Poll(m) PROVE KeepsSection'
    BY <1>13, WanAssumption DEF Poll, RestartBegin, TypeOK, Local, InterIsWan,
       ServesNetifd, Chosen, UnpluggedIsUnused, KeepsSection, SectionKept
<1>14. ASSUME NEW m \in Modems, WatchEnd(m) PROVE KeepsSection'
    BY <1>14, WanAssumption DEF WatchEnd, TypeOK, Local, InterIsWan, ServesNetifd,
       Chosen, UnpluggedIsUnused, KeepsSection, SectionKept
<1>15. ASSUME NEW m \in Modems, RestartTear(m) PROVE KeepsSection'
    BY <1>15, WanAssumption DEF RestartTear, SetWan, Loses, TypeOK, Local,
       InterIsWan, ServesNetifd, Chosen, UnpluggedIsUnused, KeepsSection, SectionKept
<1>16. ASSUME NEW m \in Modems, RestartEnd(m) PROVE KeepsSection'
    BY <1>16, WanAssumption DEF RestartEnd, TypeOK, Local, InterIsWan, ServesNetifd,
       Chosen, UnpluggedIsUnused, KeepsSection, SectionKept
<1>17. ASSUME NEW m \in Modems, UnplugTear(m) PROVE KeepsSection'
    BY <1>17, WanAssumption DEF UnplugTear, SetWan, Loses, TypeOK, Local,
       InterIsWan, ServesNetifd, Chosen, UnpluggedIsUnused, KeepsSection, SectionKept
<1>18. ASSUME NEW m \in Modems, UnplugKill(m) PROVE KeepsSection'
    BY <1>18, WanAssumption DEF UnplugKill, TypeOK, Local, InterIsWan, ServesNetifd,
       Chosen, UnpluggedIsUnused, KeepsSection, SectionKept
<1>19. ASSUME NEW m \in Modems, UnplugFinish(m) PROVE KeepsSection'
    BY <1>19, WanAssumption DEF UnplugFinish, Forget, TypeOK, Local, InterIsWan,
       ServesNetifd, Chosen, UnpluggedIsUnused, KeepsSection, SectionKept
<1>20. ASSUME NEW m \in Modems, Unplug(m) PROVE KeepsSection'
    BY <1>20, WanAssumption DEF Unplug, TypeOK, Local, InterIsWan, ServesNetifd,
       Chosen, UnpluggedIsUnused, KeepsSection, SectionKept
<1>21. ASSUME NEW m \in Modems, Disconnect(m) PROVE KeepsSection'
    BY <1>21, WanAssumption DEF Disconnect, TypeOK, Local, InterIsWan, ServesNetifd,
       Chosen, UnpluggedIsUnused, KeepsSection, SectionKept
<1>22. ASSUME NEW m \in Modems, Monitor(m) PROVE KeepsSection'
    BY <1>22, WanAssumption DEF Monitor, RestartBegin, TypeOK, Local, InterIsWan,
       ServesNetifd, Chosen, UnpluggedIsUnused, KeepsSection, SectionKept
<1>23. ASSUME NEW w \in Wans, QmiBegin(w) PROVE KeepsSection'
    BY <1>23, WanAssumption DEF QmiBegin, TypeOK, Local, InterIsWan, ServesNetifd,
       Chosen, UnpluggedIsUnused, KeepsSection, SectionKept
<1>24. ASSUME NEW w \in Wans, QmiConnected(w) PROVE KeepsSection'
    BY <1>24, WanAssumption DEF QmiConnected, TypeOK, Local, InterIsWan,
       ServesNetifd, Chosen, UnpluggedIsUnused, KeepsSection, SectionKept
<1>25. ASSUME NEW w \in Wans, QmiNoDevice(w) PROVE KeepsSection'
    BY <1>25, WanAssumption DEF QmiNoDevice, TypeOK, Local, InterIsWan,
       ServesNetifd, Chosen, UnpluggedIsUnused, KeepsSection, SectionKept
<1>26. ASSUME NEW w \in Wans, QmiCallFailed(w) PROVE KeepsSection'
    BY <1>26, WanAssumption DEF QmiCallFailed, TypeOK, Local, InterIsWan,
       ServesNetifd, Chosen, UnpluggedIsUnused, KeepsSection, SectionKept
<1>27. ASSUME NEW w \in Wans, QmiDenied(w) PROVE KeepsSection'
    BY <1>27, WanAssumption DEF QmiDenied, RestartBegin, TypeOK, Local, InterIsWan,
       ServesNetifd, Chosen, UnpluggedIsUnused, KeepsSection, SectionKept
<1>28. QED
    BY <1>1, <1>2, <1>3, <1>4, <1>5, <1>6, <1>7, <1>8, <1>9, <1>10, <1>11, <1>12,
       <1>13, <1>14, <1>15, <1>16, <1>17, <1>18, <1>19, <1>20, <1>21, <1>22, <1>23,
       <1>24, <1>25, <1>26, <1>27 DEF Next, ScriptStep, WatchStep, RestartStep,
       UnplugStep

-----------------------------------------------------------------------------

\* The invariant holds when the router has started ...
LEMMA InitInv == Init => Inv
<1>1. Init => TypeOK
    <2>1. 0 \in 0..Apns /\ 0 \in 0..(Polls + 1) /\ 0 \in 0..MaxPlugs /\ 0 \in 0..MaxRestarts
        BY CountAssumption, BoundAssumption
    <2>2. Init => pc \in [Modems -> PCs]
        BY DEF Init, PCs
    <2>3. Init => /\ apn \in [Modems -> 0..Apns] /\ left \in [Modems -> 0..(Polls + 1)]
                  /\ plugs \in 0..MaxPlugs /\ restarts \in 0..MaxRestarts
        BY <2>1 DEF Init
    <2>4. Init => /\ inter \in [Modems -> Wans \union {0}] /\ my \in [Modems -> Wans \union {0}]
                  /\ rint \in [Modems -> Wans \union {0}]
                  /\ wan \in [Wans -> Modems \union {0}]
                  /\ currmodem \in [Wans -> Modems \union {0}]
                  /\ qmi \in [Wans -> Modems \union {0}]
        BY DEF Init
    <2>5. Init => /\ net \in [Wans -> {"down", "begin", "setup", "up"}]
                  /\ wd \in [Modems -> {"none", "poll", "restart"}]
                  /\ rst \in [Modems -> {"off", "tear", "wait"}]
                  /\ rm \in [Modems -> {"off", "tear", "kill", "finish"}]
        BY DEF Init
    <2>6. Init => /\ used = {} /\ connected = {} /\ mon = {} /\ usbwait = FALSE
                  /\ raced = {} /\ claimed = {} /\ reset = {} /\ hit = {} /\ unwatched = {}
        BY DEF Init
    <2>7. QED
        BY <2>2, <2>3, <2>4, <2>5, <2>6 DEF TypeOK
<1>2. Init => Local
    BY DEF Init, Local, InterIsWan, ApnCounted, NoOrphans, KilledStaysDead, ServesNetifd, Chosen
<1>3. Init => Apart
    BY DEF Init, Apart, WanUnshared, ChoiceStaysFree, BothChoosing, Placed, Modems
<1>4. Init => Tearing
    BY DEF Init, Tearing, UnplugTearsOwn, ChoiceSparesTear, PlacedHasWan, UnpluggedIsUnused, Placed
<1>5. Init => KeepsSection
    BY DEF Init, KeepsSection
<1>6. QED
    BY <1>1, <1>2, <1>3, <1>4, <1>5 DEF Inv

\* ... and every step keeps it.
LEMMA NextInv == Inv /\ [Next]_vars => Inv'
<1>1. SUFFICES ASSUME Inv, [Next]_vars PROVE Inv'
    OBVIOUS
<1>2. TypeOK'
    BY <1>1, TypeStep DEF Inv, Local
<1>3. Local'
    BY <1>1, LocalStep DEF Inv
<1>4. Apart'
    BY <1>1, ApartStep DEF Inv
<1>5. Tearing'
    BY <1>1, TearingStep DEF Inv
<1>6. KeepsSection'
    BY <1>1, KeepsSectionStep DEF Inv, Tearing
<1>7. QED
    BY <1>2, <1>3, <1>4, <1>5, <1>6 DEF Inv

\* The types of the connection scripts' state hold in every reachable state: the
\* countdown of chkconn1.sh stays within its timeout, isplist is not read beyond
\* its end and every WAN that is configured or taken down is one.
THEOREM TypeCorrect == Spec => []TypeOK
<1>1. Inv => TypeOK
    BY DEF Inv
<1>2. QED
    BY <1>1, InitInv, NextInv, PTL DEF Spec

\* When the unplug handler of modeswitch.sh is through, no create_proto and (but for
\* netifd's modems) no con_monitor of that modem is left.
THEOREM NoOrphansHolds == Spec => []NoOrphans
<1>1. Inv => NoOrphans
    BY DEF Inv, Local
<1>2. QED
    BY <1>1, InitInv, NextInv, PTL DEF Spec

\* Modems 1 and 2 are never on one WAN unless they chose at the same time: the check
\* of create_connect.sh is right but not atomic.
THEOREM WanUnsharedHolds == Spec => []WanUnshared
<1>1. Inv => WanUnshared
    BY DEF Inv, Apart
<1>2. QED
    BY <1>1, InitInv, NextInv, PTL DEF Spec

\* The unplug handler of one of the first two modems does not take down the WAN the
\* other is using, if they did not choose their WANs in each other's way.
THEOREM UnplugTearsOwnHolds == Spec => []UnplugTearsOwn
<1>1. Inv => UnplugTearsOwn
    BY DEF Inv, Tearing
<1>2. QED
    BY <1>1, InitInv, NextInv, PTL DEF Spec

\* A modem that create_connect.sh has connected is the one that the network section
\* of its WAN is configured for, unless it was reset or another modem's script
\* rewrote the section.
THEOREM ConnectedOwnsWanHolds == Spec => []ConnectedOwnsWan
<1>1. Inv => ConnectedOwnsWan
    BY DEF Inv, KeepsSection, SectionKept, ConnectedOwnsWan
<1>2. QED
    BY <1>1, InitInv, NextInv, PTL DEF Spec
=============================================================================
