------------------------------ MODULE Connect ------------------------------
(***************************************************************************)
(* The life of a modem after modeswitch.sh has given it a slot: choosing a *)
(* WAN and dialling (connect/create_connect.sh), the netifd handler of QMI *)
(* modems (rqmi's qmi.sh), the watchdog of a connection attempt            *)
(* (chkconn.sh, chkconn1.sh), the connection monitor (conmon.sh), the      *)
(* restart they ask for (luci/restart.sh, luci/restartrun.sh), the manual  *)
(* disconnect (disconnect.sh) and what the unplug handler of modeswitch.sh *)
(* takes down.                                                             *)
(*                                                                         *)
(* All of these are processes of their own.  A modem is named by its slot; *)
(* how slots are given out, and what two handlers of one device do to each *)
(* other, is the subject of Modeswitch.                                    *)
(***************************************************************************)
EXTENDS Naturals

CONSTANTS
    MODCNT,     \* number of slots
    Wans,       \* the n of the interfaces wan<n>
    Profile,    \* the WAN in each modem's connection profile: 0 none, or Disabled
    Disabled,   \* the profile's value for "do not connect" (5)
    Netifd,     \* modems dialled by netifd (QMI), not by the script itself
    NoPort,     \* modems without a comm port
    NoDhcp,     \* modems that are not given a DHCP section first: Fibocom NCM, and QMI
                \* modems with the profile's nodhcp
    Apns,       \* entries of isplist
    Polls,      \* timeout of chkconn1.sh (7 or 10)
    MaxPlugs,   \* bound: how often modems are plugged in
    MaxRestarts \* bound: how often restartrun.sh gets to work

Modems == 1..MODCNT

ASSUME CountAssumption == MODCNT \in Nat /\ Apns \in Nat \ {0} /\ Polls \in Nat
ASSUME BoundAssumption == MaxPlugs \in Nat /\ MaxRestarts \in Nat
ASSUME WanAssumption == Wans \subseteq Nat \ {0} /\ Modems \union {1, 2} \subseteq Wans
ASSUME ProfileAssumption ==
    Disabled \notin Wans \union {0} /\ Profile \in [Modems -> Wans \union {0, Disabled}]
ASSUME KindAssumption == Netifd \subseteq Modems /\ NoPort \subseteq Modems /\ NoDhcp \subseteq Modems

VARIABLES
    used,        \* modems with modem.modemN.empty = 0
    connected,   \* modems with modem.modemN.connected = 1
    inter,       \* modem.modemN.inter: the WAN of modem N, or 0
    wan,         \* the modem network.wanN is configured for, or 0
    currmodem,   \* network.wanN.currmodem, or 0
    net,         \* what netifd does with wanN: "down", "begin", "setup", "up"
    qmi,         \* the CURRMODEM of the qmi.sh that does it
    usbwait,     \* /tmp/usbwait exists
    pc,          \* where create_protoN is
    my,          \* its INTER
    apn,         \* how many entries of isplist it has tried
    wd,          \* chkconn1.sh N: "none", "poll", or "restart" while it waits for restart.sh
    left,        \* how often it will still look: its timeout + 1
    mon,         \* modems whose con_monitorN runs
    rst,         \* restartrun.sh N: "off", "tear", "wait"
    rm,          \* the unplug handler of modem N: "off", "tear", "kill", "finish"
    rint,        \* its INTER
    plugs,       \* how often a modem was plugged in
    restarts,    \* how often restartrun.sh got to work
    raced,       \* auxiliary: modems that chose a WAN while another one was moving
    claimed,     \* auxiliary: modems that got a WAN since they were plugged in, before
                 \* they were unplugged
    reset,       \* auxiliary: modems with a step of restartrun.sh since they were plugged in
    hit,         \* auxiliary: modems whose WAN another modem's script reconfigured
    unwatched    \* auxiliary: modems the unplug handler picked the wrong chkconn1 for

tables == <<used, connected, inter>>
section == <<wan, currmodem>>
network == <<section, net, qmi>>
script == <<pc, my, apn>>
watch == <<wd, left, mon>>
unplug == <<rm, rint>>
counts == <<plugs, restarts>>
aux == <<raced, claimed, reset, hit, unwatched>>
vars == <<tables, network, usbwait, script, watch, rst, unplug, counts, aux>>

Init ==
    /\ used = {} /\ connected = {} /\ inter = [m \in Modems |-> 0]
    /\ wan = [w \in Wans |-> 0] /\ currmodem = [w \in Wans |-> 0]
    /\ net = [w \in Wans |-> "down"] /\ qmi = [w \in Wans |-> 0]
    /\ usbwait = FALSE
    /\ pc = [m \in Modems |-> "off"] /\ my = [m \in Modems |-> 0]
    /\ apn = [m \in Modems |-> 0]
    /\ wd = [m \in Modems |-> "none"] /\ left = [m \in Modems |-> 0]
    /\ mon = {}
    /\ rst = [m \in Modems |-> "off"]
    /\ rm = [m \in Modems |-> "off"] /\ rint = [m \in Modems |-> 0]
    /\ plugs = 0 /\ restarts = 0
    /\ raced = {} /\ claimed = {} /\ reset = {} /\ hit = {} /\ unwatched = {}

Goto(m, from, to) == pc[m] = from /\ pc' = [pc EXCEPT ![m] = to]

\* network.wan<w> is deleted and made again for modem m, or for nobody (0).
SetWan(w, m, cm) ==
    /\ wan' = [wan EXCEPT ![w] = m]
    /\ currmodem' = [currmodem EXCEPT ![w] = cm]

\* Whose WAN that was, when it was not the one who rewrites it.
Loses(w, m) == {wan[w]} \intersect (used \ {m})

\* create_connect.sh writes the section of its own WAN.
WriteSection(m, cm) == SetWan(my[m], m, cm) /\ hit' = hit \union Loses(my[m], m)

-----------------------------------------------------------------------------
(* create_connect.sh.                                                      *)

\* The auxiliary variables are about one stay of a modem in its slot.
Forget(m) ==
    /\ raced' = raced \ {m}
    /\ claimed' = claimed \ {m}
    /\ reset' = reset \ {m}
    /\ hit' = hit \ {m}
    /\ unwatched' = unwatched \ {m}

\* modeswitch.sh has registered the modem and starts create_protoN.
Plug(m) ==
    /\ m \notin used
    /\ rm[m] = "off"
    /\ plugs < MaxPlugs
    /\ plugs' = plugs + 1
    /\ used' = used \union {m}
    /\ connected' = connected \ {m}
    /\ usbwait' = FALSE
    /\ pc' = [pc EXCEPT ![m] = "start"]
    /\ Forget(m)
    /\ UNCHANGED <<inter, network, my, apn, watch, rst, unplug, restarts>>

\* Up to the test of the comm port.  Without a port everything up to the loop
\* over isplist is skipped, the loop has nothing to do, and BRK is never set.
Ports(m) ==
    /\ \/ Goto(m, "start", IF m \in NoPort THEN "success" ELSE "sim")
       \/ Goto(m, "start", "done")
    /\ usbwait' = FALSE
    /\ UNCHANGED <<tables, network, my, apn, watch, rst, unplug, counts, aux>>

\* restart.sh, up to the reset of the modem in restartrun.sh.
RestartBegin(m) ==
    /\ rst[m] \in {"off", "wait"}
    /\ \/ /\ m \in used
          /\ restarts < MaxRestarts
          /\ restarts' = restarts + 1
          /\ rst' = [rst EXCEPT ![m] = "tear"]
          /\ usbwait' = TRUE
          /\ reset' = reset \union {m}
       \/ m \notin used /\ UNCHANGED <<restarts, rst, usbwait, reset>>

\* SIM trouble, a profile that only detects, and a disabled profile end it here;
\* simreboot.sh may restart a modem without a SIM.
Sim(m) ==
    /\ \/ Goto(m, "sim", "select") /\ Profile[m] # Disabled /\ UNCHANGED <<restarts, rst, usbwait, reset>>
       \/ Goto(m, "sim", "done") /\ UNCHANGED <<restarts, rst, usbwait, reset>>
       \/ Goto(m, "sim", "done") /\ RestartBegin(m)
    /\ UNCHANGED <<tables, network, my, apn, watch, unplug, plugs, raced, claimed, hit, unwatched>>

Wanted(m) == IF Profile[m] = 0 THEN m ELSE Profile[m]

Other(m) == IF m = 1 THEN 2 ELSE 1

\* The modems on the way to a WAN or away from one while m chooses.
Moving(m) == {n \in Modems \ {m} : pc[n] = "claim" \/ rm[n] # "off"}

\* Mutant of SelectWan: the profile's WAN, whoever is on it.
SelectIgnoresOther(m) ==
    /\ Goto(m, "select", "claim")
    /\ my' = [my EXCEPT ![m] = Wanted(m)]
    /\ raced' = IF Moving(m) = {} THEN raced ELSE raced \union Moving(m) \union {m}
    /\ UNCHANGED <<tables, network, usbwait, apn, watch, rst, unplug, counts,
                   claimed, reset, hit, unwatched>>

\* The profile's WAN, unless the other modem is on it.
SelectWan(m) ==
    /\ Goto(m, "select", "claim")
    /\ my' = [my EXCEPT ![m] = IF Other(m) \in used /\ inter[Other(m)] = Wanted(m)
                               THEN IF Wanted(m) = 1 THEN 2 ELSE 1
                               ELSE Wanted(m)]
    /\ raced' = IF Moving(m) = {} THEN raced ELSE raced \union Moving(m) \union {m}
    /\ UNCHANGED <<tables, network, usbwait, apn, watch, rst, unplug, counts,
                   claimed, reset, hit, unwatched>>

Claim(m) ==
    /\ Goto(m, "claim", "config")
    /\ inter' = [inter EXCEPT ![m] = my[m]]
    /\ claimed' = IF m \in used THEN claimed \union {m} ELSE claimed
    /\ UNCHANGED <<used, connected, network, usbwait, my, apn, watch, rst, unplug, counts,
                   raced, reset, hit, unwatched>>

\* Mutant of Configure: network.wan<INTER> is left as it was.
ConfigureKeepsSection(m) ==
    /\ Goto(m, "config", "attempt") \/ Goto(m, "config", "done")
    /\ UNCHANGED <<tables, network, usbwait, my, apn, watch, rst, unplug, counts, aux>>

\* network.wan<INTER> is rewritten; then a modem forced to PPP or switched off
\* leaves.
Configure(m) ==
    /\ Goto(m, "config", "attempt") \/ Goto(m, "config", "done")
    /\ IF m \in NoDhcp THEN UNCHANGED <<section, hit>> ELSE WriteSection(m, 0)
    /\ UNCHANGED <<tables, net, qmi, usbwait, my, apn, watch, rst, unplug, counts,
                   raced, claimed, reset, unwatched>>

\* Mutant of Attempt: chkconn.sh is not started.
AttemptUnwatched(m) ==
    /\ Goto(m, "attempt", "dial")
    /\ apn' = [apn EXCEPT ![m] = @ + 1]
    /\ UNCHANGED <<tables, network, usbwait, my, watch, rst, unplug, counts, aux>>

\* The next entry of isplist, and chkconn.sh, which starts chkconn1.sh unless ps
\* lists one for this modem.
Attempt(m) ==
    /\ Goto(m, "attempt", "dial")
    /\ apn' = [apn EXCEPT ![m] = @ + 1]
    /\ wd' = IF wd[m] = "none" THEN [wd EXCEPT ![m] = "poll"] ELSE wd
    /\ left' = IF wd[m] = "none" THEN [left EXCEPT ![m] = Polls + 1] ELSE left
    /\ UNCHANGED <<tables, network, usbwait, my, mon, rst, unplug, counts, aux>>

\* The SIM pin is refused: the script ends before it starts chkconn.sh.
PinLocked(m) ==
    /\ Goto(m, "attempt", "done")
    /\ UNCHANGED <<tables, network, usbwait, my, apn, watch, rst, unplug, counts, aux>>

\* Sierra and NCM modems are dialled by the script.  A Fibocom modem gets its
\* section here, with the address it was given, and may fail after that.
Dial(m) ==
    /\ m \notin Netifd
    /\ \/ /\ Goto(m, "dial", "success")
          /\ IF m \in NoDhcp THEN WriteSection(m, 0) ELSE UNCHANGED <<section, hit>>
       \/ /\ Goto(m, "dial", IF apn[m] < Apns THEN "attempt" ELSE "failed")
          /\ \/ UNCHANGED <<section, hit>>
             \/ m \in NoDhcp /\ WriteSection(m, 0)
    /\ UNCHANGED <<tables, net, qmi, usbwait, my, apn, watch, rst, unplug, counts,
                   raced, claimed, reset, unwatched>>

\* QMI modems are left to netifd.
NetifdUp(m) ==
    /\ m \in Netifd
    /\ Goto(m, "dial", "done")
    /\ WriteSection(m, m)
    /\ net' = [net EXCEPT ![my[m]] = "begin"]
    /\ usbwait' = FALSE
    /\ UNCHANGED <<tables, qmi, my, apn, watch, rst, unplug, counts,
                   raced, claimed, reset, unwatched>>

Success(m) ==
    /\ Goto(m, "success", "done")
    /\ mon' = mon \union {m}
    /\ connected' = connected \union {m}
    /\ UNCHANGED <<used, inter, network, usbwait, my, apn, wd, left, rst, unplug, counts, aux>>

-----------------------------------------------------------------------------
(* The rest of restartrun.sh.  The reset itself only reaches the modem;    *)
(* what the modem then does on the bus is Unplug and Plug.                 *)

\* ifdown of the WAN in the profile, but the section rewritten is the one with
\* the modem's own number.
RestartTear(m) ==
    /\ rst[m] = "tear"
    /\ rst' = [rst EXCEPT ![m] = "wait"]
    /\ SetWan(m, 0, 0)
    /\ net' = [w \in Wans |-> IF w \in {m, Profile[m]} THEN "down" ELSE net[w]]
    /\ hit' = hit \union Loses(m, m)
    /\ reset' = reset \union {m}
    /\ UNCHANGED <<tables, qmi, usbwait, script, watch, unplug, counts,
                   raced, claimed, unwatched>>

RestartEnd(m) ==
    /\ rst[m] = "wait"
    /\ ~usbwait
    /\ rst' = [rst EXCEPT ![m] = "off"]
    /\ UNCHANGED <<tables, network, usbwait, script, watch, unplug, counts, aux>>

-----------------------------------------------------------------------------
(* chkconn1.sh, con_monitorN, and netifd's proto_qmi_setup.                *)

\* It looks every 20 seconds; after the last look it sleeps once more and restarts
\* the modem without looking again.
Poll(m) ==
    /\ wd[m] = "poll"
    /\ \/ /\ left[m] > 0 /\ m \in connected
          /\ wd' = [wd EXCEPT ![m] = "none"]
          /\ left' = [left EXCEPT ![m] = 0]
          /\ UNCHANGED <<restarts, rst, usbwait, reset>>
       \/ /\ left[m] > 0 /\ m \notin connected
          /\ left' = [left EXCEPT ![m] = @ - 1]
          /\ UNCHANGED <<wd, restarts, rst, usbwait, reset>>
       \/ /\ left[m] = 0
          /\ wd' = [wd EXCEPT ![m] = "restart"]
          /\ RestartBegin(m)
          /\ UNCHANGED left
    /\ UNCHANGED <<tables, network, script, mon, unplug, plugs, raced, claimed, hit, unwatched>>

\* restart.sh has returned, and chkconn1.sh ends.
WatchEnd(m) ==
    /\ wd[m] = "restart"
    /\ rst[m] = "off"
    /\ wd' = [wd EXCEPT ![m] = "none"]
    /\ UNCHANGED <<tables, network, usbwait, script, left, mon, rst, unplug, counts, aux>>

\* The monitor found no address or a bad ping test, and ends with the restart;
\* or it has nothing to do (switched off, or no address to ping).
Monitor(m) ==
    /\ m \in mon
    /\ mon' = mon \ {m}
    /\ RestartBegin(m) \/ UNCHANGED <<restarts, rst, usbwait, reset>>
    /\ UNCHANGED <<tables, network, script, wd, left, unplug, plugs, raced, claimed, hit, unwatched>>

\* proto_qmi_setup reads currmodem of its interface and starts from nothing.
QmiBegin(w) ==
    /\ net[w] = "begin"
    /\ net' = [net EXCEPT ![w] = "setup"]
    /\ qmi' = [qmi EXCEPT ![w] = currmodem[w]]
    /\ connected' = connected \ {currmodem[w]}
    /\ mon' = mon \ {currmodem[w]}
    /\ UNCHANGED <<used, inter, section, usbwait, script, wd, left, rst, unplug, counts, aux>>

QmiConnected(w) ==
    /\ net[w] = "setup"
    /\ qmi[w] # 0
    /\ net' = [net EXCEPT ![w] = "up"]
    /\ connected' = connected \union {qmi[w]}
    /\ mon' = mon \union {qmi[w]}
    /\ usbwait' = FALSE
    /\ UNCHANGED <<used, inter, section, qmi, script, wd, left, rst, unplug, counts, aux>>

\* NO_DEVICE or NO_IFACE: the interface is set unavailable.
QmiNoDevice(w) ==
    /\ net[w] = "setup"
    /\ net' = [net EXCEPT ![w] = "down"]
    /\ UNCHANGED <<tables, section, qmi, usbwait, script, watch, rst, unplug, counts, aux>>

\* CALL_FAILED: netifd starts the interface again.
QmiCallFailed(w) ==
    /\ net[w] = "setup"
    /\ net' = [net EXCEPT ![w] = "begin"]
    /\ UNCHANGED <<tables, section, qmi, usbwait, script, watch, rst, unplug, counts, aux>>

\* Registration failed: netifd is told not to try again, and the modem restarted,
\* or, while the wizard is at work, WAN 1 taken down.
QmiDenied(w) ==
    /\ net[w] = "setup"
    /\ qmi[w] # 0
    /\ \/ net' = [net EXCEPT ![w] = "down"] /\ RestartBegin(qmi[w])
       \/ net' = [net EXCEPT ![w] = "down", ![1] = "down"]
          /\ UNCHANGED <<restarts, rst, usbwait, reset>>
    /\ UNCHANGED <<tables, section, qmi, script, watch, unplug, plugs,
                   raced, claimed, hit, unwatched>>

-----------------------------------------------------------------------------

\* disconnect.sh: like restartrun.sh it takes down the WAN in the profile.
Disconnect(m) ==
    /\ m \in used
    /\ connected' = connected \ {m}
    /\ mon' = mon \ {m}
    /\ net' = [w \in Wans |-> IF w = Profile[m] THEN "down" ELSE net[w]]
    /\ UNCHANGED <<used, inter, section, qmi, usbwait, script, wd, left, rst, unplug, counts, aux>>

\* Mutant of Unplug: the WAN is taken to have the number of the modem.
UnplugOwnNumber(m) ==
    /\ m \in used
    /\ rm' = [rm EXCEPT ![m] = "tear"]
    /\ rint' = [rint EXCEPT ![m] = m]
    /\ used' = used \ {m}
    /\ connected' = connected \ {m}
    /\ UNCHANGED <<inter, network, usbwait, script, watch, rst, counts, aux>>

\* The unplug handler: the slot first ...
Unplug(m) ==
    /\ m \in used
    /\ rm' = [rm EXCEPT ![m] = "tear"]
    /\ rint' = [rint EXCEPT ![m] = IF inter[m] = 0 THEN m ELSE inter[m]]
    /\ used' = used \ {m}
    /\ connected' = connected \ {m}
    /\ UNCHANGED <<inter, network, usbwait, script, watch, rst, counts, aux>>

\* ... then its WAN ...
UnplugTear(m) ==
    /\ rm[m] = "tear"
    /\ rm' = [rm EXCEPT ![m] = "kill"]
    /\ SetWan(rint[m], 0, 0)
    /\ net' = [net EXCEPT ![rint[m]] = "down"]
    /\ hit' = hit \union Loses(rint[m], m)
    /\ UNCHANGED <<tables, qmi, usbwait, script, watch, rst, rint, counts,
                   raced, claimed, reset, unwatched>>

Watches == {m \in Modems : wd[m] # "none"}

\* Mutant of UnplugKill: con_monitorN is left running.
KillSparesMonitor(m) ==
    /\ rm[m] = "kill"
    /\ rm' = [rm EXCEPT ![m] = "finish"]
    /\ pc' = [pc EXCEPT ![m] = "off"]
    /\ my' = [my EXCEPT ![m] = 0]
    /\ apn' = [apn EXCEPT ![m] = 0]
    /\ \/ Watches = {} /\ UNCHANGED <<wd, left, unwatched>>
       \/ \E g \in Watches :
             /\ wd' = [wd EXCEPT ![g] = "none"]
             /\ left' = [left EXCEPT ![g] = 0]
             /\ unwatched' = IF g = m THEN unwatched ELSE unwatched \union {g, m}
    /\ UNCHANGED <<tables, network, usbwait, mon, rst, rint, counts, raced, claimed, reset, hit>>

\* ... then its processes, and the first chkconn1.sh that ps lists ...
UnplugKill(m) ==
    /\ rm[m] = "kill"
    /\ rm' = [rm EXCEPT ![m] = "finish"]
    /\ pc' = [pc EXCEPT ![m] = "off"]
    /\ my' = [my EXCEPT ![m] = 0]
    /\ apn' = [apn EXCEPT ![m] = 0]
    /\ mon' = mon \ {m}
    /\ \/ Watches = {} /\ UNCHANGED <<wd, left, unwatched>>
       \/ \E g \in Watches :
             /\ wd' = [wd EXCEPT ![g] = "none"]
             /\ left' = [left EXCEPT ![g] = 0]
             /\ unwatched' = IF g = m THEN unwatched ELSE unwatched \union {g, m}
    /\ UNCHANGED <<tables, network, usbwait, rst, rint, counts, raced, claimed, reset, hit>>

\* ... and check_all_empty, which forgets every slot when none is in use.
UnplugFinish(m) ==
    /\ rm[m] = "finish"
    /\ rm' = [rm EXCEPT ![m] = "off"]
    /\ rint' = [rint EXCEPT ![m] = 0]
    /\ inter' = IF used = {} THEN [n \in Modems |-> 0] ELSE inter
    /\ usbwait' = FALSE
    /\ Forget(m)
    /\ UNCHANGED <<used, connected, network, script, watch, rst, counts>>

-----------------------------------------------------------------------------

ScriptStep(m) ==
    \/ Ports(m) \/ Sim(m) \/ SelectWan(m) \/ Claim(m) \/ Configure(m)
    \/ Attempt(m) \/ PinLocked(m) \/ Dial(m) \/ NetifdUp(m) \/ Success(m)

WatchStep(m) == Poll(m) \/ WatchEnd(m)

RestartStep(m) == RestartTear(m) \/ RestartEnd(m)

UnplugStep(m) == UnplugTear(m) \/ UnplugKill(m) \/ UnplugFinish(m)

Next ==
    \/ \E m \in Modems :
          \/ Plug(m) \/ Unplug(m) \/ Disconnect(m) \/ Monitor(m)
          \/ ScriptStep(m) \/ WatchStep(m) \/ RestartStep(m) \/ UnplugStep(m)
    \/ \E w \in Wans : QmiBegin(w) \/ QmiConnected(w) \/ QmiNoDevice(w)
                       \/ QmiCallFailed(w) \/ QmiDenied(w)

\* Processes that can go on do.  Nothing is assumed of the modem, of the network
\* or of the user.
Fairness ==
    \A m \in Modems :
        /\ WF_vars(ScriptStep(m)) /\ WF_vars(WatchStep(m))
        /\ WF_vars(RestartStep(m)) /\ WF_vars(UnplugStep(m))

Spec == Init /\ [][Next]_vars /\ Fairness

-----------------------------------------------------------------------------

PCs == {"off", "start", "sim", "select", "claim", "config", "attempt", "dial",
        "success", "failed", "done"}

\* Where the script's INTER is the number of a WAN.
Chosen == {"claim", "config", "attempt", "dial", "failed"}

\* Every variable keeps its type: in particular the countdown of chkconn1.sh never
\* passes zero and isplist is never read beyond its end.
TypeOK ==
    /\ used \subseteq Modems /\ connected \subseteq Modems
    /\ inter \in [Modems -> Wans \union {0}]
    /\ wan \in [Wans -> Modems \union {0}]
    /\ currmodem \in [Wans -> Modems \union {0}]
    /\ net \in [Wans -> {"down", "begin", "setup", "up"}]
    /\ qmi \in [Wans -> Modems \union {0}]
    /\ usbwait \in BOOLEAN
    /\ pc \in [Modems -> PCs]
    /\ my \in [Modems -> Wans \union {0}]
    /\ apn \in [Modems -> 0..Apns]
    /\ wd \in [Modems -> {"none", "poll", "restart"}]
    /\ left \in [Modems -> 0..(Polls + 1)]
    /\ mon \subseteq Modems
    /\ rst \in [Modems -> {"off", "tear", "wait"}]
    /\ rm \in [Modems -> {"off", "tear", "kill", "finish"}]
    /\ rint \in [Modems -> Wans \union {0}]
    /\ plugs \in 0..MaxPlugs /\ restarts \in 0..MaxRestarts
    /\ raced \subseteq Modems /\ claimed \subseteq Modems /\ reset \subseteq Modems
    /\ hit \subseteq Modems /\ unwatched \subseteq Modems

\* What TypeOK needs to be inductive: a script that has chosen has the number of a
\* WAN, and so has an unplug handler; entries are counted from 0 and up to Apns.
InterIsWan ==
    \A m \in Modems : /\ pc[m] = "select" => Profile[m] # Disabled
                      /\ pc[m] \in Chosen => my[m] \in Wans
                      /\ rm[m] = "tear" => rint[m] \in Wans

Unattempted == {"off", "start", "sim", "select", "claim", "config"}

ApnCounted ==
    \A m \in Modems : /\ pc[m] \in Unattempted => apn[m] = 0
                      /\ pc[m] = "attempt" => apn[m] < Apns

\* The modems that have a WAN to lose: in use, and through with line 897.
Placed(m) == m \in used /\ m \in claimed

\* The check of lines 884-896 works for the first two modems as long as they do
\* not make it at the same time: they are never on one WAN.
WanUnshared ==
    Placed(1) /\ Placed(2) /\ ~({1, 2} \subseteq raced) => inter[1] # inter[2]

\* What WanUnshared needs to be inductive: the WAN that was chosen is still free when
\* it is claimed, and if both choose before either has claimed, that is a race.
ChoiceStaysFree ==
    \A m \in Modems \intersect {1, 2} :
        pc[m] = "claim" /\ Placed(Other(m)) /\ ~({1, 2} \subseteq raced)
            => my[m] # inter[Other(m)]

BothChoosing ==
    {1, 2} \subseteq Modems /\ pc[1] = "claim" /\ pc[2] = "claim" => {1, 2} \subseteq raced

\* A modem that create_connect.sh itself has connected has the network section of
\* its WAN, unless it was reset or another modem's script rewrote the section.
ConnectedOwnsWan ==
    \A m \in used \intersect connected :
        m \notin NoPort \union Netifd \union reset \union hit => wan[inter[m]] = m

\* What ConnectedOwnsWan needs to be inductive, for a modem that is still in use: the
\* WAN in the table is the one the script works on, the section is the modem's own
\* from the moment it is written, and a connected modem's script has ended.
SectionKept(m) ==
    /\ pc[m] \in {"config", "attempt", "dial"} => inter[m] = my[m]
    /\ pc[m] \in {"attempt", "dial"} /\ m \notin NoDhcp => wan[my[m]] = m
    /\ pc[m] = "success" \/ m \in connected => inter[m] # 0 /\ wan[inter[m]] = m
    /\ m \in connected => pc[m] = "done"

KeepsSection ==
    \A m \in used \ (NoPort \union Netifd \union reset \union hit) : SectionKept(m)

\* The unplug handler (lines 584-627 of modeswitch.sh) takes down the WAN of the
\* modem that is gone and not one that the other of the first two modems has come to
\* use since, if the modem had chosen its WAN and the two did not get in each other's
\* way.
UnplugTearsOwn ==
    \A m \in Modems \intersect {1, 2} :
        rm[m] = "tear" /\ m \in claimed /\ Placed(Other(m)) /\ ~({1, 2} \subseteq raced)
            => inter[Other(m)] # rint[m]

\* What UnplugTearsOwn needs to be inductive: a script that is about to claim a WAN
\* will not claim the one that is being taken down, a placed modem has a WAN, and a
\* modem is not in use while its unplug handler runs.
ChoiceSparesTear ==
    \A m \in Modems \intersect {1, 2} :
        rm[m] = "tear" /\ m \in claimed /\ ~({1, 2} \subseteq raced)
        /\ Other(m) \in used /\ pc[Other(m)] = "claim"
            => my[Other(m)] # rint[m]

PlacedHasWan == \A m \in Modems : Placed(m) => inter[m] # 0

UnpluggedIsUnused == \A m \in Modems : rm[m] # "off" => m \notin used

\* Once the unplug handler is through with a modem, none of the processes of the
\* modem is left to work on the next modem in its slot.  (The monitor of a QMI modem
\* is started by netifd, which the handler does not stop for good.)
NoOrphans ==
    \A m \in Modems : m \notin used /\ rm[m] = "off" =>
        pc[m] = "off" /\ (m \in mon => m \in Netifd)

\* What NoOrphans needs to be inductive: what the handler kills stays dead until it
\* is through, and netifd only works for netifd's modems.
KilledStaysDead ==
    \A m \in Modems : rm[m] = "finish" => pc[m] = "off" /\ (m \in mon => m \in Netifd)

ServesNetifd ==
    \A w \in Wans : currmodem[w] \in Netifd \union {0} /\ qmi[w] \in Netifd \union {0}

\* A restart takes down the WAN of the modem that is restarted and nobody else's.
RestartSparesOthers == [][\A m \in Modems : RestartTear(m) => hit' = hit]_vars

\* A modem that create_connect.sh could not connect is restarted (by chkconn1.sh),
\* unless it goes away or the unplug handler of another modem has killed its
\* chkconn1.sh.  (The bound on restarts may come first.)
FailedIsRestarted ==
    \A m \in Modems :
        pc[m] = "failed" ~> \/ m \in reset \union unwatched
                            \/ m \notin used \/ restarts = MaxRestarts
=============================================================================
