------------------------------ MODULE SmsStore ------------------------------
(***************************************************************************)
(* The SMS store of one modem and the scripts that work on it: processsms, *)
(* which lists the SIM memory for the web page and moves messages there    *)
(* from the modem's own memory, delsms.sh and delall.sh, which delete, and *)
(* sys2sms.sh, which writes.  They share one lock directory, and processsms*)
(* decides from a count (smsnum) whether the list must be read again.      *)
(*                                                                         *)
(* The lock is one variable here: module GcomLock has the same lock step   *)
(* by step.  New is that processsms removes it when it starts.  One AT     *)
(* command is one step.  Modems without SIM memory (smsloc ME) only list   *)
(* and delete, with the same code, and are not modelled.                   *)
(***************************************************************************)
EXTENDS Integers, FiniteSets

CONSTANTS
  Msgs,       \* messages that may arrive or be written
  Stored,     \* those that may be in ME from the start
  Commands,   \* those that smsread.lua acts on and deletes
  Requests,   \* calls of delsms.sh, delall.sh and sys2sms.sh
  AutoDelete, \* the delsms.sh that smsread.lua starts
  None,       \* an empty slot, nobody
  Proc, Dead, \* owners of the lock: processsms, and one that was killed
  SmCap,      \* slots of the SIM memory (SM)
  MeCap,      \* slots of the modem's memory (ME), the METC of processsms
  MaxKills    \* bound: times processsms is killed

\* 999 is no count: it stands for "read the list again".
ASSUME SizeAssumption ==
  SmCap \in 1 .. 998 /\ MeCap \in Nat \ {0} /\ MaxKills \in Nat

ASSUME NameAssumption ==
  /\ Commands \cup Stored \subseteq Msgs /\ AutoDelete \in Requests
  /\ None \notin Msgs /\ None \notin [msg : Msgs, new : BOOLEAN]
  /\ Requests \cap {None, Proc, Dead} = {}
  /\ None # Proc /\ None # Dead /\ Proc # Dead

SmSlots == 1 .. SmCap
MeSlots == 1 .. MeCap

VARIABLES
  sm, me,     \* the two memories: slot -> [msg, new] or None
  mem3,       \* where the modem puts what it receives
  pending,    \* messages nobody has seen yet
  lock,       \* /tmp/smslockN: None or its owner
  pp,         \* where processsms is
  used, mesc, meslot, pdu, temp,   \* its USED, MESC, MESLOT, PDU, /tmp/smstempN
  hour,       \* HH is the hour of now, with no quiet pass yet or one, or past
  smsnum,     \* modem.modemN.smsnum
  list,       \* /tmp/smstextN: slot -> message
  req,        \* the other scripts: [pc, kind, named, left, mem, msg]
  kills,      \* counter of MaxKills
  erased,     \* history: messages that delsms.sh or delall.sh deleted
  mistaken,   \* history: <<request, slot>> where another message was deleted
              \* than the request named
  acted,      \* history: how often a message was listed as new
  robbed      \* history: processsms removed the lock of a script at work

memory == <<sm, me, mem3, pending>>
local == <<used, mesc, meslot, pdu, temp>>
page == <<hour, smsnum, list>>
history == <<erased, mistaken, acted, robbed>>
vars == <<memory, lock, pp, local, page, req, kills, history>>

Slot == [msg : Msgs, new : BOOLEAN] \cup {None}
Phases == {"off", "setup", "idle", "count", "decide", "cmgr", "cmgw", "cmgd",
           "step", "cmgl", "commit", "publish", "release", "sleep"}
Names == UNION {[slots -> Msgs \cup {None}] : slots \in SUBSET SmSlots}
Request == [pc : {"none", "wait", "in", "mark", "out", "done"},
            kind : {"none", "del", "all", "write"}, named : Names,
            left : SUBSET SmSlots, mem : {"SM", "ME"}, msg : Msgs \cup {None}]
NoNames == [s \in {} |-> None]
Idle == [pc |-> "none", kind |-> "none", named |-> NoNames, left |-> {},
         mem |-> "SM", msg |-> None]
\* A script that was started and waits for the lock.
Asked(kind, named, mem, msg) ==
  [pc |-> "wait", kind |-> kind, named |-> named, left |-> DOMAIN named,
   mem |-> mem, msg |-> msg]

TypeOK ==
  /\ sm \in [SmSlots -> Slot] /\ me \in [MeSlots -> Slot]
  /\ mem3 \in {"SM", "ME"} /\ pending \subseteq Msgs
  /\ lock \in Requests \cup {None, Proc, Dead}
  /\ pp \in Phases
  /\ used \in 0 .. SmCap /\ mesc \in 0 .. MeCap /\ meslot \in 0 .. MeCap
  /\ pdu \in Slot /\ temp \in [SmSlots -> Slot]
  /\ hour \in {"fresh", "same", "past"} /\ smsnum \in 0 .. SmCap \cup {999}
  /\ list \in [SmSlots -> Msgs \cup {None}]
  /\ req \in [Requests -> Request]
  /\ kills \in 0 .. MaxKills
  /\ erased \subseteq Msgs /\ mistaken \subseteq Requests \X SmSlots
  /\ acted \in [Msgs -> 0 .. 2] /\ robbed \in BOOLEAN

\* The modem may have messages in ME from an earlier time, when SM was full.
Init ==
  /\ sm = [s \in SmSlots |-> None]
  /\ me \in [MeSlots -> {None} \cup {[msg |-> m, new |-> TRUE] : m \in Stored}]
  /\ \A s, t \in MeSlots : me[s] = me[t] => s = t \/ me[s] = None
  /\ mem3 = "SM" /\ pending = {m \in Msgs : \A s \in MeSlots : me[s] = None \/ me[s].msg # m}
  /\ lock = None /\ pp = "off"
  /\ used = 0 /\ mesc = 0 /\ meslot = 0 /\ pdu = None
  /\ temp = [s \in SmSlots |-> None]
  /\ hour = "fresh" /\ smsnum = 999
  /\ list = [s \in SmSlots |-> None]
  /\ req = [r \in Requests |-> Idle]
  /\ kills = 0
  /\ erased = {} /\ mistaken = {} /\ acted = [m \in Msgs |-> 0] /\ robbed = FALSE

Full(mem) == {s \in DOMAIN mem : mem[s] # None}
Free(mem) == DOMAIN mem \ Full(mem)
Held(mem) == {mem[s].msg : s \in Full(mem)}
Count(mem) == Cardinality(Full(mem))
MsgAt(mem, s) == IF mem[s] = None THEN None ELSE mem[s].msg
Put(mem, s, m, new) == [mem EXCEPT ![s] = [msg |-> m, new |-> new]]
Read(mem) == [s \in DOMAIN mem |-> IF mem[s] = None THEN None
                                   ELSE [msg |-> mem[s].msg, new |-> FALSE]]

-----------------------------------------------------------------------------
(* The modem: a message arrives when the memory mem3 names has room.        *)

Receive(m) ==
  /\ m \in pending
  /\ \/ \E s \in Free(sm) : mem3 = "SM" /\ sm' = Put(sm, s, m, TRUE) /\ UNCHANGED me
     \/ \E s \in Free(me) : mem3 = "ME" /\ me' = Put(me, s, m, TRUE) /\ UNCHANGED sm
  /\ pending' = pending \ {m}
  /\ UNCHANGED <<mem3, lock, pp, local, page, req, kills, history>>

-----------------------------------------------------------------------------
(* processsms                                                              *)

At(from, to) == pp = from /\ pp' = to

\* check_sms.sh starts it; it removes the lock, whoever holds it.
Start ==
  /\ At("off", "setup")
  /\ lock' = None
  /\ robbed' = (robbed \/ \E r \in Requests : lock = r)
  /\ UNCHANGED <<memory, local, page, req, kills, erased, mistaken, acted>>

\* Up to the main loop: the memories, the count, the hour.
Setup ==
  /\ At("setup", "idle")
  /\ mem3' = "SM" /\ meslot' = 0
  /\ smsnum' = 999 /\ hour' = "fresh"
  /\ UNCHANGED <<sm, me, pending, lock, used, mesc, pdu, temp, list, req, kills, history>>

Take ==
  /\ lock = None
  /\ At("idle", "count")
  /\ lock' = Proc
  /\ UNCHANGED <<memory, local, page, req, kills, history>>

\* The counts of both memories; new messages go to ME while SM is full.
CountUsed ==
  /\ At("count", "decide")
  /\ used' = Count(sm) /\ mesc' = Count(me)
  /\ mem3' = IF Count(sm) = SmCap THEN "ME" ELSE "SM"
  /\ UNCHANGED <<sm, me, pending, lock, meslot, pdu, temp, page, req, kills, history>>

\* Mutant: the hour is not looked at.
DecideByCount ==
  /\ pp = "decide"
  /\ pp' = IF used # smsnum THEN "cmgl"
           ELSE IF mem3 = "SM" /\ used < SmCap /\ mesc > 0 THEN "cmgr" ELSE "release"
  /\ hour' = IF used = smsnum /\ hour = "fresh" THEN "same" ELSE hour
  /\ UNCHANGED <<memory, lock, local, smsnum, list, req, kills, history>>

\* The list is read again when the count or the hour has changed; otherwise,
\* with room in SM, one slot of ME is looked at.
Decide ==
  /\ pp = "decide"
  /\ pp' = IF used # smsnum \/ hour = "past" THEN "cmgl"
           ELSE IF mem3 = "SM" /\ used < SmCap /\ mesc > 0 THEN "cmgr" ELSE "release"
  /\ hour' = IF used = smsnum /\ hour = "fresh" THEN "same" ELSE hour
  /\ UNCHANGED <<memory, lock, local, smsnum, list, req, kills, history>>

\* AT+CMGR=MESLOT: reading marks the message as read in the modem.
Cmgr ==
  /\ pp = "cmgr"
  /\ IF meslot \in Full(me)
     THEN /\ pdu' = me[meslot] /\ me' = Put(me, meslot, me[meslot].msg, FALSE)
          /\ pp' = "cmgw"
     ELSE pp' = "step" /\ UNCHANGED <<pdu, me>>
  /\ UNCHANGED <<sm, mem3, pending, lock, used, mesc, meslot, temp, page, req, kills, history>>

\* Mutant: the copy is written as unread.
StatusIsNew == TRUE

\* Rstat, the status the message had before it was read.
Status == pdu.new

\* Mutant: a write that timed out counts as done.
AfterTimeoutDelete == "cmgd"

\* MREF is empty: the message stays in ME.
AfterTimeout == "step"

\* smswrite.gcom: stored and confirmed, or timed out, stored or not.
Cmgw ==
  /\ pp = "cmgw"
  /\ mesc' = mesc - 1
  /\ \/ \E s \in Free(sm) : /\ sm' = Put(sm, s, pdu.msg, Status)
                            /\ pp' \in {"cmgd", AfterTimeout}
     \/ pp' = AfterTimeout /\ UNCHANGED sm
  /\ UNCHANGED <<me, mem3, pending, lock, used, meslot, pdu, temp, page, req, kills, history>>

Cmgd ==
  /\ At("cmgd", "step")
  /\ me' = [me EXCEPT ![meslot] = None]
  /\ UNCHANGED <<sm, mem3, pending, lock, local, page, req, kills, history>>

NextSlot == IF meslot + 1 > MeCap \/ mesc = 0 THEN 0 ELSE meslot + 1

Advance ==
  /\ At("step", "release")
  /\ meslot' = NextSlot /\ pdu' = None
  /\ UNCHANGED <<memory, lock, used, mesc, temp, page, req, kills, history>>

\* AT+CMGL=4 lists every message and marks it as read in the modem.
Cmgl ==
  /\ At("cmgl", "commit")
  /\ temp' = sm /\ sm' = Read(sm)
  /\ UNCHANGED <<me, mem3, pending, lock, used, mesc, meslot, pdu, page, req, kills, history>>

Commit ==
  /\ At("commit", "publish")
  /\ smsnum' = used
  /\ UNCHANGED <<memory, lock, local, hour, list, req, kills, history>>

NewIn(t) == {s \in Full(t) : t[s].new}

\* Mutant: messages are listed by position, without their slot numbers.
ListedByPosition(t) ==
  LET nth(i) == {s \in Full(t) : Cardinality({u \in Full(t) : u <= s}) = i}
  IN  [i \in SmSlots |-> IF nth(i) = {} THEN None ELSE t[CHOOSE s \in nth(i) : TRUE].msg]

\* The page names the slot of every message.
Listed(t) == [s \in SmSlots |-> MsgAt(t, s)]

\* smsread.lua writes the page, acts on new commands and starts the delsms.sh
\* that deletes them.
Publish ==
  /\ At("publish", "release")
  /\ list' = Listed(temp)
  /\ acted' = [m \in Msgs |-> IF acted[m] < 2 /\ \E s \in NewIn(temp) : temp[s].msg = m
                              THEN acted[m] + 1 ELSE acted[m]]
  /\ hour' = "fresh"
  /\ LET cmd == {s \in NewIn(temp) : temp[s].msg \in Commands}
     IN  req' = IF cmd = {} \/ req[AutoDelete].pc # "none" THEN req
                ELSE [req EXCEPT ![AutoDelete] =
                        Asked("del", [s \in cmd |-> temp[s].msg], "SM", None)]
  /\ temp' = [s \in SmSlots |-> None]
  /\ UNCHANGED <<memory, lock, used, mesc, meslot, pdu, smsnum, kills, erased, mistaken, robbed>>

\* Mutant: the lock is not removed after a pass.
ReleaseKeepsLock ==
  /\ At("release", "sleep")
  /\ used' = 0 /\ mesc' = 0
  /\ UNCHANGED <<memory, lock, meslot, pdu, temp, page, req, kills, history>>

\* The counts are taken again in the next pass.
Release ==
  /\ At("release", "sleep")
  /\ lock' = None
  /\ used' = 0 /\ mesc' = 0
  /\ UNCHANGED <<memory, meslot, pdu, temp, page, req, kills, history>>

Sleep ==
  /\ At("sleep", "idle")
  /\ UNCHANGED <<memory, lock, local, page, req, kills, history>>

ProcStep ==
  \/ Setup \/ Take \/ CountUsed \/ Decide \/ Cmgr \/ Cmgw \/ Cmgd \/ Advance
  \/ Cmgl \/ Commit \/ Publish \/ Release \/ Sleep

\* The unplug handler kills it, wherever it is; its variables go with it.
Kill ==
  /\ pp # "off" /\ kills < MaxKills
  /\ kills' = kills + 1
  /\ pp' = "off"
  /\ lock' = IF lock = Proc THEN Dead ELSE lock
  /\ used' = 0 /\ mesc' = 0 /\ meslot' = 0 /\ pdu' = None
  /\ temp' = [s \in SmSlots |-> None]
  /\ UNCHANGED <<memory, page, req, history>>

\* The clock passes the hour.  A pass takes some 20 s, so at least one pass of
\* every hour does not read the list because of the hour.
Hour ==
  /\ hour = "same" /\ hour' = "past"
  /\ UNCHANGED <<memory, lock, pp, local, smsnum, list, req, kills, history>>

-----------------------------------------------------------------------------
(* The other scripts                                                       *)

Submit(r, q) ==
  /\ r # AutoDelete /\ req[r] = Idle
  /\ req' = [req EXCEPT ![r] = q]

Shown == {s \in SmSlots : list[s] # None}

\* The user picks messages from the page.
AskDelete(r, slots) ==
  /\ slots # {}
  /\ Submit(r, Asked("del", [s \in slots |-> list[s]], "SM", None))
  /\ UNCHANGED <<memory, lock, pp, local, page, kills, history>>

AskDeleteAll(r) ==
  /\ Submit(r, Asked("all", NoNames, "SM", None))
  /\ UNCHANGED <<memory, lock, pp, local, page, kills, history>>

\* sys2sms.sh: AT+CPMS? before it waits for the lock.
AskWrite(r, m) ==
  /\ m \in pending
  /\ pending' = pending \ {m}
  /\ Submit(r, Asked("write", NoNames, mem3, m))
  /\ UNCHANGED <<sm, me, mem3, lock, pp, local, page, kills, history>>

Enter(r) ==
  /\ req[r].pc = "wait" /\ lock = None
  /\ req' = [req EXCEPT ![r].pc = "in"]
  /\ lock' = r
  /\ UNCHANGED <<memory, pp, local, page, kills, history>>

\* kill -0 fails: the lock of a killed processsms is removed, by delsms.sh or
\* by the next processsms.
RemoveStale ==
  /\ lock = Dead
  /\ pp = "idle" \/ \E r \in Requests : req[r].pc = "wait"
  /\ lock' = None
  /\ UNCHANGED <<memory, pp, local, page, req, kills, history>>

\* AT+CMGD of the next slot; the answer is not looked at.
Delete(r, s) ==
  /\ req[r].pc = "in" /\ req[r].kind = "del" /\ s \in req[r].left
  /\ req' = [req EXCEPT ![r].left = @ \ {s},
                        ![r].pc = IF req[r].left = {s} THEN "mark" ELSE "in"]
  /\ \/ /\ sm' = [sm EXCEPT ![s] = None]
        /\ erased' = erased \cup ({MsgAt(sm, s)} \ {None})
        /\ mistaken' = IF MsgAt(sm, s) \in {None, req[r].named[s]} THEN mistaken
                       ELSE mistaken \cup {<<r, s>>}
     \/ UNCHANGED <<sm, erased, mistaken>>
  /\ UNCHANGED <<me, mem3, pending, lock, pp, local, page, kills, acted, robbed>>

DeleteAll(r) ==
  /\ req[r].pc = "in" /\ req[r].kind = "all"
  /\ req' = [req EXCEPT ![r].pc = "mark"]
  /\ sm' = [s \in SmSlots |-> None]
  /\ erased' = erased \cup Held(sm)
  /\ UNCHANGED <<me, mem3, pending, lock, pp, local, page, kills, mistaken, acted, robbed>>

\* Mutant: the deletion is not announced.
MarkNothing(r) ==
  /\ req[r].pc = "mark"
  /\ req' = [req EXCEPT ![r].pc = "out"]
  /\ UNCHANGED <<memory, lock, pp, local, page, kills, history>>

\* smsnum=999 makes processsms read the list again.
Mark(r) ==
  /\ req[r].pc = "mark"
  /\ req' = [req EXCEPT ![r].pc = "out"]
  /\ smsnum' = 999
  /\ UNCHANGED <<memory, lock, pp, local, hour, list, kills, history>>

\* smswrite.gcom: into the memory read before, if that has room; otherwise the
\* text was not written and may be tried again.
Write(r) ==
  /\ req[r].pc = "in" /\ req[r].kind = "write"
  /\ req' = [req EXCEPT ![r].pc = "out"]
  /\ \/ \E s \in Free(sm) : /\ req[r].mem = "SM" /\ UNCHANGED <<me, pending>>
                            /\ sm' = Put(sm, s, req[r].msg, TRUE)
     \/ \E s \in Free(me) : /\ req[r].mem = "ME" /\ UNCHANGED <<sm, pending>>
                            /\ me' = Put(me, s, req[r].msg, TRUE)
     \/ pending' = pending \cup {req[r].msg} /\ UNCHANGED <<sm, me>>
  /\ UNCHANGED <<mem3, lock, pp, local, page, kills, history>>

\* rm -rf of the lock, whether it is still this script's or not.
Leave(r) ==
  /\ req[r].pc = "out"
  /\ req' = [req EXCEPT ![r].pc = "done", ![r].mem = "SM", ![r].msg = None]
  /\ lock' = None
  /\ UNCHANGED <<memory, pp, local, page, kills, history>>

ReqStep(r) ==
  \/ \E s \in SmSlots : Delete(r, s)
  \/ DeleteAll(r) \/ Mark(r) \/ Write(r) \/ Leave(r)

User(r) ==
  \/ \E slots \in SUBSET Shown : AskDelete(r, slots)
  \/ AskDeleteAll(r)
  \/ \E m \in Msgs : AskWrite(r, m)

Next ==
  \/ \E m \in Msgs : Receive(m)
  \/ Start \/ ProcStep \/ Kill \/ Hour \/ RemoveStale
  \/ \E r \in Requests : User(r) \/ Enter(r) \/ ReqStep(r)

Spec == Init /\ [][Next]_vars

\* Scripts go on, hours pass, and a script that looks once a second finds the
\* lock free while processsms sleeps between two passes.
Fairness ==
  /\ WF_vars(Start) /\ WF_vars(ProcStep) /\ WF_vars(Hour) /\ WF_vars(RemoveStale)
  /\ SF_vars(Take)
  /\ \A r \in Requests : WF_vars(ReqStep(r)) /\ SF_vars(Enter(r))

FairSpec == Spec /\ Fairness

-----------------------------------------------------------------------------
(* PROPERTIES *)

\* A message that came in is in one of the memories until a script deletes it,
\* although processsms can be killed, and the write of the copy can time out,
\* anywhere in the move from ME to SM.
NothingLost ==
  \A m \in Msgs : \/ m \in pending \cup erased \cup Held(sm) \cup Held(me)
                  \/ \E r \in Requests : req[r].msg = m /\ req[r].pc \in {"wait", "in"}

\* A message is listed as new, and so acted on by smsread.lua, once at most:
\* the copy in SM keeps the status the message had in ME.
NewOnce == \A m \in Msgs : acted[m] <= 1

\* Slots are not what the page says any more only when another script worked
\* on the same slot: delsms.sh deletes a message it was not given only after
\* another request, of that slot or of all, was let in before it.
WrongOnlyAfterAnother ==
  \A p \in mistaken : \E r \in Requests \ {p[1]} :
    req[r].kind = "all" \/ (req[r].kind = "del" /\ p[2] \in DOMAIN req[r].named)

\* While nobody is at work, a count that agrees means that the page agrees too,
\* unless processsms once removed the lock of a script at work.
PageIsCurrent ==
  pp = "sleep" /\ lock = None /\ ~robbed /\ smsnum = Count(sm) =>
    list = [s \in SmSlots |-> MsgAt(sm, s)]

\* Every message in the SIM memory comes to the page or is deleted, also when
\* the lock was robbed and the count is wrong: the change of the hour repairs it.
ComesToPage ==
  \A m \in Msgs : m \in Held(sm) ~> (\E s \in SmSlots : list[s] = m) \/ m \notin Held(sm)

\* Every request gets its turn, also after processsms died with the lock.
RequestsEnd == \A r \in Requests : req[r].pc = "wait" ~> req[r].pc = "done"
=============================================================================
