--------------------------- MODULE SmsStoreProofs ---------------------------
(***************************************************************************)
(* Proofs about SmsStore for any messages, requests, sizes of the memories *)
(* and number of kills: its types, that no message is lost, that none is   *)
(* listed as new twice, that a wrong deletion needs another request, and   *)
(* that a count that agrees means a page that agrees.                      *)
(***************************************************************************)
EXTENDS SmsStore, FiniteSetTheorems, TLAPS

USE DEF memory, local, page, history

\* What a request carries at each stage of its life.
Carried ==
  \A r \in Requests :
    /\ req[r].pc = "none" => req[r] = Idle
    /\ req[r].kind = "write" /\ req[r].pc \in {"wait", "in", "out"} <=> req[r].msg # None
    /\ req[r].pc = "mark" => req[r].kind \in {"del", "all"}
    /\ req[r].left \subseteq DOMAIN req[r].named
    /\ req[r].pc = "wait" \/ req[r].kind # "del" => req[r].left = DOMAIN req[r].named

\* The move from ME to SM holds on to the message until the copy is written.
Moving ==
  /\ pp \in {"cmgr", "cmgw"} => mesc > 0
  /\ pp \in {"cmgw", "cmgd"} =>
       /\ meslot \in Full(me) /\ pdu # None
       /\ me[meslot].msg = pdu.msg
  /\ pp = "cmgd" => pdu.msg \in Held(sm) \cup erased

\* Places where a message waits to be listed as new.
Kinds == {"air", "request", "sim", "modem", "hand", "page"}
Where == Requests \cup SmSlots \cup MeSlots \cup {None}
NewAt(m, k, x) ==
  \/ k = "air" /\ x = None /\ m \in pending
  \/ k = "request" /\ x \in Requests /\ req[x].msg = m /\ req[x].pc \in {"wait", "in"}
  \/ k = "sim" /\ x \in SmSlots /\ sm[x] # None /\ sm[x].msg = m /\ sm[x].new
  \/ k = "modem" /\ x \in MeSlots /\ me[x] # None /\ me[x].msg = m /\ me[x].new
  \/ k = "hand" /\ x = None /\ pp = "cmgw" /\ pdu.msg = m /\ pdu.new
  \/ k = "page" /\ x \in SmSlots /\ temp[x] # None /\ temp[x].msg = m /\ temp[x].new

\* A message is new in one place at most, and in none once it was acted on.
OnePlace(m) ==
  /\ acted[m] <= 1
  /\ \A k, l \in Kinds, x, y \in Where :
       NewAt(m, k, x) /\ NewAt(m, l, y) => k = l /\ x = y
  /\ \A k \in Kinds, x \in Where : NewAt(m, k, x) => acted[m] = 0

NewInOnePlace == \A m \in Msgs : OnePlace(m)

\* A request has emptied slot s.
Emptied(s) ==
  \E r \in Requests :
    \/ req[r].kind = "all" /\ req[r].pc \in {"mark", "out", "done"}
    \/ req[r].kind = "del" /\ s \in DOMAIN req[r].named \ req[r].left

\* What the page, the list being made and a request say of a slot is true until
\* a request has emptied it.
Claims ==
  /\ \A s \in SmSlots : list[s] # None => MsgAt(sm, s) = list[s] \/ Emptied(s)
  /\ \A s \in SmSlots : temp[s] # None => MsgAt(sm, s) = temp[s].msg \/ Emptied(s)
  /\ \A r \in Requests : \A s \in req[r].left :
       /\ req[r].kind = "del" /\ req[r].named[s] # None
       /\ MsgAt(sm, s) = req[r].named[s] \/ Emptied(s)

\* While nobody was robbed, who works on the store holds the lock.
Exclusive ==
  ~robbed =>
    /\ pp \in Phases \ {"off", "setup", "idle", "sleep"} => lock = Proc
    /\ \A r \in Requests : req[r].pc \in {"in", "mark", "out"} => lock = r

\* A deletion has begun and smsnum does not say so yet.
Unmarked ==
  \E r \in Requests : \/ req[r].pc = "mark"
                      \/ req[r].pc = "in" /\ req[r].left # DOMAIN req[r].named

\* A list l of slots says of each slot what is in it.
TrueOf(l) == \A s \in SmSlots : l[s] # None => MsgAt(sm, s) = l[s]

\* The count is never ahead of the list that it was taken with.
Counted ==
  ~robbed /\ ~Unmarked =>
    /\ pp \in {"decide", "cmgl"} => used <= Count(sm)
    /\ pp \in {"commit", "publish"} => used <= Count(temp) /\ TrueOf(Listed(temp))
    /\ pp = "publish" => smsnum = used
    /\ pp \notin {"off", "setup", "publish"} =>
         smsnum = 999 \/ (smsnum <= Cardinality(Shown) /\ TrueOf(list))

Inv ==
  /\ TypeOK /\ Carried /\ Moving /\ NothingLost /\ NewInOnePlace
  /\ Claims /\ WrongOnlyAfterAnother /\ Exclusive /\ Counted

-----------------------------------------------------------------------------

\* A memory of finitely many slots has a count between zero and its size.
LEMMA CountType ==
    ASSUME NEW n \in Nat, NEW mem, DOMAIN mem = 1..n
    PROVE  IsFiniteSet(Full(mem)) /\ Count(mem) \in 0..n
<1>1. IsFiniteSet(1..n) /\ Cardinality(1..n) = n
    BY FS_Interval
<1>2. Full(mem) \in SUBSET (1..n)
    BY DEF Full
<1>3. IsFiniteSet(Full(mem)) /\ Cardinality(Full(mem)) <= n
    BY <1>1, <1>2, FS_Subset
<1>4. Cardinality(Full(mem)) \in Nat
    BY <1>3, FS_CardinalityType
<1>5. QED
    BY <1>3, <1>4 DEF Count

\* Writing a message into a slot keeps a memory a memory.
LEMMA PutType ==
    ASSUME NEW S, NEW mem \in [S -> Slot], NEW s \in S, NEW m \in Msgs, NEW new \in BOOLEAN
    PROVE  Put(mem, s, m, new) \in [S -> Slot]
BY DEF Put, Slot

\* So does writing it into a free one, or not at all.
LEMMA FilledType ==
    ASSUME NEW S, NEW mem \in [S -> Slot], NEW m \in Msgs, NEW new \in BOOLEAN, NEW after,
           after = mem \/ \E s \in Free(mem) : after = Put(mem, s, m, new)
    PROVE  after \in [S -> Slot]
<1>1. \A s \in Free(mem) : s \in S
    BY DEF Free
<1>2. QED
    BY <1>1, PutType

\* So does reading one.
LEMMA ReadType ==
    ASSUME NEW S, NEW mem \in [S -> Slot]
    PROVE  Read(mem) \in [S -> Slot]
BY DEF Read, Slot

\* A slot that is not empty holds a message, which is new or not.
LEMMA FullSlot ==
    ASSUME NEW v \in Slot, v # None
    PROVE  v.msg \in Msgs /\ v.new \in BOOLEAN /\ v = [msg |-> v.msg, new |-> v.new]
BY DEF Slot

\* The message of a slot is a message, or there is none.
LEMMA MsgAtType ==
    ASSUME NEW S, NEW mem \in [S -> Slot], NEW s \in S
    PROVE  MsgAt(mem, s) \in Msgs \cup {None}
BY FullSlot DEF MsgAt

\* What a script that waits was asked is a request.
LEMMA AskedType ==
    ASSUME NEW kind \in {"del", "all", "write"}, NEW slots \in SUBSET SmSlots,
           NEW named \in [slots -> Msgs \cup {None}],
           NEW mem \in {"SM", "ME"}, NEW msg \in Msgs \cup {None}
    PROVE  Asked(kind, named, mem, msg) \in Request
<1>1. named \in Names
    BY DEF Names
<1>2. DOMAIN named = slots
    OBVIOUS
<1>3. QED
    BY <1>1, <1>2 DEF Asked, Request

\* A request of all, or to write, names no slot.
LEMMA NoNamesType == NoNames \in [{} -> Msgs \cup {None}] /\ DOMAIN NoNames = {}
BY DEF NoNames

\* Every step keeps the types.
LEMMA TypeStep ==
    ASSUME TypeOK, Carried, Moving, NewInOnePlace, [Next]_vars
    PROVE  TypeOK'
<1>0. /\ sm \in [SmSlots -> Slot] /\ me \in [MeSlots -> Slot] /\ pending \subseteq Msgs
      /\ pdu \in Slot /\ temp \in [SmSlots -> Slot] /\ req \in [Requests -> Request]
    BY DEF TypeOK
<1>1. CASE UNCHANGED vars
    BY <1>1 DEF vars, TypeOK
<1>2. ASSUME NEW m \in Msgs, Receive(m) PROVE TypeOK'
    <2>1. sm' \in [SmSlots -> Slot] /\ me' \in [MeSlots -> Slot]
        <3>1. sm' = sm \/ \E s \in Free(sm) : sm' = Put(sm, s, m, TRUE)
            BY <1>2 DEF Receive
        <3>2. me' = me \/ \E s \in Free(me) : me' = Put(me, s, m, TRUE)
            BY <1>2 DEF Receive
        <3>3. QED
            BY <1>0, <3>1, <3>2, FilledType
    <2>2. pending' \subseteq Msgs
        BY <1>2 DEF TypeOK, Receive
    <2>3. QED
        BY <1>2, <2>1, <2>2 DEF TypeOK, Receive
<1>3. CASE Start \/ Setup \/ Take \/ Sleep \/ Hour \/ RemoveStale
    <2>1. /\ pp' \in Phases /\ lock' \in Requests \cup {None, Proc, Dead}
          /\ mem3' \in {"SM", "ME"} /\ hour' \in {"fresh", "same", "past"}
        BY <1>3 DEF TypeOK, Start, Setup, Take, Sleep, Hour, RemoveStale, At, Phases
    <2>2. meslot' \in 0..MeCap /\ smsnum' \in 0..SmCap \cup {999}
        BY <1>3, SizeAssumption DEF TypeOK, Start, Setup, Take, Sleep, Hour, RemoveStale
    <2>3. robbed' \in BOOLEAN
        <3>1. CASE Start
            BY <3>1 DEF Start
        <3>2. CASE UNCHANGED robbed
            BY <3>2 DEF TypeOK
        <3>3. QED
            BY <1>3, <3>1, <3>2 DEF Setup, Take, Sleep, Hour, RemoveStale
    <2>4. QED
        BY <1>3, <2>1, <2>2, <2>3 DEF TypeOK, Start, Setup, Take, Sleep, Hour, RemoveStale
<1>4. CASE CountUsed
    <2>1. Count(sm) \in 0..SmCap /\ Count(me) \in 0..MeCap
        BY CountType, SizeAssumption DEF TypeOK, SmSlots, MeSlots
    <2>2. QED
        BY <1>4, <2>1 DEF TypeOK, CountUsed, At, Phases
<1>5. CASE Decide
    BY <1>5 DEF TypeOK, Decide, Phases
<1>6. CASE Cmgr
    <2>1. meslot \in Full(me) => me[meslot] \in Slot /\ me[meslot].msg \in Msgs
        BY FullSlot DEF TypeOK, Full
    <2>2. meslot \in Full(me) => Put(me, meslot, me[meslot].msg, FALSE) \in [MeSlots -> Slot]
        BY <1>0, <2>1, PutType, Zenon DEF Full
    <2>3. pdu' \in Slot /\ me' \in [MeSlots -> Slot]
        BY <1>0, <1>6, <2>1, <2>2, Zenon DEF Cmgr
    <2>4. pp' \in Phases
        BY <1>6 DEF Cmgr, Phases
    <2>5. QED
        BY <1>6, <2>3, <2>4 DEF TypeOK, Cmgr
<1>7. CASE Cmgw
    <2>1. pdu.msg \in Msgs /\ Status \in BOOLEAN
        BY <1>7, FullSlot DEF Moving, TypeOK, Cmgw, Status
    <2>2. sm' \in [SmSlots -> Slot]
        <3>1. sm' = sm \/ \E s \in Free(sm) : sm' = Put(sm, s, pdu.msg, Status)
            BY <1>7 DEF Cmgw
        <3>2. QED
            BY <1>0, <2>1, <3>1, FilledType
    <2>3. mesc' \in 0..MeCap
        BY <1>7, SizeAssumption DEF TypeOK, Cmgw, Moving
    <2>4. QED
        BY <1>7, <2>2, <2>3 DEF TypeOK, Cmgw, AfterTimeout, Phases
<1>8. CASE Cmgd \/ Advance
    <2>1. pp' \in Phases
        BY <1>8 DEF Cmgd, Advance, At, Phases
    <2>2. me' \in [MeSlots -> Slot] /\ pdu' \in Slot
        BY <1>8 DEF TypeOK, Cmgd, Advance, Slot
    <2>3. meslot' \in 0..MeCap
        BY <1>8, SizeAssumption DEF TypeOK, Cmgd, Advance, NextSlot
    <2>4. QED
        BY <1>8, <2>1, <2>2, <2>3 DEF TypeOK, Cmgd, Advance
<1>9. CASE Cmgl
    BY <1>9, ReadType DEF TypeOK, Cmgl, At, Phases
<1>10. CASE Commit \/ Release \/ Kill
    <2>1. pp' \in Phases /\ lock' \in Requests \cup {None, Proc, Dead}
        BY <1>10 DEF TypeOK, Commit, Release, Kill, At, Phases
    <2>2. pdu' \in Slot /\ temp' \in [SmSlots -> Slot]
        BY <1>10 DEF TypeOK, Commit, Release, Kill, Slot
    <2>3. /\ used' \in 0..SmCap /\ mesc' \in 0..MeCap /\ meslot' \in 0..MeCap
          /\ smsnum' \in 0..SmCap \cup {999} /\ kills' \in 0..MaxKills
        BY <1>10, SizeAssumption DEF TypeOK, Commit, Release, Kill
    <2>4. QED
        BY <1>10, <2>1, <2>2, <2>3 DEF TypeOK, Commit, Release, Kill
<1>11. CASE Publish
    <2>1. list' \in [SmSlots -> Msgs \cup {None}]
        BY <1>11, MsgAtType DEF TypeOK, Publish, Listed
    <2>2. acted' \in [Msgs -> 0..2]
        BY <1>11 DEF TypeOK, Publish
    <2>3. req' \in [Requests -> Request]
        <3> DEFINE cmd == {s \in NewIn(temp) : temp[s].msg \in Commands}
                   named == [s \in cmd |-> temp[s].msg]
        <3>1. cmd \subseteq SmSlots /\ named \in [cmd -> Msgs \cup {None}]
            BY <1>0, FullSlot DEF NewIn, Full
        <3>2. Asked("del", named, "SM", None) \in Request
            BY <3>1, AskedType
        <3>3. req' \in {req, [req EXCEPT ![AutoDelete] = Asked("del", named, "SM", None)]}
            BY <1>11 DEF Publish
        <3> HIDE DEF named
        <3>4. QED
            BY <3>2, <3>3 DEF TypeOK
    <2>4. QED
        BY <1>11, <2>1, <2>2, <2>3 DEF TypeOK, Publish, At, Phases, Slot
<1>12. ASSUME NEW r \in Requests, NEW slots \in SUBSET Shown, AskDelete(r, slots) PROVE TypeOK'
    <2> DEFINE named == [s \in slots |-> list[s]]
    <2>1. slots \subseteq SmSlots /\ named \in [slots -> Msgs \cup {None}]
        BY DEF TypeOK, Shown
    <2>2. Asked("del", named, "SM", None) \in Request
        BY <2>1, AskedType
    <2>3. req' = [req EXCEPT ![r] = Asked("del", named, "SM", None)]
        BY <1>12 DEF AskDelete, Submit
    <2> HIDE DEF named
    <2>4. req' \in [Requests -> Request]
        BY <2>2, <2>3 DEF TypeOK
    <2>5. QED
        BY <1>12, <2>4 DEF TypeOK, AskDelete
<1>13. ASSUME NEW r \in Requests, AskDeleteAll(r) PROVE TypeOK'
    <2>1. Asked("all", NoNames, "SM", None) \in Request
        BY AskedType, NoNamesType
    <2>2. QED
        BY <1>13, <2>1 DEF TypeOK, AskDeleteAll, Submit
<1>14. ASSUME NEW r \in Requests, NEW m \in Msgs, AskWrite(r, m) PROVE TypeOK'
    <2>1. Asked("write", NoNames, mem3, m) \in Request
        <3>1. mem3 \in {"SM", "ME"} /\ m \in Msgs \cup {None} /\ {} \in SUBSET SmSlots
            BY DEF TypeOK
        <3>2. QED
            BY <3>1, AskedType, NoNamesType
    <2>2. QED
        BY <1>14, <2>1 DEF TypeOK, AskWrite, Submit
<1>15. ASSUME NEW r \in Requests, Enter(r) \/ Mark(r) \/ Leave(r) PROVE TypeOK'
    <2>1. req' \in [Requests -> Request]
        BY <1>15 DEF TypeOK, Enter, Mark, Leave, Request
    <2>2. QED
        BY <1>15, <2>1 DEF TypeOK, Enter, Mark, Leave
<1>16. ASSUME NEW r \in Requests, NEW s \in SmSlots, Delete(r, s) PROVE TypeOK'
    <2>1. req' \in [Requests -> Request]
        <3>1. req[r] \in Request
            BY DEF TypeOK
        <3>2. req' = [req EXCEPT ![r].left = req[r].left \ {s},
                                 ![r].pc = IF req[r].left = {s} THEN "mark" ELSE "in"]
            BY <1>0, <1>16 DEF Delete
        <3>3. QED
            BY <1>0, <3>1, <3>2 DEF Request
    <2>2. sm' \in [SmSlots -> Slot]
        BY <1>16 DEF TypeOK, Delete, Slot
    <2>3. erased' \subseteq Msgs /\ mistaken' \subseteq Requests \X SmSlots
        BY <1>16, MsgAtType DEF TypeOK, Delete
    <2>4. QED
        BY <1>16, <2>1, <2>2, <2>3 DEF TypeOK, Delete
<1>17. ASSUME NEW r \in Requests, DeleteAll(r) PROVE TypeOK'
    <2>1. req' \in [Requests -> Request]
        BY <1>17 DEF TypeOK, DeleteAll, Request
    <2>2. erased' \subseteq Msgs
        BY <1>17, FullSlot DEF TypeOK, DeleteAll, Held, Full
    <2>3. QED
        BY <1>17, <2>1, <2>2 DEF TypeOK, DeleteAll, Slot
<1>18. ASSUME NEW r \in Requests, Write(r) PROVE TypeOK'
    <2>1. req' \in [Requests -> Request]
        BY <1>18 DEF TypeOK, Write, Request
    <2>2. req[r].msg \in Msgs
        BY <1>18 DEF TypeOK, Carried, Write, Request
    <2>3. sm' \in [SmSlots -> Slot] /\ me' \in [MeSlots -> Slot]
        <3>1. PICK m \in Msgs : m = req[r].msg
            BY <2>2
        <3>2. sm' = sm \/ \E s \in Free(sm) : sm' = Put(sm, s, m, TRUE)
            BY <1>18, <3>1 DEF Write
        <3>3. me' = me \/ \E s \in Free(me) : me' = Put(me, s, m, TRUE)
            BY <1>18, <3>1 DEF Write
        <3>4. QED
            BY <1>0, <3>2, <3>3, FilledType
    <2>4. pending' \subseteq Msgs
        <3>1. pending' = pending \/ pending' = pending \cup {req[r].msg}
            BY <1>18 DEF Write, Put, Free
        <3>2. QED
            BY <1>0, <2>2, <3>1
    <2>5. QED
        BY <1>18, <2>1, <2>3, <2>4 DEF TypeOK, Write
<1>19. QED
    BY <1>1, <1>2, <1>3, <1>4, <1>5, <1>6, <1>7, <1>8, <1>9, <1>10, <1>11, <1>12, <1>13,
       <1>14, <1>15, <1>16, <1>17, <1>18 DEF Next, ProcStep, User, ReqStep

-----------------------------------------------------------------------------

\* Request r goes on with this pc, these slots and this message; no other does.
ReqGoes(r, pc, left, msg) ==
  /\ \A q \in Requests \ {r} : req'[q] = req[q]
  /\ req'[r].pc = pc /\ req'[r].left = left /\ req'[r].msg = msg
  /\ req'[r].kind = req[r].kind /\ req'[r].named = req[r].named

\* Request r was idle and now waits; no other has changed.
ReqNew(r, kind, named, msg) ==
  /\ \A q \in Requests \ {r} : req'[q] = req[q]
  /\ req[r] = Idle
  /\ req'[r].pc = "wait" /\ req'[r].left = DOMAIN named /\ req'[r].msg = msg
  /\ req'[r].kind = kind /\ req'[r].named = named

\* What the steps of a script do to its request.
LEMMA ReqFields ==
    ASSUME TypeOK, NEW r \in Requests
    PROVE  /\ Enter(r) => ReqGoes(r, "in", req[r].left, req[r].msg)
           /\ DeleteAll(r) => ReqGoes(r, "mark", req[r].left, req[r].msg)
           /\ Mark(r) => ReqGoes(r, "out", req[r].left, req[r].msg)
           /\ Write(r) => ReqGoes(r, "out", req[r].left, req[r].msg)
           /\ Leave(r) => ReqGoes(r, "done", req[r].left, None)
           /\ \A s \in SmSlots : Delete(r, s) =>
                ReqGoes(r, IF req[r].left = {s} THEN "mark" ELSE "in",
                        req[r].left \ {s}, req[r].msg)
<1>1. req \in [Requests -> Request]
    BY DEF TypeOK
<1>2. ASSUME NEW pc, req' = [req EXCEPT ![r].pc = pc]
      PROVE  ReqGoes(r, pc, req[r].left, req[r].msg)
    BY <1>1, <1>2 DEF ReqGoes, Request
<1>3. Leave(r) => ReqGoes(r, "done", req[r].left, None)
    BY <1>1 DEF ReqGoes, Request, Leave
<1>4. ASSUME NEW s \in SmSlots, Delete(r, s)
      PROVE  ReqGoes(r, IF req[r].left = {s} THEN "mark" ELSE "in",
                     req[r].left \ {s}, req[r].msg)
    <2>1. req' = [req EXCEPT ![r].left = req[r].left \ {s},
                             ![r].pc = IF req[r].left = {s} THEN "mark" ELSE "in"]
        BY <1>1, <1>4 DEF Delete
    <2>2. QED
        BY <1>1, <2>1 DEF ReqGoes, Request
<1>5. QED
    BY <1>2, <1>3, <1>4 DEF Enter, DeleteAll, Mark, Write

\* What a new request asks.
LEMMA AskFields ==
    ASSUME TypeOK, NEW r \in Requests
    PROVE  /\ \A slots \in SUBSET Shown : AskDelete(r, slots) =>
                ReqNew(r, "del", [s \in slots |-> list[s]], None)
           /\ AskDeleteAll(r) => ReqNew(r, "all", NoNames, None)
           /\ \A m \in Msgs : AskWrite(r, m) => ReqNew(r, "write", NoNames, m)
<1>1. req \in [Requests -> Request]
    BY DEF TypeOK
<1>2. ASSUME NEW kind, NEW named, NEW mem, NEW msg,
             Submit(r, Asked(kind, named, mem, msg))
      PROVE  ReqNew(r, kind, named, msg)
    BY <1>1, <1>2 DEF Submit, Asked, ReqNew
<1>3. QED
    BY <1>2 DEF AskDelete, AskDeleteAll, AskWrite

\* The page deletes the commands it acted on, with the request of smsread.lua.
LEMMA PublishFields ==
    ASSUME TypeOK, Carried, Publish
    PROVE  \/ req' = req
           \/ ReqNew(AutoDelete, "del",
                     [s \in {s \in NewIn(temp) : temp[s].msg \in Commands} |-> temp[s].msg], None)
<1> DEFINE cmd == {s \in NewIn(temp) : temp[s].msg \in Commands}
           named == [s \in cmd |-> temp[s].msg]
<1>1. req \in [Requests -> Request] /\ AutoDelete \in Requests
    BY NameAssumption DEF TypeOK
<1>2. \/ req' = req
      \/ /\ req[AutoDelete].pc = "none"
         /\ req' = [req EXCEPT ![AutoDelete] = Asked("del", named, "SM", None)]
    BY DEF Publish
<1> HIDE DEF named
<1>3. req[AutoDelete].pc = "none" => req[AutoDelete] = Idle
    BY <1>1 DEF Carried
<1>4. \/ req' = req
      \/ ReqNew(AutoDelete, "del", named, None)
    BY <1>1, <1>2, <1>3 DEF ReqNew, Asked
<1>5. QED
    BY <1>4 DEF named

\* Every step keeps what a request carries.
LEMMA CarriedStep ==
    ASSUME TypeOK, Carried, [Next]_vars
    PROVE  Carried'
<1>1. ASSUME UNCHANGED req PROVE Carried'
    BY <1>1 DEF Carried
<1>2. ASSUME NEW r \in Requests, NEW kind \in {"del", "all"}, NEW named,
             ReqNew(r, kind, named, None)
      PROVE  Carried'
    BY <1>2 DEF Carried, ReqNew
<1>3. ASSUME NEW r \in Requests, NEW m \in Msgs, AskWrite(r, m) PROVE Carried'
    <2>1. ReqNew(r, "write", NoNames, m) /\ m # None
        BY <1>3, AskFields, NameAssumption
    <2>2. QED
        BY <2>1 DEF Carried, ReqNew
<1>4. ASSUME NEW r \in Requests, Enter(r) \/ Mark(r) \/ Write(r) \/ DeleteAll(r) PROVE Carried'
    <2>1. \E pc \in {"in", "mark", "out"} : ReqGoes(r, pc, req[r].left, req[r].msg)
        BY <1>4, ReqFields
    <2>2. Write(r) => req[r].pc = "in" /\ req[r].kind = "write" /\ req'[r].pc = "out"
        BY ReqFields DEF Write, ReqGoes
    <2>3. Enter(r) => req[r].pc = "wait" /\ req'[r].pc = "in"
        BY ReqFields DEF Enter, ReqGoes
    <2>4. Mark(r) => req[r].pc = "mark" /\ req'[r].pc = "out"
        BY ReqFields DEF Mark, ReqGoes
    <2>5. DeleteAll(r) => req[r].kind = "all"
        BY DEF DeleteAll
    <2>6. QED
        BY <1>4, <2>1, <2>2, <2>3, <2>4, <2>5 DEF Carried, ReqGoes
<1>5. ASSUME NEW r \in Requests, Leave(r) PROVE Carried'
    BY <1>5, ReqFields DEF Carried, ReqGoes
<1>6. ASSUME NEW r \in Requests, NEW s \in SmSlots, Delete(r, s) PROVE Carried'
    <2>1. req[r].kind = "del"
        BY <1>6 DEF Delete
    <2>2. QED
        BY <1>6, <2>1, ReqFields DEF Carried, ReqGoes
<1>7. ASSUME NEW r \in Requests, NEW slots \in SUBSET Shown, AskDelete(r, slots) PROVE Carried'
    BY <1>2, <1>7, AskFields
<1>8. ASSUME NEW r \in Requests, AskDeleteAll(r) PROVE Carried'
    BY <1>2, <1>8, AskFields
<1>9. CASE Publish
    BY <1>1, <1>2, <1>9, PublishFields, NameAssumption
<1>10. ASSUME UNCHANGED vars \/ (\E m \in Msgs : Receive(m)) \/ Start \/ Kill \/ Hour \/ RemoveStale
              \/ Setup \/ Take \/ CountUsed \/ Decide \/ Cmgr \/ Cmgw \/ Cmgd \/ Advance \/ Cmgl
              \/ Commit \/ Release \/ Sleep
       PROVE  UNCHANGED req
    BY <1>10 DEF vars, Receive, Start, Kill, Hour, RemoveStale, Setup, Take, CountUsed, Decide,
                 Cmgr, Cmgw, Cmgd, Advance, Cmgl, Commit, Release, Sleep
<1>11. QED
    BY <1>1, <1>3, <1>4, <1>5, <1>6, <1>7, <1>8, <1>9, <1>10
    DEF Next, ProcStep, User, ReqStep

-----------------------------------------------------------------------------

\* Filling a free slot loses nothing and adds the message.
LEMMA FilledHeld ==
    ASSUME NEW S, NEW mem \in [S -> Slot], NEW s \in Free(mem), NEW m \in Msgs,
           NEW new \in BOOLEAN
    PROVE  /\ Held(Put(mem, s, m, new)) = Held(mem) \cup {m}
           /\ \A t \in Full(mem) : t \in Full(Put(mem, s, m, new)) /\ Put(mem, s, m, new)[t] = mem[t]
<1> DEFINE after == Put(mem, s, m, new)
<1>1. s \in S /\ mem[s] = None
    BY DEF Free, Full
<1>2. [msg |-> m, new |-> new] # None
    BY NameAssumption
<1>3. after[s] = [msg |-> m, new |-> new] /\ DOMAIN after = S
      /\ \A t \in S \ {s} : after[t] = mem[t]
    BY <1>1 DEF Put
<1>4. Full(after) = Full(mem) \cup {s}
    BY <1>1, <1>2, <1>3 DEF Full
<1>5. s \notin Full(mem) /\ Full(mem) \subseteq S
    BY <1>1 DEF Full
<1>6. \A t \in Full(mem) : after[t] = mem[t]
    BY <1>3, <1>5
<1>7. after[s].msg = m
    BY <1>3
<1> HIDE DEF after
<1>8. Held(after) = Held(mem) \cup {m}
    BY <1>4, <1>6, <1>7 DEF Held
<1>9. QED
    BY <1>4, <1>6, <1>8 DEF after

\* So does filling it with a new message.
LEMMA FilledNew ==
    ASSUME NEW S, NEW mem \in [S -> Slot], NEW s \in Free(mem), NEW m \in Msgs, NEW after,
           after = Put(mem, s, m, TRUE)
    PROVE  m \in Held(after)
<1>1. ASSUME NEW new \in BOOLEAN
      PROVE  m \in Held(Put(mem, s, m, new))
    BY FilledHeld
<1>2. TRUE \in BOOLEAN
    OBVIOUS
<1>3. QED
    BY <1>1, <1>2, Zenon

\* Reading a memory changes the messages in it only by their status.
LEMMA ReadHeld ==
    ASSUME NEW S, NEW mem \in [S -> Slot]
    PROVE  /\ Full(Read(mem)) = Full(mem) /\ Held(Read(mem)) = Held(mem)
           /\ \A s \in S : MsgAt(Read(mem), s) = MsgAt(mem, s)
           /\ \A s \in Full(mem) : Read(mem)[s].msg = mem[s].msg /\ ~Read(mem)[s].new
<1>1. DOMAIN mem = S /\ DOMAIN Read(mem) = S
    BY DEF Read
<1>2. \A s \in S : mem[s] # None => mem[s].msg \in Msgs
    BY FullSlot
<1>3. \A s \in S : mem[s] # None => Read(mem)[s] = [msg |-> mem[s].msg, new |-> FALSE]
    BY DEF Read
<1>4. ASSUME NEW s \in S, mem[s] # None
      PROVE  /\ Read(mem)[s] # None /\ Read(mem)[s].msg = mem[s].msg
             /\ ~Read(mem)[s].new
    <2>1. Read(mem)[s] = [msg |-> mem[s].msg, new |-> FALSE] /\ mem[s].msg \in Msgs
        BY <1>2, <1>3, <1>4
    <2>2. Read(mem)[s] \in [msg : Msgs, new : BOOLEAN]
        BY <2>1
    <2>3. Read(mem)[s] # None
        BY <2>2, NameAssumption, Zenon
    <2>4. QED
        BY <2>1, <2>3
<1>5. \A s \in S : mem[s] = None => Read(mem)[s] = None
    BY DEF Read
<1>6. Full(Read(mem)) = Full(mem)
    BY <1>1, <1>4, <1>5 DEF Full
<1>7. \A s \in S : MsgAt(Read(mem), s) = MsgAt(mem, s)
    BY <1>4, <1>5 DEF MsgAt
<1>8. \A s \in Full(mem) : Read(mem)[s].msg = mem[s].msg /\ ~Read(mem)[s].new
    BY <1>1, <1>4 DEF Full
<1>9. Held(Read(mem)) = Held(mem)
    BY <1>6, <1>8 DEF Held
<1>10. QED
    BY <1>6, <1>7, <1>8, <1>9

\* Emptying a slot loses the message of that slot at most.
LEMMA EmptiedHeld ==
    ASSUME NEW S, NEW mem \in [S -> Slot], NEW s \in S
    PROVE  /\ Held(mem) \subseteq Held([mem EXCEPT ![s] = None]) \cup ({MsgAt(mem, s)} \ {None})
           /\ mem[s] # None => Held(mem) \subseteq Held([mem EXCEPT ![s] = None]) \cup {mem[s].msg}
<1> DEFINE after == [mem EXCEPT ![s] = None]
<1>1. \A t \in Full(mem) \ {s} : t \in Full(after) /\ after[t] = mem[t]
    BY DEF Full
<1>2. \A t \in Full(mem) : mem[t] \in Slot /\ mem[t] # None
    BY DEF Full
<1>3. s \in Full(mem) => mem[s].msg \in Msgs
    BY <1>2, FullSlot
<1>4. s \in Full(mem) => mem[s].msg = MsgAt(mem, s) /\ MsgAt(mem, s) # None
    BY <1>2, <1>3, NameAssumption DEF MsgAt
<1> HIDE DEF after
<1>5. \A t \in Full(mem) \ {s} : mem[t].msg \in Held(after)
    BY <1>1 DEF Held
<1>6. \A m \in Held(mem) : m \in Held(after) \/ (s \in Full(mem) /\ m = mem[s].msg)
    BY <1>5 DEF Held
<1>7. QED
    BY <1>4, <1>6 DEF after

\* Messages stay where they are, in ME, or are deleted, in SM.
Keeps ==
  /\ \A s \in Full(me) : s \in Full(me') /\ me'[s].msg = me[s].msg
  /\ Held(sm) \cup erased \subseteq Held(sm') \cup erased'

\* Every step but the one that deletes the moved message from ME keeps them.
LEMMA KeepsStep ==
    ASSUME TypeOK, Carried, Moving, [Next]_vars, ~Cmgd
    PROVE  Keeps
<1>0. sm \in [SmSlots -> Slot] /\ me \in [MeSlots -> Slot] /\ pdu \in Slot
    BY DEF TypeOK
<1>1. ASSUME UNCHANGED <<sm, me, erased>> PROVE Keeps
    BY <1>1 DEF Keeps
<1>2. ASSUME NEW m \in Msgs, NEW new \in BOOLEAN, NEW s \in Free(sm),
             sm' = Put(sm, s, m, new), UNCHANGED <<me, erased>>
      PROVE  Keeps
    <2>1. Held(sm') = Held(sm) \cup {m}
        BY <1>0, <1>2, FilledHeld
    <2>2. QED
        BY <1>2, <2>1 DEF Keeps
<1>3. ASSUME NEW m \in Msgs, NEW s \in Free(me),
             me' = Put(me, s, m, TRUE), UNCHANGED <<sm, erased>>
      PROVE  Keeps
    <2>1. \A t \in Full(me) : t \in Full(me') /\ me'[t] = me[t]
        BY <1>0, <1>3, FilledHeld
    <2>2. QED
        BY <1>3, <2>1 DEF Keeps
<1>4. ASSUME NEW m \in Msgs, Receive(m) PROVE Keeps
    <2>1. UNCHANGED erased
        BY <1>4 DEF Receive
    <2>2. QED
        BY <1>2, <1>3, <1>4, <2>1 DEF Receive
<1>5. ASSUME NEW r \in Requests, Write(r) PROVE Keeps
    <2>1. PICK m \in Msgs : m = req[r].msg
        BY <1>5 DEF TypeOK, Carried, Write, Request
    <2>2. UNCHANGED erased
        BY <1>5 DEF Write
    <2>3. QED
        BY <1>1, <1>2, <1>3, <1>5, <2>1, <2>2 DEF Write
<1>6. CASE Cmgr
    <2>1. ASSUME meslot \in Full(me) PROVE Keeps
        <3>1. me' = Put(me, meslot, me[meslot].msg, FALSE) /\ UNCHANGED <<sm, erased>>
            BY <1>6, <2>1 DEF Cmgr
        <3>2. meslot \in MeSlots /\ me[meslot].msg \in Msgs
            BY <1>0, <2>1, FullSlot DEF Full
        <3>3. [msg |-> me[meslot].msg, new |-> FALSE] # None
            <4>1. [msg |-> me[meslot].msg, new |-> FALSE] \in [msg : Msgs, new : BOOLEAN]
                BY <3>2
            <4>2. QED
                BY <4>1, NameAssumption, Zenon
        <3>4. \A s \in Full(me) : s \in Full(me') /\ me'[s].msg = me[s].msg
            <4>1. /\ me'[meslot] = [msg |-> me[meslot].msg, new |-> FALSE] /\ DOMAIN me' = MeSlots
                  /\ \A s \in MeSlots \ {meslot} : me'[s] = me[s]
                BY <1>0, <3>1, <3>2 DEF Put
            <4>2. QED
                BY <1>0, <3>3, <4>1 DEF Full
        <3>5. QED
            BY <3>1, <3>4 DEF Keeps
    <2>2. QED
        BY <1>1, <1>6, <2>1 DEF Cmgr
<1>7. CASE Cmgw
    <2>1. PICK m \in Msgs, new \in BOOLEAN : m = pdu.msg /\ new = Status
        BY <1>0, <1>7, FullSlot DEF Moving, Cmgw, Status
    <2>2. UNCHANGED <<me, erased>>
        BY <1>7 DEF Cmgw
    <2>3. QED
        BY <1>1, <1>2, <1>7, <2>1, <2>2 DEF Cmgw
<1>8. CASE Cmgl
    <2>1. Held(sm') = Held(sm) /\ UNCHANGED <<me, erased>>
        BY <1>0, <1>8, ReadHeld DEF Cmgl
    <2>2. QED
        BY <2>1 DEF Keeps
<1>9. ASSUME NEW r \in Requests, NEW s \in SmSlots, Delete(r, s) PROVE Keeps
    <2>1. UNCHANGED me
        BY <1>9 DEF Delete
    <2>2. \/ UNCHANGED <<sm, erased>>
          \/ /\ sm' = [sm EXCEPT ![s] = None]
             /\ erased' = erased \cup ({MsgAt(sm, s)} \ {None})
        BY <1>9 DEF Delete
    <2>3. Held(sm) \cup erased \subseteq Held(sm') \cup erased'
        BY <1>0, <2>2, EmptiedHeld
    <2>4. QED
        BY <2>1, <2>3 DEF Keeps
<1>10. ASSUME NEW r \in Requests, DeleteAll(r) PROVE Keeps
    BY <1>10 DEF DeleteAll, Keeps
<1>11. ASSUME UNCHANGED vars \/ Start \/ Kill \/ Hour \/ RemoveStale
              \/ Setup \/ Take \/ CountUsed \/ Decide \/ Advance
              \/ Commit \/ Publish \/ Release \/ Sleep
       PROVE  UNCHANGED <<sm, me, erased>>
    BY <1>11 DEF vars, Start, Kill, Hour, RemoveStale, Setup, Take, CountUsed, Decide,
                 Advance, Commit, Publish, Release, Sleep
<1>12. ASSUME NEW r \in Requests, User(r) \/ Enter(r) \/ Mark(r) \/ Leave(r)
       PROVE  UNCHANGED <<sm, me, erased>>
    BY <1>12 DEF User, AskDelete, AskDeleteAll, AskWrite, Enter, Mark, Leave
<1>13. QED
    BY <1>1, <1>4, <1>5, <1>6, <1>7, <1>8, <1>9, <1>10, <1>11, <1>12
    DEF Next, ProcStep, ReqStep

\* Every step keeps hold of the message that is moved.
LEMMA MovingStep ==
    ASSUME TypeOK, Carried, Moving, [Next]_vars
    PROVE  Moving'
<1>0. sm \in [SmSlots -> Slot] /\ me \in [MeSlots -> Slot] /\ pdu \in Slot
    BY DEF TypeOK
<1>1. ASSUME pp' \notin {"cmgr", "cmgw", "cmgd"} PROVE Moving'
    BY <1>1 DEF Moving
<1>2. ASSUME UNCHANGED <<pp, mesc, meslot, pdu>>, Keeps PROVE Moving'
    <2>1. pp \in {"cmgw", "cmgd"} => meslot' \in Full(me') /\ pdu' # None /\ me'[meslot'].msg = pdu'.msg
        BY <1>2 DEF Moving, Keeps
    <2>2. pp = "cmgd" => pdu'.msg \in Held(sm') \cup erased'
        BY <1>2 DEF Moving, Keeps
    <2>3. QED
        BY <1>2, <2>1, <2>2 DEF Moving
<1>3. CASE Decide
    BY <1>3 DEF Decide, Moving, TypeOK
<1>4. CASE Cmgr
    <2>1. CASE meslot \in Full(me)
        <3>1. me[meslot] # None /\ Keeps
            BY <1>4, <2>1, KeepsStep DEF Full, Cmgr, Cmgd, At
        <3>2. pdu' = me[meslot] /\ pp' = "cmgw" /\ UNCHANGED <<mesc, meslot>>
            BY <1>4, <2>1 DEF Cmgr
        <3>3. mesc > 0
            BY <1>4 DEF Cmgr, Moving
        <3>4. QED
            BY <2>1, <3>1, <3>2, <3>3 DEF Moving, Keeps
    <2>2. CASE meslot \notin Full(me)
        BY <1>1, <1>4, <2>2 DEF Cmgr
    <2>3. QED
        BY <2>1, <2>2
<1>5. CASE Cmgw
    <2>1. CASE pp' = "cmgd"
        <3>1. PICK m \in Msgs, new \in BOOLEAN : m = pdu.msg /\ new = Status
            BY <1>0, <1>5, FullSlot DEF Moving, Cmgw, Status
        <3>2. PICK s \in Free(sm) : sm' = Put(sm, s, m, new)
            BY <1>5, <2>1, <3>1 DEF Cmgw, AfterTimeout
        <3>3. m \in Held(sm')
            BY <1>0, <3>2, FilledHeld
        <3>4. UNCHANGED <<me, meslot, pdu>> /\ pp = "cmgw"
            BY <1>5 DEF Cmgw
        <3>5. QED
            BY <2>1, <3>1, <3>3, <3>4 DEF Moving
    <2>2. QED
        BY <1>1, <1>5, <2>1 DEF Cmgw, AfterTimeout
<1>6. CASE Start \/ Kill \/ Setup \/ Take \/ CountUsed \/ Cmgd \/ Advance \/ Cmgl
           \/ Commit \/ Publish \/ Release \/ Sleep
    BY <1>1, <1>6 DEF Start, Kill, Setup, Take, CountUsed, Cmgd, Advance, Cmgl, Commit,
                      Publish, Release, Sleep, At
<1>7. ASSUME UNCHANGED vars \/ (\E m \in Msgs : Receive(m)) \/ Hour \/ RemoveStale
             \/ \E r \in Requests : User(r) \/ Enter(r) \/ ReqStep(r)
      PROVE  UNCHANGED <<pp, mesc, meslot, pdu>> /\ Keeps
    <2>1. UNCHANGED <<pp, mesc, meslot, pdu>>
        BY <1>7 DEF vars, Receive, Hour, RemoveStale, User, AskDelete, AskDeleteAll, AskWrite,
                    Enter, ReqStep, Delete, DeleteAll, Mark, Write, Leave
    <2>2. ~Cmgd
        BY <2>1 DEF Cmgd, At
    <2>3. QED
        BY <2>1, <2>2, KeepsStep
<1>8. QED
    BY <1>2, <1>3, <1>4, <1>5, <1>6, <1>7 DEF Next, ProcStep

\* No step loses a message.
LEMMA NothingLostStep ==
    ASSUME TypeOK, Carried, Moving, NothingLost, [Next]_vars
    PROVE  NothingLost'
<1>0. sm \in [SmSlots -> Slot] /\ me \in [MeSlots -> Slot]
    BY DEF TypeOK
<1> DEFINE OfRequest(m) == \E r \in Requests : req[r].msg = m /\ req[r].pc \in {"wait", "in"}
<1> SUFFICES ASSUME NEW m \in Msgs
             PROVE  (m \in pending \cup erased \cup Held(sm) \cup Held(me) \/ OfRequest(m))'
    BY DEF NothingLost
<1>1. m \in pending \cup erased \cup Held(sm) \cup Held(me) \/ OfRequest(m)
    BY DEF NothingLost
<1>2. m # None
    BY NameAssumption
<1>3. ASSUME Keeps
      PROVE  m \in erased \cup Held(sm) \cup Held(me) => m \in erased' \cup Held(sm') \cup Held(me')
    <2>1. Held(me) \subseteq Held(me')
        BY <1>3 DEF Keeps, Held
    <2>2. QED
        BY <1>3, <2>1 DEF Keeps
<1>4. ASSUME NEW r \in Requests, NEW x, NEW y, ReqGoes(r, x, y, req[r].msg),
             req[r].msg = None \/ x = "in"
      PROVE  OfRequest(m) => OfRequest(m)'
    BY <1>2, <1>4 DEF ReqGoes
<1>5. ASSUME NEW r \in Requests, NEW x, NEW y, NEW z, ReqNew(r, x, y, z)
      PROVE  OfRequest(m) => OfRequest(m)'
    <2>1. req[r].pc = "none"
        BY <1>5 DEF ReqNew, Idle
    <2>2. QED
        BY <1>5, <2>1 DEF ReqNew
<1>6. CASE Cmgd
    <2>1. meslot \in MeSlots /\ me[meslot] # None /\ me[meslot].msg = pdu.msg
        BY <1>0, <1>6 DEF Moving, Cmgd, At, Full
    <2>2. Held(me) \subseteq Held(me') \cup {pdu.msg}
        <3>1. me' = [me EXCEPT ![meslot] = None]
            BY <1>6 DEF Cmgd
        <3>2. Held(me) \subseteq Held([me EXCEPT ![meslot] = None]) \cup {me[meslot].msg}
            BY <1>0, <2>1, EmptiedHeld
        <3>3. QED
            BY <2>1, <3>1, <3>2
    <2>3. pdu.msg \in Held(sm) \cup erased /\ UNCHANGED <<sm, pending, erased, req>>
        BY <1>6 DEF Moving, Cmgd, At
    <2>4. QED
        BY <1>1, <2>2, <2>3
<1>7. ASSUME NEW n \in Msgs, Receive(n)
      PROVE  (m \in pending \cup erased \cup Held(sm) \cup Held(me) \/ OfRequest(m))'
    <2>1. Keeps /\ pending' = pending \ {n} /\ UNCHANGED req
        BY <1>7, KeepsStep DEF Receive, Cmgd, At
    <2>2. n \in Held(sm') \cup Held(me')
        <3>1. (\E s \in Free(sm) : sm' = Put(sm, s, n, TRUE)) \/ (\E s \in Free(me) : me' = Put(me, s, n, TRUE))
            BY <1>7 DEF Receive
        <3>2. ASSUME NEW s \in Free(sm), sm' = Put(sm, s, n, TRUE) PROVE n \in Held(sm')
            BY <1>0, <3>2, FilledNew
        <3>3. ASSUME NEW s \in Free(me), me' = Put(me, s, n, TRUE) PROVE n \in Held(me')
            BY <1>0, <3>3, FilledNew
        <3>4. QED
            BY <3>1, <3>2, <3>3
    <2>3. QED
        BY <1>1, <1>3, <2>1, <2>2
<1>8. ASSUME NEW r \in Requests, Write(r)
      PROVE  (m \in pending \cup erased \cup Held(sm) \cup Held(me) \/ OfRequest(m))'
    <2>1. Keeps /\ ReqGoes(r, "out", req[r].left, req[r].msg)
        BY <1>8, KeepsStep, ReqFields DEF Write, Cmgd, At
    <2>2. PICK n \in Msgs : n = req[r].msg
        BY <1>8 DEF TypeOK, Carried, Write, Request
    <2>3. pending \subseteq pending' /\ n \in pending' \cup Held(sm') \cup Held(me')
        <3>1. \/ pending' = pending /\ \E s \in Free(sm) : sm' = Put(sm, s, n, TRUE)
              \/ pending' = pending /\ \E s \in Free(me) : me' = Put(me, s, n, TRUE)
              \/ pending' = pending \cup {n}
            BY <1>8, <2>2 DEF Write
        <3>2. ASSUME NEW s \in Free(sm), sm' = Put(sm, s, n, TRUE) PROVE n \in Held(sm')
            BY <1>0, <3>2, FilledNew
        <3>3. ASSUME NEW s \in Free(me), me' = Put(me, s, n, TRUE) PROVE n \in Held(me')
            BY <1>0, <3>3, FilledNew
        <3>4. QED
            BY <3>1, <3>2, <3>3
    <2>4. OfRequest(m) => OfRequest(m)' \/ m = n
        BY <2>1, <2>2 DEF ReqGoes
    <2>5. QED
        BY <1>1, <1>3, <2>1, <2>3, <2>4
<1>9. ASSUME NEW r \in Requests, NEW n \in Msgs, AskWrite(r, n)
      PROVE  (m \in pending \cup erased \cup Held(sm) \cup Held(me) \/ OfRequest(m))'
    <2>1. ReqNew(r, "write", NoNames, n) /\ pending' = pending \ {n} /\ UNCHANGED <<sm, me, erased>>
        BY <1>9, AskFields DEF AskWrite
    <2>2. OfRequest(n)'
        BY <2>1 DEF ReqNew
    <2>3. QED
        BY <1>1, <1>5, <2>1, <2>2
<1>10. ASSUME Keeps, pending' = pending, OfRequest(m) => OfRequest(m)'
       PROVE  (m \in pending \cup erased \cup Held(sm) \cup Held(me) \/ OfRequest(m))'
    BY <1>1, <1>3, <1>10
<1>11. ASSUME NEW r \in Requests, Enter(r) \/ Mark(r) \/ DeleteAll(r) \/ \E s \in SmSlots : Delete(r, s)
       PROVE  (OfRequest(m) => OfRequest(m)') /\ pending' = pending /\ ~Cmgd
    <2>1. pending' = pending /\ pp' = pp
        BY <1>11 DEF Enter, Mark, DeleteAll, Delete
    <2>2. \E x, y : ReqGoes(r, x, y, req[r].msg) /\ (req[r].msg = None \/ x = "in")
        <3>1. CASE Enter(r)
            BY <3>1, ReqFields
        <3>2. CASE ~Enter(r)
            <4>1. req[r].kind \in {"del", "all"}
                BY <1>11, <3>2 DEF Mark, DeleteAll, Delete, Carried
            <4>2. req[r].msg = None
                BY <4>1 DEF Carried
            <4>3. \E x, y : ReqGoes(r, x, y, req[r].msg)
                BY <1>11, <3>2, ReqFields
            <4>4. QED
                BY <4>2, <4>3
        <3>3. QED
            BY <3>1, <3>2
    <2>3. QED
        BY <1>4, <2>1, <2>2 DEF Cmgd, At
<1>12. ASSUME NEW r \in Requests, Leave(r)
       PROVE  (OfRequest(m) => OfRequest(m)') /\ pending' = pending /\ ~Cmgd
    <2>1. ReqGoes(r, "done", req[r].left, None) /\ req[r].pc = "out" /\ UNCHANGED <<pending, pp>>
        BY <1>12, ReqFields DEF Leave
    <2>2. QED
        BY <2>1 DEF ReqGoes, Cmgd, At
<1>13. ASSUME NEW r \in Requests, AskDeleteAll(r) \/ \E slots \in SUBSET Shown : AskDelete(r, slots)
       PROVE  (OfRequest(m) => OfRequest(m)') /\ pending' = pending /\ ~Cmgd
    <2>1. UNCHANGED <<pending, pp>>
        BY <1>13 DEF AskDeleteAll, AskDelete
    <2>2. \E x, y, z : ReqNew(r, x, y, z)
        BY <1>13, AskFields
    <2>3. QED
        BY <1>5, <2>1, <2>2 DEF Cmgd, At
<1>14. CASE Publish
    <2>1. pending' = pending /\ Keeps
        BY <1>14, KeepsStep DEF Publish, Cmgd, At
    <2>2. OfRequest(m) => OfRequest(m)'
        BY <1>5, <1>14, PublishFields, NameAssumption
    <2>3. QED
        BY <1>10, <2>1, <2>2
<1>15. CASE UNCHANGED vars \/ Start \/ Kill \/ Hour \/ RemoveStale \/ Setup \/ Take
            \/ CountUsed \/ Decide \/ Cmgr \/ Cmgw \/ Advance \/ Cmgl \/ Commit \/ Release \/ Sleep
    <2>1. UNCHANGED <<pending, req>>
        BY <1>15 DEF vars, Start, Kill, Hour, RemoveStale, Setup, Take, CountUsed, Decide,
                     Cmgr, Cmgw, Advance, Cmgl, Commit, Release, Sleep
    <2>2. CASE Cmgd
        BY <1>6, <2>2
    <2>3. CASE ~Cmgd
        BY <1>10, <2>1, <2>3, KeepsStep
    <2>4. QED
        BY <2>2, <2>3
<1>16. QED
    BY <1>6, <1>7, <1>8, <1>9, <1>10, <1>11, <1>12, <1>13, <1>14, <1>15, KeepsStep
    DEF Next, ProcStep, User, ReqStep

-----------------------------------------------------------------------------

\* A message that is new in no other place than before is new in one at most.
LEMMA Unmoved ==
    ASSUME NEW m \in Msgs, OnePlace(m), acted'[m] = acted[m],
           \A k \in Kinds, x \in Where : NewAt(m, k, x)' => NewAt(m, k, x)
    PROVE  OnePlace(m)'
BY DEF OnePlace

\* So is one that moved from a place where it was new to another one.
LEMMA Moved ==
    ASSUME NEW m \in Msgs, OnePlace(m), acted'[m] = acted[m],
           NEW k0 \in Kinds, NEW x0 \in Where, NEW k1, NEW x1, NewAt(m, k0, x0),
           \A k \in Kinds, x \in Where :
             NewAt(m, k, x)' => (NewAt(m, k, x) /\ k # k0) \/ (k = k1 /\ x = x1)
    PROVE  OnePlace(m)'
<1>1. acted[m] = 0
    BY DEF OnePlace
<1>2. \A k \in Kinds, x \in Where : NewAt(m, k, x)' => k = k1 /\ x = x1
    BY DEF OnePlace
<1>3. QED
    BY <1>1, <1>2 DEF OnePlace

\* Receiving and writing: the message moves into a free slot of SM or ME.
LEMMA Fills ==
    ASSUME TypeOK, NEW m \in Msgs, OnePlace(m), acted'[m] = acted[m],
           NEW n \in Msgs, NEW k0 \in {"air", "request"}, NEW x0 \in Where, NewAt(n, k0, x0),
           \A k \in Kinds \ {"sim", "modem"}, x \in Where :
             NewAt(m, k, x)' => NewAt(m, k, x) /\ (k # k0 \/ m # n),
           \/ \E s \in Free(sm) : sm' = Put(sm, s, n, TRUE) /\ UNCHANGED me
           \/ \E s \in Free(me) : me' = Put(me, s, n, TRUE) /\ UNCHANGED sm
    PROVE  OnePlace(m)'
<1>0. /\ sm \in [SmSlots -> Slot] /\ me \in [MeSlots -> Slot]
    BY DEF TypeOK
<1>1. ASSUME NEW k1, NEW x1,
             \A k \in Kinds, x \in Where :
                NewAt(m, k, x)' => (NewAt(m, k, x) /\ (k # k0 \/ m # n)) \/ (k = k1 /\ x = x1 /\ m = n)
      PROVE  OnePlace(m)'
    <2>1. CASE m = n
        BY <1>1, <2>1, Moved DEF Kinds
    <2>2. CASE m # n
        BY <1>1, <2>2, Unmoved
    <2>3. QED
        BY <2>1, <2>2
<1>2. ASSUME NEW s \in Free(sm), sm' = Put(sm, s, n, TRUE), UNCHANGED me
      PROVE  OnePlace(m)'
    <2>1. s \in SmSlots /\ \A t \in SmSlots \ {s} : sm'[t] = sm[t]
        BY <1>0, <1>2 DEF Put, Free
    <2>2. sm'[s].msg = n
        BY <1>0, <1>2, <2>1 DEF Put
    <2>3. ASSUME NEW k \in {"sim", "modem"}, NEW x \in Where, NewAt(m, k, x)'
          PROVE  NewAt(m, k, x) \/ (k = "sim" /\ x = s /\ m = n)
        BY <1>2, <2>1, <2>2, <2>3 DEF NewAt
    <2>4. QED
        BY <1>1, <2>3 DEF Kinds
<1>3. ASSUME NEW s \in Free(me), me' = Put(me, s, n, TRUE), UNCHANGED sm
      PROVE  OnePlace(m)'
    <2>1. s \in MeSlots /\ \A t \in MeSlots \ {s} : me'[t] = me[t]
        BY <1>0, <1>3 DEF Put, Free
    <2>2. me'[s].msg = n
        BY <1>0, <1>3, <2>1 DEF Put
    <2>3. ASSUME NEW k \in {"sim", "modem"}, NEW x \in Where, NewAt(m, k, x)'
          PROVE  NewAt(m, k, x) \/ (k = "modem" /\ x = s /\ m = n)
        BY <1>3, <2>1, <2>2, <2>3 DEF NewAt
    <2>4. QED
        BY <1>1, <2>3 DEF Kinds
<1>4. QED
    BY <1>2, <1>3

\* Every step leaves a message new in one place at most.
LEMMA OnePlaceStep ==
    ASSUME TypeOK, Carried, Moving, NewInOnePlace, [Next]_vars, NEW m \in Msgs
    PROVE  OnePlace(m)'
<1>0. /\ sm \in [SmSlots -> Slot] /\ me \in [MeSlots -> Slot] /\ pdu \in Slot
      /\ temp \in [SmSlots -> Slot] /\ req \in [Requests -> Request]
    BY DEF TypeOK
<1>a. OnePlace(m) /\ m # None
    BY NameAssumption DEF NewInOnePlace
<1>b. None \in Where /\ SmSlots \subseteq Where /\ MeSlots \subseteq Where /\ Requests \subseteq Where
    BY DEF Where
<1>1. ASSUME UNCHANGED <<pending, req, sm, me, temp, acted>>, pp' # "cmgw" \/ UNCHANGED <<pp, pdu>>
      PROVE  OnePlace(m)'
    <2>1. \A k \in Kinds, x \in Where : NewAt(m, k, x)' => NewAt(m, k, x)
        BY <1>1 DEF NewAt
    <2>2. QED
        BY <1>1, <1>a, <2>1, Unmoved
<1>2. ASSUME NEW n \in Msgs, Receive(n) PROVE OnePlace(m)'
    <2>1. UNCHANGED <<req, temp, pp, pdu, acted>> /\ n \in pending /\ pending' = pending \ {n}
        BY <1>2 DEF Receive
    <2>2. \/ \E s \in Free(sm) : sm' = Put(sm, s, n, TRUE) /\ UNCHANGED me
          \/ \E s \in Free(me) : me' = Put(me, s, n, TRUE) /\ UNCHANGED sm
        BY <1>2 DEF Receive
    <2>3. NewAt(n, "air", None)
        BY <2>1 DEF NewAt
    <2>4. \A k \in Kinds \ {"sim", "modem"}, x \in Where :
            NewAt(m, k, x)' => NewAt(m, k, x) /\ (k # "air" \/ m # n)
        BY <2>1 DEF NewAt
    <2>5. QED
        BY <1>a, <1>b, <2>1, <2>2, <2>3, <2>4, Fills
<1>3. ASSUME NEW r \in Requests, Write(r) PROVE OnePlace(m)'
    <2>1. PICK n \in Msgs : n = req[r].msg
        BY <1>3 DEF TypeOK, Carried, Write, Request
    <2>2. UNCHANGED <<temp, pp, pdu, acted>> /\ req[r].pc = "in"
        BY <1>3 DEF Write
    <2>3. ReqGoes(r, "out", req[r].left, n)
        BY <1>3, <2>1, ReqFields
    <2>4. NewAt(n, "request", r)
        BY <2>1, <2>2 DEF NewAt
    <2>5. ASSUME UNCHANGED pending,
                 \/ \E s \in Free(sm) : sm' = Put(sm, s, n, TRUE) /\ UNCHANGED me
                 \/ \E s \in Free(me) : me' = Put(me, s, n, TRUE) /\ UNCHANGED sm
          PROVE  OnePlace(m)'
        <3>1. \A k \in Kinds \ {"sim", "modem", "request"}, x \in Where :
                NewAt(m, k, x)' => NewAt(m, k, x)
            BY <2>2, <2>5 DEF NewAt
        <3>2. \A x \in Where : NewAt(m, "request", x)' => NewAt(m, "request", x) /\ x # r
            BY <2>3 DEF NewAt, ReqGoes
        <3>3. \A x \in Where : m = n => ~NewAt(m, "request", x)'
            BY <1>a, <1>b, <2>4, <3>2 DEF OnePlace, Kinds
        <3>4. \A k \in Kinds \ {"sim", "modem"}, x \in Where :
                NewAt(m, k, x)' => NewAt(m, k, x) /\ (k # "request" \/ m # n)
            BY <3>1, <3>2, <3>3
        <3>5. QED
            BY <1>a, <1>b, <2>2, <2>4, <2>5, <3>4, Fills
    <2>6. ASSUME pending' = pending \cup {n}, UNCHANGED <<sm, me>>
          PROVE  OnePlace(m)'
        <3>1. \A k \in Kinds, x \in Where :
                NewAt(m, k, x)' => (NewAt(m, k, x) /\ (k = "request" => x # r))
                                   \/ (k = "air" /\ x = None /\ m = n)
            BY <2>2, <2>3, <2>6 DEF NewAt, ReqGoes
        <3>2. CASE m # n
            BY <1>a, <2>2, <3>1, <3>2, Unmoved
        <3>3. CASE m = n
            <4>1. \A k \in Kinds, x \in Where :
                    NewAt(m, k, x)' => (NewAt(m, k, x) /\ k # "request") \/ (k = "air" /\ x = None)
                BY <1>a, <1>b, <2>4, <3>1, <3>3 DEF OnePlace, Kinds
            <4>2. QED
                BY <1>a, <1>b, <2>2, <2>4, <3>3, <4>1, Moved DEF Kinds
        <3>4. QED
            BY <3>2, <3>3
    <2>7. QED
        BY <1>3, <2>1, <2>5, <2>6 DEF Write
<1>4. ASSUME NEW r \in Requests, NEW n \in Msgs, AskWrite(r, n) PROVE OnePlace(m)'
    <2>1. /\ UNCHANGED <<sm, me, temp, pp, pdu, acted>> /\ n \in pending /\ pending' = pending \ {n}
          /\ ReqNew(r, "write", NoNames, n)
        BY <1>4, AskFields DEF AskWrite
    <2>2. \A k \in Kinds, x \in Where :
            NewAt(m, k, x)' => (NewAt(m, k, x) /\ (k # "air" \/ m # n)) \/ (k = "request" /\ x = r /\ m = n)
        BY <2>1 DEF NewAt, ReqNew
    <2>3. CASE m = n
        <3>1. NewAt(m, "air", None)
            BY <2>1, <2>3 DEF NewAt
        <3>2. QED
            BY <1>a, <1>b, <2>1, <2>2, <2>3, <3>1, Moved DEF Kinds
    <2>4. CASE m # n
        BY <1>a, <2>1, <2>2, <2>4, Unmoved
    <2>5. QED
        BY <2>3, <2>4
<1>5. ASSUME NEW r \in Requests, Enter(r) \/ Mark(r) \/ Leave(r) PROVE OnePlace(m)'
    <2>1. UNCHANGED <<pending, sm, me, temp, pp, pdu, acted>>
        BY <1>5 DEF Enter, Mark, Leave
    <2>2. ReqGoes(r, "done", req[r].left, None) \/ ReqGoes(r, "out", req[r].left, req[r].msg)
          \/ (ReqGoes(r, "in", req[r].left, req[r].msg) /\ req[r].pc = "wait")
        BY <1>5, ReqFields DEF Enter
    <2>3. \A k \in Kinds, x \in Where : NewAt(m, k, x)' => NewAt(m, k, x)
        BY <2>1, <2>2 DEF NewAt, ReqGoes
    <2>4. QED
        BY <1>a, <2>1, <2>3, Unmoved
<1>6. ASSUME NEW r \in Requests, DeleteAll(r) \/ \E s \in SmSlots : Delete(r, s)
      PROVE  OnePlace(m)'
    <2>1. UNCHANGED <<pending, me, temp, pp, pdu, acted>> /\ req[r].pc = "in"
        BY <1>6 DEF DeleteAll, Delete
    <2>2. \A s \in SmSlots : sm'[s] \in {None, sm[s]}
        BY <1>0, <1>6 DEF DeleteAll, Delete
    <2>3. \E x, y : ReqGoes(r, x, y, req[r].msg)
        BY <1>6, ReqFields
    <2>4. \A k \in Kinds, x \in Where : NewAt(m, k, x)' => NewAt(m, k, x)
        BY <2>1, <2>2, <2>3 DEF NewAt, ReqGoes
    <2>5. QED
        BY <1>a, <2>1, <2>4, Unmoved
<1>7. ASSUME NEW r \in Requests, AskDeleteAll(r) \/ \E slots \in SUBSET Shown : AskDelete(r, slots)
      PROVE  OnePlace(m)'
    <2>1. UNCHANGED <<pending, sm, me, temp, pp, pdu, acted>>
        BY <1>7 DEF AskDeleteAll, AskDelete
    <2>2. \E x, y : ReqNew(r, x, y, None)
        BY <1>7, AskFields
    <2>3. \A k \in Kinds, x \in Where : NewAt(m, k, x)' => NewAt(m, k, x)
        BY <1>a, <2>1, <2>2 DEF NewAt, ReqNew
    <2>4. QED
        BY <1>a, <2>1, <2>3, Unmoved
<1>8. CASE Cmgr
    <2>1. UNCHANGED <<pending, sm, temp, req, acted>> /\ pp = "cmgr"
        BY <1>8 DEF Cmgr
    <2>2. CASE meslot \in Full(me)
        <3>1. meslot \in MeSlots /\ me[meslot] # None
            BY <1>0, <2>2 DEF Full
        <3>2. pdu' = me[meslot] /\ \A s \in MeSlots \ {meslot} : me'[s] = me[s]
            BY <1>0, <1>8, <2>2 DEF Cmgr, Put
        <3>3. ~me'[meslot].new
            BY <1>0, <1>8, <2>2, <3>1 DEF Cmgr, Put
        <3>4. \A k \in Kinds, x \in Where :
                NewAt(m, k, x)' => (NewAt(m, k, x) /\ (k = "modem" => x # meslot))
                                   \/ (k = "hand" /\ x = None /\ NewAt(m, "modem", meslot))
            BY <2>1, <3>1, <3>2, <3>3 DEF NewAt
        <3>5. CASE NewAt(m, "modem", meslot)
            <4>1. \A k \in Kinds, x \in Where :
                    NewAt(m, k, x)' => (NewAt(m, k, x) /\ k # "modem") \/ (k = "hand" /\ x = None)
                BY <1>a, <1>b, <3>1, <3>4, <3>5 DEF OnePlace, Kinds
            <4>2. QED
                BY <1>a, <1>b, <2>1, <3>1, <3>5, <4>1, Moved DEF Kinds
        <3>6. CASE ~NewAt(m, "modem", meslot)
            BY <1>a, <2>1, <3>4, <3>6, Unmoved
        <3>7. QED
            BY <3>5, <3>6
    <2>3. CASE meslot \notin Full(me)
        BY <1>1, <1>8, <2>1, <2>3 DEF Cmgr
    <2>4. QED
        BY <2>2, <2>3
<1>9. CASE Cmgw
    <2>1. UNCHANGED <<pending, me, temp, req, acted, pdu>> /\ pp = "cmgw" /\ pp' # "cmgw"
        BY <1>9 DEF Cmgw, AfterTimeout
    <2>2. CASE UNCHANGED sm
        BY <1>1, <2>1, <2>2
    <2>3. ASSUME NEW s \in Free(sm), sm' = Put(sm, s, pdu.msg, Status) PROVE OnePlace(m)'
        <3>1. s \in SmSlots /\ \A t \in SmSlots \ {s} : sm'[t] = sm[t]
            BY <1>0, <2>3 DEF Put, Free
        <3>2. sm'[s].msg = pdu.msg /\ (sm'[s].new <=> pdu.new)
            BY <1>0, <2>3, <3>1 DEF Put, Status
        <3>3. \A k \in Kinds, x \in Where :
                NewAt(m, k, x)' => (NewAt(m, k, x) /\ k # "hand")
                                   \/ (k = "sim" /\ x = s /\ NewAt(m, "hand", None))
            BY <2>1, <3>1, <3>2 DEF NewAt
        <3>4. CASE NewAt(m, "hand", None)
            BY <1>a, <1>b, <2>1, <3>3, <3>4, Moved DEF Kinds
        <3>5. CASE ~NewAt(m, "hand", None)
            BY <1>a, <2>1, <3>3, <3>5, Unmoved
        <3>6. QED
            BY <3>4, <3>5
    <2>4. QED
        BY <1>9, <2>2, <2>3 DEF Cmgw
<1>10. CASE Cmgd
    <2>1. UNCHANGED <<pending, sm, temp, req, acted, pdu>> /\ pp' # "cmgw"
        BY <1>10 DEF Cmgd, At
    <2>2. \A s \in MeSlots : me'[s] \in {None, me[s]}
        BY <1>0, <1>10 DEF Cmgd
    <2>3. \A k \in Kinds, x \in Where : NewAt(m, k, x)' => NewAt(m, k, x)
        BY <2>1, <2>2 DEF NewAt
    <2>4. QED
        BY <1>a, <2>1, <2>3, Unmoved
<1>11. CASE Cmgl
    <2>1. UNCHANGED <<pending, me, req, acted, pdu>> /\ pp' # "cmgw" /\ temp' = sm
        BY <1>11 DEF Cmgl, At
    <2>2. \A s \in SmSlots : sm'[s] # None => ~sm'[s].new
        <3>1. sm' = Read(sm) /\ Full(Read(sm)) = Full(sm) /\ \A s \in Full(sm) : ~Read(sm)[s].new
            BY <1>0, <1>11, ReadHeld DEF Cmgl
        <3>2. \A s \in SmSlots : sm'[s] # None => s \in Full(sm')
            BY <3>1, <1>0 DEF Full, Read
        <3>3. QED
            BY <3>1, <3>2
    <2>3. \A k \in Kinds, x \in Where :
            NewAt(m, k, x)' => (NewAt(m, k, x) /\ k # "sim" /\ k # "page")
                               \/ (k = "page" /\ NewAt(m, "sim", x))
        BY <2>1, <2>2 DEF NewAt
    <2>4. CASE \E s \in Where : NewAt(m, "sim", s)
        <3>1. PICK s \in Where : NewAt(m, "sim", s)
            BY <2>4
        <3>2. \A x \in Where : NewAt(m, "sim", x) => x = s
            BY <1>a, <3>1 DEF OnePlace, Kinds
        <3>3. QED
            BY <1>a, <2>1, <2>3, <3>1, <3>2, Moved DEF Kinds
    <2>5. CASE ~\E s \in Where : NewAt(m, "sim", s)
        BY <1>a, <2>1, <2>3, <2>5, Unmoved
    <2>6. QED
        BY <2>4, <2>5
<1>12. CASE Publish
    <2>1. /\ UNCHANGED <<pending, sm, me>> /\ pp' # "cmgw" /\ \A s \in SmSlots : temp'[s] = None
        BY <1>12 DEF Publish, At
    <2>2. req' = req \/ \E y : ReqNew(AutoDelete, "del", y, None)
        BY <1>12, PublishFields
    <2>3. \A k \in Kinds, x \in Where : NewAt(m, k, x)' => NewAt(m, k, x) /\ k # "page"
        BY <1>a, <2>1, <2>2 DEF NewAt, ReqNew
    <2>4. CASE \E s \in NewIn(temp) : temp[s].msg = m
        <3>1. PICK s \in SmSlots : NewAt(m, "page", s)
            BY <1>0, <2>4 DEF NewIn, Full, NewAt
        <3>2. acted[m] = 0
            BY <1>a, <1>b, <3>1 DEF OnePlace, Kinds
        <3>3. acted'[m] = 1
            BY <1>12, <2>4, <3>2 DEF Publish
        <3>4. \A k \in Kinds, x \in Where : ~NewAt(m, k, x)'
            BY <1>a, <1>b, <2>3, <3>1 DEF OnePlace, Kinds
        <3>5. QED
            BY <3>3, <3>4 DEF OnePlace
    <2>5. CASE ~\E s \in NewIn(temp) : temp[s].msg = m
        <3>1. acted'[m] = acted[m]
            BY <1>12, <2>5 DEF Publish
        <3>2. QED
            BY <1>a, <2>3, <3>1, Unmoved
    <2>6. QED
        BY <2>4, <2>5
<1>13. CASE Kill
    <2>1. UNCHANGED <<pending, req, sm, me, acted>> /\ pp' # "cmgw" /\ \A s \in SmSlots : temp'[s] = None
        BY <1>13 DEF Kill
    <2>2. \A k \in Kinds, x \in Where : NewAt(m, k, x)' => NewAt(m, k, x)
        BY <2>1 DEF NewAt
    <2>3. QED
        BY <1>a, <2>1, <2>2, Unmoved
<1>14. CASE UNCHANGED vars \/ Start \/ Hour \/ RemoveStale \/ Setup \/ Take
            \/ CountUsed \/ Decide \/ Advance \/ Commit \/ Release \/ Sleep
    <2>1. UNCHANGED <<pending, req, sm, me, temp, acted>> /\ (pp' # "cmgw" \/ UNCHANGED <<pp, pdu>>)
        BY <1>14 DEF vars, Start, Hour, RemoveStale, Setup, Take, CountUsed, Decide,
                     Advance, Commit, Release, Sleep, At
    <2>2. QED
        BY <1>1, <2>1
<1>15. QED
    BY <1>2, <1>3, <1>4, <1>5, <1>6, <1>7, <1>8, <1>9, <1>10, <1>11, <1>12, <1>13, <1>14
    DEF Next, ProcStep, User, ReqStep

-----------------------------------------------------------------------------

\* Request q stays as it is, goes on without naming other slots, or is new.
Onward(q) ==
  \/ req'[q] = req[q]
  \/ /\ req'[q].kind = req[q].kind /\ req'[q].named = req[q].named
     /\ req'[q].left \subseteq req[q].left
     /\ req[q].pc \in {"mark", "out", "done"} => req'[q].pc \in {"mark", "out", "done"}
  \/ req[q] = Idle /\ req'[q].left = DOMAIN req'[q].named

\* Every step lets every request go on like this.
LEMMA OnwardStep ==
    ASSUME TypeOK, Carried, [Next]_vars, NEW q \in Requests
    PROVE  Onward(q)
<1>1. ASSUME UNCHANGED req PROVE Onward(q)
    BY <1>1 DEF Onward
<1>2. ASSUME NEW r \in Requests, NEW x, NEW y, NEW z, ReqNew(r, x, y, z) PROVE Onward(q)
    BY <1>2 DEF Onward, ReqNew
<1>3. ASSUME NEW r \in Requests, Enter(r) \/ Mark(r) \/ Write(r) \/ DeleteAll(r) \/ Leave(r)
      PROVE  Onward(q)
    <2>1. \E x, z : ReqGoes(r, x, req[r].left, z) /\ (x \in {"mark", "out", "done"} \/ req[r].pc = "wait")
        BY <1>3, ReqFields DEF Enter
    <2>2. QED
        BY <2>1 DEF Onward, ReqGoes
<1>4. ASSUME NEW r \in Requests, NEW s \in SmSlots, Delete(r, s) PROVE Onward(q)
    <2>1. req[r].pc = "in"
        BY <1>4 DEF Delete
    <2>2. \E x, z : ReqGoes(r, x, req[r].left \ {s}, z)
        BY <1>4, ReqFields
    <2>3. QED
        BY <2>1, <2>2 DEF Onward, ReqGoes
<1>5. ASSUME NEW r \in Requests, User(r) PROVE Onward(q)
    BY <1>2, <1>5, AskFields DEF User
<1>6. CASE Publish
    BY <1>1, <1>2, <1>6, PublishFields, NameAssumption
<1>7. ASSUME UNCHANGED vars \/ (\E m \in Msgs : Receive(m)) \/ Start \/ Kill \/ Hour \/ RemoveStale
             \/ Setup \/ Take \/ CountUsed \/ Decide \/ Cmgr \/ Cmgw \/ Cmgd \/ Advance \/ Cmgl
             \/ Commit \/ Release \/ Sleep
      PROVE  UNCHANGED req
    BY <1>7 DEF vars, Receive, Start, Kill, Hour, RemoveStale, Setup, Take, CountUsed, Decide,
                Cmgr, Cmgw, Cmgd, Advance, Cmgl, Commit, Release, Sleep
<1>8. QED
    BY <1>1, <1>3, <1>4, <1>5, <1>6, <1>7 DEF Next, ProcStep, ReqStep

\* A slot that a request has emptied stays one.
LEMMA EmptiedStays ==
    ASSUME TypeOK, Carried, [Next]_vars, NEW s \in SmSlots, Emptied(s)
    PROVE  Emptied(s)'
<1>1. PICK r \in Requests :
        \/ req[r].kind = "all" /\ req[r].pc \in {"mark", "out", "done"}
        \/ req[r].kind = "del" /\ s \in DOMAIN req[r].named \ req[r].left
    BY DEF Emptied
<1>2. req[r] # Idle
    BY <1>1 DEF Idle
<1>3. Onward(r)
    BY OnwardStep
<1>4. QED
    BY <1>1, <1>2, <1>3 DEF Onward, Emptied

\* A slot keeps its message unless a request deletes it.
LEMMA SlotKept ==
    ASSUME TypeOK, [Next]_vars, NEW s \in SmSlots, MsgAt(sm, s) # None,
           \A r \in Requests : ~DeleteAll(r) /\ \A t \in SmSlots : ~Delete(r, t)
    PROVE  MsgAt(sm', s) = MsgAt(sm, s)
<1>0. sm \in [SmSlots -> Slot] /\ sm[s] # None
    BY DEF TypeOK, MsgAt
<1>1. ASSUME UNCHANGED sm PROVE MsgAt(sm', s) = MsgAt(sm, s)
    BY <1>1
<1>2. ASSUME NEW x, NEW y, NEW t \in Free(sm), sm' = Put(sm, t, x, y)
      PROVE  MsgAt(sm', s) = MsgAt(sm, s)
    <2>1. t # s
        BY <1>0 DEF Free, Full
    <2>2. sm'[s] = sm[s]
        BY <1>0, <1>2, <2>1 DEF Put
    <2>3. QED
        BY <2>2 DEF MsgAt
<1>3. CASE Cmgl
    BY <1>0, <1>3, ReadHeld DEF Cmgl
<1>4. ASSUME NEW m \in Msgs, Receive(m) PROVE MsgAt(sm', s) = MsgAt(sm, s)
    BY <1>1, <1>2, <1>4 DEF Receive
<1>5. ASSUME NEW r \in Requests, Write(r) PROVE MsgAt(sm', s) = MsgAt(sm, s)
    BY <1>1, <1>2, <1>5 DEF Write
<1>6. CASE Cmgw
    BY <1>1, <1>2, <1>6 DEF Cmgw
<1>7. ASSUME UNCHANGED vars \/ Start \/ Kill \/ Hour \/ RemoveStale
             \/ Setup \/ Take \/ CountUsed \/ Decide \/ Cmgr \/ Cmgd \/ Advance
             \/ Commit \/ Publish \/ Release \/ Sleep
      PROVE  UNCHANGED sm
    BY <1>7 DEF vars, Start, Kill, Hour, RemoveStale, Setup, Take, CountUsed, Decide,
                Cmgr, Cmgd, Advance, Commit, Publish, Release, Sleep
<1>8. ASSUME NEW r \in Requests, User(r) \/ Enter(r) \/ Mark(r) \/ Leave(r)
      PROVE  UNCHANGED sm
    BY <1>8 DEF User, AskDelete, AskDeleteAll, AskWrite, Enter, Mark, Leave
<1>9. QED
    BY <1>1, <1>3, <1>4, <1>5, <1>6, <1>7, <1>8 DEF Next, ProcStep, ReqStep

\* A slot keeps its message until a request empties it.
LEMMA SlotStep ==
    ASSUME TypeOK, Carried, [Next]_vars, NEW s \in SmSlots, MsgAt(sm, s) # None
    PROVE  MsgAt(sm', s) = MsgAt(sm, s) \/ Emptied(s)'
<1>0. sm \in [SmSlots -> Slot] /\ req \in [Requests -> Request] /\ sm[s] # None
    BY DEF TypeOK, MsgAt
<1>1. ASSUME NEW r \in Requests, NEW t \in SmSlots, Delete(r, t)
      PROVE  MsgAt(sm', s) = MsgAt(sm, s) \/ Emptied(s)'
    <2>1. CASE t = s
        <3>1. req[r].kind = "del" /\ s \in req[r].left /\ req[r].left \subseteq DOMAIN req[r].named
            BY <1>1, <2>1 DEF Delete, Carried
        <3>2. \E x, z : ReqGoes(r, x, req[r].left \ {s}, z)
            BY <1>1, <2>1, ReqFields
        <3>3. QED
            BY <3>1, <3>2 DEF Emptied, ReqGoes
    <2>2. CASE t # s
        <3>1. sm'[s] = sm[s]
            BY <1>0, <1>1, <2>2 DEF Delete
        <3>2. QED
            BY <3>1 DEF MsgAt
    <2>3. QED
        BY <2>1, <2>2
<1>2. ASSUME NEW r \in Requests, DeleteAll(r) PROVE Emptied(s)'
    <2>1. req[r].kind = "all" /\ ReqGoes(r, "mark", req[r].left, req[r].msg)
        BY <1>2, ReqFields DEF DeleteAll
    <2>2. QED
        BY <2>1 DEF Emptied, ReqGoes
<1>3. QED
    BY <1>1, <1>2, SlotKept

\* What was true of a slot, or excused by a request, still is after a step.
LEMMA ClaimStays ==
    ASSUME TypeOK, Carried, Moving, [Next]_vars, NEW s \in SmSlots, NEW v, v # None,
           MsgAt(sm, s) = v \/ Emptied(s)
    PROVE  MsgAt(sm', s) = v \/ Emptied(s)'
BY EmptiedStays, SlotStep

\* Every step keeps the claims about slots.
LEMMA ClaimsStep ==
    ASSUME TypeOK, Carried, Moving, Claims, [Next]_vars
    PROVE  Claims'
<1>0. /\ sm \in [SmSlots -> Slot] /\ temp \in [SmSlots -> Slot] /\ req \in [Requests -> Request]
      /\ list \in [SmSlots -> Msgs \cup {None}]
    BY DEF TypeOK
<1>a. \A s \in SmSlots : temp[s] # None => temp[s].msg # None /\ MsgAt(temp, s) = temp[s].msg
    BY <1>0, FullSlot, NameAssumption DEF MsgAt
<1>1. ASSUME NEW s \in SmSlots, list'[s] # None
      PROVE  MsgAt(sm', s) = list'[s] \/ Emptied(s)'
    <2>1. \/ UNCHANGED list
          \/ list' = Listed(temp)
        BY DEF Next, vars, Receive, Start, ProcStep, Setup, Take, CountUsed, Decide, Cmgr, Cmgw,
               Cmgd, Advance, Cmgl, Commit, Publish, Release, Sleep, Kill, Hour, RemoveStale, User,
               AskDelete, AskDeleteAll, AskWrite, Enter, ReqStep, Delete, DeleteAll, Mark, Write, Leave
    <2>2. CASE UNCHANGED list
        BY <1>1, <2>2, ClaimStays DEF Claims
    <2>3. CASE list' = Listed(temp)
        <3>1. list'[s] = MsgAt(temp, s) /\ temp[s] # None
            BY <1>1, <2>3 DEF Listed, MsgAt
        <3>2. QED
            BY <1>1, <1>a, <3>1, ClaimStays DEF Claims
    <2>4. QED
        BY <2>1, <2>2, <2>3
<1>2. ASSUME NEW s \in SmSlots, temp'[s] # None
      PROVE  MsgAt(sm', s) = temp'[s].msg \/ Emptied(s)'
    <2>1. \/ UNCHANGED temp
          \/ temp' = sm
          \/ temp' = [t \in SmSlots |-> None]
        BY DEF Next, vars, Receive, Start, ProcStep, Setup, Take, CountUsed, Decide, Cmgr, Cmgw,
               Cmgd, Advance, Cmgl, Commit, Publish, Release, Sleep, Kill, Hour, RemoveStale, User,
               AskDelete, AskDeleteAll, AskWrite, Enter, ReqStep, Delete, DeleteAll, Mark, Write, Leave
    <2>2. CASE UNCHANGED temp
        BY <1>2, <1>a, <2>2, ClaimStays DEF Claims
    <2>3. CASE temp' = sm
        <3>1. MsgAt(sm, s) = temp'[s].msg /\ temp'[s].msg # None
            BY <1>0, <1>2, <2>3, FullSlot, NameAssumption DEF MsgAt
        <3>2. QED
            BY <3>1, ClaimStays
    <2>4. QED
        BY <1>2, <2>1, <2>2, <2>3
<1>3. ASSUME NEW r \in Requests, NEW s \in req'[r].left
      PROVE  /\ req'[r].kind = "del" /\ req'[r].named[s] # None
             /\ MsgAt(sm', s) = req'[r].named[s] \/ Emptied(s)'
    <2>1. CASE req[r] # Idle \/ req'[r] = req[r]
        <3>1. /\ req'[r].kind = req[r].kind /\ req'[r].named = req[r].named /\ s \in req[r].left
            BY <1>3, <2>1, OnwardStep DEF Onward
        <3>2. s \in SmSlots
            BY <1>0, <3>1 DEF Request
        <3>3. QED
            BY <3>1, <3>2, ClaimStays DEF Claims
    <2>2. CASE req[r] = Idle /\ req'[r] # req[r]
        <3>1. ASSUME NEW slots \in SUBSET Shown, AskDelete(r, slots)
              PROVE  /\ req'[r].kind = "del" /\ req'[r].named[s] # None
                     /\ MsgAt(sm', s) = req'[r].named[s] \/ Emptied(s)'
            <4>1. req'[r].kind = "del" /\ s \in Shown /\ req'[r].named[s] = list[s]
                <5>1. ReqNew(r, "del", [t \in slots |-> list[t]], None)
                    BY <3>1, AskFields
                <5>2. QED
                    BY <1>3, <5>1 DEF ReqNew
            <4>2. QED
                BY <4>1, ClaimStays DEF Claims, Shown
        <3>2. CASE Publish
            <4>1. req'[r].kind = "del" /\ s \in SmSlots /\ temp[s] # None /\ req'[r].named[s] = temp[s].msg
                <5>1. r = AutoDelete /\ ReqNew(AutoDelete, "del",
                        [t \in {t \in NewIn(temp) : temp[t].msg \in Commands} |-> temp[t].msg], None)
                    BY <2>2, <3>2, PublishFields, NameAssumption DEF ReqNew
                <5>2. QED
                    BY <1>0, <1>3, <5>1 DEF ReqNew, NewIn, Full
            <4>2. QED
                BY <1>a, <4>1, ClaimStays DEF Claims
        <3>3. CASE AskDeleteAll(r) \/ \E m \in Msgs : AskWrite(r, m)
            <4>1. req'[r].left = {}
                BY <3>3, AskFields, NoNamesType DEF ReqNew
            <4>2. QED
                BY <1>3, <4>1
        <3>4. \/ \E slots \in SUBSET Shown : AskDelete(r, slots)
              \/ Publish \/ AskDeleteAll(r) \/ \E m \in Msgs : AskWrite(r, m)
            <4>1. ASSUME NEW q \in Requests, User(q) PROVE q = r
                BY <2>2, <4>1, AskFields DEF User, ReqNew
            <4>2. ASSUME NEW q \in Requests, Enter(q) \/ ReqStep(q) PROVE FALSE
                <5>1. req[q].pc # "none"
                    BY <4>2 DEF Enter, ReqStep, Delete, DeleteAll, Mark, Write, Leave
                <5>2. q # r
                    BY <2>2, <5>1 DEF Idle
                <5>3. \E x, y, z : ReqGoes(q, x, y, z)
                    BY <4>2, ReqFields DEF ReqStep
                <5>4. QED
                    BY <2>2, <5>2, <5>3 DEF ReqGoes
            <4>3. Publish \/ \E q \in Requests : User(q)
                BY <2>2, <4>2 DEF Next, vars, Receive, Start, ProcStep, Setup, Take, CountUsed,
                     Decide, Cmgr, Cmgw, Cmgd, Advance, Cmgl, Commit, Release, Sleep, Kill, Hour,
                     RemoveStale
            <4>4. QED
                BY <4>1, <4>3 DEF User
        <3>5. QED
            BY <3>1, <3>2, <3>3, <3>4
    <2>3. QED
        BY <2>1, <2>2
<1>4. QED
    BY <1>1, <1>2, <1>3 DEF Claims

\* A step deletes a message it was not given only where another request worked.
LEMMA WrongStep ==
    ASSUME TypeOK, Carried, Claims, WrongOnlyAfterAnother, [Next]_vars
    PROVE  WrongOnlyAfterAnother'
<1>1. ASSUME NEW q \in Requests, NEW s \in SmSlots,
             req[q].kind = "all" \/ (req[q].kind = "del" /\ s \in DOMAIN req[q].named)
      PROVE  req'[q].kind = "all" \/ (req'[q].kind = "del" /\ s \in DOMAIN req'[q].named)
    <2>1. req[q] # Idle
        BY <1>1 DEF Idle
    <2>2. QED
        BY <1>1, <2>1, OnwardStep DEF Onward
<1>2. \A p \in mistaken : \E r \in Requests \ {p[1]} :
        req'[r].kind = "all" \/ (req'[r].kind = "del" /\ p[2] \in DOMAIN req'[r].named)
    <2>1. \A p \in mistaken : p[2] \in SmSlots
        BY DEF TypeOK
    <2>2. QED
        BY <1>1, <2>1 DEF WrongOnlyAfterAnother
<1>3. ASSUME NEW r \in Requests, NEW s \in SmSlots, Delete(r, s) PROVE WrongOnlyAfterAnother'
    <2>1. CASE mistaken' = mistaken
        BY <1>2, <2>1 DEF WrongOnlyAfterAnother
    <2>2. CASE mistaken' # mistaken
        <3>1. mistaken' = mistaken \cup {<<r, s>>} /\ MsgAt(sm, s) \notin {None, req[r].named[s]}
            BY <1>3, <2>2 DEF Delete
        <3>2. s \in req[r].left /\ req[r].kind = "del"
            BY <1>3 DEF Delete
        <3>3. Emptied(s)
            BY <3>1, <3>2 DEF Claims
        <3>4. PICK q \in Requests :
                \/ req[q].kind = "all" /\ req[q].pc \in {"mark", "out", "done"}
                \/ req[q].kind = "del" /\ s \in DOMAIN req[q].named \ req[q].left
            BY <3>3 DEF Emptied
        <3>5. q # r
            BY <3>2, <3>4
        <3>6. req'[q].kind = "all" \/ (req'[q].kind = "del" /\ s \in DOMAIN req'[q].named)
            BY <1>1, <3>4
        <3>7. QED
            BY <1>2, <3>1, <3>5, <3>6 DEF WrongOnlyAfterAnother
    <2>3. QED
        BY <2>1, <2>2
<1>4. CASE UNCHANGED mistaken
    BY <1>2, <1>4 DEF WrongOnlyAfterAnother
<1>5. QED
    BY <1>3, <1>4 DEF Next, vars, Receive, Start, ProcStep, Setup, Take, CountUsed, Decide, Cmgr, Cmgw,
               Cmgd, Advance, Cmgl, Commit, Publish, Release, Sleep, Kill, Hour, RemoveStale, User,
               AskDelete, AskDeleteAll, AskWrite, Enter, ReqStep, DeleteAll, Mark, Write, Leave

-----------------------------------------------------------------------------

\* Who works on the store holds the lock, after every step.
LEMMA ExclusiveStep ==
    ASSUME TypeOK, Carried, Exclusive, [Next]_vars
    PROVE  Exclusive'
<1> SUFFICES ASSUME ~robbed'
             PROVE  /\ pp' \in Phases \ {"off", "setup", "idle", "sleep"} => lock' = Proc
                    /\ \A q \in Requests : req'[q].pc \in {"in", "mark", "out"} => lock' = q
    BY DEF Exclusive
<1> DEFINE Goal == /\ pp' \in Phases \ {"off", "setup", "idle", "sleep"} => lock' = Proc
                   /\ \A q \in Requests : req'[q].pc \in {"in", "mark", "out"} => lock' = q
<1>0. /\ Proc \notin Requests /\ None \notin Requests /\ Dead \notin Requests
      /\ Proc # None /\ Proc # Dead /\ pp \in Phases
    BY NameAssumption DEF TypeOK
<1>1. ~robbed
    BY DEF Next, vars, Receive, Start, ProcStep, Setup, Take, CountUsed, Decide, Cmgr, Cmgw,
           Cmgd, Advance, Cmgl, Commit, Publish, Release, Sleep, Kill, Hour, RemoveStale, User,
           AskDelete, AskDeleteAll, AskWrite, Enter, ReqStep, Delete, DeleteAll, Mark, Write, Leave
<1>2. /\ pp \in Phases \ {"off", "setup", "idle", "sleep"} => lock = Proc
      /\ \A q \in Requests : req[q].pc \in {"in", "mark", "out"} => lock = q
    BY <1>1 DEF Exclusive
<1>3. CASE Start
    BY <1>0, <1>2, <1>3 DEF Start, At
<1>4. CASE Setup \/ Sleep
    BY <1>2, <1>4 DEF Setup, Sleep, At
<1>5. CASE Take
    BY <1>0, <1>2, <1>5 DEF Take, At
<1>6. CASE Release
    <2>1. lock = Proc /\ UNCHANGED req /\ pp' = "sleep"
        BY <1>2, <1>6 DEF Release, At, Phases
    <2>2. QED
        BY <1>0, <1>2, <2>1
<1>7. CASE Kill
    BY <1>0, <1>2, <1>7 DEF Kill
<1>8. CASE CountUsed \/ Decide \/ Cmgr \/ Cmgw \/ Cmgd \/ Advance \/ Cmgl \/ Commit
    <2>1. pp \in Phases \ {"off", "setup", "idle", "sleep"} /\ UNCHANGED <<lock, req>>
        BY <1>0, <1>8 DEF CountUsed, Decide, Cmgr, Cmgw, Cmgd, Advance, Cmgl, Commit, At
    <2>2. QED
        BY <1>2, <2>1
<1>9. CASE Publish
    <2>1. lock = Proc /\ UNCHANGED lock
        BY <1>2, <1>9 DEF Publish, At, Phases
    <2>2. \A q \in Requests : req'[q].pc \notin {"in", "mark", "out"}
        BY <1>0, <1>2, <1>9, <2>1, PublishFields DEF ReqNew
    <2>3. QED
        BY <2>1, <2>2
<1>10. CASE RemoveStale
    BY <1>0, <1>2, <1>10 DEF RemoveStale
<1>11. CASE UNCHANGED vars \/ Hour \/ \E m \in Msgs : Receive(m)
    BY <1>2, <1>11 DEF vars, Hour, Receive
<1>12. ASSUME NEW r \in Requests, User(r) PROVE Goal
    <2>1. UNCHANGED <<lock, pp>>
        BY <1>12 DEF User, AskDelete, AskDeleteAll, AskWrite
    <2>2. \E x, y, z : ReqNew(r, x, y, z)
        BY <1>12, AskFields DEF User
    <2>3. QED
        BY <1>2, <2>1, <2>2 DEF ReqNew
<1>13. ASSUME NEW r \in Requests, Enter(r) PROVE Goal
    <2>1. lock = None /\ lock' = r /\ UNCHANGED pp
        BY <1>13 DEF Enter
    <2>2. ReqGoes(r, "in", req[r].left, req[r].msg)
        BY <1>13, ReqFields
    <2>3. QED
        BY <1>0, <1>2, <2>1, <2>2 DEF ReqGoes
<1>14. ASSUME NEW r \in Requests, Leave(r) PROVE Goal
    <2>1. lock = r /\ lock' = None /\ UNCHANGED pp
        BY <1>2, <1>14 DEF Leave
    <2>2. ReqGoes(r, "done", req[r].left, None)
        BY <1>14, ReqFields
    <2>3. QED
        BY <1>0, <1>2, <2>1, <2>2 DEF ReqGoes
<1>15. ASSUME NEW r \in Requests, DeleteAll(r) \/ Mark(r) \/ Write(r) \/ \E s \in SmSlots : Delete(r, s)
       PROVE  Goal
    <2>1. req[r].pc \in {"in", "mark"} /\ UNCHANGED <<lock, pp>>
        BY <1>15 DEF DeleteAll, Mark, Write, Delete
    <2>2. \E x, y, z : ReqGoes(r, x, y, z)
        BY <1>15, ReqFields
    <2>3. QED
        BY <1>2, <2>1, <2>2 DEF ReqGoes
<1>16. QED
    BY <1>3, <1>4, <1>5, <1>6, <1>7, <1>8, <1>9, <1>10, <1>11, <1>12, <1>13, <1>14, <1>15
    DEF Next, ProcStep, ReqStep

\* A slot is full when it has a message.
LEMMA FullHasMsg ==
    ASSUME NEW mem \in [SmSlots -> Slot], NEW s \in SmSlots
    PROVE  s \in Full(mem) <=> MsgAt(mem, s) # None
BY FullSlot, NameAssumption DEF Full, MsgAt

\* A memory whose slots keep their messages counts no less than before.
LEMMA CountGrows ==
    ASSUME NEW mem \in [SmSlots -> Slot], NEW after \in [SmSlots -> Slot],
           \A s \in SmSlots : MsgAt(mem, s) # None => MsgAt(after, s) = MsgAt(mem, s)
    PROVE  Count(mem) <= Count(after)
<1>1. Full(mem) \in SUBSET Full(after)
    <2>1. \A s \in Full(mem) : s \in SmSlots
        BY DEF Full
    <2>2. QED
        BY <2>1, FullHasMsg
<1>2. IsFiniteSet(Full(after))
    BY CountType, SizeAssumption DEF SmSlots
<1>3. QED
    BY <1>1, <1>2, FS_Subset DEF Count

\* A deletion is announced by Mark only.
LEMMA UnmarkedStep ==
    ASSUME TypeOK, Carried, [Next]_vars, Unmarked, ~Unmarked'
    PROVE  \E r \in Requests : Mark(r)
<1>1. PICK r \in Requests : \/ req[r].pc = "mark"
                            \/ req[r].pc = "in" /\ req[r].left # DOMAIN req[r].named
    BY DEF Unmarked
<1>2. req'[r] # req[r]
    BY <1>1 DEF Unmarked
<1>3. req[r] # Idle
    BY <1>1 DEF Idle
<1>4. ASSUME NEW q \in Requests, User(q) PROVE FALSE
    BY <1>2, <1>3, <1>4, AskFields DEF User, ReqNew
<1>5. ~Publish
    BY <1>2, <1>3, PublishFields DEF ReqNew
<1>6. ASSUME NEW q \in Requests, Enter(q) \/ ReqStep(q) PROVE Mark(q)
    <2>1. q = r
        <3>1. \E x, y, z : ReqGoes(q, x, y, z)
            BY <1>6, ReqFields DEF ReqStep
        <3>2. QED
            BY <1>2, <3>1 DEF ReqGoes
    <2>2. CASE Enter(q)
        BY <1>1, <2>1, <2>2 DEF Enter
    <2>3. CASE DeleteAll(q)
        BY <2>3, ReqFields DEF ReqGoes, Unmarked
    <2>4. CASE Leave(q)
        BY <1>1, <2>1, <2>4 DEF Leave
    <2>5. CASE Write(q)
        BY <1>1, <2>1, <2>5 DEF Write, Carried
    <2>6. ASSUME NEW s \in SmSlots, Delete(q, s) PROVE FALSE
        <3>1. s \in req[q].left /\ req[q].left \subseteq DOMAIN req[q].named
            BY <2>6 DEF Delete, Carried
        <3>2. ReqGoes(q, IF req[q].left = {s} THEN "mark" ELSE "in", req[q].left \ {s}, req[q].msg)
            BY <2>6, ReqFields
        <3>3. req'[q].pc \in {"mark", "in"} /\ req'[q].left # DOMAIN req'[q].named
            BY <3>1, <3>2 DEF ReqGoes
        <3>4. QED
            BY <3>3 DEF Unmarked
    <2>7. QED
        BY <1>6, <2>2, <2>3, <2>4, <2>5, <2>6 DEF ReqStep
<1>7. QED
    BY <1>2, <1>4, <1>5, <1>6 DEF Next, vars, Receive, Start, ProcStep, Setup, Take, CountUsed,
         Decide, Cmgr, Cmgw, Cmgd, Advance, Cmgl, Commit, Release, Sleep, Kill, Hour, RemoveStale

\* A deletion is not announced before it is.
LEMMA DeletionUnmarked ==
    ASSUME TypeOK, Carried, NEW r \in Requests, DeleteAll(r) \/ \E s \in SmSlots : Delete(r, s)
    PROVE  Unmarked'
<1>1. CASE DeleteAll(r)
    BY <1>1, ReqFields DEF ReqGoes, Unmarked
<1>2. ASSUME NEW s \in SmSlots, Delete(r, s) PROVE Unmarked'
    <2>1. s \in req[r].left /\ req[r].left \subseteq DOMAIN req[r].named
        BY <1>2 DEF Delete, Carried
    <2>2. ReqGoes(r, IF req[r].left = {s} THEN "mark" ELSE "in", req[r].left \ {s}, req[r].msg)
        BY <1>2, ReqFields
    <2>3. req'[r].pc \in {"mark", "in"} /\ req'[r].left # DOMAIN req'[r].named
        BY <2>1, <2>2 DEF ReqGoes
    <2>4. QED
        BY <2>3 DEF Unmarked
<1>3. QED
    BY <1>1, <1>2

\* The count stays behind the list it was taken with.
LEMMA CountedStep ==
    ASSUME TypeOK, TypeOK', Carried, Exclusive, Counted, [Next]_vars
    PROVE  Counted'
<1> SUFFICES ASSUME ~robbed', ~Unmarked' PROVE Counted'
    BY DEF Counted
<1>0. /\ sm \in [SmSlots -> Slot] /\ sm' \in [SmSlots -> Slot] /\ temp \in [SmSlots -> Slot]
      /\ temp' \in [SmSlots -> Slot] /\ pp \in Phases
    BY DEF TypeOK
<1>1. ~robbed
    BY DEF Next, vars, Receive, Start, ProcStep, Setup, Take, CountUsed, Decide, Cmgr, Cmgw,
           Cmgd, Advance, Cmgl, Commit, Publish, Release, Sleep, Kill, Hour, RemoveStale, User,
           AskDelete, AskDeleteAll, AskWrite, Enter, ReqStep, Delete, DeleteAll, Mark, Write, Leave
<1>2. ASSUME NEW r \in Requests, Mark(r) PROVE Counted'
    <2>1. lock = r /\ r # Proc
        BY <1>1, <1>2, NameAssumption DEF Mark, Exclusive
    <2>2. pp \in {"off", "setup", "idle", "sleep"}
        BY <1>0, <1>1, <2>1 DEF Exclusive
    <2>3. pp' = pp /\ smsnum' = 999
        BY <1>2 DEF Mark
    <2>4. QED
        BY <2>2, <2>3 DEF Counted
<1>3. CASE Unmarked
    BY <1>2, <1>3, UnmarkedStep
<1>4. CASE ~Unmarked
    <2> DEFINE A == pp \in {"decide", "cmgl"} => used <= Count(sm)
               B == pp \in {"commit", "publish"} => used <= Count(temp) /\ TrueOf(Listed(temp))
               C == pp = "publish" => smsnum = used
               D == pp \notin {"off", "setup", "publish"} =>
                      smsnum = 999 \/ (smsnum <= Cardinality(Shown) /\ TrueOf(list))
    <2> SUFFICES A' /\ B' /\ C' /\ D'
        BY DEF Counted
    <2>1. A /\ B /\ C /\ D
        BY <1>1, <1>4 DEF Counted
    <2>2. \A r \in Requests : ~DeleteAll(r) /\ \A s \in SmSlots : ~Delete(r, s)
        BY DeletionUnmarked
    <2>3. \A s \in SmSlots : MsgAt(sm, s) # None => MsgAt(sm', s) = MsgAt(sm, s)
        BY <2>2, SlotKept
    <2>4. Count(sm) <= Count(sm') /\ Count(sm) \in Nat /\ Count(sm') \in Nat /\ Count(temp) \in Nat
        <3>1. \A mem \in [SmSlots -> Slot] : Count(mem) \in Nat
            BY CountType, SizeAssumption DEF SmSlots
        <3>2. Count(sm) <= Count(sm')
            BY <1>0, <2>3, CountGrows
        <3>3. QED
            BY <1>0, <3>1, <3>2
    <2>5. ASSUME NEW l, TrueOf(l) PROVE TrueOf(l)'
        BY <2>3, <2>5 DEF TrueOf
    <2>6. used \in Int /\ smsnum \in Int
        BY SizeAssumption DEF TypeOK
    <2>7. ASSUME UNCHANGED <<list, smsnum>>, pp \notin {"off", "setup", "publish"} PROVE D'
        <3>1. Shown' = Shown
            BY <2>7 DEF Shown
        <3>2. TrueOf(list) => TrueOf(list)'
            BY <2>5, <2>7
        <3>3. QED
            BY <2>1, <2>7, <3>1, <3>2
    <2>8. ASSUME UNCHANGED <<pp, used, temp, list, smsnum>> PROVE A' /\ B' /\ C' /\ D'
        <3>1. A'
            BY <2>1, <2>4, <2>6, <2>8
        <3>2. TrueOf(Listed(temp)) => TrueOf(Listed(temp))'
            BY <2>5, <2>8
        <3>3. B' /\ C'
            BY <2>1, <2>8, <3>2
        <3>4. D'
            BY <2>7, <2>8
        <3>5. QED
            BY <3>1, <3>3, <3>4
    <2>9. CASE UNCHANGED vars \/ Hour \/ RemoveStale \/ (\E m \in Msgs : Receive(m))
               \/ \E r \in Requests : User(r) \/ Enter(r) \/ Write(r) \/ Leave(r)
        <3>1. UNCHANGED <<pp, used, temp, list, smsnum>>
            BY <2>9 DEF vars, Hour, RemoveStale, Receive, User, AskDelete, AskDeleteAll, AskWrite,
                        Enter, Write, Leave
        <3>2. QED
            BY <2>8, <3>1
    <2>10. CASE Start \/ Kill
        BY <2>10 DEF Start, Kill, At
    <2>11. CASE Setup
        BY <2>11 DEF Setup, At
    <2>12. CASE Take \/ Cmgr \/ Cmgw \/ Cmgd \/ Advance \/ Release \/ Sleep
        <3>1. /\ pp \notin {"off", "setup", "publish"} /\ UNCHANGED <<list, smsnum>>
              /\ pp' \notin {"decide", "cmgl", "commit", "publish"}
            BY <2>12 DEF Take, Cmgr, Cmgw, Cmgd, Advance, Release, Sleep, At, AfterTimeout
        <3>2. QED
            BY <2>7, <3>1
    <2>13. CASE CountUsed
        <3>1. pp' = "decide" /\ pp = "count" /\ used' = Count(sm) /\ UNCHANGED <<sm, list, smsnum>>
            BY <2>13 DEF CountUsed, At
        <3>2. A' /\ D'
            BY <2>4, <2>7, <3>1
        <3>3. QED
            BY <3>1, <3>2
    <2>14. CASE Decide
        <3>1. pp' \in {"cmgl", "cmgr", "release"} /\ pp = "decide" /\ UNCHANGED <<sm, used, list, smsnum>>
            BY <2>14 DEF Decide
        <3>2. A' /\ D'
            BY <2>1, <2>7, <3>1
        <3>3. QED
            BY <3>1, <3>2
    <2>15. CASE Cmgl
        <3>1. pp' = "commit" /\ pp = "cmgl" /\ temp' = sm /\ UNCHANGED <<used, list, smsnum>>
            BY <2>15 DEF Cmgl, At
        <3>2. TrueOf(Listed(sm))
            BY DEF TrueOf, Listed
        <3>3. TrueOf(Listed(temp))'
            BY <2>5, <3>1, <3>2
        <3>4. B'
            BY <2>1, <3>1, <3>3
        <3>5. D'
            BY <2>7, <3>1
        <3>6. QED
            BY <3>1, <3>4, <3>5
    <2>16. CASE Commit
        <3>1. pp' = "publish" /\ pp = "commit" /\ smsnum' = used /\ UNCHANGED <<used, temp, sm>>
            BY <2>16 DEF Commit, At
        <3>2. TrueOf(Listed(temp)) => TrueOf(Listed(temp))'
            BY <2>5, <3>1
        <3>3. QED
            BY <2>1, <3>1, <3>2
    <2>17. CASE Publish
        <3>1. pp' = "release" /\ pp = "publish" /\ list' = Listed(temp) /\ UNCHANGED <<sm, smsnum>>
            BY <2>17 DEF Publish, At
        <3>2. Shown' = Full(temp)
            <4>1. Shown' = {s \in SmSlots : MsgAt(temp, s) # None}
                BY <3>1 DEF Shown, Listed
            <4>2. Full(temp) \subseteq SmSlots
                BY <1>0 DEF Full
            <4>3. QED
                BY <1>0, <4>1, <4>2, FullHasMsg
        <3>3. TrueOf(list)'
            BY <2>1, <2>5, <3>1
        <3>4. D'
            BY <2>1, <3>1, <3>2, <3>3 DEF Count
        <3>5. QED
            BY <3>1, <3>4
    <2>18. \A r \in Requests : ~Mark(r)
        BY <1>4 DEF Mark, Unmarked
    <2>19. QED
        BY <2>1, <2>2, <2>18, <2>9, <2>10, <2>11, <2>12, <2>13, <2>14, <2>15, <2>16, <2>17
        DEF Next, ProcStep, ReqStep
<1>5. QED
    BY <1>3, <1>4

-----------------------------------------------------------------------------

\* The initial states satisfy the invariant.
LEMMA InitInv == Init => Inv
<1> SUFFICES ASSUME Init PROVE Inv
    OBVIOUS
<1>0. \A r \in Requests : req[r] = Idle
    BY DEF Init
<1>1. TypeOK
    <2>1. Idle \in Request
        <3>1. NoNames \in Names
            BY NoNamesType DEF Names
        <3>2. QED
            BY <3>1 DEF Idle, Request
    <2>2. me \in [MeSlots -> Slot]
        <3>1. Stored \subseteq Msgs
            BY NameAssumption
        <3>2. \A m \in Msgs : [msg |-> m, new |-> TRUE] \in Slot
            BY DEF Slot
        <3>3. /\ \A s \in MeSlots : me[s] = None \/ \E m \in Stored : me[s] = [msg |-> m, new |-> TRUE]
              /\ DOMAIN me = MeSlots /\ me = [s \in MeSlots |-> me[s]]
            BY DEF Init
        <3>4. \A s \in MeSlots : me[s] \in Slot
            BY <3>1, <3>2, <3>3 DEF Slot
        <3>5. QED
            BY <3>3, <3>4
    <2>3. sm \in [SmSlots -> Slot] /\ temp \in [SmSlots -> Slot] /\ pdu \in Slot
        BY DEF Init, Slot
    <2>4. req \in [Requests -> Request]
        BY <2>1 DEF Init
    <2>5. used \in 0..SmCap /\ mesc \in 0..MeCap /\ meslot \in 0..MeCap /\ kills \in 0..MaxKills
          /\ smsnum \in 0..SmCap \cup {999}
        BY SizeAssumption DEF Init
    <2>6. acted \in [Msgs -> 0..2] /\ list \in [SmSlots -> Msgs \cup {None}]
        BY DEF Init
    <2>7. QED
        BY <2>2, <2>3, <2>4, <2>5, <2>6 DEF Init, TypeOK, Phases
<1>2. Carried
    BY <1>0, NoNamesType DEF Carried, Idle
<1>3. Moving
    BY DEF Init, Moving
<1>4. NothingLost
    BY DEF Init, NothingLost, Held, Full
<1>5. NewInOnePlace
    <2>1. ASSUME NEW m \in Msgs PROVE OnePlace(m)
        <3>1. acted[m] = 0 /\ m # None
            BY NameAssumption DEF Init
        <3>2. ASSUME NEW k \in Kinds, NEW x \in Where, NewAt(m, k, x)
              PROVE  \/ k = "air" /\ x = None /\ m \in pending
                     \/ k = "modem" /\ x \in MeSlots /\ me[x] # None /\ me[x].msg = m
            BY <1>0, <3>1, <3>2 DEF NewAt, Init, Idle
        <3>3. ASSUME NEW s \in MeSlots, NEW t \in MeSlots, me[s] # None, me[t] # None,
                     me[s].msg = m, me[t].msg = m
              PROVE  s = t
            <4>1. me[s] = [msg |-> m, new |-> TRUE] /\ me[t] = [msg |-> m, new |-> TRUE]
                BY <3>3 DEF Init
            <4>2. QED
                BY <3>3, <4>1 DEF Init
        <3>4. ASSUME m \in pending, NEW s \in MeSlots, me[s] # None, me[s].msg = m PROVE FALSE
            BY <3>4 DEF Init
        <3>5. QED
            BY <3>1, <3>2, <3>3, <3>4 DEF OnePlace
    <2>2. QED
        BY <2>1 DEF NewInOnePlace
<1>6. Claims
    BY <1>0 DEF Init, Claims, Idle
<1>7. WrongOnlyAfterAnother
    BY DEF Init, WrongOnlyAfterAnother
<1>8. Exclusive
    BY <1>0 DEF Init, Exclusive, Idle
<1>9. Counted
    BY DEF Init, Counted
<1>10. QED
    BY <1>1, <1>2, <1>3, <1>4, <1>5, <1>6, <1>7, <1>8, <1>9 DEF Inv

\* The invariant holds in every execution.
THEOREM Invariant == Spec => []Inv
<1>1. Init => Inv
    BY InitInv
<1>2. Inv /\ [Next]_vars => Inv'
    <2> SUFFICES ASSUME Inv, [Next]_vars PROVE Inv'
        OBVIOUS
    <2>1. TypeOK' /\ Carried' /\ Moving'
        BY TypeStep, CarriedStep, MovingStep DEF Inv
    <2>2. NothingLost' /\ NewInOnePlace'
        BY NothingLostStep, OnePlaceStep DEF Inv, NewInOnePlace
    <2>3. Claims' /\ WrongOnlyAfterAnother'
        BY ClaimsStep, WrongStep DEF Inv
    <2>4. Exclusive' /\ Counted'
        BY <2>1, ExclusiveStep, CountedStep DEF Inv
    <2>5. QED
        BY <2>1, <2>2, <2>3, <2>4 DEF Inv
<1>3. QED
    BY <1>1, <1>2, PTL DEF Spec

\* The store's state keeps its type in every execution.
THEOREM TypeCorrect == Spec => []TypeOK
BY Invariant, PTL DEF Inv

\* No message is lost, although the move from ME to SM is made of three commands
\* of which any can be the last one before processsms is killed.
THEOREM NoMessageLost == Spec => []NothingLost
BY Invariant, PTL DEF Inv

\* No message is listed as new twice.
THEOREM ActedOnOnce == Spec => []NewOnce
<1>1. Inv => NewOnce
    BY DEF Inv, NewInOnePlace, OnePlace, NewOnce
<1>2. QED
    BY <1>1, Invariant, PTL

\* A message that was not asked for is deleted only where another request worked.
THEOREM WrongNeedsAnother == Spec => []WrongOnlyAfterAnother
BY Invariant, PTL DEF Inv

\* A count that agrees means a page that agrees, while no lock was robbed.
THEOREM CountMeansPage == Spec => []PageIsCurrent
<1>1. Inv => PageIsCurrent
    <2> SUFFICES ASSUME Inv, pp = "sleep", lock = None, ~robbed, smsnum = Count(sm)
                 PROVE  list = [s \in SmSlots |-> MsgAt(sm, s)]
        BY DEF PageIsCurrent
    <2>1. sm \in [SmSlots -> Slot] /\ list \in [SmSlots -> Msgs \cup {None}]
        BY DEF Inv, TypeOK
    <2>2. IsFiniteSet(Full(sm)) /\ Count(sm) \in 0..SmCap
        BY <2>1, CountType, SizeAssumption DEF SmSlots
    <2>3. ~Unmarked
        BY NameAssumption DEF Inv, Exclusive, Unmarked
    <2>4. Count(sm) <= Cardinality(Shown) /\ TrueOf(list)
        BY <2>2, <2>3, SizeAssumption DEF Inv, Counted
    <2>5. Shown \in SUBSET Full(sm)
        BY <2>1, <2>4, FullHasMsg DEF Shown, TrueOf
    <2>6. IsFiniteSet(Shown) /\ Cardinality(Shown) <= Count(sm)
          /\ (Count(sm) = Cardinality(Shown) => Full(sm) = Shown)
        BY <2>2, <2>5, FS_Subset DEF Count
    <2>7. Cardinality(Shown) \in Nat
        BY <2>6, FS_CardinalityType
    <2>8. Full(sm) = Shown
        BY <2>2, <2>4, <2>6, <2>7
    <2>9. \A s \in SmSlots : list[s] = MsgAt(sm, s)
        BY <2>1, <2>4, <2>8, FullHasMsg DEF Shown, TrueOf
    <2>10. QED
        BY <2>1, <2>9
<1>2. QED
    BY <1>1, Invariant, PTL
=============================================================================
