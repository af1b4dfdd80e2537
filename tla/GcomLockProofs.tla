--------------------------- MODULE GcomLockProofs ---------------------------
(***************************************************************************)
(* Proofs about GcomLock for any set of processes: the types, exclusion up *)
(* to robbery, and that a wedged lock stays wedged.                        *)
(***************************************************************************)
EXTENDS GcomLock, TLAPS

\* One step of a process or its death keeps the types.
LEMMA TypeStep ==
    ASSUME TypeOK, [Next]_vars
    PROVE  TypeOK'
<1>1. CASE UNCHANGED vars
    BY <1>1 DEF vars, TypeOK
<1>2. ASSUME NEW p \in Procs, Start(p) \/ MkdirOk(p) \/ MkdirFails(p) \/ Gcom(p) \/ Sleep(p)
      PROVE  TypeOK'
    BY <1>2 DEF TypeOK, Start, MkdirOk, MkdirFails, Gcom, Sleep, Goto,
                Running, Polling, Holding
<1>3. ASSUME NEW p \in Procs, OpenPid(p)
      PROVE  TypeOK'
    BY <1>3, ConstantsDistinct
    DEF TypeOK, OpenPid, Goto, Running, Polling, Holding, Files
<1>4. ASSUME NEW p \in Procs, WritePid(p)
      PROVE  TypeOK'
    <2>1. file' \in Files \union {None}
        BY <1>4 DEF TypeOK, WritePid, Files
    <2>2. QED
        BY <1>4, <2>1 DEF TypeOK, WritePid, Goto, Running, Polling, Holding
<1>5. ASSUME NEW p \in Procs, CatPid(p)
      PROVE  TypeOK'
    BY <1>5 DEF TypeOK, CatPid, Goto, Running, Polling, Holding, Files
<1>6. ASSUME NEW p \in Procs, KillZero(p)
      PROVE  TypeOK'
    BY <1>6 DEF TypeOK, KillZero, Goto, Running, Polling, Holding
<1>7. ASSUME NEW p \in Procs, UnlinkStale(p) \/ UnlinkOwn(p)
      PROVE  TypeOK'
    BY <1>7 DEF TypeOK, UnlinkStale, UnlinkOwn, Unlink, Goto, Running, Polling, Holding
<1>8. ASSUME NEW p \in Procs, RmdirStale(p) \/ RmdirOwn(p)
      PROVE  TypeOK'
    BY <1>8 DEF TypeOK, RmdirStale, RmdirOwn, Rmdir, Goto, Running, Polling, Holding
<1>9. ASSUME NEW p \in Procs, Die(p)
      PROVE  TypeOK'
    BY <1>9 DEF TypeOK, Die
<1>10. QED
    BY <1>1, <1>2, <1>3, <1>4, <1>5, <1>6, <1>7, <1>8, <1>9 DEF Next, Step

\* The lock's state keeps its type in every execution.
THEOREM TypeCorrect == Spec => []TypeOK
<1>1. Init => TypeOK
    BY DEF Init, TypeOK
<1>2. TypeOK /\ [Next]_vars => TypeOK'
    BY TypeStep
<1>3. QED
    BY <1>1, <1>2, PTL DEF Spec

\* OwnerKeepsDir is inductive given the types: mkdir succeeds only when no
\* directory exists, hence when every holder has been robbed, and rmdir by
\* another process puts the owner among the robbed.
LEMMA OwnerStep ==
    ASSUME TypeOK, OwnerKeepsDir, [Next]_vars
    PROVE  OwnerKeepsDir'
<1>1. CASE UNCHANGED vars
    BY <1>1 DEF vars, OwnerKeepsDir
<1>2. ASSUME NEW p \in Procs,
             Start(p) \/ MkdirFails(p) \/ OpenPid(p) \/ WritePid(p) \/ Gcom(p)
             \/ CatPid(p) \/ KillZero(p) \/ Sleep(p)
             \/ UnlinkStale(p) \/ UnlinkOwn(p) \/ Die(p)
      PROVE  OwnerKeepsDir'
    <2>1. dir' = dir /\ robbed' = robbed
        BY <1>2 DEF Start, MkdirFails, OpenPid, WritePid, Gcom, CatPid, KillZero, Sleep,
                    UnlinkStale, UnlinkOwn, Unlink, Die
    <2>2. \A q \in Procs : pc'[q] \in Holding => pc[q] \in Holding
        BY <1>2 DEF TypeOK, Start, MkdirFails, OpenPid, WritePid, Gcom, CatPid, KillZero,
                    Sleep, UnlinkStale, UnlinkOwn, Unlink, Die, Goto, Holding
    <2>3. QED
        BY <2>1, <2>2 DEF OwnerKeepsDir
<1>3. ASSUME NEW p \in Procs, MkdirOk(p)
      PROVE  OwnerKeepsDir'
    BY <1>3, ConstantsDistinct DEF TypeOK, OwnerKeepsDir, MkdirOk, Goto, Holding
<1>4. ASSUME NEW p \in Procs, RmdirStale(p) \/ RmdirOwn(p)
      PROVE  OwnerKeepsDir'
    <2>1. \A q \in Procs : pc'[q] \in Holding => pc[q] \in Holding /\ q # p
        BY <1>4 DEF TypeOK, RmdirStale, RmdirOwn, Rmdir, Goto, Holding
    <2>2. dir' # dir /\ dir # p => dir \in robbed'
        BY <1>4 DEF RmdirStale, RmdirOwn, Rmdir
    <2>3. robbed \subseteq robbed'
        BY <1>4 DEF RmdirStale, RmdirOwn, Rmdir
    <2>4. QED
        BY <2>1, <2>2, <2>3 DEF OwnerKeepsDir
<1>5. QED
    BY <1>1, <1>2, <1>3, <1>4 DEF Next, Step

\* gcom-locked serialises the modem's port except after a robbery.
THEOREM ExclusionUpToRobbery == Spec => []GcomExclusion
<1>1. Init => OwnerKeepsDir
    BY DEF Init, OwnerKeepsDir, Holding
<1>2. TypeOK /\ OwnerKeepsDir /\ [Next]_vars => OwnerKeepsDir'
    BY OwnerStep
<1>3. OwnerKeepsDir => GcomExclusion
    BY DEF OwnerKeepsDir, GcomExclusion, Holding
<1>4. QED
    BY <1>1, <1>2, <1>3, TypeCorrect, PTL DEF Spec

\* A wedged lock is never recovered by the scripts that wait for it.
THEOREM WedgedIsForever == Spec => WedgedForever
<1>1. TypeOK /\ [Next]_vars => (Wedged => Wedged')
    <2>1. SUFFICES ASSUME TypeOK, [Next]_vars, Wedged
                   PROVE  Wedged'
        OBVIOUS
    <2>2. CASE UNCHANGED vars
        BY <2>1, <2>2 DEF vars, Wedged
    <2>3. ASSUME NEW p \in Procs, Step(p) \/ Die(p)
          PROVE  Wedged'
        <3>1. pc[p] \in {"idle", "mkdir", "cat", "sleep"}
            BY <2>1, <2>3 DEF TypeOK, Wedged, Step, Die, Start, MkdirOk, MkdirFails, OpenPid,
                 WritePid, Gcom, CatPid, KillZero, Sleep, UnlinkStale, UnlinkOwn, Unlink,
                 RmdirStale, RmdirOwn, Rmdir, Goto, Running, Polling, Holding
        <3>2. Start(p) \/ MkdirFails(p) \/ CatPid(p) \/ Sleep(p) \/ Die(p)
            BY <2>1, <2>3, <3>1 DEF Wedged, Step, MkdirOk, OpenPid, WritePid, Gcom, KillZero,
                 UnlinkStale, UnlinkOwn, Unlink, RmdirStale, RmdirOwn, Rmdir, Goto
        <3>3. QED
            BY <2>1, <3>1, <3>2 DEF TypeOK, Wedged, Start, MkdirFails, CatPid, Sleep, Die,
                 Goto, Running, Polling, Holding
    <2>4. QED
        BY <2>1, <2>2, <2>3 DEF Next
<1>2. QED
    BY <1>1, TypeCorrect, PTL DEF Spec, WedgedForever

=============================================================================
