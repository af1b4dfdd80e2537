------------------------------ MODULE GcomLock ------------------------------
(***************************************************************************)
(* The lock directory that serialises access to a modem's AT port          *)
(* (usr/lib/rooter/gcom/gcom-locked) and, with the same code, its SMS      *)
(* store (usr/lib/sms/processsms, delsms.sh, delall.sh, sys2sms.sh).       *)
(*                                                                         *)
(* A process of the model is one pass of a script through the lock: it     *)
(* has its own PID and creates the directory at most once, so a process    *)
(* names the directory and the PID file it created.                        *)
(***************************************************************************)
EXTENDS Naturals

CONSTANTS Procs,      \* the passes through the lock, each with its PID
          None,       \* no directory, no file, no descriptor
          Blank       \* the text of a PID file that is created but not written

ASSUME ConstantsDistinct == None \notin Procs /\ Blank \notin Procs /\ None # Blank

VARIABLES
    pc,       \* where each process is in the script
    dir,      \* the process that created LOCKDIR, or None when it does not exist
    file,     \* PIDFILE: the process that created it and its text, or None
    fd,       \* the file each process opened for its PID
    seen,     \* OTHERPID of each process
    robbed    \* auxiliary: the processes whose directory another one removed

vars == <<pc, dir, file, fd, seen, robbed>>

Polling == {"mkdir", "cat", "kill", "unlink_stale", "rmdir_stale", "sleep"}

Holding == {"open", "write", "gcom", "unlink_own", "rmdir_own"}

Running == Polling \union Holding

Files == [by : Procs, text : Procs \union {Blank}]

Init ==
    /\ pc = [p \in Procs |-> "idle"]
    /\ dir = None
    /\ file = None
    /\ fd = [p \in Procs |-> None]
    /\ seen = [p \in Procs |-> None]
    /\ robbed = {}

Goto(p, from, to) == pc[p] = from /\ pc' = [pc EXCEPT ![p] = to]

Alive(p) == p \in Procs /\ pc[p] \in Running

Start(p) == Goto(p, "idle", "mkdir") /\ UNCHANGED <<dir, file, fd, seen, robbed>>

\* Mutant: mkdir -p, which does not fail on an existing directory.
MkdirDashP(p) ==
    /\ Goto(p, "mkdir", "open")
    /\ dir' = IF dir = None THEN p ELSE dir
    /\ UNCHANGED <<file, fd, seen, robbed>>

\* mkdir succeeds: the directory is new and empty.
MkdirOk(p) ==
    /\ dir = None
    /\ Goto(p, "mkdir", "open")
    /\ dir' = p
    /\ UNCHANGED <<file, fd, seen, robbed>>

MkdirFails(p) ==
    /\ dir # None
    /\ Goto(p, "mkdir", "cat")
    /\ UNCHANGED <<dir, file, fd, seen, robbed>>

\* echo "$$" > PIDFILE, first half: the shell opens the file and truncates it.
\* When the directory has gone the redirection fails and the script goes on.
OpenPid(p) ==
    /\ Goto(p, "open", "write")
    /\ \/ dir = None /\ UNCHANGED <<file, fd>>
       \/ /\ dir # None
          /\ file' = [by |-> IF file = None THEN p ELSE file.by, text |-> Blank]
          /\ fd' = [fd EXCEPT ![p] = file'.by]
    /\ UNCHANGED <<dir, seen, robbed>>

\* Second half: the PID is written through the descriptor, which may name a
\* file that has been unlinked since.
WritePid(p) ==
    /\ Goto(p, "write", "gcom")
    /\ file' = IF file # None /\ fd[p] = file.by THEN [file EXCEPT !.text = p] ELSE file
    /\ UNCHANGED <<dir, fd, seen, robbed>>

\* The chat with the modem ends.
Gcom(p) == Goto(p, "gcom", "unlink_own") /\ UNCHANGED <<dir, file, fd, seen, robbed>>

\* Mutant: the status of cat is not tested, a missing PID counts as a dead one.
CatIgnoresStatus(p) ==
    /\ Goto(p, "cat", "kill")
    /\ seen' = [seen EXCEPT ![p] = IF file = None THEN Blank ELSE file.text]
    /\ UNCHANGED <<dir, file, fd, robbed>>

\* OTHERPID=$(cat PIDFILE): without a file only the sleep is left.
CatPid(p) ==
    /\ \/ file = None /\ Goto(p, "cat", "sleep") /\ UNCHANGED seen
       \/ /\ file # None
          /\ Goto(p, "cat", "kill")
          /\ seen' = [seen EXCEPT ![p] = file.text]
    /\ UNCHANGED <<dir, file, fd, robbed>>

\* Mutant: a dead owner is never detected.
KillNeverFails(p) ==
    /\ Goto(p, "kill", "sleep")
    /\ UNCHANGED <<dir, file, fd, seen, robbed>>

\* kill -0 $OTHERPID: it also fails when the text was blank.
KillZero(p) ==
    /\ Goto(p, "kill", IF Alive(seen[p]) THEN "sleep" ELSE "unlink_stale")
    /\ UNCHANGED <<dir, file, fd, seen, robbed>>

Sleep(p) == Goto(p, "sleep", "mkdir") /\ UNCHANGED <<dir, file, fd, seen, robbed>>

\* rm -rf LOCKDIR, first half: the PID file is unlinked.
Unlink(p, from, to) ==
    /\ Goto(p, from, to)
    /\ file' = None
    /\ UNCHANGED <<dir, fd, seen, robbed>>

\* Second half: the directory is removed, unless a PID file was put in it
\* again meanwhile.
Rmdir(p, from, to) ==
    /\ Goto(p, from, to)
    /\ dir' = IF file = None THEN None ELSE dir
    /\ robbed' = IF dir' # dir /\ dir # p THEN robbed \union {dir} ELSE robbed
    /\ UNCHANGED <<file, fd, seen>>

UnlinkStale(p) == Unlink(p, "unlink_stale", "rmdir_stale")

RmdirStale(p) == Rmdir(p, "rmdir_stale", "sleep")

UnlinkOwn(p) == Unlink(p, "unlink_own", "rmdir_own")

RmdirOwn(p) == Rmdir(p, "rmdir_own", "done")

\* A script is killed wherever it is (the unplug handler kills processsms -9).
Die(p) ==
    /\ pc[p] \in Running
    /\ pc' = [pc EXCEPT ![p] = "dead"]
    /\ UNCHANGED <<dir, file, fd, seen, robbed>>

Step(p) ==
    \/ Start(p) \/ MkdirOk(p) \/ MkdirFails(p) \/ OpenPid(p) \/ WritePid(p) \/ Gcom(p)
    \/ CatPid(p) \/ KillZero(p) \/ Sleep(p) \/ UnlinkStale(p) \/ RmdirStale(p)
    \/ UnlinkOwn(p) \/ RmdirOwn(p)

Next == \E p \in Procs : Step(p) \/ Die(p)

Spec == Init /\ [][Next]_vars /\ \A p \in Procs : WF_vars(Step(p))

-----------------------------------------------------------------------------

\* Every variable keeps its type: in particular OTHERPID is always a PID, blank
\* or unset, and the PID file holds a PID or nothing.
TypeOK ==
    /\ pc \in [Procs -> Running \union {"idle", "done", "dead"}]
    /\ dir \in Procs \union {None}
    /\ file \in Files \union {None}
    /\ fd \in [Procs -> Procs \union {None}]
    /\ seen \in [Procs -> Procs \union {None, Blank}]
    /\ robbed \subseteq Procs

\* Two scripts talk to the modem at once only when one of them had its lock
\* directory removed under it by a process that judged it stale (line 33) or
\* that was itself robbed and released a lock it no longer had (line 40).
GcomExclusion ==
    \A p, q \in Procs :
        p # q /\ pc[p] = "gcom" /\ pc[q] = "gcom" => p \in robbed \/ q \in robbed

\* The part that makes GcomExclusion inductive: whoever holds the lock and was
\* not robbed of it is the creator of the directory that exists.
OwnerKeepsDir ==
    \A p \in Procs : pc[p] \in Holding /\ p \notin robbed => dir = p

\* The lock is wedged: a directory without PID file, left by a process that died
\* between mkdir and echo or inside rm -rf, and nobody on the way to remove it.
Wedged ==
    /\ dir # None
    /\ file = None
    /\ \A p \in Procs : pc[p] \in Running => pc[p] \in {"mkdir", "cat", "sleep"}

\* Nothing in the script recovers a wedged lock: a waiter whose cat fails (line
\* 31) only sleeps, so the modem's port stays locked until the router reboots.
WedgedForever == [][Wedged => Wedged']_vars

\* Every script that asks for the lock gets through it, or is killed, or the lock
\* is wedged: a dead owner whose PID is on file never blocks the others.
PassEnds ==
    \A p \in Procs : pc[p] = "mkdir" ~> (pc[p] \in {"done", "dead"} \/ Wedged)

=============================================================================
