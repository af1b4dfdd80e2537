------------------------------- MODULE ConMon -------------------------------
(***************************************************************************)
(* conmon.sh: the monitor of one connected modem.  It looks whether the    *)
(* interface has an address, then pings a list of hosts round after round  *)
(* and keeps two scores, until one of them says that the link is up or     *)
(* down; a link that is down costs the modem a restart or the router a     *)
(* reboot.  The custom ping test of another package may take over at any   *)
(* time, which conmon.sh notices between two ping tests.                   *)
(*                                                                         *)
(* The link is the environment: as long as it is alive every ping may      *)
(* succeed or fail; it may die at any time, and may lose its address then. *)
(***************************************************************************)
EXTENDS Integers

CONSTANTS
  HOSTS,    \* how many tracking addresses the profile has
  RELIAB,   \* how many of them must answer
  UP, DOWN  \* rounds until the link is deemed up or down

ASSUME ScoreAssumption == UP \in Nat \ {0} /\ DOWN \in Nat \ {0}
ASSUME HostAssumption == HOSTS \in Nat /\ RELIAB \in Nat \ {0}

VARIABLES
  ACTIVE,          \* pinginfo.alive: 0 off, 2 reboot the router, 3 restart the modem
  pc,              \* where the script is
  pinged,          \* hosts pinged in this round
  host_up_count,   \* hosts that answered since the last reset
  score_up, score_dwn,
  monstat,         \* what /tmp/monstatN says
  custom,          \* ping.ping.enable
  link,            \* "alive", or "dead" for good
  address,         \* the interface has an address
  answers,         \* history: hosts that answered in this round
  bad, good        \* history: rounds in a row with too few and enough answers,
                   \* counted to DOWN + 1 and UP

score == <<score_up, score_dwn>>
world == <<ACTIVE, custom, link, address>>
history == <<answers, bad, good>>
vars == <<pc, pinged, host_up_count, score, monstat, world, history>>

Phases == {"start", "look", "ping", "judge", "sleep", "restart", "reboot", "exit"}
Stats == {"none", "disabled", "custom", "up", "no_address", "bad_ping"}

TypeOK ==
  /\ ACTIVE \in {0, 2, 3}
  /\ pc \in Phases /\ monstat \in Stats
  /\ pinged \in 0 .. HOSTS /\ host_up_count \in 0 .. HOSTS
  /\ score_up \in 0 .. UP /\ score_dwn \in 0 .. DOWN
  /\ custom \in BOOLEAN /\ link \in {"alive", "dead"} /\ address \in BOOLEAN
  /\ answers \in 0 .. HOSTS /\ bad \in 0 .. DOWN + 1 /\ good \in 0 .. UP

Init ==
  /\ ACTIVE \in {0, 2, 3}
  /\ pc = "start" /\ monstat = "none"
  /\ pinged = 0 /\ host_up_count = 0
  /\ score_up = UP /\ score_dwn = DOWN
  /\ custom \in BOOLEAN /\ link = "alive" /\ address = TRUE
  /\ answers = 0 /\ bad = 0 /\ good = 0

\* Switched off, or on to the main loop.
Start ==
  /\ pc = "start"
  /\ IF ACTIVE = 0
     THEN pc' = "exit" /\ monstat' = IF custom THEN "custom" ELSE "disabled"
     ELSE pc' = "look" /\ UNCHANGED monstat
  /\ UNCHANGED <<pinged, host_up_count, score, world, history>>

\* The custom ping test has taken over: sleep 60.
LeaveToCustom ==
  /\ pc = "look" /\ custom
  /\ monstat' = "custom"
  /\ UNCHANGED <<pc, pinged, host_up_count, score, world, history>>

\* Mutant: an interface without an address is reported and left alone.
NoAddressWaits ==
  /\ pc = "look" /\ ~custom /\ ~address
  /\ monstat' = "no_address"
  /\ UNCHANGED <<pc, pinged, host_up_count, score, world, history>>

\* An interface without an address costs a restart even when ACTIVE is 2.
NoAddress ==
  /\ pc = "look" /\ ~custom /\ ~address
  /\ monstat' = "no_address"
  /\ pc' = "restart"
  /\ UNCHANGED <<pinged, host_up_count, score, world, history>>

\* pingtest starts; without tracking addresses the script ends.
PingTest ==
  /\ pc = "look" /\ ~custom /\ address
  /\ pc' = IF HOSTS = 0 THEN "exit" ELSE "ping"
  /\ host_up_count' = 0 /\ score_up' = UP /\ score_dwn' = DOWN
  /\ UNCHANGED <<pinged, monstat, world, history>>

Ping ==
  /\ pc = "ping"
  /\ pinged' = (pinged + 1) % HOSTS
  /\ pc' = IF pinged + 1 = HOSTS THEN "judge" ELSE "ping"
  /\ \/ /\ link = "alive"
        /\ host_up_count' = host_up_count + 1 /\ answers' = answers + 1
     \/ UNCHANGED <<host_up_count, answers>>
  /\ UNCHANGED <<score, monstat, world, bad, good>>

MinOf(a, b) == IF a < b THEN a ELSE b

\* What the round was, whatever the script makes of it.
Remember ==
  /\ answers' = 0
  /\ bad' = IF answers < RELIAB THEN MinOf(bad + 1, DOWN + 1) ELSE 0
  /\ good' = IF answers < RELIAB THEN 0 ELSE MinOf(good + 1, UP)

\* Mutant: a failed round leaves the score for the link being up alone.
LowerDownOnly == score_dwn' = score_dwn - 1 /\ UNCHANGED score_up

LowerDown == score_dwn' = score_dwn - 1 /\ score_up' = UP

\* Mutant: failed rounds add up, whatever comes between them.
LowerUpOnly == score_up' = score_up - 1 /\ UNCHANGED score_dwn

LowerUp == score_up' = score_up - 1 /\ score_dwn' = DOWN

\* Mutant: the answers of a round are not forgotten before the next.
NextRoundKeepsCount == pc' = "ping" /\ UNCHANGED host_up_count

\* A round without verdict: the answers are forgotten, sleep INTERVAL.
NextRound == pc' = "ping" /\ host_up_count' = 0

\* A round is over: the scores, and the end of pingtest when one reaches 0.
JudgeBad ==
  /\ pc = "judge" /\ host_up_count < RELIAB
  /\ LowerDown /\ Remember
  /\ IF score_dwn' = 0
     THEN /\ monstat' = "bad_ping" /\ UNCHANGED host_up_count
          /\ pc' = IF ACTIVE = 2 THEN "reboot" ELSE "restart"
     ELSE NextRound /\ UNCHANGED monstat
  /\ UNCHANGED <<pinged, world>>

JudgeGood ==
  /\ pc = "judge" /\ host_up_count >= RELIAB
  /\ LowerUp /\ Remember
  /\ IF score_up' = 0
     THEN monstat' = "up" /\ pc' = "sleep" /\ UNCHANGED host_up_count
     ELSE NextRound /\ UNCHANGED monstat
  /\ UNCHANGED <<pinged, world>>

Sleep ==
  /\ pc = "sleep"
  /\ pc' = "look"
  /\ UNCHANGED <<pinged, host_up_count, score, monstat, world, history>>

\* The environment.
World ==
  /\ \/ custom' = ~custom /\ UNCHANGED <<link, address>>
     \/ link = "alive" /\ link' = "dead" /\ address' \in BOOLEAN /\ UNCHANGED custom
     \/ link = "dead" /\ address /\ address' = FALSE /\ UNCHANGED <<custom, link>>
  /\ UNCHANGED <<ACTIVE, pc, pinged, host_up_count, score, monstat, history>>

Script ==
  \/ Start \/ LeaveToCustom \/ NoAddress \/ PingTest \/ Ping \/ JudgeBad
  \/ JudgeGood \/ Sleep

Next == Script \/ World

\* ping, sleep and ip return: the script goes on.
Spec == Init /\ [][Next]_vars /\ WF_vars(Script)

-----------------------------------------------------------------------------
(* PROPERTIES *)

\* "Interface will be deemed down after this many failed ping tests" (the
\* profile page): after DOWN failed rounds in a row, across the ping tests and
\* the times between them, and never after fewer.
DownAfterThisMany ==
  /\ bad <= DOWN
  /\ monstat = "bad_ping" <=> bad = DOWN

\* The link is said to be up only after UP good rounds in a row, and a later
\* round that fails does not count for it.
UpAfterThisMany == pc = "sleep" => good = UP

\* A link that dies is acted on: whatever pings succeeded before, the modem is
\* restarted or the router rebooted, unless the custom ping test is enabled
\* over and over or the monitor has nothing to do.
DeadLinkActedOn ==
  link = "dead" ~> (pc \in {"restart", "reboot", "exit"} \/ custom)
=============================================================================
