---------------------------- MODULE ConMonProofs ----------------------------
(* The verdicts of conmon.sh for any number of hosts, any reliability and   *)
(* any scores.                                                              *)
EXTENDS ConMon, TLAPS

\* While pingtest runs, score_dwn is what is left of DOWN after the failed
\* rounds in a row, score_up what is left of UP after the good ones of this
\* test, and the script's count of answers is that of the round.
Scores ==
  /\ pc \in {"ping", "judge"} =>
       /\ score_dwn > 0 /\ bad = DOWN - score_dwn
       /\ score_up > 0 /\ good >= UP - score_up
       /\ host_up_count = answers
       /\ HOSTS > 0 /\ pinged < HOSTS
       /\ pc = "ping" => answers <= pinged
       /\ pc = "judge" => pinged = 0
  /\ pc \in {"start", "look", "sleep", "exit"} => bad = 0 /\ answers = 0 /\ pinged = 0
  /\ pc \in {"restart", "reboot"} =>
       \/ bad = DOWN /\ monstat = "bad_ping"
       \/ bad = 0 /\ monstat = "no_address"
  /\ monstat = "bad_ping" => pc \in {"restart", "reboot"}
  /\ pc = "sleep" => good = UP

IInv == TypeOK /\ Scores

\* The constants as integers with their bounds.
LEMMA Numbers ==
  /\ UP \in Int /\ UP >= 1 /\ DOWN \in Int /\ DOWN >= 1
  /\ HOSTS \in Int /\ HOSTS >= 0 /\ RELIAB \in Int /\ RELIAB >= 1
BY ScoreAssumption, HostAssumption

\* Holds when the monitor starts.
LEMMA InitIInv == Init => IInv
BY ScoreAssumption, HostAssumption DEF Init, IInv, TypeOK, Scores, Phases, Stats

\* Every step of the monitor keeps it.
LEMMA NextIInv == IInv /\ [Next]_vars => IInv'
<1> SUFFICES ASSUME IInv, [Next]_vars PROVE IInv'
  OBVIOUS
<1> USE Numbers DEF IInv, TypeOK, Scores, Phases, Stats, world, score, history
<1>1. CASE Start
  BY <1>1 DEF Start
<1>2. CASE LeaveToCustom
  BY <1>2 DEF LeaveToCustom
<1>3. CASE NoAddress
  BY <1>3 DEF NoAddress
<1>4. CASE PingTest
  BY <1>4 DEF PingTest
<1>5. CASE Ping
  <2>1. /\ pinged' \in 0 .. HOSTS
        /\ pc' = "ping" => pinged' = pinged + 1
        /\ pc' = "judge" => pinged' = 0
        /\ HOSTS > 0 /\ pinged' < HOSTS
    BY <1>5 DEF Ping
  <2>. QED
    BY <1>5, <2>1 DEF Ping
<1>6. CASE JudgeBad
  BY <1>6 DEF JudgeBad, LowerDown, Remember, NextRound, MinOf
<1>7. CASE JudgeGood
  BY <1>7 DEF JudgeGood, LowerUp, Remember, NextRound, MinOf
<1>8. CASE Sleep
  BY <1>8 DEF Sleep
<1>9. CASE World
  <2>1. /\ custom' \in BOOLEAN /\ address' \in BOOLEAN
        /\ link' \in {"alive", "dead"}
    BY <1>9, Zenon DEF World
  <2>. QED
    BY <1>9, <2>1 DEF World
<1>10. CASE UNCHANGED vars
  BY <1>10 DEF vars
<1>. QED
  BY <1>1, <1>2, <1>3, <1>4, <1>5, <1>6, <1>7, <1>8, <1>9, <1>10 DEF Next, Script

\* Type correctness: the scores stay between 0 and the configured numbers,
\* so the tests for 0 in pingtest are never jumped over.
THEOREM ConMonTypes == Spec => []TypeOK
<1>1. IInv => TypeOK
  BY DEF IInv
<1>. QED
  BY InitIInv, NextIInv, <1>1, PTL DEF Spec

\* conmon.sh deems a link down exactly when DOWN rounds in a row have failed,
\* for every UP, DOWN, RELIAB and number of hosts.
THEOREM DownExactly == Spec => []DownAfterThisMany
<1>1. IInv => DownAfterThisMany
  BY Numbers DEF IInv, TypeOK, Scores, DownAfterThisMany, Phases
<1>. QED
  BY InitIInv, NextIInv, <1>1, PTL DEF Spec

\* conmon.sh says that a link is up only after UP good rounds in a row.
THEOREM UpOnlyAfter == Spec => []UpAfterThisMany
<1>1. IInv => UpAfterThisMany
  BY DEF IInv, Scores, UpAfterThisMany
<1>. QED
  BY InitIInv, NextIInv, <1>1, PTL DEF Spec
=============================================================================
