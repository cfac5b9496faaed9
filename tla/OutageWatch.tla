----------------------------- MODULE OutageWatch -----------------------------
(***************************************************************************)
(* The network monitor thread of main, which every ten seconds (a tick)    *)
(* reads the three atomics in which the OKX feed counts its failed         *)
(* reconnects, and sends one alert for an outage that has lasted a minute. *)
(* The feed's reconnect thread writes them meanwhile, one store after the  *)
(* other. A tick does not pass within the reads of one round, nor within   *)
(* the stores of one reconnect.                                            *)
(***************************************************************************)
EXTENDS Integers

CONSTANTS
  Minute,     \* ticks in 60 seconds
  MaxOutages  \* bound: times the feed loses its connection

ASSUME OutageAssumption == Minute \in Nat \ {0} /\ MaxOutages \in Nat

Never == -1  \* no first failure: the code stores 0

VARIABLES
  feed,       \* reconnect thread: "up", "retry", or the store it is at
  outages,
  failCount,  \* reconnect_fail_count_ > 0
  firstFail,  \* age of first_reconnect_fail_time_, Never where it is 0
  alertSent,  \* network_alert_sent_
  watcher,    \* network monitor thread: "sleep", or what it does next
  due,        \* its ten seconds are over
  readCount, readFirst,  \* what it has read
  outage,     \* history: age of this outage's first failed reconnect
  readOutage, \* history: that age when firstFail was read
  ended,      \* history: an outage ended since this round began
  outageTold, \* history: an alert was sent in this outage
  staleMark   \* history: alertSent was set for an outage that had ended

feedSide == <<feed, outages, failCount, firstFail>>
watchSide == <<watcher, due, readCount, readFirst, readOutage>>
outageVars == <<feedSide, alertSent, watchSide, outage, ended, outageTold, staleMark>>

OutageInit ==
  /\ feed = "up" /\ outages = 0
  /\ failCount = FALSE /\ firstFail = Never /\ alertSent = FALSE
  /\ watcher = "sleep" /\ due = FALSE
  /\ readCount = FALSE /\ readFirst = Never
  /\ outage = Never /\ readOutage = Never
  /\ ended = FALSE /\ outageTold = FALSE /\ staleMark = FALSE

Older(a) == IF a = Never \/ a = Minute THEN a ELSE a + 1

TenSeconds ==
  /\ watcher = "sleep" /\ ~due
  /\ feed \in {"up", "retry"}
  /\ due' = TRUE
  /\ firstFail' = Older(firstFail) /\ outage' = Older(outage)
  /\ UNCHANGED <<feed, outages, failCount, alertSent, watcher, readCount, readFirst,
                 readOutage, ended, outageTold, staleMark>>

-----------------------------------------------------------------------------
(* The reconnect thread of the feed.                                       *)

LoseConnection ==
  /\ feed = "up" /\ outages < MaxOutages
  /\ feed' = "retry" /\ outages' = outages + 1
  /\ UNCHANGED <<failCount, firstFail, alertSent, watchSide, outage, ended,
                 outageTold, staleMark>>

CountFailure ==
  /\ feed = "retry"
  /\ failCount' = TRUE
  /\ feed' = "stamp"
  /\ UNCHANGED <<outages, firstFail, alertSent, watchSide, outage, ended,
                 outageTold, staleMark>>

StampFirstFailure ==
  /\ feed = "stamp"
  /\ firstFail' = IF firstFail = Never THEN 0 ELSE firstFail
  /\ outage' = IF outage = Never THEN 0 ELSE outage
  /\ feed' = "retry"
  /\ UNCHANGED <<outages, failCount, alertSent, watchSide, ended, outageTold, staleMark>>

(* The reconnect has succeeded: three stores.                              *)
ResetCount ==
  /\ feed = "retry"
  /\ failCount' = FALSE
  /\ feed' = "resetFirst"
  /\ outage' = Never /\ ended' = TRUE /\ outageTold' = FALSE
  /\ UNCHANGED <<outages, firstFail, alertSent, watchSide, staleMark>>

(* Mutant: a store is missing.                                             *)
ResetFirstNot ==
  /\ feed = "resetFirst"
  /\ feed' = "resetSent"
  /\ UNCHANGED <<outages, failCount, firstFail, alertSent, watchSide, outage, ended,
                 outageTold, staleMark>>

ResetFirst ==
  /\ feed = "resetFirst"
  /\ firstFail' = Never
  /\ feed' = "resetSent"
  /\ UNCHANGED <<outages, failCount, alertSent, watchSide, outage, ended, outageTold,
                 staleMark>>

ResetSent ==
  /\ feed = "resetSent"
  /\ alertSent' = FALSE /\ staleMark' = FALSE
  /\ feed' = "up"
  /\ UNCHANGED <<outages, failCount, firstFail, watchSide, outage, ended, outageTold>>

-----------------------------------------------------------------------------
(* The network monitor: get_reconnect_fail_status loads the three one by   *)
(* one; mark_network_alert_sent follows the alert.                         *)

ReadCount ==
  /\ watcher = "sleep" /\ due
  /\ due' = FALSE /\ ended' = FALSE
  /\ readCount' = failCount
  /\ watcher' = "first"
  /\ UNCHANGED <<feedSide, alertSent, readFirst, readOutage, outage, outageTold, staleMark>>

ReadFirst ==
  /\ watcher = "first"
  /\ readFirst' = firstFail /\ readOutage' = outage
  /\ watcher' = "sent"
  /\ UNCHANGED <<feedSide, alertSent, due, readCount, outage, ended, outageTold, staleMark>>

Overdue == readCount /\ readFirst = Minute

ReadSent ==
  /\ watcher = "sent"
  /\ watcher' = IF Overdue /\ ~alertSent THEN "alert" ELSE "sleep"
  /\ UNCHANGED <<feedSide, alertSent, due, readCount, readFirst, readOutage, outage,
                 ended, outageTold, staleMark>>

SendAlert ==
  /\ watcher = "alert"
  /\ outageTold' = (outage /= Never)
  /\ watcher' = "mark"
  /\ UNCHANGED <<feedSide, alertSent, due, readCount, readFirst, readOutage, outage,
                 ended, staleMark>>

MarkNetworkAlertSent ==
  /\ watcher = "mark"
  /\ alertSent' = TRUE /\ staleMark' = ended
  /\ watcher' = "sleep"
  /\ UNCHANGED <<feedSide, due, readCount, readFirst, readOutage, outage, ended, outageTold>>

Reconnecting == StampFirstFailure \/ ResetFirst \/ ResetSent
Watching == ReadCount \/ ReadFirst \/ ReadSent \/ SendAlert \/ MarkNetworkAlertSent
OutageNext == TenSeconds \/ LoseConnection \/ CountFailure \/ ResetCount \/ Reconnecting \/ Watching

OutageSpec == OutageInit /\ [][OutageNext]_outageVars

-----------------------------------------------------------------------------
(* An alert is sent only for an outage that had lasted a minute when its   *)
(* first failure was read, or that ended within the same round, however    *)
(* the loads and the feed's stores interleave: the time of an earlier      *)
(* outage is never taken for this one's.                                   *)
OutageAlertTrue == watcher = "alert" => readOutage = Minute \/ ended

(* An outage that lasts is reported, unless the mark for the one before it *)
(* came after the reconnect had cleared the flag: the only way the two     *)
(* threads can silence an outage.                                          *)
LastingOutageTold ==
  outage = Minute ~> (outageTold \/ staleMark \/ outage = Never)

(* An alert is sent for every outage that lasts, and for no other.         *)
OutageReported == [][OutageAlertTrue']_outageVars /\ LastingOutageTold
=============================================================================
