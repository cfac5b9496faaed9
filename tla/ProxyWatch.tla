------------------------------ MODULE ProxyWatch ------------------------------
(***************************************************************************)
(* VpnNetworkMonitor: a thread that probes the exchanges through the       *)
(* proxy, one address after the other, every check_interval_seconds, and   *)
(* tells the operators when fail_threshold checks in a row have failed,    *)
(* again after each cooldown, and when the proxy is back. The proxy may    *)
(* lose and regain an address at any moment, between two probes of one     *)
(* check too. Ages and the failure count stop growing where the code no    *)
(* longer tells them apart.                                                *)
(***************************************************************************)
EXTENDS Naturals, Sequences, Functions

CONSTANTS
  CheckTargets,    \* check_targets, in the order they are probed
  FailThreshold,
  AlertCooldown,   \* alert_cooldown_seconds, in ticks
  NotifyOnRecovery,
  MaxChanges       \* bound: changes of what the proxy reaches

ASSUME ProxyAssumption ==
  /\ FailThreshold \in Nat \ {0} /\ AlertCooldown \in Nat
  /\ NotifyOnRecovery \in BOOLEAN /\ MaxChanges \in Nat

VARIABLES
  reachable,    \* addresses the proxy reaches now
  changes,
  probing,      \* index of the address being probed, 0 between checks
  consecutive,  \* consecutive_failures_, at most FailThreshold
  proxyDown,    \* proxy_down_
  sinceAlert,   \* age of last_alert_time_, at most AlertCooldown
  told,         \* what the operators were last told of the proxy
  streak        \* history: checks that failed in a row, at most FailThreshold

proxyVars ==
  <<reachable, changes, probing, consecutive, proxyDown, sinceAlert, told, streak>>

Targets == Range(CheckTargets)
Counted(n) == IF n < FailThreshold THEN n + 1 ELSE n

ProxyInit ==
  /\ reachable = Targets /\ changes = 0
  /\ probing = 0
  /\ consecutive = 0 /\ proxyDown = FALSE
  /\ sinceAlert = AlertCooldown
  /\ told = "up" /\ streak = 0

ChangeReach ==
  /\ changes < MaxChanges /\ changes' = changes + 1
  /\ \E S \in SUBSET Targets : S /= reachable /\ reachable' = S
  /\ UNCHANGED <<probing, consecutive, proxyDown, sinceAlert, told, streak>>

TimePasses ==
  /\ sinceAlert < AlertCooldown /\ sinceAlert' = sinceAlert + 1
  /\ UNCHANGED <<reachable, changes, probing, consecutive, proxyDown, told, streak>>

StartCheck ==
  /\ probing = 0 /\ probing' = 1
  /\ UNCHANGED <<reachable, changes, consecutive, proxyDown, sinceAlert, told, streak>>

(* check_proxy: one address that answers is enough; the next is probed     *)
(* when one does not, and the check has failed after the last.             *)
Reached == probing \in DOMAIN CheckTargets /\ CheckTargets[probing] \in reachable
Unreached == probing \in DOMAIN CheckTargets /\ CheckTargets[probing] \notin reachable

ProbeNext ==
  /\ Unreached /\ probing < Len(CheckTargets)
  /\ probing' = probing + 1
  /\ UNCHANGED <<reachable, changes, consecutive, proxyDown, sinceAlert, told, streak>>

(* Mutant: the count is set back only by a recovery that is reported.      *)
CheckSucceedsKept ==
  /\ Reached
  /\ probing' = 0 /\ streak' = 0
  /\ consecutive' = IF proxyDown THEN 0 ELSE consecutive
  /\ proxyDown' = FALSE
  /\ told' = IF proxyDown /\ NotifyOnRecovery THEN "up" ELSE told
  /\ UNCHANGED <<reachable, changes, sinceAlert>>

CheckSucceeds ==
  /\ Reached
  /\ probing' = 0 /\ streak' = 0
  /\ consecutive' = 0
  /\ proxyDown' = FALSE
  /\ told' = IF proxyDown /\ NotifyOnRecovery THEN "up" ELSE told
  /\ UNCHANGED <<reachable, changes, sinceAlert>>

SendProxyDownAlert == sinceAlert' = 0 /\ told' = "down"

(* The failed check: the first alert of an outage, or another one once the *)
(* cooldown is over.                                                       *)
CheckFails ==
  /\ Unreached /\ probing = Len(CheckTargets)
  /\ probing' = 0 /\ streak' = Counted(streak)
  /\ consecutive' = Counted(consecutive)
  /\ proxyDown' = (proxyDown \/ consecutive' >= FailThreshold)
  /\ IF proxyDown' /\ (~proxyDown \/ sinceAlert >= AlertCooldown)
     THEN SendProxyDownAlert ELSE UNCHANGED <<sinceAlert, told>>
  /\ UNCHANGED <<reachable, changes>>

CheckProxy == StartCheck \/ ProbeNext \/ CheckSucceeds \/ CheckFails
ProxyNext == ChangeReach \/ TimePasses \/ CheckProxy

ProxySpec == ProxyInit /\ [][ProxyNext]_proxyVars

-----------------------------------------------------------------------------
(* The operators hear of an outage only after FailThreshold checks in a    *)
(* row have failed: failures with a successful check between them do not   *)
(* add up.                                                                 *)
AlertsEarned ==
  [][told = "up" /\ told' = "down" => streak' >= FailThreshold]_proxyVars

(* Whatever the proxy went through, once it stays cut off the operators    *)
(* hear that it is down, and once some address stays within reach that it  *)
(* is up, as long as recoveries are reported.                              *)
ReportCatchesUp ==
  /\ <>[](reachable = {}) => <>[](told = "down")
  /\ NotifyOnRecovery =>
       \A t \in Targets : <>[](t \in reachable) => <>[](told = "up")

(* What the operators last heard of the proxy is earned, and catches up.   *)
ProxyReported == AlertsEarned /\ ReportCatchesUp
=============================================================================
