------------------------------- MODULE Drawdown -------------------------------
(***************************************************************************)
(* The drawdown check of RiskManager: update_account_equity, called by the *)
(* account monitor with each balance it has read. It keeps the first and   *)
(* the highest equity of the day for each account, starts again when the   *)
(* date has changed, and alerts at each reading that is too far below. The *)
(* kill switch is not touched. Equities are natural numbers (a negative    *)
(* one turns the sign of the peak mode's ratio), and one account id stands *)
(* for one account. Readings of a day are bounded by MaxReadings.          *)
(***************************************************************************)
EXTENDS Integers, Sequences, SequencesExt

CONSTANTS
  Watched,       \* strategy_id of update_account_equity
  Equities,
  DrawdownPct,   \* max_drawdown_pct, in per cent
  MaxDays, MaxReadings  \* bounds

ASSUME DrawdownAssumption ==
  /\ Equities \subseteq Nat /\ DrawdownPct \in 0 .. 100
  /\ MaxDays \in Nat /\ MaxReadings \in Nat

VARIABLES
  dailyInitial,   \* drawdown_mode is "daily_initial"
  day,
  peak, initial,  \* [s] strategy_peak_pnl_, strategy_initial_equity_
  lastReset,      \* [s] strategy_last_reset_date_
  alarm,          \* [s] the last reading raised an alert
  today           \* history: [s] the readings of this day, oldest first

drawdownVars == <<dailyInitial, day, peak, initial, lastReset, alarm, today>>

DrawdownInit ==
  /\ dailyInitial \in BOOLEAN
  /\ day = 1
  /\ peak = [s \in Watched |-> 0] /\ initial = [s \in Watched |-> 0]
  /\ lastReset = [s \in Watched |-> 0]
  /\ alarm = [s \in Watched |-> FALSE]
  /\ today = [s \in Watched |-> <<>>]

Midnight ==
  /\ day < MaxDays /\ day' = day + 1
  /\ today' = [s \in Watched |-> <<>>]
  /\ UNCHANGED <<dailyInitial, peak, initial, lastReset, alarm>>

(* Mutant: the date is not compared.                                       *)
RestartsOnce(s) == peak[s] = 0

(* The day's first reading, or one while the peak is still zero, sets both *)
(* values and is not compared with anything.                               *)
Restarts(s) == lastReset[s] /= day \/ peak[s] = 0

(* drawdown_pct > max_drawdown_pct, without the division. A reading above  *)
(* the reference has a negative drawdown.                                  *)
Below(top, e) == e < top /\ (top - e) * 100 > DrawdownPct * top

Reference(s) == IF dailyInitial THEN initial[s] ELSE peak[s]

StartDay(s, e) ==
  /\ Restarts(s)
  /\ peak' = [peak EXCEPT ![s] = e] /\ initial' = [initial EXCEPT ![s] = e]
  /\ lastReset' = [lastReset EXCEPT ![s] = day]
  /\ alarm' = [alarm EXCEPT ![s] = FALSE]

CompareEquity(s, e) ==
  /\ ~Restarts(s)
  /\ alarm' = [alarm EXCEPT ![s] = Below(Reference(s), e)]
  /\ peak' = [peak EXCEPT ![s] = IF e > @ THEN e ELSE @]
  /\ UNCHANGED <<initial, lastReset>>

UpdateAccountEquity(s, e) ==
  /\ Len(today[s]) < MaxReadings
  /\ StartDay(s, e) \/ CompareEquity(s, e)
  /\ today' = [today EXCEPT ![s] = Append(@, e)]
  /\ UNCHANGED <<dailyInitial, day>>

DrawdownNext ==
  \/ Midnight
  \/ \E s \in Watched, e \in Equities : UpdateAccountEquity(s, e)

DrawdownSpec == DrawdownInit /\ [][DrawdownNext]_drawdownVars

-----------------------------------------------------------------------------
(* The earlier readings of the day that are positive, by their place.      *)
Positive(q) == {i \in 1 .. Len(q) - 1 : q[i] > 0}

(* The reading all later ones of its day are held against: the first that  *)
(* is positive, or the highest.                                            *)
IsTop(q, i) ==
  \A j \in Positive(q) : IF dailyInitial THEN i <= j ELSE q[j] <= q[i]

(* An alert is raised at exactly the readings that are more than the limit *)
(* below the first, or the highest, positive reading of the same day and   *)
(* account: yesterday's values and other accounts never count.             *)
AlertsExact == \A s \in Watched : today[s] /= <<>> =>
  (alarm[s] <=> \E i \in Positive(today[s]) :
     /\ IsTop(today[s], i)
     /\ (today[s][i] - Last(today[s])) * 100 > DrawdownPct * today[s][i])
=============================================================================
