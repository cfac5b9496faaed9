----------------------------- MODULE RateLimiter -----------------------------
(***************************************************************************)
(* The order-frequency check of RiskManager. check_rate_limit, called last *)
(* by check_order_with_value, drops the old entries of order_timestamps_   *)
(* and counts the rest; the order thread appends a timestamp by            *)
(* record_order_execution only after the check has passed and its lock was *)
(* released, with a clock read again. Time is the steady clock, in ticks.  *)
(***************************************************************************)
EXTENDS Naturals, Sequences, FiniteSets

CONSTANTS
  Second,     \* ticks in one second
  Keep,       \* ticks after which an entry is dropped: more than 60 whole
              \* seconds, i.e. 61 seconds
  PerSecond,  \* max_orders_per_second
  PerMinute,  \* max_orders_per_minute
  MaxNow,     \* bound: ticks the clock runs
  MaxStamps   \* bound: orders recorded

ASSUME ClockAssumption == Second \in Nat \ {0} /\ Keep \in Nat /\ Keep >= Second
ASSUME LimitAssumption == PerSecond \in Nat /\ PerMinute \in Nat
ASSUME RateBoundAssumption == MaxNow \in Nat /\ MaxStamps \in Nat

VARIABLES
  now,      \* steady_clock::now()
  stamps,   \* every timestamp ever recorded, oldest first
  dropped,  \* how many of them were popped from order_timestamps_
  pc        \* order thread: "idle", or an order has "passed" or was "refused"

rateVars == <<now, stamps, dropped, pc>>

(* Mutant: an off-by-one at the window.                                    *)
EarlyExpired(i) == now - stamps[i] >= Keep - 1

(* duration_cast<seconds>(now - t).count() < 1 and > 60.                   *)
Recent(i) == now - stamps[i] < Second
Expired(i) == now - stamps[i] >= Keep

RateInit ==
  /\ now = 0
  /\ stamps = <<>>
  /\ dropped = 0
  /\ pc = "idle"

Tick ==
  /\ now < MaxNow
  /\ now' = now + 1
  /\ UNCHANGED <<stamps, dropped, pc>>

(* Mutant: expired entries stay.                                           *)
PruneNone == dropped' = dropped

(* The loop that pops expired entries from the front, up to the first that *)
(* is not.                                                                 *)
Prune ==
  \E d \in dropped .. Len(stamps) :
    /\ \A i \in dropped + 1 .. d : Expired(i)
    /\ d < Len(stamps) => ~Expired(d + 1)
    /\ dropped' = d

(* The two limits, on the entries left by Prune.                           *)
SecondFull == Cardinality({i \in dropped' + 1 .. Len(stamps) : Recent(i)}) >= PerSecond
MinuteFull == Len(stamps) - dropped' >= PerMinute

CheckPassed ==
  /\ pc = "idle"
  /\ Prune
  /\ ~SecondFull /\ ~MinuteFull
  /\ pc' = "passed"
  /\ UNCHANGED <<now, stamps>>

CheckRejected ==
  /\ pc = "idle"
  /\ Prune
  /\ SecondFull \/ MinuteFull
  /\ pc' = "refused"
  /\ UNCHANGED <<now, stamps>>

(* The rejection is published and the order thread goes on.                *)
RejectOrder ==
  /\ pc = "refused"
  /\ pc' = "idle"
  /\ UNCHANGED <<now, stamps, dropped>>

RecordOrderExecution ==
  /\ pc = "passed"
  /\ Len(stamps) < MaxStamps
  /\ stamps' = Append(stamps, now)
  /\ pc' = "idle"
  /\ UNCHANGED <<now, dropped>>

RateNext == Tick \/ CheckPassed \/ CheckRejected \/ RejectOrder \/ RecordOrderExecution

RateSpec == RateInit /\ [][RateNext]_rateVars

-----------------------------------------------------------------------------
RateTypeOK ==
  /\ now \in Nat
  /\ stamps \in Seq(Nat)
  /\ dropped \in 0 .. Len(stamps)
  /\ pc \in {"idle", "passed", "refused"}

(* Any PerSecond + 1 successive orders take at least one second, although  *)
(* the check and the timestamp are taken under two locks and the check     *)
(* sees only the entries not yet dropped.                                  *)
PerSecondHeld ==
  \A i, j \in 1 .. Len(stamps) :
    j = i + PerSecond => stamps[j] - stamps[i] >= Second

(* Any PerMinute + 1 successive orders take at least the time an entry is  *)
(* kept: dropping old entries never lets an order through too early.       *)
PerMinuteHeld ==
  \A i, j \in 1 .. Len(stamps) :
    j = i + PerMinute => stamps[j] - stamps[i] >= Keep

(* The order frequency is limited: in a second, and in the time entries    *)
(* are kept.                                                               *)
FrequencyHeld == PerSecondHeld /\ PerMinuteHeld

(* An order is refused for its frequency only if the limit of orders       *)
(* really was reached in the last second, or in the last Keep ticks: no    *)
(* stale entry counts.                                                     *)
InLast(d) == {i \in 1 .. Len(stamps) : now - stamps[i] < d}
RejectionJustified ==
  [][CheckRejected => \/ Cardinality(InLast(Second)) >= PerSecond
                      \/ Cardinality(InLast(Keep)) >= PerMinute]_rateVars
=============================================================================
