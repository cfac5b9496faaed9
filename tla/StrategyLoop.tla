----------------------------- MODULE StrategyLoop -----------------------------
(***************************************************************************)
(* The main loop of a strategy: in each round it takes the market data,    *)
(* runs the scheduled tasks that are due and calls on_tick. Tasks and      *)
(* on_tick are the strategy's own code. That code may call the base class, *)
(* poll_messages among others, which enters the same round once more while *)
(* the outer one waits. The reports a round also takes are Rebalance's and *)
(* OrderFlow's; they touch neither buffers nor tasks. Left out: an on_kline *)
(* callback that polls while the market data are being taken.              *)
(***************************************************************************)
EXTENDS MarketData

CONSTANTS
  TaskOrder,   \* the strategy's methods, in the order of std::map
  Intervals,   \* task intervals
  MaxTime,     \* bound: the clock
  MaxCalls     \* bound: calls of the base class by the strategy's code

ASSUME TaskAssumption ==
  /\ Intervals \subseteq Nat \ {0}
  /\ MaxTime \in Nat /\ MaxCalls \in Nat
  /\ TaskOrder \in Seq(STRING) /\ \A i \in DOMAIN TaskOrder : TaskOrder[i] # ""

Methods == {TaskOrder[i] : i \in DOMAIN TaskOrder}
NoName == ""
Names == Methods \cup {NoName}
Entries == [fn: Names, interval: Intervals \cup {0}, next: Nat, enabled: BOOLEAN, count: Nat]
NoEntry == [fn |-> NoName, interval |-> 0, next |-> 0, enabled |-> FALSE, count |-> 0]

VARIABLES
  now,
  tasks,   \* [name] scheduled_tasks_
  stack,   \* rounds begun, the innermost first: tasks left to call, task called
  pc,      \* market, tasks, call, user, ended
  calls,
  since    \* history: [f] when f was last scheduled

vars == <<marketVars, now, tasks, stack, pc, calls, since>>

Round == [left: Seq(Names), at: Names]
NewRound == [left |-> <<>>, at |-> NoName]

Init ==
  /\ MarketInit
  /\ now = 0 /\ tasks = [n \in Names |-> NoEntry]
  /\ stack = <<>> /\ pc = "user"       \* on_init is the strategy's code as on_tick is
  /\ calls = 0 /\ since = [f \in Methods |-> 0]

TimePasses ==
  /\ now < MaxTime /\ now' = now + 1
  /\ UNCHANGED <<marketVars, tasks, stack, pc, calls, since>>

-----------------------------------------------------------------------------
(* One round.                                                              *)

TakeMarketData ==
  /\ pc = "market" /\ HandleKline
  /\ UNCHANGED <<now, tasks, stack, pc, calls, since>>

MarketDataTaken ==
  /\ pc = "market" /\ channel = <<>> /\ pc' = "tasks"
  /\ UNCHANGED <<marketVars, now, tasks, stack, calls, since>>

Scheduled(n) == tasks[n] # NoEntry

Due(n) == Scheduled(n) /\ tasks[n].enabled /\ now >= tasks[n].next

(* run_count; that of an entry without a method is not kept.               *)
Counted(n) == tasks[n].count + IF tasks[n].fn \in Methods THEN 1 ELSE 0

(* Mutant: the next run is left to the end of the task.                    *)
MarkedLate(n) == [tasks[n] EXCEPT !.count = Counted(n)]
Marked(n) == [tasks[n] EXCEPT !.next = now + tasks[n].interval, !.count = Counted(n)]

(* What is collected of an entry is its function, which is the name it is  *)
(* stored under unless the entry was made by Begin.                        *)
TableOrder == <<NoName>> \o TaskOrder
DueTasks[i \in 0..Len(TableOrder)] ==
  IF i = 0 THEN <<>>
  ELSE IF Due(TableOrder[i]) THEN Append(DueTasks[i - 1], tasks[TableOrder[i]].fn)
  ELSE DueTasks[i - 1]

(* The tasks that are due are collected and marked under the lock; they    *)
(* are called without it.                                                  *)
Collect ==
  /\ pc = "tasks" /\ pc' = "call"
  /\ stack' = [stack EXCEPT ![1].left = DueTasks[Len(TableOrder)]]
  /\ tasks' = [n \in Names |-> IF Due(n) THEN Marked(n) ELSE tasks[n]]
  /\ UNCHANGED <<marketVars, now, calls, since>>

(* An entry made by looking a name up in the table.                        *)
DefaultEntry == [fn |-> NoName, interval |-> 0, next |-> 0, enabled |-> TRUE, count |-> 0]
LookedUp(n) == IF Scheduled(n) THEN tasks ELSE [tasks EXCEPT ![n] = DefaultEntry]

Calling == pc = "call" /\ stack[1].left # <<>>

(* A name that is no method is logged and left out.                        *)
Begin ==
  /\ Calling
  /\ LET n == Head(stack[1].left)
     IN  /\ stack' = [stack EXCEPT ![1] = [left |-> Tail(@.left), at |-> n]]
         /\ tasks' = LookedUp(n)
         /\ pc' = IF n \in Methods THEN "user" ELSE "call"
  /\ UNCHANGED <<marketVars, now, calls, since>>

(* The round ends: run goes on with on_tick, poll_messages returns to the  *)
(* code that called it.                                                    *)
RoundEnds ==
  /\ pc = "call" /\ stack[1].left = <<>>
  /\ stack' = Tail(stack) /\ pc' = "user"
  /\ UNCHANGED <<marketVars, now, tasks, calls, since>>

-----------------------------------------------------------------------------
(* The strategy's code: on_init and on_tick (no round is on), or a task.   *)

User == pc = "user"
InTick == User /\ stack = <<>>

TickReturns ==
  /\ InTick
  /\ stack' = <<NewRound>> /\ pc' = "market"
  /\ UNCHANGED <<marketVars, now, tasks, calls, since>>

(* on_tick throws, stop was called or a signal came: the loop ends.        *)
LoopEnds ==
  /\ InTick /\ pc' = "ended"
  /\ UNCHANGED <<marketVars, now, tasks, stack, calls, since>>

TaskReturns ==
  /\ User /\ stack # <<>> /\ pc' = "call"
  /\ UNCHANGED <<marketVars, now, tasks, stack, calls, since>>

(* Mutant: an exception leaves the loop over the tasks.                    *)
TaskFailsRound ==
  /\ User /\ stack # <<>>
  /\ pc' = "call" /\ stack' = [stack EXCEPT ![1].left = <<>>]
  /\ UNCHANGED <<marketVars, now, tasks, calls, since>>

(* A C++ exception is logged. A Python one is restored by a thread that    *)
(* does not hold the interpreter's lock, which may end the process.        *)
TaskFails ==
  /\ User /\ stack # <<>> /\ stack' = [stack EXCEPT ![1].at = NoName]
  /\ pc' \in {"call", "ended"}
  /\ UNCHANGED <<marketVars, now, tasks, calls, since>>

Call == User /\ calls < MaxCalls /\ calls' = calls + 1

(* poll_messages.                                                          *)
Poll ==
  /\ Call /\ stack' = <<NewRound>> \o stack /\ pc' = "market"
  /\ UNCHANGED <<marketVars, now, tasks, since>>

(* "" and "now" start at once; a time of day that has passed starts at the *)
(* next whole interval after it.                                           *)
FirstRun(start, interval) ==
  IF start > now THEN start
  ELSE start + ((now - start) \div interval + 1) * interval

ScheduleTask(f, interval, first) ==
  /\ Call
  /\ tasks' = [tasks EXCEPT ![f] =
       [fn |-> f, interval |-> interval, next |-> first, enabled |-> TRUE, count |-> 0]]
  /\ since' = [since EXCEPT ![f] = now]
  /\ UNCHANGED <<marketVars, now, stack, pc>>

Schedule ==
  \E f \in Methods, i \in Intervals :
    \E first \in {now} \cup {FirstRun(start, i) : start \in 0..MaxTime} : ScheduleTask(f, i, first)

UnscheduleTask(f) ==
  /\ Call /\ Scheduled(f)
  /\ tasks' = [tasks EXCEPT ![f] = NoEntry]
  /\ UNCHANGED <<marketVars, now, stack, pc, since>>

(* pause_task and resume_task.                                             *)
EnableTask(f, on) ==
  /\ Call /\ Scheduled(f) /\ tasks[f].enabled # on
  /\ tasks' = [tasks EXCEPT ![f].enabled = on]
  /\ UNCHANGED <<marketVars, now, stack, pc, since>>

CallMarket(s) ==
  /\ Call
  /\ SubscribeKline(s) \/ UnsubscribeKline(s)
  /\ UNCHANGED <<now, tasks, stack, pc, since>>

BaseCall ==
  \/ Poll \/ Schedule
  \/ \E f \in Methods : UnscheduleTask(f) \/ EnableTask(f, TRUE) \/ EnableTask(f, FALSE)
  \/ \E s \in Series : CallMarket(s)

-----------------------------------------------------------------------------
MarketMoves ==
  /\ pc # "ended" /\ Exchange
  /\ UNCHANGED <<now, tasks, stack, pc, calls, since>>

Loop ==
  \/ TakeMarketData \/ MarketDataTaken \/ Collect \/ Begin \/ RoundEnds
  \/ TickReturns \/ TaskReturns

Next == TimePasses \/ MarketMoves \/ Loop \/ LoopEnds \/ TaskFails \/ BaseCall

Spec == Init /\ [][Next]_vars

(* The loop goes on, and the strategy's code returns.                      *)
Fairness ==
  /\ WF_vars(TakeMarketData) /\ WF_vars(MarketDataTaken) /\ WF_vars(Collect)
  /\ WF_vars(Begin) /\ WF_vars(RoundEnds)
  /\ WF_vars(TickReturns) /\ WF_vars(TaskReturns \/ TaskFails)
FairSpec == Spec /\ Fairness

-----------------------------------------------------------------------------
Depth == MaxCalls + 1

TypeOK ==
  /\ MarketTypeOK
  /\ now \in 0..MaxTime /\ calls \in 0..MaxCalls
  /\ tasks \in [Names -> Entries]
  /\ Len(stack) <= Depth /\ \A i \in DOMAIN stack : stack[i] \in Round
  /\ pc \in {"market", "tasks", "call", "user", "ended"}
  /\ since \in [Methods -> 0..MaxTime]

(* A task runs no more often than its interval says, however long the      *)
(* tasks before it take and however often its own code polls: a round      *)
(* entered from inside a task must not collect it again                    *)
(* (process_scheduled_tasks sets the next run before the call).            *)
RateKept ==
  \A f \in Methods :
    tasks[f].fn = f => tasks[f].count <= 1 + (now - since[f]) \div tasks[f].interval

InRound(f) == \E i \in DOMAIN stack : f \in Range(stack[i].left)
Running(f) == User /\ stack # <<>> /\ stack[1].at = f

(* A task that was collected leaves its round only to be called: whether   *)
(* one before it returns, throws or polls, the rest of the round is kept   *)
(* (the handler of its exceptions is inside the loop over the tasks).      *)
CollectedKept == [][\A f \in Methods : InRound(f) /\ ~InRound(f)' => Running(f)']_vars

(* A task that was collected is called.                                    *)
CollectedRuns == \A f \in Methods : InRound(f) ~> (Running(f) \/ pc = "ended")

(* A task that is due stays due until a round collects it or the           *)
(* strategy's own code stops it: a round that comes late, because a task   *)
(* or on_tick took long, still finds it.                                   *)
Overdue(f) == tasks[f].fn = f /\ tasks[f].enabled /\ now >= tasks[f].next
OverdueKept ==
  [][\A f \in Methods : Overdue(f) /\ ~Overdue(f)' => InRound(f)' \/ calls' = calls + 1]_vars

(* A task that is due does not stay due.                                   *)
DueCollected == \A f \in Methods : Overdue(f) ~> (~Overdue(f) \/ pc = "ended")

(* A task that is due runs: a round collects it, and calls what it has     *)
(* collected.                                                              *)
TasksRun == OverdueKept /\ DueCollected /\ CollectedKept /\ CollectedRuns
=============================================================================
