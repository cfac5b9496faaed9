-------------------------- MODULE StrategyProcesses --------------------------
(***************************************************************************)
(* The life of strategy processes and what StrategyProcessManager believes *)
(* of it. Processes are started from the frontend (fork and exec) or by    *)
(* hand; each announces its pid in register_account, then sends heartbeats *)
(* from its main loop; the order thread applies both later, in the order   *)
(* of each process's messages. The frontend starts, stops and deletes      *)
(* strategies, and the main loop marks those whose heartbeat is overdue.   *)
(*                                                                         *)
(* Every operation of the manager holds its mutex, hence is one step. Pids *)
(* are not reused, and sh -c runs the program in its own process.          *)
(***************************************************************************)
EXTENDS Naturals, Sequences, FiniteSets, SequencesExt

CONSTANTS
  Strategies, Accounts,
  AccountOf,   \* [strategy] account_id of its configuration
  ByHand,      \* strategies that are also started in a shell
  Pids,        \* bound: pids there are for strategy processes
  Nobody,      \* the owner of a pid not yet used
  MaxRestarts  \* bound: restarts of the server

ASSUME PidsAreNat == Pids \subseteq Nat \ {0}
ASSUME AccountAssumption == AccountOf \in [Strategies -> Accounts]
ASSUME ProcessBounds == MaxRestarts \in Nat /\ Nobody \notin Strategies

VARIABLES
  owner,      \* [p] the strategy whose program p runs
  life,       \* [p] "unborn", "alive", "signalled" (SIGTERM sent), "dead"
  announced,  \* pids whose process has sent register_account
  mail,       \* [p] messages of p not yet taken by the order thread
  table,      \* [s] entry of s in strategies_, or NoEntry
  configured, \* strategies with a configuration file
  cascade,    \* accounts whose strategies' files the frontend has still to delete
  overdue,    \* strategies whose last_heartbeat is older than the timeout
  up,         \* the server runs
  restarts    \* times the server was started again

procs == <<owner, life, announced>>
files == <<configured, cascade>>
vars == <<procs, mail, table, files, overdue, up, restarts>>

Entry == [pid: Pids \cup {0}, status: {"running", "stopped", "error", "pending"}]
NoEntry == [pid |-> 0, status |-> "none"]
Known(s) == table[s] # NoEntry

Living == {p \in Pids : life[p] \in {"alive", "signalled"}}
NewPid == CHOOSE p \in Pids : life[p] = "unborn" /\ \A q \in Pids :
                                 life[q] = "unborn" => p <= q

(* load_configs at start-up: every configured strategy is pending.         *)
Loaded ==
  [s \in Strategies |->
     IF s \in configured THEN [pid |-> 0, status |-> "pending"] ELSE NoEntry]

Init ==
  /\ owner = [p \in Pids |-> Nobody]
  /\ life = [p \in Pids |-> "unborn"]
  /\ announced = {}
  /\ mail = [p \in Pids |-> <<>>]
  /\ configured = Strategies /\ cascade = {}
  /\ table = Loaded
  /\ overdue = {}
  /\ up = TRUE
  /\ restarts = 0

Signalled(P) == [p \in Pids |-> IF p \in P /\ life[p] = "alive" THEN "signalled" ELSE life[p]]

-----------------------------------------------------------------------------
(* Processes.                                                              *)

Spawn(s) ==
  /\ \E p \in Pids : life[p] = "unborn"
  /\ owner' = [owner EXCEPT ![NewPid] = s]
  /\ life' = [life EXCEPT ![NewPid] = "alive"]
  /\ UNCHANGED announced

(* The script is started in a shell.                                       *)
LaunchByHand(s) ==
  /\ s \in ByHand
  /\ Spawn(s)
  /\ UNCHANGED <<mail, table, overdue, up, restarts, files>>

(* AccountModule::register_account, called once from on_init.              *)
Announce(p) ==
  /\ p \in Living \ announced
  /\ announced' = announced \cup {p}
  /\ mail' = [mail EXCEPT ![p] = Append(@, "register")]
  /\ UNCHANGED <<owner, life, table, overdue, up, restarts, files>>

(* A heartbeat of the main loop; one not yet taken stands for all.         *)
Heartbeat(p) ==
  /\ p \in Living
  /\ ~Contains(mail[p], "heartbeat")
  /\ mail' = [mail EXCEPT ![p] = Append(@, "heartbeat")]
  /\ UNCHANGED <<procs, table, overdue, up, restarts, files>>

(* AccountModule::unregister_account.                                      *)
Unregister(p) ==
  /\ p \in announced \cap Living
  /\ ~Contains(mail[p], "unregister")
  /\ mail' = [mail EXCEPT ![p] = Append(@, "unregister")]
  /\ UNCHANGED <<procs, table, overdue, up, restarts, files>>

(* A process ends: it crashed, or it left its main loop after SIGTERM.     *)
(* What it sent and the server had not received may be lost.               *)
Exit(p) ==
  /\ p \in Living
  /\ life' = [life EXCEPT ![p] = "dead"]
  /\ mail' \in {mail, [mail EXCEPT ![p] = <<>>]}
  /\ UNCHANGED <<owner, announced, table, overdue, up, restarts, files>>

-----------------------------------------------------------------------------
(* The order thread takes the next message of a process.                   *)

Take(p, kind) ==
  /\ up
  /\ mail[p] # <<>>
  /\ Head(mail[p]) = kind
  /\ mail' = [mail EXCEPT ![p] = Tail(@)]

(* process_register_account: on success the strategy gets a new entry.     *)
RegisterStrategy(p) ==
  /\ Take(p, "register")
  /\ \/ /\ table' = [table EXCEPT ![owner[p]] = [pid |-> p, status |-> "running"]]
        /\ overdue' = overdue \ {owner[p]}
     \/ UNCHANGED <<table, overdue>>
  /\ UNCHANGED <<procs, up, restarts, files>>

(* Mutant: a heartbeat only refreshes its time.                            *)
RecordHeartbeatTime(p) ==
  /\ Take(p, "heartbeat")
  /\ overdue' = overdue \ {owner[p]}
  /\ UNCHANGED <<procs, table, up, restarts, files>>

RecordHeartbeat(p) ==
  /\ Take(p, "heartbeat")
  /\ IF Known(owner[p])
     THEN /\ overdue' = overdue \ {owner[p]}
          /\ table' = IF table[owner[p]].status \in {"stopped", "error"}
                      THEN [table EXCEPT ![owner[p]].status = "running"]
                      ELSE table
     ELSE UNCHANGED <<table, overdue>>
  /\ UNCHANGED <<procs, up, restarts, files>>

(* The entries of an account are removed; processes that run are told to   *)
(* stop.                                                                   *)
StopAndRemoveByAccount(a) ==
  LET gone == {s \in Strategies : Known(s) /\ AccountOf[s] = a}
  IN /\ life' = Signalled({table[s].pid : s \in {t \in gone : table[t].status = "running"}})
     /\ table' = [s \in Strategies |-> IF s \in gone THEN NoEntry ELSE table[s]]
     /\ overdue' = overdue \ gone
     /\ UNCHANGED <<owner, announced>>

(* process_unregister_account: the account is that of the strategy's entry *)
(* and is left alone if there is none or the registry does not know it.    *)
UnregisterStrategy(p) ==
  /\ Take(p, "unregister")
  /\ \/ Known(owner[p]) /\ StopAndRemoveByAccount(AccountOf[owner[p]])
     \/ UNCHANGED <<procs, table, overdue>>
  /\ UNCHANGED <<up, restarts, files>>

OrderThread(p) ==
  RegisterStrategy(p) \/ RecordHeartbeat(p) \/ UnregisterStrategy(p)

-----------------------------------------------------------------------------
(* The frontend's commands, one after the other on its message thread.     *)

Commanded == up /\ cascade = {}

(* Mutant: the entry's process is signalled whatever its status.           *)
StopStrategyAnyStatus(s) ==
  /\ Commanded /\ Known(s)
  /\ life' = IF table[s].pid # 0 THEN Signalled({table[s].pid}) ELSE life
  /\ table' = [table EXCEPT ![s].status = "stopped"]
  /\ UNCHANGED <<owner, announced, mail, files, overdue, up, restarts>>

StopStrategy(s) ==
  /\ Commanded /\ Known(s)
  /\ life' = IF table[s].status = "running" THEN Signalled({table[s].pid}) ELSE life
  /\ table' = [table EXCEPT ![s].status = "stopped"]
  /\ UNCHANGED <<owner, announced, mail, overdue, up, restarts, files>>

(* fork, exec and half a second later a look whether the child is there.   *)
StartStrategy(s) ==
  /\ Commanded /\ Known(s)
  /\ table[s].status # "running"
  /\ \/ /\ Spawn(s)
        /\ table' = [table EXCEPT ![s] = [pid |-> NewPid, status |-> "running"]]
        /\ overdue' = overdue \ {s}
     \/ /\ table' = [table EXCEPT ![s].status = "error"]
        /\ UNCHANGED <<procs, overdue>>
  /\ UNCHANGED <<mail, up, restarts, files>>

(* create_strategy: a new file and an entry that is not running, in the    *)
(* place of one that a script started by hand may have made.               *)
CreateStrategy(s) ==
  /\ Commanded /\ s \notin configured
  /\ configured' = configured \cup {s}
  /\ table' = [table EXCEPT ![s] = [pid |-> 0, status |-> "stopped"]]
  /\ overdue' = overdue \ {s}
  /\ UNCHANGED <<procs, mail, cascade, up, restarts>>

(* delete_strategy: stop_strategy, unregister_strategy, and the file goes. *)
DeleteStrategy(s) ==
  /\ Commanded
  /\ Known(s) \/ s \in configured
  /\ life' = IF table[s].status = "running" THEN Signalled({table[s].pid}) ELSE life
  /\ table' = [table EXCEPT ![s] = NoEntry]
  /\ configured' = configured \ {s}
  /\ overdue' = overdue \ {s}
  /\ UNCHANGED <<owner, announced, mail, cascade, up, restarts>>

(* unregister_account: the entries of the account go, then the files of    *)
(* its strategies, one by one.                                             *)
UnregisterAccount(a) ==
  /\ Commanded
  /\ StopAndRemoveByAccount(a)
  /\ cascade' = {a}
  /\ UNCHANGED <<mail, configured, up, restarts>>

DeleteConfigs ==
  LET left == {s \in configured : AccountOf[s] \in cascade}
  IN /\ cascade # {}
     /\ \/ left = {} /\ cascade' = {} /\ UNCHANGED configured
        \/ \E s \in left : configured' = configured \ {s} /\ UNCHANGED cascade
     /\ UNCHANGED <<procs, mail, table, overdue, up, restarts>>

-----------------------------------------------------------------------------
(* The main loop, and the server's end.                                    *)

(* Fifteen seconds pass without a heartbeat of s being applied: the        *)
(* process is gone, its loop is held up, or the order thread is.           *)
TimePasses(s) ==
  /\ up /\ Known(s)
  /\ overdue' = overdue \cup {s}
  /\ UNCHANGED <<procs, mail, table, up, restarts, files>>

CheckHeartbeats ==
  /\ up
  /\ table' = [s \in Strategies |->
                 IF s \in overdue /\ table[s].status = "running"
                 THEN [table[s] EXCEPT !.status = "stopped"] ELSE table[s]]
  /\ UNCHANGED <<procs, mail, overdue, up, restarts, files>>

(* stop_all_strategies: SIGTERM to those running and, if there were any,   *)
(* after a second SIGKILL to every pid of the table that still is there.   *)
(* A command that has begun ends; those taken after this are left out.     *)
Shutdown ==
  LET running == {s \in Strategies : table[s].pid # 0 /\ table[s].status = "running"}
  IN /\ up
     /\ up' = FALSE
     /\ life' = [p \in Pids |->
                   IF running # {} /\ p \in Living /\ \E s \in Strategies : table[s].pid = p
                   THEN "dead" ELSE life[p]]
     /\ table' = [s \in Strategies |-> IF s \in running
                     THEN [table[s] EXCEPT !.status = "stopped"] ELSE table[s]]
     /\ UNCHANGED <<owner, announced, mail, files, overdue, restarts>>

(* kill_all_strategies_unsafe, called by the handler of a crash: SIGTERM,  *)
(* then SIGKILL to every pid of the table that still is there.             *)
ServerCrashes ==
  /\ up
  /\ up' = FALSE
  /\ life' = [p \in Pids |->
                IF p \in Living /\ \E s \in Strategies : table[s].pid = p
                THEN "dead" ELSE life[p]]
  /\ cascade' = {}
  /\ UNCHANGED <<owner, announced, mail, table, configured, overdue, restarts>>

(* The server is killed without a chance to stop anything.                 *)
ServerKilled ==
  /\ up
  /\ up' = FALSE
  /\ cascade' = {}
  /\ UNCHANGED <<procs, mail, table, configured, overdue, restarts>>

(* Messages that had reached the old server are lost.                      *)
Restart ==
  /\ ~up /\ cascade = {} /\ restarts < MaxRestarts
  /\ up' = TRUE
  /\ restarts' = restarts + 1
  /\ table' = Loaded
  /\ overdue' = {}
  /\ \E P \in SUBSET Pids :
       mail' = [p \in Pids |-> IF p \in P THEN <<>> ELSE mail[p]]
  /\ UNCHANGED <<procs, files>>

-----------------------------------------------------------------------------
Next ==
  \/ \E s \in Strategies :
       \/ LaunchByHand(s) \/ TimePasses(s)
       \/ StopStrategy(s) \/ StartStrategy(s) \/ CreateStrategy(s) \/ DeleteStrategy(s)
  \/ \E p \in Pids :
       Announce(p) \/ Heartbeat(p) \/ Unregister(p) \/ Exit(p) \/ OrderThread(p)
  \/ \E a \in Accounts : UnregisterAccount(a)
  \/ DeleteConfigs \/ CheckHeartbeats \/ Shutdown \/ ServerCrashes \/ ServerKilled \/ Restart

Spec == Init /\ [][Next]_vars

(* Time passes, the main loop looks at the heartbeats every ten seconds,   *)
(* the order thread takes every message and a living process goes on       *)
(* sending heartbeats.                                                     *)
FairSpec ==
  /\ Spec
  /\ WF_vars(CheckHeartbeats)
  /\ \A s \in Strategies : WF_vars(TimePasses(s))
  /\ \A p \in Pids : WF_vars(OrderThread(p)) /\ WF_vars(Heartbeat(p))

-----------------------------------------------------------------------------
TypeOK ==
  /\ owner \in [Pids -> Strategies \cup {Nobody}]
  /\ life \in [Pids -> {"unborn", "alive", "signalled", "dead"}]
  /\ announced \subseteq Pids
  /\ mail \in [Pids -> Seq({"register", "heartbeat", "unregister"})]
  /\ table \in [Strategies -> Entry \cup {NoEntry}]
  /\ overdue \subseteq Strategies
  /\ configured \subseteq Strategies /\ cascade \subseteq Accounts
  /\ up \in BOOLEAN /\ restarts \in Nat

(* The pid of an entry, which stops and shutdowns signal, always is that   *)
(* of a process of the same strategy, however registrations of older and   *)
(* newer processes, starts and restarts interleave.                        *)
EntryOwnsPid == \A s \in Strategies : table[s].pid # 0 => owner[table[s].pid] = s

(* SIGTERM only reaches processes whose own strategy is marked stopped or  *)
(* removed by the same step.                                               *)
OnlyAskedSignalled ==
  /\ []EntryOwnsPid
  /\ [][\A p \in Pids :
         life[p] = "alive" /\ life'[p] = "signalled" =>
           /\ table[owner[p]] = [pid |-> p, status |-> "running"]
           /\ table'[owner[p]].status \in {"stopped", "none"}]_vars

(* A strategy shown as running whose last process has ended does not stay  *)
(* so while the server runs, even if heartbeats are still to be applied.   *)
Gone(s) ==
  /\ up /\ Known(s) /\ table[s].status = "running"
  /\ \A p \in Living : owner[p] # s
DeadNoticed == \A s \in Strategies : Gone(s) ~> ~Gone(s)

(* A strategy that was announced and has a living process is shown as      *)
(* running again and again, whatever timeouts and stops mark it stopped.   *)
Beating(s) ==
  /\ up /\ Known(s) /\ table[s].status # "pending"
  /\ \E p \in Living : owner[p] = s
AliveNoticed ==
  \A s \in Strategies : <>[]Beating(s) => []<>(table[s].status = "running")

(* What the table shows of a strategy catches up with what became of its   *)
(* process, in both directions.                                            *)
StatusCatchesUp == DeadNoticed /\ AliveNoticed

=============================================================================
