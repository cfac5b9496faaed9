------------------------------- MODULE Accounts -------------------------------
(***************************************************************************)
(* Which exchange account a strategy trades on: AccountRegistry, the       *)
(* account monitor, the files in acount_configs/ and strategy_configs/ and *)
(* the entries of StrategyProcessManager, and the threads that change them *)
(* without a common lock:                                                  *)
(*   - the frontend's commands, one at a time, each several steps and one  *)
(*     of them a request to the exchange (the API check of a registration);*)
(*   - the order thread, which registers the strategies that start.        *)
(*                                                                         *)
(* The registry maps a name (an account id, or a strategy id) to an API    *)
(* object; names may share one (add_account_alias). An object is freed     *)
(* when no name maps to it, the monitor's raw pointer notwithstanding; what *)
(* the monitor does with the balances is in RiskGate. The server may be    *)
(* killed between any two steps; files survive. Writing a file does not    *)
(* fail. One process per strategy is followed: the latest.                 *)
(***************************************************************************)
EXTENDS Naturals, Sequences, FiniteSets, SequencesExt

CONSTANTS
  Exchanges,
  Accounts, Strategies,
  None,
  MaxApis,     \* bound: API objects made
  MaxCommands  \* bound: commands of the frontend

ASSUME NameAssumption ==
  /\ Accounts \cap Strategies = {}
  /\ None \notin Accounts \cup Strategies \cup Nat
ASSUME AccountBounds == MaxApis \in Nat /\ MaxCommands \in Nat

VARIABLES
  registry,   \* [e][name] API object of the name, or None
  default,    \* [e] API object of the default account, or None
  apis,       \* the objects made: exchange and account of the keys, and whether ACTIVE
  monitor,    \* [e][name] raw pointer the monitor polls, or None
  files,      \* <<e, a>> with a file in acount_configs/
  configs,    \* files in strategy_configs/: strategy, account and exchange
  entries,    \* [s] entry of StrategyProcessManager, or None
  accountOf,  \* [s] g_strategy_account_map
  process,    \* [s] the configuration its process runs with, and whether it is registered
  queue,      \* [request] how many such requests wait for the order thread
  command,    \* the frontend's command in progress
  commands,
  torn,       \* history: accounts whose unregistration was cut by a crash
  twice       \* history: strategies with two configurations at once, or traces of two

memory == <<registry, default, apis, monitor, entries, accountOf>>
disk == <<files, configs>>
history == <<torn, twice>>
accountVars == <<memory, disk, process, queue, command, commands, history>>

Names == Accounts \cup Strategies
Polled == Names \cup {None}          \* None: the empty strategy_id
Config == [s: Strategies, a: Accounts, e: Exchanges]
Request == [type: {"register_account", "unregister_account"}, config: Config]
Idle == [step |-> "idle", e |-> None, id |-> None]

New == Len(apis) + 1
Api(e, a) == [on |-> e, account |-> a, active |-> TRUE]

(* register_account and add_account_alias map a name to an object, in      *)
(* place of the one it had; unregister_account forgets the name.           *)
Register(r, e, name, p) == [r EXCEPT ![e][name] = p]
AddAlias(r, e, alias, source) == [r EXCEPT ![e][alias] = r[e][source]]
Unregister(r, e, name) == [r EXCEPT ![e][name] = None]
SetStatus(e, name, active) == [apis EXCEPT ![registry[e][name]].active = active]

(* The monitor's map of names to raw pointers (polled over REST).          *)
Polls(e, name, p) == [monitor EXCEPT ![e][name] = p]
Forgets(e, name) == [monitor EXCEPT ![e][name] = None]

(* get_okx_api, get_binance_api, in the registry r of the objects o: the   *)
(* API of the name, or the default one.                                    *)
GetApi(r, o, e, name) ==
  IF name # None /\ r[e][name] # None /\ o[r[e][name]].active THEN r[e][name] ELSE default[e]

AccountsInit ==
  /\ registry = [e \in Exchanges |-> [n \in Names |-> None]]
  /\ default = [e \in Exchanges |-> None]
  /\ apis = <<>>
  /\ monitor = [e \in Exchanges |-> [n \in Polled |-> None]]
  /\ files = {} /\ configs = {}
  /\ entries = [s \in Strategies |-> None]
  /\ accountOf = [s \in Strategies |-> None]
  /\ process = [s \in Strategies |-> None]
  /\ queue = [r \in Request |-> 0]
  /\ command = Idle /\ commands = 0
  /\ torn = {} /\ twice = {}

-----------------------------------------------------------------------------
(* register_account and unregister_account of the frontend.                *)

Command == command = Idle /\ commands < MaxCommands /\ commands' = commands + 1

(* The account is registered, in place of one of that name, before its     *)
(* keys are checked. Without an account id it is the default account.      *)
RegisterAccount(e, a, id) ==
  /\ Command
  /\ New <= MaxApis
  /\ apis' = Append(apis, Api(e, a))
  /\ IF id = None
     THEN default' = [default EXCEPT ![e] = New] /\ UNCHANGED registry
     ELSE registry' = Register(registry, e, id, New) /\ UNCHANGED default
  /\ command' = [step |-> "check", e |-> e, id |-> id]
  /\ UNCHANGED <<monitor, entries, accountOf, disk, process, queue, history>>

(* Mutant: the monitor is told only of names it does not poll yet.          *)
PassesOnce ==
  LET e == command.e
      id == command.id
  IN  /\ command.step = "check"
      /\ apis' = IF id = None THEN apis ELSE SetStatus(e, id, TRUE)
      /\ monitor' = IF monitor[e][id] # None THEN monitor
                    ELSE Polls(e, id, GetApi(registry, apis', e, id))
      /\ command' = IF id = None THEN Idle ELSE [command EXCEPT !.step = "save"]
      /\ UNCHANGED <<registry, default, entries, accountOf>>
      /\ UNCHANGED <<disk, process, queue, commands, history>>

(* The exchange accepts the keys: the account is polled from now on.       *)
CheckPasses ==
  LET e == command.e
      id == command.id
  IN  /\ command.step = "check"
      /\ apis' = IF id = None THEN apis ELSE SetStatus(e, id, TRUE)
      /\ monitor' = Polls(e, id, GetApi(registry, apis', e, id))
      /\ command' = IF id = None THEN Idle ELSE [command EXCEPT !.step = "save"]
      /\ UNCHANGED <<registry, default, entries, accountOf>>
      /\ UNCHANGED <<disk, process, queue, commands, history>>

(* It refuses them, or does not answer: "rolled back", which takes away    *)
(* the name and does not bring back what it mapped to before.              *)
CheckFails ==
  LET e == command.e
      id == command.id
  IN  /\ command.step = "check"
      /\ IF id = None
         THEN UNCHANGED <<apis, registry>>
         ELSE /\ apis' = SetStatus(e, id, FALSE)
              /\ registry' = Unregister(registry, e, id)
      /\ command' = Idle
      /\ UNCHANGED <<default, monitor, entries, accountOf>>
      /\ UNCHANGED <<disk, process, queue, commands, history>>

SaveAccount ==
  /\ command.step = "save"
  /\ files' = files \cup {<<command.e, command.id>>}
  /\ command' = Idle
  /\ UNCHANGED <<memory, configs, process, queue, commands, history>>

(* The page sends the account id as strategy_id too.                       *)
UnregisterAccount(e, a) ==
  /\ Command
  /\ registry' = Unregister(registry, e, a)
  /\ command' = [step |-> IF registry[e][a] = None THEN "stop" ELSE "unmonitor", e |-> e, id |-> a]
  /\ UNCHANGED <<default, apis, monitor, entries, accountOf>>
  /\ UNCHANGED <<disk, process, queue, history>>

Unmonitor ==
  /\ command.step = "unmonitor"
  /\ monitor' = Forgets(command.e, command.id)
  /\ command' = [command EXCEPT !.step = "stop"]
  /\ UNCHANGED <<registry, default, apis, entries, accountOf>>
  /\ UNCHANGED <<disk, process, queue, commands, history>>

(* stop_and_remove_by_account: on whichever exchange; a process is stopped *)
(* if the manager knows its pid.                                           *)
StopByAccount(a) ==
  LET gone == {s \in Strategies : entries[s] # None /\ entries[s].a = a}
  IN  /\ entries' = [s \in Strategies |-> IF s \in gone THEN None ELSE entries[s]]
      /\ process' = [s \in Strategies |->
                       IF s \in gone /\ entries[s].pid THEN None ELSE process[s]]

StopStrategies ==
  /\ command.step = "stop"
  /\ StopByAccount(command.id)
  /\ command' = [command EXCEPT !.step = "file"]
  /\ UNCHANGED <<registry, default, apis, monitor, accountOf>>
  /\ UNCHANGED <<disk, queue, commands, history>>

DeleteFile ==
  /\ command.step = "file"
  /\ files' = files \ {<<command.e, command.id>>}
  /\ command' = [command EXCEPT !.step = "configs"]
  /\ UNCHANGED <<memory, configs, process, queue, commands, history>>

DeleteConfigs ==
  /\ command.step = "configs"
  /\ configs' = {c \in configs : c.a # command.id}
  /\ command' = Idle
  /\ UNCHANGED <<memory, files, process, queue, commands, history>>

-----------------------------------------------------------------------------
(* Strategies, from the frontend.                                          *)

Sends(type, c) == queue' = [queue EXCEPT ![[type |-> type, config |-> c]] = @ + 1]

Started(c) ==
  /\ process' = [process EXCEPT ![c.s] = [config |-> c, registered |-> FALSE]]
  /\ Sends("register_account", c)

(* The strategy has another configuration, or a process that outlived one, *)
(* or what a process sent before it ended still waits.                     *)
Other(c) ==
  \/ \E d \in configs : d.s = c.s
  \/ process[c.s] # None
  \/ \E r \in Request : r.config.s = c.s /\ queue[r] > 0

(* The configuration takes the keys of the account's file, whichever of    *)
(* the exchanges it finds it under first.                                  *)
CreateStrategy(c, autoStart) ==
  /\ Command
  /\ <<c.e, c.a>> \in files
  /\ c \notin configs
  /\ configs' = configs \cup {c}
  /\ twice' = IF Other(c) THEN twice \cup {c.s} ELSE twice
  /\ entries' = [entries EXCEPT ![c.s] = [a |-> c.a, config |-> c, pid |-> autoStart]]
  /\ IF autoStart THEN Started(c) ELSE UNCHANGED <<process, queue>>
  /\ UNCHANGED <<registry, default, apis, monitor, accountOf>>
  /\ UNCHANGED <<files, command, torn>>

StartStrategy(s) ==
  /\ Command
  /\ entries[s] # None
  /\ entries[s].config \in configs
  /\ entries[s].pid => process[s] = None
  /\ entries' = [entries EXCEPT ![s].pid = TRUE]
  /\ Started(entries[s].config)
  /\ UNCHANGED <<registry, default, apis, monitor, accountOf>>
  /\ UNCHANGED <<disk, command, history>>

(* delete_strategy: stop, forget, delete the first configuration found.    *)
DeleteStrategy(s) ==
  /\ Command
  /\ process' = [process EXCEPT ![s] = IF entries[s] # None /\ entries[s].pid THEN None ELSE @]
  /\ entries' = [entries EXCEPT ![s] = None]
  /\ LET found == {c \in configs : c.s = s}
     IN  IF found = {} THEN UNCHANGED configs
         ELSE \E c \in found : configs' = configs \ {c}
  /\ UNCHANGED <<registry, default, apis, monitor, accountOf>>
  /\ UNCHANGED <<files, queue, command, history>>

-----------------------------------------------------------------------------
(* The order thread. Each process has a pipe of its own to the PULL socket, *)
(* which takes from them in turn: what several processes sent comes in any *)
(* order. One process unregisters after its registration was handled.      *)

Receives(type, c) ==
  LET r == [type |-> type, config |-> c]
  IN  queue[r] > 0 /\ queue' = [queue EXCEPT ![r] = @ - 1]

(* The strategy's own unregister_account, before it ends.                  *)
Unregisters(s) ==
  /\ process[s] # None /\ process[s].registered
  /\ Sends("unregister_account", process[s].config)
  /\ process' = [process EXCEPT ![s] = None]
  /\ UNCHANGED <<memory, disk, command, commands, history>>

(* Mutant: the account remembered from the strategy's last registration.   *)
Remembered(s) ==
  IF accountOf[s] # None THEN {accountOf[s]}
  ELSE IF \E c \in configs : c.s = s THEN {c.a : c \in {d \in configs : d.s = s}} ELSE {None}

(* The account its configuration names on disk: of several files with that *)
(* strategy_id, the one the directory lists first.                         *)
Named(s) ==
  IF \E c \in configs : c.s = s THEN {c.a : c \in {d \in configs : d.s = s}} ELSE {None}

(* The name of the strategy shares the object of the account when that is  *)
(* registered; else the strategy gets an object for the keys it sent.      *)
Take(c, account) ==
  IF account # None /\ registry[c.e][account] # None
  THEN /\ registry' = AddAlias(registry, c.e, c.s, account)
       /\ UNCHANGED apis
  ELSE /\ New <= MaxApis
       /\ apis' = Append(apis, Api(c.e, c.a))
       /\ registry' = Register(registry, c.e, c.s, New)

(* Polled under its own name unless get_api of the account answers.        *)
Watch(c, account) ==
  monitor' = IF account # None /\ GetApi(registry', apis', c.e, account) # None
             THEN monitor
             ELSE Polls(c.e, c.s, GetApi(registry', apis', c.e, c.s))

ProcessRegisterAccount(c) ==
  LET s == c.s
  IN  /\ Receives("register_account", c)
      /\ \E account \in Named(s) :
           /\ Take(c, account)
           /\ Watch(c, account)
           /\ accountOf' = IF account = None THEN accountOf ELSE [accountOf EXCEPT ![s] = account]
      /\ entries' = [entries EXCEPT ![s] = [a |-> accountOf'[s], config |-> c, pid |-> TRUE]]
      /\ process' = IF process[s] # None /\ process[s].config = c
                    THEN [process EXCEPT ![s].registered = TRUE] ELSE process
      /\ UNCHANGED <<default, disk, command, commands, history>>

ProcessUnregisterAccount(c) ==
  LET s == c.s
  IN  /\ Receives("unregister_account", c)
      /\ IF registry[c.e][s] = None
         THEN UNCHANGED <<registry, monitor, entries, process>>
         ELSE /\ registry' = Unregister(registry, c.e, s)
              /\ monitor' = Forgets(c.e, s)
              /\ IF entries[s] # None /\ entries[s].a # None
                 THEN StopByAccount(entries[s].a)
                 ELSE UNCHANGED <<entries, process>>
      /\ UNCHANGED <<default, apis, accountOf>>
      /\ UNCHANGED <<disk, command, commands, history>>

-----------------------------------------------------------------------------
(* The server is killed at any step and starts again: accounts and the     *)
(* entries of strategies come from the files; of the processes and their   *)
(* messages some survive, and no process registers again.                  *)

Saved == SetToSeq(files)

FromFiles(names) ==
  [e \in Exchanges |-> [n \in names |->
     IF <<e, n>> \in files THEN CHOOSE p \in DOMAIN Saved : Saved[p] = <<e, n>> ELSE None]]

Restart ==
  /\ commands < MaxCommands /\ commands' = commands + 1
  /\ torn' = IF command.step = "configs" THEN torn \cup {command.id} ELSE torn
  /\ apis' = [p \in DOMAIN Saved |-> Api(Saved[p][1], Saved[p][2])]
  /\ registry' = FromFiles(Names)
  /\ monitor' = FromFiles(Polled)
  /\ default' = [e \in Exchanges |-> None]
  /\ accountOf' = [s \in Strategies |-> None]
  /\ \E pick \in [Strategies -> configs \cup {None}] :
       /\ \A s \in Strategies :
            IF \E c \in configs : c.s = s THEN pick[s] # None /\ pick[s].s = s ELSE pick[s] = None
       /\ entries' = [s \in Strategies |->
                        IF pick[s] = None THEN None
                        ELSE [a |-> pick[s].a, config |-> pick[s], pid |-> FALSE]]
  /\ \E alive \in SUBSET Strategies :
       process' = [s \in Strategies |->
                     IF s \in alive /\ process[s] # None
                     THEN [process[s] EXCEPT !.registered = FALSE] ELSE None]
  /\ queue' \in {queue, [r \in Request |-> 0]}
  /\ command' = Idle
  /\ UNCHANGED <<disk, twice>>

AccountsNext ==
  \/ \E e \in Exchanges, a \in Accounts : \E id \in {a, None} : RegisterAccount(e, a, id)
  \/ CheckPasses \/ CheckFails \/ SaveAccount
  \/ \E e \in Exchanges, a \in Accounts : UnregisterAccount(e, a)
  \/ Unmonitor \/ StopStrategies \/ DeleteFile \/ DeleteConfigs
  \/ \E c \in Config, autoStart \in BOOLEAN : CreateStrategy(c, autoStart)
  \/ \E s \in Strategies : StartStrategy(s) \/ DeleteStrategy(s) \/ Unregisters(s)
  \/ \E c \in Config : ProcessRegisterAccount(c) \/ ProcessUnregisterAccount(c)
  \/ Restart

AccountsSpec == AccountsInit /\ [][AccountsNext]_accountVars

-----------------------------------------------------------------------------
(* Properties.                                                             *)

(* Every variable holds what the code can put there.                       *)
Object == [on: Exchanges, account: Accounts, active: BOOLEAN]
Pointer == (1 .. Len(apis)) \cup {None}
Steps == {"idle", "check", "save", "unmonitor", "stop", "file", "configs"}

AccountsTypeOK ==
  /\ apis \in Seq(Object)
  /\ registry \in [Exchanges -> [Names -> Pointer]]
  /\ default \in [Exchanges -> Pointer]
  /\ monitor \in [Exchanges -> [Polled -> Pointer]]
  /\ files \subseteq Exchanges \X Accounts /\ IsFiniteSet(files)
  /\ configs \subseteq Config
  /\ entries \in [Strategies -> [a: Accounts \cup {None}, config: Config, pid: BOOLEAN] \cup {None}]
  /\ process \in [Strategies -> [config: Config, registered: BOOLEAN] \cup {None}]
  /\ accountOf \in [Strategies -> Accounts \cup {None}]
  /\ queue \in [Request -> Nat]
  /\ command \in [step: Steps, e: Exchanges \cup {None}, id: Accounts \cup {None}]
  /\ command.step # "idle" => command.e \in Exchanges
  /\ command.step \notin {"idle", "check"} => command.id # None
  /\ commands \in 0 .. MaxCommands
  /\ torn \subseteq Accounts /\ twice \subseteq Strategies

Quiet == command = Idle

(* An account of the registry is there after a restart: between commands,  *)
(* every account a command registered has its file, whatever failed,       *)
(* was registered again, unregistered or killed before.                    *)
RegisteredSurvivesRestart ==
  Quiet => \A e \in Exchanges, a \in Accounts : registry[e][a] # None => <<e, a>> \in files

(* Between commands a registered account is polled, and through the object *)
(* its orders use, not one that a later registration replaced.             *)
RegisteredIsMonitored ==
  Quiet => \A e \in Exchanges, a \in Accounts :
             registry[e][a] # None => monitor[e][a] = registry[e][a]

(* A strategy whose registration the order thread has handled trades with  *)
(* the keys of the account its configuration names, whether it shares the  *)
(* object of the account or has its own, and whatever became of the        *)
(* account, unless two configurations had its name, or a process of an      *)
(* earlier one, or a message of it, was still there when it was created.   *)
OrdersOnConfiguredAccount ==
  \A s \in Strategies :
    process[s] # None /\ s \notin twice =>
      LET c == process[s].config
          p == registry[c.e][s]
      IN  process[s].registered /\ p # None => apis[p].account = c.a /\ apis[p].on = c.e

(* Between commands every strategy configuration names an account that has *)
(* a file, unless the server was killed while it unregistered the account. *)
ConfigsHaveAccount ==
  Quiet => \A c \in configs : c.a \in torn \/ \E e \in Exchanges : <<e, c.a>> \in files

(* Between commands what knows of an account agrees on it: the registry,   *)
(* the monitor, its file and the configurations.                           *)
AccountsAgree == RegisteredSurvivesRestart /\ RegisteredIsMonitored /\ ConfigsHaveAccount
=============================================================================
