----------------------------- MODULE StorageProofs -----------------------------
(***************************************************************************)
(* What the server keeps: the accounts it knows, and the candles in Redis, *)
(* for any exchanges, accounts, strategies, periods and bounds, whatever   *)
(* the frontend commands, the exchange answers, processes send, and losses *)
(* and crashes leave behind.                                               *)
(*                                                                         *)
(* Accounts. That registry, monitor and files agree between commands needs *)
(* to be known for the command in progress: what each step has made        *)
(* different and a later one makes equal again (Agreed). That a strategy   *)
(* trades with the keys of its configuration needs that an account's name  *)
(* always means an object with its keys, and that all there is of the      *)
(* strategy, down to the messages that wait, is of one configuration       *)
(* (Keyed).                                                                *)
(*                                                                         *)
(* Candles. What data_recorder collects has each minute once, because the  *)
(* feed brings them in order down to the last one it has counted           *)
(* (FeedOrdered, Collected). What a filler has not found yet is in a gap   *)
(* that waits, or hidden from it, and nothing it has seen goes away        *)
(* (MissingKnown, MinutesKept).                                            *)
(***************************************************************************)
EXTENDS Accounts, Candles, FiniteSetTheorems, SequenceTheorems, WellFoundedInduction, TLAPS

At(step, e, a) == command.step = step /\ command.e = e /\ command.id = a

(* The account being checked is in the registry, and the one that is being *)
(* unregistered is not.                                                    *)
CommandsOrder ==
  \A e \in Exchanges, a \in Accounts :
    /\ At("check", e, a) \/ At("save", e, a) => registry[e][a] # None
    /\ At("unmonitor", e, a) \/ At("stop", e, a) \/ At("file", e, a) => registry[e][a] = None

FileOrSaving ==
  \A e \in Exchanges, a \in Accounts :
    registry[e][a] # None => <<e, a>> \in files \/ At("check", e, a) \/ At("save", e, a)

MonitoredOrChecking ==
  \A e \in Exchanges, a \in Accounts :
    registry[e][a] # None => monitor[e][a] = registry[e][a] \/ At("check", e, a)

FileOrDeleting ==
  \A c \in configs : \/ c.a \in torn
                     \/ \E e \in Exchanges : <<e, c.a>> \in files
                     \/ command.step = "configs" /\ command.id = c.a

Agreed == CommandsOrder /\ FileOrSaving /\ MonitoredOrChecking /\ FileOrDeleting

(* An account's name is that of an object with its keys.                   *)
OwnKeys ==
  \A e \in Exchanges, a \in Accounts :
    registry[e][a] # None => apis[registry[e][a]].account = a /\ apis[registry[e][a]].on = e

(* Whatever there is of a strategy that is not in twice is of one          *)
(* configuration.                                                          *)
Trace(c) ==
  \/ c \in configs
  \/ process[c.s] # None /\ process[c.s].config = c
  \/ \E r \in Request : r.config = c /\ queue[r] > 0

Single ==
  \A c \in Config, d \in Config : c.s = d.s /\ c.s \notin twice /\ Trace(c) /\ Trace(d) => c = d

ProcessOwn == \A s \in Strategies : process[s] # None => process[s].config.s = s

Keyed == OwnKeys /\ Single /\ ProcessOwn /\ OrdersOnConfiguredAccount

AccountsInv == AccountsTypeOK /\ Agreed /\ Keyed

-----------------------------------------------------------------------------
(* The objects.                                                            *)

(* The objects that were there still are, with the same keys.              *)
ObjectsKept ==
  \A p \in 1 .. Len(apis) : /\ p \in 1 .. Len(apis')
                            /\ apis'[p].account = apis[p].account /\ apis'[p].on = apis[p].on

LEMMA PointersKept ==
  ASSUME ObjectsKept, AccountsTypeOK
  PROVE  \A p \in Pointer : p \in Pointer'
  BY DEF ObjectsKept, Pointer

LEMMA ObjectIs ==
  ASSUME NEW e \in Exchanges, NEW a \in Accounts
  PROVE  /\ Api(e, a) \in Object
         /\ Api(e, a).account = a /\ Api(e, a).on = e
  BY DEF Api, Object

LEMMA ObjectMade ==
  ASSUME apis \in Seq(Object), NEW x \in Object, apis' = Append(apis, x)
  PROVE  /\ apis' \in Seq(Object) /\ ObjectsKept
         /\ New \in 1 .. Len(apis') /\ apis'[New] = x
  BY AppendProperties DEF ObjectsKept, New

LEMMA ObjectMarked ==
  ASSUME apis \in Seq(Object), NEW p \in 1 .. Len(apis), NEW b \in BOOLEAN,
         apis' = [apis EXCEPT ![p].active = b]
  PROVE  apis' \in Seq(Object) /\ ObjectsKept /\ apis'[p].active = b
  <1>1. apis[p] \in Object
    BY ElementOfSeq
  <1>2. PICK x : x = [apis[p] EXCEPT !.active = b]
    OBVIOUS
  <1>3. x \in Object /\ x.account = apis[p].account /\ x.on = apis[p].on /\ x.active = b
    BY <1>1, <1>2 DEF Object
  <1>4. apis' = [apis EXCEPT ![p] = x]
    BY <1>2
  <1>5. apis' \in Seq(Object) /\ Len(apis') = Len(apis)
    BY <1>3, <1>4, ExceptSeq
  <1>6. \A q \in 1 .. Len(apis) : apis'[q] = IF q = p THEN x ELSE apis[q]
    BY <1>4, LenProperties
  <1>7. QED
    BY <1>3, <1>5, <1>6 DEF ObjectsKept

LEMMA ApiFound ==
  ASSUME AccountsTypeOK, NEW r \in [Exchanges -> [Names -> Pointer]], NEW o,
         NEW e \in Exchanges, NEW n \in Polled
  PROVE  GetApi(r, o, e, n) \in Pointer
  BY DEF AccountsTypeOK, GetApi, Polled

-----------------------------------------------------------------------------
(* Maps of names.                                                          *)

LEMMA NameSet ==
  ASSUME NEW E, NEW I, NEW P, NEW Q, \A p \in P : p \in Q, NEW m \in [E -> [I -> P]],
         NEW e \in E, NEW n \in I, NEW v \in Q
  PROVE  [m EXCEPT ![e][n] = v] \in [E -> [I -> Q]]
  OBVIOUS

LEMMA NameIs ==
  ASSUME NEW E, NEW I, NEW P, NEW m \in [E -> [I -> P]], NEW e, NEW n, NEW v,
         NEW f \in E, NEW k \in I
  PROVE  [m EXCEPT ![e][n] = v][f][k] = IF f = e /\ k = n THEN v ELSE m[f][k]
  OBVIOUS

LEMMA NameSetOrKept ==
  ASSUME NEW E, NEW I, NEW P, NEW Q, \A p \in P : p \in Q, NEW m \in [E -> [I -> P]],
         NEW e \in E, NEW n \in I, NEW v \in Q, NEW g,
         \/ g = m
         \/ g = [m EXCEPT ![e][n] = v]
  PROVE  /\ g \in [E -> [I -> Q]]
         /\ \A f \in E, k \in I : /\ f # e \/ k # n => g[f][k] = m[f][k]
                                 /\ g[f][k] \in {m[f][k], v}
  <1>1. CASE g = m
    BY <1>1
  <1>2. CASE g = [m EXCEPT ![e][n] = v]
    <2>1. g \in [E -> [I -> Q]]
      BY <1>2, NameSet
    <2>2. \A f \in E, k \in I : g[f][k] = IF f = e /\ k = n THEN v ELSE m[f][k]
      BY <1>2, NameIs
    <2>3. QED
      BY <2>1, <2>2
  <1>3. QED
    BY <1>1, <1>2

LEMMA MapWidened ==
  ASSUME NEW E, NEW I, NEW P, NEW Q, \A p \in P : p \in Q, NEW m \in [E -> [I -> P]]
  PROVE  m \in [E -> [I -> Q]]
  OBVIOUS

-----------------------------------------------------------------------------
(* What other actors leave alone.                                          *)

LEMMA AgreedKept ==
  ASSUME Agreed, UNCHANGED <<files, configs, command, torn>>,
         \A e \in Exchanges, a \in Accounts :
           registry'[e][a] = registry[e][a] /\ monitor'[e][a] = monitor[e][a]
  PROVE  Agreed'
  BY DEF Agreed, CommandsOrder, FileOrSaving, MonitoredOrChecking, FileOrDeleting, At

LEMMA SingleKept ==
  ASSUME Single, twice' = twice, \A c \in Config : Trace(c)' => Trace(c)
  PROVE  Single'
  BY DEF Single

LEMMA KeysKept ==
  ASSUME OwnKeys, AccountsTypeOK, ObjectsKept,
         \A e \in Exchanges, a \in Accounts : registry'[e][a] \in {registry[e][a], None}
  PROVE  OwnKeys'
  <1> SUFFICES ASSUME NEW e \in Exchanges, NEW a \in Accounts, registry'[e][a] # None
               PROVE  apis'[registry'[e][a]].account = a /\ apis'[registry'[e][a]].on = e
    BY DEF OwnKeys
  <1>1. registry'[e][a] = registry[e][a] /\ registry[e][a] \in 1 .. Len(apis)
    BY DEF AccountsTypeOK, Names, Pointer
  <1>2. QED
    BY <1>1 DEF OwnKeys, ObjectsKept

(* A process that is as before, or unregistered.                           *)
Lessened(s) ==
  \/ process'[s] = process[s] \/ process'[s] = None
  \/ process[s] # None /\ process'[s].config = process[s].config /\ ~process'[s].registered

LEMMA OrdersKept ==
  ASSUME OrdersOnConfiguredAccount, AccountsTypeOK, ObjectsKept,
         NEW s \in Strategies, s \notin twice, process'[s] # None,
         process'[s] = process[s] \/ ~process'[s].registered,
         \A e \in Exchanges : registry'[e][s] \in {registry[e][s], None}
  PROVE  LET c == process'[s].config
             p == registry'[c.e][s]
         IN  process'[s].registered /\ p # None => apis'[p].account = c.a /\ apis'[p].on = c.e
  <1> DEFINE c == process'[s].config
             p == registry'[c.e][s]
  <1> SUFFICES ASSUME process'[s].registered, p # None
               PROVE  apis'[p].account = c.a /\ apis'[p].on = c.e
    OBVIOUS
  <1>1. process'[s] = process[s] /\ process[s] # None
    OBVIOUS
  <1>2. process[s] \in [config: Config, registered: BOOLEAN]
    BY <1>1 DEF AccountsTypeOK
  <1>3. c \in Config /\ c = process[s].config
    BY <1>1, <1>2
  <1>4. c.e \in Exchanges
    BY <1>3 DEF Config
  <1>5. p = registry[c.e][s] /\ p \in 1 .. Len(apis)
    BY <1>4 DEF AccountsTypeOK, Names, Pointer
  <1>6. apis[p].account = c.a /\ apis[p].on = c.e
    BY <1>1, <1>3, <1>5 DEF OrdersOnConfiguredAccount
  <1>7. QED
    BY <1>5, <1>6 DEF ObjectsKept

LEMMA KeyedKept ==
  ASSUME Keyed, AccountsTypeOK, ObjectsKept, twice' = twice,
         \A e \in Exchanges, n \in Names : registry'[e][n] \in {registry[e][n], None},
         \A s \in Strategies : Lessened(s), configs' \subseteq configs,
         \A r \in Request : queue'[r] > 0 => queue[r] > 0
  PROVE  Keyed'
  <1>1. OwnKeys'
    BY KeysKept DEF Keyed, Names
  <1>2. ProcessOwn'
    BY DEF Keyed, ProcessOwn, Lessened
  <1>3. \A c \in Config : Trace(c)' => Trace(c)
    BY DEF Trace, Lessened, Config
  <1>4. Single'
    BY <1>3, SingleKept DEF Keyed
  <1>5. OrdersOnConfiguredAccount'
    <2> SUFFICES ASSUME NEW s \in Strategies, process'[s] # None, s \notin twice'
                 PROVE  LET c == process'[s].config
                            p == registry'[c.e][s]
                        IN  process'[s].registered /\ p # None
                              => apis'[p].account = c.a /\ apis'[p].on = c.e
      BY DEF OrdersOnConfiguredAccount
    <2>1. \A e \in Exchanges : registry'[e][s] \in {registry[e][s], None}
      BY DEF Names
    <2>2. process'[s] = process[s] \/ ~process'[s].registered
      BY DEF Lessened
    <2>3. OrdersOnConfiguredAccount
      BY DEF Keyed
    <2>4. QED
      BY <2>1, <2>2, <2>3, OrdersKept
  <1>6. QED
    BY <1>1, <1>2, <1>4, <1>5 DEF Keyed
-----------------------------------------------------------------------------
(* The start.                                                              *)

LEMMA NoneIs == /\ \A p \in Nat : p # None
                /\ None \notin Names /\ None \notin Accounts
                /\ \A a \in Accounts : a \notin Strategies
  BY NameAssumption DEF Names

LEMMA AccountsStart == AccountsInit => AccountsInv
  <1> SUFFICES ASSUME AccountsInit PROVE AccountsInv
    OBVIOUS
  <1>1. apis \in Seq(Object) /\ IsFiniteSet(files)
    BY EmptySeq, FS_EmptySet DEF AccountsInit
  <1>2. command \in [step: Steps, e: Exchanges \cup {None}, id: Accounts \cup {None}]
        /\ command.step = "idle"
    BY DEF AccountsInit, Idle, Steps
  <1>3. commands \in 0 .. MaxCommands
    BY AccountBounds DEF AccountsInit
  <1>4. AccountsTypeOK
    BY <1>1, <1>2, <1>3 DEF AccountsInit, AccountsTypeOK, Pointer
  <1>5. Agreed
    BY <1>2 DEF AccountsInit, Agreed, CommandsOrder, FileOrSaving, MonitoredOrChecking,
                FileOrDeleting, At, Names
  <1>6. Keyed
    <2>1. OwnKeys
      BY DEF AccountsInit, OwnKeys, Names
    <2>2. Single
      BY DEF AccountsInit, Single, Trace, Config
    <2>3. ProcessOwn /\ OrdersOnConfiguredAccount
      BY DEF AccountsInit, ProcessOwn, OrdersOnConfiguredAccount
    <2>4. QED
      BY <2>1, <2>2, <2>3 DEF Keyed
  <1>7. QED
    BY <1>4, <1>5, <1>6 DEF AccountsInv

-----------------------------------------------------------------------------
(* Registration of an account.                                             *)

LEMMA CommandCounted ==
  ASSUME Command, commands \in 0 .. MaxCommands
  PROVE  commands' \in 0 .. MaxCommands /\ command.step = "idle"
  BY AccountBounds DEF Command, Idle

LEMMA RegisterStep ==
  ASSUME AccountsInv, NEW e \in Exchanges, NEW a \in Accounts, NEW id \in {a, None},
         RegisterAccount(e, a, id)
  PROVE  AccountsInv'
  <1>1. AccountsTypeOK /\ Agreed /\ Keyed
    BY DEF AccountsInv
  <1>2. apis' \in Seq(Object) /\ ObjectsKept /\ New \in 1 .. Len(apis') /\ apis'[New] = Api(e, a)
    BY <1>1, ObjectIs, ObjectMade DEF RegisterAccount, AccountsTypeOK
  <1>3. \A p \in Pointer : p \in Pointer'
    BY <1>1, <1>2, PointersKept
  <1>4. /\ command' \in [step: Steps, e: Exchanges \cup {None}, id: Accounts \cup {None}]
        /\ command'.step = "check" /\ command'.e = e /\ command'.id = id
    BY DEF RegisterAccount, Steps
  <1>5. commands' \in 0 .. MaxCommands /\ command.step = "idle"
    BY <1>1, CommandCounted DEF RegisterAccount, AccountsTypeOK
  <1>6. /\ registry' = IF id = None THEN registry ELSE [registry EXCEPT ![e][id] = New]
        /\ default' = IF id = None THEN [default EXCEPT ![e] = New] ELSE default
    BY DEF RegisterAccount, Register
  <1>7. registry' \in [Exchanges -> [Names -> Pointer']] /\ default' \in [Exchanges -> Pointer']
        /\ monitor' \in [Exchanges -> [Polled -> Pointer']]
    <2>1. New \in Pointer'
      BY <1>2 DEF Pointer
    <2>2. registry \in [Exchanges -> [Names -> Pointer]] /\ default \in [Exchanges -> Pointer]
          /\ monitor \in [Exchanges -> [Polled -> Pointer]]
      BY <1>1 DEF AccountsTypeOK
    <2>3. registry' \in [Exchanges -> [Names -> Pointer']]
      <3>1. CASE id = None
        BY <1>3, <1>6, <2>2, <3>1, MapWidened
      <3>2. CASE id # None
        <4>1. id \in Names
          BY <3>2 DEF Names
        <4>2. [registry EXCEPT ![e][id] = New] \in [Exchanges -> [Names -> Pointer']]
          BY <1>3, <2>1, <2>2, <4>1, NameSet
        <4>3. QED
          BY <1>6, <3>2, <4>2
      <3>3. QED
        BY <3>1, <3>2
    <2>4. default' \in [Exchanges -> Pointer']
      BY <1>3, <1>6, <2>1, <2>2
    <2>5. monitor' = monitor
      BY DEF RegisterAccount
    <2>6. QED
      BY <1>3, <2>2, <2>3, <2>4, <2>5, MapWidened
  <1>8. AccountsTypeOK'
    BY <1>1, <1>2, <1>4, <1>5, <1>7 DEF AccountsTypeOK, RegisterAccount, disk, history
  <1>9. New # None
    BY <1>2, NoneIs
  <1>10. \A f \in Exchanges, b \in Accounts :
           registry'[f][b] = IF id # None /\ f = e /\ b = id THEN New ELSE registry[f][b]
    BY <1>1, <1>6 DEF AccountsTypeOK, Names
  <1>11. Agreed'
    <2>1. UNCHANGED <<files, configs, monitor, torn>>
      BY DEF RegisterAccount, disk, history
    <2>2. CommandsOrder'
      BY <1>4, <1>9, <1>10, NoneIs DEF CommandsOrder, At
    <2>3. FileOrSaving'
      BY <1>1, <1>4, <1>5, <1>10, <2>1 DEF Agreed, FileOrSaving, At
    <2>4. MonitoredOrChecking'
      BY <1>1, <1>4, <1>5, <1>10, <2>1 DEF Agreed, MonitoredOrChecking, At
    <2>5. FileOrDeleting'
      BY <1>1, <1>5, <2>1 DEF Agreed, FileOrDeleting
    <2>6. QED
      BY <2>2, <2>3, <2>4, <2>5 DEF Agreed
  <1>12. Keyed'
    <2>1. OwnKeys'
      <3> SUFFICES ASSUME NEW f \in Exchanges, NEW b \in Accounts, registry'[f][b] # None
                   PROVE  apis'[registry'[f][b]].account = b /\ apis'[registry'[f][b]].on = f
        BY DEF OwnKeys
      <3>1. CASE id # None /\ f = e /\ b = id
        BY <1>2, <1>10, <3>1, ObjectIs
      <3>2. CASE ~(id # None /\ f = e /\ b = id)
        <4>1. registry'[f][b] = registry[f][b] /\ registry[f][b] \in 1 .. Len(apis)
          BY <1>1, <1>10, <3>2 DEF AccountsTypeOK, Names, Pointer
        <4>2. QED
          BY <1>1, <1>2, <4>1 DEF Keyed, OwnKeys, ObjectsKept
      <3>3. QED
        BY <3>1, <3>2
    <2>2. Single' /\ ProcessOwn'
      BY <1>1 DEF Keyed, Single, Trace, ProcessOwn, RegisterAccount, disk, history
    <2>3. \A f \in Exchanges, s \in Strategies : registry'[f][s] = registry[f][s]
      BY <1>1, <1>6, NoneIs DEF AccountsTypeOK, Names
    <2>4. OrdersOnConfiguredAccount'
      <3> SUFFICES ASSUME NEW s \in Strategies, process'[s] # None, s \notin twice'
                   PROVE  LET c == process'[s].config
                              p == registry'[c.e][s]
                          IN  process'[s].registered /\ p # None
                                => apis'[p].account = c.a /\ apis'[p].on = c.e
        BY DEF OrdersOnConfiguredAccount
      <3>1. process' = process /\ twice' = twice
        BY DEF RegisterAccount, history
      <3>2. QED
        BY <1>1, <1>2, <2>3, <3>1, OrdersKept DEF Keyed
    <2>5. QED
      BY <2>1, <2>2, <2>4 DEF Keyed
  <1>13. QED
    BY <1>8, <1>11, <1>12 DEF AccountsInv

LEMMA CheckPassesStep ==
  ASSUME AccountsInv, CheckPasses
  PROVE  AccountsInv'
  <1>1. AccountsTypeOK /\ Agreed /\ Keyed
    BY DEF AccountsInv
  <1>2. PICK e \in Exchanges, id \in Accounts \cup {None} :
          command = [step |-> "check", e |-> e, id |-> id]
    BY <1>1 DEF AccountsTypeOK, CheckPasses
  <1>3. /\ apis' = IF id = None THEN apis ELSE [apis EXCEPT ![registry[e][id]].active = TRUE]
        /\ monitor' = [monitor EXCEPT ![e][id] = GetApi(registry, apis', e, id)]
        /\ command' = IF id = None THEN Idle ELSE [step |-> "save", e |-> e, id |-> id]
        /\ UNCHANGED <<registry, default, entries, accountOf, files, configs, process, queue,
                       commands, torn, twice>>
    BY <1>2 DEF CheckPasses, SetStatus, Polls, disk, history
  <1>4. id # None => registry[e][id] \in 1 .. Len(apis)
    <2>1. id # None => id \in Accounts /\ registry[e][id] # None
      BY <1>1, <1>2 DEF Agreed, CommandsOrder, At
    <2>2. QED
      BY <1>1, <2>1 DEF AccountsTypeOK, Names, Pointer
  <1>5. apis' \in Seq(Object) /\ ObjectsKept /\ (id # None => apis'[registry[e][id]].active = TRUE)
    <2>1. CASE id = None
      BY <1>1, <1>3, <2>1 DEF AccountsTypeOK, ObjectsKept
    <2>2. CASE id # None
      BY <1>1, <1>3, <1>4, <2>2, ObjectMarked DEF AccountsTypeOK
    <2>3. QED
      BY <2>1, <2>2
  <1>6. \A p \in Pointer : p \in Pointer'
    BY <1>1, <1>5, PointersKept
  <1>7. GetApi(registry, apis', e, id) \in Pointer
    BY <1>1, ApiFound DEF AccountsTypeOK, Polled, Names
  <1>8. command' \in [step: Steps, e: Exchanges \cup {None}, id: Accounts \cup {None}]
        /\ (id = None => command'.step = "idle")
        /\ (id # None => command'.step = "save" /\ command'.e = e /\ command'.id = id)
    BY <1>3 DEF Idle, Steps
  <1>9. AccountsTypeOK'
    <2>1. monitor' \in [Exchanges -> [Polled -> Pointer']]
      BY <1>1, <1>3, <1>6, <1>7, NameSet DEF AccountsTypeOK, Polled, Names
    <2>2. registry' \in [Exchanges -> [Names -> Pointer']] /\ default' \in [Exchanges -> Pointer']
      BY <1>1, <1>3, <1>6 DEF AccountsTypeOK
    <2>3. QED
      BY <1>1, <1>3, <1>5, <1>8, <2>1, <2>2 DEF AccountsTypeOK
  <1>10. \A f \in Exchanges, a \in Accounts :
           monitor'[f][a] = IF f = e /\ a = id THEN registry[e][id] ELSE monitor[f][a]
    <2>1. id # None => GetApi(registry, apis', e, id) = registry[e][id]
      BY <1>4, <1>5, NoneIs DEF GetApi
    <2>2. QED
      BY <1>1, <1>3, <2>1, NoneIs DEF AccountsTypeOK, Polled, Names
  <1>11. Agreed'
    <2>1. command.step = "check" /\ command.e = e /\ command.id = id
      BY <1>2
    <2>2. CommandsOrder' /\ FileOrSaving'
      BY <1>1, <1>3, <1>8, <2>1, NoneIs DEF Agreed, CommandsOrder, FileOrSaving, At
    <2>3. MonitoredOrChecking'
      <3>1. registry' = registry
        BY <1>3
      <3>2. \A f \in Exchanges, a \in Accounts : registry[f][a] # None =>
              monitor[f][a] = registry[f][a] \/ (f = e /\ a = id)
        BY <1>1, <2>1 DEF Agreed, MonitoredOrChecking, At
      <3>3. QED
        BY <1>10, <3>1, <3>2 DEF MonitoredOrChecking
    <2>4. FileOrDeleting'
      BY <1>1, <1>3, <2>1 DEF Agreed, FileOrDeleting
    <2>5. QED
      BY <2>2, <2>3, <2>4 DEF Agreed
  <1>12. Keyed'
    BY <1>1, <1>3, <1>5, KeyedKept DEF Lessened
  <1>13. QED
    BY <1>9, <1>11, <1>12 DEF AccountsInv

LEMMA CheckFailsStep ==
  ASSUME AccountsInv, CheckFails
  PROVE  AccountsInv'
  <1>1. AccountsTypeOK /\ Agreed /\ Keyed
    BY DEF AccountsInv
  <1>2. PICK e \in Exchanges, id \in Accounts \cup {None} :
          command = [step |-> "check", e |-> e, id |-> id]
    BY <1>1 DEF AccountsTypeOK, CheckFails
  <1>3. /\ apis' = IF id = None THEN apis ELSE [apis EXCEPT ![registry[e][id]].active = FALSE]
        /\ registry' = IF id = None THEN registry ELSE [registry EXCEPT ![e][id] = None]
        /\ command' = Idle
        /\ UNCHANGED <<default, monitor, entries, accountOf, files, configs, process, queue,
                       commands, torn, twice>>
    BY <1>2 DEF CheckFails, SetStatus, Unregister, disk, history
  <1>4. id # None => registry[e][id] \in 1 .. Len(apis)
    <2>1. id # None => id \in Accounts /\ registry[e][id] # None
      BY <1>1, <1>2 DEF Agreed, CommandsOrder, At
    <2>2. QED
      BY <1>1, <2>1 DEF AccountsTypeOK, Names, Pointer
  <1>5. apis' \in Seq(Object) /\ ObjectsKept
    <2>1. CASE id = None
      BY <1>1, <1>3, <2>1 DEF AccountsTypeOK, ObjectsKept
    <2>2. CASE id # None
      BY <1>1, <1>3, <1>4, <2>2, ObjectMarked DEF AccountsTypeOK
    <2>3. QED
      BY <2>1, <2>2
  <1>6. \A p \in Pointer : p \in Pointer'
    BY <1>1, <1>5, PointersKept
  <1>7. command' \in [step: Steps, e: Exchanges \cup {None}, id: Accounts \cup {None}]
        /\ command'.step = "idle"
    BY <1>3 DEF Idle, Steps
  <1>8. AccountsTypeOK'
    <2>1. /\ registry' \in [Exchanges -> [Names -> Pointer']] /\ default' \in [Exchanges -> Pointer']
          /\ monitor' \in [Exchanges -> [Polled -> Pointer']]
      <3>1. None \in Pointer'
        BY DEF Pointer
      <3>2. registry' \in [Exchanges -> [Names -> Pointer']]
        BY <1>1, <1>3, <1>6, <3>1, NameSet, MapWidened DEF AccountsTypeOK, Names
      <3>3. QED
        BY <1>1, <1>3, <1>6, <3>2 DEF AccountsTypeOK
    <2>2. QED
      BY <1>1, <1>3, <1>5, <1>7, <2>1 DEF AccountsTypeOK
  <1>9. \A f \in Exchanges, n \in Names :
          registry'[f][n] = IF f = e /\ n = id THEN None ELSE registry[f][n]
    BY <1>1, <1>3, NoneIs DEF AccountsTypeOK
  <1>10. Agreed'
    <2>1. command.step = "check" /\ command.e = e /\ command.id = id
      BY <1>2
    <2>2. QED
      BY <1>1, <1>3, <1>7, <1>9, <2>1
      DEF Agreed, CommandsOrder, FileOrSaving, MonitoredOrChecking, FileOrDeleting, At, Names
  <1>11. Keyed'
    BY <1>1, <1>3, <1>5, <1>9, KeyedKept DEF Lessened
  <1>12. QED
    BY <1>8, <1>10, <1>11 DEF AccountsInv

LEMMA SaveStep ==
  ASSUME AccountsInv, SaveAccount
  PROVE  AccountsInv'
  <1>1. AccountsTypeOK /\ Agreed /\ Keyed
    BY DEF AccountsInv
  <1>2. PICK e \in Exchanges, id \in Accounts :
          command = [step |-> "save", e |-> e, id |-> id]
    BY <1>1 DEF AccountsTypeOK, SaveAccount
  <1>3. /\ files' = files \cup {<<e, id>>} /\ command' = Idle
        /\ UNCHANGED <<registry, default, apis, monitor, entries, accountOf, configs, process,
                       queue, commands, torn, twice>>
    BY <1>2 DEF SaveAccount, memory, history
  <1>4. command' \in [step: Steps, e: Exchanges \cup {None}, id: Accounts \cup {None}]
        /\ command'.step = "idle"
    BY <1>3 DEF Idle, Steps
  <1>5. IsFiniteSet(files')
    BY <1>1, <1>3, FS_AddElement DEF AccountsTypeOK
  <1>6. AccountsTypeOK'
    BY <1>1, <1>3, <1>4, <1>5 DEF AccountsTypeOK, Pointer
  <1>7. Agreed'
    <2>1. command.step = "save" /\ command.e = e /\ command.id = id
      BY <1>2
    <2>2. QED
      BY <1>1, <1>3, <1>4, <2>1
      DEF Agreed, CommandsOrder, FileOrSaving, MonitoredOrChecking, FileOrDeleting, At
  <1>8. ObjectsKept
    BY <1>3 DEF ObjectsKept
  <1>9. Keyed'
    BY <1>1, <1>3, <1>8, KeyedKept DEF Lessened
  <1>10. QED
    BY <1>6, <1>7, <1>9 DEF AccountsInv

-----------------------------------------------------------------------------
(* Unregistration of an account.                                           *)

LEMMA UnregisterStep ==
  ASSUME AccountsInv, NEW e \in Exchanges, NEW a \in Accounts, UnregisterAccount(e, a)
  PROVE  AccountsInv'
  <1>1. AccountsTypeOK /\ Agreed /\ Keyed
    BY DEF AccountsInv
  <1>2. /\ registry' = [registry EXCEPT ![e][a] = None]
        /\ UNCHANGED <<default, apis, monitor, entries, accountOf, files, configs, process, queue,
                       torn, twice>>
    BY DEF UnregisterAccount, Unregister, disk, history
  <1>3. /\ command' \in [step: Steps, e: Exchanges \cup {None}, id: Accounts \cup {None}]
        /\ command'.step \in {"stop", "unmonitor"} /\ command'.e = e /\ command'.id = a
    BY DEF UnregisterAccount, Steps
  <1>4. commands' \in 0 .. MaxCommands /\ command.step = "idle"
    BY <1>1, CommandCounted DEF UnregisterAccount, AccountsTypeOK
  <1>5. registry' \in [Exchanges -> [Names -> Pointer]]
    <2>1. None \in Pointer /\ a \in Names
      BY DEF Pointer, Names
    <2>2. QED
      BY <1>1, <1>2, <2>1, NameSet DEF AccountsTypeOK
  <1>6. AccountsTypeOK'
    BY <1>1, <1>2, <1>3, <1>4, <1>5, NoneIs DEF AccountsTypeOK, Pointer
  <1>7. \A f \in Exchanges, n \in Names :
          registry'[f][n] = IF f = e /\ n = a THEN None ELSE registry[f][n]
    BY <1>1, <1>2 DEF AccountsTypeOK
  <1>8. Agreed'
    <2>1. CommandsOrder'
      BY <1>3, <1>7 DEF CommandsOrder, At, Names
    <2>2. FileOrSaving' /\ MonitoredOrChecking'
      BY <1>1, <1>2, <1>4, <1>7 DEF Agreed, FileOrSaving, MonitoredOrChecking, At, Names
    <2>3. FileOrDeleting'
      BY <1>1, <1>2, <1>4 DEF Agreed, FileOrDeleting
    <2>4. QED
      BY <2>1, <2>2, <2>3 DEF Agreed
  <1>9. ObjectsKept
    BY <1>2 DEF ObjectsKept
  <1>10. Keyed'
    BY <1>1, <1>2, <1>7, <1>9, KeyedKept DEF Lessened
  <1>11. QED
    BY <1>6, <1>8, <1>10 DEF AccountsInv

(* The step that a command is at, and the one that comes next.             *)
LEMMA CommandAt ==
  ASSUME AccountsTypeOK, NEW step \in Steps \ {"idle", "check"}, command.step = step
  PROVE  \E e \in Exchanges, a \in Accounts : command = [step |-> step, e |-> e, id |-> a]
  BY DEF AccountsTypeOK

LEMMA CommandEnds ==
  ASSUME command' = Idle
  PROVE  /\ command' \in [step: Steps, e: Exchanges \cup {None}, id: Accounts \cup {None}]
         /\ command'.step = "idle"
  BY DEF Idle, Steps

LEMMA UnmonitorStep ==
  ASSUME AccountsInv, Unmonitor
  PROVE  AccountsInv'
  <1>1. AccountsTypeOK /\ Agreed /\ Keyed
    BY DEF AccountsInv
  <1>2. PICK e \in Exchanges, a \in Accounts : command = [step |-> "unmonitor", e |-> e, id |-> a]
    BY <1>1, CommandAt DEF Unmonitor, Steps
  <1>3. /\ monitor' = [monitor EXCEPT ![e][a] = None]
        /\ command' = [step |-> "stop", e |-> e, id |-> a]
        /\ UNCHANGED <<registry, default, apis, entries, accountOf, files, configs, process, queue,
                       commands, torn, twice>>
    BY <1>2 DEF Unmonitor, Forgets, disk, history
  <1>4. /\ command' \in [step: Steps, e: Exchanges \cup {None}, id: Accounts \cup {None}]
        /\ command'.step = "stop" /\ command'.e = e /\ command'.id = a
    BY <1>3 DEF Steps
  <1>5. monitor' \in [Exchanges -> [Polled -> Pointer]]
    <2>1. None \in Pointer /\ a \in Polled
      BY DEF Pointer, Polled, Names
    <2>2. QED
      BY <1>1, <1>3, <2>1, NameSet DEF AccountsTypeOK
  <1>6. AccountsTypeOK'
    BY <1>1, <1>3, <1>4, <1>5, NoneIs DEF AccountsTypeOK, Pointer
  <1>7. \A f \in Exchanges, b \in Accounts :
          monitor'[f][b] = IF f = e /\ b = a THEN None ELSE monitor[f][b]
    BY <1>1, <1>3 DEF AccountsTypeOK, Polled, Names
  <1>8. Agreed'
    <2>1. command.step = "unmonitor" /\ command.e = e /\ command.id = a
      BY <1>2
    <2>2. CommandsOrder'
      BY <1>1, <1>3, <1>4, <2>1 DEF Agreed, CommandsOrder, At
    <2>3. FileOrSaving'
      BY <1>1, <1>3, <2>1 DEF Agreed, FileOrSaving, At
    <2>4. MonitoredOrChecking'
      <3>1. registry[e][a] = None
        BY <1>1, <2>1 DEF Agreed, CommandsOrder, At
      <3>2. registry' = registry
        BY <1>3
      <3>3. QED
        BY <1>1, <1>7, <2>1, <3>1, <3>2 DEF Agreed, MonitoredOrChecking, At
    <2>5. FileOrDeleting'
      BY <1>1, <1>3, <2>1 DEF Agreed, FileOrDeleting
    <2>6. QED
      BY <2>2, <2>3, <2>4, <2>5 DEF Agreed
  <1>9. ObjectsKept
    BY <1>3 DEF ObjectsKept
  <1>10. Keyed'
    BY <1>1, <1>3, <1>9, KeyedKept DEF Lessened
  <1>11. QED
    BY <1>6, <1>8, <1>10 DEF AccountsInv

LEMMA Stopped ==
  ASSUME AccountsTypeOK, NEW a, StopByAccount(a)
  PROVE  /\ entries' \in [Strategies -> [a: Accounts \cup {None}, config: Config, pid: BOOLEAN]
                                          \cup {None}]
         /\ process' \in [Strategies -> [config: Config, registered: BOOLEAN] \cup {None}]
         /\ \A s \in Strategies : Lessened(s)
  BY DEF AccountsTypeOK, StopByAccount, Lessened

LEMMA StopStep ==
  ASSUME AccountsInv, StopStrategies
  PROVE  AccountsInv'
  <1>1. AccountsTypeOK /\ Agreed /\ Keyed
    BY DEF AccountsInv
  <1>2. PICK e \in Exchanges, a \in Accounts : command = [step |-> "stop", e |-> e, id |-> a]
    BY <1>1, CommandAt DEF StopStrategies, Steps
  <1>3. /\ StopByAccount(a)
        /\ command' = [step |-> "file", e |-> e, id |-> a]
        /\ UNCHANGED <<registry, default, apis, monitor, accountOf, files, configs, queue,
                       commands, torn, twice>>
    BY <1>2 DEF StopStrategies, disk, history
  <1>4. /\ command' \in [step: Steps, e: Exchanges \cup {None}, id: Accounts \cup {None}]
        /\ command'.step = "file" /\ command'.e = e /\ command'.id = a
    BY <1>3 DEF Steps
  <1>5. AccountsTypeOK'
    BY <1>1, <1>3, <1>4, NoneIs, Stopped DEF AccountsTypeOK, Pointer
  <1>6. Agreed'
    <2>1. command.step = "stop" /\ command.e = e /\ command.id = a
      BY <1>2
    <2>2. QED
      BY <1>1, <1>3, <1>4, <2>1
      DEF Agreed, CommandsOrder, FileOrSaving, MonitoredOrChecking, FileOrDeleting, At
  <1>7. ObjectsKept
    BY <1>3 DEF ObjectsKept
  <1>8. Keyed'
    BY <1>1, <1>3, <1>7, Stopped, KeyedKept
  <1>9. QED
    BY <1>5, <1>6, <1>8 DEF AccountsInv

LEMMA DeleteFileStep ==
  ASSUME AccountsInv, DeleteFile
  PROVE  AccountsInv'
  <1>1. AccountsTypeOK /\ Agreed /\ Keyed
    BY DEF AccountsInv
  <1>2. PICK e \in Exchanges, a \in Accounts : command = [step |-> "file", e |-> e, id |-> a]
    BY <1>1, CommandAt DEF DeleteFile, Steps
  <1>3. /\ files' = files \ {<<e, a>>}
        /\ command' = [step |-> "configs", e |-> e, id |-> a]
        /\ UNCHANGED <<registry, default, apis, monitor, entries, accountOf, configs, process,
                       queue, commands, torn, twice>>
    BY <1>2 DEF DeleteFile, memory, history
  <1>4. /\ command' \in [step: Steps, e: Exchanges \cup {None}, id: Accounts \cup {None}]
        /\ command'.step = "configs" /\ command'.e = e /\ command'.id = a
    BY <1>3 DEF Steps
  <1>5. IsFiniteSet(files')
    BY <1>1, <1>3, FS_RemoveElement DEF AccountsTypeOK
  <1>6. AccountsTypeOK'
    BY <1>1, <1>3, <1>4, <1>5, NoneIs DEF AccountsTypeOK, Pointer
  <1>7. Agreed'
    <2>1. command.step = "file" /\ command.e = e /\ command.id = a
      BY <1>2
    <2>2. CommandsOrder' /\ MonitoredOrChecking'
      BY <1>1, <1>3, <1>4, <2>1 DEF Agreed, CommandsOrder, MonitoredOrChecking, At
    <2>3. FileOrSaving'
      <3>1. registry[e][a] = None
        BY <1>1, <2>1 DEF Agreed, CommandsOrder, At
      <3>2. QED
        BY <1>1, <1>3, <2>1, <3>1 DEF Agreed, FileOrSaving, At
    <2>4. FileOrDeleting'
      BY <1>1, <1>3, <1>4, <2>1 DEF Agreed, FileOrDeleting
    <2>5. QED
      BY <2>2, <2>3, <2>4 DEF Agreed
  <1>8. ObjectsKept
    BY <1>3 DEF ObjectsKept
  <1>9. Keyed'
    BY <1>1, <1>3, <1>8, KeyedKept DEF Lessened
  <1>10. QED
    BY <1>6, <1>7, <1>9 DEF AccountsInv

LEMMA DeleteConfigsStep ==
  ASSUME AccountsInv, DeleteConfigs
  PROVE  AccountsInv'
  <1>1. AccountsTypeOK /\ Agreed /\ Keyed
    BY DEF AccountsInv
  <1>2. PICK e \in Exchanges, a \in Accounts : command = [step |-> "configs", e |-> e, id |-> a]
    BY <1>1, CommandAt DEF DeleteConfigs, Steps
  <1>3. /\ configs' = {c \in configs : c.a # a} /\ command' = Idle
        /\ UNCHANGED <<registry, default, apis, monitor, entries, accountOf, files, process,
                       queue, commands, torn, twice>>
    BY <1>2 DEF DeleteConfigs, memory, history
  <1>4. /\ command' \in [step: Steps, e: Exchanges \cup {None}, id: Accounts \cup {None}]
        /\ command'.step = "idle"
    BY <1>3, CommandEnds
  <1>5. AccountsTypeOK'
    BY <1>1, <1>3, <1>4 DEF AccountsTypeOK, Pointer
  <1>6. Agreed'
    <2>1. command.step = "configs" /\ command.e = e /\ command.id = a
      BY <1>2
    <2>2. CommandsOrder' /\ FileOrSaving' /\ MonitoredOrChecking'
      BY <1>1, <1>3, <1>4, <2>1 DEF Agreed, CommandsOrder, FileOrSaving, MonitoredOrChecking, At
    <2>3. FileOrDeleting'
      BY <1>1, <1>3, <2>1 DEF Agreed, FileOrDeleting
    <2>4. QED
      BY <2>2, <2>3 DEF Agreed
  <1>7. ObjectsKept
    BY <1>3 DEF ObjectsKept
  <1>8. Keyed'
    BY <1>1, <1>3, <1>7, KeyedKept DEF Lessened
  <1>9. QED
    BY <1>5, <1>6, <1>8 DEF AccountsInv

-----------------------------------------------------------------------------
(* The commands for strategies.                                            *)

LEMMA RequestIs ==
  ASSUME NEW c \in Config, NEW type \in {"register_account", "unregister_account"}
  PROVE  [type |-> type, config |-> c] \in Request
  BY DEF Request

LEMMA SentIs ==
  ASSUME AccountsTypeOK, NEW c \in Config, NEW type \in {"register_account", "unregister_account"},
         Sends(type, c)
  PROVE  /\ queue' \in [Request -> Nat]
         /\ \A r \in Request : queue'[r] > 0 => queue[r] > 0 \/ r.config = c
  <1>1. PICK q \in Request : q = [type |-> type, config |-> c]
    BY RequestIs
  <1>2. queue' = [queue EXCEPT ![q] = queue[q] + 1] /\ q.config = c
    BY <1>1 DEF Sends
  <1>3. QED
    BY <1>2 DEF AccountsTypeOK

LEMMA ReceivedIs ==
  ASSUME AccountsTypeOK, NEW c \in Config, NEW type \in {"register_account", "unregister_account"},
         Receives(type, c)
  PROVE  /\ queue' \in [Request -> Nat]
         /\ \A r \in Request : queue'[r] > 0 => queue[r] > 0
         /\ Trace(c)
  <1>1. PICK q \in Request : q = [type |-> type, config |-> c]
    BY RequestIs
  <1>2. queue' = [queue EXCEPT ![q] = queue[q] - 1] /\ q.config = c /\ queue[q] > 0
    BY <1>1 DEF Receives
  <1>3. QED
    BY <1>2 DEF AccountsTypeOK, Trace

LEMMA StartedIs ==
  ASSUME AccountsTypeOK, NEW c \in Config, Started(c)
  PROVE  /\ process' \in [Strategies -> [config: Config, registered: BOOLEAN] \cup {None}]
         /\ process'[c.s].config = c /\ ~process'[c.s].registered
         /\ \A s \in Strategies : s # c.s => process'[s] = process[s]
         /\ queue' \in [Request -> Nat]
         /\ \A r \in Request : queue'[r] > 0 => queue[r] > 0 \/ r.config = c
  <1>1. c.s \in Strategies
    BY DEF Config
  <1>2. PICK x : x = [config |-> c, registered |-> FALSE]
    OBVIOUS
  <1>3. x \in [config: Config, registered: BOOLEAN] /\ x.config = c /\ ~x.registered
    BY <1>2
  <1>4. process' = [process EXCEPT ![c.s] = x]
    BY <1>2 DEF Started
  <1>5. QED
    BY <1>1, <1>3, <1>4, SentIs DEF AccountsTypeOK, Started

LEMMA EntryMade ==
  ASSUME AccountsTypeOK, NEW s \in Strategies, NEW a \in Accounts \cup {None}, NEW c \in Config,
         NEW b \in BOOLEAN, entries' = [entries EXCEPT ![s] = [a |-> a, config |-> c, pid |-> b]]
  PROVE  entries' \in [Strategies -> [a: Accounts \cup {None}, config: Config, pid: BOOLEAN]
                                       \cup {None}]
  BY DEF AccountsTypeOK

LEMMA CreateStep ==
  ASSUME AccountsInv, NEW c \in Config, NEW autoStart \in BOOLEAN, CreateStrategy(c, autoStart)
  PROVE  AccountsInv'
  <1>1. AccountsTypeOK /\ Agreed /\ Keyed
    BY DEF AccountsInv
  <1>2. /\ configs' = configs \cup {c} /\ <<c.e, c.a>> \in files
        /\ twice' = IF Other(c) THEN twice \cup {c.s} ELSE twice
        /\ UNCHANGED <<registry, default, apis, monitor, accountOf, files, command, torn>>
    BY DEF CreateStrategy
  <1>3. c.s \in Strategies /\ c.a \in Accounts /\ c.e \in Exchanges
    BY DEF Config
  <1>4. entries' \in [Strategies -> [a: Accounts \cup {None}, config: Config, pid: BOOLEAN]
                                      \cup {None}]
    BY <1>1, <1>3, EntryMade DEF CreateStrategy
  <1>5. /\ process' \in [Strategies -> [config: Config, registered: BOOLEAN] \cup {None}]
        /\ process'[c.s] = process[c.s] \/ (process'[c.s].config = c /\ ~process'[c.s].registered)
        /\ \A s \in Strategies : s # c.s => process'[s] = process[s]
        /\ queue' \in [Request -> Nat]
        /\ \A r \in Request : queue'[r] > 0 => queue[r] > 0 \/ r.config = c
    <2>1. CASE autoStart
      BY <1>1, <2>1, StartedIs DEF CreateStrategy
    <2>2. CASE ~autoStart
      BY <1>1, <2>2 DEF CreateStrategy, AccountsTypeOK
    <2>3. QED
      BY <2>1, <2>2
  <1>6. commands' \in 0 .. MaxCommands
    BY <1>1, CommandCounted DEF CreateStrategy, AccountsTypeOK
  <1>7. AccountsTypeOK'
    BY <1>1, <1>2, <1>3, <1>4, <1>5, <1>6 DEF AccountsTypeOK, Pointer
  <1>8. Agreed'
    <2>1. CommandsOrder' /\ FileOrSaving' /\ MonitoredOrChecking'
      BY <1>1, <1>2 DEF Agreed, CommandsOrder, FileOrSaving, MonitoredOrChecking, At
    <2>2. FileOrDeleting'
      BY <1>1, <1>2, <1>3 DEF Agreed, FileOrDeleting
    <2>3. QED
      BY <2>1, <2>2 DEF Agreed
  <1>9. ObjectsKept
    BY <1>2 DEF ObjectsKept
  <1>10. OwnKeys'
    BY <1>1, <1>2 DEF Keyed, OwnKeys
  <1>11. ProcessOwn'
    BY <1>1, <1>5 DEF Keyed, ProcessOwn
  <1>12. Single'
    <2> SUFFICES ASSUME NEW d \in Config, NEW g \in Config, d.s = g.s, d.s \notin twice',
                        Trace(d)', Trace(g)'
                 PROVE  d = g
      BY DEF Single
    <2>1. d.s \in Strategies /\ g.s \in Strategies
      BY DEF Config
    <2>2. CASE d.s # c.s
      <3>1. Trace(d) /\ Trace(g)
        BY <1>2, <1>5, <2>1, <2>2 DEF Trace
      <3>2. QED
        BY <1>1, <1>2, <3>1 DEF Keyed, Single
    <2>3. CASE d.s = c.s
      <3>1. ~Other(c)
        BY <1>2, <2>3
      <3>2. d = c
        BY <1>2, <1>5, <2>3, <3>1 DEF Trace, Other
      <3>3. g = c
        BY <1>2, <1>5, <2>3, <3>1 DEF Trace, Other
      <3>4. QED
        BY <3>2, <3>3
    <2>4. QED
      BY <2>2, <2>3
  <1>13. OrdersOnConfiguredAccount'
    <2> SUFFICES ASSUME NEW s \in Strategies, process'[s] # None, s \notin twice'
                 PROVE  LET d == process'[s].config
                            p == registry'[d.e][s]
                        IN  process'[s].registered /\ p # None
                              => apis'[p].account = d.a /\ apis'[p].on = d.e
      BY DEF OrdersOnConfiguredAccount
    <2>1. s \notin twice /\ (process'[s] = process[s] \/ ~process'[s].registered)
      BY <1>2, <1>5
    <2>2. QED
      BY <1>1, <1>2, <1>9, <2>1, OrdersKept DEF Keyed
  <1>14. QED
    BY <1>7, <1>8, <1>10, <1>11, <1>12, <1>13 DEF AccountsInv, Keyed

LEMMA StartStep ==
  ASSUME AccountsInv, NEW s \in Strategies, StartStrategy(s)
  PROVE  AccountsInv'
  <1>1. AccountsTypeOK /\ Agreed /\ Keyed
    BY DEF AccountsInv
  <1>2. PICK c \in configs : c = entries[s].config
    BY DEF StartStrategy
  <1>3. c \in Config /\ c.s \in Strategies
    BY <1>1 DEF AccountsTypeOK, Config
  <1>4. /\ Started(c)
        /\ UNCHANGED <<registry, default, apis, monitor, accountOf, files, configs, command, torn,
                       twice>>
    BY <1>2 DEF StartStrategy, disk, history
  <1>5. entries' \in [Strategies -> [a: Accounts \cup {None}, config: Config, pid: BOOLEAN]
                                      \cup {None}]
    <2>1. PICK x \in [a: Accounts \cup {None}, config: Config, pid: BOOLEAN] : x = entries[s]
      BY <1>1 DEF AccountsTypeOK, StartStrategy
    <2>2. PICK y : y = [x EXCEPT !.pid = TRUE]
      OBVIOUS
    <2>3. y \in [a: Accounts \cup {None}, config: Config, pid: BOOLEAN]
      BY <2>2
    <2>4. entries' = [entries EXCEPT ![s] = y]
      BY <2>1, <2>2 DEF StartStrategy
    <2>5. QED
      BY <1>1, <2>3, <2>4 DEF AccountsTypeOK
  <1>6. commands' \in 0 .. MaxCommands
    BY <1>1, CommandCounted DEF StartStrategy, AccountsTypeOK
  <1>7. AccountsTypeOK'
    BY <1>1, <1>3, <1>4, <1>5, <1>6, StartedIs DEF AccountsTypeOK, Pointer
  <1>8. Agreed'
    BY <1>1, <1>4, AgreedKept
  <1>9. ObjectsKept
    BY <1>4 DEF ObjectsKept
  <1>10. OwnKeys'
    BY <1>1, <1>4 DEF Keyed, OwnKeys
  <1>11. /\ process'[c.s].config = c /\ ~process'[c.s].registered
         /\ \A t \in Strategies : t # c.s => process'[t] = process[t]
         /\ \A r \in Request : queue'[r] > 0 => queue[r] > 0 \/ r.config = c
    BY <1>1, <1>3, <1>4, StartedIs
  <1>12. ProcessOwn'
    BY <1>1, <1>11 DEF Keyed, ProcessOwn
  <1>13. Single'
    <2>1. \A d \in Config : Trace(d)' => Trace(d)
      BY <1>2, <1>4, <1>11 DEF Trace, Config
    <2>2. QED
      BY <1>1, <1>4, <2>1, SingleKept DEF Keyed
  <1>14. OrdersOnConfiguredAccount'
    <2> SUFFICES ASSUME NEW t \in Strategies, process'[t] # None, t \notin twice'
                 PROVE  LET d == process'[t].config
                            p == registry'[d.e][t]
                        IN  process'[t].registered /\ p # None
                              => apis'[p].account = d.a /\ apis'[p].on = d.e
      BY DEF OrdersOnConfiguredAccount
    <2>1. t \notin twice /\ (process'[t] = process[t] \/ ~process'[t].registered)
      BY <1>4, <1>11
    <2>2. QED
      BY <1>1, <1>4, <1>9, <2>1, OrdersKept DEF Keyed
  <1>15. QED
    BY <1>7, <1>8, <1>10, <1>12, <1>13, <1>14 DEF AccountsInv, Keyed

LEMMA DeleteStep ==
  ASSUME AccountsInv, NEW s \in Strategies, DeleteStrategy(s)
  PROVE  AccountsInv'
  <1>1. AccountsTypeOK /\ Agreed /\ Keyed
    BY DEF AccountsInv
  <1>2. UNCHANGED <<registry, default, apis, monitor, accountOf, files, queue, command, torn, twice>>
    BY DEF DeleteStrategy, history
  <1>3. configs' \subseteq configs
    BY DEF DeleteStrategy
  <1>4. /\ process' \in [Strategies -> [config: Config, registered: BOOLEAN] \cup {None}]
        /\ \A t \in Strategies : Lessened(t)
    BY <1>1 DEF DeleteStrategy, AccountsTypeOK, Lessened
  <1>5. entries' \in [Strategies -> [a: Accounts \cup {None}, config: Config, pid: BOOLEAN]
                                      \cup {None}]
    BY <1>1 DEF DeleteStrategy, AccountsTypeOK
  <1>6. commands' \in 0 .. MaxCommands
    BY <1>1, CommandCounted DEF DeleteStrategy, AccountsTypeOK
  <1>7. AccountsTypeOK'
    BY <1>1, <1>2, <1>3, <1>4, <1>5, <1>6 DEF AccountsTypeOK, Pointer
  <1>8. Agreed'
    <2>1. CommandsOrder' /\ FileOrSaving' /\ MonitoredOrChecking'
      BY <1>1, <1>2 DEF Agreed, CommandsOrder, FileOrSaving, MonitoredOrChecking, At
    <2>2. FileOrDeleting'
      BY <1>1, <1>2, <1>3 DEF Agreed, FileOrDeleting
    <2>3. QED
      BY <2>1, <2>2 DEF Agreed
  <1>9. ObjectsKept
    BY <1>2 DEF ObjectsKept
  <1>10. Keyed'
    BY <1>1, <1>2, <1>3, <1>4, <1>9, KeyedKept
  <1>11. QED
    BY <1>7, <1>8, <1>10 DEF AccountsInv

LEMMA UnregistersStep ==
  ASSUME AccountsInv, NEW s \in Strategies, Unregisters(s)
  PROVE  AccountsInv'
  <1>1. AccountsTypeOK /\ Agreed /\ Keyed
    BY DEF AccountsInv
  <1>2. PICK c \in Config : c = process[s].config
    BY <1>1 DEF AccountsTypeOK, Unregisters
  <1>3. /\ Sends("unregister_account", c) /\ process' = [process EXCEPT ![s] = None]
        /\ UNCHANGED <<registry, default, apis, monitor, entries, accountOf, files, configs,
                       command, commands, torn, twice>>
    BY <1>2 DEF Unregisters, memory, disk, history
  <1>4. c.s = s /\ process[s] # None
    BY <1>1, <1>2 DEF Keyed, ProcessOwn, Unregisters
  <1>5. /\ queue' \in [Request -> Nat]
        /\ \A r \in Request : queue'[r] > 0 => queue[r] > 0 \/ r.config = c
    BY <1>1, <1>3, SentIs
  <1>6. AccountsTypeOK'
    BY <1>1, <1>3, <1>5 DEF AccountsTypeOK, Pointer
  <1>7. Agreed'
    BY <1>1, <1>3, AgreedKept
  <1>8. ObjectsKept
    BY <1>3 DEF ObjectsKept
  <1>9. \A t \in Strategies : process'[t] = process[t] \/ process'[t] = None
    BY <1>1, <1>3 DEF AccountsTypeOK
  <1>10. OwnKeys' /\ ProcessOwn'
    BY <1>1, <1>3, <1>9 DEF Keyed, OwnKeys, ProcessOwn
  <1>11. Single'
    <2>1. \A d \in Config : Trace(d)' => Trace(d)
      BY <1>2, <1>3, <1>4, <1>5, <1>9 DEF Trace, Config
    <2>2. QED
      BY <1>1, <1>3, <2>1, SingleKept DEF Keyed
  <1>12. OrdersOnConfiguredAccount'
    <2> SUFFICES ASSUME NEW t \in Strategies, process'[t] # None, t \notin twice'
                 PROVE  LET d == process'[t].config
                            p == registry'[d.e][t]
                        IN  process'[t].registered /\ p # None
                              => apis'[p].account = d.a /\ apis'[p].on = d.e
      BY DEF OrdersOnConfiguredAccount
    <2>1. t \notin twice /\ process'[t] = process[t]
      BY <1>3, <1>9
    <2>2. QED
      BY <1>1, <1>3, <1>8, <2>1, OrdersKept DEF Keyed
  <1>13. QED
    BY <1>6, <1>7, <1>10, <1>11, <1>12 DEF AccountsInv, Keyed

-----------------------------------------------------------------------------
(* The order thread.                                                       *)

LEMMA NamedIs ==
  ASSUME AccountsTypeOK, Single, NEW c \in Config, Trace(c), NEW account \in Named(c.s)
  PROVE  /\ account \in Accounts \cup {None}
         /\ c.s \notin twice => account \in {c.a, None}
  <1>1. CASE \E d \in configs : d.s = c.s
    <2>1. PICK d \in configs : d.s = c.s /\ account = d.a
      BY <1>1 DEF Named
    <2>2. d \in Config /\ Trace(d)
      BY DEF AccountsTypeOK, Trace
    <2>3. c.s \notin twice => d = c
      BY <2>1, <2>2 DEF Single
    <2>4. QED
      BY <2>1, <2>2, <2>3 DEF Config
  <1>2. CASE ~\E d \in configs : d.s = c.s
    BY <1>2 DEF Named
  <1>3. QED
    BY <1>1, <1>2

LEMMA TakenIs ==
  ASSUME AccountsTypeOK, OwnKeys, NEW c \in Config, NEW account \in Accounts \cup {None},
         Take(c, account)
  PROVE  /\ apis' \in Seq(Object) /\ ObjectsKept
         /\ \E p \in 1 .. Len(apis') :
              /\ registry' = [registry EXCEPT ![c.e][c.s] = p]
              /\ account \in {c.a, None} => apis'[p].account = c.a /\ apis'[p].on = c.e
  <1>1. c.e \in Exchanges /\ c.a \in Accounts
    BY DEF Config
  <1>2. CASE account # None /\ registry[c.e][account] # None
    <2>1. registry' = [registry EXCEPT ![c.e][c.s] = registry[c.e][account]] /\ apis' = apis
      BY <1>2 DEF Take, AddAlias
    <2>2. account \in Accounts
      BY <1>2
    <2>3. registry[c.e][account] \in 1 .. Len(apis)
      BY <1>1, <1>2, <2>2 DEF AccountsTypeOK, Names, Pointer
    <2>4. apis[registry[c.e][account]].account = account /\ apis[registry[c.e][account]].on = c.e
      BY <1>1, <1>2, <2>2 DEF OwnKeys
    <2>5. apis' \in Seq(Object) /\ ObjectsKept
      BY <2>1 DEF AccountsTypeOK, ObjectsKept
    <2>6. QED
      BY <1>2, <2>1, <2>3, <2>4, <2>5
  <1>3. CASE ~(account # None /\ registry[c.e][account] # None)
    <2>1. apis' = Append(apis, Api(c.e, c.a)) /\ registry' = [registry EXCEPT ![c.e][c.s] = New]
      BY <1>3 DEF Take, Register
    <2>2. Api(c.e, c.a) \in Object /\ Api(c.e, c.a).account = c.a /\ Api(c.e, c.a).on = c.e
      BY <1>1, ObjectIs
    <2>3. apis' \in Seq(Object) /\ ObjectsKept /\ New \in 1 .. Len(apis')
          /\ apis'[New] = Api(c.e, c.a)
      BY <2>1, <2>2, ObjectMade DEF AccountsTypeOK
    <2>4. QED
      BY <2>1, <2>2, <2>3
  <1>4. QED
    BY <1>2, <1>3

LEMMA RegisterAccountStep ==
  ASSUME AccountsInv, NEW c \in Config, ProcessRegisterAccount(c)
  PROVE  AccountsInv'
  <1> DEFINE s == c.s
  <1>1. AccountsTypeOK /\ Agreed /\ Keyed
    BY DEF AccountsInv
  <1>2. s \in Strategies /\ c.e \in Exchanges /\ c.a \in Accounts
    BY DEF Config
  <1>3. /\ queue' \in [Request -> Nat]
        /\ \A r \in Request : queue'[r] > 0 => queue[r] > 0
        /\ Trace(c)
    BY <1>1, ReceivedIs DEF ProcessRegisterAccount
  <1>4. PICK account \in Named(s) :
          /\ Take(c, account) /\ Watch(c, account)
          /\ accountOf' = IF account = None THEN accountOf ELSE [accountOf EXCEPT ![s] = account]
    BY DEF ProcessRegisterAccount
  <1>5. account \in Accounts \cup {None} /\ (s \notin twice => account \in {c.a, None})
    BY <1>1, <1>3, NamedIs DEF Keyed
  <1>6. apis' \in Seq(Object) /\ ObjectsKept
    BY <1>1, <1>4, <1>5, TakenIs DEF Keyed
  <1>7. PICK p \in 1 .. Len(apis') :
          /\ registry' = [registry EXCEPT ![c.e][s] = p]
          /\ s \notin twice => apis'[p].account = c.a /\ apis'[p].on = c.e
    BY <1>1, <1>4, <1>5, TakenIs DEF Keyed
  <1>8. UNCHANGED <<default, files, configs, command, commands, torn, twice>>
    BY DEF ProcessRegisterAccount, disk, history
  <1>9. process' = IF process[s] # None /\ process[s].config = c
                   THEN [process EXCEPT ![s].registered = TRUE] ELSE process
    BY DEF ProcessRegisterAccount
  <1>10. /\ process' \in [Strategies -> [config: Config, registered: BOOLEAN] \cup {None}]
         /\ \A t \in Strategies :
              \/ process'[t] = process[t]
              \/ t = s /\ process[s] # None /\ process[s].config = c /\ process'[s].config = c
    <2>1. CASE process[s] # None /\ process[s].config = c
      <3>1. PICK x \in [config: Config, registered: BOOLEAN] : x = process[s]
        BY <1>1, <1>2, <2>1 DEF AccountsTypeOK
      <3>2. PICK y : y = [x EXCEPT !.registered = TRUE]
        OBVIOUS
      <3>3. y \in [config: Config, registered: BOOLEAN] /\ y.config = c
        BY <2>1, <3>1, <3>2
      <3>4. process' = [process EXCEPT ![s] = y]
        BY <1>9, <2>1, <3>1, <3>2
      <3>5. QED
        BY <1>1, <1>2, <2>1, <3>3, <3>4 DEF AccountsTypeOK
    <2>2. CASE ~(process[s] # None /\ process[s].config = c)
      BY <1>1, <1>9, <2>2 DEF AccountsTypeOK
    <2>3. QED
      BY <2>1, <2>2
  <1>11. accountOf' \in [Strategies -> Accounts \cup {None}]
    BY <1>1, <1>4, <1>5 DEF AccountsTypeOK
  <1>12. entries' \in [Strategies -> [a: Accounts \cup {None}, config: Config, pid: BOOLEAN]
                                       \cup {None}]
    <2>1. entries' = [entries EXCEPT ![s] = [a |-> accountOf'[s], config |-> c, pid |-> TRUE]]
      BY DEF ProcessRegisterAccount
    <2>2. QED
      BY <1>1, <1>2, <1>11, <2>1, EntryMade
  <1>13. \A q \in Pointer : q \in Pointer'
    BY <1>1, <1>6, PointersKept
  <1>14. s \in Names /\ s \notin Accounts
    BY <1>2, NoneIs DEF Names
  <1>15. registry' \in [Exchanges -> [Names -> Pointer']]
    <2>1. p \in Pointer'
      BY DEF Pointer
    <2>2. QED
      BY <1>1, <1>2, <1>7, <1>13, <1>14, <2>1, NameSet DEF AccountsTypeOK
  <1>16. default' \in [Exchanges -> Pointer']
    BY <1>1, <1>8, <1>13 DEF AccountsTypeOK
  <1>17. PICK q \in Pointer' : \/ monitor' = monitor
                              \/ monitor' = [monitor EXCEPT ![c.e][s] = q]
    <2>1. GetApi(registry', apis', c.e, s) \in Pointer'
      BY <1>1, <1>2, <1>13, <1>14, <1>15 DEF GetApi, AccountsTypeOK
    <2>2. QED
      BY <1>4, <2>1 DEF Watch, Polls
  <1>18. monitor' \in [Exchanges -> [Polled -> Pointer']]
    <2>1. monitor \in [Exchanges -> [Polled -> Pointer]] /\ s \in Polled
      BY <1>1, <1>14 DEF AccountsTypeOK, Polled
    <2>2. QED
      BY <1>2, <1>13, <1>17, <2>1, NameSetOrKept
  <1>19. AccountsTypeOK'
    BY <1>1, <1>3, <1>6, <1>8, <1>10, <1>11, <1>12, <1>15, <1>16, <1>18 DEF AccountsTypeOK
  <1>20. \A e \in Exchanges, n \in Names :
           registry'[e][n] = IF e = c.e /\ n = s THEN p ELSE registry[e][n]
    BY <1>1, <1>7 DEF AccountsTypeOK
  <1>21. \A e \in Exchanges, a \in Accounts : monitor'[e][a] = monitor[e][a]
    BY <1>1, <1>14, <1>17 DEF AccountsTypeOK, Polled, Names
  <1>22. Agreed'
    BY <1>1, <1>8, <1>14, <1>20, <1>21, AgreedKept DEF Names
  <1>23. OwnKeys'
    BY <1>1, <1>6, <1>14, <1>20, KeysKept DEF Keyed, Names
  <1>24. ProcessOwn'
    BY <1>1, <1>10 DEF Keyed, ProcessOwn
  <1>25. Single'
    <2>1. \A d \in Config : Trace(d)' => Trace(d)
      BY <1>3, <1>8, <1>10 DEF Trace, Config
    <2>2. QED
      BY <1>1, <1>8, <2>1, SingleKept DEF Keyed
  <1>26. OrdersOnConfiguredAccount'
    <2> SUFFICES ASSUME NEW t \in Strategies, process'[t] # None, t \notin twice'
                 PROVE  LET d == process'[t].config
                            k == registry'[d.e][t]
                        IN  process'[t].registered /\ k # None
                              => apis'[k].account = d.a /\ apis'[k].on = d.e
      BY DEF OrdersOnConfiguredAccount
    <2>1. t \notin twice
      BY <1>8
    <2>2. CASE t = s
      <3>1. process'[s].config = c
        <4>1. PICK d \in Config : d = process'[s].config
          BY <1>2, <1>10, <2>2
        <4>2. Trace(d)' /\ d.s = s
          BY <1>2, <1>24, <2>2, <4>1 DEF Trace, ProcessOwn
        <4>3. Trace(d)
          BY <1>3, <1>8, <1>10, <4>2, <1>2 DEF Trace
        <4>4. QED
          BY <1>1, <1>3, <2>1, <2>2, <4>1, <4>2, <4>3 DEF Keyed, Single
      <3>2. registry'[c.e][s] = p
        BY <1>2, <1>14, <1>20
      <3>3. QED
        BY <1>7, <2>1, <2>2, <3>1, <3>2
    <2>3. CASE t # s
      <3>1. process'[t] = process[t]
        BY <1>10, <2>3
      <3>2. \A e \in Exchanges : registry'[e][t] = registry[e][t]
        BY <1>20, <2>3 DEF Names
      <3>3. QED
        BY <1>1, <1>6, <2>1, <3>1, <3>2, OrdersKept DEF Keyed
    <2>4. QED
      BY <2>2, <2>3
  <1>27. QED
    BY <1>19, <1>22, <1>23, <1>24, <1>25, <1>26 DEF AccountsInv, Keyed

LEMMA UnregisterAccountStep ==
  ASSUME AccountsInv, NEW c \in Config, ProcessUnregisterAccount(c)
  PROVE  AccountsInv'
  <1> DEFINE s == c.s
  <1>1. AccountsTypeOK /\ Agreed /\ Keyed
    BY DEF AccountsInv
  <1>2. s \in Strategies /\ s \in Names /\ s \notin Accounts /\ c.e \in Exchanges
    BY NoneIs DEF Config, Names
  <1>3. /\ queue' \in [Request -> Nat]
        /\ \A r \in Request : queue'[r] > 0 => queue[r] > 0
    BY <1>1, ReceivedIs DEF ProcessUnregisterAccount
  <1>4. /\ UNCHANGED <<default, apis, accountOf, files, configs, command, commands, torn, twice>>
        /\ \/ registry' = registry
           \/ registry' = [registry EXCEPT ![c.e][s] = None]
        /\ \/ monitor' = monitor
           \/ monitor' = [monitor EXCEPT ![c.e][s] = None]
    BY DEF ProcessUnregisterAccount, Unregister, Forgets, disk, history
  <1>5. /\ entries' \in [Strategies -> [a: Accounts \cup {None}, config: Config, pid: BOOLEAN]
                                         \cup {None}]
        /\ process' \in [Strategies -> [config: Config, registered: BOOLEAN] \cup {None}]
        /\ \A t \in Strategies : Lessened(t)
    <2>1. CASE UNCHANGED <<entries, process>>
      BY <1>1, <2>1 DEF AccountsTypeOK, Lessened
    <2>2. CASE StopByAccount(entries[s].a)
      BY <1>1, <2>2, Stopped
    <2>3. QED
      BY <2>1, <2>2 DEF ProcessUnregisterAccount
  <1>6. None \in Pointer /\ s \in Polled /\ registry \in [Exchanges -> [Names -> Pointer]]
        /\ monitor \in [Exchanges -> [Polled -> Pointer]]
    BY <1>1, <1>2 DEF Pointer, Polled, AccountsTypeOK
  <1>7. registry' \in [Exchanges -> [Names -> Pointer]]
        /\ \A e \in Exchanges, n \in Names : /\ n # s => registry'[e][n] = registry[e][n]
                                            /\ registry'[e][n] \in {registry[e][n], None}
    <2>1. CASE registry' = registry
      BY <1>6, <2>1
    <2>2. CASE registry' = [registry EXCEPT ![c.e][s] = None]
      <3>1. [registry EXCEPT ![c.e][s] = None] \in [Exchanges -> [Names -> Pointer]]
        BY <1>2, <1>6, NameSet
      <3>2. \A e \in Exchanges, n \in Names :
              registry'[e][n] = IF e = c.e /\ n = s THEN None ELSE registry[e][n]
        BY <1>6, <2>2
      <3>3. QED
        BY <2>2, <3>1, <3>2
    <2>3. QED
      BY <1>4, <2>1, <2>2
  <1>8. monitor' \in [Exchanges -> [Polled -> Pointer]]
        /\ \A e \in Exchanges, n \in Polled : n # s => monitor'[e][n] = monitor[e][n]
    <2>1. CASE monitor' = monitor
      BY <1>6, <2>1
    <2>2. CASE monitor' = [monitor EXCEPT ![c.e][s] = None]
      <3>1. [monitor EXCEPT ![c.e][s] = None] \in [Exchanges -> [Polled -> Pointer]]
        BY <1>2, <1>6, NameSet
      <3>2. \A e \in Exchanges, n \in Polled :
              monitor'[e][n] = IF e = c.e /\ n = s THEN None ELSE monitor[e][n]
        BY <1>6, <2>2
      <3>3. QED
        BY <2>2, <3>1, <3>2
    <2>3. QED
      BY <1>4, <2>1, <2>2
  <1>9. AccountsTypeOK'
    BY <1>1, <1>3, <1>4, <1>5, <1>7, <1>8 DEF AccountsTypeOK, Pointer
  <1>10. \A e \in Exchanges, n \in Names :
           /\ registry'[e][n] \in {registry[e][n], None}
           /\ n # s => registry'[e][n] = registry[e][n] /\ monitor'[e][n] = monitor[e][n]
    BY <1>7, <1>8 DEF Polled
  <1>11. Agreed'
    BY <1>1, <1>2, <1>4, <1>10, AgreedKept DEF Names
  <1>12. ObjectsKept
    BY <1>4 DEF ObjectsKept
  <1>13. Keyed'
    BY <1>1, <1>3, <1>4, <1>5, <1>10, <1>12, KeyedKept
  <1>14. QED
    BY <1>9, <1>11, <1>13 DEF AccountsInv

-----------------------------------------------------------------------------
(* A restart of the server.                                                *)

LEMMA SequenceOfSet ==
  ASSUME NEW S, IsFiniteSet(S)
  PROVE  /\ SetToSeq(S) \in [1 .. Cardinality(S) -> S] /\ Cardinality(S) \in Nat
         /\ \A x \in S : \E p \in 1 .. Cardinality(S) : SetToSeq(S)[p] = x
  <1> DEFINE n == Cardinality(S)
             f == SetToSeq(S)
  <1>1. n \in Nat /\ ExistsBijection(1 .. n, S)
    BY FS_CardinalityType
  <1>2. \E g \in [1 .. n -> S] : IsInjective(g)
    BY <1>1 DEF ExistsBijection, Bijection, Injection
  <1>3. f \in [1 .. n -> S] /\ IsInjective(f)
    BY <1>2 DEF SetToSeq
  <1>4. f \in Injection(1 .. n, S)
    BY <1>3 DEF Injection
  <1>5. Cardinality(1 .. n) = n
    BY <1>1, FS_Interval
  <1>6. f \in Surjection(1 .. n, S)
    BY <1>1, <1>4, <1>5, FS_Injection
  <1>7. QED
    BY <1>1, <1>3, <1>6 DEF Surjection

LEMMA SavedIs ==
  ASSUME AccountsTypeOK
  PROVE  /\ DOMAIN Saved = 1 .. Cardinality(files) /\ Cardinality(files) \in Nat
         /\ \A p \in DOMAIN Saved : Saved[p] \in files
         /\ \A x \in files : \E p \in DOMAIN Saved : Saved[p] = x
  <1>1. IsFiniteSet(files)
    BY DEF AccountsTypeOK
  <1>2. QED
    BY <1>1, SequenceOfSet DEF Saved

LEMMA FromFilesIs ==
  ASSUME AccountsTypeOK, NEW I
  PROVE  /\ FromFiles(I) \in [Exchanges -> [I -> DOMAIN Saved \cup {None}]]
         /\ \A e \in Exchanges, n \in I :
              /\ <<e, n>> \in files => /\ FromFiles(I)[e][n] \in DOMAIN Saved
                                       /\ Saved[FromFiles(I)[e][n]] = <<e, n>>
              /\ <<e, n>> \notin files => FromFiles(I)[e][n] = None
  <1> DEFINE P(e, n) == CHOOSE p \in DOMAIN Saved : Saved[p] = <<e, n>>
  <1>1. FromFiles(I) = [e \in Exchanges |-> [n \in I |->
                          IF <<e, n>> \in files THEN P(e, n) ELSE None]]
    BY DEF FromFiles
  <1>2. \A e, n : <<e, n>> \in files => P(e, n) \in DOMAIN Saved /\ Saved[P(e, n)] = <<e, n>>
    BY SavedIs
  <1> HIDE DEF P
  <1>3. QED
    BY <1>1, <1>2

LEMMA RestartStep ==
  ASSUME AccountsInv, Restart
  PROVE  AccountsInv'
  <1> DEFINE n == Cardinality(files)
  <1>1. AccountsTypeOK /\ Agreed /\ Keyed
    BY DEF AccountsInv
  <1>2. /\ apis' = [p \in 1 .. n |-> Api(Saved[p][1], Saved[p][2])]
        /\ registry' = FromFiles(Names) /\ monitor' = FromFiles(Polled)
        /\ default' = [e \in Exchanges |-> None] /\ accountOf' = [s \in Strategies |-> None]
        /\ UNCHANGED <<files, configs, twice>> /\ command' = Idle
        /\ torn' = IF command.step = "configs" THEN torn \cup {command.id} ELSE torn
    BY <1>1, SavedIs DEF Restart, disk
  <1>3. n \in Nat /\ \A p \in 1 .. n : /\ Saved[p] \in files /\ Saved[p] = <<Saved[p][1], Saved[p][2]>>
                                       /\ Saved[p][1] \in Exchanges /\ Saved[p][2] \in Accounts
    BY <1>1, SavedIs DEF AccountsTypeOK
  <1>4. /\ apis' \in Seq(Object) /\ Len(apis') = n
        /\ \A p \in 1 .. n : apis'[p].on = Saved[p][1] /\ apis'[p].account = Saved[p][2]
    <2>1. \A p \in 1 .. n : apis'[p] \in Object
      BY <1>2, <1>3, ObjectIs
    <2>2. apis' \in [1 .. n -> Object]
      BY <1>2, <2>1
    <2>3. apis' \in Seq(Object) /\ Len(apis') = n
      BY <1>3, <2>2, SeqDef, LenProperties
    <2>4. QED
      BY <1>2, <1>3, <2>3, ObjectIs
  <1>5. Pointer' = DOMAIN Saved \cup {None} /\ DOMAIN Saved = 1 .. n
    BY <1>1, <1>4, SavedIs DEF Pointer
  <1>6. /\ registry' \in [Exchanges -> [Names -> Pointer']]
        /\ monitor' \in [Exchanges -> [Polled -> Pointer']]
    BY <1>1, <1>2, <1>5, FromFilesIs
  <1>7. /\ entries' \in [Strategies -> [a: Accounts \cup {None}, config: Config, pid: BOOLEAN]
                                         \cup {None}]
        /\ accountOf' \in [Strategies -> Accounts \cup {None}]
    <2>1. PICK pick \in [Strategies -> configs \cup {None}] :
            entries' = [s \in Strategies |->
                          IF pick[s] = None THEN None
                          ELSE [a |-> pick[s].a, config |-> pick[s], pid |-> FALSE]]
      BY DEF Restart
    <2>2. \A s \in Strategies : pick[s] # None => pick[s] \in Config /\ pick[s].a \in Accounts
      BY <1>1, <2>1 DEF AccountsTypeOK, Config
    <2>3. QED
      BY <1>2, <2>1, <2>2
  <1>8. /\ process' \in [Strategies -> [config: Config, registered: BOOLEAN] \cup {None}]
        /\ \A s \in Strategies : \/ process'[s] = None
                                 \/ /\ process[s] # None /\ process'[s].config = process[s].config
                                    /\ ~process'[s].registered
    <2>1. PICK alive \in SUBSET Strategies :
            process' = [s \in Strategies |->
                          IF s \in alive /\ process[s] # None
                          THEN [process[s] EXCEPT !.registered = FALSE] ELSE None]
      BY DEF Restart
    <2>2. ASSUME NEW s \in Strategies
          PROVE  /\ process'[s] \in [config: Config, registered: BOOLEAN] \cup {None}
                 /\ \/ process'[s] = None
                    \/ /\ process[s] # None /\ process'[s].config = process[s].config
                       /\ ~process'[s].registered
      <3>1. CASE s \in alive /\ process[s] # None
        <4>1. PICK x \in [config: Config, registered: BOOLEAN] : x = process[s]
          BY <1>1, <3>1 DEF AccountsTypeOK
        <4>2. PICK y : y = [x EXCEPT !.registered = FALSE]
          OBVIOUS
        <4>3. y \in [config: Config, registered: BOOLEAN] /\ y.config = x.config /\ ~y.registered
          BY <4>2
        <4>4. process'[s] = y
          BY <2>1, <3>1, <4>1, <4>2
        <4>5. QED
          BY <3>1, <4>1, <4>3, <4>4
      <3>2. CASE ~(s \in alive /\ process[s] # None)
        BY <2>1, <3>2
      <3>3. QED
        BY <3>1, <3>2
    <2>3. QED
      BY <2>1, <2>2
  <1>9. /\ queue' \in [Request -> Nat]
        /\ \A r \in Request : queue'[r] > 0 => queue[r] > 0
    BY <1>1 DEF Restart, AccountsTypeOK
  <1>10. /\ command' \in [step: Steps, e: Exchanges \cup {None}, id: Accounts \cup {None}]
         /\ command'.step = "idle"
    BY <1>2, CommandEnds
  <1>11. commands' \in 0 .. MaxCommands /\ torn' \subseteq Accounts
    BY <1>1, <1>2, AccountBounds DEF Restart, AccountsTypeOK
  <1>12. default' \in [Exchanges -> Pointer']
    BY <1>2, <1>5
  <1>13. AccountsTypeOK'
    BY <1>1, <1>2, <1>4, <1>6, <1>7, <1>8, <1>9, <1>10, <1>11, <1>12 DEF AccountsTypeOK
  <1>14. \A e \in Exchanges, a \in Accounts :
           /\ registry'[e][a] # None =>
                /\ <<e, a>> \in files /\ registry'[e][a] \in 1 .. n
                /\ Saved[registry'[e][a]] = <<e, a>>
           /\ monitor'[e][a] = registry'[e][a]
    <2> SUFFICES ASSUME NEW e \in Exchanges, NEW a \in Accounts
                 PROVE  /\ registry'[e][a] # None =>
                             /\ <<e, a>> \in files /\ registry'[e][a] \in 1 .. n
                             /\ Saved[registry'[e][a]] = <<e, a>>
                        /\ monitor'[e][a] = registry'[e][a]
      OBVIOUS
    <2>1. a \in Names /\ a \in Polled
      BY DEF Names, Polled
    <2>2. FromFiles(Names)[e][a] = FromFiles(Polled)[e][a]
      BY <2>1 DEF FromFiles
    <2>3. QED
      BY <1>1, <1>2, <1>5, <2>1, <2>2, FromFilesIs
  <1>15. Agreed'
    <2>1. CommandsOrder'
      BY <1>10 DEF CommandsOrder, At
    <2>2. FileOrSaving' /\ MonitoredOrChecking'
      BY <1>2, <1>14 DEF FileOrSaving, MonitoredOrChecking
    <2>3. FileOrDeleting'
      BY <1>1, <1>2 DEF Agreed, FileOrDeleting
    <2>4. QED
      BY <2>1, <2>2, <2>3 DEF Agreed
  <1>16. OwnKeys'
    <2> SUFFICES ASSUME NEW e \in Exchanges, NEW a \in Accounts, registry'[e][a] # None
                 PROVE  apis'[registry'[e][a]].account = a /\ apis'[registry'[e][a]].on = e
      BY DEF OwnKeys
    <2>1. PICK p \in 1 .. n : p = registry'[e][a] /\ Saved[p] = <<e, a>>
      BY <1>14
    <2>2. apis'[p].on = Saved[p][1] /\ apis'[p].account = Saved[p][2]
      BY <1>4
    <2>3. QED
      BY <2>1, <2>2
  <1>17. ProcessOwn'
    BY <1>1, <1>8 DEF Keyed, ProcessOwn
  <1>18. Single'
    <2>1. \A d \in Config : Trace(d)' => Trace(d)
      BY <1>2, <1>8, <1>9 DEF Trace, Config
    <2>2. QED
      BY <1>1, <1>2, <2>1, SingleKept DEF Keyed
  <1>19. OrdersOnConfiguredAccount'
    BY <1>8 DEF OrdersOnConfiguredAccount
  <1>20. QED
    BY <1>13, <1>15, <1>16, <1>17, <1>18, <1>19 DEF AccountsInv, Keyed

-----------------------------------------------------------------------------
(* The theorems.                                                           *)

LEMMA StepKeepsAccounts ==
  ASSUME AccountsInv, [AccountsNext]_accountVars
  PROVE  AccountsInv'
  <1>1. CASE UNCHANGED accountVars
    BY <1>1 DEF accountVars, memory, disk, history, AccountsInv, AccountsTypeOK, Pointer, Agreed,
                CommandsOrder, FileOrSaving, MonitoredOrChecking, FileOrDeleting, At, Keyed,
                OwnKeys, Single, Trace, ProcessOwn, OrdersOnConfiguredAccount
  <1>2. ASSUME NEW e \in Exchanges, NEW a \in Accounts, NEW id \in {a, None},
               RegisterAccount(e, a, id)
        PROVE  AccountsInv'
    BY <1>2, RegisterStep
  <1>3. CASE CheckPasses \/ CheckFails \/ SaveAccount
    BY <1>3, CheckPassesStep, CheckFailsStep, SaveStep
  <1>4. ASSUME NEW e \in Exchanges, NEW a \in Accounts, UnregisterAccount(e, a)
        PROVE  AccountsInv'
    BY <1>4, UnregisterStep
  <1>5. CASE Unmonitor \/ StopStrategies \/ DeleteFile \/ DeleteConfigs
    BY <1>5, UnmonitorStep, StopStep, DeleteFileStep, DeleteConfigsStep
  <1>6. ASSUME NEW c \in Config, NEW autoStart \in BOOLEAN, CreateStrategy(c, autoStart)
        PROVE  AccountsInv'
    BY <1>6, CreateStep
  <1>7. ASSUME NEW s \in Strategies, StartStrategy(s) \/ DeleteStrategy(s) \/ Unregisters(s)
        PROVE  AccountsInv'
    BY <1>7, StartStep, DeleteStep, UnregistersStep
  <1>8. ASSUME NEW c \in Config, ProcessRegisterAccount(c) \/ ProcessUnregisterAccount(c)
        PROVE  AccountsInv'
    BY <1>8, RegisterAccountStep, UnregisterAccountStep
  <1>9. CASE Restart
    BY <1>9, RestartStep
  <1>10. QED
    BY <1>1, <1>2, <1>3, <1>4, <1>5, <1>6, <1>7, <1>8, <1>9 DEF AccountsNext

LEMMA AccountsInvariant == AccountsSpec => []AccountsInv
  BY AccountsStart, StepKeepsAccounts, PTL DEF AccountsSpec

(* Whatever is commanded, sent and cut by crashes, the state is well typed: *)
(* no name maps to an object that does not exist.                          *)
THEOREM AccountsCorrect == AccountsSpec => []AccountsTypeOK
  <1>1. AccountsInv => AccountsTypeOK
    BY DEF AccountsInv
  <1>2. QED
    BY <1>1, AccountsInvariant, PTL

(* Between commands (handle_frontend_command) the registry, the monitor,   *)
(* the files and the configurations agree on what accounts there are,      *)
(* whatever was refused, replaced or cut.                                  *)
THEOREM AccountsConsistent == AccountsSpec => []AccountsAgree
  <1>1. AccountsInv => AccountsAgree
    BY DEF AccountsInv, Agreed, FileOrSaving, MonitoredOrChecking, FileOrDeleting, At, Quiet, Idle,
           AccountsAgree, RegisteredSurvivesRestart, RegisteredIsMonitored, ConfigsHaveAccount
  <1>2. QED
    BY <1>1, AccountsInvariant, PTL

(* A registered strategy has the keys of the account that its              *)
(* configuration names (process_register_account), in whatever order       *)
(* commands, registrations and crashes come.                               *)
THEOREM OrdersOnOwnAccount == AccountsSpec => []OrdersOnConfiguredAccount
  <1>1. AccountsInv => OrdersOnConfiguredAccount
    BY DEF AccountsInv, Keyed
  <1>2. QED
    BY <1>1, AccountsInvariant, PTL

-----------------------------------------------------------------------------
(* Candles.                                                                *)

(* A candle of the longer period.                                          *)
LongCandle == [t: Nat, src: Source]

Aggregation == [period: Nat \cup {NoPeriod}, src: Source, last: Minutes \cup {NoPeriod}]
Taking == [at: {"idle", "aggregate", "output"}, c: Candle \cup {[t |-> NoPeriod, text |-> Rest]},
           out: LongCandle \cup {NoBar}, how: {"none", "next", "count", "last"}]

FeedTyped ==
  /\ exchange \in {"okx", "binance"} /\ now \in 0 .. LastMinute + 1
  /\ wire \in Seq(Candle) /\ bus \in Seq(Candle) /\ recording \in Seq(Candle)

KeyTyped ==
  /\ key \in [Keys -> SUBSET (Candle \cup LongCandle)]
  /\ key["1m"] \subseteq Candle /\ key["up"] \subseteq LongCandle

RecorderTyped ==
  /\ agg \in Aggregation /\ met \subseteq Nat /\ taking \in Taking
  /\ taking.at = "aggregate" => taking.c \in Candle
  /\ taking.at = "output" => taking.out \in LongCandle

FillersTyped ==
  /\ filler \in {"idle", "dedupe 1m", "delete 1m", "insert 1m", "detect", "fill",
                 "dedupe up", "delete up", "insert up", "existing", "aggregate"}
  /\ fast \in {"idle", "scan", "fine", "fetch"}
  /\ filler = "idle" \/ fast = "idle"
  /\ filler \in {"delete 1m", "insert 1m"} => snapshot \subseteq Candle
  /\ filler \in {"delete up", "insert up"} => snapshot \subseteq LongCandle
  /\ gaps \subseteq Minutes \X Minutes /\ seen \in 0 .. LastMinute + 1
  /\ complete \in BOOLEAN /\ blocks \subseteq SUBSET Minutes /\ span \in Int \X Int

CandlesTyped == FeedTyped /\ KeyTyped /\ RecorderTyped /\ FillersTyped

-----------------------------------------------------------------------------
(* What is collected.                                                      *)

Sorted(s) == \A i \in DOMAIN s, j \in DOMAIN s : i <= j => s[i].t <= s[j].t

(* Candles come in the order of their minutes, down to the last one that   *)
(* was aggregated.                                                         *)
FeedOrdered ==
  /\ Sorted(wire) /\ Sorted(bus)
  /\ \A i \in DOMAIN wire : wire[i].t < now /\ agg.last <= wire[i].t
  /\ \A i \in DOMAIN bus : bus[i].t < now /\ agg.last <= bus[i].t
  /\ \A i \in DOMAIN bus, j \in DOMAIN wire : bus[i].t <= wire[j].t
  /\ agg.last < now
  /\ taking.at = "aggregate" =>
       /\ taking.c.t < now /\ agg.last <= taking.c.t
       /\ \A i \in DOMAIN wire : taking.c.t <= wire[i].t
       /\ \A i \in DOMAIN bus : taking.c.t <= bus[i].t

(* Minutes collected for a period are minutes of it, each counted once.    *)
Collected(a) ==
  IF a.period = NoPeriod THEN a.src = Nothing
  ELSE /\ a.src.minutes \subseteq MinutesOf(a.period)
       /\ a.src.n = Cardinality(a.src.minutes)
       /\ a.src.n \in 1 .. N - 1
       /\ \A t \in a.src.minutes : t <= a.last
       /\ a.last \in Minutes /\ a.period = Period(a.last)

(* No minute of a later period than that of the last one was aggregated.   *)
Reached == \A p \in met : agg.last # NoPeriod /\ p <= Period(agg.last)

-----------------------------------------------------------------------------
(* What is filled.                                                         *)

InGap(t) == \E g \in gaps : g[1] <= t /\ t <= g[2]
Hidden(t) == \E u \in doubled : u \div Hour = t \div Hour

(* The minutes survive the deduplication.                                  *)
MinutesKept ==
  /\ filler \notin {"idle", "insert 1m"} \/ fast # "idle" => Stored("1m") # {}
  /\ filler \in {"delete 1m", "insert 1m"} => snapshot # {}

(* What is missing is in a gap that is still to be filled, or is hidden    *)
(* from the fast filler.                                                   *)
MissingKnown ==
  /\ filler = "fill" /\ complete =>
       \A t \in Runs(0, seen - 1) : t \in Stored("1m") \/ InGap(t)
  /\ fast = "fine" =>
       \A t \in Runs(span[1], span[2]) : t \in Stored("1m") \cup UNION blocks \/ Hidden(t)
  /\ fast = "fetch" /\ complete =>
       \A t \in Runs(span[1], span[2]) : t \in Stored("1m") \/ InGap(t) \/ Hidden(t)

HolesInv == MinutesKept /\ MissingKnown /\ FilledWhenDone

CandlesInv == CandlesTyped /\ FeedOrdered /\ Collected(agg) /\ Reached /\ CollectedIsWhole /\ HolesInv

-----------------------------------------------------------------------------
LEMMA Division ==
  ASSUME NEW t \in Nat
  PROVE  /\ Period(t) \in Nat /\ Period(t) * N <= t /\ t < Period(t) * N + N
         /\ \A p \in Nat : p * N <= t /\ t < p * N + N => Period(t) = p
  BY PeriodAssumption, SMTT(60) DEF Period

(* Minutes between two periods.                                            *)
LEMMA PeriodsApart ==
  ASSUME NEW p \in Nat, NEW q \in Nat, p < q
  PROVE  p * N + N <= q * N
  BY PeriodAssumption, SMTT(60)

LEMMA InSpan ==
  ASSUME NEW p \in Nat, NEW q \in Nat, NEW u \in Nat
  PROVE  /\ p * N <= u => p <= Period(u)
         /\ u <= q * N - 1 => Period(u) < q
  <1>1. Period(u) \in Nat /\ Period(u) * N <= u /\ u < Period(u) * N + N /\ N \in Nat
    BY Division, PeriodAssumption
  <1>2. ASSUME p * N <= u, Period(u) < p PROVE FALSE
    <2>1. Period(u) * N + N <= p * N
      BY <1>1, <1>2, PeriodsApart
    <2> QED BY <1>1, <1>2, <2>1
  <1>3. ASSUME u <= q * N - 1, q <= Period(u) PROVE FALSE
    <2>1. q = Period(u) \/ q * N + N <= Period(u) * N
      BY <1>1, <1>3, PeriodsApart
    <2> QED BY <1>1, <1>3, <2>1
  <1> QED BY <1>1, <1>2, <1>3

LEMMA PeriodGrows ==
  ASSUME NEW u \in Nat, NEW t \in Nat, u <= t
  PROVE  Period(u) <= Period(t)
  <1>1. Period(u) \in Nat /\ Period(u) * N <= t
    BY Division, PeriodAssumption
  <1> QED BY <1>1, InSpan

LEMMA MinutesOfIs ==
  ASSUME NEW p \in Nat
  PROVE  /\ MinutesOf(p) \subseteq p * N .. p * N + N - 1
         /\ IsFiniteSet(MinutesOf(p)) /\ Cardinality(MinutesOf(p)) \in 0 .. N
         /\ \A t \in Minutes : p * N <= t /\ t <= p * N + N - 1 => t \in MinutesOf(p)
         /\ \A S \in SUBSET MinutesOf(p) :
              /\ IsFiniteSet(S) /\ Cardinality(S) \in 0 .. N
              /\ Cardinality(S) >= N => S = MinutesOf(p) /\ Cardinality(S) = N
  <1> DEFINE I == p * N .. p * N + N - 1
  <1>1. p * N \in Nat /\ N \in Nat
    BY PeriodAssumption
  <1>2. IsFiniteSet(I) /\ Cardinality(I) = N
    BY <1>1, FS_Interval
  <1>3. MinutesOf(p) \subseteq I
    BY <1>1, Division, CandleBounds DEF MinutesOf, Minutes
  <1>4. ASSUME NEW t \in Minutes, p * N <= t, t <= p * N + N - 1 PROVE t \in MinutesOf(p)
    BY <1>1, <1>4, Division, CandleBounds DEF MinutesOf, Minutes
  <1> HIDE DEF I
  <1>5. ASSUME NEW S \in SUBSET MinutesOf(p)
        PROVE  /\ IsFiniteSet(S) /\ Cardinality(S) \in 0 .. N
               /\ Cardinality(S) >= N => S = MinutesOf(p) /\ Cardinality(S) = N
    <2>1. S \subseteq I
      BY <1>3
    <2>2. IsFiniteSet(S) /\ Cardinality(S) <= N /\ Cardinality(S) \in Nat
      BY <1>2, <2>1, FS_Subset, FS_CardinalityType
    <2>3. ASSUME Cardinality(S) >= N PROVE S = I
      BY <1>1, <1>2, <2>1, <2>2, <2>3, FS_Subset
    <2> QED BY <1>1, <1>3, <2>2, <2>3
  <1>6. IsFiniteSet(MinutesOf(p)) /\ Cardinality(MinutesOf(p)) \in 0 .. N
    BY <1>5
  <1> QED BY <1>3, <1>4, <1>5, <1>6 DEF I

-----------------------------------------------------------------------------
(* Types.                                                                  *)

LEMMA CandleIs ==
  /\ \A c : c \in Candle <=> c = [t |-> c.t, text |-> c.text] /\ c.t \in Minutes /\ c.text \in Texts
  /\ \A t \in Minutes, n \in Texts : [t |-> t, text |-> n] \in Candle
  /\ IsFiniteSet(Candle) /\ Minutes \subseteq Nat /\ IsFiniteSet(Minutes)
  /\ 0 \in Texts /\ 1 \in Texts /\ NoPeriod \notin Nat
  <1>1. LastMinute \in Nat /\ MaxPushes \in Nat /\ MaxPushes > 0
    BY CandleBounds
  <1>2. IsFiniteSet(Minutes) /\ IsFiniteSet(Texts) /\ Minutes \subseteq Nat
    BY <1>1, FS_Interval DEF Minutes, Texts
  <1>3. IsFiniteSet(Minutes \X Texts)
    BY <1>2, FS_Product
  <1> DEFINE f == [p \in Minutes \X Texts |-> [t |-> p[1], text |-> p[2]]]
  <1>4. f \in Surjection(Minutes \X Texts, Candle)
    <2>1. f \in [Minutes \X Texts -> Candle]
      BY DEF Candle
    <2>2. ASSUME NEW c \in Candle PROVE \E p \in Minutes \X Texts : f[p] = c
      <3>1. <<c.t, c.text>> \in Minutes \X Texts /\ f[<<c.t, c.text>>] = c
        BY DEF Candle
      <3> QED BY <3>1
    <2> QED BY <2>1, <2>2 DEF Surjection
  <1>5. IsFiniteSet(Candle)
    BY <1>3, <1>4, FS_Surjection
  <1>6. 0 \in Texts /\ 1 \in Texts /\ NoPeriod \notin Nat
    BY <1>1 DEF Texts, NoPeriod
  <1> QED BY <1>2, <1>5, <1>6 DEF Candle

LEMMA KeyIs ==
  ASSUME CandlesTyped
  PROVE  /\ IsFiniteSet(key["1m"]) /\ Stored("1m") \subseteq Minutes
         /\ Stored("up") \subseteq Nat
         /\ key["1m"] \subseteq Candle /\ key["up"] \subseteq LongCandle
         /\ Stored("1m") # {} <=> key["1m"] # {}
  <1>1. key["1m"] \subseteq Candle /\ key["up"] \subseteq LongCandle
    BY DEF CandlesTyped, KeyTyped
  <1>2. IsFiniteSet(key["1m"])
    BY <1>1, CandleIs, FS_Subset
  <1> QED BY <1>1, <1>2, CandleIs DEF Stored, LongCandle

LEMMA QueryIs ==
  ASSUME CandlesTyped, NEW from \in Int, NEW to \in Int
  PROVE  /\ Query(from, to) \in Source
         /\ \A t \in Query(from, to).minutes : from <= t /\ t <= to
  <1> DEFINE found == {c \in key["1m"] : from <= c.t /\ c.t <= to}
  <1>1. IsFiniteSet(found) /\ found \subseteq Candle
    BY KeyIs, FS_Subset
  <1>2. Cardinality(found) \in Nat
    BY <1>1, FS_CardinalityType
  <1>3. {c.t : c \in found} \subseteq Minutes
    BY <1>1, CandleIs
  <1>4. Query(from, to) = [minutes |-> {c.t : c \in found}, n |-> Cardinality(found)]
    BY DEF Query, Made
  <1>5. \A t \in {c.t : c \in found} : from <= t /\ t <= to
    OBVIOUS
  <1> HIDE DEF found
  <1> QED BY <1>2, <1>3, <1>4, <1>5 DEF Source

-----------------------------------------------------------------------------
(* What the aggregation makes of a minute.                                 *)

(* A step that is as it should be.                                         *)
Sound(s, t) ==
  /\ s.agg \in Aggregation /\ s.agg.last = t /\ Collected(s.agg)
  /\ s.out \in LongCandle \cup {NoBar} /\ s.how \in {"none", "next", "count", "last"}
  /\ s.how = "count" => Whole(s.out)
  /\ s.how = "last" => OwnMinutes(s.out)
  /\ s.how = "next" =>
       /\ agg.period # NoPeriod /\ s.out.t = agg.period
       /\ \A u \in s.out.src.minutes : agg.period <= Period(u) /\ Period(u) < Period(t)
  /\ s.how \in {"last", "next"} /\ OwnMinutes(s.out) /\ NoneTwice(s.out) => Whole(s.out)

(* As many minutes as a period has, all of it and none twice, are all.     *)
LEMMA RebuiltWhole ==
  ASSUME NEW p \in Nat, NEW src \in Source, src.n >= N,
         OwnMinutes(Bar(p, src)), NoneTwice(Bar(p, src))
  PROVE  Whole(Bar(p, src))
  <1>1. Bar(p, src).t = p /\ Bar(p, src).src = src
    BY DEF Bar
  <1>2. src.minutes \in SUBSET MinutesOf(p) /\ src.n = Cardinality(src.minutes)
    BY <1>1 DEF OwnMinutes, NoneTwice
  <1>3. src.minutes = MinutesOf(p) /\ src.n = N
    BY <1>2, MinutesOfIs
  <1>4. src = [minutes |-> src.minutes, n |-> src.n]
    BY DEF Source
  <1> QED BY <1>1, <1>3, <1>4 DEF Whole, Made

LEMMA CollectorIs ==
  ASSUME CandlesTyped
  PROVE  /\ agg \in Aggregation /\ agg.last \in Int /\ agg.period \in Nat \cup {NoPeriod}
  <1>1. agg \in Aggregation
    BY DEF CandlesTyped, RecorderTyped
  <1>2. agg.last \in Minutes \cup {NoPeriod} /\ agg.period \in Nat \cup {NoPeriod}
    BY <1>1 DEF Aggregation
  <1> QED BY <1>1, <1>2, CandleIs DEF NoPeriod

LEMMA CollectedMore ==
  ASSUME NEW a \in Aggregation, Collected(a), NEW t \in Minutes, a.last < t, a.period \in {NoPeriod, Period(t)}
  PROVE  LET src == With(IF a.period = NoPeriod THEN Nothing ELSE a.src, t)
         IN  /\ src \in Source /\ src.minutes \subseteq MinutesOf(Period(t))
             /\ src.n = Cardinality(src.minutes) /\ src.n \in 1 .. N
             /\ \A u \in src.minutes : u <= t
             /\ src.n >= N => src = Made(MinutesOf(Period(t)), N)
  <1> DEFINE old == IF a.period = NoPeriod THEN Nothing ELSE a.src
             new == old.minutes \cup {t}
  <1>1. t \in Nat /\ Period(t) \in Nat /\ t \in MinutesOf(Period(t)) /\ N \in Nat
    BY CandleIs, Division, PeriodAssumption DEF MinutesOf
  <1>2. /\ old.minutes \subseteq MinutesOf(Period(t)) /\ old.n = Cardinality(old.minutes)
        /\ t \notin old.minutes /\ \A u \in old.minutes : u <= t
    <2>1. CASE a.period = NoPeriod
      BY <2>1, FS_EmptySet DEF Nothing, Made
    <2>2. CASE a.period # NoPeriod
      <3>1. \A u \in a.src.minutes : u <= a.last /\ u \in Nat
        BY <2>2, CandleIs DEF Collected, MinutesOf
      <3>2. a.last \in Int
        BY CandleIs DEF Aggregation, NoPeriod
      <3> QED BY <1>1, <2>2, <3>1, <3>2 DEF Collected
    <2> QED BY <2>1, <2>2
  <1> HIDE DEF old
  <1>3. IsFiniteSet(old.minutes) /\ Cardinality(old.minutes) \in Nat
    BY <1>1, <1>2, MinutesOfIs
  <1>4. Cardinality(new) = Cardinality(old.minutes) + 1
    BY <1>2, <1>3, FS_AddElement
  <1>5. new \subseteq MinutesOf(Period(t)) /\ new \subseteq Minutes
    BY <1>1, <1>2 DEF MinutesOf
  <1>6. Cardinality(new) \in 0 .. N /\ (Cardinality(new) >= N => new = MinutesOf(Period(t)) /\ Cardinality(new) = N)
    BY <1>1, <1>5, MinutesOfIs
  <1>7. With(old, t) = [minutes |-> new, n |-> old.n + 1]
    BY DEF With, Made
  <1>8. \A u \in new : u <= t
    BY <1>1, <1>2
  <1> HIDE DEF new
  <1>9. With(old, t) \in Source /\ With(old, t).minutes = new /\ With(old, t).n = Cardinality(new)
    BY <1>2, <1>3, <1>4, <1>5, <1>7 DEF Source
  <1>10. Cardinality(new) \in 1 .. N
    BY <1>1, <1>3, <1>4, <1>6
  <1>11. Cardinality(new) >= N => With(old, t) = Made(MinutesOf(Period(t)), N)
    BY <1>2, <1>4, <1>6, <1>7 DEF Made
  <1>12. QED
    BY <1>5, <1>8, <1>9, <1>10, <1>11 DEF old

LEMMA SamePeriodSound ==
  ASSUME CandlesTyped, Collected(agg), NEW t \in Minutes, agg.last < t, agg.period \in {NoPeriod, Period(t)}
  PROVE  Sound(SamePeriod(t), t)
  <1> DEFINE src == With(IF agg.period = NoPeriod THEN Nothing ELSE agg.src, t)
             p == Period(t)
             hist == Query(p * N, p * N + N - 1)
  <1>1. agg \in Aggregation
    BY CollectorIs
  <1>2. /\ src \in Source /\ src.minutes \subseteq MinutesOf(p)
        /\ src.n = Cardinality(src.minutes) /\ src.n \in 1 .. N
        /\ \A u \in src.minutes : u <= t
        /\ src.n >= N => src = Made(MinutesOf(p), N)
    BY <1>1, CollectedMore
  <1>3. t \in Nat /\ p \in Nat /\ N \in Nat \ {0} /\ p * N \in Nat
    BY CandleIs, Division, PeriodAssumption
  <1>4. hist \in Source /\ \A u \in hist.minutes : p * N <= u /\ u <= p * N + N - 1
    BY <1>3, QueryIs
  <1>5. hist.minutes \subseteq MinutesOf(p)
    <2>1. hist.minutes \subseteq Minutes
      BY <1>4 DEF Source
    <2> QED BY <1>3, <1>4, <2>1, MinutesOfIs
  <1>6. SamePeriod(t) =
          IF src.n >= N THEN Step(Closed(t), Bar(p, src), "count")
          ELSE IF t % N = N - 1 /\ hist.n >= N THEN Step(Closed(t), Bar(p, hist), "last")
          ELSE Step([period |-> p, src |-> src, last |-> t], NoBar, "none")
    BY DEF SamePeriod
  <1>7. p # NoPeriod /\ Nothing \in Source
    BY <1>3, CandleIs DEF Nothing, Made, Source
  <1>p. p = Period(t)
    OBVIOUS
  <1> HIDE DEF src, p, hist
  <1>8. Closed(t) = [period |-> NoPeriod, src |-> Nothing, last |-> t]
    BY DEF Closed, NoAggregation
  <1>9. Closed(t) \in Aggregation /\ Closed(t).last = t /\ Collected(Closed(t))
    BY <1>7, <1>8 DEF Aggregation, Collected
  <1>10. CASE src.n >= N
    BY <1>2, <1>3, <1>6, <1>9, <1>10 DEF Sound, Step, Bar, LongCandle, Whole
  <1>11. CASE ~(src.n >= N) /\ t % N = N - 1 /\ hist.n >= N
    <2> DEFINE b == Bar(p, hist)
    <2>1. SamePeriod(t) = Step(Closed(t), b, "last")
      BY <1>6, <1>11
    <2>2. OwnMinutes(b) /\ b \in LongCandle
      BY <1>3, <1>4, <1>5 DEF OwnMinutes, Bar, LongCandle
    <2>3. NoneTwice(b) => Whole(b)
      BY <1>3, <1>4, <1>11, <2>2, RebuiltWhole
    <2> HIDE DEF b
    <2> QED BY <1>9, <2>1, <2>2, <2>3 DEF Sound, Step
  <1>12. CASE ~(src.n >= N) /\ ~(t % N = N - 1 /\ hist.n >= N)
    <2> DEFINE a == [period |-> p, src |-> src, last |-> t]
    <2>1. SamePeriod(t) = Step(a, NoBar, "none")
      BY <1>6, <1>12
    <2>2. src.n \in 1 .. N - 1
      BY <1>2, <1>3, <1>12
    <2>3. a \in Aggregation /\ a.last = t /\ Collected(a)
      BY <1>2, <1>3, <1>7, <2>2, <1>p DEF Aggregation, Collected
    <2> QED BY <2>1, <2>3 DEF Sound, Step
  <1> QED BY <1>10, <1>11, <1>12

LEMMA NextPeriodSound ==
  ASSUME CandlesTyped, Collected(agg), NEW t \in Minutes, agg.last < t, agg.period \notin {NoPeriod, Period(t)}
  PROVE  Sound(NextPeriod(t), t)
  <1> DEFINE hist == Query(agg.period * N, Period(t) * N - 1)
             a == Opened(t)
  <1>1. t \in Nat /\ Period(t) \in Nat /\ N \in Nat \ {0} /\ agg.period \in Nat /\ NoPeriod \notin Nat
    BY CandleIs, CollectorIs, Division, PeriodAssumption
  <1>2. agg.period * N \in Int /\ Period(t) * N - 1 \in Int
    BY <1>1
  <1>3. hist \in Source /\ \A u \in hist.minutes : agg.period * N <= u /\ u <= Period(t) * N - 1
    BY <1>2, QueryIs
  <1>n. ASSUME NEW u \in hist.minutes PROVE agg.period <= Period(u) /\ Period(u) < Period(t)
    <2>1. u \in Nat
      BY <1>3, CandleIs DEF Source
    <2> QED BY <1>1, <1>3, <2>1, InSpan
  <1>4. 1 \in 1 .. N - 1
    <2>1. agg.src.n \in 1 .. N - 1
      BY <1>1 DEF Collected
    <2> QED BY <1>1, <2>1
  <1>5. a = [period |-> Period(t), src |-> [minutes |-> {t}, n |-> 1], last |-> t]
    BY DEF Opened, With, Nothing, Made
  <1>6. t \in MinutesOf(Period(t)) /\ Cardinality({t}) = 1
    BY FS_Singleton DEF MinutesOf
  <1>7. a \in Aggregation /\ a.last = t /\ Collected(a)
    <2>1. a \in Aggregation /\ a.last = t /\ a.period # NoPeriod /\ a.period = Period(t)
      BY <1>1, <1>5 DEF Aggregation, Source
    <2>2. a.src.minutes = {t} /\ a.src.n = 1 /\ \A u \in {t} : u <= a.last
      BY <1>1, <1>5
    <2> HIDE DEF a
    <2> QED BY <1>4, <1>6, <2>1, <2>2 DEF Collected
  <1> DEFINE b == Bar(agg.period, hist)
  <1>8. \/ NextPeriod(t) = Step(a, b, "next") /\ hist.n >= N
        \/ NextPeriod(t) = Step(a, NoBar, "none")
    BY DEF NextPeriod
  <1>9. b \in LongCandle /\ b.t = agg.period /\ b.src = hist
    BY <1>1, <1>3 DEF Bar, LongCandle
  <1>10. hist.n >= N /\ OwnMinutes(b) /\ NoneTwice(b) => Whole(b)
    BY <1>1, <1>3, RebuiltWhole
  <1>11. agg.period # NoPeriod
    OBVIOUS
  <1> HIDE DEF hist, a, b
  <1> QED BY <1>n, <1>7, <1>8, <1>9, <1>10, <1>11 DEF Sound, Step

LEMMA AggregateSound ==
  ASSUME CandlesTyped, Collected(agg), NEW t \in Minutes, agg.last <= t
  PROVE  Sound(Aggregate(t), t)
  <1>1. CASE agg.last = t
    <2>1. Aggregate(t) = Step(agg, NoBar, "none")
      BY <1>1 DEF Aggregate
    <2>2. agg \in Aggregation
      BY CollectorIs
    <2> QED BY <1>1, <2>1, <2>2 DEF Sound, Step
  <1>2. CASE agg.last # t
    <2>1. agg.last < t
      <3>1. agg.last \in Int /\ t \in Int
        BY CandleIs, CollectorIs
      <3> QED BY <1>2, <3>1
    <2> QED BY <1>2, <2>1, SamePeriodSound, NextPeriodSound DEF Aggregate
  <1> QED BY <1>1, <1>2

LEMMA TypesStart == CandlesInit => CandlesTyped
  <1> SUFFICES ASSUME CandlesInit PROVE CandlesTyped
    OBVIOUS
  <1>1. Nothing \in Source /\ LastMinute \in Nat
    BY CandleBounds DEF Nothing, Made, Source
  <1>2. FeedTyped
    BY <1>1 DEF CandlesInit, FeedTyped
  <1>3. KeyTyped
    BY DEF CandlesInit, KeyTyped, Keys
  <1>4. RecorderTyped
    BY <1>1 DEF CandlesInit, RecorderTyped, NoAggregation, IdleRecorder, Aggregation, Taking
  <1>5. FillersTyped
    BY <1>1 DEF CandlesInit, FillersTyped
  <1> QED BY <1>2, <1>3, <1>4, <1>5 DEF CandlesTyped

LEMMA TypesKept ==
  ASSUME CandlesTyped
  PROVE  /\ UNCHANGED feedVars => FeedTyped'
         /\ UNCHANGED key => KeyTyped'
         /\ UNCHANGED recorderVars => RecorderTyped'
         /\ UNCHANGED <<fillerVars, fastVars>> => FillersTyped'
  <1>1. UNCHANGED feedVars => FeedTyped'
    BY DEF CandlesTyped, FeedTyped, feedVars
  <1>2. UNCHANGED key => KeyTyped'
    BY DEF CandlesTyped, KeyTyped
  <1>3. UNCHANGED recorderVars => RecorderTyped'
    BY DEF CandlesTyped, RecorderTyped, recorderVars
  <1>4. UNCHANGED <<fillerVars, fastVars>> => FillersTyped'
    BY DEF CandlesTyped, FillersTyped, fillerVars, fastVars
  <1> QED BY <1>1, <1>2, <1>3, <1>4

LEMMA TypesFeed ==
  ASSUME CandlesTyped, MinuteEnds \/ PushedAgain \/ PublishKline \/ RecordKline
  PROVE  CandlesTyped'
  <1>1. FeedTyped
    BY DEF CandlesTyped
  <1>2. CASE MinuteEnds
    <2>1. [t |-> now, text |-> 1] \in Candle
      BY <1>1, <1>2, CandleIs, CandleBounds DEF MinuteEnds, Minutes, FeedTyped
    <2>2. FeedTyped'
      <3>1. now' \in 0 .. LastMinute + 1
        BY <1>1, <1>2, CandleBounds DEF MinuteEnds, FeedTyped
      <3>2. wire' \in Seq(Candle)
        BY <1>1, <1>2, <2>1, AppendProperties DEF MinuteEnds, FeedTyped
      <3> QED BY <1>1, <1>2, <3>1, <3>2 DEF MinuteEnds, FeedTyped
    <2> QED BY <1>2, <2>2, TypesKept DEF MinuteEnds, CandlesTyped
  <1>3. CASE PushedAgain
    <2> DEFINE c == wire[Len(wire)]
    <2>1. c \in Candle /\ Last(wire) = c /\ c.text < MaxPushes
      BY <1>1, <1>3 DEF PushedAgain, Last, FeedTyped
    <2>2. [c EXCEPT !.text = @ + 1] = [t |-> c.t, text |-> c.text + 1]
      BY <2>1 DEF Candle
    <2>3. c.text + 1 \in Texts /\ c.t \in Minutes
      BY <2>1, CandleIs, CandleBounds DEF Texts
    <2>4. [c EXCEPT !.text = @ + 1] \in Candle
      BY <2>2, <2>3, CandleIs
    <2>5. FeedTyped'
      BY <1>1, <1>3, <2>1, <2>4 DEF PushedAgain, FeedTyped
    <2> QED BY <1>3, <2>5, TypesKept DEF PushedAgain, CandlesTyped
  <1>4. CASE PublishKline
    <2>1. Head(wire) \in Candle /\ Tail(wire) \in Seq(Candle) /\ wire \in Seq(Candle) /\ bus \in Seq(Candle)
      BY <1>1, <1>4 DEF PublishKline, FeedTyped
    <2>2. wire' \in Seq(Candle) /\ recording' \in Seq(Candle)
      BY <1>4, <2>1 DEF PublishKline
    <2>3. bus' \in Seq(Candle)
      <3>1. bus' = Append(bus, Head(wire)) \/ bus' = bus
        BY <1>4 DEF PublishKline
      <3>2. Append(bus, Head(wire)) \in Seq(Candle)
        BY <2>1, AppendProperties
      <3> QED BY <2>1, <3>1, <3>2
    <2>4. FeedTyped'
      BY <1>1, <1>4, <2>2, <2>3 DEF PublishKline, FeedTyped
    <2> QED BY <1>4, <2>4, TypesKept DEF PublishKline, CandlesTyped
  <1>5. CASE RecordKline
    <2>1. ToSet(recording) \subseteq Candle
      BY <1>1 DEF ToSet, FeedTyped
    <2>2. KeyTyped'
      BY <1>5, <2>1 DEF RecordKline, CandlesTyped, KeyTyped, Keys
    <2>3. FeedTyped'
      BY <1>1, <1>5 DEF RecordKline, FeedTyped
    <2> QED BY <1>5, <2>2, <2>3, TypesKept DEF RecordKline, CandlesTyped
  <1> QED BY <1>2, <1>3, <1>4, <1>5

LEMMA UpsertIs ==
  ASSUME CandlesTyped, NEW k \in Keys, NEW c \in IF k = "1m" THEN Candle ELSE LongCandle
  PROVE  LET upserted == Upsert(k, c)
         IN  /\ upserted \in [Keys -> SUBSET (Candle \cup LongCandle)]
             /\ upserted["1m"] \subseteq Candle /\ upserted["up"] \subseteq LongCandle
             /\ \A j \in Keys : j # k => upserted[j] = key[j]
             /\ Stored(k) \subseteq {d.t : d \in upserted[k]}
  BY DEF Upsert, CandlesTyped, KeyTyped, Keys, Stored

LEMMA TypesRecorder ==
  ASSUME CandlesTyped, Collected(agg), FeedOrdered,
         StoreKline \/ AggregateKline \/ StoreBar \/ RecorderRestarts
  PROVE  CandlesTyped'
  <1>1. FeedTyped /\ RecorderTyped
    BY DEF CandlesTyped
  <1>2. IdleRecorder \in Taking /\ IdleRecorder.at = "idle" /\ NoAggregation \in Aggregation
    BY DEF IdleRecorder, Taking, NoAggregation, Aggregation, Nothing, Made, Source
  <1>3. CASE StoreKline
    <2>1. Head(bus) \in Candle /\ bus' \in Seq(Candle)
      BY <1>1, <1>3 DEF StoreKline, FeedTyped
    <2>2. FeedTyped'
      BY <1>1, <1>3, <2>1 DEF StoreKline, FeedTyped
    <2>3. RecorderTyped'
      BY <1>1, <1>3, <2>1 DEF StoreKline, RecorderTyped, Taking, IdleRecorder
    <2>4. KeyTyped'
      BY <1>3, <2>1, UpsertIs DEF StoreKline, KeyTyped, Keys
    <2> QED BY <1>3, <2>2, <2>3, <2>4, TypesKept DEF StoreKline, CandlesTyped
  <1>4. CASE AggregateKline
    <2> DEFINE s == Aggregate(taking.c.t)
    <2>1. taking.c.t \in Minutes /\ agg.last <= taking.c.t
      BY <1>1, <1>4, CandleIs DEF AggregateKline, RecorderTyped, FeedOrdered
    <2>2. s.agg \in Aggregation /\ s.out \in LongCandle \cup {NoBar} /\ s.how \in {"none", "next", "count", "last"}
      BY <2>1, AggregateSound DEF Sound
    <2>3. agg' = s.agg /\ met' = met \cup {Period(taking.c.t)} /\ taking' = IF s.out = NoBar THEN IdleRecorder
                      ELSE [IdleRecorder EXCEPT !.at = "output", !.out = s.out, !.how = s.how]
      BY <1>4 DEF AggregateKline
    <2> HIDE DEF s
    <2>m. Period(taking.c.t) \in Nat /\ met \subseteq Nat
      BY <1>1, <2>1, CandleIs, Division DEF RecorderTyped
    <2>4. RecorderTyped'
      BY <1>2, <2>2, <2>3, <2>m DEF RecorderTyped, Taking, IdleRecorder
    <2> QED BY <1>4, <2>4, TypesKept DEF AggregateKline, CandlesTyped
  <1>5. CASE StoreBar
    <2>1. taking.out \in LongCandle
      BY <1>1, <1>5 DEF StoreBar, RecorderTyped
    <2>2. KeyTyped'
      BY <1>5, <2>1, UpsertIs DEF StoreBar, KeyTyped, Keys
    <2>3. RecorderTyped'
      BY <1>1, <1>2, <1>5 DEF StoreBar, RecorderTyped
    <2> QED BY <1>5, <2>2, <2>3, TypesKept DEF StoreBar, CandlesTyped
  <1>6. CASE RecorderRestarts
    <2>1. RecorderTyped'
      BY <1>2, <1>6 DEF RecorderRestarts, RecorderTyped
    <2>2. FeedTyped'
      BY <1>1, <1>6 DEF RecorderRestarts, FeedTyped
    <2> QED BY <1>6, <2>1, <2>2, TypesKept DEF RecorderRestarts, CandlesTyped
  <1> QED BY <1>3, <1>4, <1>5, <1>6

-----------------------------------------------------------------------------
(* The gap detector and what is fetched.                                   *)

LEMMA SmallestNat ==
  ASSUME NEW T, T \subseteq Nat, T # {}
  PROVE  Min(T) \in T /\ \A k \in T : Min(T) <= k
  <1>1. PICK n \in T : \A k \in T : ~(<<k, n>> \in OpToRel(<, Nat))
    BY NatLessThanWellFounded, WFMin
  <1>2. \A k \in T : ~(k < n)
    BY <1>1 DEF OpToRel
  <1>3. \A k \in T : n <= k
    BY <1>2
  <1> QED BY <1>3 DEF Min

(* A set of natural numbers up to n that is not empty has a greatest one.  *)
LEMMA GreatestNat ==
  ASSUME NEW n \in Nat, NEW T, T \subseteq 0 .. n, T # {}
  PROVE  Max(T) \in T /\ \A k \in T : k <= Max(T)
  <1> DEFINE D == {n - k : k \in T}
  <1>1. D \subseteq Nat /\ D # {}
    <2>1. \A k \in T : n - k \in Nat
      OBVIOUS
    <2> QED BY <2>1
  <1>2. PICK m \in T : Min(D) = n - m
    BY <1>1, SmallestNat
  <1>3. \A k \in T : n - m <= n - k
    BY <1>1, <1>2, SmallestNat
  <1>4. \A k \in T : k <= m
    BY <1>3
  <1> QED BY <1>2, <1>4 DEF Max

(* What is missing of T up to a minute is in one of its gaps.              *)
LEMMA GapsFound ==
  ASSUME CandlesTyped, NEW T \in SUBSET Minutes, T # {}
  PROVE  /\ DetectGaps(T) \subseteq Minutes \X Minutes
         /\ \A t \in 0 .. now - 1 : t \in T \/ \E g \in DetectGaps(T) : g[1] <= t /\ t <= g[2]
  <1> DEFINE lo == Min(T)
             hi == Max(T)
             after(a) == Min({b \in T : b > a})
  <1>1. /\ LastMinute \in Nat /\ T \subseteq 0 .. LastMinute /\ T \subseteq Nat
        /\ now \in 0 .. LastMinute + 1
    BY CandleBounds DEF Minutes, CandlesTyped, FeedTyped
  <1>2. lo \in T /\ hi \in T /\ \A k \in T : lo <= k /\ k <= hi
    BY <1>1, SmallestNat, GreatestNat
  <1>3. ASSUME NEW a \in T, NEW b \in T, a < b PROVE after(a) \in T /\ after(a) > a /\ \A c \in T : c > a => after(a) <= c
    <2>1. {c \in T : c > a} # {} /\ {c \in T : c > a} \subseteq Nat
      BY <1>1, <1>3
    <2> QED BY <2>1, SmallestNat
  <1> HIDE DEF after, lo, hi
  <1>4. /\ Leading(T) = IF lo > 0 THEN {<<0, lo - 1>>} ELSE {}
        /\ Between(T) = {<<a + 1, after(a) - 1>> : a \in {a \in T : a + 1 \notin T /\ a # hi}}
        /\ Trailing(T) = IF now > hi + 1 THEN {<<hi + 1, now - 1>>} ELSE {}
    BY DEF Leading, Between, Trailing, lo, hi, after
  <1>5. Leading(T) \subseteq Minutes \X Minutes /\ Trailing(T) \subseteq Minutes \X Minutes
    BY <1>1, <1>2, <1>4 DEF Minutes
  <1>6. Between(T) \subseteq Minutes \X Minutes
    <2> SUFFICES ASSUME NEW a \in T, a + 1 \notin T, a # hi
                 PROVE  <<a + 1, after(a) - 1>> \in Minutes \X Minutes
      BY <1>4
    <2>1. a < hi
      BY <1>1, <1>2
    <2>2. after(a) \in T /\ after(a) > a
      BY <1>2, <1>3, <2>1
    <2>3. a \in 0 .. LastMinute /\ after(a) \in 0 .. LastMinute /\ hi \in 0 .. LastMinute
      BY <1>1, <1>2, <2>2
    <2>4. a + 1 \in 0 .. LastMinute /\ after(a) - 1 \in 0 .. LastMinute
      BY <1>1, <2>1, <2>2, <2>3
    <2> QED BY <2>4 DEF Minutes
  <1>7. ASSUME NEW t \in 0 .. now - 1, t \notin T PROVE \E g \in DetectGaps(T) : g[1] <= t /\ t <= g[2]
    <2>1. CASE t < lo
      <3>1. <<0, lo - 1>> \in DetectGaps(T)
        BY <1>1, <1>2, <1>4, <2>1 DEF DetectGaps
      <3> QED BY <1>1, <1>2, <2>1, <3>1
    <2>2. CASE t > hi
      <3>1. <<hi + 1, now - 1>> \in DetectGaps(T)
        BY <1>1, <1>2, <1>4, <2>2 DEF DetectGaps
      <3> QED BY <1>1, <1>2, <2>2, <3>1
    <2>3. CASE ~(t < lo) /\ ~(t > hi)
      <3> DEFINE B == {x \in T : x < t}
                 a == Max(B)
      <3>1. lo < t /\ t < hi /\ lo \in Nat /\ hi \in Nat /\ t \in Nat
        BY <1>1, <1>2, <1>7, <2>3
      <3>2. a \in B /\ \A x \in B : x <= a
        <4>1. lo \in B /\ B \subseteq 0 .. LastMinute
          BY <1>1, <1>2, <3>1
        <4> QED BY <1>1, <4>1, GreatestNat
      <3> HIDE DEF a
      <3>3. a \in T /\ a < t /\ a \in Nat /\ \A x \in T : x < t => x <= a
        BY <1>1, <3>2
      <3>4. a + 1 \notin T /\ a # hi
        BY <1>7, <3>1, <3>3
      <3>5. <<a + 1, after(a) - 1>> \in DetectGaps(T)
        BY <1>4, <3>3, <3>4 DEF DetectGaps
      <3>6. after(a) \in T /\ after(a) > a
        BY <1>2, <1>3, <3>1, <3>3
      <3>7. after(a) > t /\ after(a) \in Nat
        <4>1. after(a) \in Nat /\ after(a) # t
          BY <1>1, <1>7, <3>6
        <4>2. ~(after(a) < t)
          BY <3>3, <3>6, <4>1
        <4> QED BY <3>1, <4>1, <4>2
      <3> QED BY <3>1, <3>3, <3>5, <3>7
    <2> QED BY <2>1, <2>2, <2>3
  <1> QED BY <1>5, <1>6, <1>7 DEF DetectGaps

(* The ranges that are merged cover the set.                               *)
LEMMA MergedCovers ==
  ASSUME NEW T \in SUBSET Minutes
  PROVE  /\ Merged(T) \subseteq Minutes \X Minutes
         /\ \A t \in T : \E g \in Merged(T) : g[1] <= t /\ t <= g[2]
  <1> DEFINE end(a) == Min({b \in T : b >= a /\ b + 1 \notin T})
  <1>1. T \subseteq Nat /\ LastMinute \in Nat /\ T \subseteq 0 .. LastMinute
    BY CandleBounds DEF Minutes
  <1>2. ASSUME NEW a \in T PROVE end(a) \in T /\ end(a) >= a /\ end(a) + 1 \notin T
    <2> DEFINE E == {b \in T : b >= a /\ b + 1 \notin T}
               m == Max(T)
    <2>1. m \in T /\ \A k \in T : k <= m
      BY <1>1, GreatestNat
    <2> HIDE DEF m
    <2>2. m \in E /\ E \subseteq Nat
      <3>1. m \in Nat /\ a <= m /\ m + 1 \notin T
        BY <1>1, <2>1
      <3> QED BY <1>1, <2>1, <3>1
    <2>3. Min(E) \in E
      BY <2>2, SmallestNat
    <2> QED BY <2>3
  <1> HIDE DEF end
  <1>3. Merged(T) = {<<a, end(a)>> : a \in {a \in T : a - 1 \notin T}}
    BY DEF Merged, end
  <1>4. Merged(T) \subseteq Minutes \X Minutes
    BY <1>2, <1>3
  <1>5. ASSUME NEW t \in T PROVE \E g \in Merged(T) : g[1] <= t /\ t <= g[2]
    (* The start of the run of t: after the last minute before it that is not in T. *)
    <2> DEFINE A == {a \in T : a <= t /\ \A x \in a .. t : x \in T}
               s == Min(A)
    <2>1. t \in A /\ A \subseteq Nat
      <3>1. t \in Nat /\ \A x \in t .. t : x = t
        BY <1>1
      <3>2. t \in A
        BY <3>1
      <3> QED BY <1>1, <3>2
    <2>2. s \in A /\ \A x \in A : s <= x
      BY <2>1, SmallestNat
    <2> HIDE DEF s
    <2>3. s \in T /\ s <= t /\ (\A x \in s .. t : x \in T) /\ s \in Nat /\ t \in Nat
      BY <1>1, <2>2
    <2>4. s - 1 \notin T
      <3> SUFFICES ASSUME s - 1 \in T PROVE FALSE
        OBVIOUS
      <3>1. s - 1 \in A
        BY <1>1, <2>3
      <3> QED BY <2>2, <2>3, <3>1
    <2>5. end(s) \in T /\ end(s) >= s /\ end(s) >= t
      <3>1. end(s) \in T /\ end(s) >= s /\ end(s) + 1 \notin T
        BY <1>2, <2>3
      <3>2. end(s) \in Nat
        BY <1>1, <3>1
      <3> QED BY <2>3, <3>1, <3>2
    <2>6. <<s, end(s)>> \in Merged(T)
      BY <1>3, <2>3, <2>4
    <2> QED BY <2>3, <2>5, <2>6
  <1> QED BY <1>4, <1>5

LEMMA FetchedIs ==
  ASSUME NEW lo \in Minutes, NEW hi \in Minutes, NEW f \in Fetched(lo, hi)
  PROVE  /\ f.minutes \subseteq Minutes /\ f.all \in BOOLEAN
         /\ FromRest(f.minutes) \subseteq Candle
         /\ f.all => \A t \in lo .. hi : Listed <= t => t \in f.minutes
  <1>1. LastMinute \in Nat
    BY CandleBounds
  <1>2. PICK n \in 0 .. LastMinute + 1 :
          f = [minutes |-> Answers(lo, hi, n), all |-> Answers(lo, hi, n) = Runs(lo, hi)]
    BY DEF Fetched
  <1>3. Runs(lo, hi) \subseteq Minutes
    BY <1>1 DEF Runs, Minutes
  <1>4. Answers(lo, hi, n) \subseteq Runs(lo, hi)
    BY DEF Answers
  <1>5. f.minutes = Answers(lo, hi, n) /\ f.minutes \subseteq Minutes /\ f.all \in BOOLEAN
    BY <1>2, <1>3, <1>4
  <1>6. FromRest(f.minutes) \subseteq Candle
    BY <1>5, CandleIs DEF FromRest, Rest
  <1>7. ASSUME f.all, NEW t \in lo .. hi, Listed <= t PROVE t \in f.minutes
    <2>1. f.minutes = Runs(lo, hi)
      BY <1>2, <1>7
    <2> QED BY <1>7, <2>1 DEF Runs
  <1> QED BY <1>5, <1>6, <1>7

LEMMA FillIs ==
  ASSUME CandlesTyped, Fill
  PROVE  /\ NextGap \in gaps /\ NextGap[1] \in Minutes /\ NextGap[2] \in Minutes
         /\ KeyTyped' /\ Stored("1m") \subseteq Stored("1m")' /\ gaps' = gaps \ {NextGap}
         /\ complete' \in BOOLEAN
         /\ complete' => complete /\ \A t \in NextGap[1] .. NextGap[2] : Listed <= t => t \in Stored("1m")'
  <1>1. gaps \subseteq Minutes \X Minutes /\ gaps # {} /\ gaps' = gaps \ {NextGap} /\ complete \in BOOLEAN
    BY DEF Fill, CandlesTyped, FillersTyped
  <1>2. NextGap \in gaps
    <2> DEFINE F == {g[1] : g \in gaps}
    <2>1. F \subseteq Nat /\ F # {}
      BY <1>1, CandleIs
    <2>2. Min(F) \in F /\ \A k \in F : Min(F) <= k
      BY <2>1, SmallestNat
    <2>3. PICK g \in gaps : g[1] = Min(F)
      BY <2>2
    <2>4. \A h \in gaps : g[1] <= h[1]
      BY <2>2, <2>3
    <2> QED BY <2>4 DEF NextGap
  <1>3. NextGap[1] \in Minutes /\ NextGap[2] \in Minutes
    BY <1>1, <1>2
  <1> HIDE DEF NextGap
  <1>4. PICK f \in Fetched(NextGap[1], NextGap[2]) :
          /\ key' = [key EXCEPT !["1m"] = @ \cup FromRest(f.minutes)]
          /\ complete' = (complete /\ f.all)
    BY DEF Fill
  <1>5. /\ FromRest(f.minutes) \subseteq Candle /\ f.all \in BOOLEAN
        /\ f.all => \A t \in NextGap[1] .. NextGap[2] : Listed <= t => t \in f.minutes
    BY <1>3, FetchedIs
  <1>6. KeyTyped' /\ key'["1m"] = key["1m"] \cup FromRest(f.minutes)
    BY <1>4, <1>5 DEF CandlesTyped, KeyTyped, Keys
  <1>7. Stored("1m")' = Stored("1m") \cup f.minutes
    <2>1. {c.t : c \in FromRest(f.minutes)} = f.minutes
      <3>1. ASSUME NEW c \in FromRest(f.minutes) PROVE c.t \in f.minutes
        BY <3>1 DEF FromRest
      <3>2. ASSUME NEW t \in f.minutes PROVE \E c \in FromRest(f.minutes) : c.t = t
        <4>1. [t |-> t, text |-> Rest] \in FromRest(f.minutes)
          BY <3>2 DEF FromRest
        <4>2. [t |-> t, text |-> Rest].t = t
          OBVIOUS
        <4> QED BY <4>1, <4>2
      <3> QED BY <3>1, <3>2
    <2> QED BY <1>6, <2>1 DEF Stored
  <1> QED BY <1>1, <1>2, <1>3, <1>4, <1>5, <1>6, <1>7

-----------------------------------------------------------------------------
(* Types, of what the fillers do.                                          *)

LEMMA OneOfEachIs ==
  ASSUME NEW M
  PROVE  /\ OneOfEach(M) \subseteq M
         /\ {c.t : c \in OneOfEach(M)} = {c.t : c \in M}
  <1> DEFINE T == {c.t : c \in M}
             one(t) == CHOOSE c \in M : c.t = t
  <1>1. ASSUME NEW t \in T PROVE one(t) \in M /\ one(t).t = t
    BY <1>1
  <1>2. OneOfEach(M) = {one(t) : t \in T}
    BY DEF OneOfEach
  <1> HIDE DEF one
  <1> QED BY <1>1, <1>2

LEMMA TypesGapFiller ==
  ASSUME CandlesTyped, MinutesKept, GapFiller
  PROVE  CandlesTyped'
  <1>1. KeyTyped /\ FillersTyped
    BY DEF CandlesTyped
  <1> USE DEF Then, AfterDedupe, Deletion, Insertion, Target, fastVars, fillerVars
  <1>2. CASE StartGapFiller
    <2>1. FillersTyped'
      BY <1>1, <1>2 DEF StartGapFiller, FillersTyped
    <2> QED BY <1>2, <2>1, TypesKept DEF StartGapFiller, CandlesTyped
  <1>3. CASE ReadForDedupe
    <2>1. FillersTyped'
      BY <1>1, <1>3 DEF ReadForDedupe, FillersTyped, KeyTyped
    <2>2. UNCHANGED <<feedVars, recorderVars, key>>
      BY <1>3 DEF ReadForDedupe
    <2> QED BY <2>1, <2>2, TypesKept DEF CandlesTyped
  <1>4. CASE DeleteKey
    <2>1. FillersTyped'
      BY <1>1, <1>4 DEF DeleteKey, FillersTyped
    <2>2. KeyTyped'
      BY <1>1, <1>4 DEF DeleteKey, KeyTyped, Keys
    <2> QED BY <1>4, <2>1, <2>2, TypesKept DEF DeleteKey, CandlesTyped
  <1>5. CASE InsertOnce
    <2>1. FillersTyped'
      BY <1>1, <1>5 DEF InsertOnce, FillersTyped
    <2>2. OneOfEach(snapshot) \subseteq snapshot
      BY OneOfEachIs
    <2>3. KeyTyped'
      BY <1>1, <1>5, <2>2 DEF InsertOnce, KeyTyped, FillersTyped, Keys
    <2> QED BY <1>5, <2>1, <2>3, TypesKept DEF InsertOnce, CandlesTyped
  <1>6. CASE Detect
    <2>1. DetectGaps(Stored("1m")) \subseteq Minutes \X Minutes \/ Stored("1m") = {}
      BY KeyIs, GapsFound
    <2>2. gaps' \subseteq Minutes \X Minutes
      BY <1>6, <2>1 DEF Detect
    <2>3. now \in 0 .. LastMinute + 1
      BY DEF CandlesTyped, FeedTyped
    <2>4. FillersTyped'
      BY <1>1, <1>6, <2>2, <2>3 DEF Detect, FillersTyped
    <2> QED BY <1>6, <2>4, TypesKept DEF Detect, CandlesTyped
  <1>7. CASE FillGap
    <2>1. KeyTyped' /\ gaps' \subseteq gaps /\ complete' \in BOOLEAN
      BY <1>7, FillIs DEF FillGap
    <2>2. FillersTyped'
      BY <1>1, <1>7, <2>1 DEF FillGap, FillersTyped
    <2> QED BY <1>7, <2>1, <2>2, TypesKept DEF FillGap, CandlesTyped
  <1>8. CASE Filled
    <2>1. FillersTyped'
      BY <1>1, <1>8 DEF Filled, FillersTyped
    <2> QED BY <1>8, <2>1, TypesKept DEF Filled, CandlesTyped
  <1>9. CASE ReadExisting
    <2>1. FillersTyped'
      BY <1>1, <1>9 DEF ReadExisting, FillersTyped
    <2> QED BY <1>9, <2>1, TypesKept DEF ReadExisting, CandlesTyped
  <1>10. CASE WriteMissing
    <2>1. FillersTyped'
      BY <1>1, <1>10 DEF WriteMissing, FillersTyped
    <2>2. KeyTyped'
      <3> DEFINE bars == {Bar(p, Group(p)) : p \in {p \in Groups : [t |-> p] \notin snapshot}}
      <3>1. ASSUME NEW p \in Groups PROVE Bar(p, Group(p)) \in LongCandle
        <4>1. p \in Nat
          BY KeyIs, CandleIs, Division DEF Groups
        <4>2. Group(p) \in Source
          <5> DEFINE S == MinutesOf(p) \cap Stored("1m")
          <5>1. S \subseteq Minutes /\ Cardinality(S) \in Nat
            <6>1. S \in SUBSET MinutesOf(p) /\ S \subseteq Stored("1m")
              OBVIOUS
            <6> HIDE DEF S
            <6>2. Cardinality(S) \in 0 .. N
              BY <4>1, <6>1, MinutesOfIs
            <6>3. N \in Nat
              BY PeriodAssumption
            <6> QED BY <6>1, <6>2, <6>3, KeyIs
          <5> HIDE DEF S
          <5>2. Made(S, Cardinality(S)) \in Source
            BY <5>1 DEF Made, Source
          <5> QED BY <5>2 DEF Group, S
        <4> QED BY <4>1, <4>2 DEF Bar, LongCandle
      <3>2. bars \subseteq LongCandle
        BY <3>1
      <3>3. key' = [key EXCEPT !["up"] = @ \cup bars]
        BY <1>10 DEF WriteMissing
      <3> HIDE DEF bars
      <3> QED BY <1>1, <3>2, <3>3 DEF KeyTyped, Keys
    <2> QED BY <1>10, <2>1, <2>2, TypesKept DEF WriteMissing, CandlesTyped
  <1>11. CASE GapFillerStops
    <2>1. FillersTyped'
      BY <1>1, <1>11 DEF GapFillerStops, FillersTyped
    <2> QED BY <1>11, <2>1, TypesKept DEF GapFillerStops, CandlesTyped
  <1> QED BY <1>2, <1>3, <1>4, <1>5, <1>6, <1>7, <1>8, <1>9, <1>10, <1>11 DEF GapFiller

LEMMA TypesFastFiller ==
  ASSUME CandlesTyped, MinutesKept, FastFiller
  PROVE  CandlesTyped'
  <1>1. KeyTyped /\ FillersTyped
    BY DEF CandlesTyped
  <1> USE DEF fillerVars, fastVars
  <1>2. CASE StartFastFiller
    <2>1. FillersTyped'
      BY <1>1, <1>2 DEF StartFastFiller, FillersTyped
    <2> QED BY <1>2, <2>1, TypesKept DEF StartFastFiller, CandlesTyped
  <1>3. CASE CoarseScan
    <2> DEFINE T == Stored("1m")
    <2>1. T \subseteq Minutes /\ T # {}
      BY <1>3, KeyIs DEF CoarseScan, MinutesKept
    <2>2. Min(T) \in Minutes /\ Max(T) \in Minutes
      <3>1. LastMinute \in Nat /\ T \subseteq 0 .. LastMinute /\ T \subseteq Nat
        BY <2>1, CandleBounds DEF Minutes
      <3> QED BY <2>1, <3>1, SmallestNat, GreatestNat
    <2> HIDE DEF T
    <2>3. span' = <<Min(T), Max(T)>>
      BY <1>3 DEF CoarseScan, T
    <2>4. span' \in Int \X Int /\ span'[1] \in Minutes /\ span'[2] \in Minutes
      BY <2>2, <2>3, CandleIs
    <2>5. \A h, lo, hi : BlockOf(h, lo, hi) \subseteq lo .. hi
      BY DEF BlockOf
    <2>6. span'[1] .. span'[2] \subseteq Minutes
      BY <2>4, CandleBounds DEF Minutes
    <2>7. blocks' \subseteq SUBSET Minutes
      BY <1>3, <2>5, <2>6 DEF CoarseScan
    <2>8. FillersTyped'
      BY <1>1, <1>3, <2>4, <2>7 DEF CoarseScan, FillersTyped
    <2> QED BY <1>3, <2>8, TypesKept DEF CoarseScan, CandlesTyped
  <1>4. CASE FineScan
    <2>1. (UNION blocks) \ Stored("1m") \in SUBSET Minutes
      BY <1>1 DEF FillersTyped
    <2>2. gaps' \subseteq Minutes \X Minutes
      BY <1>4, <2>1, MergedCovers DEF FineScan
    <2>3. FillersTyped'
      BY <1>1, <1>4, <2>2 DEF FineScan, FillersTyped
    <2> QED BY <1>4, <2>3, TypesKept DEF FineScan, CandlesTyped
  <1>5. CASE FetchAndFill
    <2>1. KeyTyped' /\ gaps' \subseteq gaps /\ complete' \in BOOLEAN
      BY <1>5, FillIs DEF FetchAndFill
    <2>2. FillersTyped'
      BY <1>1, <1>5, <2>1 DEF FetchAndFill, FillersTyped
    <2> QED BY <1>5, <2>1, <2>2, TypesKept DEF FetchAndFill, CandlesTyped
  <1>6. CASE FastFillerEnds
    <2>1. FillersTyped'
      BY <1>1, <1>6 DEF FastFillerEnds, FillersTyped
    <2> QED BY <1>6, <2>1, TypesKept DEF FastFillerEnds, CandlesTyped
  <1> QED BY <1>2, <1>3, <1>4, <1>5, <1>6 DEF FastFiller

-----------------------------------------------------------------------------
(* The order of the feed.                                                  *)

LEMMA FeedIs ==
  ASSUME CandlesTyped
  PROVE  /\ wire \in Seq(Candle) /\ bus \in Seq(Candle) /\ now \in Nat /\ agg.last \in Int
         /\ \A i \in DOMAIN wire : wire[i] \in Candle /\ wire[i].t \in Nat
         /\ \A i \in DOMAIN bus : bus[i] \in Candle /\ bus[i].t \in Nat
         /\ taking.at = "aggregate" => taking.c \in Candle /\ taking.c.t \in Nat
  <1>1. wire \in Seq(Candle) /\ bus \in Seq(Candle) /\ now \in Nat
    BY CandleBounds DEF CandlesTyped, FeedTyped
  <1>2. \A i \in DOMAIN wire : wire[i] \in Candle
    BY <1>1
  <1>3. \A i \in DOMAIN bus : bus[i] \in Candle
    BY <1>1
  <1>4. taking.at = "aggregate" => taking.c \in Candle
    BY DEF CandlesTyped, RecorderTyped
  <1> QED BY <1>1, <1>2, <1>3, <1>4, CandleIs, CollectorIs

LEMMA Appended ==
  ASSUME NEW s \in Seq(Candle), NEW c \in Candle
  PROVE  /\ DOMAIN Append(s, c) = 1 .. Len(s) + 1 /\ DOMAIN s = 1 .. Len(s) /\ Len(s) \in Nat
         /\ \A i \in DOMAIN Append(s, c) :
              \/ i \in DOMAIN s /\ Append(s, c)[i] = s[i]
              \/ i = Len(s) + 1 /\ Append(s, c)[i] = c
  <1>1. /\ Len(Append(s, c)) = Len(s) + 1 /\ Append(s, c)[Len(s) + 1] = c
        /\ \A i \in 1 .. Len(s) : Append(s, c)[i] = s[i]
        /\ Append(s, c) \in Seq(Candle)
    BY AppendProperties
  <1>2. DOMAIN Append(s, c) = 1 .. Len(s) + 1 /\ DOMAIN s = 1 .. Len(s) /\ Len(s) \in Nat
    BY <1>1, LenProperties
  <1>3. \A i \in 1 .. Len(s) + 1 : i \in 1 .. Len(s) \/ i = Len(s) + 1
    BY <1>2
  <1> QED BY <1>1, <1>2, <1>3

LEMMA FeedUnchanged ==
  ASSUME FeedOrdered, UNCHANGED <<now, wire, bus, recorderVars>>
  PROVE  FeedOrdered'
  BY DEF FeedOrdered, Sorted, recorderVars

LEMMA FeedStep ==
  ASSUME CandlesTyped, FeedOrdered, Collected(agg),
         \/ MinuteEnds \/ PushedAgain \/ PublishKline
         \/ StoreKline \/ AggregateKline \/ RecorderRestarts
  PROVE  FeedOrdered'
  <1>1. CASE MinuteEnds
    <2> DEFINE c == [t |-> now, text |-> 1]
    <2>1. (c.t = now /\ c \in Candle) \/ wire' = wire
      BY <1>1, CandleIs, CandleBounds DEF MinuteEnds, CandlesTyped, FeedTyped, Minutes
    <2>2. now' = now + 1 /\ (wire' = Append(wire, c) \/ wire' = wire) /\ bus' = bus /\ agg' = agg /\ taking' = taking
      BY <1>1 DEF MinuteEnds, recorderVars
    <2> HIDE DEF c
    <2>3. CASE wire' = wire
      BY <2>2, <2>3, FeedIs DEF FeedOrdered, Sorted
    <2>4. CASE wire' = Append(wire, c) /\ wire' # wire
      <3>1. /\ DOMAIN wire' = 1 .. Len(wire) + 1 /\ DOMAIN wire = 1 .. Len(wire) /\ Len(wire) \in Nat
            /\ \A i \in DOMAIN wire' : (i \in DOMAIN wire /\ wire'[i] = wire[i]) \/ (i = Len(wire) + 1 /\ wire'[i] = c)
        BY <2>1, <2>4, FeedIs, Appended
      <3>2. c.t = now /\ now' = now + 1
        BY <2>1, <2>2, <2>4
      <3>3. \A i \in DOMAIN wire : wire[i].t < now /\ wire[i].t \in Nat /\ now \in Nat /\ i <= Len(wire)
        BY <3>1, FeedIs DEF FeedOrdered
      <3>4. Sorted(wire')
        <4> SUFFICES ASSUME NEW i \in DOMAIN wire', NEW j \in DOMAIN wire', i <= j
                     PROVE  wire'[i].t <= wire'[j].t
          BY DEF Sorted
        <4>1. CASE j \in DOMAIN wire /\ wire'[j] = wire[j]
          <5>1. i \in DOMAIN wire /\ wire'[i] = wire[i]
            BY <3>1, <4>1
          <5> QED BY <4>1, <5>1 DEF FeedOrdered, Sorted
        <4>2. CASE j = Len(wire) + 1 /\ wire'[j] = c
          <5>1. now \in Nat
            BY FeedIs
          <5> QED BY <3>1, <3>2, <3>3, <4>2, <5>1
        <4> QED BY <3>1, <4>1, <4>2
      <3>5. /\ \A i \in DOMAIN wire' : wire'[i].t < now + 1 /\ agg.last <= wire'[i].t
            /\ \A i \in DOMAIN bus, j \in DOMAIN wire' : bus[i].t <= wire'[j].t
        BY <3>1, <3>2, <3>3, FeedIs DEF FeedOrdered
      <3>6. \A i \in DOMAIN bus : bus[i].t < now + 1 /\ agg.last <= bus[i].t
        BY FeedIs DEF FeedOrdered
      <3>7. taking.at = "aggregate" => taking.c.t < now + 1 /\ \A i \in DOMAIN wire' : taking.c.t <= wire'[i].t
        BY <3>1, <3>2, <3>3, FeedIs DEF FeedOrdered
      <3>8. agg.last < now + 1 /\ Sorted(bus)
        BY FeedIs DEF FeedOrdered
      <3> QED BY <2>2, <3>2, <3>4, <3>5, <3>6, <3>7, <3>8 DEF FeedOrdered
    <2> QED BY <2>2, <2>3, <2>4
  <1>2. CASE PushedAgain
    <2> DEFINE l == wire[Len(wire)]
               c == [l EXCEPT !.text = @ + 1]
    <2>1. Len(wire) \in DOMAIN wire /\ l \in Candle /\ Last(wire) = l
      BY <1>2, FeedIs DEF PushedAgain, Last
    <2>2. c.t = l.t /\ c \in Candle
      <3>1. c = [t |-> l.t, text |-> l.text + 1]
        BY <2>1 DEF Candle
      <3>2. l.text + 1 \in Texts /\ l.t \in Minutes
        BY <1>2, <2>1, CandleIs, CandleBounds DEF PushedAgain, Texts
      <3> QED BY <3>1, <3>2, CandleIs
    <2>3. wire' = Append(wire, c) /\ now' = now /\ bus' = bus /\ agg' = agg /\ taking' = taking
      BY <1>2, <2>1 DEF PushedAgain, recorderVars
    <2> HIDE DEF c
    <2>4. /\ DOMAIN wire' = 1 .. Len(wire) + 1 /\ DOMAIN wire = 1 .. Len(wire) /\ Len(wire) \in Nat
          /\ \A i \in DOMAIN wire' : (i \in DOMAIN wire /\ wire'[i] = wire[i]) \/ (i = Len(wire) + 1 /\ wire'[i] = c)
      BY <2>2, <2>3, FeedIs, Appended
    <2> QED BY <2>1, <2>2, <2>3, <2>4, FeedIs DEF FeedOrdered, Sorted
  <1>3. CASE PublishKline
    <2> DEFINE c == Head(wire)
    <2>1. 1 \in DOMAIN wire /\ c = wire[1]
      BY <1>3, FeedIs DEF PublishKline
    <2>2. /\ wire' = Tail(wire) /\ (bus' = Append(bus, c) \/ bus' = bus)
          /\ now' = now /\ agg' = agg /\ taking' = taking
      BY <1>3 DEF PublishKline, recorderVars
    <2> HIDE DEF c
    <2>3. \A i \in DOMAIN wire' : i \in Nat /\ i + 1 \in DOMAIN wire /\ wire'[i] = wire[i + 1]
      BY <2>1, <2>2, FeedIs
    <2>4. \A i \in DOMAIN bus' : (i \in DOMAIN bus /\ bus'[i] = bus[i]) \/ (i = Len(bus) + 1 /\ bus'[i] = c)
      <3>1. c \in Candle
        BY <2>1, FeedIs
      <3>2. CASE bus' = bus
        BY <3>2, FeedIs
      <3>3. CASE bus' = Append(bus, c)
        BY <3>1, <3>3, FeedIs, Appended
      <3> QED BY <2>2, <3>2, <3>3
    <2>5. DOMAIN bus = 1 .. Len(bus) /\ Len(bus) \in Nat /\ DOMAIN wire = 1 .. Len(wire) /\ Len(wire) \in Nat
      BY FeedIs
    <2>6. \A i \in DOMAIN wire : c.t <= wire[i].t /\ c.t \in Nat
      BY <2>1, <2>5, FeedIs DEF FeedOrdered, Sorted
    <2>7. Sorted(wire')
      BY <2>3, <2>5 DEF FeedOrdered, Sorted
    <2>8. Sorted(bus')
      BY <2>1, <2>4, <2>5, FeedIs DEF FeedOrdered, Sorted
    <2>9. QED BY <2>1, <2>2, <2>3, <2>4, <2>6, <2>7, <2>8, FeedIs DEF FeedOrdered
  <1>4. CASE StoreKline
    <2> DEFINE c == Head(bus)
    <2>1. 1 \in DOMAIN bus /\ c = bus[1]
      BY <1>4, FeedIs DEF StoreKline
    <2>2. /\ bus' = Tail(bus) /\ wire' = wire /\ now' = now /\ agg' = agg
          /\ taking'.c = c
      BY <1>4 DEF StoreKline, IdleRecorder
    <2> HIDE DEF c
    <2>3. \A i \in DOMAIN bus' : i \in Nat /\ i + 1 \in DOMAIN bus /\ bus'[i] = bus[i + 1]
      BY <2>1, <2>2, FeedIs
    <2>4. DOMAIN bus = 1 .. Len(bus) /\ Len(bus) \in Nat
      BY FeedIs
    <2>5. \A i \in DOMAIN bus : c.t <= bus[i].t
      BY <2>1, <2>4, FeedIs DEF FeedOrdered, Sorted
    <2>6. Sorted(bus')
      BY <2>3, <2>4 DEF FeedOrdered, Sorted
    <2> QED BY <2>1, <2>2, <2>3, <2>5, <2>6, FeedIs DEF FeedOrdered
  <1>5. CASE AggregateKline
    <2>1. taking.at = "aggregate" /\ taking.c.t \in Minutes /\ agg.last <= taking.c.t
      BY <1>5, FeedIs, CandleIs DEF AggregateKline, FeedOrdered
    <2>2. Aggregate(taking.c.t).agg.last = taking.c.t
      BY <2>1, AggregateSound DEF Sound
    <2>3. agg'.last = taking.c.t /\ taking'.at # "aggregate" /\ wire' = wire /\ bus' = bus /\ now' = now
      BY <1>5, <2>2 DEF AggregateKline, IdleRecorder, feedVars
    <2> QED BY <2>1, <2>3, FeedIs DEF FeedOrdered
  <1>6. CASE RecorderRestarts
    <2>1. agg'.last = -1 /\ taking'.at # "aggregate" /\ wire' = wire /\ bus' = bus /\ now' = now
      BY <1>6 DEF RecorderRestarts, IdleRecorder, NoAggregation, NoPeriod
    <2> QED BY <2>1, FeedIs DEF FeedOrdered
  <1> QED BY <1>1, <1>2, <1>3, <1>4, <1>5, <1>6

(* What is collected, and what comes of it.                                *)
LEMMA CollectedStart == Collected(NoAggregation)
  BY DEF Collected, NoAggregation

LEMMA CollectedStep ==
  ASSUME CandlesTyped, FeedOrdered, Collected(agg), Reached, CollectedIsWhole,
         \/ UNCHANGED recorderVars
         \/ StoreKline \/ AggregateKline \/ StoreBar \/ RecorderRestarts
  PROVE  Collected(agg)' /\ Reached' /\ CollectedIsWhole'
  <1>1. CASE UNCHANGED recorderVars
    BY <1>1 DEF recorderVars, Collected, Reached, CollectedIsWhole
  <1>2. CASE StoreKline \/ StoreBar
    <2>1. agg' = agg /\ met' = met /\ taking'.how = "none"
      <3>1. CASE StoreKline
        BY <3>1 DEF StoreKline, IdleRecorder
      <3>2. CASE StoreBar
        BY <3>2 DEF StoreBar, IdleRecorder
      <3> QED BY <1>2, <3>1, <3>2
    <2> QED BY <2>1 DEF Collected, Reached, CollectedIsWhole
  <1>3. CASE RecorderRestarts
    <2>1. agg' = NoAggregation /\ met' = {} /\ taking'.how = "none"
      BY <1>3 DEF RecorderRestarts, IdleRecorder
    <2>2. Collected(agg)'
      BY <2>1, CollectedStart DEF Collected
    <2> QED BY <2>1, <2>2 DEF Reached, CollectedIsWhole
  <1>4. CASE AggregateKline
    <2> DEFINE s == Aggregate(taking.c.t)
    <2>1. taking.at = "aggregate" /\ taking.c.t \in Minutes /\ agg.last <= taking.c.t
      BY <1>4, FeedIs, CandleIs DEF AggregateKline, FeedOrdered
    <2>2. Sound(s, taking.c.t)
      BY <2>1, AggregateSound
    <2>3. agg' = s.agg /\ met' = met \cup {Period(taking.c.t)} /\ taking' = IF s.out = NoBar THEN IdleRecorder
                      ELSE [IdleRecorder EXCEPT !.at = "output", !.out = s.out, !.how = s.how]
      BY <1>4 DEF AggregateKline
    <2> HIDE DEF s
    <2>4. Collected(agg)'
      BY <2>2, <2>3 DEF Sound, Collected
    <2>5. taking'.how = "none" \/ (taking'.how = s.how /\ taking'.out = s.out)
      BY <2>3 DEF IdleRecorder
    <2> DEFINE t == taking.c.t
    <2>6. t \in Nat /\ t # NoPeriod /\ Period(t) \in Nat /\ agg'.last = t /\ met \subseteq Nat
      BY <2>1, <2>2, <2>3, CandleIs, Division DEF Sound, CandlesTyped, RecorderTyped
    <2>7. \A p \in met : p <= Period(t)
      <3>1. ASSUME NEW p \in met PROVE p <= Period(t)
        <4>1. agg.last # NoPeriod /\ p <= Period(agg.last) /\ p \in Nat
          BY <2>6 DEF Reached
        <4>2. agg.last \in Nat
          BY <4>1, CollectorIs, CandleIs DEF Aggregation
        <4>3. Period(agg.last) \in Nat /\ Period(agg.last) <= Period(t)
          BY <2>1, <2>6, <4>2, Division, PeriodGrows
        <4> QED BY <2>6, <4>1, <4>3
      <3> QED BY <3>1
    <2>8. Reached'
      BY <2>3, <2>6, <2>7 DEF Reached
    <2>9. ASSUME taking'.how = "next", NEW u \in taking'.out.src.minutes
          PROVE  Period(u) >= taking'.out.t /\ Period(u) \notin met' \ {taking'.out.t}
      <3>1. /\ agg.period # NoPeriod /\ taking'.out.t = agg.period
            /\ agg.period <= Period(u) /\ Period(u) < Period(t)
        BY <2>2, <2>5, <2>9 DEF Sound
      <3>2. agg.period = Period(agg.last) /\ agg.period \in Nat
        BY <3>1, CollectorIs DEF Collected
      <3>3. taking'.out \in LongCandle /\ u \in Minutes
        <4>1. taking'.out = s.out /\ s.out \in LongCandle \cup {NoBar}
          BY <2>2, <2>5, <2>9 DEF Sound
        <4>2. s.out # NoBar
          BY <3>1, <3>2, <4>1, CandleIs DEF NoBar, Bar
        <4> QED BY <2>9, <4>1, <4>2 DEF LongCandle, Source
      <3>4. Period(u) \in Nat
        BY <3>3, CandleIs, Division
      <3>5. Period(u) \in met => Period(u) <= agg.period
        BY <3>2 DEF Reached
      <3> QED BY <2>3, <2>6, <3>1, <3>2, <3>4, <3>5
    <2>10. /\ taking'.how = "count" => Whole(taking'.out)
           /\ taking'.how = "last" => OwnMinutes(taking'.out)
           /\ taking'.how \in {"last", "next"} /\ OwnMinutes(taking'.out) /\ NoneTwice(taking'.out)
                => Whole(taking'.out)
      BY <2>2, <2>5 DEF Sound
    <2> QED BY <2>4, <2>8, <2>9, <2>10 DEF CollectedIsWhole, Whole, OwnMinutes, NoneTwice
  <1> QED BY <1>1, <1>2, <1>3, <1>4

-----------------------------------------------------------------------------
(* What the fillers leave.                                                 *)

(* Minutes are only added, by programs that are not filling.               *)
LEMMA HolesKept ==
  ASSUME HolesInv, Stored("1m") \subseteq Stored("1m")', UNCHANGED <<fillerVars, fastVars>>
  PROVE  HolesInv'
  <1> USE DEF fillerVars, fastVars
  <1>1. MinutesKept'
    BY DEF HolesInv, MinutesKept
  <1>2. MissingKnown'
    BY DEF HolesInv, MissingKnown, Runs, InGap, Hidden
  <1>3. FilledWhenDone'
    BY DEF HolesInv, FilledWhenDone, Runs
  <1> QED BY <1>1, <1>2, <1>3 DEF HolesInv

LEMMA HolesOthers ==
  ASSUME CandlesTyped, HolesInv,
         \/ MinuteEnds \/ PushedAgain \/ PublishKline \/ RecordKline
         \/ StoreKline \/ AggregateKline \/ StoreBar \/ RecorderRestarts
  PROVE  HolesInv'
  <1>1. CASE MinuteEnds \/ PushedAgain \/ PublishKline \/ AggregateKline \/ RecorderRestarts
    <2>1. UNCHANGED <<key, fillerVars, fastVars>>
      BY <1>1 DEF MinuteEnds, PushedAgain, PublishKline, AggregateKline, RecorderRestarts
    <2>2. Stored("1m")' = Stored("1m")
      BY <2>1 DEF Stored
    <2> QED BY <2>1, <2>2, HolesKept
  <1>2. CASE RecordKline
    <2>1. key'["1m"] = key["1m"] \cup ToSet(recording)
      BY <1>2 DEF RecordKline, CandlesTyped, KeyTyped, Keys
    <2>2. Stored("1m") \subseteq Stored("1m")'
      BY <2>1 DEF Stored
    <2> QED BY <1>2, <2>2, HolesKept DEF RecordKline
  <1>3. CASE StoreKline
    <2>1. Head(bus) \in Candle
      BY <1>3, FeedIs DEF StoreKline
    <2>2. key' = Upsert("1m", Head(bus))
      BY <1>3 DEF StoreKline
    <2>3. Stored("1m") \subseteq {d.t : d \in key'["1m"]}
      BY <2>1, <2>2, UpsertIs DEF Keys
    <2>4. Stored("1m") \subseteq Stored("1m")'
      BY <2>3 DEF Stored
    <2> QED BY <1>3, <2>4, HolesKept DEF StoreKline
  <1>4. CASE StoreBar
    <2>1. taking.out \in LongCandle /\ key' = Upsert("up", taking.out)
      BY <1>4 DEF StoreBar, CandlesTyped, RecorderTyped
    <2>2. key'["1m"] = key["1m"]
      BY <2>1, UpsertIs DEF Keys
    <2>3. Stored("1m")' = Stored("1m")
      BY <2>2 DEF Stored
    <2> QED BY <1>4, <2>3, HolesKept DEF StoreBar
  <1> QED BY <1>1, <1>2, <1>3, <1>4

(* A gap has been filled.                                                  *)
LEMMA GapFilled ==
  ASSUME CandlesTyped, Fill, NEW t, Listed <= t,
         t \in Stored("1m") \/ InGap(t), complete', t \in Int
  PROVE  t \in Stored("1m")' \/ InGap(t)'
  <1>1. CASE t \in Stored("1m")
    BY <1>1, FillIs
  <1>2. CASE InGap(t)
    <2>1. PICK g \in gaps : g[1] <= t /\ t <= g[2]
      BY <1>2 DEF InGap
    <2>2. CASE g = NextGap
      <3>1. NextGap[1] \in Int /\ NextGap[2] \in Int
        BY FillIs, CandleIs
      <3>2. t \in NextGap[1] .. NextGap[2]
        BY <2>1, <2>2, <3>1
      <3> QED BY <3>2, FillIs
    <2>3. CASE g # NextGap
      <3>1. g \in gaps'
        BY <2>3, FillIs
      <3> QED BY <2>1, <3>1 DEF InGap
    <2> QED BY <2>2, <2>3
  <1> QED BY <1>1, <1>2

LEMMA HolesGapFiller ==
  ASSUME CandlesTyped, HolesInv, GapFiller
  PROVE  HolesInv'
  <1> USE DEF Then, AfterDedupe, Deletion, Insertion, Target, fastVars
  <1> DEFINE Calm == filler' \notin {"fill", "dedupe up"} /\ fast' \notin {"fine", "fetch"}
  <1>1. FillersTyped /\ MinutesKept /\ MissingKnown /\ FilledWhenDone
    BY DEF CandlesTyped, HolesInv
  <1>2. ASSUME Calm, MinutesKept' PROVE HolesInv'
    BY <1>2 DEF HolesInv, MissingKnown, FilledWhenDone
  <1>3. filler # "idle" => fast = "idle"
    BY <1>1 DEF FillersTyped
  <1>4. CASE StartGapFiller
    <2>1. Stored("1m") # {} /\ Stored("1m")' = Stored("1m")
      BY <1>4, KeyIs DEF StartGapFiller, Stored
    <2>2. MinutesKept' /\ Calm
      BY <1>4, <2>1 DEF StartGapFiller, MinutesKept
    <2> QED BY <1>2, <2>2
  <1>5. CASE ReadForDedupe
    <2>1. Stored("1m") # {} /\ key["1m"] # {} /\ Stored("1m")' = Stored("1m")
      BY <1>1, <1>5, KeyIs DEF ReadForDedupe, MinutesKept, Stored
    <2>2. MinutesKept' /\ Calm
      BY <1>3, <1>5, <2>1 DEF ReadForDedupe, MinutesKept
    <2> QED BY <1>2, <2>2
  <1>6. CASE DeleteKey
    <2>1. CASE filler = "delete 1m"
      <3>1. MinutesKept' /\ Calm
        BY <1>1, <1>3, <1>6, <2>1 DEF DeleteKey, MinutesKept
      <3> QED BY <1>2, <3>1
    <2>2. CASE filler = "delete up"
      <3>1. key'["1m"] = key["1m"]
        BY <1>6, <2>2 DEF DeleteKey, CandlesTyped, KeyTyped, Keys
      <3>2. Stored("1m")' = Stored("1m")
        BY <3>1 DEF Stored
      <3>3. MinutesKept' /\ Calm
        BY <1>1, <1>3, <1>6, <2>2, <3>2 DEF DeleteKey, MinutesKept
      <3> QED BY <1>2, <3>3
    <2> QED BY <1>6, <2>1, <2>2 DEF DeleteKey
  <1>7. CASE InsertOnce
    <2>1. CASE filler = "insert 1m"
      <3>1. key'["1m"] = key["1m"] \cup OneOfEach(snapshot)
        BY <1>7, <2>1 DEF InsertOnce, CandlesTyped, KeyTyped, Keys
      <3>2. PICK c \in snapshot : TRUE
        BY <1>1, <2>1 DEF MinutesKept
      <3>3. c.t \in {d.t : d \in OneOfEach(snapshot)}
        BY <3>2, OneOfEachIs
      <3>4. Stored("1m")' # {}
        BY <3>1, <3>3 DEF Stored
      <3>5. MinutesKept' /\ Calm
        BY <1>3, <1>7, <2>1, <3>4 DEF InsertOnce, MinutesKept
      <3> QED BY <1>2, <3>5
    <2>2. CASE filler = "insert up"
      <3>1. key'["1m"] = key["1m"]
        BY <1>7, <2>2 DEF InsertOnce, CandlesTyped, KeyTyped, Keys
      <3>2. Stored("1m")' = Stored("1m")
        BY <3>1 DEF Stored
      <3>3. MinutesKept' /\ Calm
        BY <1>1, <1>3, <1>7, <2>2, <3>2 DEF InsertOnce, MinutesKept
      <3> QED BY <1>2, <3>3
    <2> QED BY <1>7, <2>1, <2>2 DEF InsertOnce
  <1>8. CASE Detect
    <2>1. Stored("1m") # {} /\ Stored("1m")' = Stored("1m")
      BY <1>1, <1>8 DEF Detect, MinutesKept, Stored
    <2>2. filler' = "fill" /\ fast' = "idle" /\ gaps' = DetectGaps(Stored("1m")) /\ seen' = now
      BY <1>3, <1>8, <2>1 DEF Detect
    <2>3. \A t \in 0 .. now - 1 : t \in Stored("1m") \/ \E g \in gaps' : g[1] <= t /\ t <= g[2]
      BY <2>1, <2>2, KeyIs, GapsFound
    <2>4. MissingKnown'
      BY <2>1, <2>2, <2>3 DEF MissingKnown, Runs, InGap
    <2>5. MinutesKept' /\ FilledWhenDone'
      BY <2>1, <2>2 DEF MinutesKept, FilledWhenDone
    <2> QED BY <2>4, <2>5 DEF HolesInv
  <1>9. CASE FillGap
    <2>1. Fill /\ filler = "fill" /\ filler' = "fill" /\ fast' = "idle" /\ seen' = seen
      BY <1>3, <1>9 DEF FillGap
    <2>2. Stored("1m") \subseteq Stored("1m")' /\ (complete' => complete)
      BY <2>1, FillIs
    <2>3. ASSUME complete', NEW t \in Runs(0, seen - 1)
          PROVE  t \in Stored("1m")' \/ InGap(t)'
      <3>1. t \in Int /\ Listed <= t
        BY <2>3 DEF Runs
      <3>2. t \in Stored("1m") \/ InGap(t)
        BY <1>1, <2>1, <2>2, <2>3 DEF MissingKnown
      <3> QED BY <2>1, <2>3, <3>1, <3>2, GapFilled
    <2>4. Runs(0, seen - 1)' = Runs(0, seen - 1)
      BY <2>1 DEF Runs
    <2>5. MissingKnown'
      BY <2>1, <2>3, <2>4 DEF MissingKnown
    <2>6. MinutesKept' /\ FilledWhenDone'
      BY <1>1, <2>1, <2>2 DEF MinutesKept, FilledWhenDone
    <2> QED BY <2>5, <2>6 DEF HolesInv
  <1>10. CASE Filled
    <2>1. filler = "fill" /\ gaps = {} /\ filler' = "dedupe up" /\ fast' = "idle" /\ UNCHANGED <<key, seen, complete>>
      BY <1>3, <1>10 DEF Filled
    <2>2. Stored("1m")' = Stored("1m") /\ Runs(0, seen - 1)' = Runs(0, seen - 1)
      BY <2>1 DEF Stored, Runs
    <2>3. \A t : ~InGap(t)
      BY <2>1 DEF InGap
    <2>4. complete => Runs(0, seen - 1) \subseteq Stored("1m")
      BY <1>1, <2>1, <2>3 DEF MissingKnown
    <2>5. FilledWhenDone'
      BY <2>1, <2>2, <2>4 DEF FilledWhenDone
    <2>6. MinutesKept' /\ MissingKnown'
      BY <1>1, <2>1, <2>2 DEF MinutesKept, MissingKnown
    <2> QED BY <2>5, <2>6 DEF HolesInv
  <1>11. CASE ReadExisting
    <2>1. Stored("1m")' = Stored("1m")
      BY <1>11 DEF ReadExisting, Stored
    <2>2. MinutesKept' /\ Calm
      BY <1>1, <1>3, <1>11, <2>1 DEF ReadExisting, MinutesKept
    <2> QED BY <1>2, <2>2
  <1>12. CASE WriteMissing
    <2>1. MinutesKept' /\ Calm
      BY <1>3, <1>12 DEF WriteMissing, MinutesKept
    <2> QED BY <1>2, <2>1
  <1>13. CASE GapFillerStops
    <2>1. MinutesKept' /\ Calm
      BY <1>3, <1>13 DEF GapFillerStops, MinutesKept
    <2> QED BY <1>2, <2>1
  <1> QED BY <1>4, <1>5, <1>6, <1>7, <1>8, <1>9, <1>10, <1>11, <1>12, <1>13 DEF GapFiller

(* A block that counts as many members as it has minutes and yet has a     *)
(* hole has a minute that is stored twice.                                 *)
LEMMA ScanFinds ==
  ASSUME CandlesTyped, NEW T \in SUBSET Minutes, ~CountShort(T), NEW t \in T, t \notin Stored("1m")
  PROVE  \E u \in T : u \in Stored("1m") /\ Cardinality(WithMinute(u)) > 1
  <1> DEFINE M == {c \in key["1m"] : c.t \in T}
             R == T \ {t}
             f == [c \in M |-> c.t]
  <1>1. IsFiniteSet(key["1m"]) /\ IsFiniteSet(T) /\ IsFiniteSet(M)
    BY KeyIs, CandleIs, FS_Subset
  <1>2. IsFiniteSet(R) /\ Cardinality(R) = Cardinality(T) - 1 /\ Cardinality(T) \in Nat /\ Cardinality(M) \in Nat
    BY <1>1, FS_RemoveElement, FS_CardinalityType
  <1>3. Cardinality(M) >= Cardinality(T)
    BY <1>2 DEF CountShort
  <1>4. f \in [M -> R]
    BY DEF Stored
  <1> HIDE DEF M, R, f
  <1>5. \E c, d \in M : c # d /\ f[c] = f[d]
    BY <1>1, <1>2, <1>3, <1>4, FS_PigeonHole
  <1>6. PICK c \in M, d \in M : c # d /\ c.t = d.t
    BY <1>5 DEF f
  <1>7. c \in key["1m"] /\ d \in key["1m"] /\ c.t \in T
    BY <1>6 DEF M
  <1>8. c.t \in Stored("1m") /\ {c, d} \subseteq WithMinute(c.t) /\ WithMinute(c.t) \subseteq key["1m"]
    BY <1>6, <1>7 DEF Stored, WithMinute
  <1>9. Cardinality({c, d}) = 2
    <2>1. Cardinality({c}) = 1 /\ IsFiniteSet({c}) /\ d \notin {c}
      BY <1>6, FS_Singleton
    <2>2. Cardinality({c} \cup {d}) = 2
      <3> DEFINE S == {c}
      <3>1. Cardinality(S) = 1 /\ IsFiniteSet(S) /\ d \notin S
        BY <2>1
      <3> HIDE DEF S
      <3>2. Cardinality(S \cup {d}) = Cardinality(S) + 1
        BY <3>1, FS_AddElement, Zenon
      <3> QED BY <3>1, <3>2 DEF S
    <2>3. {c} \cup {d} = {c, d}
      OBVIOUS
    <2> QED BY <2>2, <2>3
  <1>10. IsFiniteSet(WithMinute(c.t)) /\ Cardinality(WithMinute(c.t)) >= 2 /\ Cardinality(WithMinute(c.t)) \in Nat
    <2>1. IsFiniteSet(WithMinute(c.t))
      BY <1>1, <1>8, FS_Subset
    <2>2. Cardinality({c, d}) <= Cardinality(WithMinute(c.t)) /\ Cardinality(WithMinute(c.t)) \in Nat
      BY <1>8, <2>1, FS_Subset, FS_CardinalityType
    <2> QED BY <1>9, <2>1, <2>2
  <1> QED BY <1>7, <1>8, <1>10

LEMMA HolesFastFiller ==
  ASSUME CandlesTyped, HolesInv, FastFiller
  PROVE  HolesInv'
  <1>1. FillersTyped /\ MinutesKept /\ MissingKnown /\ FilledWhenDone
    BY DEF CandlesTyped, HolesInv
  <1>2. fast # "idle" => filler = "idle"
    BY <1>1 DEF FillersTyped
  <1> USE DEF fillerVars, fastVars
  <1>3. CASE StartFastFiller
    <2>1. Stored("1m") # {} /\ Stored("1m")' = Stored("1m") /\ filler' = "idle" /\ fast' = "scan"
      BY <1>3, KeyIs DEF StartFastFiller, Stored
    <2> QED BY <2>1 DEF HolesInv, MinutesKept, MissingKnown, FilledWhenDone
  <1>4. CASE CoarseScan
    <2> DEFINE B(t) == BlockOf(t \div Hour, span'[1], span'[2])
    <2>1. Stored("1m") # {} /\ Stored("1m")' = Stored("1m") /\ filler' = "idle" /\ fast' = "fine"
      BY <1>1, <1>2, <1>4 DEF CoarseScan, MinutesKept, Stored
    <2>2. span' \in Int \X Int /\ span'[1] .. span'[2] \subseteq Minutes
      <3> DEFINE T == Stored("1m")
      <3>1. LastMinute \in Nat /\ T \subseteq 0 .. LastMinute /\ T \subseteq Nat
        BY KeyIs, CandleBounds DEF Minutes
      <3>2. Min(T) \in 0 .. LastMinute /\ Max(T) \in 0 .. LastMinute
        BY <2>1, <3>1, SmallestNat, GreatestNat
      <3>3. span' = <<Min(T), Max(T)>>
        BY <1>4 DEF CoarseScan
      <3> HIDE DEF T
      <3> QED BY <3>1, <3>2, <3>3 DEF Minutes
    <2>3. /\ blocks' = {T \in {B(t) : t \in span'[1] .. span'[2]} : CountShort(T)}
          /\ doubled' = {t \in Stored("1m") : Cardinality(WithMinute(t)) > 1}
      BY <1>4 DEF CoarseScan
    <2>4. ASSUME NEW t \in span'[1] .. span'[2], t \notin Stored("1m"), t \notin UNION blocks'
          PROVE  Hidden(t)'
      <3>1. B(t) \in SUBSET Minutes /\ t \in B(t) /\ \A u \in B(t) : u \div Hour = t \div Hour
        BY <2>2, <2>4 DEF BlockOf
      <3> HIDE DEF B
      <3>2. ~CountShort(B(t))
        BY <2>3, <2>4, <3>1
      <3>3. PICK u \in B(t) : u \in Stored("1m") /\ Cardinality(WithMinute(u)) > 1
        BY <2>4, <3>1, <3>2, ScanFinds
      <3>4. u \in doubled' /\ u \div Hour = t \div Hour
        BY <2>3, <3>1, <3>3
      <3> QED BY <3>4 DEF Hidden
    <2>5. MissingKnown'
      BY <2>1, <2>4 DEF MissingKnown, Runs
    <2> QED BY <2>1, <2>5 DEF HolesInv, MinutesKept, FilledWhenDone
  <1>5. CASE FineScan
    <2>1. /\ Stored("1m")' = Stored("1m") /\ filler' = "idle" /\ fast = "fine" /\ fast' = "fetch"
          /\ span' = span /\ doubled' = doubled
      BY <1>2, <1>5 DEF FineScan, Stored
    <2>2. gaps' = Merged((UNION blocks) \ Stored("1m"))
      BY <1>5 DEF FineScan
    <2>3. (UNION blocks) \ Stored("1m") \in SUBSET Minutes
      BY <1>1 DEF FillersTyped
    <2>4. \A t \in (UNION blocks) \ Stored("1m") : \E g \in gaps' : g[1] <= t /\ t <= g[2]
      BY <2>2, <2>3, MergedCovers
    <2>5. \A t \in Runs(span[1], span[2]) : t \in Stored("1m") \/ InGap(t)' \/ Hidden(t)
      <3>1. \A t \in Runs(span[1], span[2]) : t \in Stored("1m") \cup UNION blocks \/ Hidden(t)
        BY <1>1, <2>1 DEF MissingKnown
      <3>2. \A t \in UNION blocks : t \in Stored("1m") \/ InGap(t)'
        <4> SUFFICES ASSUME NEW t \in UNION blocks, t \notin Stored("1m") PROVE InGap(t)'
          OBVIOUS
        <4>1. PICK g \in gaps' : g[1] <= t /\ t <= g[2]
          BY <2>4
        <4> QED BY <4>1 DEF InGap
      <3> QED BY <3>1, <3>2
    <2>6. \A t : Hidden(t)' <=> Hidden(t)
      BY <2>1 DEF Hidden
    <2>7. MissingKnown'
      BY <2>1, <2>5, <2>6 DEF MissingKnown, Runs
    <2> QED BY <1>1, <2>1, <2>7 DEF HolesInv, MinutesKept, FilledWhenDone
  <1>6. CASE FetchAndFill
    <2>1. /\ Fill /\ filler' = "idle" /\ fast = "fetch" /\ fast' = "fetch"
          /\ span' = span /\ doubled' = doubled
      BY <1>2, <1>6 DEF FetchAndFill
    <2>2. Stored("1m") \subseteq Stored("1m")' /\ (complete' => complete)
      BY <2>1, FillIs
    <2>3. ASSUME complete', NEW t \in Runs(span[1], span[2]), ~Hidden(t)
          PROVE  t \in Stored("1m")' \/ InGap(t)'
      <3>1. t \in Int /\ Listed <= t
        BY <2>3 DEF Runs
      <3>2. t \in Stored("1m") \/ InGap(t)
        BY <1>1, <2>1, <2>2, <2>3 DEF MissingKnown
      <3> QED BY <2>1, <2>3, <3>1, <3>2, GapFilled
    <2>4. \A t : Hidden(t)' <=> Hidden(t)
      BY <2>1 DEF Hidden
    <2>5. MissingKnown'
      BY <2>1, <2>3, <2>4 DEF MissingKnown, Runs
    <2> QED BY <1>1, <2>1, <2>2, <2>5 DEF HolesInv, MinutesKept, FilledWhenDone
  <1>7. CASE FastFillerEnds
    <2>1. filler' = "idle" /\ fast' = "idle"
      BY <1>2, <1>7 DEF FastFillerEnds
    <2> QED BY <2>1 DEF HolesInv, MinutesKept, MissingKnown, FilledWhenDone
  <1> QED BY <1>3, <1>4, <1>5, <1>6, <1>7 DEF FastFiller

-----------------------------------------------------------------------------
LEMMA CandlesStart == CandlesInit => CandlesInv
  <1> SUFFICES ASSUME CandlesInit PROVE CandlesInv
    OBVIOUS
  <1>1. FeedOrdered
    <2>1. agg.last = -1 /\ now = 0 /\ wire = <<>> /\ bus = <<>> /\ taking.at = "idle"
      BY DEF CandlesInit, NoAggregation, NoPeriod, IdleRecorder
    <2> QED BY <2>1 DEF FeedOrdered, Sorted
  <1>2. Collected(agg) /\ Reached /\ CollectedIsWhole
    BY CollectedStart DEF CandlesInit, Reached, CollectedIsWhole, IdleRecorder
  <1>3. HolesInv
    BY DEF CandlesInit, HolesInv, MinutesKept, MissingKnown, FilledWhenDone
  <1> QED BY <1>1, <1>2, <1>3, TypesStart DEF CandlesInv

LEMMA StepKeepsCandles ==
  ASSUME CandlesInv, [CandlesNext]_candleVars
  PROVE  CandlesInv'
  <1>1. CandlesTyped /\ FeedOrdered /\ Collected(agg) /\ Reached /\ CollectedIsWhole /\ HolesInv /\ MinutesKept
    BY DEF CandlesInv, HolesInv
  <1>2. CASE MinuteEnds \/ PushedAgain \/ PublishKline
    <2>1. UNCHANGED recorderVars
      BY <1>2 DEF MinuteEnds, PushedAgain, PublishKline
    <2> QED BY <1>1, <1>2, <2>1, TypesFeed, FeedStep, CollectedStep, HolesOthers DEF CandlesInv
  <1>3. CASE RecordKline
    <2>1. UNCHANGED <<now, wire, bus, recorderVars>>
      BY <1>3 DEF RecordKline
    <2> QED BY <1>1, <1>3, <2>1, TypesFeed, FeedUnchanged, CollectedStep, HolesOthers DEF CandlesInv
  <1>4. CASE StoreKline \/ AggregateKline \/ RecorderRestarts
    BY <1>1, <1>4, TypesRecorder, FeedStep, CollectedStep, HolesOthers DEF CandlesInv
  <1>5. CASE StoreBar
    <2>1. FeedOrdered'
      <3>1. agg' = agg /\ taking'.at # "aggregate" /\ now' = now /\ wire' = wire /\ bus' = bus
        BY <1>5 DEF StoreBar, IdleRecorder, feedVars
      <3> QED BY <1>1, <3>1 DEF FeedOrdered, Sorted
    <2> QED BY <1>1, <1>5, <2>1, TypesRecorder, CollectedStep, HolesOthers DEF CandlesInv
  <1>6. CASE GapFiller
    <2>1. UNCHANGED <<now, wire, bus, recorderVars>>
      BY <1>6 DEF GapFiller, StartGapFiller, ReadForDedupe, DeleteKey, InsertOnce, Detect, FillGap, Filled,
                  ReadExisting, WriteMissing, GapFillerStops, Then, feedVars
    <2> QED BY <1>1, <1>6, <2>1, TypesGapFiller, FeedUnchanged, CollectedStep, HolesGapFiller DEF CandlesInv
  <1>7. CASE FastFiller
    <2>1. UNCHANGED <<now, wire, bus, recorderVars>>
      BY <1>7 DEF FastFiller, StartFastFiller, CoarseScan, FineScan, FetchAndFill, FastFillerEnds, feedVars
    <2> QED BY <1>1, <1>7, <2>1, TypesFastFiller, FeedUnchanged, CollectedStep, HolesFastFiller DEF CandlesInv
  <1>8. CASE UNCHANGED candleVars
    <2>1. UNCHANGED <<feedVars, key, recorderVars, fillerVars, fastVars>>
      BY <1>8 DEF candleVars
    <2>2. UNCHANGED <<now, wire, bus, recorderVars>> /\ Stored("1m")' = Stored("1m")
      BY <2>1 DEF feedVars, Stored
    <2>3. CandlesTyped'
      BY <1>1, <2>1, TypesKept DEF CandlesTyped
    <2> QED BY <1>1, <2>1, <2>2, <2>3, FeedUnchanged, CollectedStep, HolesKept DEF CandlesInv
  <1> QED BY <1>2, <1>3, <1>4, <1>5, <1>6, <1>7, <1>8 DEF CandlesNext

(* Of the candles, the programs that write them and the order of the feed. *)
LEMMA CandlesInvariant == CandlesSpec => []CandlesInv
  <1>1. CandlesInv /\ [CandlesNext]_candleVars => CandlesInv'
    BY StepKeepsCandles
  <1> QED BY <1>1, CandlesStart, PTL DEF CandlesSpec

(* The fillers leave no hole: what the gap filler saw and could fetch is   *)
(* there when it has filled its gaps, whatever the recorders wrote and its *)
(* own deduplication deleted meanwhile, and a hole left by the fast filler *)
(* is hidden by a candle stored twice in its hour.                         *)
THEOREM HolesFilled == CandlesSpec => []FillersFindHoles
  <1>1. CandlesInv => FillersFindHoles
    <2> SUFFICES ASSUME CandlesInv PROVE FillersFindHoles
      OBVIOUS
    <2>1. MissingKnown /\ FilledWhenDone
      BY DEF CandlesInv, HolesInv
    <2>2. HolesHiddenByDuplicates
      BY <2>1 DEF MissingKnown, HolesHiddenByDuplicates, InGap, Hidden
    <2> QED BY <2>1, <2>2 DEF FillersFindHoles
  <1> QED BY <1>1, CandlesInvariant, PTL

(* The bars that the gap filler writes are of all the minutes of a period. *)
LEMMA FillerStep ==
  ASSUME CandlesInv, [CandlesNext]_candleVars, filler = "aggregate", filler' = "idle",
         NEW b \in key'["up"] \ key["up"]
  PROVE  Whole(b)
  <1>1. CandlesTyped
    BY DEF CandlesInv
  <1>2. fast = "idle"
    BY <1>1 DEF CandlesTyped, FillersTyped
  <1>3. WriteMissing \/ key' = key
    BY <1>2 DEF CandlesNext, candleVars, MinuteEnds, PushedAgain, PublishKline, RecordKline, StoreKline,
                AggregateKline, StoreBar, RecorderRestarts, GapFiller, StartGapFiller, ReadForDedupe,
                DeleteKey, InsertOnce, Detect, FillGap, Filled, ReadExisting, GapFillerStops, Then,
                FastFiller, StartFastFiller, CoarseScan, FineScan, FetchAndFill, FastFillerEnds, fillerVars, fastVars
  <1>4. WriteMissing
    BY <1>3
  <1>5. PICK p \in Groups : b = Bar(p, Group(p))
    BY <1>1, <1>4 DEF WriteMissing, CandlesTyped, KeyTyped, Keys
  <1>6. p \in Nat /\ Group(p).n >= N
    BY <1>1, <1>5, KeyIs, CandleIs, Division DEF Groups
  <1> DEFINE S == MinutesOf(p) \cap Stored("1m")
  <1>7. Group(p) = Made(S, Cardinality(S))
    BY DEF Group
  <1>8. S \in SUBSET MinutesOf(p)
    OBVIOUS
  <1> HIDE DEF S
  <1>9. Cardinality(S) >= N
    BY <1>6, <1>7 DEF Made
  <1>10. S = MinutesOf(p) /\ Cardinality(S) = N
    BY <1>6, <1>8, <1>9, MinutesOfIs
  <1> QED BY <1>5, <1>7, <1>10 DEF Whole, Bar

(* Longer candles are made of all the minutes of their period, and of no   *)
(* others, when data_recorder has collected enough and when the gap filler *)
(* writes one. One that data_recorder rebuilds at its last minute has no   *)
(* minute of another period; one rebuilt when a later period begins only   *)
(* of later periods of which data_recorder got no candle; and either is    *)
(* whole but for such minutes and for those stored twice.                  *)
THEOREM BarsAreWhole == CandlesSpec => BarsWhole
  <1>1. CandlesInv /\ CandlesInv' /\ [CandlesNext]_candleVars => [CollectedIsWhole']_candleVars
    BY DEF CandlesInv
  <1>2. CandlesInv /\ [CandlesNext]_candleVars =>
          [filler = "aggregate" /\ filler' = "idle" =>
             \A b \in key'["up"] \ key["up"] : Whole(b)]_candleVars
    BY FillerStep
  <1>3. CandlesSpec => [][CollectedIsWhole']_candleVars
    BY <1>1, CandlesInvariant, PTL DEF CandlesSpec
  <1>4. CandlesSpec => FillerWritesWhole
    BY <1>2, CandlesInvariant, PTL DEF CandlesSpec, FillerWritesWhole
  <1> QED BY <1>3, <1>4 DEF BarsWhole

(* The types of the candles' variables.                                    *)
THEOREM CandlesCorrect == CandlesSpec => []CandlesTypeOK
  <1>1. CandlesInv => CandlesTypeOK
    BY DEF CandlesInv, CandlesTyped, FeedTyped, KeyTyped, RecorderTyped, FillersTyped,
           CandlesTypeOK, Aggregation, Taking, LongCandle
  <1> QED BY <1>1, CandlesInvariant, PTL
=============================================================================
