----------------------- MODULE StrategyProcessesProofs -----------------------
(***************************************************************************)
(* The pids of the process manager, for any strategies, accounts and pids, *)
(* and any interleaving of starts, stops, deletions, late registrations,   *)
(* crashes and restarts.                                                   *)
(*                                                                         *)
(* An entry gets a pid from the fork itself or from a registration that    *)
(* was sent by that pid. So what has to be known besides the table is that *)
(* only a process that was started has sent anything (Born), and that a    *)
(* fork takes a pid which nobody had (NewPidIs).                           *)
(***************************************************************************)
EXTENDS StrategyProcesses, SequenceTheorems, WellFoundedInduction, TLAPS

Kinds == {"register", "heartbeat", "unregister"}
Lives == {"unborn", "alive", "signalled", "dead"}
Statuses == {"running", "stopped", "error", "pending"}

FilesTyped == configured \subseteq Strategies /\ cascade \subseteq Accounts

ProcessesTyped ==
  /\ owner \in [Pids -> Strategies \cup {Nobody}]
  /\ life \in [Pids -> Lives]
  /\ mail \in [Pids -> Seq(Kinds)]
  /\ table \in [Strategies -> Entry \cup {NoEntry}]
  /\ announced \subseteq Pids
  /\ overdue \subseteq Strategies /\ FilesTyped
  /\ up \in BOOLEAN /\ restarts \in Nat

(* A pid has an owner once it was started, and no message before.          *)
Born ==
  \A p \in Pids : IF life[p] = "unborn" THEN owner[p] = Nobody /\ mail[p] = <<>>
                  ELSE owner[p] \in Strategies

ProcessInv == ProcessesTyped /\ Born /\ EntryOwnsPid

-----------------------------------------------------------------------------
LEMMA FilesKept ==
  ASSUME ProcessInv, UNCHANGED files
  PROVE  FilesTyped'
  BY DEF ProcessInv, ProcessesTyped, FilesTyped, files

LEMMA EntryFields ==
  ASSUME NEW e \in Entry \cup {NoEntry}
  PROVE  e.pid \in Pids \cup {0} /\ e.status \in Statuses \cup {"none"}
  BY DEF Entry, NoEntry, Statuses

LEMMA EntryIs ==
  ASSUME NEW p \in Pids \cup {0}, NEW x \in Statuses
  PROVE  /\ [pid |-> p, status |-> x] \in Entry
         /\ [pid |-> p, status |-> x].pid = p /\ [pid |-> p, status |-> x].status = x
  BY DEF Entry, Statuses

LEMMA EntryMarked ==
  ASSUME NEW e \in Entry, NEW x \in Statuses
  PROVE  [e EXCEPT !.status = x] \in Entry /\ [e EXCEPT !.status = x].pid = e.pid
         /\ [e EXCEPT !.status = x].status = x
  BY DEF Entry, Statuses

LEMMA PidLeast ==
  ASSUME NEW P \in SUBSET Pids, P # {}
  PROVE  \E p \in P : \A q \in P : p <= q
  <1>1. P \subseteq Nat
    BY PidsAreNat
  <1>2. \E p \in P : \A q \in P : ~(<<q, p>> \in OpToRel(<, Nat))
    BY <1>1, NatLessThanWellFounded, WFMin
  <1>3. \A p, q \in Nat : q < p => <<q, p>> \in OpToRel(<, Nat)
    <2> SUFFICES ASSUME NEW p \in Nat, NEW q \in Nat, q < p
                 PROVE  <<q, p>> \in OpToRel(<, Nat)
      OBVIOUS
    <2> QED BY DEF OpToRel
  <1>4. PICK p \in P : \A q \in P : ~(<<q, p>> \in OpToRel(<, Nat))
    BY <1>2
  <1>5. ASSUME NEW q \in P PROVE p <= q
    <2>1. p \in Nat /\ q \in Nat /\ ~(q < p)
      BY <1>1, <1>3, <1>4
    <2> QED BY <2>1
  <1> QED BY <1>4, <1>5

LEMMA NewPidIs ==
  ASSUME \E p \in Pids : life[p] = "unborn"
  PROVE  NewPid \in Pids /\ life[NewPid] = "unborn"
  <1> DEFINE P == {p \in Pids : life[p] = "unborn"}
  <1>1. P \in SUBSET Pids /\ P # {}
    OBVIOUS
  <1>2. \E p \in P : \A q \in P : p <= q
    <2> HIDE DEF P
    <2> QED BY <1>1, PidLeast
  <1>3. \E p \in Pids : life[p] = "unborn" /\ \A q \in Pids : life[q] = "unborn" => p <= q
    BY <1>2
  <1> QED BY <1>3 DEF NewPid

-----------------------------------------------------------------------------
(* The parts of the invariant, by what a step does.                        *)

LEMMA BornKept ==
  ASSUME ProcessInv, UNCHANGED owner,
         \A p \in Pids : life'[p] = "unborn" <=> life[p] = "unborn",
         \A p \in Pids : life[p] = "unborn" => mail'[p] = <<>>
  PROVE  Born'
  BY DEF ProcessInv, Born

(* Pids of the table are kept, forgotten, or replaced by one's own.        *)
LEMMA PidsKept ==
  ASSUME ProcessInv, UNCHANGED owner,
         \A s \in Strategies : \/ table'[s].pid \in {0, table[s].pid}
                               \/ owner[table'[s].pid] = s
  PROVE  EntryOwnsPid'
  BY DEF ProcessInv, EntryOwnsPid

LEMMA SignalledIs ==
  ASSUME ProcessInv, NEW P
  PROVE  /\ Signalled(P) \in [Pids -> Lives]
         /\ \A p \in Pids : Signalled(P)[p] = "unborn" <=> life[p] = "unborn"
         /\ \A p \in Pids : life[p] = "alive" /\ Signalled(P)[p] = "signalled" => p \in P
  <1>1. life \in [Pids -> Lives]
    BY DEF ProcessInv, ProcessesTyped
  <1> QED BY <1>1 DEF Signalled, Lives

LEMMA TakenIs ==
  ASSUME ProcessInv, NEW p \in Pids, NEW kind, Take(p, kind)
  PROVE  /\ mail' \in [Pids -> Seq(Kinds)] /\ life[p] # "unborn" /\ owner[p] \in Strategies
         /\ \A q \in Pids : life[q] = "unborn" => mail'[q] = <<>>
  <1>1. mail \in [Pids -> Seq(Kinds)] /\ mail[p] # <<>>
    BY DEF ProcessInv, ProcessesTyped, Take
  <1>2. Tail(mail[p]) \in Seq(Kinds) /\ mail' = [mail EXCEPT ![p] = Tail(mail[p])]
    BY <1>1, HeadTailProperties DEF Take
  <1>3. life[p] # "unborn" /\ owner[p] \in Strategies
    BY <1>1 DEF ProcessInv, Born
  <1> QED BY <1>1, <1>2, <1>3 DEF ProcessInv, Born

LEMMA SentIs ==
  ASSUME ProcessInv, NEW p \in Living, NEW kind \in Kinds,
         mail' = [mail EXCEPT ![p] = Append(@, kind)]
  PROVE  /\ mail' \in [Pids -> Seq(Kinds)]
         /\ \A q \in Pids : life[q] = "unborn" => mail'[q] = <<>>
  <1>1. mail \in [Pids -> Seq(Kinds)] /\ p \in Pids /\ life[p] # "unborn"
    BY DEF ProcessInv, ProcessesTyped, Living
  <1>2. Append(mail[p], kind) \in Seq(Kinds)
    BY <1>1, AppendProperties
  <1> QED BY <1>1, <1>2 DEF ProcessInv, Born

LEMMA SpawnedIs ==
  ASSUME ProcessInv, NEW s \in Strategies, Spawn(s), UNCHANGED mail
  PROVE  /\ NewPid \in Pids /\ NewPid # 0 /\ owner'[NewPid] = s
         /\ owner' \in [Pids -> Strategies \cup {Nobody}]
         /\ life' \in [Pids -> Lives] /\ announced' = announced
         /\ Born'
         /\ \A t \in Strategies : table[t].pid # 0 => owner'[table[t].pid] = t
  <1> PICK p : p = NewPid
    OBVIOUS
  <1>1. p \in Pids /\ life[p] = "unborn" /\ p # 0
    BY NewPidIs, PidsAreNat DEF Spawn
  <1>2. /\ owner' = [owner EXCEPT ![p] = s] /\ life' = [life EXCEPT ![p] = "alive"]
        /\ announced' = announced
    BY DEF Spawn
  <1>3. /\ owner \in [Pids -> Strategies \cup {Nobody}] /\ life \in [Pids -> Lives]
        /\ mail \in [Pids -> Seq(Kinds)]
    BY DEF ProcessInv, ProcessesTyped
  <1>4. owner[p] = Nobody /\ Nobody \notin Strategies
    BY <1>1, ProcessBounds DEF ProcessInv, Born
  <1>5. Born'
    BY <1>1, <1>2, <1>3 DEF ProcessInv, Born
  <1>6. ASSUME NEW t \in Strategies, table[t].pid # 0 PROVE owner'[table[t].pid] = t
    <2>1. owner[table[t].pid] = t
      BY <1>6 DEF ProcessInv, EntryOwnsPid
    <2>2. table[t].pid \in Pids /\ table[t].pid # p
      BY <1>4, <1>6, <2>1, EntryFields DEF ProcessInv, ProcessesTyped
    <2> QED BY <1>2, <1>3, <2>1, <2>2
  <1> QED BY <1>1, <1>2, <1>3, <1>5, <1>6 DEF Lives

-----------------------------------------------------------------------------
(* The steps.                                                              *)

LEMMA ProcessesStart == Init => ProcessInv
  <1> SUFFICES ASSUME Init PROVE ProcessInv
    OBVIOUS
  <1>1. \A s \in Strategies : table[s] = [pid |-> 0, status |-> "pending"]
    BY DEF Init, Loaded
  <1>2. [pid |-> 0, status |-> "pending"] \in Entry
    BY DEF Entry
  <1>3. table \in [Strategies -> Entry \cup {NoEntry}]
    BY <1>2 DEF Init, Loaded
  <1>4. ProcessesTyped
    BY <1>3 DEF Init, ProcessesTyped, FilesTyped, Lives, Kinds
  <1> QED BY <1>1, <1>4 DEF Init, ProcessInv, Born, EntryOwnsPid

LEMMA LaunchKeeps ==
  ASSUME ProcessInv, NEW s \in Strategies, LaunchByHand(s)
  PROVE  ProcessInv'
  <1>1. Spawn(s) /\ UNCHANGED <<mail, table, overdue, up, restarts, files>>
    BY DEF LaunchByHand
  <1>2. EntryOwnsPid'
    BY <1>1, SpawnedIs DEF EntryOwnsPid
  <1> QED BY <1>1, <1>2, SpawnedIs, FilesKept DEF ProcessInv, ProcessesTyped

LEMMA ProcessKeeps ==
  ASSUME ProcessInv, NEW p \in Pids,
         Announce(p) \/ Heartbeat(p) \/ Unregister(p) \/ Exit(p)
  PROVE  ProcessInv'
  <1>1. /\ UNCHANGED <<owner, table, overdue, up, restarts, files>>
        /\ p \in Living /\ announced' \subseteq Pids
    BY DEF Announce, Heartbeat, Unregister, Exit, procs, ProcessInv, ProcessesTyped
  <1>f. FilesTyped'
    BY <1>1, FilesKept
  <1>2. EntryOwnsPid'
    BY <1>1 DEF ProcessInv, EntryOwnsPid
  <1>3. CASE Announce(p) \/ Heartbeat(p) \/ Unregister(p)
    <2>1. life' = life /\ \E kind \in Kinds : mail' = [mail EXCEPT ![p] = Append(@, kind)]
      BY <1>3 DEF Announce, Heartbeat, Unregister, procs, Kinds
    <2>2. /\ mail' \in [Pids -> Seq(Kinds)]
          /\ \A q \in Pids : life[q] = "unborn" => mail'[q] = <<>>
      BY <1>1, <2>1, SentIs
    <2>3. Born'
      BY <1>1, <2>1, <2>2, BornKept
    <2> QED BY <1>1, <1>f, <1>2, <2>1, <2>2, <2>3 DEF ProcessInv, ProcessesTyped
  <1>4. CASE Exit(p)
    <2>1. /\ life' = [life EXCEPT ![p] = "dead"] /\ life[p] # "unborn"
          /\ life \in [Pids -> Lives] /\ mail \in [Pids -> Seq(Kinds)]
      BY <1>1, <1>4 DEF Exit, Living, ProcessInv, ProcessesTyped
    <2>2. life' \in [Pids -> Lives] /\ \A q \in Pids : life'[q] = "unborn" <=> life[q] = "unborn"
      BY <2>1 DEF Lives
    <2>3. mail' = mail \/ mail' = [mail EXCEPT ![p] = <<>>]
      BY <1>4 DEF Exit
    <2>4. /\ mail' \in [Pids -> Seq(Kinds)]
          /\ \A q \in Pids : life[q] = "unborn" => mail'[q] = <<>>
      <3>1. [mail EXCEPT ![p] = <<>>] \in [Pids -> Seq(Kinds)]
        BY <2>1
      <3>2. \A q \in Pids : mail'[q] \in {mail[q], <<>>}
        BY <2>1, <2>3
      <3> QED BY <2>1, <2>3, <3>1, <3>2 DEF ProcessInv, Born
    <2>5. Born'
      BY <1>1, <2>2, <2>4, BornKept
    <2> QED BY <1>1, <1>f, <1>2, <2>2, <2>4, <2>5 DEF ProcessInv, ProcessesTyped
  <1> QED BY <1>3, <1>4

(* The order thread.                                                       *)
LEMMA RegisterKeeps ==
  ASSUME ProcessInv, NEW p \in Pids, RegisterStrategy(p)
  PROVE  ProcessInv'
  <1>1. Take(p, "register") /\ UNCHANGED <<owner, life, announced, up, restarts, files>>
    BY DEF RegisterStrategy, procs
  <1>2. /\ mail' \in [Pids -> Seq(Kinds)] /\ owner[p] \in Strategies
        /\ \A q \in Pids : life[q] = "unborn" => mail'[q] = <<>>
    BY <1>1, TakenIs
  <1> PICK e \in Entry : e = [pid |-> p, status |-> "running"] /\ e.pid = p
    BY EntryIs DEF Statuses
  <1>3. table \in [Strategies -> Entry \cup {NoEntry}]
    BY DEF ProcessInv, ProcessesTyped
  <1>4. \/ table' = [table EXCEPT ![owner[p]] = e] /\ overdue' = overdue \ {owner[p]}
        \/ UNCHANGED <<table, overdue>>
    BY DEF RegisterStrategy
  <1>5. /\ table' \in [Strategies -> Entry \cup {NoEntry}]
        /\ \A s \in Strategies : table'[s] = table[s] \/ (s = owner[p] /\ table'[s] = e)
    BY <1>2, <1>3, <1>4
  <1>6. EntryOwnsPid'
    BY <1>1, <1>5, PidsKept
  <1>7. Born'
    BY <1>1, <1>2, BornKept
  <1> QED BY <1>1, <1>2, <1>4, <1>5, <1>6, <1>7, FilesKept DEF ProcessInv, ProcessesTyped

LEMMA HeartbeatKeeps ==
  ASSUME ProcessInv, NEW p \in Pids, RecordHeartbeat(p)
  PROVE  ProcessInv'
  <1>1. Take(p, "heartbeat") /\ UNCHANGED <<owner, life, announced, up, restarts, files>>
    BY DEF RecordHeartbeat, procs
  <1>2. /\ mail' \in [Pids -> Seq(Kinds)] /\ owner[p] \in Strategies
        /\ \A q \in Pids : life[q] = "unborn" => mail'[q] = <<>>
    BY <1>1, TakenIs
  <1> PICK s \in Strategies : s = owner[p]
    BY <1>2
  <1>3. table \in [Strategies -> Entry \cup {NoEntry}] /\ overdue \subseteq Strategies
    BY DEF ProcessInv, ProcessesTyped
  <1>4. overdue' \subseteq Strategies
    BY <1>3 DEF RecordHeartbeat
  <1> PICK e : e = [table[s] EXCEPT !.status = "running"]
    OBVIOUS
  <1>5. table' = table \/ (Known(s) /\ table' = [table EXCEPT ![s] = e])
    BY DEF RecordHeartbeat
  <1>6. Known(s) => e \in Entry /\ e.pid = table[s].pid
    <2>1. Known(s) => table[s] \in Entry
      BY <1>3 DEF Known
    <2>2. "running" \in Statuses
      BY DEF Statuses
    <2> QED BY <2>1, <2>2, EntryMarked
  <1>7. /\ table' \in [Strategies -> Entry \cup {NoEntry}]
        /\ \A t \in Strategies : table'[t].pid = table[t].pid
    BY <1>3, <1>5, <1>6
  <1>8. EntryOwnsPid'
    BY <1>1, <1>7, PidsKept
  <1>9. Born'
    BY <1>1, <1>2, BornKept
  <1> QED BY <1>1, <1>2, <1>4, <1>7, <1>8, <1>9, FilesKept DEF ProcessInv, ProcessesTyped

(* A command or a request that removes entries and signals processes.      *)
WithoutEntries(T) == [s \in Strategies |-> IF s \in T THEN NoEntry ELSE table[s]]

LEMMA RemovalKeeps ==
  ASSUME ProcessInv, NEW P, NEW T, life' = Signalled(P), table' = WithoutEntries(T), overdue' = overdue \ T,
         mail' \in [Pids -> Seq(Kinds)],
         \A q \in Pids : life[q] = "unborn" => mail'[q] = <<>>,
         FilesTyped',
         UNCHANGED <<owner, announced, up, restarts>>
  PROVE  ProcessInv'
  <1>1. table' \in [Strategies -> Entry \cup {NoEntry}] /\ NoEntry.pid = 0
    BY DEF ProcessInv, ProcessesTyped, NoEntry, WithoutEntries
  <1>2. \A s \in Strategies : table'[s] = NoEntry \/ table'[s] = table[s]
    BY DEF WithoutEntries
  <1>3. EntryOwnsPid'
    BY <1>1, <1>2, PidsKept
  <1>4. Born'
    BY SignalledIs, BornKept
  <1> QED BY <1>1, <1>3, <1>4, SignalledIs DEF ProcessInv, ProcessesTyped

(* Those whose entries StopAndRemoveByAccount removes, and the pids it     *)
(* signals.                                                                *)
OfAccount(a) == {s \in Strategies : Known(s) /\ AccountOf[s] = a}
RunningPids(T) == {table[s].pid : s \in {t \in T : table[t].status = "running"}}

LEMMA RemovesOfAccount ==
  ASSUME NEW a, StopAndRemoveByAccount(a)
  PROVE  /\ life' = Signalled(RunningPids(OfAccount(a))) /\ table' = WithoutEntries(OfAccount(a))
         /\ overdue' = overdue \ OfAccount(a) /\ UNCHANGED <<owner, announced>>
  BY DEF StopAndRemoveByAccount, OfAccount, RunningPids, WithoutEntries

LEMMA UnregisterKeeps ==
  ASSUME ProcessInv, NEW p \in Pids, UnregisterStrategy(p)
  PROVE  ProcessInv'
  <1>1. Take(p, "unregister") /\ UNCHANGED <<up, restarts, files>>
    BY DEF UnregisterStrategy
  <1>2. /\ mail' \in [Pids -> Seq(Kinds)] /\ FilesTyped'
        /\ \A q \in Pids : life[q] = "unborn" => mail'[q] = <<>>
    BY <1>1, TakenIs, FilesKept
  <1>3. CASE StopAndRemoveByAccount(AccountOf[owner[p]])
    BY <1>1, <1>2, <1>3, RemovesOfAccount, RemovalKeeps
  <1>4. CASE UNCHANGED <<procs, table, overdue>>
    <2>1. UNCHANGED <<owner, life, announced>>
      BY <1>4 DEF procs
    <2>2. Born'
      BY <1>2, <2>1, BornKept
    <2> QED BY <1>1, <1>2, <1>4, <2>1, <2>2 DEF ProcessInv, ProcessesTyped, EntryOwnsPid
  <1> QED BY <1>3, <1>4 DEF UnregisterStrategy

LEMMA UnregisterAccountKeeps ==
  ASSUME ProcessInv, NEW a \in Accounts, UnregisterAccount(a)
  PROVE  ProcessInv'
  <1>1. StopAndRemoveByAccount(a) /\ UNCHANGED <<mail, up, restarts, configured>> /\ cascade' = {a}
    BY DEF UnregisterAccount
  <1>2. /\ mail' \in [Pids -> Seq(Kinds)] /\ FilesTyped'
        /\ \A q \in Pids : life[q] = "unborn" => mail'[q] = <<>>
    BY <1>1 DEF ProcessInv, ProcessesTyped, FilesTyped, Born
  <1> QED BY <1>1, <1>2, RemovesOfAccount, RemovalKeeps

(* Steps that touch processes by signals only, and the table entry by      *)
(* entry, keeping pids.                                                    *)
LEMMA MarkingKeeps ==
  ASSUME ProcessInv, table' \in [Strategies -> Entry \cup {NoEntry}],
         \A s \in Strategies : table'[s].pid \in {0, table[s].pid},
         life' \in [Pids -> Lives], \A p \in Pids : life'[p] = "unborn" <=> life[p] = "unborn",
         overdue' \subseteq Strategies, FilesTyped',
         up' \in BOOLEAN, restarts' \in Nat, UNCHANGED <<owner, announced>>,
         mail' \in [Pids -> Seq(Kinds)],
         \A q \in Pids : life[q] = "unborn" => mail'[q] = <<>>
  PROVE  ProcessInv'
  <1>1. EntryOwnsPid' /\ Born'
    BY PidsKept, BornKept
  <1>2. ProcessesTyped'
    BY DEF ProcessInv, ProcessesTyped
  <1> QED BY <1>1, <1>2 DEF ProcessInv

(* What a step that leaves the mail alone needs to know of it.             *)
LEMMA MailTyped ==
  ASSUME ProcessInv
  PROVE  /\ mail \in [Pids -> Seq(Kinds)] /\ life \in [Pids -> Lives]
         /\ \A q \in Pids : life[q] = "unborn" => mail[q] = <<>>
         /\ table \in [Strategies -> Entry \cup {NoEntry}] /\ overdue \subseteq Strategies
         /\ FilesTyped /\ up \in BOOLEAN /\ restarts \in Nat
  BY DEF ProcessInv, ProcessesTyped, Born

(* One entry's status changes.                                             *)
LEMMA StatusSet ==
  ASSUME ProcessInv, NEW s \in Strategies, Known(s), NEW x \in Statuses,
         table' = [table EXCEPT ![s].status = x]
  PROVE  /\ table' \in [Strategies -> Entry \cup {NoEntry}]
         /\ \A t \in Strategies : table'[t].pid = table[t].pid
         /\ table'[s].status = x
  <1>1. table \in [Strategies -> Entry \cup {NoEntry}] /\ table[s] \in Entry
    BY MailTyped DEF Known
  <1> PICK e : e = [table[s] EXCEPT !.status = x]
    OBVIOUS
  <1>2. e \in Entry /\ e.pid = table[s].pid /\ e.status = x
    BY <1>1, EntryMarked
  <1>3. table' = [table EXCEPT ![s] = e]
    OBVIOUS
  <1> QED BY <1>1, <1>2, <1>3

LEMMA StopKeeps ==
  ASSUME ProcessInv, NEW s \in Strategies, StopStrategy(s)
  PROVE  ProcessInv'
  <1>1. /\ UNCHANGED <<owner, announced, mail, overdue, up, restarts>> /\ FilesTyped' /\ Known(s)
        /\ table' = [table EXCEPT ![s].status = "stopped"]
    BY FilesKept DEF StopStrategy
  <1>2. life' = life \/ life' = Signalled({table[s].pid})
    BY DEF StopStrategy
  <1>3. life' \in [Pids -> Lives] /\ \A p \in Pids : life'[p] = "unborn" <=> life[p] = "unborn"
    BY <1>2, SignalledIs, MailTyped
  <1>4. "stopped" \in Statuses
    BY DEF Statuses
  <1> QED BY <1>1, <1>3, <1>4, StatusSet, MailTyped, MarkingKeeps

LEMMA StartKeeps ==
  ASSUME ProcessInv, NEW s \in Strategies, StartStrategy(s)
  PROVE  ProcessInv'
  <1>1. UNCHANGED <<mail, up, restarts>> /\ FilesTyped' /\ Known(s)
    BY FilesKept DEF StartStrategy
  <1>2. CASE Spawn(s) /\ table' = [table EXCEPT ![s] = [pid |-> NewPid, status |-> "running"]]
             /\ overdue' = overdue \ {s}
    <2>1. /\ NewPid \in Pids /\ owner'[NewPid] = s
          /\ owner' \in [Pids -> Strategies \cup {Nobody}]
          /\ life' \in [Pids -> Lives] /\ announced' = announced /\ Born'
          /\ \A t \in Strategies : table[t].pid # 0 => owner'[table[t].pid] = t
      BY <1>1, <1>2, SpawnedIs
    <2> PICK e \in Entry : e = [pid |-> NewPid, status |-> "running"] /\ e.pid = NewPid
      BY <2>1, EntryIs DEF Statuses
    <2>2. /\ table' \in [Strategies -> Entry \cup {NoEntry}]
          /\ \A t \in Strategies : table'[t] = IF t = s THEN e ELSE table[t]
      BY <1>2, MailTyped
    <2>3. EntryOwnsPid'
      BY <2>1, <2>2 DEF EntryOwnsPid
    <2> QED BY <1>1, <1>2, <2>1, <2>2, <2>3 DEF ProcessInv, ProcessesTyped
  <1>3. CASE table' = [table EXCEPT ![s].status = "error"] /\ UNCHANGED <<procs, overdue>>
    <2>1. UNCHANGED <<owner, life, announced, overdue>> /\ "error" \in Statuses
      BY <1>3 DEF procs, Statuses
    <2> QED BY <1>1, <1>3, <2>1, StatusSet, MailTyped, MarkingKeeps
  <1> QED BY <1>2, <1>3 DEF StartStrategy

LEMMA CreateKeeps ==
  ASSUME ProcessInv, NEW s \in Strategies, CreateStrategy(s)
  PROVE  ProcessInv'
  <1>1. /\ UNCHANGED <<owner, life, announced, mail, up, restarts>>
        /\ configured' = configured \cup {s} /\ cascade' = cascade /\ overdue' = overdue \ {s}
    BY DEF CreateStrategy, procs
  <1> PICK e \in Entry : e = [pid |-> 0, status |-> "stopped"] /\ e.pid = 0
    BY EntryIs DEF Statuses
  <1>2. /\ table' \in [Strategies -> Entry \cup {NoEntry}]
        /\ \A t \in Strategies : table'[t] = IF t = s THEN e ELSE table[t]
    BY MailTyped DEF CreateStrategy
  <1>3. \A t \in Strategies : table'[t].pid \in {0, table[t].pid}
    BY <1>2
  <1>4. FilesTyped' /\ overdue' \subseteq Strategies
    BY <1>1, MailTyped DEF FilesTyped
  <1> QED BY <1>1, <1>2, <1>3, <1>4, MailTyped, MarkingKeeps

LEMMA DeleteKeeps ==
  ASSUME ProcessInv, NEW s \in Strategies, DeleteStrategy(s)
  PROVE  ProcessInv'
  <1>1. /\ UNCHANGED <<owner, announced, mail, up, restarts>>
        /\ configured' = configured \ {s} /\ cascade' = cascade /\ overdue' = overdue \ {s}
        /\ table' = [table EXCEPT ![s] = NoEntry]
    BY DEF DeleteStrategy
  <1>2. life' = life \/ life' = Signalled({table[s].pid})
    BY DEF DeleteStrategy
  <1>3. life' \in [Pids -> Lives] /\ \A p \in Pids : life'[p] = "unborn" <=> life[p] = "unborn"
    BY <1>2, SignalledIs, MailTyped
  <1>4. /\ table' \in [Strategies -> Entry \cup {NoEntry}]
        /\ \A t \in Strategies : table'[t].pid \in {0, table[t].pid}
    BY <1>1, MailTyped DEF NoEntry
  <1>5. FilesTyped' /\ overdue' \subseteq Strategies
    BY <1>1, MailTyped DEF FilesTyped
  <1> QED BY <1>1, <1>3, <1>4, <1>5, MailTyped, MarkingKeeps

(* Entries that run and are in T are marked stopped.                       *)
LEMMA StoppedSet ==
  ASSUME ProcessInv, NEW T,
         table' = [s \in Strategies |-> IF s \in T /\ table[s].status = "running"
                     THEN [table[s] EXCEPT !.status = "stopped"] ELSE table[s]]
  PROVE  /\ table' \in [Strategies -> Entry \cup {NoEntry}]
         /\ \A t \in Strategies : table'[t].pid = table[t].pid
  <1>1. ASSUME NEW s \in Strategies, table[s].status = "running"
        PROVE  /\ [table[s] EXCEPT !.status = "stopped"] \in Entry
               /\ [table[s] EXCEPT !.status = "stopped"].pid = table[s].pid
    <2>1. table[s] \in Entry
      BY <1>1, MailTyped DEF NoEntry
    <2>2. "stopped" \in Statuses
      BY DEF Statuses
    <2> QED BY <2>1, <2>2, EntryMarked
  <1> QED BY <1>1, MailTyped

LEMMA MainLoopKeeps ==
  ASSUME ProcessInv, CheckHeartbeats \/ \E s \in Strategies : TimePasses(s)
  PROVE  ProcessInv'
  <1>1. CASE CheckHeartbeats
    <2>1. UNCHANGED <<owner, life, announced, mail, overdue, up, restarts>> /\ FilesTyped'
      BY <1>1, FilesKept DEF CheckHeartbeats, procs
    <2>2. table' = [s \in Strategies |-> IF s \in overdue /\ table[s].status = "running"
                      THEN [table[s] EXCEPT !.status = "stopped"] ELSE table[s]]
      BY <1>1 DEF CheckHeartbeats
    <2> QED BY <2>1, <2>2, StoppedSet, MailTyped, MarkingKeeps
  <1>2. CASE \E s \in Strategies : TimePasses(s)
    <2>1. UNCHANGED <<owner, life, announced, mail, table, up, restarts>> /\ FilesTyped'
      BY <1>2, FilesKept DEF TimePasses, procs
    <2>2. overdue' \subseteq Strategies
      BY <1>2, MailTyped DEF TimePasses
    <2> QED BY <2>1, <2>2, MailTyped, MarkingKeeps
  <1> QED BY <1>1, <1>2

LEMMA DeleteConfigsKeeps ==
  ASSUME ProcessInv, DeleteConfigs
  PROVE  ProcessInv'
  <1>1. UNCHANGED <<owner, life, announced, mail, table, overdue, up, restarts>> /\ FilesTyped'
    BY MailTyped DEF DeleteConfigs, FilesTyped, procs
  <1> QED BY <1>1, MailTyped, MarkingKeeps

LEMMA EndKeeps ==
  ASSUME ProcessInv, Shutdown \/ ServerCrashes \/ ServerKilled
  PROVE  ProcessInv'
  <1>1. UNCHANGED <<owner, announced, mail, overdue, restarts>> /\ up' = FALSE /\ FilesTyped'
    BY MailTyped DEF Shutdown, ServerCrashes, ServerKilled, FilesTyped, procs, files
  <1>2. \A p \in Pids : p \in Living => life[p] # "unborn"
    BY DEF Living
  <1>3. CASE Shutdown
    <2>1. PICK R : R = {s \in Strategies : table[s].pid # 0 /\ table[s].status = "running"}
      OBVIOUS
    <2>2. life' = [p \in Pids |->
                     IF R # {} /\ p \in Living /\ \E s \in Strategies : table[s].pid = p
                     THEN "dead" ELSE life[p]]
      BY <1>3, <2>1 DEF Shutdown
    <2>3. life' \in [Pids -> Lives] /\ \A p \in Pids : life'[p] = "unborn" <=> life[p] = "unborn"
      BY <1>2, <2>2, MailTyped DEF Lives
    <2>4. table' = [s \in Strategies |-> IF s \in R
                      THEN [table[s] EXCEPT !.status = "stopped"] ELSE table[s]]
      BY <1>3, <2>1 DEF Shutdown
    <2>5. table' = [s \in Strategies |-> IF s \in R /\ table[s].status = "running"
                      THEN [table[s] EXCEPT !.status = "stopped"] ELSE table[s]]
      BY <2>1, <2>4
    <2> QED BY <1>1, <2>3, <2>5, StoppedSet, MailTyped, MarkingKeeps
  <1>4. CASE ServerCrashes
    <2>1. table' = table /\
          life' = [p \in Pids |-> IF p \in Living /\ \E s \in Strategies : table[s].pid = p
                     THEN "dead" ELSE life[p]]
      BY <1>4 DEF ServerCrashes
    <2>2. life' \in [Pids -> Lives] /\ \A p \in Pids : life'[p] = "unborn" <=> life[p] = "unborn"
      BY <1>2, <2>1, MailTyped DEF Lives
    <2> QED BY <1>1, <2>1, <2>2, MailTyped, MarkingKeeps
  <1>5. CASE ServerKilled
    <2>1. UNCHANGED <<life, table>>
      BY <1>5 DEF ServerKilled, procs
    <2> QED BY <1>1, <2>1, MailTyped, MarkingKeeps
  <1> QED BY <1>3, <1>4, <1>5

LEMMA RestartKeeps == ProcessInv /\ Restart => ProcessInv'
  <1> SUFFICES ASSUME ProcessInv, Restart PROVE ProcessInv'
    OBVIOUS
  <1>1. /\ UNCHANGED <<owner, life, announced>> /\ FilesTyped' /\ table' = Loaded
        /\ up' = TRUE /\ restarts' \in Nat /\ overdue' = {}
    BY MailTyped, FilesKept DEF Restart, procs
  <1>2. PICK P \in SUBSET Pids : mail' = [p \in Pids |-> IF p \in P THEN <<>> ELSE mail[p]]
    BY DEF Restart
  <1>3. /\ mail' \in [Pids -> Seq(Kinds)]
        /\ \A q \in Pids : life[q] = "unborn" => mail'[q] = <<>>
    BY <1>2, MailTyped
  <1> PICK e \in Entry : e = [pid |-> 0, status |-> "pending"] /\ e.pid = 0
    BY EntryIs DEF Statuses
  <1>4. table' = [s \in Strategies |-> IF s \in configured THEN e ELSE NoEntry]
    BY <1>1 DEF Loaded
  <1>5. /\ table' \in [Strategies -> Entry \cup {NoEntry}]
        /\ \A s \in Strategies : table'[s].pid \in {0, table[s].pid}
    BY <1>4 DEF NoEntry
  <1> QED BY <1>1, <1>3, <1>5, MailTyped, MarkingKeeps

LEMMA StepKeepsProcesses == ProcessInv /\ [Next]_vars => ProcessInv'
  <1> SUFFICES ASSUME ProcessInv, [Next]_vars PROVE ProcessInv'
    OBVIOUS
  <1>1. CASE UNCHANGED vars
    BY <1>1 DEF vars, procs, files, ProcessInv, ProcessesTyped, FilesTyped, Born, EntryOwnsPid
  <1>2. CASE \E s \in Strategies : LaunchByHand(s) \/ StopStrategy(s) \/ StartStrategy(s)
                                   \/ CreateStrategy(s) \/ DeleteStrategy(s)
    BY <1>2, LaunchKeeps, StopKeeps, StartKeeps, CreateKeeps, DeleteKeeps
  <1>3. CASE \E p \in Pids : Announce(p) \/ Heartbeat(p) \/ Unregister(p) \/ Exit(p)
    BY <1>3, ProcessKeeps
  <1>4. CASE \E p \in Pids : OrderThread(p)
    BY <1>4, RegisterKeeps, HeartbeatKeeps, UnregisterKeeps DEF OrderThread
  <1>5. CASE (\E a \in Accounts : UnregisterAccount(a)) \/ DeleteConfigs
    BY <1>5, UnregisterAccountKeeps, DeleteConfigsKeeps
  <1>6. CASE CheckHeartbeats \/ \E s \in Strategies : TimePasses(s)
    BY <1>6, MainLoopKeeps
  <1>7. CASE Shutdown \/ ServerCrashes \/ ServerKilled
    BY <1>7, EndKeeps
  <1>8. CASE Restart
    BY <1>8, RestartKeeps
  <1> QED BY <1>1, <1>2, <1>3, <1>4, <1>5, <1>6, <1>7, <1>8 DEF Next

-----------------------------------------------------------------------------
(* Who is signalled.                                                       *)

AskedFor(p) ==
  /\ table[owner[p]] = [pid |-> p, status |-> "running"]
  /\ table'[owner[p]].status \in {"stopped", "none"}

(* A running entry's pid is that of its own process.                       *)
LEMMA RunningIs ==
  ASSUME ProcessInv, NEW s \in Strategies, table[s].status = "running", table[s].pid \in Pids
  PROVE  /\ owner[table[s].pid] = s
         /\ table[s] = [pid |-> table[s].pid, status |-> "running"]
  <1>1. table[s] \in Entry
    BY MailTyped DEF NoEntry
  <1>2. table[s].pid # 0
    BY PidsAreNat
  <1> QED BY <1>1, <1>2 DEF Entry, ProcessInv, EntryOwnsPid

(* An operation that signals running entries and marks or removes them.    *)
LEMMA SignalsAskedFor ==
  ASSUME ProcessInv, NEW T \in SUBSET Strategies, life' = Signalled(RunningPids(T)),
         \A s \in T : table[s].status = "running" => table'[s].status \in {"stopped", "none"},
         NEW p \in Pids, life[p] = "alive", life'[p] = "signalled"
  PROVE  AskedFor(p)
  <1>1. p \in RunningPids(T)
    BY SignalledIs
  <1>2. PICK s \in T : table[s].status = "running" /\ table[s].pid = p
    BY <1>1 DEF RunningPids
  <1> QED BY <1>2, RunningIs DEF AskedFor

LEMMA StepAsked ==
  ASSUME ProcessInv, [Next]_vars, NEW p \in Pids, life[p] = "alive", life'[p] = "signalled"
  PROVE  AskedFor(p)
  <1>1. ASSUME NEW s \in Strategies, StopStrategy(s) PROVE AskedFor(p)
    <2>1. table[s].status = "running" /\ life' = Signalled({table[s].pid})
      BY <1>1 DEF StopStrategy
    <2>2. {table[s].pid} = RunningPids({s})
      BY <2>1 DEF RunningPids
    <2>3. table'[s].status = "stopped"
      BY <1>1, StatusSet DEF StopStrategy, Statuses
    <2> QED BY <2>1, <2>2, <2>3, SignalsAskedFor
  <1>2. ASSUME NEW s \in Strategies, DeleteStrategy(s) PROVE AskedFor(p)
    <2>1. table[s].status = "running" /\ life' = Signalled({table[s].pid})
      BY <1>2 DEF DeleteStrategy
    <2>2. {table[s].pid} = RunningPids({s})
      BY <2>1 DEF RunningPids
    <2>3. table'[s].status = "none"
      BY <1>2, MailTyped DEF DeleteStrategy, NoEntry
    <2> QED BY <2>1, <2>2, <2>3, SignalsAskedFor
  <1>3. ASSUME NEW a, StopAndRemoveByAccount(a) PROVE AskedFor(p)
    <2>1. OfAccount(a) \subseteq Strategies
      BY DEF OfAccount
    <2>2. \A s \in OfAccount(a) : table'[s].status = "none"
      BY <1>3, <2>1, RemovesOfAccount DEF WithoutEntries, NoEntry
    <2> QED BY <1>3, <2>1, <2>2, RemovesOfAccount, SignalsAskedFor
  <1>4. ASSUME NEW s \in Strategies, Spawn(s) PROVE FALSE
    <2>1. NewPid \in Pids /\ life' = [life EXCEPT ![NewPid] = "alive"] /\ life \in [Pids -> Lives]
      BY <1>4, NewPidIs, MailTyped DEF Spawn
    <2> QED BY <2>1
  <1>5. ASSUME NEW q \in Pids, Exit(q) PROVE FALSE
    BY <1>5, MailTyped DEF Exit
  <1>6. ~Shutdown /\ ~ServerCrashes
    BY DEF Shutdown, ServerCrashes
  <1>7. CASE UNCHANGED vars \/ \E s \in Strategies : LaunchByHand(s) \/ TimePasses(s)
               \/ StopStrategy(s) \/ StartStrategy(s) \/ CreateStrategy(s) \/ DeleteStrategy(s)
    BY <1>1, <1>2, <1>4, <1>7
       DEF LaunchByHand, TimePasses, StartStrategy, CreateStrategy, procs, vars
  <1>8. CASE \E q \in Pids :
               Announce(q) \/ Heartbeat(q) \/ Unregister(q) \/ Exit(q) \/ OrderThread(q)
    BY <1>3, <1>5, <1>8 DEF Announce, Heartbeat, Unregister, OrderThread, RegisterStrategy,
                            RecordHeartbeat, UnregisterStrategy, procs
  <1>9. CASE \/ \E a \in Accounts : UnregisterAccount(a)
             \/ DeleteConfigs \/ CheckHeartbeats \/ Shutdown \/ ServerCrashes \/ ServerKilled \/ Restart
    BY <1>3, <1>6, <1>9 DEF UnregisterAccount, DeleteConfigs, CheckHeartbeats, ServerKilled, Restart, procs
  <1> QED BY <1>7, <1>8, <1>9 DEF Next

(* SIGTERM reaches only a process whose own strategy's entry was running   *)
(* under that pid and is marked stopped or removed by the same step; and   *)
(* the pid of an entry always is one of its strategy's own processes,      *)
(* whatever registrations of older processes are applied late.             *)
THEOREM SignalsAsked == Spec => OnlyAskedSignalled
  <1>1. Spec => []ProcessInv
    BY ProcessesStart, StepKeepsProcesses, PTL DEF Spec
  <1>2. ProcessInv => EntryOwnsPid
    BY DEF ProcessInv
  <1>3. ProcessInv /\ [Next]_vars =>
          [\A p \in Pids :
             life[p] = "alive" /\ life'[p] = "signalled" =>
               /\ table[owner[p]] = [pid |-> p, status |-> "running"]
               /\ table'[owner[p]].status \in {"stopped", "none"}]_vars
    BY StepAsked DEF AskedFor
  <1> QED BY <1>1, <1>2, <1>3, PTL DEF Spec, OnlyAskedSignalled

(* The table, the processes and their messages are well typed whatever     *)
(* starts, stops, dies and restarts.                                       *)
THEOREM ProcessesCorrect == Spec => []TypeOK
  <1>1. ProcessInv => TypeOK
    BY DEF ProcessInv, ProcessesTyped, FilesTyped, TypeOK, Lives, Kinds
  <1> QED BY <1>1, ProcessesStart, StepKeepsProcesses, PTL DEF Spec
=============================================================================
