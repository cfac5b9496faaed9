----------------------------- MODULE ServerProofs -----------------------------
(***************************************************************************)
(* The parts of the server around the order path: its watchers, the        *)
(* frontend's channel, the end of its process and the logger, for any      *)
(* addresses, contracts, browsers, feeds, messages, sources and lines.     *)
(***************************************************************************)
EXTENDS ProxyWatch, OutageWatch, DelistWatch, FrontendChannel, Server, Logger,
        SequenceTheorems, FiniteSetTheorems, TLAPS

-----------------------------------------------------------------------------
(* The monitor of the proxy.                                               *)

(* The monitor believes in an outage only when its count has reached the   *)
(* threshold, and the count is of checks that failed in a row.             *)
Earned ==
  /\ streak \in 0 .. FailThreshold /\ consecutive = streak
  /\ proxyDown => streak = FailThreshold

(* What the operators were last told is what the monitor believes; only    *)
(* when recoveries are not reported may they still think it is down.       *)
ToldAsBelieved ==
  /\ proxyDown \in BOOLEAN /\ told \in {"up", "down"}
  /\ proxyDown => told = "down"
  /\ NotifyOnRecovery /\ told = "down" => proxyDown

ProxyInv == Earned /\ ToldAsBelieved

LEMMA ProxyStarts == ProxyInit => ProxyInv
  <1> SUFFICES ASSUME ProxyInit PROVE ProxyInv
    OBVIOUS
  <1>1. ~proxyDown /\ proxyDown \in BOOLEAN /\ told = "up" /\ streak = 0 /\ consecutive = 0
    BY DEF ProxyInit
  <1>2. Earned
    BY <1>1, ProxyAssumption DEF Earned
  <1>3. ToldAsBelieved
    BY <1>1 DEF ToldAsBelieved
  <1> QED BY <1>2, <1>3 DEF ProxyInv

(* A failed check: the count moves with the history, and an alert is sent  *)
(* at the latest when the monitor starts to believe in an outage.          *)
LEMMA FailureKeeps ==
  ASSUME ProxyInv, CheckFails
  PROVE  ProxyInv' /\ (told = "up" /\ told' = "down" => streak' >= FailThreshold)
  <1>1. /\ streak' = Counted(streak) /\ consecutive' = streak'
        /\ proxyDown' = (proxyDown \/ streak' >= FailThreshold)
    BY DEF CheckFails, ProxyInv, Earned
  <1>2. streak' \in 0 .. FailThreshold /\ (streak = FailThreshold => streak' = FailThreshold)
    BY <1>1, ProxyAssumption DEF Counted, ProxyInv, Earned
  <1>3. Earned'
    <2>1. proxyDown => streak = FailThreshold
      BY DEF ProxyInv, Earned
    <2>2. proxyDown' => streak' = FailThreshold
      <3>1. streak' >= FailThreshold => streak' = FailThreshold
        BY <1>2, ProxyAssumption
      <3> QED BY Zenon, <1>1, <1>2, <2>1, <3>1
    <2> QED BY <1>1, <1>2, <2>2 DEF Earned
  <1>4. /\ proxyDown' /\ ~proxyDown => told' = "down"
        /\ told' = told \/ (told' = "down" /\ proxyDown')
    BY DEF CheckFails, SendProxyDownAlert
  <1>5. proxyDown => proxyDown'
    BY <1>1
  <1>6. ToldAsBelieved'
    BY <1>1, <1>4, <1>5 DEF ToldAsBelieved, ProxyInv
  <1> QED BY <1>3, <1>4, <1>6, ProxyAssumption DEF Earned, ProxyInv

LEMMA ProxyStep ==
  ProxyInv /\ [ProxyNext]_proxyVars =>
    ProxyInv' /\ (told = "up" /\ told' = "down" => streak' >= FailThreshold)
  <1> SUFFICES ASSUME ProxyInv, [ProxyNext]_proxyVars
               PROVE  ProxyInv' /\ (told = "up" /\ told' = "down" => streak' >= FailThreshold)
    OBVIOUS
  <1>1. CASE UNCHANGED <<consecutive, proxyDown, told, streak>>
    BY <1>1 DEF ProxyInv, Earned, ToldAsBelieved
  <1>2. CASE CheckSucceeds
    <2>1. /\ ~proxyDown' /\ proxyDown' \in BOOLEAN /\ streak' = 0 /\ consecutive' = 0
          /\ told' = told \/ told' = "up"
          /\ proxyDown /\ NotifyOnRecovery => told' = "up"
      BY <1>2 DEF CheckSucceeds
    <2>2. Earned'
      BY <2>1, ProxyAssumption DEF Earned
    <2>3. ToldAsBelieved'
      BY <2>1 DEF ProxyInv, ToldAsBelieved
    <2>4. told = "up" => told' = "up"
      BY <2>1
    <2> QED BY <2>2, <2>3, <2>4 DEF ProxyInv
  <1> QED BY <1>1, <1>2, FailureKeeps
       DEF ProxyNext, CheckProxy, ChangeReach, TimePasses, StartCheck, ProbeNext, proxyVars

(* For any addresses, threshold and cooldown, and whatever the proxy       *)
(* reaches when: the operators hear of an outage only after as many failed *)
(* checks in a row as the threshold says.                                  *)
THEOREM ProxyAlertsEarned == ProxySpec => AlertsEarned
  <1>1. ProxyInv /\ [ProxyNext]_proxyVars =>
          [told = "up" /\ told' = "down" => streak' >= FailThreshold]_proxyVars
    BY ProxyStep
  <1> QED BY <1>1, ProxyStarts, ProxyStep, PTL DEF ProxySpec, AlertsEarned

(* For the same: while the monitor believes in an outage the operators     *)
(* were last told of one, and when it does not, and recoveries are         *)
(* reported, they were last told that the proxy is up.                     *)
THEOREM OperatorsKnow == ProxySpec => []ToldAsBelieved
  <1>1. ProxyInv => ToldAsBelieved
    BY DEF ProxyInv
  <1> QED BY <1>1, ProxyStarts, ProxyStep, PTL DEF ProxySpec

-----------------------------------------------------------------------------
(* The network monitor and the feed's reconnect thread.                    *)

(* The stored time is that of the outage but between the first two stores  *)
(* of a reconnect, where the count already says that there is none.        *)
StampOfOutage ==
  /\ feed # "resetFirst" => firstFail = outage
  /\ feed = "resetFirst" => ~failCount /\ outage = Never

(* What the watcher knows where it is: a time it is about to read between  *)
(* these stores is of no use to it, or its round has seen an outage end.   *)
RoundTrue ==
  /\ watcher = "first" /\ feed = "resetFirst" => ~readCount \/ ended
  /\ watcher = "sent" /\ Overdue => readOutage = Minute \/ ended

OutageInv == StampOfOutage /\ RoundTrue /\ OutageAlertTrue

LEMMA OutageStarts == OutageInit => OutageInv
  BY DEF OutageInit, OutageInv, StampOfOutage, RoundTrue, OutageAlertTrue

LEMMA FeedKeepsRound ==
  ASSUME OutageInv, LoseConnection \/ CountFailure \/ ResetCount \/ Reconnecting
  PROVE  OutageInv'
  <1>1. StampOfOutage'
    BY DEF OutageInv, StampOfOutage, LoseConnection, CountFailure, ResetCount, Reconnecting,
           StampFirstFailure, ResetFirst, ResetSent
  <1>2. UNCHANGED watchSide /\ (ended' = ended \/ ended')
    BY DEF LoseConnection, CountFailure, ResetCount, Reconnecting, StampFirstFailure, ResetFirst,
           ResetSent
  <1>3. feed' = "resetFirst" => ended'
    BY DEF LoseConnection, CountFailure, ResetCount, Reconnecting, StampFirstFailure, ResetFirst,
           ResetSent
  <1>4. RoundTrue' /\ OutageAlertTrue'
    BY <1>2, <1>3 DEF OutageInv, RoundTrue, OutageAlertTrue, Overdue, watchSide
  <1> QED BY <1>1, <1>4 DEF OutageInv

LEMMA WatcherKeepsRound ==
  ASSUME OutageInv, Watching \/ TenSeconds
  PROVE  OutageInv'
  <1>1. StampOfOutage'
    BY DEF OutageInv, StampOfOutage, Watching, TenSeconds, ReadCount, ReadFirst, ReadSent, SendAlert,
           MarkNetworkAlertSent, feedSide, Older
  <1>2. RoundTrue' /\ OutageAlertTrue'
    <2>1. CASE ReadCount
      BY <2>1 DEF OutageInv, StampOfOutage, RoundTrue, OutageAlertTrue, ReadCount, feedSide
    <2>2. CASE ReadFirst
      BY <2>2 DEF OutageInv, StampOfOutage, RoundTrue, OutageAlertTrue, ReadFirst, feedSide, Overdue
    <2>3. CASE ReadSent
      BY <2>3 DEF OutageInv, RoundTrue, OutageAlertTrue, ReadSent, feedSide
    <2>4. CASE SendAlert \/ MarkNetworkAlertSent \/ TenSeconds
      BY <2>4 DEF OutageInv, RoundTrue, OutageAlertTrue, SendAlert, MarkNetworkAlertSent, TenSeconds
    <2> QED BY <2>1, <2>2, <2>3, <2>4 DEF Watching
  <1> QED BY <1>1, <1>2 DEF OutageInv

LEMMA OutageStep == OutageInv /\ [OutageNext]_outageVars => OutageInv'
  <1>1. OutageInv /\ UNCHANGED outageVars => OutageInv'
    BY DEF OutageInv, StampOfOutage, RoundTrue, OutageAlertTrue, Overdue, outageVars, feedSide,
           watchSide
  <1> QED BY <1>1, FeedKeepsRound, WatcherKeepsRound DEF OutageNext

(* For any number of outages and however the three loads of a round        *)
(* interleave with the stores of the feed: an alert is sent only for an    *)
(* outage that had lasted a minute, or that ended within the round.        *)
THEOREM OutageAlertsTrue == OutageSpec => []OutageAlertTrue
  <1>1. OutageInv => OutageAlertTrue
    BY DEF OutageInv
  <1> QED BY <1>1, OutageStarts, OutageStep, PTL DEF OutageSpec

-----------------------------------------------------------------------------
(* The monitor of the contract list.                                       *)

DelistTyped ==
  /\ toldGone \in [Contracts -> Nat] /\ toldUpcoming \in [Contracts -> Nat]
  /\ torn \in Nat /\ crashes \in Nat

(* What the file has of the delistings, and what waits to be told.         *)
FileFollows ==
  /\ delistPc = "poll" => tellGone = {} /\ tellUpcoming = {}
  /\ delistPc \in {"poll", "tell"} => file.gone = gone
  /\ delistPc = "truncate" => file.gone = gone \ tellGone
  /\ delistPc = "write" => file.gone = {}
  /\ delistPc \in {"poll", "truncate", "write", "tell"}
  /\ tellGone \subseteq gone /\ tellUpcoming \subseteq upcoming
  /\ firstPoll => delistPc = "poll"

(* Of a delisting that is not noted as told, or is about to be told, one   *)
(* message less has been sent; the same of an announcement, which a run    *)
(* that has not polled yet will tell again.                                *)
GoneOnce == \A c \in Contracts :
  /\ toldGone[c] <= 1 + torn
  /\ c \notin gone \/ c \in tellGone => toldGone[c] <= torn

UpcomingOnce == \A c \in Contracts :
  /\ toldUpcoming[c] <= 1 + crashes
  /\ firstPoll \/ c \notin upcoming \/ c \in tellUpcoming => toldUpcoming[c] <= crashes

DelistInv == DelistTyped /\ FileFollows /\ GoneOnce /\ UpcomingOnce

LEMMA DelistStarts == DelistInit => DelistInv
  BY DEF DelistInit, DelistInv, DelistTyped, FileFollows, GoneOnce, UpcomingOnce, Torn

LEMMA PollKeeps ==
  ASSUME DelistInv, PollFirst \/ PollAgain
  PROVE  DelistInv'
  <1>1. PICK g, u :
          /\ delistPc = "poll" /\ AnswerPoll(g, u)
          /\ g \cap gone = {} /\ (~firstPoll => u \cap upcoming = {})
    <2>1. CASE PollFirst
      BY <2>1 DEF PollFirst
    <2>2. CASE PollAgain
      BY <2>2 DEF PollAgain, NewlyGone, NewlyDated
    <2> QED BY <2>1, <2>2
  <1>2. DelistTyped'
    BY <1>1 DEF AnswerPoll, DelistInv, DelistTyped, heard
  <1>3. FileFollows'
    BY <1>1 DEF AnswerPoll, SetBaseline, DelistInv, FileFollows
  <1>4. GoneOnce'
    BY <1>1 DEF AnswerPoll, DelistInv, GoneOnce, heard
  <1>5. UpcomingOnce'
    BY <1>1 DEF AnswerPoll, SetBaseline, DelistInv, UpcomingOnce, heard
  <1> QED BY <1>2, <1>3, <1>4, <1>5 DEF DelistInv

LEMMA SaveKeeps ==
  ASSUME DelistInv, TruncateFile \/ WriteFile
  PROVE  DelistInv'
  <1>1. DelistTyped'
    BY DEF TruncateFile, WriteFile, DelistInv, DelistTyped, heard
  <1>2. FileFollows'
    BY DEF TruncateFile, WriteFile, DelistInv, FileFollows, Torn, messages, baseline
  <1>3. GoneOnce' /\ UpcomingOnce'
    BY DEF TruncateFile, WriteFile, DelistInv, GoneOnce, UpcomingOnce, messages, baseline, heard
  <1> QED BY <1>1, <1>2, <1>3 DEF DelistInv

LEMMA TellKeeps ==
  ASSUME DelistInv, SendNotification
  PROVE  DelistInv'
  <1>1. ASSUME NEW h \in [Contracts -> Nat], NEW S
        PROVE  /\ Heard(h, S) \in [Contracts -> Nat]
               /\ \A c \in Contracts : /\ Heard(h, S)[c] <= h[c] + 1
                                       /\ c \notin S => Heard(h, S)[c] = h[c]
    BY DEF Heard
  <1>2. /\ toldGone \in [Contracts -> Nat] /\ toldUpcoming \in [Contracts -> Nat]
        /\ torn \in Nat /\ crashes \in Nat
        /\ toldGone' = Heard(toldGone, tellGone)
        /\ toldUpcoming' = Heard(toldUpcoming, tellUpcoming)
        /\ tellGone' = {} /\ tellUpcoming' = {}
        /\ UNCHANGED <<gone, upcoming, torn, crashes, firstPoll, file>>
        /\ delistPc = "tell" /\ delistPc' = "poll"
    BY DEF SendNotification, DelistInv, DelistTyped, baseline
  <1>3. DelistTyped'
    BY <1>1, <1>2 DEF DelistTyped
  <1>4. FileFollows'
    BY <1>2 DEF DelistInv, FileFollows
  <1>5. GoneOnce'
    <2> SUFFICES ASSUME NEW c \in Contracts
                 PROVE  /\ toldGone'[c] <= 1 + torn
                        /\ c \notin gone => toldGone'[c] <= torn
      BY <1>2 DEF GoneOnce
    <2>1. /\ toldGone[c] \in Nat /\ toldGone'[c] \in Nat /\ toldGone'[c] <= toldGone[c] + 1
          /\ c \notin tellGone => toldGone'[c] = toldGone[c]
      BY <1>1, <1>2
    <2> QED BY <1>2, <2>1 DEF DelistInv, GoneOnce, FileFollows
  <1>6. UpcomingOnce'
    <2> SUFFICES ASSUME NEW c \in Contracts
                 PROVE  /\ toldUpcoming'[c] <= 1 + crashes
                        /\ c \notin upcoming => toldUpcoming'[c] <= crashes
      BY <1>2 DEF UpcomingOnce, DelistInv, FileFollows
    <2>1. /\ toldUpcoming[c] \in Nat /\ toldUpcoming'[c] \in Nat
          /\ toldUpcoming'[c] <= toldUpcoming[c] + 1
          /\ c \notin tellUpcoming => toldUpcoming'[c] = toldUpcoming[c]
      BY <1>1, <1>2
    <2> QED BY <1>2, <2>1 DEF DelistInv, UpcomingOnce, FileFollows
  <1> QED BY <1>3, <1>4, <1>5, <1>6 DEF DelistInv

(* A crash: what the file lacks was not told yet, but after a torn write.  *)
LEMMA CrashKeeps ==
  ASSUME DelistInv, CrashAndRestart
  PROVE  DelistInv'
  <1>1. DelistTyped'
    BY DEF CrashAndRestart, DelistInv, DelistTyped, heard
  <1>2. FileFollows'
    BY DEF CrashAndRestart, DelistInv, FileFollows
  <1>3. GoneOnce'
    <2> SUFFICES ASSUME NEW c \in Contracts
                 PROVE  /\ toldGone[c] <= 1 + torn'
                        /\ c \notin file.gone => toldGone[c] <= torn'
      BY DEF CrashAndRestart, GoneOnce, heard
    <2>1. /\ toldGone[c] \in Nat /\ torn \in Nat
          /\ torn' = IF delistPc = "write" THEN torn + 1 ELSE torn
      BY DEF CrashAndRestart, DelistInv, DelistTyped
    <2>2. delistPc # "write" /\ c \notin file.gone => c \notin gone \/ c \in tellGone
      BY DEF DelistInv, FileFollows
    <2> QED BY <2>1, <2>2 DEF DelistInv, GoneOnce
  <1>4. UpcomingOnce'
    BY DEF CrashAndRestart, DelistInv, DelistTyped, UpcomingOnce, heard
  <1> QED BY <1>1, <1>2, <1>3, <1>4 DEF DelistInv

LEMMA DelistStep == DelistInv /\ [DelistNext]_delistVars => DelistInv'
  <1>1. DelistInv /\ UNCHANGED <<baseline, gone, upcoming, delistPc, messages, file, crashes,
                                 torn, heard>> => DelistInv'
    BY DEF DelistInv, DelistTyped, FileFollows, GoneOnce, UpcomingOnce, baseline, messages, heard
  <1> QED BY <1>1, PollKeeps, SaveKeeps, TellKeeps, CrashKeeps
       DEF DelistNext, DelistMonitor, Announce, Delist, Relist, Moved, delistVars

(* For any contracts, and wherever the server crashes: a delisting is told *)
(* at most once and once more for each crash that tore the file, an        *)
(* announcement at most once in each run of the server.                    *)
THEOREM NewsToldOnce == DelistSpec => []ToldOnce
  <1>1. DelistInv => ToldOnce
    BY DEF DelistInv, GoneOnce, UpcomingOnce, ToldOnce
  <1> QED BY <1>1, DelistStarts, DelistStep, PTL DEF DelistSpec

-----------------------------------------------------------------------------
(* The frontend's channel.                                                 *)

Message == [to: {0}, command: {<<>>}] \cup [to: Nat \ {0}, command: Browsers \X Nat]
Answer(m) == m.to # 0

ChannelTyped ==
  /\ io \in BOOLEAN /\ executing \subseteq Browsers
  /\ handled \in [Browsers -> Nat]
  /\ clientId \in [Browsers -> Nat] /\ nextId \in Nat \ {0}
  /\ got \in [Browsers -> Seq(Browsers \X Nat)]
  /\ queue \in Seq(Message) /\ sending \in Seq(Message)
  /\ sending = <<>> \/ Len(sending) = 1
  /\ sender \in {"head", "wait", "drain", "send", "ended", "crashed"}
  /\ sending = <<>> <=> sender # "send"

(* A number is one browser's, and has not been given out before.           *)
NumbersFresh ==
  /\ \A b \in Browsers : clientId[b] < nextId
  /\ \A a, b \in Browsers : clientId[a] = clientId[b] /\ clientId[a] # 0 => a = b

(* A command in execution is of a browser with a number: neither a close   *)
(* nor the end of the channel takes the number meanwhile.                  *)
NumberHeld ==
  \A b \in executing : executing = {b} /\ io /\ clientId[b] # 0

(* What is still to be sent, in its order.                                 *)
Waiting == sending \o queue

(* An answer is under the number its browser had, which nobody else has or *)
(* will have; the answers to one browser wait in the order of its commands.*)
Addressed == \A i \in 1 .. Len(Waiting) : Answer(Waiting[i]) =>
  /\ Waiting[i].to < nextId
  /\ \A b \in Browsers : clientId[b] = Waiting[i].to => Waiting[i].command[1] = b
  /\ Waiting[i].command[2] <= handled[Waiting[i].command[1]]

SameBrowser(m, n) == Answer(m) /\ Answer(n) /\ m.command[1] = n.command[1]

WaitInOrder == \A j \in 1 .. Len(Waiting) : \A i \in 1 .. j - 1 :
  SameBrowser(Waiting[i], Waiting[j]) => Waiting[i].command[2] < Waiting[j].command[2]

(* What a browser has got comes before what waits for it.                  *)
GotBefore == \A b \in Browsers : \A k \in 1 .. Len(got[b]) :
  /\ got[b][k][2] <= handled[b]
  /\ \A i \in 1 .. Len(Waiting) :
       Answer(Waiting[i]) /\ Waiting[i].command[1] = b => got[b][k][2] < Waiting[i].command[2]

ChannelInv ==
  /\ ChannelTyped /\ NumbersFresh /\ NumberHeld
  /\ Addressed /\ WaitInOrder /\ GotBefore /\ AnswersOwn

LEMMA ChannelStarts == FrontendInit => ChannelInv
  <1> SUFFICES ASSUME FrontendInit PROVE ChannelInv
    OBVIOUS
  <1>1. /\ io \in BOOLEAN /\ executing = {} /\ handled = [b \in Browsers |-> 0]
        /\ clientId = [b \in Browsers |-> 0] /\ nextId = 1
        /\ got = [b \in Browsers |-> <<>>] /\ queue = <<>> /\ sending = <<>>
        /\ sender \in {"head", "ended"}
    BY DEF FrontendInit
  <1>2. Len(Waiting) = 0
    BY <1>1 DEF Waiting
  <1>3. ChannelTyped
    BY <1>1 DEF ChannelTyped
  <1> QED BY <1>1, <1>2, <1>3
       DEF ChannelInv, NumbersFresh, NumberHeld, Addressed, WaitInOrder, GotBefore, AnswersOwn

(* What waits are messages; what an answer is.                             *)
LEMMA WaitingIs ==
  ASSUME ChannelTyped
  PROVE  /\ Waiting \in Seq(Message)
         /\ \A i \in 1 .. Len(Waiting) : Waiting[i] \in Message
  <1>1. Waiting \in Seq(Message)
    BY ConcatProperties DEF ChannelTyped, Waiting
  <1> QED BY <1>1, ElementOfSeq

LEMMA AnswerIs ==
  ASSUME NEW m \in Message, Answer(m)
  PROVE  /\ m.to \in Nat \ {0} /\ m.command \in Browsers \X Nat
         /\ m.command[1] \in Browsers /\ m.command[2] \in Nat
  BY DEF Message, Answer

(* Nothing waits that did not, no answer is sent, and no number is taken.  *)
LEMMA WaitingUnchanged ==
  ASSUME ChannelInv, ChannelTyped', NumbersFresh', NumberHeld',
         Waiting' = Waiting, UNCHANGED got, nextId' >= nextId,
         \A b \in Browsers : handled'[b] >= handled[b],
         \A b \in Browsers : clientId'[b] \in {0, clientId[b]} \/ clientId'[b] >= nextId
  PROVE  ChannelInv'
  <1>1. Addressed'
    <2> SUFFICES ASSUME NEW i \in 1 .. Len(Waiting), Answer(Waiting[i])
                 PROVE  /\ Waiting[i].to < nextId'
                        /\ \A b \in Browsers :
                             clientId'[b] = Waiting[i].to => Waiting[i].command[1] = b
                        /\ Waiting[i].command[2] <= handled'[Waiting[i].command[1]]
      BY DEF Addressed
    <2>1. /\ Waiting[i].to < nextId
          /\ \A b \in Browsers : clientId[b] = Waiting[i].to => Waiting[i].command[1] = b
          /\ Waiting[i].command[2] <= handled[Waiting[i].command[1]]
      BY DEF ChannelInv, Addressed
    <2>2. Waiting[i].to \in Nat \ {0}
      BY WaitingIs, AnswerIs DEF ChannelInv
    <2>3. nextId \in Nat /\ nextId' \in Nat /\ \A b \in Browsers : clientId'[b] \in Nat
      BY DEF ChannelInv, ChannelTyped
    <2>4. \A b \in Browsers : clientId'[b] = Waiting[i].to => clientId[b] = Waiting[i].to
      BY <2>1, <2>2, <2>3
    <2>5. Waiting[i].command[1] \in Browsers /\ Waiting[i].command[2] \in Nat
      BY WaitingIs, AnswerIs DEF ChannelInv
    <2>6. \A b \in Browsers : handled[b] \in Nat /\ handled'[b] \in Nat
      BY DEF ChannelInv, ChannelTyped
    <2> QED BY <2>1, <2>2, <2>3, <2>4, <2>5, <2>6
  <1>2. GotBefore'
    <2> SUFFICES ASSUME NEW b \in Browsers, NEW k \in 1 .. Len(got[b])
                 PROVE  got[b][k][2] <= handled'[b]
      BY DEF ChannelInv, GotBefore
    <2>1. got[b][k][2] \in Nat
      <3>1. got[b] \in Seq(Browsers \X Nat)
        BY DEF ChannelInv, ChannelTyped
      <3> QED BY <3>1, ElementOfSeq
    <2>2. handled[b] \in Nat /\ handled'[b] \in Nat
      BY DEF ChannelInv, ChannelTyped
    <2>3. got[b][k][2] <= handled[b]
      BY DEF ChannelInv, GotBefore
    <2> QED BY <2>1, <2>2, <2>3
  <1> QED BY <1>1, <1>2 DEF ChannelInv, WaitInOrder, AnswersOwn

LEMMA HandledKept ==
  ASSUME ChannelTyped, UNCHANGED handled
  PROVE  \A b \in Browsers : handled'[b] >= handled[b]
  BY DEF ChannelTyped

(* A message is queued: an event, or the answer of the command in          *)
(* execution, whose number is later than those before.                     *)
LEMMA QueuedKeeps ==
  ASSUME ChannelInv, ChannelTyped', NumberHeld', NEW m \in Message,
         queue' = Append(queue, m), UNCHANGED <<sending, got, clientId, nextId>>,
         \/ ~Answer(m) /\ UNCHANGED handled
         \/ \E b \in executing : /\ m = [to |-> clientId[b], command |-> <<b, handled[b] + 1>>]
                                 /\ handled' = [handled EXCEPT ![b] = @ + 1]
  PROVE  ChannelInv'
  <1> DEFINE n == Len(Waiting)
  <1>1. /\ sending \in Seq(Message) /\ queue \in Seq(Message)
        /\ handled \in [Browsers -> Nat] /\ handled' \in [Browsers -> Nat]
        /\ clientId \in [Browsers -> Nat] /\ nextId \in Nat
        /\ got \in [Browsers -> Seq(Browsers \X Nat)]
        /\ executing \subseteq Browsers
    BY DEF ChannelInv, ChannelTyped
  <1>2. Waiting' = Append(Waiting, m)
    BY <1>1 DEF Waiting
  <1>3. Waiting \in Seq(Message) /\ n \in Nat
    BY WaitingIs DEF ChannelInv
  <1>4. /\ Len(Waiting') = n + 1 /\ Waiting'[n + 1] = m
        /\ \A i \in 1 .. n : Waiting'[i] = Waiting[i] /\ Waiting[i] \in Message
    BY <1>2, <1>3, WaitingIs DEF ChannelInv
  <1> HIDE DEF n
  <1>5. \A b \in Browsers : handled[b] <= handled'[b] /\ handled[b] \in Nat /\ handled'[b] \in Nat
    <2>1. CASE UNCHANGED handled
      BY <1>1, <2>1
    <2>2. ASSUME NEW b \in executing, handled' = [handled EXCEPT ![b] = @ + 1]
          PROVE  \A a \in Browsers : handled[a] <= handled'[a]
      BY <1>1, <2>2
    <2> QED BY <1>1, <2>1, <2>2
  <1>6. Answer(m) =>
          /\ m.to < nextId /\ \A a \in Browsers : clientId[a] = m.to => m.command[1] = a
          /\ m.command[1] \in Browsers
          /\ m.command[2] = handled[m.command[1]] + 1 /\ m.command[2] = handled'[m.command[1]]
    <2> SUFFICES ASSUME Answer(m), NEW b \in executing,
                        m = [to |-> clientId[b], command |-> <<b, handled[b] + 1>>],
                        handled' = [handled EXCEPT ![b] = @ + 1]
                 PROVE  /\ m.to < nextId /\ \A a \in Browsers : clientId[a] = m.to => m.command[1] = a
                        /\ m.command[1] \in Browsers
                        /\ m.command[2] = handled[m.command[1]] + 1
                        /\ m.command[2] = handled'[m.command[1]]
      OBVIOUS
    <2>1. b \in Browsers /\ clientId[b] # 0
      BY <1>1 DEF ChannelInv, NumberHeld
    <2>2. m.to = clientId[b] /\ m.command[1] = b /\ m.command[2] = handled[b] + 1
      OBVIOUS
    <2> QED BY <1>1, <2>1, <2>2 DEF ChannelInv, NumbersFresh
  <1>7. \A i \in 1 .. n : Answer(Waiting[i]) =>
          /\ Waiting[i].command[1] \in Browsers /\ Waiting[i].command[2] \in Nat
          /\ Waiting[i].to < nextId
          /\ \A b \in Browsers : clientId[b] = Waiting[i].to => Waiting[i].command[1] = b
          /\ Waiting[i].command[2] <= handled[Waiting[i].command[1]]
    BY <1>4, AnswerIs DEF ChannelInv, Addressed, n
  <1>8. Addressed'
    <2> SUFFICES ASSUME NEW i \in 1 .. n + 1, Answer(Waiting'[i])
                 PROVE  /\ Waiting'[i].to < nextId
                        /\ \A b \in Browsers :
                             clientId[b] = Waiting'[i].to => Waiting'[i].command[1] = b
                        /\ Waiting'[i].command[2] <= handled'[Waiting'[i].command[1]]
      BY <1>4 DEF Addressed
    <2>1. CASE i = n + 1
      BY <1>4, <1>5, <1>6, <2>1
    <2>2. CASE i # n + 1
      <3>1. i \in 1 .. n
        BY <1>3, <2>2 DEF n
      <3>2. Waiting[i].command[2] <= handled'[Waiting[i].command[1]]
        BY <1>4, <1>5, <1>7, <3>1
      <3> QED BY <1>4, <1>7, <3>1, <3>2
    <2> QED BY <2>1, <2>2
  <1>9. WaitInOrder'
    <2> SUFFICES ASSUME NEW j \in 1 .. n + 1, NEW i \in 1 .. j - 1,
                        SameBrowser(Waiting'[i], Waiting'[j])
                 PROVE  Waiting'[i].command[2] < Waiting'[j].command[2]
      BY <1>4 DEF WaitInOrder
    <2>1. i \in 1 .. n /\ Waiting'[i] = Waiting[i]
      BY <1>3, <1>4 DEF n
    <2>2. CASE j = n + 1
      BY <1>4, <1>5, <1>6, <1>7, <2>1, <2>2 DEF SameBrowser
    <2>3. CASE j # n + 1
      <3>1. j \in 1 .. n /\ Waiting'[j] = Waiting[j]
        BY <1>3, <1>4, <2>3 DEF n
      <3> QED BY <2>1, <3>1 DEF ChannelInv, WaitInOrder, n
    <2> QED BY <2>2, <2>3
  <1>10. GotBefore'
    <2> SUFFICES ASSUME NEW b \in Browsers, NEW k \in 1 .. Len(got[b])
                 PROVE  /\ got[b][k][2] <= handled'[b]
                        /\ \A i \in 1 .. n + 1 :
                             Answer(Waiting'[i]) /\ Waiting'[i].command[1] = b =>
                               got[b][k][2] < Waiting'[i].command[2]
      BY <1>4 DEF GotBefore
    <2>1. got[b][k][2] \in Nat
      <3>1. got[b] \in Seq(Browsers \X Nat)
        BY <1>1
      <3> QED BY <3>1, ElementOfSeq
    <2>2. /\ got[b][k][2] <= handled[b]
          /\ \A i \in 1 .. n : Answer(Waiting[i]) /\ Waiting[i].command[1] = b =>
               got[b][k][2] < Waiting[i].command[2]
      BY DEF ChannelInv, GotBefore, n
    <2>3. got[b][k][2] <= handled'[b]
      BY <1>5, <2>1, <2>2
    <2>4. ASSUME NEW i \in 1 .. n + 1, Answer(Waiting'[i]), Waiting'[i].command[1] = b
          PROVE  got[b][k][2] < Waiting'[i].command[2]
      <3>1. CASE i = n + 1
        BY <1>4, <1>5, <1>6, <2>1, <2>2, <2>4, <3>1
      <3>2. CASE i # n + 1
        <4>1. i \in 1 .. n
          BY <1>3, <3>2 DEF n
        <4> QED BY <1>4, <2>2, <2>4, <4>1
      <3> QED BY <3>1, <3>2
    <2> QED BY <2>3, <2>4
  <1> QED BY <1>8, <1>9, <1>10 DEF ChannelInv, NumbersFresh, AnswersOwn

(* The message at the head goes: to the browser it is addressed to, if     *)
(* that is still there, and to nobody else, or to nobody at all.           *)
LEMMA SentKeeps ==
  ASSUME ChannelInv, NEW delivered \in BOOLEAN,
         sender = "send", sending' = <<>>, sender' \in {"drain", "crashed"},
         got' = [b \in Browsers |-> IF delivered /\ SentTo(b)
                                    THEN Append(got[b], sending[1].command) ELSE got[b]],
         UNCHANGED <<handled, clientId, nextId, queue, executing, io>>
  PROVE  ChannelInv'
  <1> DEFINE m == sending[1]
             to(b) == delivered /\ m.to # 0 /\ clientId[b] = m.to /\ link[b] = "open"
  <1>1. /\ sender = "send" /\ sending' = <<>> /\ sender' \in {"drain", "crashed"}
        /\ got' = [b \in Browsers |-> IF to(b) THEN Append(got[b], m.command) ELSE got[b]]
        /\ UNCHANGED <<handled, clientId, nextId, queue, executing, io>>
    BY DEF SentTo
  <1>2. /\ sending \in Seq(Message) /\ queue \in Seq(Message) /\ Len(sending) = 1
        /\ handled \in [Browsers -> Nat] /\ got \in [Browsers -> Seq(Browsers \X Nat)]
    BY <1>1 DEF ChannelInv, ChannelTyped
  <1>3. /\ Waiting' = queue /\ Waiting[1] = m /\ m \in Message
        /\ Len(Waiting) = Len(queue) + 1
        /\ \A i \in 1 .. Len(queue) : Waiting[i + 1] = queue[i] /\ queue[i] \in Message
    <2>1. m \in Message
      <3>1. 1 \in 1 .. Len(sending)
        BY <1>2
      <3> QED BY <1>2, <3>1, ElementOfSeq
    <2>2. \A i \in 1 .. Len(queue) : queue[i] \in Message
      BY <1>2, ElementOfSeq
    <2>3. Waiting' = <<>> \o queue /\ <<>> \o queue = queue
      BY <1>1, <1>2, ConcatEmptySeq DEF Waiting
    <2>4. /\ Len(Waiting) = Len(queue) + 1 /\ Waiting[1] = m
          /\ \A i \in 1 .. Len(queue) : Waiting[i + 1] = queue[i]
      <3>1. /\ Len(sending \o queue) = Len(sending) + Len(queue)
            /\ \A i \in 1 .. Len(sending) + Len(queue) :
                 (sending \o queue)[i] = IF i <= Len(sending) THEN sending[i]
                                         ELSE queue[i - Len(sending)]
        BY <1>2, ConcatProperties
      <3>2. Len(queue) \in Nat
        BY <1>2
      <3> QED BY <1>2, <3>1, <3>2 DEF Waiting
    <2> QED BY <2>1, <2>2, <2>3, <2>4
  <1> HIDE DEF m
  <1>4. \A b \in Browsers : to(b) =>
          /\ Answer(m) /\ m.command \in Browsers \X Nat /\ m.command[1] = b
          /\ m.command[2] \in Nat /\ m.command[2] <= handled[b]
    <2>1. 1 \in 1 .. Len(Waiting)
      BY <1>2, <1>3
    <2> QED BY <1>3, <2>1, AnswerIs DEF ChannelInv, Addressed, Answer
  <1> HIDE DEF to
  <1>5. got' \in [Browsers -> Seq(Browsers \X Nat)]
    <2>1. ASSUME NEW b \in Browsers
          PROVE  (IF to(b) THEN Append(got[b], m.command) ELSE got[b]) \in Seq(Browsers \X Nat)
      <3>1. got[b] \in Seq(Browsers \X Nat)
        BY <1>2
      <3>2. CASE to(b)
        <4>1. Append(got[b], m.command) \in Seq(Browsers \X Nat)
          BY <1>4, <3>1, <3>2, AppendProperties
        <4> QED BY <3>2, <4>1
      <3>3. CASE ~to(b)
        BY <3>1, <3>3
      <3> QED BY <3>2, <3>3
    <2> QED BY <1>1, <2>1
  <1>6. ChannelTyped'
    BY <1>1, <1>2, <1>5 DEF ChannelInv, ChannelTyped
  <1>7. NumbersFresh' /\ NumberHeld'
    BY <1>1 DEF ChannelInv, NumbersFresh, NumberHeld
  <1>8. \A i \in 1 .. Len(queue) : i + 1 \in 1 .. Len(Waiting)
    BY <1>2, <1>3
  <1>9. Addressed'
    BY <1>1, <1>3, <1>8 DEF ChannelInv, Addressed
  <1>10. WaitInOrder'
    <2> SUFFICES ASSUME NEW j \in 1 .. Len(queue), NEW i \in 1 .. j - 1,
                        SameBrowser(queue[i], queue[j])
                 PROVE  queue[i].command[2] < queue[j].command[2]
      BY <1>3 DEF WaitInOrder
    <2>1. /\ i \in 1 .. Len(queue) /\ j + 1 \in 1 .. Len(Waiting) /\ i + 1 \in 1 .. (j + 1) - 1
      BY <1>2, <1>8
    <2> QED BY <1>3, <2>1 DEF ChannelInv, WaitInOrder
  <1>11. \A b \in Browsers : \A k \in 1 .. Len(got[b]) :
           /\ got[b][k] \in Browsers \X Nat
           /\ got[b][k][1] = b /\ got[b][k][2] \in Nat /\ got[b][k][2] <= handled[b]
           /\ Answer(m) /\ m.command[1] = b => got[b][k][2] < m.command[2]
           /\ \A i \in 1 .. Len(queue) : Answer(queue[i]) /\ queue[i].command[1] = b =>
                got[b][k][2] < queue[i].command[2]
           /\ \A j \in 1 .. k - 1 : got[b][j][2] < got[b][k][2]
    <2> TAKE b \in Browsers
    <2> TAKE k \in 1 .. Len(got[b])
    <2>1. got[b] \in Seq(Browsers \X Nat) /\ DOMAIN got[b] = 1 .. Len(got[b])
      BY <1>2
    <2>2. got[b][k] \in Browsers \X Nat
      BY <2>1, ElementOfSeq
    <2>3. 1 \in 1 .. Len(Waiting)
      BY <1>2, <1>3
    <2>4. got[b][k][1] = b /\ \A j \in 1 .. k - 1 : got[b][j][2] < got[b][k][2]
      BY <2>1 DEF ChannelInv, AnswersOwn
    <2>5. /\ got[b][k][2] <= handled[b]
          /\ \A i \in 1 .. Len(Waiting) :
               Answer(Waiting[i]) /\ Waiting[i].command[1] = b =>
                 got[b][k][2] < Waiting[i].command[2]
      BY DEF ChannelInv, GotBefore
    <2> QED BY <1>3, <1>8, <2>2, <2>3, <2>4, <2>5
  <1>12. \A i \in 1 .. Len(queue) : SameBrowser(m, queue[i]) => m.command[2] < queue[i].command[2]
    <2> TAKE i \in 1 .. Len(queue)
    <2>1. i + 1 \in 1 .. Len(Waiting) /\ 1 \in 1 .. (i + 1) - 1
      BY <1>2, <1>8
    <2> QED BY <1>3, <2>1 DEF ChannelInv, WaitInOrder
  <1>13. ASSUME NEW b \in Browsers
         PROVE  \/ got'[b] = got[b]
                \/ to(b) /\ Len(got'[b]) = Len(got[b]) + 1
                   /\ got'[b][Len(got[b]) + 1] = m.command
                   /\ \A k \in 1 .. Len(got[b]) : got'[b][k] = got[b][k]
    <2>1. got[b] \in Seq(Browsers \X Nat)
      BY <1>2
    <2>2. got'[b] = IF to(b) THEN Append(got[b], m.command) ELSE got[b]
      BY <1>1
    <2>3. CASE to(b)
      BY <1>4, <2>1, <2>2, <2>3, AppendProperties
    <2> QED BY <2>2, <2>3
  <1>14. GotBefore' /\ AnswersOwn'
    <2> SUFFICES ASSUME NEW b \in Browsers, NEW k \in 1 .. Len(got'[b])
                 PROVE  /\ got'[b][k][2] <= handled[b]
                        /\ \A i \in 1 .. Len(queue) :
                             Answer(queue[i]) /\ queue[i].command[1] = b =>
                               got'[b][k][2] < queue[i].command[2]
                        /\ got'[b][k][1] = b
                        /\ \A j \in 1 .. k - 1 : got'[b][j][2] < got'[b][k][2]
      <3>1. \A b \in Browsers : DOMAIN got'[b] = 1 .. Len(got'[b])
        BY <1>5
      <3> QED BY <1>1, <1>3, <3>1 DEF GotBefore, AnswersOwn
    <2>1. CASE got'[b] = got[b]
      BY <1>11, <2>1
    <2>2. ASSUME to(b), Len(got'[b]) = Len(got[b]) + 1, got'[b][Len(got[b]) + 1] = m.command,
                 \A l \in 1 .. Len(got[b]) : got'[b][l] = got[b][l]
          PROVE  /\ got'[b][k][2] <= handled[b]
                 /\ \A i \in 1 .. Len(queue) :
                      Answer(queue[i]) /\ queue[i].command[1] = b =>
                        got'[b][k][2] < queue[i].command[2]
                 /\ got'[b][k][1] = b
                 /\ \A j \in 1 .. k - 1 : got'[b][j][2] < got'[b][k][2]
      <3>1. Len(got[b]) \in Nat
        BY <1>2
      <3>2. CASE k = Len(got[b]) + 1
        <4>1. \A j \in 1 .. k - 1 : j \in 1 .. Len(got[b])
          BY <3>1, <3>2
        <4> QED BY <1>4, <1>11, <1>12, <2>2, <3>2, <4>1 DEF SameBrowser
      <3>3. CASE k # Len(got[b]) + 1
        <4>1. k \in 1 .. Len(got[b]) /\ \A j \in 1 .. k - 1 : j \in 1 .. Len(got[b])
          BY <2>2, <3>1, <3>3
        <4> QED BY <1>11, <2>2, <4>1
      <3> QED BY <3>2, <3>3
    <2> QED BY <1>13, <2>1, <2>2
  <1> QED BY <1>6, <1>7, <1>9, <1>10, <1>14 DEF ChannelInv

LEMMA ChannelStep == ChannelInv /\ [FrontendNext]_frontendVars => ChannelInv'
  <1> SUFFICES ASSUME ChannelInv, [FrontendNext]_frontendVars PROVE ChannelInv'
    OBVIOUS
  <1> USE DEF ChannelInv
  <1>1. CASE UNCHANGED <<handled, clientId, nextId, got, executing, queue, sender, sending, io>>
    <2>1. ChannelTyped' /\ NumbersFresh' /\ NumberHeld' /\ Waiting' = Waiting
      BY <1>1 DEF ChannelTyped, NumbersFresh, NumberHeld, Waiting
    <2>2. nextId' >= nextId /\ \A b \in Browsers : clientId'[b] \in {0, clientId[b]}
      BY <1>1 DEF ChannelTyped
    <2> QED BY <1>1, <2>1, <2>2, WaitingUnchanged, HandledKept
  <1>2. ASSUME NEW b \in Browsers, Open(b) PROVE ChannelInv'
    <2>1. /\ executing = {} /\ clientId' = [clientId EXCEPT ![b] = nextId] /\ nextId' = nextId + 1
          /\ UNCHANGED <<handled, got, executing, queue, sender, sending, io>>
      BY <1>2 DEF Open
    <2>2. clientId \in [Browsers -> Nat] /\ nextId \in Nat \ {0}
      BY DEF ChannelTyped
    <2>3. /\ clientId' \in [Browsers -> Nat] /\ nextId' \in Nat \ {0} /\ clientId'[b] = nextId
          /\ \A a \in Browsers : a # b => clientId'[a] = clientId[a]
      BY <2>1, <2>2
    <2>4. ChannelTyped'
      BY <2>1, <2>3 DEF ChannelTyped
    <2>5. NumbersFresh'
      BY <2>1, <2>2, <2>3 DEF NumbersFresh
    <2>6. NumberHeld' /\ Waiting' = Waiting
      BY <2>1 DEF NumberHeld, Waiting
    <2>7. nextId' >= nextId
          /\ \A a \in Browsers : clientId'[a] \in {0, clientId[a]} \/ clientId'[a] >= nextId
      BY <2>1, <2>2, <2>3
    <2> QED BY <2>1, <2>4, <2>5, <2>6, <2>7, WaitingUnchanged, HandledKept
  <1>3. ASSUME executing = {}, UNCHANGED <<handled, nextId, got, executing, queue, sender, sending, io>>,
               clientId' \in [Browsers -> Nat], \A b \in Browsers : clientId'[b] \in {0, clientId[b]}
        PROVE  ChannelInv'
    <2>1. ChannelTyped'
      BY <1>3 DEF ChannelTyped
    <2>2. NumbersFresh'
      <3>1. /\ nextId \in Nat \ {0} /\ \A b \in Browsers : clientId[b] < nextId
            /\ \A a, b \in Browsers : clientId[a] = clientId[b] /\ clientId[a] # 0 => a = b
        BY DEF ChannelTyped, NumbersFresh
      <3>2. \A b \in Browsers : clientId'[b] = 0 \/ clientId'[b] = clientId[b]
        BY <1>3
      <3>3. \A b \in Browsers : clientId'[b] < nextId
        BY <3>1, <3>2
      <3>4. \A a, b \in Browsers : clientId'[a] = clientId'[b] /\ clientId'[a] # 0 => a = b
        BY <3>1, <3>2
      <3> QED BY <1>3, <3>3, <3>4 DEF NumbersFresh
    <2>3. NumberHeld' /\ Waiting' = Waiting /\ nextId' >= nextId
      BY <1>3 DEF NumberHeld, Waiting, ChannelTyped
    <2> QED BY <1>3, <2>1, <2>2, <2>3, WaitingUnchanged, HandledKept
  <1>4. ASSUME NEW b \in Browsers, Close(b) PROVE ChannelInv'
    <2>1. clientId' \in [Browsers -> Nat] /\ \A a \in Browsers : clientId'[a] \in {0, clientId[a]}
      BY <1>4 DEF Close, ChannelTyped
    <2> QED BY <1>3, <1>4, <2>1 DEF Close
  <1>5. CASE EndStop
    <2>1. executing = {}
      BY <1>5 DEF EndStop, NumberHeld
    <2>2. clientId' \in [Browsers -> Nat] /\ \A a \in Browsers : clientId'[a] \in {0, clientId[a]}
      BY <1>5 DEF EndStop
    <2> QED BY <1>3, <1>5, <2>1, <2>2 DEF EndStop
  <1>6. ASSUME UNCHANGED <<handled, clientId, nextId, got, queue, sender, sending>>,
               \/ IoEnds \/ \E b \in Browsers : BeginCommand(b)
        PROVE  ChannelInv'
    <2>1. io' \in BOOLEAN /\ executing' \subseteq Browsers /\ NumberHeld'
      BY <1>6 DEF IoEnds, BeginCommand, ChannelTyped, NumberHeld
    <2>2. ChannelTyped' /\ NumbersFresh' /\ Waiting' = Waiting
      BY <1>6, <2>1 DEF ChannelTyped, NumbersFresh, Waiting
    <2>3. nextId' >= nextId /\ \A b \in Browsers : clientId'[b] \in {0, clientId[b]}
      BY <1>6 DEF ChannelTyped
    <2> QED BY <1>6, <2>1, <2>2, <2>3, WaitingUnchanged, HandledKept
  <1>7. ASSUME NEW b \in Browsers, AnswerCommand(b) PROVE ChannelInv'
    <2> DEFINE m == [to |-> clientId[b], command |-> <<b, handled'[b]>>]
    <2>1. /\ b \in executing /\ executing' = {} /\ handled' = [handled EXCEPT ![b] = @ + 1]
          /\ queue' = Append(queue, m)
          /\ UNCHANGED <<clientId, nextId, got, sender, sending, io>>
      BY <1>7 DEF AnswerCommand
    <2>2. handled' \in [Browsers -> Nat] /\ handled'[b] = handled[b] + 1
      BY <2>1 DEF ChannelTyped
    <2>3. m \in Message
      BY <2>1, <2>2 DEF ChannelTyped, NumberHeld, Message
    <2>4. ChannelTyped' /\ NumberHeld'
      BY <2>1, <2>2, <2>3 DEF ChannelTyped, NumberHeld
    <2>5. m = [to |-> clientId[b], command |-> <<b, handled[b] + 1>>]
      BY <2>2
    <2> HIDE DEF m
    <2> QED BY <2>1, <2>2, <2>3, <2>4, <2>5, QueuedKeeps
  <1>8. CASE QueueEvent
    <2> DEFINE m == [to |-> 0, command |-> <<>>]
    <2>1. /\ queue' = Append(queue, m)
          /\ UNCHANGED <<handled, executing, clientId, nextId, got, sender, sending, io>>
      BY <1>8 DEF QueueEvent, clientVars
    <2>2. m \in Message /\ ~Answer(m)
      BY DEF Message, Answer
    <2> HIDE DEF m
    <2>3. ChannelTyped' /\ NumberHeld'
      BY <2>1, <2>2 DEF ChannelTyped, NumberHeld
    <2> QED BY <2>1, <2>2, <2>3, QueuedKeeps
  <1>9. CASE BeginWait \/ BeginDrain \/ EndDrain \/ SenderEnds
    <2>1. /\ UNCHANGED <<handled, clientId, nextId, got, executing, queue, sending, io>>
          /\ sender # "send" /\ sender' \in {"head", "wait", "drain", "ended"}
      BY <1>9 DEF BeginWait, BeginDrain, EndDrain, SenderEnds, SenderGoes, clientVars, OthersRun
    <2>2. ChannelTyped' /\ NumbersFresh' /\ NumberHeld' /\ Waiting' = Waiting
      BY <2>1 DEF ChannelTyped, NumbersFresh, NumberHeld, Waiting
    <2>3. nextId' >= nextId /\ \A b \in Browsers : clientId'[b] \in {0, clientId[b]}
      BY <2>1 DEF ChannelTyped
    <2> QED BY <2>1, <2>2, <2>3, WaitingUnchanged, HandledKept
  <1>10. CASE TakeMessage
    <2>1. /\ UNCHANGED <<handled, clientId, nextId, got, executing, io>>
          /\ sender = "drain" /\ sender' = "send" /\ queue # <<>>
          /\ sending' = <<Head(queue)>> /\ queue' = Tail(queue)
      BY <1>10 DEF TakeMessage, SenderGoes, clientVars, OthersRun
    <2>2. sending = <<>> /\ queue \in Seq(Message)
      BY <2>1 DEF ChannelTyped
    <2>3. Head(queue) \in Message /\ Tail(queue) \in Seq(Message)
      BY <2>1, <2>2, HeadTailProperties
    <2>4. Waiting' = Waiting
      BY <2>1, <2>2, <2>3 DEF Waiting
    <2>5. ChannelTyped' /\ NumbersFresh' /\ NumberHeld'
      BY <2>1, <2>2, <2>3 DEF ChannelTyped, NumbersFresh, NumberHeld
    <2>6. nextId' >= nextId /\ \A b \in Browsers : clientId'[b] \in {0, clientId[b]}
      BY <2>1 DEF ChannelTyped
    <2> QED BY <2>1, <2>4, <2>5, <2>6, WaitingUnchanged, HandledKept
  <1>11. (\E b \in Browsers : SendCommand(b) \/ Leave(b)) \/ SnapshotsEnd \/ BeginStop
         \/ UNCHANGED frontendVars =>
           UNCHANGED <<handled, clientId, nextId, got, executing, queue, sender, sending, io>>
    BY DEF SendCommand, Leave, SnapshotsEnd, BeginStop, frontendVars, clientVars
  <1>12. IoEnds \/ (\E b \in Browsers : BeginCommand(b)) =>
           UNCHANGED <<handled, clientId, nextId, got, queue, sender, sending>>
    BY DEF IoEnds, BeginCommand, clientVars
  <1>13. CASE SendMessage
    <2>1. /\ sender = "send" /\ sending' = <<>> /\ sender' = "drain"
          /\ got' = [b \in Browsers |->
               IF SentTo(b) THEN Append(got[b], sending[1].command) ELSE got[b]]
          /\ UNCHANGED <<handled, clientId, nextId, queue, executing, io>>
      BY <1>13 DEF SendMessage, SenderGoes, OthersRun
    <2> HIDE DEF ChannelInv
    <2> QED BY <2>1, SentKeeps
  <1>14. ASSUME NEW b \in Browsers, RefuseCommand(b) PROVE ChannelInv'
    <2>1. /\ b \in executing /\ executing' = {} /\ handled' = [handled EXCEPT ![b] = @ + 1]
          /\ UNCHANGED <<clientId, nextId, got, queue, sender, sending, io>>
      BY <1>14 DEF RefuseCommand
    <2>2. handled' \in [Browsers -> Nat] /\ \A a \in Browsers : handled'[a] >= handled[a]
      BY <2>1 DEF ChannelTyped
    <2>3. ChannelTyped' /\ NumbersFresh' /\ NumberHeld' /\ Waiting' = Waiting
      BY <2>1, <2>2 DEF ChannelTyped, NumbersFresh, NumberHeld, Waiting
    <2>4. nextId' >= nextId /\ \A a \in Browsers : clientId'[a] \in {0, clientId[a]}
      BY <2>1 DEF ChannelTyped
    <2> QED BY <2>1, <2>2, <2>3, <2>4, WaitingUnchanged
  <1>15. CASE DropAnswer \/ BroadcastCrash
    <2>1. /\ sender = "send" /\ sending' = <<>> /\ sender' \in {"drain", "crashed"}
          /\ UNCHANGED <<got, handled, clientId, nextId, queue, executing, io>>
      BY <1>15 DEF DropAnswer, BroadcastCrash, SenderGoes, OthersRun, clientVars
    <2>2. got' = [b \in Browsers |-> IF FALSE /\ SentTo(b)
                                     THEN Append(got[b], sending[1].command) ELSE got[b]]
      BY <2>1 DEF ChannelTyped
    <2> HIDE DEF ChannelInv
    <2> QED BY <2>1, <2>2, SentKeeps
  <1> HIDE DEF ChannelInv
  <1> QED BY <1>1, <1>2, <1>4, <1>5, <1>6, <1>7, <1>8, <1>9, <1>10, <1>11, <1>12, <1>13, <1>14,
             <1>15 DEF FrontendNext, IoThread, MessageThread, MainStops

(* For any browsers, commands and events, and however browsers come and    *)
(* go while answers wait: a browser gets only answers to its own commands, *)
(* in the order it sent them and each at most once.                        *)
THEOREM BrowsersGetTheirOwn == FrontendSpec => []AnswersOwn
  <1>1. ChannelInv => AnswersOwn
    BY DEF ChannelInv
  <1> QED BY <1>1, ChannelStarts, ChannelStep, PTL DEF FrontendSpec

-----------------------------------------------------------------------------
(* The server.                                                             *)

MainStates ==
  {"run", "disconnect", "join", "stop", "close", "release", "destroy", "leave", "done", "killed"}
WorkerStates == {"head", "check", "use", "handle", "report", "send", "ended"}

(* The types of what main and the workers share.                           *)
ServerTypeOK ==
  /\ up \in BOOLEAN /\ zmqRunning \in BOOLEAN
  /\ mainAt \in MainStates
  /\ sockets \subseteq Range(Sockets)
  /\ worker \in [Workers -> WorkerStates]
  /\ inbox \in [Workers -> Nat] /\ owing \in Nat /\ garbled \in BOOLEAN

(* Until main has joined the workers nothing is released, and from then on *)
(* no worker runs: a worker at its use never meets a released socket.      *)
Serving == mainAt \in {"run", "disconnect", "join"} => zmqRunning /\ sockets = Range(Sockets)
Joined ==
  mainAt \in {"stop", "close", "release", "destroy", "leave", "done"} =>
    \A w \in Workers : worker[w] = "ended"

(* The reply socket owes one answer while a query is handled, and for good *)
(* once a garbled one was; otherwise none.                                 *)
Owes(state, unreadable) == IF state = "handle" \/ unreadable THEN 1 ELSE 0
OneAnswerOwed == owing = Owes(worker["query"], garbled)

ServerInv == /\ ServerTypeOK /\ Serving /\ Joined /\ OneAnswerOwed /\ WorkersOffSockets

LEMMA WorkerSockets == Workers \subseteq Range(Sockets) /\ "report" \in Range(Sockets)
  <1>1. \A i \in 1 .. 7 : Sockets[i] \in Range(Sockets)
    BY DEF Range, Sockets
  <1>2. /\ Sockets[4] = "order" /\ Sockets[5] = "report"
        /\ Sockets[6] = "query" /\ Sockets[7] = "subscribe"
    BY DEF Sockets
  <1>3. 4 \in 1 .. 7 /\ 5 \in 1 .. 7 /\ 6 \in 1 .. 7 /\ 7 \in 1 .. 7
    OBVIOUS
  <1>4. {"order", "report", "query", "subscribe"} \subseteq Range(Sockets)
    BY <1>1, <1>2, <1>3
  <1> QED BY <1>4 DEF Workers

LEMMA ServerStarts == ServerInit => ServerInv
  <1> SUFFICES ASSUME ServerInit PROVE ServerInv
    OBVIOUS
  <1>1. ServerTypeOK /\ Serving /\ Joined /\ WorkersOffSockets
    BY ServerAssumption
       DEF ServerInit, ServerTypeOK, MainStates, WorkerStates, Serving, Joined,
           WorkersOffSockets, Workers
  <1>2. owing = 0 /\ worker["query"] # "handle" /\ ~garbled
    BY DEF ServerInit, Workers
  <1>3. OneAnswerOwed
    BY <1>2 DEF OneAnswerOwed, Owes
  <1> QED BY <1>1, <1>3 DEF ServerInv

(* A worker that moves: it is not ended, so main has joined nobody.        *)
LEMMA WorkerMoves ==
  ASSUME ServerInv, Running, NEW w \in Workers, worker[w] # "ended",
         NEW at \in WorkerStates, Go(w, at),
         UNCHANGED process, inbox' \in [Workers -> Nat], UNCHANGED culprit,
         owing' \in Nat, garbled' \in BOOLEAN, owing' = Owes(worker'["query"], garbled')
  PROVE  ServerInv'
  <1>1. worker' \in [Workers -> WorkerStates]
    BY DEF Go, ServerInv, ServerTypeOK
  <1>2. mainAt \in {"run", "disconnect", "join"}
    BY DEF Running, ServerInv, ServerTypeOK, MainStates, Joined
  <1>3. UNCHANGED <<up, mainAt, zmqRunning, sockets>>
    BY DEF process
  <1>4. ServerTypeOK'
    BY <1>1, <1>3 DEF ServerInv, ServerTypeOK
  <1>5. Serving' /\ Joined' /\ OneAnswerOwed' /\ WorkersOffSockets'
    BY <1>2, <1>3 DEF ServerInv, Serving, Joined, OneAnswerOwed, WorkersOffSockets
  <1> QED BY <1>4, <1>5 DEF ServerInv

(* While a worker runs, its socket and the socket of the reports are there. *)
LEMMA SocketsThere ==
  ASSUME ServerInv, Running, NEW w \in Workers, worker[w] # "ended"
  PROVE  Workers \subseteq sockets /\ "report" \in sockets
  <1>1. mainAt \in {"run", "disconnect", "join"}
    BY DEF Running, ServerInv, ServerTypeOK, MainStates, Joined
  <1> QED BY <1>1, WorkerSockets DEF ServerInv, Serving

LEMMA WorkersKeep ==
  ASSUME ServerInv, OrderThread \/ QueryThread \/ SubscriptionThread
  PROVE  ServerInv'
  <1>0. /\ worker \in [Workers -> WorkerStates] /\ inbox \in [Workers -> Nat] /\ owing \in Nat
        /\ garbled \in BOOLEAN
        /\ owing = Owes(worker["query"], garbled)
        /\ "order" \in Workers /\ "query" \in Workers /\ "subscribe" \in Workers
    BY DEF ServerInv, ServerTypeOK, OneAnswerOwed, Workers
  <1>1. ASSUME NEW w \in Workers, LoopHead(w) \/ CheckSocket(w)
        PROVE  ServerInv'
    <2>1. PICK at \in WorkerStates :
            /\ Go(w, at) /\ at # "handle"
            /\ Running /\ worker[w] # "ended" /\ worker[w] # "handle"
            /\ UNCHANGED <<process, inbox, owing, garbled, culprit>>
      BY <1>1 DEF LoopHead, CheckSocket, Checked, WorkerStates
    <2>2. owing' = Owes(worker'["query"], garbled')
      BY <1>0, <2>1 DEF Go, Owes
    <2> QED BY <1>0, <2>1, <2>2, WorkerMoves
  <1>2. ASSUME NEW w \in Workers, Receive(w)
        PROVE  ServerInv'
    <2>1. Running /\ worker[w] = "use" /\ w \in sockets /\ UNCHANGED <<process, culprit>>
      BY <1>2, SocketsThere DEF Receive
    <2>2. CASE inbox[w] = 0 \/ (w = "query" /\ owing > 0)
      <3>1. Go(w, "head") /\ UNCHANGED <<inbox, owing, garbled>>
        BY <1>2, <2>1, <2>2 DEF Receive
      <3>2. owing' = Owes(worker'["query"], garbled')
        BY <1>0, <2>1, <3>1 DEF Go, Owes
      <3> QED BY <1>0, <2>1, <3>1, <3>2, WorkerMoves DEF WorkerStates
    <2>3. CASE ~(inbox[w] = 0 \/ (w = "query" /\ owing > 0))
      <3>1. /\ Go(w, "handle") /\ inbox' = [inbox EXCEPT ![w] = @ - 1]
            /\ IF w = "query" THEN owing' = owing + 1 /\ garbled' \in BOOLEAN
               ELSE UNCHANGED <<owing, garbled>>
        BY <1>2, <2>1, <2>3 DEF Receive
      <3>2. inbox' \in [Workers -> Nat]
        BY <1>0, <2>3, <3>1
      <3>3. owing' \in Nat /\ garbled' \in BOOLEAN /\ owing' = Owes(worker'["query"], garbled')
        BY <1>0, <2>1, <2>3, <3>1 DEF Go, Owes
      <3> QED BY <2>1, <3>1, <3>2, <3>3, WorkerMoves DEF WorkerStates
    <2> QED BY <2>2, <2>3
  <1>3. CASE HandleOrder \/ CheckReport \/ SendReport
    <2>1. Running /\ worker["order"] # "ended"
      BY <1>3 DEF HandleOrder, CheckReport, SendReport
    <2>2. "report" \in sockets
      BY <1>0, <2>1, SocketsThere
    <2>3. PICK at \in WorkerStates :
            Go("order", at) /\ UNCHANGED <<process, inbox, owing, garbled, culprit>>
      BY <1>3, <2>2 DEF HandleOrder, CheckReport, SendReport, WorkerStates
    <2>4. owing' = Owes(worker'["query"], garbled')
      BY <1>0, <2>3 DEF Go, Owes
    <2> QED BY <1>0, <2>1, <2>3, <2>4, WorkerMoves
  <1>4. CASE HandleQuery
    <2>1. PICK at \in WorkerStates :
            /\ Go("query", at) /\ at # "handle" /\ worker["query"] = "handle" /\ Running
            /\ owing' = IF garbled THEN owing ELSE owing - 1
            /\ UNCHANGED <<process, inbox, garbled, culprit>>
      BY <1>4 DEF HandleQuery, Answered, Unanswered, WorkerStates
    <2>2. owing' = Owes(worker'["query"], garbled') /\ owing' \in Nat /\ garbled' \in BOOLEAN
      BY <1>0, <2>1 DEF Go, Owes
    <2> QED BY <1>0, <2>1, <2>2, WorkerMoves
  <1>5. CASE HandleSubscription
    <2>1. /\ Go("subscribe", "use") /\ worker["subscribe"] = "handle" /\ Running
          /\ UNCHANGED <<process, inbox, owing, garbled, culprit>>
      BY <1>5 DEF HandleSubscription
    <2>2. owing' = Owes(worker'["query"], garbled')
      BY <1>0, <2>1 DEF Go, Owes
    <2> QED BY <1>0, <2>1, <2>2, WorkerMoves DEF WorkerStates
  <1> QED BY <1>0, <1>1, <1>2, <1>3, <1>4, <1>5 DEF OrderThread, QueryThread, SubscriptionThread

(* A feed thread changes nothing the invariant speaks of but the culprit.  *)
LEMMA FeedsKeep ==
  ASSUME ServerInv, NEW f \in Feeds, DataArrives(f) \/ FeedThread(f)
  PROVE  ServerInv'
  <1>1. UNCHANGED process /\ UNCHANGED threads /\ culprit' \in {culprit, f}
    BY DEF DataArrives, FeedThread, CheckTarget, UseTarget
  <1>2. UNCHANGED <<up, mainAt, zmqRunning, sockets, worker, inbox, owing, garbled>>
    BY <1>1 DEF process, threads
  <1>3. culprit' \notin Workers
    BY <1>1, ServerAssumption DEF ServerInv, WorkersOffSockets
  <1> QED BY <1>2, <1>3 DEF ServerInv, ServerTypeOK, Serving, Joined, OneAnswerOwed,
             WorkersOffSockets

LEMMA MainKeeps ==
  ASSUME ServerInv, Signal \/ SecondSignal \/ MainThread
  PROVE  ServerInv'
  <1>1. UNCHANGED threads /\ UNCHANGED culprit
    BY DEF Signal, SecondSignal, MainThread, LeaveMainLoop, DisconnectFeed, AllDisconnected,
           JoinWorkers, BeginZmqStop, CloseSocket, AllClosed, BeginRelease, EndRelease, Return
  <1>2. UNCHANGED <<worker, inbox, owing, garbled, culprit>>
    BY <1>1 DEF threads
  <1>3. up' \in BOOLEAN /\ zmqRunning' \in BOOLEAN
    BY Zenon DEF Signal, SecondSignal, MainThread, LeaveMainLoop, DisconnectFeed, AllDisconnected,
       JoinWorkers, BeginZmqStop, CloseSocket, AllClosed, BeginRelease, EndRelease, Return,
       ServerInv, ServerTypeOK
  <1>4. mainAt' \in MainStates /\ sockets' \subseteq sockets
    BY DEF Signal, SecondSignal, MainThread, LeaveMainLoop, DisconnectFeed, AllDisconnected,
       JoinWorkers, BeginZmqStop, CloseSocket, AllClosed, BeginRelease, EndRelease, Return,
       ServerInv, ServerTypeOK, MainGoes, MainStates
  <1>5. ServerTypeOK'
    BY <1>2, <1>3, <1>4 DEF ServerInv, ServerTypeOK
  <1>6. Serving'
    BY DEF Signal, SecondSignal, MainThread, LeaveMainLoop, DisconnectFeed, AllDisconnected,
       JoinWorkers, BeginZmqStop, CloseSocket, AllClosed, BeginRelease, EndRelease, Return,
       ServerInv, Serving, MainGoes
  <1>7. Joined'
    BY <1>2 DEF Signal, SecondSignal, MainThread, LeaveMainLoop, DisconnectFeed, AllDisconnected,
       JoinWorkers, BeginZmqStop, CloseSocket, AllClosed, BeginRelease, EndRelease, Return,
       ServerInv, Joined, MainGoes
  <1> QED BY <1>2, <1>5, <1>6, <1>7 DEF ServerInv, OneAnswerOwed, WorkersOffSockets

LEMMA ServerStep == ServerInv /\ [ServerNext]_serverVars => ServerInv'
  <1> SUFFICES ASSUME ServerInv, [ServerNext]_serverVars PROVE ServerInv'
    OBVIOUS
  <1>1. ASSUME NEW w \in Workers, Arrive(w) PROVE ServerInv'
    <2>1. inbox' \in [Workers -> Nat]
      BY <1>1 DEF Arrive, ServerInv, ServerTypeOK
    <2>2. UNCHANGED <<up, mainAt, zmqRunning, sockets, worker, owing, garbled, culprit>>
      BY <1>1 DEF Arrive, process
    <2> QED BY <2>1, <2>2 DEF ServerInv, ServerTypeOK, Serving, Joined, OneAnswerOwed,
               WorkersOffSockets
  <1>2. CASE UNCHANGED serverVars
    <2>1. UNCHANGED <<up, mainAt, zmqRunning, sockets, worker, inbox, owing, garbled, culprit>>
      BY <1>2 DEF serverVars, process, threads
    <2> QED BY <2>1 DEF ServerInv, ServerTypeOK, Serving, Joined, OneAnswerOwed,
               WorkersOffSockets
  <1> QED BY <1>1, <1>2, WorkersKeep, FeedsKeep, MainKeeps DEF ServerNext

(* However many feeds and messages there are and whenever the signals      *)
(* come: no worker crashes the process on a socket main has released,      *)
(* because main releases none before it has joined the workers.            *)
THEOREM WorkersNeverCrash == ServerSpec => []WorkersOffSockets
  <1>1. ServerInv => WorkersOffSockets
    BY DEF ServerInv
  <1> QED BY <1>1, ServerStarts, ServerStep, PTL DEF ServerSpec

(* The query thread never owes two answers. It owes one exactly while it   *)
(* handles a query, when the socket would refuse to receive, and from the  *)
(* first garbled query on, to which it has no answer to give: until then   *)
(* it may receive whenever it comes to.                                    *)
THEOREM RepliesPaired == ServerSpec => []OneAnswerOwed
  <1>1. ServerInv => OneAnswerOwed
    BY DEF ServerInv
  <1> QED BY <1>1, ServerStarts, ServerStep, PTL DEF ServerSpec

-----------------------------------------------------------------------------
(* The logger.                                                             *)

Line == LogSources \X (Nat \ {0})
WriterStates == {"head", "wait", "drain", "write", "ended"}
Kept == written \cup refused
Taken == lines - Len(logQueue)  \* lines the writer has taken off the queue

LoggerTypeOK ==
  /\ logging \in BOOLEAN /\ diskWorks \in BOOLEAN
  /\ logQueue \in Seq(Line)
  /\ lines \in Nat /\ day \in Nat
  /\ writer \in WriterStates
  /\ held \in Line \cup {<<>>} /\ (held # <<>> <=> writer = "write")
  /\ logFile \in [LogSources -> [day : Nat, open : BOOLEAN]]
  /\ written \subseteq Line /\ refused \subseteq Line /\ late \subseteq Line

(* The queue holds the last lines in the order in which they were logged,  *)
(* and the writer is at the one before them: no line is met twice.         *)
InOrder ==
  /\ \A i \in 1 .. Len(logQueue) : logQueue[i][2] = Taken + i
  /\ held # <<>> => held[2] = Taken
  /\ \A line \in Kept : line[2] <= Taken /\ (held # <<>> => line[2] < Taken)

LinesCounted ==
  /\ IsFiniteSet(Kept)
  /\ lines = Len(logQueue) + Cardinality(Kept) + (IF held = <<>> THEN 0 ELSE 1)

(* Between two rounds only late lines wait.                                *)
LateOnly == writer \in {"head", "ended"} => Range(logQueue) \subseteq late

LoggerInv == LoggerTypeOK /\ InOrder /\ LinesCounted /\ LateOnly

LEMMA LoggerStarts == LoggerInit => LoggerInv
  <1> SUFFICES ASSUME LoggerInit PROVE LoggerInv
    OBVIOUS
  <1>1. LoggerTypeOK
    <2>1. diskWorks \in BOOLEAN /\ logging \in BOOLEAN
      BY Zenon DEF LoggerInit
    <2>2. logQueue \in Seq(Line)
      BY EmptySeq DEF LoggerInit
    <2> QED BY <2>1, <2>2 DEF LoggerInit, LoggerTypeOK, WriterStates
  <1>2. logQueue = <<>> /\ Len(logQueue) = 0 /\ Kept = {} /\ held = <<>> /\ lines = 0
    BY DEF LoggerInit, Kept
  <1>3. IsFiniteSet(Kept) /\ Cardinality(Kept) = 0
    BY <1>2, FS_EmptySet
  <1>4. Range(logQueue) = {}
    BY <1>2 DEF Range
  <1> QED BY <1>1, <1>2, <1>3, <1>4 DEF LoggerInv, InOrder, LinesCounted, LateOnly

(* A line more in the queue.                                               *)
LEMMA LogKeeps ==
  ASSUME LoggerInv, NEW s \in LogSources, Log(s)
  PROVE  LoggerInv'
  <1> DEFINE n == lines + 1
  <1>1. /\ lines' = n /\ logQueue' = Append(logQueue, <<s, n>>)
        /\ UNCHANGED <<logging, writer, held, day, diskWorks, logFile, written, refused>>
    BY DEF Log, fileVars
  <1>2. logQueue \in Seq(Line) /\ lines \in Nat /\ <<s, n>> \in Line /\ Len(logQueue) \in Nat
    BY LenProperties DEF LoggerInv, LoggerTypeOK, Line
  <1>3. /\ logQueue' \in Seq(Line) /\ Len(logQueue') = Len(logQueue) + 1
        /\ \A i \in 1 .. Len(logQueue) : logQueue'[i] = logQueue[i]
        /\ logQueue'[Len(logQueue) + 1] = <<s, n>>
    BY <1>1, <1>2, AppendProperties
  <1>4. Range(logQueue') \subseteq Range(logQueue) \cup {<<s, n>>}
    <2> SUFFICES ASSUME NEW line \in Range(logQueue')
                 PROVE  line \in Range(logQueue) \/ line = <<s, n>>
      OBVIOUS
    <2>1. /\ Range(logQueue) = {logQueue[i] : i \in 1 .. Len(logQueue)}
          /\ Range(logQueue') = {logQueue'[i] : i \in 1 .. Len(logQueue')}
      BY <1>2, <1>3, RangeEquality
    <2>2. PICK i \in 1 .. Len(logQueue') : line = logQueue'[i]
      BY <2>1
    <2>3. CASE i \in 1 .. Len(logQueue)
      BY <1>3, <2>1, <2>2, <2>3
    <2>4. CASE i = Len(logQueue) + 1
      BY <1>3, <2>2, <2>4
    <2> QED BY <1>2, <1>3, <2>2, <2>3, <2>4
  <1>5. late' = IF writer \in {"head", "ended"} THEN late \cup {<<s, n>>} ELSE late
    BY <1>1 DEF Log
  <1>6. LoggerTypeOK'
    <2>1. late' \subseteq Line
      BY <1>2, <1>5 DEF LoggerInv, LoggerTypeOK
    <2>2. logging' \in BOOLEAN /\ diskWorks' \in BOOLEAN
      BY Zenon, <1>1 DEF LoggerInv, LoggerTypeOK
    <2> QED BY <1>1, <1>2, <1>3, <2>1, <2>2 DEF LoggerInv, LoggerTypeOK
  <1>7. Taken' = Taken
    BY <1>1, <1>2, <1>3 DEF Taken
  <1>8. InOrder'
    <2>1. \A i \in 1 .. Len(logQueue') : logQueue'[i][2] = Taken + i
      <3>1. \A i \in 1 .. Len(logQueue) : logQueue'[i][2] = Taken + i
        BY <1>3 DEF LoggerInv, InOrder
      <3>2. Taken + (Len(logQueue) + 1) = n
        BY <1>2 DEF Taken
      <3>3. logQueue'[Len(logQueue) + 1][2] = n
        BY <1>3
      <3> QED BY <1>2, <1>3, <3>1, <3>2, <3>3
    <2>2. Kept' = Kept
      BY <1>1 DEF Kept
    <2> QED BY <1>1, <1>7, <2>1, <2>2 DEF LoggerInv, InOrder
  <1>9. LinesCounted'
    <2>1. Kept' = Kept
      BY <1>1 DEF Kept
    <2>2. Cardinality(Kept) \in Nat
      BY FS_CardinalityType DEF LoggerInv, LinesCounted
    <2> QED BY <1>1, <1>2, <1>3, <2>1, <2>2 DEF LoggerInv, LinesCounted
  <1>10. LateOnly'
    BY <1>1, <1>4, <1>5 DEF LoggerInv, LateOnly
  <1> QED BY <1>6, <1>8, <1>9, <1>10 DEF LoggerInv

LEMMA TakeKeeps ==
  ASSUME LoggerInv, TakeLine
  PROVE  LoggerInv'
  <1>1. /\ logQueue # <<>> /\ held' = Head(logQueue) /\ logQueue' = Tail(logQueue)
        /\ writer = "drain" /\ writer' = "write"
        /\ UNCHANGED <<logging, lines, day, diskWorks, logFile, written, refused, late>>
    BY DEF TakeLine, WriterGoes, Elsewhere, fileVars
  <1>2. logQueue \in Seq(Line) /\ lines \in Nat /\ held = <<>>
    BY <1>1 DEF LoggerInv, LoggerTypeOK
  <1>3. Len(logQueue) \in Nat \ {0}
    BY <1>1, <1>2, LenProperties, EmptySeq
  <1>4. /\ Head(logQueue) = logQueue[1] /\ logQueue[1] \in Line
        /\ logQueue' \in Seq(Line) /\ Len(logQueue') = Len(logQueue) - 1
        /\ \A i \in 1 .. Len(logQueue') : logQueue'[i] = logQueue[i + 1]
    BY <1>1, <1>2, <1>3, HeadTailProperties, ElementOfSeq
  <1>5. held' \in Line /\ held' # <<>>
    <2>1. PICK s \in LogSources, n \in Nat : held' = <<s, n>>
      BY <1>1, <1>4 DEF Line
    <2>2. <<s, n>> # <<>>
      OBVIOUS
    <2> QED BY <1>1, <1>4, <2>1, <2>2
  <1>6. LoggerTypeOK'
    <2>1. logging' \in BOOLEAN /\ diskWorks' \in BOOLEAN
      BY Zenon, <1>1 DEF LoggerInv, LoggerTypeOK
    <2> QED BY <1>1, <1>4, <1>5, <2>1 DEF LoggerInv, LoggerTypeOK, WriterStates
  <1>7. Taken' = Taken + 1 /\ Taken \in Int
    BY <1>1, <1>2, <1>3, <1>4 DEF Taken
  <1>8. InOrder'
    <2>1. \A i \in 1 .. Len(logQueue') : logQueue'[i][2] = Taken' + i
      <3> SUFFICES ASSUME NEW i \in 1 .. Len(logQueue') PROVE logQueue'[i][2] = Taken' + i
        OBVIOUS
      <3>1. i + 1 \in 1 .. Len(logQueue) /\ logQueue'[i] = logQueue[i + 1]
        BY <1>3, <1>4
      <3>2. logQueue[i + 1][2] = Taken + (i + 1)
        BY <3>1 DEF LoggerInv, InOrder
      <3> QED BY <1>7, <3>1, <3>2
    <2>2. held'[2] = Taken'
      BY <1>1, <1>3, <1>4, <1>7 DEF LoggerInv, InOrder
    <2>3. \A line \in Kept' : line[2] <= Taken' /\ line[2] < Taken'
      <3>1. \A line \in Kept : line[2] <= Taken /\ line[2] \in Nat
        BY DEF LoggerInv, LoggerTypeOK, InOrder, Kept, Line
      <3> QED BY <1>1, <1>7, <3>1 DEF Kept
    <2> QED BY <2>1, <2>2, <2>3 DEF InOrder
  <1>9. LinesCounted'
    <2>1. Kept' = Kept
      BY <1>1 DEF Kept
    <2>2. Cardinality(Kept) \in Nat
      BY FS_CardinalityType DEF LoggerInv, LinesCounted
    <2> QED BY <1>1, <1>2, <1>3, <1>4, <1>5, <2>1, <2>2 DEF LoggerInv, LinesCounted
  <1>10. LateOnly'
    BY <1>1 DEF LateOnly
  <1> QED BY <1>6, <1>8, <1>9, <1>10 DEF LoggerInv

(* The line that is written is a new one.                                  *)
LEMMA WriteKeeps ==
  ASSUME LoggerInv, WriteLine
  PROVE  LoggerInv'
  <1>1. /\ writer = "write" /\ writer' = "drain" /\ held' = <<>>
        /\ UNCHANGED <<logging, lines, logQueue, day, diskWorks, late>>
    BY DEF WriteLine, WriterGoes, Elsewhere
  <1>2. held \in Line /\ held # <<>> /\ held[2] = Taken /\ held \notin Kept
    <2>1. held \in Line /\ held # <<>>
      BY <1>1 DEF LoggerInv, LoggerTypeOK
    <2>2. \A line \in Kept : line[2] < Taken
      BY <2>1 DEF LoggerInv, InOrder
    <2>3. held[2] = Taken /\ held[2] \in Nat
      BY <2>1 DEF LoggerInv, InOrder, Line
    <2> QED BY <2>1, <2>2, <2>3
  <1>3. written' \cup refused' = Kept \cup {held} /\ written' \subseteq Line /\ refused' \subseteq Line
    BY <1>2 DEF WriteLine, Kept, LoggerInv, LoggerTypeOK
  <1>4. logFile' \in [LogSources -> [day : Nat, open : BOOLEAN]]
    <2>1. PICK opened \in [day : Nat, open : BOOLEAN] :
            logFile' = [logFile EXCEPT ![held[1]] = opened]
      <3>1. held[1] \in LogSources
        BY <1>2 DEF Line
      <3>2. logFile[held[1]] \in [day : Nat, open : BOOLEAN]
        BY <3>1 DEF LoggerInv, LoggerTypeOK
      <3>3. [day |-> day, open |-> diskWorks] \in [day : Nat, open : BOOLEAN]
        BY DEF LoggerInv, LoggerTypeOK
      <3> QED BY <3>2, <3>3 DEF WriteLine
    <2> QED BY <2>1 DEF LoggerInv, LoggerTypeOK
  <1>5. LoggerTypeOK'
    <2>1. logging' \in BOOLEAN /\ diskWorks' \in BOOLEAN
      BY Zenon, <1>1 DEF LoggerInv, LoggerTypeOK
    <2> QED BY <1>1, <1>3, <1>4, <2>1 DEF LoggerInv, LoggerTypeOK, WriterStates
  <1>6. Taken' = Taken /\ Kept' = Kept \cup {held}
    BY <1>1, <1>3 DEF Taken, Kept
  <1>7. InOrder'
    <2>1. \A line \in Kept' : line[2] <= Taken
      BY <1>2, <1>6 DEF LoggerInv, InOrder, LoggerTypeOK, Line
    <2> QED BY <1>1, <1>6, <2>1 DEF LoggerInv, InOrder
  <1>8. LinesCounted'
    <2>1. IsFiniteSet(Kept) /\ Cardinality(Kept) \in Nat
      BY FS_CardinalityType DEF LoggerInv, LinesCounted
    <2>2. IsFiniteSet(Kept') /\ Cardinality(Kept') = Cardinality(Kept) + 1
      BY <1>2, <1>6, <2>1, FS_AddElement
    <2>3. Len(logQueue) \in Nat /\ lines \in Nat
      BY LenProperties DEF LoggerInv, LoggerTypeOK
    <2> QED BY <1>1, <1>2, <2>1, <2>2, <2>3 DEF LoggerInv, LinesCounted
  <1>9. LateOnly'
    BY <1>1 DEF LateOnly
  <1> QED BY <1>5, <1>7, <1>8, <1>9 DEF LoggerInv

LEMMA LoggerStep == LoggerInv /\ [LoggerNext]_logVars => LoggerInv'
  <1> SUFFICES ASSUME LoggerInv, [LoggerNext]_logVars PROVE LoggerInv'
    OBVIOUS
  <1>1. ASSUME UNCHANGED <<logQueue, lines, held, logFile, written, refused, late>>,
               \/ NextDay \/ Shutdown \/ LoopAgain \/ WriterEnds \/ WaitEnds \/ DrainEnds
               \/ UNCHANGED logVars
        PROVE  LoggerInv'
    <2>1. logging' \in BOOLEAN /\ diskWorks' \in BOOLEAN
      BY Zenon, <1>1 DEF NextDay, Shutdown, LoopAgain, WriterEnds, WaitEnds, DrainEnds, Elsewhere,
         logVars, LoggerInv, LoggerTypeOK
    <2>2. /\ writer' \in WriterStates /\ day' \in Nat
          /\ writer' = "write" <=> writer = "write"
          /\ writer' \in {"head", "ended"} => writer \in {"head", "ended"} \/ logQueue = <<>>
      BY <1>1 DEF NextDay, Shutdown, LoopAgain, WriterEnds, WaitEnds, DrainEnds, Elsewhere,
         WriterGoes, logVars, LoggerInv, LoggerTypeOK, WriterStates
    <2>3. LoggerTypeOK'
      BY <1>1, <2>1, <2>2 DEF LoggerInv, LoggerTypeOK
    <2>4. InOrder' /\ LinesCounted'
      BY <1>1 DEF LoggerInv, InOrder, LinesCounted, Kept, Taken
    <2>5. logQueue = <<>> => Range(logQueue) = {}
      BY DEF Range
    <2>6. LateOnly'
      BY <1>1, <2>2, <2>5 DEF LoggerInv, LateOnly
    <2> QED BY <2>3, <2>4, <2>6 DEF LoggerInv
  <1>2. CASE NextDay \/ Shutdown \/ UNCHANGED logVars
    BY <1>1, <1>2 DEF NextDay, Shutdown, logVars, fileVars
  <1>3. CASE LoopAgain \/ WriterEnds \/ WaitEnds \/ DrainEnds
    BY <1>1, <1>3 DEF LoopAgain, WriterEnds, WaitEnds, DrainEnds, Elsewhere, fileVars
  <1> QED BY <1>2, <1>3, LogKeeps, TakeKeeps, WriteKeeps DEF LoggerNext, Writer

(* However many threads log and whenever the logger is shut down: each     *)
(* line is in one place, and none is left behind but those that came       *)
(* between the writer's last round and its end.                            *)
THEOREM NoLineLost == LoggerSpec => []LinesKept
  <1>1. LoggerInv => LinesKept
    BY DEF LoggerInv, LinesCounted, LateOnly, Kept, LinesKept
  <1> QED BY <1>1, LoggerStarts, LoggerStep, PTL DEF LoggerSpec

(* Lines are written, or refused by a file that is shut, in the order in   *)
(* which they were logged.                                                 *)
THEOREM LinesInOrder == LoggerSpec => []InOrder
  <1>1. LoggerInv => InOrder
    BY DEF LoggerInv
  <1> QED BY <1>1, LoggerStarts, LoggerStep, PTL DEF LoggerSpec
=============================================================================
