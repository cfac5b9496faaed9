----------------------------- MODULE DelistWatch -----------------------------
(***************************************************************************)
(* SymbolDelistMonitor: a thread that polls the contract list of Binance   *)
(* and tells the administrators of contracts that stopped trading or got a *)
(* delivery date. What was told is kept in a state file, truncated and     *)
(* then written before the messages are sent; the server may crash between *)
(* any two steps, and reads the file when it starts again.                 *)
(*                                                                         *)
(* A poll that fails, or whose answer is not a list of symbols, changes    *)
(* nothing and is left out. Counts stop at MaxTold.                        *)
(***************************************************************************)
EXTENDS Naturals, FiniteSets

CONSTANTS
  Contracts,
  MaxMoves,    \* bound: changes at the exchange
  MaxCrashes,  \* bound: crashes of the server
  MaxTold      \* messages counted per contract

ASSUME DelistBounds == MaxMoves \in Nat /\ MaxCrashes \in Nat /\ MaxTold \in Nat

VARIABLES
  trading, dated,        \* exchange: TRADING, and with a delivery date set
  moves,
  firstPoll, known, knownDefault,  \* first_poll_, known_trading_symbols_ and
                         \* the contracts whose known date is the default
  gone, upcoming,        \* notified_delisted_, notified_upcoming_
  delistPc,              \* monitor thread: "poll", "truncate", "write", "tell"
  tellGone, tellUpcoming, \* the messages of this poll
  file,                  \* state file: [gone, upcoming], or Torn
  crashes, torn,         \* crashes, and those that left a torn file
  toldGone, toldUpcoming, \* history: [c] messages sent
  relisted               \* history: contracts listed again

exchange == <<trading, dated, moves, relisted>>
baseline == <<firstPoll, known, knownDefault>>
messages == <<tellGone, tellUpcoming>>
heard == <<toldGone, toldUpcoming>>
delistVars ==
  <<exchange, baseline, gone, upcoming, delistPc, messages, file, crashes, torn, heard>>

Torn == [gone |-> {}, upcoming |-> {}]  \* load_state ignores what it cannot parse

DelistInit ==
  /\ trading = Contracts /\ dated = {} /\ moves = 0 /\ relisted = {}
  /\ firstPoll = TRUE /\ known = {} /\ knownDefault = {}
  /\ gone = {} /\ upcoming = {}
  /\ delistPc = "poll" /\ tellGone = {} /\ tellUpcoming = {}
  /\ file = Torn /\ crashes = 0 /\ torn = 0
  /\ toldGone = [c \in Contracts |-> 0] /\ toldUpcoming = [c \in Contracts |-> 0]

-----------------------------------------------------------------------------
(* The exchange: a contract gets a delivery date, stops trading, or is     *)
(* listed again with the default date.                                     *)

Moved ==
  /\ moves < MaxMoves /\ moves' = moves + 1
  /\ UNCHANGED <<baseline, gone, upcoming, delistPc, messages, file, crashes, torn, heard>>

Announce(c) ==
  /\ c \in trading \ dated
  /\ dated' = dated \cup {c} /\ UNCHANGED <<trading, relisted>>
  /\ Moved

Delist(c) ==
  /\ c \in trading
  /\ trading' = trading \ {c} /\ UNCHANGED <<dated, relisted>>
  /\ Moved

Relist(c) ==
  /\ c \notin trading
  /\ trading' = trading \cup {c} /\ dated' = dated \ {c}
  /\ relisted' = relisted \cup {c}
  /\ Moved

-----------------------------------------------------------------------------
(* poll_exchange_info.                                                     *)

SetBaseline ==
  /\ firstPoll' = FALSE
  /\ known' = trading /\ knownDefault' = Contracts \ dated

(* Mutant: the first poll skips what the file says was told.               *)
AlreadyDatedOnce == (trading \cap dated) \ upcoming

(* Whom a poll tells about: the first one of a run every contract that has *)
(* a date, told before or not; a later one the changes not yet told.       *)
AlreadyDated == trading \cap dated
NewlyGone == (known \ trading) \ gone
NewlyDated == ((trading \cap dated) \cap knownDefault) \ upcoming

AnswerPoll(g, u) ==
  /\ gone' = gone \cup g /\ upcoming' = upcoming \cup u
  /\ tellGone' = g /\ tellUpcoming' = u
  /\ delistPc' = IF g \cup u = {} THEN "poll" ELSE "truncate"
  /\ SetBaseline
  /\ UNCHANGED <<exchange, file, crashes, torn, heard>>

PollFirst == delistPc = "poll" /\ firstPoll /\ AnswerPoll({}, AlreadyDated)
PollAgain == delistPc = "poll" /\ ~firstPoll /\ AnswerPoll(NewlyGone, NewlyDated)

(* save_state opens the file, which empties it, and writes both sets.      *)
TruncateFile ==
  /\ delistPc = "truncate" /\ delistPc' = "write"
  /\ file' = Torn
  /\ UNCHANGED <<exchange, baseline, gone, upcoming, messages, crashes, torn, heard>>

WriteFile ==
  /\ delistPc = "write" /\ delistPc' = "tell"
  /\ file' = [gone |-> gone, upcoming |-> upcoming]
  /\ UNCHANGED <<exchange, baseline, gone, upcoming, messages, crashes, torn, heard>>

(* send_notification: by mail and Lark, each by a command of its own.      *)
Heard(told, S) == [c \in Contracts |->
  IF c \in S /\ told[c] < MaxTold THEN told[c] + 1 ELSE told[c]]

SendNotification ==
  /\ delistPc = "tell" /\ delistPc' = "poll"
  /\ toldGone' = Heard(toldGone, tellGone)
  /\ toldUpcoming' = Heard(toldUpcoming, tellUpcoming)
  /\ tellGone' = {} /\ tellUpcoming' = {}
  /\ UNCHANGED <<exchange, baseline, gone, upcoming, file, crashes, torn>>

(* The server crashes and starts again: load_state.                        *)
CrashAndRestart ==
  /\ crashes < MaxCrashes /\ crashes' = crashes + 1
  /\ torn' = IF delistPc = "write" THEN torn + 1 ELSE torn
  /\ firstPoll' = TRUE /\ known' = {} /\ knownDefault' = {}
  /\ gone' = file.gone /\ upcoming' = file.upcoming
  /\ delistPc' = "poll" /\ tellGone' = {} /\ tellUpcoming' = {}
  /\ UNCHANGED <<exchange, file, heard>>

DelistMonitor ==
  PollFirst \/ PollAgain \/ TruncateFile \/ WriteFile \/ SendNotification
DelistNext ==
  \/ \E c \in Contracts : Announce(c) \/ Delist(c) \/ Relist(c)
  \/ DelistMonitor \/ CrashAndRestart

DelistSpec == DelistInit /\ [][DelistNext]_delistVars

-----------------------------------------------------------------------------
(* A delisting is told at most once for each contract and once more for    *)
(* each crash that tore the file, although it may be listed and delisted   *)
(* again; an announcement at most once in each run of the server.          *)
ToldOnce == \A c \in Contracts :
  toldGone[c] <= 1 + torn /\ toldUpcoming[c] <= 1 + crashes

(* The server has seen c trade, and not yet taken note that it stopped.    *)
Missed(c, n) == c \in (known \ trading) \ gone /\ crashes = n

(* A delisting of a contract the running server knows is told, unless the  *)
(* server crashes first or the contract is listed again.                   *)
DelistingTold == \A c \in Contracts : \A n \in 0 .. MaxCrashes :
  Missed(c, n) ~> (toldGone[c] > 0 \/ crashes > n \/ c \in trading)

(* An announcement is never lost to a crash, not even one between the save *)
(* that records it as told and the message: the next run tells it again.   *)
(* (Of a contract listed again, a second announcement may go untold.)      *)
AnnouncementSurvives == \A c \in Contracts :
  <>[](c \in (trading \cap dated) \ relisted) => <>(toldUpcoming[c] > 0)

(* Delistings and announcements are told, and not again and again.         *)
DelistTold == []ToldOnce /\ DelistingTold /\ AnnouncementSurvives
=============================================================================
