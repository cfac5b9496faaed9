------------------------------- MODULE MCStorage -------------------------------
(***************************************************************************)
(* Instances of what the server keeps: the candles in Redis, and the       *)
(* accounts and strategy configurations in memory and on disk. The two     *)
(* share no state: a behaviour runs one of them, as part says, and the     *)
(* other stays in its initial state. The candles come in two instances: a  *)
(* short one with the fillers, and one without them that is long enough to *)
(* miss a whole period.                                                    *)
(***************************************************************************)
EXTENDS Candles, Accounts

CONSTANTS
  FilledMinute,  \* bound: the last minute of the instance with the fillers
  FilledLost     \* bound: lost candles of that instance

VARIABLE part

StorageVars == <<part, candleVars, accountVars>>

StorageInit ==
  /\ part \in {"fillers", "recorders", "accounts"}
  /\ CandlesInit /\ AccountsInit
  /\ part # "fillers" => exchange = "okx"

RunCandles ==
  /\ CandlesNext
  /\ \/ part = "fillers" /\ now' <= FilledMinute + 1 /\ lost' <= FilledLost
     \/ part = "recorders" /\ fills' = 0
  /\ UNCHANGED <<part, accountVars>>
RunAccounts == part = "accounts" /\ AccountsNext /\ UNCHANGED <<part, candleVars>>

StorageNext == RunCandles \/ RunAccounts
StorageSpec == StorageInit /\ [][StorageNext]_StorageVars
=============================================================================
