------------------------------ MODULE WsClient ------------------------------
(***************************************************************************)
(* core::WebSocketClient in its perpetual mode: one client whose IO thread *)
(* never ends, and one connection object per attempt to connect. The       *)
(* handlers of every attempt write the same members, so an attempt that is *)
(* given up after connect_timeout_sec, or a connection that is being       *)
(* closed, can still change is_connected_ and connection_ later.           *)
(*                                                                         *)
(* The adapters' modules extend this one: they call StartConnect, and run  *)
(* the close and fail callbacks in the second half of a handler.           *)
(***************************************************************************)
EXTENDS Naturals

CONSTANTS
  Conns,        \* bound: connection objects that exist at a time
  NoConn,       \* connection_ is null
  MaxTroubles   \* bound: drops, failures and timeouts of the network

ASSUME ConnAssumption == Conns # {} /\ NoConn \notin Conns
ASSUME TroubleBound == MaxTroubles \in Nat

VARIABLES
  conn,      \* [c] "unused", "connecting", "open", "closing"
  current,   \* connection_
  up,        \* is_connected_ of the client
  handling,  \* the IO thread is between a handler's two halves
  hooked,    \* the callbacks are set
  troubles   \* drops, failures and timeouts so far

wsVars == <<conn, current, up, handling, hooked, troubles>>

WsTypeOK ==
  /\ conn \in [Conns -> {"unused", "connecting", "open", "closing"}]
  /\ current \in Conns \cup {NoConn}
  /\ up \in BOOLEAN /\ handling \in BOOLEAN /\ hooked \in BOOLEAN
  /\ troubles \in 0 .. MaxTroubles

(* The first connect has succeeded.                                        *)
WsInit ==
  \E c \in Conns :
    /\ c = CHOOSE d \in Conns : TRUE
    /\ conn = [d \in Conns |-> IF d = c THEN "open" ELSE "unused"]
    /\ current = c
    /\ up = TRUE
    /\ handling = FALSE
    /\ hooked = TRUE
    /\ troubles = 0

Trouble == troubles < MaxTroubles /\ troubles' = troubles + 1

-----------------------------------------------------------------------------
(* The IO thread: the open handler, and the first half of the close and    *)
(* fail handlers. They do not look at which connection they are for.       *)

Opened(c) ==
  /\ ~handling
  /\ conn[c] = "connecting"
  /\ conn' = [conn EXCEPT ![c] = "open"]
  /\ up' = TRUE
  /\ UNCHANGED <<current, handling, hooked, troubles>>

Gone(c) ==
  /\ ~handling
  /\ conn' = [conn EXCEPT ![c] = "unused"]
  /\ current' = NoConn
  /\ up' = FALSE
  /\ handling' = TRUE
  /\ UNCHANGED hooked

Failed(c) == conn[c] = "connecting" /\ Trouble /\ Gone(c)

Dropped(c) == conn[c] = "open" /\ Trouble /\ Gone(c)

Closed(c) == conn[c] = "closing" /\ UNCHANGED troubles /\ Gone(c)

-----------------------------------------------------------------------------
(* connect: close_connection, then a new connection object. The old one is *)
(* closed only if the client was connected and still holds a pointer.      *)
StartConnect ==
  LET new == CHOOSE c \in Conns : conn[c] = "unused"
  IN /\ \E c \in Conns : conn[c] = "unused"
     /\ conn' = [c \in Conns |-> CASE c = new             -> "connecting"
                                   [] c = current /\ up   -> "closing"
                                   [] OTHER               -> conn[c]]
     /\ current' = new
     /\ up' = FALSE
     /\ UNCHANGED <<handling, hooked, troubles>>

(* The wait for is_connected_ ended without it: the attempt failed or was  *)
(* lost again, or the timeout passed while it is still being made.         *)
WaitFailed ==
  /\ ~up
  /\ IF \E c \in Conns : conn[c] = "connecting" THEN Trouble ELSE UNCHANGED troubles
  /\ UNCHANGED <<conn, current, up, handling, hooked>>

(* send has a connection that takes the message.                           *)
CanSend == up /\ current # NoConn /\ conn[current] = "open"

(* An attempt ends, and so does a close that was asked for.                *)
Settles(c) == Opened(c) \/ Closed(c)
=============================================================================
