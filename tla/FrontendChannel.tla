---------------------------- MODULE FrontendChannel ----------------------------
(***************************************************************************)
(* WebSocketServer: the channel between the web frontend and the server.   *)
(* Its IO thread accepts browsers and executes their commands one after    *)
(* the other with clients_mutex_ held; what is to be sent is queued, and   *)
(* the message thread sends it, taking the same mutex for each message.    *)
(* Other threads queue events and log lines. main stops it at the end.     *)
(*                                                                         *)
(* The port may be taken: start returns true all the same, and nothing     *)
(* ever leaves the queue. No snapshot generator is set, so the snapshot    *)
(* thread only has to end. What a command does is modelled elsewhere; each *)
(* queues one answer, also when it fails, but one that cannot be read has  *)
(* none. Text that is no UTF-8 cannot be sent: an answer is then dropped,  *)
(* while an event ends the process by the exception nobody catches.        *)
(***************************************************************************)
EXTENDS Naturals, Sequences, SequencesExt, FiniteSets, FiniteSetsExt

CONSTANTS
  Browsers,
  MaxCommands,  \* bound: commands sent, by all browsers
  MaxEvents     \* bound: events and log lines

ASSUME FrontendBounds == MaxCommands \in Nat /\ MaxEvents \in Nat

VARIABLES
  link,       \* [b] "new", "open" or "closed", as the browser sees it
  asked, handled,  \* [b] commands sent, and executed
  clientId,   \* [b] its number in clients_ and hdl_to_id_, 0 for none
  nextId,     \* next_client_id_
  executing,  \* browsers whose command holds clients_mutex_ (at most one)
  queue,      \* message_queue_: [to |-> client id or 0 for all, command]
  events,
  sender, sending,  \* message thread: where it is ("crashed": it took the
                    \* process with it), and its message
  io, snapshots,    \* the server and snapshot threads run
  channelUp,    \* running_
  halt,       \* main: "no", "joining", "done"
  got,        \* history: [b] answers received, as <<browser, command>>
  lost        \* history: [b] commands not read, and answers not sent

clientVars == <<link, asked, handled, clientId, nextId, got, lost>>
frontendVars ==
  <<clientVars, executing, queue, events, sender, sending, io, snapshots, channelUp, halt>>

FrontendInit ==
  /\ link = [b \in Browsers |-> "new"]
  /\ asked = [b \in Browsers |-> 0] /\ handled = [b \in Browsers |-> 0]
  /\ clientId = [b \in Browsers |-> 0] /\ nextId = 1
  /\ executing = {} /\ queue = <<>> /\ events = 0
  /\ sending = <<>>
  /\ channelUp = TRUE /\ snapshots = TRUE /\ halt = "no"
  /\ got = [b \in Browsers |-> <<>>] /\ lost = [b \in Browsers |-> 0]
  /\ io \in BOOLEAN /\ sender = IF io THEN "head" ELSE "ended"  \* listen may fail

Alive == sender /= "crashed"

-----------------------------------------------------------------------------
(* The browsers.                                                           *)

SendCommand(b) ==
  /\ link[b] = "open" /\ MapThenSumSet(LAMBDA a : asked[a], Browsers) < MaxCommands
  /\ asked' = [asked EXCEPT ![b] = @ + 1]
  /\ UNCHANGED <<link, handled, clientId, nextId, got, lost, executing, queue, events, sender,
                 sending, io, snapshots, channelUp, halt>>

Leave(b) ==
  /\ link[b] = "open" /\ link' = [link EXCEPT ![b] = "closed"]
  /\ UNCHANGED <<asked, handled, clientId, nextId, got, lost, executing, queue, events, sender,
                 sending, io, snapshots, channelUp, halt>>

-----------------------------------------------------------------------------
(* The IO thread: the three handlers. A delivery that holds clients_mutex_ *)
(* is one step, so only a command in execution can stand in the way.       *)

(* Mutant: a number is used again.                                         *)
OpenReused(b) ==
  /\ io /\ executing = {} /\ link[b] = "new"
  /\ link' = [link EXCEPT ![b] = "open"]
  /\ clientId' = [clientId EXCEPT ![b] =
       1 + Cardinality({a \in Browsers : clientId[a] /= 0})]
  /\ nextId' = nextId + 1
  /\ UNCHANGED <<asked, handled, got, lost, executing, queue, events, sender, sending, io,
                 snapshots, channelUp, halt>>

Open(b) ==
  /\ io /\ executing = {} /\ link[b] = "new"
  /\ link' = [link EXCEPT ![b] = "open"]
  /\ clientId' = [clientId EXCEPT ![b] = nextId]
  /\ nextId' = nextId + 1
  /\ UNCHANGED <<asked, handled, got, lost, executing, queue, events, sender, sending, io,
                 snapshots, channelUp, halt>>

Close(b) ==
  /\ io /\ executing = {} /\ link[b] = "closed" /\ clientId[b] /= 0
  /\ clientId' = [clientId EXCEPT ![b] = 0]
  /\ UNCHANGED <<link, asked, handled, nextId, got, lost, executing, queue, events, sender,
                 sending, io, snapshots, channelUp, halt>>

(* handle_client_message, for a browser with a number.                     *)
BeginCommand(b) ==
  /\ io /\ executing = {}
  /\ handled[b] < asked[b] /\ clientId[b] /= 0
  /\ executing' = {b}
  /\ UNCHANGED <<clientVars, queue, events, sender, sending, io, snapshots, channelUp, halt>>

(* A message that is no JSON object: the exception ends here.              *)
RefuseCommand(b) ==
  /\ b \in executing /\ executing' = {}
  /\ handled' = [handled EXCEPT ![b] = @ + 1]
  /\ lost' = [lost EXCEPT ![b] = @ + 1]
  /\ UNCHANGED <<link, asked, clientId, nextId, got, queue, events, sender, sending, io,
                 snapshots, channelUp, halt>>

(* send_response, and the end of the handler.                              *)
AnswerCommand(b) ==
  /\ b \in executing /\ executing' = {}
  /\ handled' = [handled EXCEPT ![b] = @ + 1]
  /\ queue' = Append(queue, [to |-> clientId[b], command |-> <<b, handled'[b]>>])
  /\ UNCHANGED <<link, asked, clientId, nextId, got, lost, events, sender, sending, io,
                 snapshots, channelUp, halt>>

IoEnds ==
  /\ io /\ ~channelUp /\ executing = {} /\ io' = FALSE
  /\ UNCHANGED <<clientVars, executing, queue, events, sender, sending, snapshots, channelUp, halt>>

(* send_event and send_log, from any thread, also while stop waits.        *)
QueueEvent ==
  /\ events < MaxEvents /\ events' = events + 1
  /\ queue' = Append(queue, [to |-> 0, command |-> <<>>])
  /\ UNCHANGED <<clientVars, executing, sender, sending, io, snapshots, channelUp, halt>>

-----------------------------------------------------------------------------
(* The message thread: process_message_queue in a loop. Once it sends it   *)
(* goes on until the queue is empty. A wait that ends after 100 ms with    *)
(* nothing to do only comes back to itself.                                *)

OthersRun == UNCHANGED <<executing, events, io, snapshots, channelUp, halt>>
SenderGoes(from, to) == sender = from /\ sender' = to

BeginWait ==
  /\ channelUp /\ SenderGoes("head", "wait")
  /\ UNCHANGED <<clientVars, queue, sending>> /\ OthersRun

BeginDrain ==
  /\ queue /= <<>> \/ ~channelUp
  /\ SenderGoes("wait", "drain")
  /\ UNCHANGED <<clientVars, queue, sending>> /\ OthersRun

TakeMessage ==
  /\ queue /= <<>> /\ SenderGoes("drain", "send")
  /\ sending' = <<Head(queue)>> /\ queue' = Tail(queue)
  /\ UNCHANGED clientVars /\ OthersRun

(* broadcast_internal and send_to_client_internal: a browser that has left *)
(* gets nothing, and a number nobody has any more is skipped.              *)
SentTo(b) == LET to == sending[1].to IN to /= 0 /\ clientId[b] = to /\ link[b] = "open"

SendMessage ==
  /\ executing = {} /\ SenderGoes("send", "drain")
  /\ got' = [b \in Browsers |->
       IF SentTo(b) THEN Append(got[b], sending[1].command) ELSE got[b]]
  /\ sending' = <<>>
  /\ UNCHANGED <<link, asked, handled, clientId, nextId, lost, queue>> /\ OthersRun

(* dump or send throws: for one client that is caught.                     *)
DropAnswer ==
  /\ executing = {} /\ SenderGoes("send", "drain") /\ sending[1].to /= 0
  /\ lost' = [b \in Browsers |-> lost[b] + IF SentTo(b) THEN 1 ELSE 0]
  /\ sending' = <<>>
  /\ UNCHANGED <<link, asked, handled, clientId, nextId, got, queue>> /\ OthersRun

(* dump throws before the loop over the clients, where nothing catches it. *)
BroadcastCrash ==
  /\ executing = {} /\ SenderGoes("send", "crashed") /\ sending[1].to = 0
  /\ sending' = <<>>
  /\ UNCHANGED <<clientVars, queue>> /\ OthersRun

EndDrain ==
  /\ queue = <<>> /\ SenderGoes("drain", "head")
  /\ UNCHANGED <<clientVars, queue, sending>> /\ OthersRun

SenderEnds ==
  /\ ~channelUp /\ SenderGoes("head", "ended")
  /\ UNCHANGED <<clientVars, queue, sending>> /\ OthersRun

SnapshotsEnd ==
  /\ snapshots /\ ~channelUp /\ snapshots' = FALSE
  /\ UNCHANGED <<clientVars, executing, queue, events, sender, sending, io, channelUp, halt>>

-----------------------------------------------------------------------------
(* stop: the flag, the joins of the server thread (which joins the message *)
(* thread) and the snapshot thread, and the client maps are cleared.       *)

BeginStop ==
  /\ halt = "no" /\ halt' = "joining"
  /\ channelUp' = FALSE
  /\ UNCHANGED <<clientVars, executing, queue, events, sender, sending, io, snapshots>>

EndStop ==
  /\ halt = "joining" /\ halt' = "done"
  /\ ~io /\ sender = "ended" /\ ~snapshots
  /\ clientId' = [b \in Browsers |-> 0]
  /\ UNCHANGED <<link, asked, handled, nextId, got, lost, executing, queue, events, sender,
                 sending, io, snapshots, channelUp>>

IoThread == Alive /\
  \/ \E b \in Browsers : Close(b) \/ BeginCommand(b) \/ RefuseCommand(b) \/ AnswerCommand(b)
  \/ IoEnds
MessageThread ==
  BeginWait \/ BeginDrain \/ TakeMessage \/ SendMessage \/ DropAnswer \/ BroadcastCrash
    \/ EndDrain \/ SenderEnds
MainStops == Alive /\ (SnapshotsEnd \/ EndStop)

FrontendNext ==
  \/ Alive /\ \E b \in Browsers : SendCommand(b) \/ Leave(b) \/ Open(b)
  \/ IoThread \/ MessageThread \/ MainStops
  \/ Alive /\ (QueueEvent \/ BeginStop)

FrontendSpec == FrontendInit /\ [][FrontendNext]_frontendVars

-----------------------------------------------------------------------------
(* A browser gets only answers to its own commands, in the order it sent   *)
(* them and each at most once, although answers are queued under a number  *)
(* and the browser may have left, and others come, before they are sent.   *)
AnswersOwn == \A b \in Browsers : \A i \in DOMAIN got[b] :
  got[b][i][1] = b /\ \A j \in 1 .. i - 1 : got[b][j][2] < got[b][i][2]

(* A browser that stays gets an answer to every command that could be read *)
(* and whose answer could be sent, as long as the channel is up: neither   *)
(* events, nor other browsers that come and go, nor the mutex held by a    *)
(* command in execution, nor a failed answer before it can keep it back.   *)
CommandsAnswered == \A b \in Browsers :
  <>[](Alive /\ io /\ channelUp /\ link[b] = "open") =>
    <>[](Len(got[b]) + lost[b] = asked[b])

(* stop returns, whatever is queued, in execution or still arrives, and    *)
(* also when the port could not be bound, unless an event that cannot be   *)
(* sent crashes the process first.                                         *)
StopReturns == halt = "joining" ~> halt = "done" \/ ~Alive

(* The channel answers each browser its commands, and stop ends it.        *)
CommandsServed == [][AnswersOwn']_frontendVars /\ CommandsAnswered /\ StopReturns
=============================================================================
