------------------------------- MODULE MCServer -------------------------------
(***************************************************************************)
(* Instances of the parts of the server around the order path that share   *)
(* no state: the monitors that alert the operators, the frontend channel,  *)
(* the logger and the life of the process. A behaviour runs one of them:   *)
(* part says which, and the others stay in their initial state.            *)
(***************************************************************************)
EXTENDS ProxyWatch, OutageWatch, DelistWatch, FrontendChannel, Logger, Server

CONSTANT MaxBusy   \* bound: feeds linked and messages sent, together
VARIABLE part

BothExchanges == <<"okx.com", "binance.com">>
VenueOfFeed == [f \in Feeds |-> IF f \in KlineFeeds THEN "okx" ELSE "binance"]

watchVars == <<proxyVars, outageVars, delistVars>>
partVars == <<part, watchVars, frontendVars, logVars, serverVars>>

PartInit ==
  \/ part \in {"proxy", "outage", "delist"}
     /\ FrontendInit /\ io /\ LoggerInit /\ diskWorks /\ ServerInit /\ linked = {}
  \/ part = "frontend"
     /\ FrontendInit /\ LoggerInit /\ diskWorks /\ ServerInit /\ linked = {}
  \/ part = "logger"
     /\ FrontendInit /\ io /\ LoggerInit /\ ServerInit /\ linked = {}
  \/ part = "server"
     /\ FrontendInit /\ io /\ LoggerInit /\ diskWorks /\ ServerInit

Init == ProxyInit /\ OutageInit /\ DelistInit /\ PartInit

RunProxy ==
  /\ part = "proxy" /\ ProxyNext
  /\ UNCHANGED <<part, outageVars, delistVars, frontendVars, logVars, serverVars>>
RunOutage ==
  /\ part = "outage" /\ OutageNext
  /\ UNCHANGED <<part, proxyVars, delistVars, frontendVars, logVars, serverVars>>
RunDelist ==
  /\ part = "delist" /\ DelistNext
  /\ UNCHANGED <<part, proxyVars, outageVars, frontendVars, logVars, serverVars>>
RunFrontend ==
  /\ part = "frontend" /\ FrontendNext
  /\ UNCHANGED <<part, watchVars, logVars, serverVars>>
RunLogger ==
  /\ part = "logger" /\ LoggerNext
  /\ UNCHANGED <<part, watchVars, frontendVars, serverVars>>
RunServer ==
  /\ part = "server" /\ ServerNext /\ Cardinality(linked) + sent' <= MaxBusy
  /\ UNCHANGED <<part, watchVars, frontendVars, logVars>>

Next == RunProxy \/ RunOutage \/ RunDelist \/ RunFrontend \/ RunLogger \/ RunServer

(* Each under its own fairness: a thread that can go on does. Nothing is   *)
(* asked of the world outside.                                             *)
Spec ==
  /\ Init /\ [][Next]_partVars
  /\ WF_proxyVars(part = "proxy" /\ CheckProxy)
  /\ WF_outageVars(part = "outage" /\ TenSeconds)
  /\ WF_outageVars(part = "outage" /\ Reconnecting)
  /\ WF_outageVars(part = "outage" /\ Watching)
  /\ WF_delistVars(part = "delist" /\ DelistMonitor)
  /\ WF_frontendVars(part = "frontend" /\ IoThread)
  /\ WF_frontendVars(part = "frontend" /\ MessageThread)
  /\ WF_frontendVars(part = "frontend" /\ MainStops)
  /\ WF_logVars(part = "logger" /\ Writer)
  /\ WF_serverVars(part = "server" /\ OrderThread)
  /\ WF_serverVars(part = "server" /\ QueryThread)
  /\ WF_serverVars(part = "server" /\ SubscriptionThread)
  /\ WF_serverVars(part = "server" /\ MainThread)
  /\ \A f \in Feeds : WF_serverVars(part = "server" /\ FeedThread(f))
=============================================================================
