------------------------------ MODULE MCOkxFeed ------------------------------
(***************************************************************************)
(* Small instances of OkxFeed.                                             *)
(***************************************************************************)
EXTENDS OkxFeed

CONSTANT Budget   \* bound: troubles and requests of one behaviour

(* A behaviour spends its budget on troubles, on requests or on both.      *)
MCNext == Next /\ troubles' + asked' <= Budget

MCSpec == Init /\ [][MCNext]_vars /\ Fairness
=============================================================================
