----------------------------- MODULE MCMarketData -----------------------------
(* Two processes: one runs the nightly job and the requests for history, the *)
(* other a user's refresh.                                                   *)
EXTENDS MarketData, TLC

CONSTANTS p1, p2, cron, manual, request

MCProcesses == {p1, p2}
MCTasks == {cron, manual, request}
MCHome == cron :> p1 @@ request :> p1 @@ manual :> p2

(* a history that stopped some days ago: nobody held the instrument since *)
MCStoredBars == {{0, 1}}
=============================================================================
