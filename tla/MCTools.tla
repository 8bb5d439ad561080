------------------------------- MODULE MCTools -------------------------------
(* Small instances of Ticker and VerificationData.  They share no state,   *)
(* so a behaviour exercises one of them: the tool.                         *)
EXTENDS Ticker, VerificationData

VARIABLE tool

(* Two details, one of them known, two searches and a polygon of four      *)
(* points: every four with latitudes 0 to 3 on a grid three points wide,   *)
(* and three fours of which two or three have one latitude.               *)
MCPhases == <<[kind |-> "detail", n |-> 2], [kind |-> "search", n |-> 2],
              [kind |-> "nazotte", n |-> 1]>>
MCClouds ==
  {{<<x, g[x]>> : x \in 0 .. 3} : g \in [0 .. 3 -> 0 .. 2]}
  \cup {{<<0, 0>>, <<0, 2>>, <<3, 0>>, <<3, 2>>}, {<<0, 1>>, <<1, 1>>, <<2, 0>>, <<2, 2>>},
        {<<0, 0>>, <<0, 1>>, <<0, 2>>, <<2, 1>>}}
MCFeatures == <<"garden", "bath", "lift">>

MCOldFiles == {<<1, 0>>, <<3, 0>>}

MCInit == TickerInit /\ DataInit /\ tool \in {"ticker", "data"}
MCNext ==
  \/ tool = "ticker" /\ TickerNext /\ UNCHANGED <<dataVars, tool>>
  \/ tool = "data" /\ DataNext /\ UNCHANGED <<tickerVars, tool>>
MCSpec ==
  /\ MCInit /\ [][MCNext]_<<tickerVars, dataVars, tool>>
  /\ (tool = "ticker" => TickerFairness) /\ (tool = "data" => DataFairness)

(* Both tools keep their types.                                            *)
ToolsTypeOK == TickerTypeOK /\ DataTypeOK
=============================================================================
