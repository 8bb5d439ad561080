------------------------------ MODULE MCBrowser ------------------------------
(* Small instances of SearchPage and of NazotteMap.  They share no state,  *)
(* so a behaviour exercises one of them: the part.                         *)
EXTENDS SearchPage, NazotteMap

VARIABLE part

(* A triangle and a point inside it.                                       *)
MCPoints == {<<0, 0>>, <<3, 0>>, <<0, 3>>, <<1, 1>>}

MCInit == PageInit /\ MapInit /\ part \in {"search", "map"}
MCNext ==
  \/ part = "search" /\ PageNext /\ UNCHANGED <<mapVars, part>>
  \/ part = "map" /\ MapNext /\ UNCHANGED <<pageVars, part>>
MCSpec == MCInit /\ [][MCNext]_<<pageVars, mapVars, part>>

(* Both parts keep their types.                                            *)
BrowserTypeOK == PageTypeOK /\ MapTypeOK
=============================================================================
