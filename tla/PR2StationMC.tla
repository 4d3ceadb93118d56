---------------------------- MODULE PR2StationMC ----------------------------
(* Any sensor may send anything and timer_L3 fires in the middle of a round; *)
(* or sensors 1 and 2 answer and timer_L3 leaves time for a round.           *)
EXTENDS PR2Station

MCScenarios == {[answering |-> {}, L3 |-> 12], [answering |-> {1, 2}, L3 |-> RoundBound]}
=============================================================================
