----------------------- MODULE MCIncidentAggregation -----------------------
(* A small instance of IncidentAggregation: two people at one place, and an event of no place that is
   of the second person and correlated with the first. *)
EXTENDS IncidentAggregation

CONSTANTS front, ann, bob, c1, c2

MCKinds == {
  [place |-> front, object |-> ann, corr |-> c1],
  [place |-> front, object |-> bob, corr |-> c2],
  [place |-> None, object |-> bob, corr |-> c1] }
=============================================================================
