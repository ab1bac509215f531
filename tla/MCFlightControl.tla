-------------------------- MODULE MCFlightControl --------------------------
(* Instances of FlightControl for TLC: liberties of the environment.       *)
EXTENDS FlightControl

Impatient == {{"impatient"}}
Several   == {{"held_key"}, {"held_key", "lost"}, {"lost", "outage"}, {"late", "outage"}, {"impatient"}}
=============================================================================
