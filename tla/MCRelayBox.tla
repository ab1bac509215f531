----------------------------- MODULE MCRelayBox -----------------------------
(* Instances of RelayBox for TLC.                                          *)
EXTENDS RelayBox

TwoNames  == 1..2
TwoPorts  == 1..2
Quiet     == {{}}
Several   == {{}, {"refuse"}, {"timeout"}, {"outage"}, {"late"}, {"blink"}, {"lost"}}
Refusing  == {{"refuse"}}
=============================================================================
