-------------------------- MODULE MCRegimeRetest --------------------------
(* Small instances of RegimeRetest for TLC.                                *)
EXTENDS RegimeRetest

CONSTANTS long, short

Sides == {long, short}
OneSide == {long}

=============================================================================
