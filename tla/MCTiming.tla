------------------------------ MODULE MCTiming ------------------------------
(***************************************************************************)
(* Time zones for the small instances of Timing.                           *)
(***************************************************************************)
EXTENDS Timing

\* West of UTC, in UTC and east of it.
AllZones == {-1, 0, 1}
=============================================================================
