------------------------- MODULE MCConformanceGuest -------------------------
(* Small instances of ConformanceGuest. *)
EXTENDS ConformanceGuest

AllTests == TwoPeer \union InProcess
=============================================================================
