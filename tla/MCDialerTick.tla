--------------------------------- MODULE MCDialerTick ---------------------------------
(* Small instances of DialerTick.                                                         *)
EXTENDS DialerTick

CONSTANTS a1, a2, c1, c2, c3, w1, w2

=======================================================================================
