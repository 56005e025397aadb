---------------------------- MODULE MCEllipticApp ----------------------------
(***************************************************************************)
(* EllipticApp with a grid of five cells and two lines, for TLC.           *)
(***************************************************************************)
EXTENDS EllipticApp

MCCell == 0..4
MCPosition == 0..5
MCByte == {0, 2, 3, 4, 5}
MCGiven == [c \in MCCell |-> IF c = 0 THEN 2 ELSE IF c = 1 THEN 3 ELSE 0]
MCLines == << <<0, 2, 3>>, <<4, 1, 2>> >>
==============================================================================
