--------------------------- MODULE MCSharedStyle ---------------------------
(***************************************************************************)
(* Two interchangeable windows share a style of two colors and a font; the *)
(* preferences hold another look than the one windows begin with.          *)
(***************************************************************************)
EXTENDS SharedStyle, TLC

CONSTANTS w1, w2

MCDefault == [fontColor |-> "white", position |-> 0]
MCRestored == [fontColor |-> "red", position |-> 90]
MCSymmetry == Permutations(Window)
=============================================================================
