------------------------ MODULE MCProfileActivation ------------------------
(***************************************************************************)
(* A small instance of ProfileActivation: profile a is stored and enabled, *)
(* c is free, and a migration still needs its cleanup.                     *)
(***************************************************************************)
EXTENDS ProfileActivation

CONSTANTS a, c

MCStored == [p \in Profile |-> IF p = c THEN 0 ELSE 1]
MCEnabled == [profile |-> a, revision |-> 1]
=============================================================================
