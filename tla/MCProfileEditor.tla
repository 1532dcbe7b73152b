--------------------------- MODULE MCProfileEditor ---------------------------
(***************************************************************************)
(* The editor when no profile is enabled at the start: one is enabled by   *)
(* the switch, or by another window.                                       *)
(***************************************************************************)
EXTENDS ProfileEditor, FiniteSets

\* A bound of the run: two requests or messages are under way.
MCUnderWay == Cardinality(host) + Len(queued) <= 2

MCInit == Init /\ active = None
MCSpec == MCInit /\ [][Next]_vars
=============================================================================
