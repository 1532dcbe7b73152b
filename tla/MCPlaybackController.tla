------------------------ MODULE MCPlaybackController ------------------------
(***************************************************************************)
(* Small instances of PlaybackController.  Two cues overlap in time; the   *)
(* second track has only the first of them, under the same id.  The two    *)
(* provider selections share an endpoint, hence a cache key; they, and the *)
(* languages, are interchangeable.                                         *)
(***************************************************************************)
EXTENDS PlaybackController, TLC

CONSTANTS srtA, srtB, endpoint, fr, ja, p1, p2

MCCuesOf     == [s \in Source |-> IF s = srtB THEN {1} ELSE Cue]
MCStart      == [c \in Cue |-> c - 1]
MCEnd        == [c \in Cue |-> c + 1]
MCCodePoints == [c \in Cue |-> 1]
MCOversizedFirst == [c \in Cue |-> IF c = 1 THEN 9 ELSE 1]
MCEndpointOf == [s \in Selection |-> endpoint]

MCSymmetry == Permutations(Language) \cup Permutations(Selection)
=============================================================================
