------------------------- MODULE TranslationSession -------------------------
(***************************************************************************)
(* What the translation controller of a window promises, without any of    *)
(* its requests, retries or epochs: a table of cues, each untouched,       *)
(* translated or given up on, that belongs to one context (subtitle,       *)
(* language, provider selection) and a screen that shows lines of it.      *)
(*                                                                         *)
(* A cue is settled at most once until the context changes (or, if it was  *)
(* given up on, the switch is turned), always with a text made for the     *)
(* context of that moment, and only while the switch is on.                *)
(***************************************************************************)
CONSTANTS Source, Cue, CuesOf, Language, Selection, None

VARIABLES
    context,   \* what is translated into what, by whom
    on,        \* the window's translation switch
    texts,     \* [Cue -> the context a cue's text was made for, or None]
    failed,    \* the cues given up on
    screen     \* [Cue -> the text shown, or None]

sessionVars == <<context, on, texts, failed, screen>>

Context == [source : Source \cup {None}, target : Language,
            selection : Selection \cup {None}]

Empty == [c \in Cue |-> None]

Open(c) == texts[c] = None /\ c \notin failed

Init ==
    /\ context \in [source : {None}, target : Language, selection : {None}]
    /\ on \in BOOLEAN
    /\ texts = Empty /\ failed = {} /\ screen = Empty

\* Any part of the context is set anew, perhaps to what it was.
ChangeContext ==
    /\ context' \in Context
    /\ texts' = Empty /\ failed' = {} /\ screen' = Empty
    /\ UNCHANGED on

SwitchOff == on /\ ~on' /\ screen' = Empty /\ UNCHANGED <<context, texts, failed>>

SwitchOn == ~on /\ on' /\ failed' = {} /\ UNCHANGED <<context, texts, screen>>

\* Some open cues get a text, some are given up on, and the screen follows.
SettleCues(new, lost) ==
    /\ on /\ context.source # None /\ context.selection # None
    /\ new \cup lost \subseteq CuesOf[context.source] /\ new \cap lost = {}
    /\ \A c \in new \cup lost : Open(c)
    /\ texts' = [c \in Cue |-> IF c \in new THEN context ELSE texts[c]]
    /\ failed' = failed \cup lost
    /\ \A c \in Cue : screen'[c] \in {texts'[c], None}
    /\ UNCHANGED <<context, on>>

\* The screen is redrawn as the position moves, or blanked.
Redraw ==
    /\ screen' # screen
    /\ screen' = Empty \/ (on /\ context.source # None)
    /\ \A c \in Cue : screen'[c] \in {texts[c], None}
    /\ UNCHANGED <<context, on, texts, failed>>

Close ==
    /\ ~on'
    /\ texts' = Empty /\ failed' = {} /\ screen' = Empty
    /\ UNCHANGED context

Next ==
    \/ ChangeContext \/ SwitchOff \/ SwitchOn \/ Redraw \/ Close
    \/ \E new, lost \in SUBSET Cue : SettleCues(new, lost)

Spec == Init /\ [][Next]_sessionVars
=============================================================================
