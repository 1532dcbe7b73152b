------------------------ MODULE ProfileEditorProofs ------------------------
(***************************************************************************)
(* For any profiles, drawers, requests, edits and bounds of the editor in  *)
(* the sidebar, whatever the order of clicks, answers, timers and changes  *)
(* that other windows make.                                                *)
(*                                                                         *)
(* EditorInv has a part per concern: the drawer and its number (DrawerOk), *)
(* the list (ListOk), the key with its channel and its reader (KeyOk),     *)
(* what ends each wait (WaitOk), the requests of the window and the ids    *)
(* they are known by (RequestOk), the test that is shown (TestOk).         *)
(*                                                                         *)
(* The hard part are the requests: the sidebar forgets one by dropping its *)
(* id, the window by marking it, and an answer may be on its way between   *)
(* the two.  ModelsSound and TestsSound say that what the window still     *)
(* works on is what the sidebar still waits for, and that an answer that   *)
(* is queued belongs to nothing the window works on.                       *)
(*                                                                         *)
(* HistoryOk says of the past what no variable holds: the lists that the   *)
(* stored profiles went through, one for each version.  What the sidebar   *)
(* shows is one of them, what is queued tells of others, and a revision    *)
(* that a save has stored is in one that is shown or told before.          *)
(***************************************************************************)
EXTENDS ProfileEditor, SequenceTheorems, TLAPS

\* The drawer is the same one.
Same(d, e) ==
    /\ e \in DrawerState
    /\ e.mode = d.mode /\ e.id = d.id /\ e.profile = d.profile /\ e.source = d.source

\* The drawer of an editor that is closed.
IsClosed(e) ==
    /\ e \in DrawerState
    /\ e.mode = "closed" /\ e.id = 0 /\ e.profile = None /\ e.keyEdits = 0 /\ e.validity = "current"
    /\ e.test = None /\ e.saving = FALSE /\ e.deleting = "no"

\* What the end of the channel leaves of the drawer.
ChannelDrawer(d) ==
    [d EXCEPT !.saving = @ /\ save = None,
              !.test = IF Testing(d) /\ ~d.test.sent THEN [@ EXCEPT !.phase = "failed"] ELSE @]

\* What a list does to the drawer.
GoesOn(l, e) ==
    /\ Same(drawer, e) /\ e.saving = drawer.saving /\ e.keyEdits = drawer.keyEdits
    /\ e.validity = drawer.validity /\ e.test = drawer.test
    /\ drawer.mode = "editing" =>
         l[drawer.profile] # 0 /\ (l[drawer.profile] = drawer.source \/ save # None)
FallsInConflict(l, e) ==
    /\ Same(drawer, e) /\ e.saving = drawer.saving /\ e.keyEdits = drawer.keyEdits
    /\ e.validity = "conflict" /\ e.test = None
    /\ drawer.mode = "editing" /\ save = None /\ l[drawer.profile] # 0

LEMMA DClosed ==
    /\ Closed \in DrawerState
    /\ Closed.mode = "closed" /\ Closed.id = 0 /\ Closed.profile = None /\ Closed.source = 0
    /\ Closed.keyEdits = 0 /\ Closed.validity = "current" /\ Closed.test = None
    /\ Closed.saving = FALSE /\ Closed.deleting = "no"
  BY EditorAssumption DEF Closed, DrawerState, Drawer, Revision

LEMMA DOpened ==
    ASSUME NEW mode \in {"new", "editing"}, NEW p \in Profile \cup {None}, NEW r \in Revision,
           nextDrawer \in Drawer
    PROVE  LET e == Opened(mode, p, r) IN
           /\ e \in DrawerState
           /\ e.mode = mode /\ e.id = nextDrawer /\ e.profile = p /\ e.source = r
           /\ e.keyEdits = 0 /\ e.validity = "current" /\ e.test = None
           /\ e.saving = FALSE /\ e.deleting = "no"
  BY EditorAssumption DEF Opened, Closed, DrawerState

LEMMA DEdited ==
    ASSUME drawer \in DrawerState, NEW c \in BOOLEAN
    PROVE  LET e == Edited(c) IN
           /\ Same(drawer, e) /\ e.validity = drawer.validity
           /\ e.saving = drawer.saving /\ e.deleting = drawer.deleting
           /\ c = FALSE => e.keyEdits = drawer.keyEdits
           /\ Conflict => e = drawer
           /\ ~Conflict => e.test = None
  <1>1. CASE Conflict
    BY <1>1 DEF Edited, Same
  <1>2. CASE ~Conflict
    <2>1. PICK n : n = drawer.draft + 1 OBVIOUS
    <2>2. PICK k : k = IF c THEN drawer.keyEdits + 1 ELSE drawer.keyEdits OBVIOUS
    <2>3. drawer.draft \in Nat /\ drawer.keyEdits \in Nat
      BY DEF DrawerState
    <2>4. n \in Nat /\ k \in Nat /\ (c = FALSE => k = drawer.keyEdits)
      BY <2>1, <2>2, <2>3
    <2>5. Edited(c) = [drawer EXCEPT !.draft = n, !.test = None, !.keyEdits = k]
      BY <1>2, <2>1, <2>2, Zenon DEF Edited
    <2>6. PICK e : e = [drawer EXCEPT !.draft = n, !.test = None, !.keyEdits = k] OBVIOUS
    <2>7. /\ Same(drawer, e) /\ e.validity = drawer.validity /\ e.saving = drawer.saving
          /\ e.deleting = drawer.deleting /\ e.keyEdits = k /\ e.test = None
      BY <2>4, <2>6 DEF DrawerState, Same
    <2> QED BY <1>2, <2>4, <2>5, <2>6, <2>7
  <1> QED BY <1>1, <1>2

LEMMA DTest ==
    ASSUME NEW d \in DrawerState, NEW t \in Test \cup {None}
    PROVE  LET e == [d EXCEPT !.test = t] IN
           /\ Same(d, e) /\ e.validity = d.validity
           /\ e.saving = d.saving /\ e.deleting = d.deleting /\ e.keyEdits = d.keyEdits
           /\ e.test = t
  BY DEF DrawerState, Same

LEMMA DPhase ==
    ASSUME NEW d \in DrawerState, d.test # None, NEW phase \in {"testing", "passed", "failed"}
    PROVE  LET e == [d EXCEPT !.test.phase = phase] IN
           /\ Same(d, e) /\ e.validity = d.validity
           /\ e.saving = d.saving /\ e.deleting = d.deleting /\ e.keyEdits = d.keyEdits
           /\ e.test \in Test /\ e.test.of = d.test.of /\ e.test.id = d.test.id
           /\ e.test.sent = d.test.sent /\ e.test.phase = phase
  BY DEF DrawerState, Test, Same

LEMMA DSent ==
    ASSUME NEW d \in DrawerState, d.test # None
    PROVE  LET e == [d EXCEPT !.test.sent = TRUE] IN
           /\ Same(d, e) /\ e.validity = d.validity
           /\ e.saving = d.saving /\ e.deleting = d.deleting /\ e.keyEdits = d.keyEdits
           /\ e.test \in Test /\ e.test.of = d.test.of /\ e.test.id = d.test.id
           /\ e.test.sent = TRUE /\ e.test.phase = d.test.phase
  BY DEF DrawerState, Test, Same

LEMMA DDeleting ==
    ASSUME NEW d \in DrawerState, NEW x \in {"no", "confirming", "deleting"}
    PROVE  LET e == [d EXCEPT !.deleting = x] IN
           /\ Same(d, e) /\ e.validity = d.validity
           /\ e.saving = d.saving /\ e.deleting = x /\ e.keyEdits = d.keyEdits
           /\ e.test = d.test
  BY DEF DrawerState, Same

LEMMA DSaving ==
    ASSUME NEW d \in DrawerState, NEW x \in BOOLEAN
    PROVE  LET e == [d EXCEPT !.saving = @ /\ x] IN
           /\ Same(d, e) /\ e.validity = d.validity
           /\ e.saving = (d.saving /\ x) /\ e.deleting = d.deleting /\ e.keyEdits = d.keyEdits
           /\ e.test = d.test
  BY DEF DrawerState, Same

LEMMA DSubmitted ==
    ASSUME NEW d \in DrawerState
    PROVE  LET e == [d EXCEPT !.submits = @ + 1, !.test = None, !.saving = TRUE] IN
           /\ Same(d, e) /\ e.validity = d.validity
           /\ e.saving = TRUE /\ e.deleting = d.deleting /\ e.keyEdits = d.keyEdits
           /\ e.test = None
  <1>1. PICK n : n = d.submits + 1 OBVIOUS
  <1>2. n \in Nat
    BY <1>1 DEF DrawerState
  <1>3. LET e == [d EXCEPT !.submits = n, !.test = None, !.saving = TRUE] IN
        /\ Same(d, e) /\ e.validity = d.validity
        /\ e.saving = TRUE /\ e.deleting = d.deleting /\ e.keyEdits = d.keyEdits
        /\ e.test = None
    BY <1>2 DEF DrawerState, Same
  <1> QED BY <1>1, <1>3

LEMMA DConfirmed ==
    ASSUME NEW d \in DrawerState, NEW b \in BOOLEAN
    PROVE  LET e == [d EXCEPT !.test = None, !.deleting = IF b THEN "deleting" ELSE @] IN
           /\ Same(d, e) /\ e.validity = d.validity
           /\ e.saving = d.saving /\ e.deleting = (IF b THEN "deleting" ELSE d.deleting) /\ e.keyEdits = d.keyEdits
           /\ e.test = None
  BY DEF DrawerState, Same

LEMMA DHidden ==
    ASSUME NEW d \in DrawerState, NEW x \in BOOLEAN
    PROVE  LET e == [d EXCEPT !.test = None, !.saving = @ /\ x] IN
           /\ Same(d, e) /\ e.validity = d.validity
           /\ e.saving = (d.saving /\ x) /\ e.deleting = d.deleting /\ e.keyEdits = d.keyEdits
           /\ e.test = None
  BY DEF DrawerState, Same

LEMMA DConflict ==
    ASSUME NEW d \in DrawerState
    PROVE  LET e == [d EXCEPT !.validity = "conflict", !.test = None] IN
           /\ Same(d, e) /\ e.validity = "conflict"
           /\ e.saving = d.saving /\ e.deleting = d.deleting /\ e.keyEdits = d.keyEdits
           /\ e.test = None
  BY DEF DrawerState, Same

LEMMA DChannel ==
    ASSUME NEW d \in DrawerState
    PROVE  LET e == ChannelDrawer(d) IN
           /\ Same(d, e) /\ e.validity = d.validity
           /\ e.saving = (d.saving /\ save = None) /\ e.deleting = d.deleting /\ e.keyEdits = d.keyEdits
           /\ d.test = None => e.test = None
           /\ d.test # None =>
                /\ e.test \in Test /\ e.test.of = d.test.of /\ e.test.id = d.test.id
                /\ e.test.sent = d.test.sent
                /\ d.test.sent => e.test = d.test
  <1>1. PICK x \in BOOLEAN : x = (save = None) OBVIOUS
  <1>2. CASE Testing(d) /\ ~d.test.sent
    <2>1. d.test # None /\ d.test \in Test
      BY <1>2 DEF Testing, DrawerState
    <2>2. PICK t : t = [d.test EXCEPT !.phase = "failed"] OBVIOUS
    <2>3. t \in Test /\ t.of = d.test.of /\ t.id = d.test.id /\ t.sent = d.test.sent
      BY <2>1, <2>2 DEF Test
    <2>4. ChannelDrawer(d) = [d EXCEPT !.saving = @ /\ x, !.test = t]
      BY <1>1, <1>2, <2>2, Zenon DEF ChannelDrawer
    <2>5. PICK e : e = [d EXCEPT !.saving = @ /\ x, !.test = t] OBVIOUS
    <2>6. /\ Same(d, e) /\ e.validity = d.validity /\ e.saving = (d.saving /\ x)
          /\ e.deleting = d.deleting /\ e.keyEdits = d.keyEdits /\ e.test = t
      BY <2>3, <2>5 DEF DrawerState, Same
    <2> QED BY <1>1, <1>2, <2>1, <2>3, <2>4, <2>5, <2>6
  <1>3. CASE ~(Testing(d) /\ ~d.test.sent)
    <2>1. ChannelDrawer(d) = [d EXCEPT !.saving = @ /\ x, !.test = d.test]
      BY <1>1, <1>3, Zenon DEF ChannelDrawer
    <2>2. PICK e : e = [d EXCEPT !.saving = @ /\ x, !.test = d.test] OBVIOUS
    <2>3. /\ Same(d, e) /\ e.validity = d.validity /\ e.saving = (d.saving /\ x)
          /\ e.deleting = d.deleting /\ e.keyEdits = d.keyEdits /\ e.test = d.test
      BY <2>2 DEF DrawerState, Same
    <2>4. d.test \in Test \cup {None}
      BY DEF DrawerState
    <2> QED BY <1>1, <2>1, <2>2, <2>3, <2>4
  <1> QED BY <1>2, <1>3

LEMMA DAfter ==
    ASSUME drawer \in DrawerState, NEW l \in [Profile -> Revision]
    PROVE  LET e == DrawerAfter(l) IN
           /\ e \in DrawerState
           /\ \/ GoesOn(l, e)
              \/ FallsInConflict(l, e)
              \/ IsClosed(e) /\ drawer.mode = "editing" /\ l[drawer.profile] = 0
           /\ e.deleting \in {"no", drawer.deleting}
           /\ e.deleting = "deleting" =>
                 /\ drawer.deleting = "deleting"
                 /\ ~(dialog # None /\ DialogAfter(l) = None /\ e.profile = dialog.profile)
  <1> DEFINE d == IF drawer.mode # "editing" \/ (l[drawer.profile] # 0
                  /\ (l[drawer.profile] = drawer.source \/ save # None)) THEN drawer
             ELSE IF l[drawer.profile] = 0 THEN Closed
             ELSE [drawer EXCEPT !.validity = "conflict", !.test = None]
  <1>1. /\ d \in DrawerState
        /\ \/ GoesOn(l, d)
           \/ FallsInConflict(l, d)
           \/ IsClosed(d) /\ drawer.mode = "editing" /\ l[drawer.profile] = 0
        /\ d.deleting \in {"no", drawer.deleting}
    <2>1. CASE drawer.mode # "editing" \/ (l[drawer.profile] # 0
                  /\ (l[drawer.profile] = drawer.source \/ save # None))
      BY <2>1, Zenon DEF GoesOn, Same
    <2>2. CASE drawer.mode = "editing" /\ l[drawer.profile] = 0
      <3>1. d = Closed
        BY <2>2, Zenon
      <3> QED BY <2>2, <3>1, DClosed, Zenon DEF IsClosed
    <2>3. CASE drawer.mode = "editing" /\ l[drawer.profile] # 0 /\ save = None /\ l[drawer.profile] # drawer.source
      <3>1. d = [drawer EXCEPT !.validity = "conflict", !.test = None]
        BY <2>3, Zenon
      <3> QED BY <2>3, <3>1, DConflict, Zenon DEF FallsInConflict, Same
    <2> QED BY <2>1, <2>2, <2>3, Zenon
  <1>2. DrawerAfter(l) = IF dialog # None /\ DialogAfter(l) = None /\ d.profile = dialog.profile
                         THEN [d EXCEPT !.deleting = "no"] ELSE d
    BY Zenon DEF DrawerAfter
  <1>3. PICK c : c = d OBVIOUS
  <1> HIDE DEF d
  <1>4. CASE dialog # None /\ DialogAfter(l) = None /\ c.profile = dialog.profile
    <2>1. PICK e : e = [c EXCEPT !.deleting = "no"] OBVIOUS
    <2>2. /\ Same(c, e) /\ e.validity = c.validity
           /\ e.saving = c.saving /\ e.deleting = "no" /\ e.keyEdits = c.keyEdits
           /\ e.test = c.test
      <3>1. c \in DrawerState
        BY <1>1, <1>3
      <3> QED BY <2>1, <3>1 DEF DrawerState, Same
    <2>3. DrawerAfter(l) = e
      BY <1>2, <1>3, <1>4, <2>1, Zenon
    <2>4. \/ GoesOn(l, e)
          \/ FallsInConflict(l, e)
          \/ IsClosed(e) /\ drawer.mode = "editing" /\ l[drawer.profile] = 0
      BY <1>1, <1>3, <2>2, Zenon DEF GoesOn, FallsInConflict, IsClosed, Same
    <2> QED BY <2>2, <2>3, <2>4 DEF Same
  <1>5. CASE ~(dialog # None /\ DialogAfter(l) = None /\ c.profile = dialog.profile)
    <2>1. DrawerAfter(l) = c
      BY <1>2, <1>3, <1>5, Zenon
    <2> QED BY <1>1, <1>3, <1>5, <2>1, Zenon
  <1> QED BY <1>4, <1>5, Zenon
-----------------------------------------------------------------------------
(* The requests of the host. *)

\* The requests of the window, by what they are about.
DraftKinds == {"test", "draft-models"}
ModelKinds == {"models", "draft-models"}
TestKinds == {"test"}

Drafts ==
    [kind : DraftKinds, id : Request, of : Profile \cup {None}, drawer : Drawer, draft : Nat,
     cancelled : BOOLEAN]
Lists == [kind : {"models"}, id : Request, of : Profile \cup {None}, cancelled : BOOLEAN]
Saves == [kind : {"save"}, id : Request, of : Ref \cup {None}, cancelled : BOOLEAN]
Deletes == [kind : {"delete"}, id : Request, of : Ref, cancelled : BOOLEAN]
Switches == [kind : {"switch"}, id : Request, of : Ref, on : BOOLEAN, cancelled : BOOLEAN]
Requests == Drafts \cup Lists \cup Saves \cup Deletes \cup Switches

\* No two requests of these kinds have one id.
Single(kinds, h) == \A q, r \in h : q.kind \in kinds /\ r.kind \in kinds /\ q.id = r.id => q = r

\* A request is as before, or has been cancelled meanwhile.
Like(q, r) ==
    /\ q.kind = r.kind /\ q.id = r.id /\ (q.kind = "test" => q.drawer = r.drawer)
    /\ ~q.cancelled => ~r.cancelled
Fewer(kinds, h, g) ==
    /\ \A q \in g : q.kind \in kinds => \E r \in h : Like(q, r)
    /\ Single(kinds, h) => Single(kinds, g)

\* A request for models the window works on is the one the sidebar waits for, and
\* none that is answered is worked on.
ModelsSound(h, k, n, answered) ==
    /\ Single(ModelKinds, h)
    /\ \A r \in h : r.kind \in ModelKinds =>
         /\ r.id < n
         /\ ~r.cancelled => k # None /\ k.id = r.id /\ k.sent
         /\ k # None /\ ~k.sent => r.id # k.id
         /\ r.id \notin answered
    /\ \A i \in answered : i < n /\ (k # None /\ ~k.sent => i # k.id)
    /\ k # None => k.id < n

\* A test the window works on is of a drawer that was opened; if it is of the one
\* that is shown, it is the test that is shown there.
TestsSound(h, d, n, m, answered) ==
    /\ Single(TestKinds, h)
    /\ \A r \in h : r.kind \in TestKinds =>
         /\ r.id < n /\ r.drawer \in 1 .. m - 1
         /\ ~r.cancelled /\ r.drawer = d.id /\ d.validity # "conflict" =>
              Testing(d) /\ d.test.id = r.id /\ d.test.sent
         /\ d.test # None /\ ~d.test.sent => r.id # d.test.id
         /\ r.id \notin answered
    /\ \A i \in answered : i < n /\ (d.test # None /\ ~d.test.sent => i # d.test.id)
    /\ d.test # None => d.test.id < n

LEMMA RequestFields ==
    ASSUME NEW r \in Requests
    PROVE  /\ r.id \in Request /\ r.cancelled \in BOOLEAN
           /\ r.kind \in {"test", "draft-models", "models", "save", "delete", "switch"}
           /\ r.kind \in DraftKinds => r \in Drafts
           /\ r.kind = "models" => r \in Lists
           /\ r.kind = "save" => r \in Saves
           /\ r.kind = "delete" => r \in Deletes
           /\ r.kind = "switch" => r \in Switches
  BY DEF Requests, Drafts, Lists, Saves, Deletes, Switches, DraftKinds

LEMMA CancelRequest ==
    ASSUME NEW r \in Requests
    PROVE  LET q == [r EXCEPT !.cancelled = TRUE] IN
           /\ q \in Requests /\ q.kind = r.kind /\ q.id = r.id /\ q.cancelled = TRUE
           /\ r.kind = "test" => q.drawer = r.drawer
  <1>1. CASE r \in Drafts
    BY <1>1 DEF Drafts, Requests
  <1>2. CASE r \in Lists
    BY <1>2 DEF Lists, Requests
  <1>3. CASE r \in Saves
    BY <1>3 DEF Saves, Requests
  <1>4. CASE r \in Deletes
    BY <1>4 DEF Deletes, Requests
  <1>5. CASE r \in Switches
    BY <1>5 DEF Switches, Requests
  <1> QED BY <1>1, <1>2, <1>3, <1>4, <1>5 DEF Requests

\* Some requests are cancelled and the others stay.
Cancels(h, g, P) ==
    /\ \A q \in g : \E r \in h : q = IF r \in P THEN [r EXCEPT !.cancelled = TRUE] ELSE r
LEMMA CancelsSome ==
    ASSUME NEW h \in SUBSET Requests, NEW g, NEW P, Cancels(h, g, P), NEW kinds
    PROVE  /\ g \in SUBSET Requests /\ Fewer(kinds, h, g)
           /\ \A q \in g : ~q.cancelled => q \in h /\ q \notin P
  <1>1. ASSUME NEW q \in g
        PROVE  /\ \E r \in h : /\ q = IF r \in P THEN [r EXCEPT !.cancelled = TRUE] ELSE r
                               /\ Like(q, r)
               /\ q \in Requests
               /\ ~q.cancelled => q \in h /\ q \notin P
    <2>1. PICK r \in h : q = IF r \in P THEN [r EXCEPT !.cancelled = TRUE] ELSE r
      BY DEF Cancels
    <2>2. r \in Requests
      OBVIOUS
    <2>3. PICK c : c = [r EXCEPT !.cancelled = TRUE]
      OBVIOUS
    <2>4. /\ c \in Requests /\ c.kind = r.kind /\ c.id = r.id /\ c.cancelled = TRUE
          /\ r.kind = "test" => c.drawer = r.drawer
      BY <2>2, <2>3, CancelRequest, Zenon
    <2>5. q = IF r \in P THEN c ELSE r
      BY <2>1, <2>3, Zenon
    <2> QED BY <2>1, <2>2, <2>4, <2>5 DEF Like
  <1>2. ASSUME Single(kinds, h), NEW q \in g, NEW t \in g,
               q.kind \in kinds, t.kind \in kinds, q.id = t.id
        PROVE  q = t
    <2>1. PICK r \in h : q = (IF r \in P THEN [r EXCEPT !.cancelled = TRUE] ELSE r) /\ Like(q, r)
      BY <1>1, Zenon
    <2>2. PICK u \in h : t = (IF u \in P THEN [u EXCEPT !.cancelled = TRUE] ELSE u) /\ Like(t, u)
      BY <1>1, Zenon
    <2>3. r = u
      BY <1>2, <2>1, <2>2, Zenon DEF Single, Like
    <2> QED BY <2>1, <2>2, <2>3, Zenon
  <1>3. \A q \in g : q.kind \in kinds => \E r \in h : Like(q, r)
    BY <1>1, Zenon
  <1>4. Single(kinds, h) => Single(kinds, g)
    BY <1>2, Zenon DEF Single
  <1>5. g \subseteq Requests
    BY <1>1, Zenon
  <1>6. ASSUME NEW q \in g, ~q.cancelled PROVE q \in h /\ q \notin P
    BY <1>1, <1>6, Zenon
  <1> QED BY <1>3, <1>4, <1>5, <1>6, Zenon DEF Fewer

LEMMA CancelledFacts ==
    ASSUME NEW h \in SUBSET Requests, NEW ids, NEW closing
    PROVE  LET g == Cancelled(h, ids, closing) IN
           /\ g \in SUBSET Requests /\ Fewer(ModelKinds, h, g) /\ Fewer(TestKinds, h, g)
           /\ \A q \in g : ~q.cancelled =>
                /\ q \in h /\ q.id \notin ids
                /\ closing /\ channel # 0 => q.kind \notin DraftKinds
  <1> DEFINE P == {r \in h : r.id \in ids \/ (closing /\ channel # 0 /\ r.kind \in {"test", "draft-models"})}
  <1>1. PICK g : g = Cancelled(h, ids, closing)
    OBVIOUS
  <1>2. Cancels(h, g, P)
    BY <1>1, Zenon DEF Cancelled, Cancels
  <1>3. /\ g \in SUBSET Requests /\ Fewer(ModelKinds, h, g) /\ Fewer(TestKinds, h, g)
        /\ \A q \in g : ~q.cancelled => q \in h /\ q \notin P
    <2> HIDE DEF P
    <2> QED BY <1>2, CancelsSome
  <1>4. \A q \in g : ~q.cancelled => 
          q \in h /\ ~(q.id \in ids \/ (closing /\ channel # 0 /\ q.kind \in {"test", "draft-models"}))
    BY <1>3, Zenon
  <1> QED BY <1>1, <1>3, <1>4, Zenon DEF DraftKinds

LEMMA WithdrawnFacts ==
    ASSUME NEW h \in SUBSET Requests, NEW p
    PROVE  LET g == Withdrawn(h, p) IN
           g \in SUBSET Requests /\ Fewer(ModelKinds, h, g) /\ Fewer(TestKinds, h, g)
  <1> DEFINE P == {r \in h : r.kind \in {"test", "models", "draft-models"} /\ r.of = p}
  <1>1. PICK g : g = Withdrawn(h, p)
    OBVIOUS
  <1>2. Cancels(h, g, P)
    BY <1>1, Zenon DEF Withdrawn, Cancels
  <1>3. /\ g \in SUBSET Requests /\ Fewer(ModelKinds, h, g) /\ Fewer(TestKinds, h, g)
    <2> HIDE DEF P
    <2>1. \A kinds : g \in SUBSET Requests /\ Fewer(kinds, h, g)
      BY <1>2, CancelsSome, Zenon
    <2> QED BY <2>1, Zenon
  <1> QED BY <1>1, <1>3, Zenon

LEMMA SomeCancelled ==
    ASSUME NEW h \in SUBSET Requests, NEW kinds, NEW these
    PROVE  LET g == {IF q.kind \in these THEN [q EXCEPT !.cancelled = TRUE] ELSE q : q \in h} IN
           /\ g \in SUBSET Requests /\ Fewer(kinds, h, g)
           /\ \A q \in g : ~q.cancelled => q \in h /\ q.kind \notin these
  <1> DEFINE P == {r \in h : r.kind \in these}
  <1>1. PICK g : g = {IF q.kind \in these THEN [q EXCEPT !.cancelled = TRUE] ELSE q : q \in h}
    OBVIOUS
  <1>2. Cancels(h, g, P)
    BY <1>1, Zenon DEF Cancels
  <1>3. /\ g \in SUBSET Requests /\ Fewer(kinds, h, g)
        /\ \A q \in g : ~q.cancelled => q \in h /\ q \notin P
    <2> HIDE DEF P
    <2> QED BY <1>2, CancelsSome
  <1>4. \A q \in g : ~q.cancelled => q \in h /\ q.kind \notin these
    BY <1>3, Zenon
  <1> QED BY <1>1, <1>3, <1>4, Zenon

LEMMA FewerOfFewer ==
    ASSUME NEW h, NEW g, NEW f, NEW kinds, Fewer(kinds, h, g), Fewer(kinds, g, f)
    PROVE  Fewer(kinds, h, f)
  <1>1. ASSUME NEW q \in f, q.kind \in kinds PROVE \E r \in h : Like(q, r)
    <2>1. PICK s \in g : Like(q, s)
      BY <1>1, Zenon DEF Fewer
    <2>2. PICK r \in h : Like(s, r)
      BY <1>1, <2>1, Zenon DEF Fewer, Like
    <2> QED BY <2>1, <2>2, Zenon DEF Like
  <1> QED BY <1>1, Zenon DEF Fewer

LEMMA SubsetFewer ==
    ASSUME NEW h, NEW g \in SUBSET h, NEW kinds
    PROVE  Fewer(kinds, h, g)
  BY Zenon DEF Fewer, Like, Single

\* Requests of other kinds do not matter.
LEMMA OthersJoin ==
    ASSUME NEW h, NEW g, NEW r, NEW kinds, Fewer(kinds, h, g), r.kind \notin kinds
    PROVE  Fewer(kinds, h, g \cup {r})
  BY Zenon DEF Fewer, Single
-----------------------------------------------------------------------------
(* What is known of the requests survives what the steps do with them. *)

LEMMA ModelsFewer ==
    ASSUME NEW h, NEW g, NEW k, NEW n, NEW a, ModelsSound(h, k, n, a), Fewer(ModelKinds, h, g)
    PROVE  ModelsSound(g, k, n, a)
  <1>1. ASSUME NEW q \in g, q.kind \in ModelKinds
        PROVE  /\ q.id < n
               /\ ~q.cancelled => k # None /\ k.id = q.id /\ k.sent
               /\ k # None /\ ~k.sent => q.id # k.id
               /\ q.id \notin a
    <2>1. PICK r \in h : Like(q, r)
      BY <1>1, Zenon DEF Fewer
    <2>2. r.kind \in ModelKinds /\ r.id = q.id /\ (~q.cancelled => ~r.cancelled)
      BY <1>1, <2>1, Zenon DEF Like
    <2> QED BY <2>2, Zenon DEF ModelsSound
  <1> QED BY <1>1, Zenon DEF ModelsSound, Fewer

LEMMA ModelsForgotten ==
    ASSUME NEW h, NEW g, NEW k, NEW n, NEW a, ModelsSound(h, k, n, a), Fewer(ModelKinds, h, g),
           \A q \in g : q.kind \in ModelKinds => q.cancelled
    PROVE  ModelsSound(g, None, n, a)
  <1>1. ModelsSound(g, k, n, a)
    BY ModelsFewer
  <1> QED BY <1>1, Zenon DEF ModelsSound

LEMMA ModelsAlike ==
    ASSUME NEW h, NEW k \in Refresh, NEW l, NEW n \in Nat, NEW m \in Nat, NEW a \in SUBSET Nat,
           ModelsSound(h, k, n, a), h \in SUBSET Requests,
           n <= m, k # None, l # None, l.id = k.id, l.sent = k.sent
    PROVE  ModelsSound(h, l, m, a)
  <1>1. \A i \in Nat : i < n => i < m
    OBVIOUS
  <1>2. k.id < m
    BY DEF ModelsSound, Refresh, Request
  <1>3. \A r \in h : r.id \in Nat
    BY RequestFields DEF Request
  <1> QED BY <1>1, <1>2, <1>3, Zenon DEF ModelsSound

LEMMA ModelsLater ==
    ASSUME NEW h \in SUBSET Requests, NEW k \in Refresh \cup {None}, NEW n \in Nat, NEW m \in Nat,
           NEW a \in SUBSET Nat, NEW b \in SUBSET a, ModelsSound(h, k, n, a), n <= m
    PROVE  ModelsSound(h, k, m, b)
  <1>1. \A i \in Nat : i < n => i < m
    OBVIOUS
  <1>2. k # None => k.id \in Nat
    BY DEF Refresh, Request
  <1>3. \A r \in h : r.id \in Nat
    BY RequestFields DEF Request
  <1> QED BY <1>1, <1>2, <1>3, Zenon DEF ModelsSound

LEMMA UnsealedFacts ==
    ASSUME refresh \in Refresh \cup {None}
    PROVE  /\ Unsealed \in Refresh \cup {None}
           /\ \A h, n, a : ModelsSound(h, refresh, n, a) => ModelsSound(h, Unsealed, n, a)
  <1>1. CASE Unsealed = refresh
    BY <1>1, Zenon
  <1>2. CASE Unsealed # refresh
    <2>1. refresh # None /\ ~refresh.sent /\ Unsealed = None
      BY <1>2, Zenon DEF Unsealed
    <2> QED BY <2>1, Zenon DEF ModelsSound
  <1> QED BY <1>1, <1>2, Zenon

\* requestModels
LEMMA Asked ==
    ASSUME NEW manual \in BOOLEAN, NEW d, d.profile \in Profile \cup {None},
           NEW kept \in Refresh \cup {None}, NEW h \in SUBSET Requests, NEW a \in SUBSET Nat,
           nextId \in 1 .. MaxRequests + 1, RequestModels(manual, d, kept, h)
    PROVE  /\ refresh' \in Refresh \cup {None} /\ host' \in SUBSET Requests
           /\ nextId' \in 1 .. MaxRequests + 1 /\ nextId <= nextId'
           /\ Fewer(TestKinds, h, host')
           /\ ModelsSound(h, kept, nextId, a) => ModelsSound(host', refresh', nextId', a)
  <1>1. CASE refresh' = kept /\ host' = h /\ nextId' = nextId
    <2>1. nextId <= nextId
      BY EditorAssumption
    <2>2. Fewer(TestKinds, h, h)
      BY SubsetFewer
    <2> QED BY <1>1, <2>1, <2>2, Zenon
  <1>2. CASE ~(refresh' = kept /\ host' = h /\ nextId' = nextId)
    <2> DEFINE c == Cancelled(h, IF kept = None THEN {} ELSE {kept.id}, FALSE)
               r == [kind |-> "models", id |-> nextId, of |-> d.profile, cancelled |-> FALSE]
    <2>1. /\ nextId <= MaxRequests
          /\ refresh' = [id |-> nextId, manual |-> manual, sent |-> ~manual, fresh |-> TRUE]
          /\ host' = c \cup IF manual THEN {} ELSE {r}
          /\ nextId' = nextId + 1
      BY <1>2, Zenon DEF RequestModels
    <2>2. nextId \in Request /\ nextId' \in 1 .. MaxRequests + 1 /\ nextId <= nextId' /\ nextId < nextId'
      BY <2>1, EditorAssumption DEF Request
    <2>3. refresh' \in Refresh /\ refresh'.id = nextId /\ (refresh'.sent <=> ~manual)
      BY <2>1, <2>2 DEF Refresh
    <2>4. /\ c \in SUBSET Requests /\ Fewer(ModelKinds, h, c) /\ Fewer(TestKinds, h, c)
          /\ \A q \in c : ~q.cancelled => q \in h /\ (kept # None => q.id # kept.id)
      <3>1. PICK ids : ids = IF kept = None THEN {} ELSE {kept.id}
        OBVIOUS
      <3>2. /\ Cancelled(h, ids, FALSE) \in SUBSET Requests
            /\ Fewer(ModelKinds, h, Cancelled(h, ids, FALSE)) /\ Fewer(TestKinds, h, Cancelled(h, ids, FALSE))
            /\ \A q \in Cancelled(h, ids, FALSE) : ~q.cancelled => q \in h /\ q.id \notin ids
        BY CancelledFacts, Zenon
      <3>3. kept # None => \A i : i \notin ids => i # kept.id
        BY <3>1, Zenon
      <3>4. c = Cancelled(h, ids, FALSE)
        BY <3>1, Zenon
      <3> QED BY <3>2, <3>3, <3>4, Zenon
    <2>5. r \in Requests /\ r.kind = "models" /\ r.id = nextId /\ r.cancelled = FALSE
      BY <2>2 DEF Requests, Lists
    <2>6. \A q \in host' : q \in c \/ (~manual /\ q = r)
      BY <2>1, Zenon
    <2>7. host' \in SUBSET Requests
      BY <2>4, <2>5, <2>6, Zenon
    <2>8. Fewer(TestKinds, h, host')
      <3> HIDE DEF c, r
      <3>1. r.kind \notin TestKinds
        BY <2>5 DEF TestKinds
      <3> QED BY <2>1, <2>4, <3>1, OthersJoin, Zenon
    <2>9. ASSUME ModelsSound(h, kept, nextId, a)
          PROVE  ModelsSound(host', refresh', nextId', a)
      <3> HIDE DEF c, r
      <3>1. ModelsSound(c, kept, nextId, a)
        BY <2>4, <2>9, ModelsFewer
      <3>2. \A i \in Nat : i < nextId => i < nextId' /\ i # nextId
        BY <2>1, EditorAssumption
      <3>3. \A q \in c : q.id \in Nat
        BY <2>4, RequestFields DEF Request
      <3>4. ASSUME NEW q \in c, q.kind \in ModelKinds
            PROVE  q.id < nextId' /\ q.id # nextId /\ q.cancelled /\ q.id \notin a
        <4>1. q.id < nextId /\ q.id \notin a /\ (~q.cancelled => kept # None /\ kept.id = q.id)
          BY <3>1, <3>4, Zenon DEF ModelsSound
        <4> QED BY <2>4, <3>2, <3>3, <4>1, Zenon
      <3>5. \A i \in a : i < nextId' /\ i # nextId
        BY <3>1, <3>2, Zenon DEF ModelsSound
      <3>6. ASSUME NEW q \in host', q.kind \in ModelKinds
            PROVE  /\ q.id < nextId' /\ q.id \notin a
                   /\ ~q.cancelled => refresh' # None /\ refresh'.id = q.id /\ refresh'.sent
                   /\ refresh' # None /\ ~refresh'.sent => q.id # refresh'.id
        <4>1. CASE q \in c
          BY <2>3, <3>4, <3>6, <4>1, Zenon
        <4>2. CASE ~manual /\ q = r
          <5>1. refresh' # None
            BY <2>3, EditorAssumption
          <5> QED BY <2>2, <2>3, <2>5, <3>5, <4>2, <5>1, Zenon
        <4> QED BY <2>6, <4>1, <4>2, Zenon
      <3>7. Single(ModelKinds, host')
        <4>1. Single(ModelKinds, c)
          BY <3>1, Zenon DEF ModelsSound
        <4> QED BY <2>5, <2>6, <3>4, <4>1, Zenon DEF Single
      <3> QED BY <2>2, <2>3, <3>5, <3>6, <3>7, Zenon DEF ModelsSound
    <2> QED BY <2>2, <2>3, <2>7, <2>8, <2>9, Zenon
  <1> QED BY <1>1, <1>2

\* flushAutomaticModelRefresh
LEMMA Flushed ==
    ASSUME NEW d, d.profile \in Profile \cup {None},
           NEW kept \in Refresh \cup {None}, NEW h \in SUBSET Requests, NEW a \in SUBSET Nat,
           nextId \in 1 .. MaxRequests + 1, auto \in BOOLEAN, FlushModels(d, kept, h)
    PROVE  /\ refresh' \in Refresh \cup {None} /\ host' \in SUBSET Requests /\ auto' \in BOOLEAN
           /\ nextId' \in 1 .. MaxRequests + 1 /\ nextId <= nextId'
           /\ Fewer(TestKinds, h, host')
           /\ ModelsSound(h, kept, nextId, a) => ModelsSound(host', refresh', nextId', a)
  <1>1. CASE auto' = FALSE /\ RequestModels(FALSE, d, kept, h)
    BY <1>1, Asked
  <1>2. CASE auto' = auto /\ refresh' = kept /\ host' = h /\ nextId' = nextId
    <2>1. nextId <= nextId
      BY EditorAssumption
    <2>2. Fewer(TestKinds, h, h)
      BY SubsetFewer
    <2> QED BY <1>2, <2>1, <2>2, Zenon
  <1> QED BY <1>1, <1>2, Zenon DEF FlushModels

LEMMA TestsFewer ==
    ASSUME NEW h, NEW g, NEW d, NEW n, NEW m, NEW a, TestsSound(h, d, n, m, a), Fewer(TestKinds, h, g)
    PROVE  TestsSound(g, d, n, m, a)
  <1>1. ASSUME NEW q \in g, q.kind \in TestKinds
        PROVE  /\ q.id < n /\ q.drawer \in 1 .. m - 1
               /\ ~q.cancelled /\ q.drawer = d.id /\ d.validity # "conflict" =>
                    Testing(d) /\ d.test.id = q.id /\ d.test.sent
               /\ d.test # None /\ ~d.test.sent => q.id # d.test.id
               /\ q.id \notin a
    <2>1. PICK r \in h : Like(q, r)
      BY <1>1, Zenon DEF Fewer
    <2>2. /\ r.kind \in TestKinds /\ r.id = q.id /\ (~q.cancelled => ~r.cancelled) /\ q.drawer = r.drawer
      BY <1>1, <2>1, Zenon DEF Like, TestKinds
    <2> QED BY <2>2, Zenon DEF TestsSound
  <1> QED BY <1>1, Zenon DEF TestsSound, Fewer

LEMMA TestsLater ==
    ASSUME NEW h \in SUBSET Requests, NEW d \in DrawerState, NEW n \in Nat, NEW o \in Nat,
           NEW m \in Nat, NEW p \in Nat, NEW a \in SUBSET Nat, NEW b \in SUBSET a,
           TestsSound(h, d, n, m, a), n <= o, m <= p
    PROVE  TestsSound(h, d, o, p, b)
  <1>1. \A i \in Nat : i < n => i < o
    OBVIOUS
  <1>2. d.test # None => d.test.id \in Nat
    BY DEF DrawerState, Test, Request
  <1>3. \A r \in h : r.id \in Nat
    BY RequestFields DEF Request
  <1>4. \A i : i \in 1 .. m - 1 => i \in 1 .. p - 1
    OBVIOUS
  <1> QED BY <1>1, <1>2, <1>3, <1>4, Zenon DEF TestsSound

LEMMA TestsAlike ==
    ASSUME NEW h, NEW d, NEW e, NEW n, NEW m, NEW a, TestsSound(h, d, n, m, a),
           e.id = d.id, e.validity = d.validity, d.test = None => e.test = None,
           d.test # None => /\ e.test # None /\ e.test.id = d.test.id /\ e.test.sent = d.test.sent
                            /\ d.test.sent => e.test = d.test
    PROVE  TestsSound(h, e, n, m, a)
  <1>1. CASE d.test = None
    BY <1>1, Zenon DEF TestsSound, Testing
  <1>2. CASE d.test # None
    BY <1>2, Zenon DEF TestsSound, Testing
  <1> QED BY <1>1, <1>2

LEMMA TestsForgotten ==
    ASSUME NEW h, NEW g, NEW d, NEW e, NEW n, NEW m, NEW a, TestsSound(h, d, n, m, a),
           Fewer(TestKinds, h, g), e.test = None,
           \A q \in g : q.kind \in TestKinds /\ ~q.cancelled /\ q.drawer = e.id => e.validity = "conflict"
    PROVE  TestsSound(g, e, n, m, a)
  <1>1. TestsSound(g, d, n, m, a)
    BY TestsFewer
  <1> QED BY <1>1, Zenon DEF TestsSound

\* A drawer that is closed has no tests.
LEMMA TestsClosed ==
    ASSUME NEW h, NEW g, NEW d, NEW e, NEW n, NEW m \in Nat, NEW a, TestsSound(h, d, n, m, a),
           Fewer(TestKinds, h, g), IsClosed(e)
    PROVE  TestsSound(g, e, n, m, a)
  <1>1. TestsSound(g, d, n, m, a)
    BY TestsFewer
  <1>2. e.test = None /\ e.id = 0
    BY DEF IsClosed
  <1>3. \A q \in g : q.kind \in TestKinds => q.drawer # e.id
    <2>1. 0 \notin 1 .. m - 1
      OBVIOUS
    <2> QED BY <1>1, <1>2, <2>1, Zenon DEF TestsSound
  <1> QED BY <1>2, <1>3, TestsForgotten, Zenon

\* Its tests are cancelled.
LEMMA TestsCancelled ==
    ASSUME NEW h \in SUBSET Requests, NEW g, NEW e, NEW n, NEW m, NEW a, TestsSound(h, drawer, n, m, a),
           Fewer(TestKinds, h, g), e.test = None, e.id = drawer.id, e.validity = drawer.validity,
           \A q \in g : ~q.cancelled => q \in h /\ q.id \notin TestIds
    PROVE  TestsSound(g, e, n, m, a)
  <1>1. ASSUME NEW q \in g, q.kind \in TestKinds, ~q.cancelled, q.drawer = e.id
        PROVE  e.validity = "conflict"
    <2>1. SUFFICES ASSUME e.validity # "conflict" PROVE FALSE
      OBVIOUS
    <2>2. q \in h /\ q.id \notin TestIds
      BY <1>1, Zenon
    <2>3. Testing(drawer) /\ drawer.test.id = q.id
      BY <1>1, <2>1, <2>2, Zenon DEF TestsSound
    <2> QED BY <2>2, <2>3, Zenon DEF TestIds, Testing
  <1> QED BY <1>1, TestsForgotten, Zenon

\* credentialEditor.close()
LEMMA ChannelCloses ==
    ASSUME NEW d \in DrawerState, NEW h \in SUBSET Requests, NEW a \in SUBSET Nat,
           refresh \in Refresh \cup {None}, auto \in BOOLEAN, nextId \in 1 .. MaxRequests + 1,
           owner \in BOOLEAN, locked \in BOOLEAN,
           load # 0 => reader # None /\ reader.drawer = load, CloseChannel(d, h)
    PROVE  /\ channel' = 0 /\ reader' = None /\ load' = 0 /\ owner' \in BOOLEAN
           /\ save' = None /\ locked' \in BOOLEAN
           /\ drawer' = ChannelDrawer(d)
           /\ refresh' \in Refresh \cup {None} /\ host' \in SUBSET Requests /\ auto' \in BOOLEAN
           /\ nextId' \in 1 .. MaxRequests + 1 /\ nextId <= nextId'
           /\ Fewer(TestKinds, h, host')
           /\ ModelsSound(h, refresh, nextId, a) => ModelsSound(host', refresh', nextId', a)
  <1>1. channel' = 0 /\ reader' = None /\ save' = None /\ locked' = (IF save = None THEN locked ELSE FALSE)
    BY Zenon DEF CloseChannel, GiveUpSave
  <1>2. drawer' = ChannelDrawer(d)
    BY Zenon DEF CloseChannel, ChannelDrawer
  <1>3. PICK g : g = Cancelled(h, {}, TRUE)
    OBVIOUS
  <1>4. /\ g \in SUBSET Requests /\ Fewer(ModelKinds, h, g) /\ Fewer(TestKinds, h, g)
    BY <1>3, CancelledFacts, Zenon
  <1>5. Unsealed \in Refresh \cup {None}
    BY UnsealedFacts
  <1>6. ModelsSound(h, refresh, nextId, a) => ModelsSound(g, Unsealed, nextId, a)
    BY <1>4, UnsealedFacts, ModelsFewer, Zenon
  <1>7. d.profile \in Profile \cup {None}
    BY DEF DrawerState
  <1>8. CASE reader # None /\ load = reader.drawer
    <2>1. load' = 0 /\ owner' = FALSE /\ FlushModels(d, Unsealed, g)
      BY <1>3, <1>8, Zenon DEF CloseChannel
    <2>2. /\ refresh' \in Refresh \cup {None} /\ host' \in SUBSET Requests /\ auto' \in BOOLEAN
          /\ nextId' \in 1 .. MaxRequests + 1 /\ nextId <= nextId'
          /\ Fewer(TestKinds, g, host')
          /\ ModelsSound(g, Unsealed, nextId, a) => ModelsSound(host', refresh', nextId', a)
      BY <1>4, <1>5, <1>7, <2>1, Flushed, Zenon
    <2>3. Fewer(TestKinds, h, host')
      BY <1>4, <2>2, FewerOfFewer, Zenon
    <2> QED BY <1>1, <1>2, <1>6, <2>1, <2>2, <2>3, Zenon
  <1>9. CASE ~(reader # None /\ load = reader.drawer)
    <2>1. /\ load' = load /\ owner' = owner /\ auto' = auto /\ nextId' = nextId
          /\ refresh' = Unsealed /\ host' = g
      BY <1>3, <1>9, Zenon DEF CloseChannel
    <2>2. nextId <= nextId
      BY EditorAssumption
    <2>3. load = 0
      BY <1>9, Zenon
    <2> QED BY <1>1, <1>2, <1>4, <1>5, <1>6, <2>1, <2>2, <2>3, Zenon
  <1> QED BY <1>8, <1>9
-----------------------------------------------------------------------------
(* The invariant. *)

\* What the window tells the sidebar.
Pictures == [version : 0 .. MaxVersion, list : [Profile -> Revision], active : Profile \cup {None}]
Messages ==
    [name : {"state"}, picture : Pictures]
    \cup [name : {"switched"}, id : Request, picture : Pictures]
    \cup [name : {"tested"}, id : Request, drawer : Drawer, draft : Nat, ok : BOOLEAN, invalid : BOOLEAN]
    \cup [name : {"models", "refused"}, id : Request]
    \cup [name : {"revoked"}, id : Drawer]
    \cup [name : {"deleted"}, id : Request, profile : Profile]
    \cup [name : {"saved"}, id : Request, ok : {FALSE}]
    \cup [name : {"saved"}, id : Request, ok : BOOLEAN, profile : Profile, revision : Revision]
\* The ids of the answers of one kind that are on their way.
Answered(name, s) == {s[i].id : i \in {j \in 1 .. Len(s) : s[j].name = name}}

QueueOk == queued \in Seq(Messages) /\ Len(queued) <= MaxQueue

\* The profiles as they are stored, and as the sidebar knows them.
ProfilesOk ==
    /\ stored \in [Profile -> Revision] /\ active \in Profile \cup {None} /\ version \in 0 .. MaxVersion
    /\ unborn \in SUBSET Profile
    /\ \A p \in Profile : stored[p] <= version + 1

ListOk ==
    /\ list \in [Profile -> Revision] /\ rows \in [Profile -> Revision]
    /\ enabled \in Profile \cup {None} /\ known \in 0 .. MaxVersion /\ gone \in SUBSET Profile

\* A drawer that is closed holds nothing; an open one has a number of its own.
Shape(d, n) ==
    /\ d \in DrawerState
    /\ d.mode = "editing" <=> d.profile # None
    /\ d.mode = "closed" => d.id = 0 /\ d.test = None /\ d.saving = FALSE /\ d.deleting = "no"
    /\ d.mode # "closed" => d.id \in 1 .. n - 1

\* The types of the drawer and of what belongs to it.
DrawerOk ==
    /\ Shape(drawer, nextDrawer) /\ nextDrawer \in 1 .. MaxDrawers + 1
    /\ editing \in Ref \cup {None} /\ key \in Key /\ edits \in 0 .. MaxEdits

\* What is read is of the drawer it is read for.
KeyOk ==
    /\ channel \in Drawer /\ load \in Drawer /\ owner \in BOOLEAN /\ reader \in Reader \cup {None}
    /\ KeyBelongsToTheDrawer
    /\ reader # None => reader.drawer \in 1 .. nextDrawer - 1
    /\ reader # None /\ drawer.mode = "editing" /\ reader.drawer = drawer.id =>
         reader.of = [profile |-> drawer.profile, revision |-> drawer.source]

\* While a save is pending nothing is loaded, and a drawer that is open waits for it.
SaveOk ==
    /\ save \in Save \cup {None} /\ locked \in BOOLEAN
    /\ drawer.saving => save # None /\ save.drawer = drawer.id /\ locked
    /\ save # None => channel = save.drawer /\ load = 0
    /\ save # None /\ drawer.mode # "closed" => drawer.saving
DialogOk ==
    /\ dialog \in Dialog \cup {None}
    /\ Deleting => dialog # None /\ dialog.profile = drawer.profile /\ dialog.id # 0
SwitchOk ==
    /\ switch \in Switch \cup {None} /\ timers \in SUBSET Request
    /\ switch # None => switch.id \in timers
WaitOk == SaveOk /\ DialogOk /\ SwitchOk

\* What the window works on, and what the sidebar waits for.
RequestOk ==
    /\ host \in SUBSET Requests /\ refresh \in Refresh \cup {None} /\ auto \in BOOLEAN
    /\ nextId \in 1 .. MaxRequests + 1
    /\ ModelsSound(host, refresh, nextId, Answered("models", queued))
    /\ TestsSound(host, drawer, nextId, nextDrawer, Answered("tested", queued))

\* A test that is shown is of the draft that is shown.
TestOk ==
    /\ TestTellsTheDraft
    /\ drawer.test # None => load = 0

LEMMA ShapeClosed ==
    ASSUME NEW e, NEW n, IsClosed(e)
    PROVE  Shape(e, n)
  BY EditorAssumption, Zenon DEF IsClosed, Shape

LEMMA ShapeSame ==
    ASSUME NEW d, NEW e, NEW n, Shape(d, n), Same(d, e), d.mode # "closed" \/ 
           (e.test = None /\ e.saving = FALSE /\ e.deleting = "no")
    PROVE  Shape(e, n)
  BY Zenon DEF Shape, Same

LEMMA ShapeLater ==
    ASSUME NEW d, NEW n \in Nat, Shape(d, n)
    PROVE  Shape(d, n + 1)
  <1>1. ASSUME NEW i \in 1 .. n - 1 PROVE i \in 1 .. (n + 1) - 1
    BY <1>1
  <1> QED BY <1>1, Zenon DEF Shape

-----------------------------------------------------------------------------
(* Three events that are several. *)

\* loadEditor: the card of the open drawer, another card, one whose profile is gone.
Leaves ==
    /\ dialog = None /\ drawer.saving = FALSE /\ save' = None /\ locked' = locked
    /\ UNCHANGED <<hostVars, queued, listVars, dialog, switchVars>>
Opens1(h) ==
    /\ drawer' = Closed /\ editing' = None /\ key' = Empty /\ edits' = 0 /\ CancelLoad
    /\ refresh' = None /\ host' = h /\ nextId' = nextId /\ nextDrawer' = nextDrawer
Opens2(p, h) ==
    /\ drawer' = Opened("editing", p, list[p]) /\ nextDrawer <= MaxDrawers /\ nextDrawer' = nextDrawer + 1
    /\ editing' = [profile |-> p, revision |-> rows[p]] /\ key' = Empty /\ edits' = 0 /\ owner' = FALSE
    /\ list[p] # 0
    /\ \/ /\ load' = nextDrawer /\ channel' = nextDrawer
          /\ reader' = [drawer |-> nextDrawer, reading |-> FALSE,
                        of |-> [profile |-> p, revision |-> list[p]]]
          /\ auto' = TRUE /\ refresh' = None /\ host' = h /\ nextId' = nextId
       \/ /\ load' = 0 /\ channel' = 0 /\ reader' = None /\ auto' = FALSE
          /\ RequestModels(FALSE, drawer', None, h)
Opens3(p, h) ==
    /\ drawer' = [drawer EXCEPT !.test = None] /\ nextDrawer' = nextDrawer /\ CancelLoad /\ list[p] = 0
    /\ \/ /\ editing # None /\ editing.profile = p
          /\ refresh' = None /\ host' = h /\ editing' = editing /\ key' = key /\ edits' = edits
          /\ nextId' = nextId
       \/ /\ editing' = [profile |-> p, revision |-> rows[p]] /\ key' = Empty /\ edits' = 0
          /\ RequestModels(FALSE, drawer', None, h)

LEMMA OpenEditorIs ==
    ASSUME NEW p \in Profile, OpenEditor(p), drawer \in DrawerState
    PROVE  /\ Leaves /\ rows[p] # 0
           /\ LET h == Cancelled(host, TestIds \cup RefreshIds, TRUE)
              IN  Opens1(h) \/ Opens2(p, h) \/ Opens3(p, h)
  <1>1. drawer.saving \in BOOLEAN
    BY DEF DrawerState
  <1>2. Leaves /\ rows[p] # 0
    <2>1. /\ dialog = None /\ ~drawer.saving /\ save' = None /\ locked' = locked /\ rows[p] # 0
          /\ UNCHANGED <<hostVars, queued, listVars, dialog, switchVars>>
      BY Zenon DEF OpenEditor, LeaveDrawer, Reachable
    <2>2. drawer.saving = FALSE
      BY <1>1, <2>1
    <2> QED BY <2>1, <2>2, Zenon DEF Leaves
  <1>3. PICK h : h = Cancelled(host, TestIds \cup RefreshIds, TRUE)
    OBVIOUS
  <1>4. Opens1(h) \/ Opens2(p, h) \/ Opens3(p, h)
    BY <1>3, Zenon DEF OpenEditor, Opens1, Opens2, Opens3, idVars
  <1> QED BY <1>2, <1>3, <1>4, Zenon

\* applyProfileAuthority
Ignored(m, sw) ==
    /\ m.version <= known /\ switch' = sw
    /\ UNCHANGED <<list, enabled, known, drawer, dialog, load, owner, auto>>
Applied(m, sw) ==
    /\ ~(m.version <= known) /\ list' = Shown(m.list) /\ enabled' = m.active /\ known' = m.version
    /\ drawer' = DrawerAfter(list') /\ dialog' = DialogAfter(list') /\ switch' \in {sw, None}
    /\ \/ /\ drawer'.mode = "closed" \/ drawer'.validity = "conflict"
          /\ load' = 0 /\ owner' = FALSE /\ auto' = FALSE
       \/ /\ drawer'.mode # "closed" /\ drawer'.validity # "conflict"
          /\ load' = load /\ owner' = owner /\ auto' = auto

LEMMA ApplyAuthorityIs ==
    ASSUME NEW m, NEW sw, ApplyAuthority(m, sw), owner \in BOOLEAN, auto \in BOOLEAN
    PROVE  Ignored(m, sw) \/ Applied(m, sw)
  <1>1. CASE m.version <= known
    BY <1>1, Zenon DEF ApplyAuthority, Ignored
  <1>2. CASE ~(m.version <= known)
    <2>1. PICK l : l = Shown(m.list)
      OBVIOUS
    <2>2. PICK d : d = DrawerAfter(l)
      OBVIOUS
    <2>3. PICK dropped \in BOOLEAN : dropped <=> (d.mode = "closed" \/ d.validity = "conflict")
      OBVIOUS
    <2>4. /\ list' = l /\ enabled' = m.active /\ known' = m.version
          /\ drawer' = d /\ dialog' = DialogAfter(l)
          /\ load' = IF d.mode = "closed" \/ d.validity = "conflict" THEN 0 ELSE load
          /\ owner' = (owner /\ ~(d.mode = "closed" \/ d.validity = "conflict"))
          /\ auto' = (auto /\ ~(d.mode = "closed" \/ d.validity = "conflict"))
          /\ switch' = IF Settled(sw, m) THEN None ELSE sw
      BY <1>2, <2>1, <2>2, Zenon DEF ApplyAuthority
    <2>5. switch' \in {sw, None}
      BY <2>4, Zenon
    <2>6. CASE d.mode = "closed" \/ d.validity = "conflict"
      <3>1. load' = 0 /\ owner' = FALSE /\ auto' = FALSE
        BY <2>4, <2>6
      <3> QED BY <1>2, <2>1, <2>2, <2>4, <2>5, <2>6, <3>1, Zenon DEF Applied
    <2>7. CASE ~(d.mode = "closed" \/ d.validity = "conflict")
      <3>1. load' = load /\ owner' = owner /\ auto' = auto
        BY <2>4, <2>7
      <3> QED BY <1>2, <2>1, <2>2, <2>4, <2>5, <2>7, <3>1, Zenon DEF Applied
    <2> QED BY <2>6, <2>7
  <1> QED BY <1>1, <1>2, Zenon

\* state:update
\* The tests that a drawer loses, and what is told of a list.
Lost(d) == IF d.test = None THEN TestIds ELSE {}
UpdateFor(l) ==
    /\ list' = l /\ enabled' = active /\ known' = version /\ dialog' = DialogAfter(l)
    /\ switch' \in {switch, None} /\ timers' = ArmedTimers
    /\ rows' = l \/ (l = list /\ version = known /\ rows' = rows)
    /\ UNCHANGED <<hostVars, queued, gone, idVars>>
Unseals(k) == Unsealed # None /\ k.id = refresh.id /\ k.sent = refresh.sent /\ k \in Refresh
UpdateDrops(d) ==
    /\ d.mode = "closed" \/ d.validity = "conflict"
    /\ CancelLoad /\ key' = Empty /\ save' = None /\ locked' \in {locked, FALSE}
    /\ drawer' = [d EXCEPT !.saving = @ /\ save = None]
    /\ \/ d.mode = "closed" /\ editing' = None /\ edits' = 0
       \/ d.mode # "closed" /\ editing' = editing /\ edits' = edits
    /\ \/ d.validity = "conflict" /\ refresh' = None
          /\ host' = Cancelled(host, Lost(d) \cup RefreshIds, TRUE)
       \/ /\ d.validity # "conflict" /\ host' = Cancelled(host, Lost(d) \cup {}, TRUE)
          /\ (Unsealed = None /\ refresh' = None) \/ Unseals(refresh')
UpdateKeeps(d, l) ==
    /\ d.mode # "closed" /\ d.validity # "conflict"
    /\ drawer' = d /\ host' = Cancelled(host, Lost(d), FALSE)
    /\ UNCHANGED <<keyVars, auto, key, saveVars>> /\ edits' = edits
    /\ \/ editing' = None /\ editing = None
       \/ editing # None /\ editing' = editing /\ (l[editing.profile] = 0 \/ save # None)
       \/ /\ editing # None /\ l[editing.profile] # 0 /\ save = None
          /\ editing' = [profile |-> editing.profile, revision |-> l[editing.profile]]
    /\ \/ refresh = None /\ refresh' = None
       \/ refresh # None /\ refresh'.id = refresh.id /\ refresh'.sent = refresh.sent /\ refresh' \in Refresh

LEMMA RefreshKept ==
    ASSUME NEW k \in Refresh, NEW b \in BOOLEAN
    PROVE  LET j == [k EXCEPT !.fresh = @ /\ b] IN j \in Refresh /\ j.id = k.id /\ j.sent = k.sent
  BY DEF Refresh

LEMMA HandleUpdateIs ==
    ASSUME HandleUpdate, refresh \in Refresh \cup {None}, editing \in Ref \cup {None}
    PROVE  LET l == Shown(stored) IN
           /\ UpdateFor(l)
           /\ UpdateDrops(DrawerAfter(l)) \/ UpdateKeeps(DrawerAfter(l), l)
  <1>1. PICK l : l = Shown(stored)
    OBVIOUS
  <1>2. PICK d : d = DrawerAfter(l)
    OBVIOUS
  <1>3. UpdateFor(l)
    BY <1>1, Zenon DEF HandleUpdate, UpdateFor
  <1>4. PICK b \in BOOLEAN : b <=> editing' = editing
    OBVIOUS
  <1>5. refresh # None => /\ [refresh EXCEPT !.fresh = @ /\ editing' = editing] \in Refresh
                          /\ [refresh EXCEPT !.fresh = @ /\ editing' = editing].id = refresh.id
                          /\ [refresh EXCEPT !.fresh = @ /\ editing' = editing].sent = refresh.sent
    <2>1. SUFFICES ASSUME refresh # None
                   PROVE  /\ [refresh EXCEPT !.fresh = @ /\ editing' = editing] \in Refresh
                          /\ [refresh EXCEPT !.fresh = @ /\ editing' = editing].id = refresh.id
                          /\ [refresh EXCEPT !.fresh = @ /\ editing' = editing].sent = refresh.sent
      OBVIOUS
    <2>2. refresh \in Refresh /\ (editing' = editing) \in BOOLEAN
      BY <2>1
    <2> QED BY <2>2, RefreshKept
  <1>6. CASE d.mode = "closed" \/ d.validity = "conflict"
    <2>1. /\ CancelLoad /\ key' = Empty /\ GiveUpSave
          /\ drawer' = [d EXCEPT !.saving = @ /\ save = None]
          /\ host' = Cancelled(host, (IF d.test = None THEN TestIds ELSE {})
                                       \cup (IF d.validity = "conflict" THEN RefreshIds ELSE {}), TRUE)
          /\ refresh' = IF d.validity = "conflict" \/ Unsealed = None THEN None
                        ELSE [refresh EXCEPT !.fresh = @ /\ editing' = editing]
          /\ editing' = (IF d.mode = "closed" \/ editing = None THEN None
                         ELSE IF l[editing.profile] = 0 \/ d.validity = "conflict" \/ save # None THEN editing
                         ELSE [editing EXCEPT !.revision = l[editing.profile]])
          /\ edits' = IF d.mode = "closed" THEN 0 ELSE edits
      BY <1>1, <1>2, <1>6, Zenon DEF HandleUpdate
    <2>2. save' = None /\ locked' \in {locked, FALSE}
      BY <2>1, Zenon DEF GiveUpSave
    <2>3. \/ d.mode = "closed" /\ editing' = None /\ edits' = 0
          \/ d.mode # "closed" /\ editing' = editing /\ edits' = edits
      BY <1>6, <2>1, Zenon
    <2>4. \/ d.validity = "conflict" /\ refresh' = None
             /\ host' = Cancelled(host, Lost(d) \cup RefreshIds, TRUE)
          \/ /\ d.validity # "conflict" /\ host' = Cancelled(host, Lost(d) \cup {}, TRUE)
             /\ (Unsealed = None /\ refresh' = None) \/ Unseals(refresh')
      <3>1. CASE d.validity = "conflict"
        BY <2>1, <3>1, Zenon DEF Lost
      <3>2. CASE d.validity # "conflict" /\ Unsealed = None
        BY <2>1, <3>2, Zenon DEF Lost
      <3>3. CASE d.validity # "conflict" /\ Unsealed # None
        <4>1. refresh # None
          BY <3>3, Zenon DEF Unsealed
        <4>2. refresh' = [refresh EXCEPT !.fresh = @ /\ editing' = editing]
          BY <2>1, <3>3, Zenon
        <4>3. Unseals(refresh')
          BY <1>5, <3>3, <4>1, <4>2, Zenon DEF Unseals
        <4>4. host' = Cancelled(host, Lost(d) \cup {}, TRUE)
          BY <2>1, <3>3, Zenon DEF Lost
        <4> QED BY <3>3, <4>3, <4>4, Zenon
      <3> QED BY <3>1, <3>2, <3>3, Zenon
    <2>5. UpdateDrops(d)
      BY <1>6, <2>1, <2>2, <2>3, <2>4, Zenon DEF UpdateDrops
    <2> QED BY <1>1, <1>2, <1>3, <2>5, Zenon
  <1>7. CASE ~(d.mode = "closed" \/ d.validity = "conflict")
    <2>1. /\ drawer' = d /\ host' = Cancelled(host, IF d.test = None THEN TestIds ELSE {}, FALSE)
          /\ UNCHANGED <<keyVars, auto, key, saveVars>>
          /\ refresh' = IF refresh = None THEN None
                        ELSE [refresh EXCEPT !.fresh = @ /\ editing' = editing]
          /\ editing' = (IF d.mode = "closed" \/ editing = None THEN None
                         ELSE IF l[editing.profile] = 0 \/ d.validity = "conflict" \/ save # None THEN editing
                         ELSE [editing EXCEPT !.revision = l[editing.profile]])
          /\ edits' = IF d.mode = "closed" THEN 0 ELSE edits
      BY <1>1, <1>2, <1>7, Zenon DEF HandleUpdate
    <2>2. \/ refresh = None /\ refresh' = None
          \/ refresh # None /\ refresh'.id = refresh.id /\ refresh'.sent = refresh.sent /\ refresh' \in Refresh
      <3>1. CASE refresh = None
        BY <2>1, <3>1, Zenon
      <3>2. CASE refresh # None
        <4>1. refresh' = [refresh EXCEPT !.fresh = @ /\ editing' = editing]
          BY <2>1, <3>2, Zenon
        <4> QED BY <1>5, <3>2, <4>1, Zenon
      <3> QED BY <3>1, <3>2
    <2>3. \/ editing' = None /\ editing = None
          \/ editing # None /\ editing' = editing /\ (l[editing.profile] = 0 \/ save # None)
          \/ /\ editing # None /\ l[editing.profile] # 0 /\ save = None
             /\ editing' = [profile |-> editing.profile, revision |-> l[editing.profile]]
      <3>1. editing # None => [editing EXCEPT !.revision = l[editing.profile]]
                                = [profile |-> editing.profile, revision |-> l[editing.profile]]
        <4>1. PICK r : r = l[editing.profile]
          OBVIOUS
        <4>2. editing # None => [editing EXCEPT !.revision = r] = [profile |-> editing.profile, revision |-> r]
          BY DEF Ref
        <4> QED BY <4>1, <4>2, Zenon
      <3> QED BY <1>7, <2>1, <3>1, Zenon
    <2>4. edits' = edits /\ host' = Cancelled(host, Lost(d), FALSE)
      BY <1>7, <2>1, Zenon DEF Lost
    <2>5. UpdateKeeps(d, l)
      BY <1>7, <2>1, <2>2, <2>3, <2>4, Zenon DEF UpdateKeeps
    <2> QED BY <1>1, <1>2, <1>3, <2>5, Zenon
  <1> QED BY <1>6, <1>7
-----------------------------------------------------------------------------
(* The drawer keeps its shape. *)

LEMMA Shapes ==
    ASSUME DrawerOk
    PROVE  /\ drawer \in DrawerState /\ Shape(drawer, nextDrawer)
           /\ nextDrawer \in Nat /\ nextDrawer \in 1 .. MaxDrawers + 1
           /\ drawer.profile \in Profile \cup {None}
           /\ drawer.mode = "editing" <=> drawer.profile # None
           /\ drawer.mode = "closed" => drawer.test = None /\ drawer.saving = FALSE /\ drawer.deleting = "no"
                                          /\ drawer.id = 0
           /\ drawer.mode # "closed" => drawer.id \in 1 .. nextDrawer - 1
           /\ drawer.saving \in BOOLEAN
  <1>1. drawer \in DrawerState /\ Shape(drawer, nextDrawer) /\ nextDrawer \in 1 .. MaxDrawers + 1
    BY DEF DrawerOk, Shape
  <1>2. nextDrawer \in Nat
    BY <1>1, EditorAssumption
  <1>3. drawer.profile \in Profile \cup {None} /\ drawer.saving \in BOOLEAN
    BY <1>1 DEF DrawerState
  <1> QED BY <1>1, <1>2, <1>3, Zenon DEF Shape

LEMMA ShapeFrame ==
    ASSUME DrawerOk, Same(drawer, drawer'), nextDrawer' = nextDrawer,
           drawer'.test = None \/ drawer.test # None,
           drawer'.saving = FALSE \/ drawer'.saving = drawer.saving \/ drawer.mode # "closed",
           drawer'.deleting = "no" \/ drawer'.deleting = drawer.deleting \/ drawer.mode # "closed",
           editing' = editing, key' = key, edits' = edits
    PROVE  DrawerOk'
  <1>1. drawer.mode # "closed" \/ 
           (drawer'.test = None /\ drawer'.saving = FALSE /\ drawer'.deleting = "no")
    <2>1. drawer.mode = "closed" => drawer.test = None /\ drawer.saving = FALSE /\ drawer.deleting = "no"
      BY Shapes
    <2> QED BY <2>1
  <1>2. Shape(drawer', nextDrawer)
    BY <1>1, Shapes, ShapeSame, Zenon
  <1> QED BY <1>2, Zenon DEF DrawerOk

\* What opening, editing and closing a drawer leave of it.
LEMMA Untyped ==
    /\ Empty \in Key /\ Typed \in Key /\ None \in Ref \cup {None} /\ 0 \in 0 .. MaxEdits
    /\ \A p \in Profile, r \in Revision : [profile |-> p, revision |-> r] \in Ref
  BY EditorAssumption DEF Key, Ref

LEMMA ChannelShape ==
    ASSUME DrawerOk, NEW d, Same(drawer, d), d.test = None \/ drawer.test # None,
           d.saving = drawer.saving, d.deleting = drawer.deleting, drawer' = ChannelDrawer(d),
           nextDrawer' = nextDrawer, editing' = editing, key' = key, edits' = edits
    PROVE  DrawerOk'
  <1>1. d \in DrawerState
    BY Zenon DEF Same
  <1>2. PICK e : e = ChannelDrawer(d)
    OBVIOUS
  <1>3. /\ Same(d, e) /\ e.saving = (d.saving /\ save = None) /\ e.deleting = d.deleting
        /\ d.test = None => e.test = None
    BY <1>1, <1>2, DChannel, Zenon
  <1>4. drawer' = e
    BY <1>2
  <1>5. Same(drawer, e)
    BY <1>3, Zenon DEF Same
  <1>6. e.saving = FALSE \/ e.saving = drawer.saving
    <2>1. drawer.saving \in BOOLEAN
      BY Shapes
    <2> QED BY <1>3, <2>1
  <1> QED BY <1>3, <1>4, <1>5, <1>6, ShapeFrame, Zenon

LEMMA EditShape ==
    ASSUME DrawerOk, Edit, NEW c \in BOOLEAN, drawer' = Edited(c), nextDrawer' = nextDrawer,
           editing' = editing, key' \in Key
    PROVE  DrawerOk'
  <1>1. drawer.mode # "closed" /\ edits < MaxEdits /\ edits' = edits + 1
    BY Zenon DEF Edit
  <1>2. edits' \in 0 .. MaxEdits
    BY <1>1, EditorAssumption DEF DrawerOk
  <1>3. Same(drawer, drawer')
    BY Shapes, DEdited, Zenon
  <1>4. Shape(drawer', nextDrawer)
    BY <1>1, <1>3, Shapes, ShapeSame, Zenon
  <1> QED BY <1>2, <1>4, Zenon DEF DrawerOk

LEMMA ClosedShape ==
    ASSUME DrawerOk, IsClosed(drawer'), nextDrawer' = nextDrawer,
           editing' \in Ref \cup {None}, key' \in Key, edits' \in 0 .. MaxEdits
    PROVE  DrawerOk'
  <1>1. Shape(drawer', nextDrawer)
    BY ShapeClosed, Zenon
  <1> QED BY <1>1, Zenon DEF DrawerOk

LEMMA ClosedIsClosed == IsClosed(Closed)
  BY DClosed, Zenon DEF IsClosed

LEMMA AfterShape ==
    ASSUME DrawerOk, NEW l \in [Profile -> Revision]
    PROVE  Shape(DrawerAfter(l), nextDrawer)
  <1>1. PICK e : e = DrawerAfter(l)
    OBVIOUS
  <1>2. \/ GoesOn(l, e)
        \/ FallsInConflict(l, e)
        \/ IsClosed(e)
    BY <1>1, Shapes, DAfter, Zenon
  <1>3. CASE GoesOn(l, e)
    <2>1. e.deleting \in {"no", drawer.deleting}
      BY <1>1, Shapes, DAfter, Zenon
    <2>2. drawer.mode = "closed" => drawer.test = None /\ drawer.saving = FALSE /\ drawer.deleting = "no"
      BY Shapes
    <2>3. Same(drawer, e) /\ e.test = drawer.test /\ e.saving = drawer.saving
      BY <1>3, Zenon DEF GoesOn
    <2>4. drawer.mode # "closed" \/ (e.test = None /\ e.saving = FALSE /\ e.deleting = "no")
      BY <2>1, <2>2, <2>3
    <2> QED BY <1>1, <2>3, <2>4, Shapes, ShapeSame, Zenon
  <1>4. CASE FallsInConflict(l, e)
    <2>1. Same(drawer, e) /\ drawer.mode # "closed"
      BY <1>4, Zenon DEF FallsInConflict
    <2> QED BY <1>1, <2>1, Shapes, ShapeSame, Zenon
  <1>5. CASE IsClosed(e)
    BY <1>1, <1>5, ShapeClosed, Zenon
  <1> QED BY <1>2, <1>3, <1>4, <1>5

LEMMA DrawerFrame ==
    ASSUME DrawerOk, UNCHANGED <<drawerVars, nextDrawer>>
    PROVE  DrawerOk'
  BY Zenon DEF DrawerOk, drawerVars

LEMMA OpenedShape ==
    ASSUME DrawerOk, NEW mode, NEW p, NEW r \in Revision, nextDrawer <= MaxDrawers, nextDrawer' = nextDrawer + 1,
           (mode = "editing" /\ p \in Profile) \/ (mode = "new" /\ p = None), drawer' = Opened(mode, p, r),
           editing' \in Ref \cup {None}, key' \in Key, edits' \in 0 .. MaxEdits
    PROVE  DrawerOk'
  <1>1. nextDrawer \in Drawer /\ nextDrawer' \in 1 .. MaxDrawers + 1 /\ nextDrawer \in 1 .. nextDrawer' - 1
    BY EditorAssumption DEF DrawerOk, Drawer
  <1>2. mode \in {"new", "editing"} /\ p \in Profile \cup {None} /\ (mode = "editing" <=> p # None)
    BY EditorAssumption
  <1>3. PICK e : e = Opened(mode, p, r)
    OBVIOUS
  <1>4. e \in DrawerState /\ e.mode = mode /\ e.id = nextDrawer /\ e.profile = p
    BY <1>1, <1>2, <1>3, EditorAssumption DEF Opened, Closed, DrawerState
  <1>5. Shape(e, nextDrawer')
    <2>1. mode # "closed"
      BY <1>2
    <2> QED BY <1>1, <1>2, <1>4, <2>1, Zenon DEF Shape
  <1> QED BY <1>1, <1>3, <1>5, Zenon DEF DrawerOk

LEMMA TestStarts ==
    ASSUME DrawerOk, nextId <= MaxRequests, nextId \in 1 .. MaxRequests + 1
    PROVE  LET t == [id |-> nextId, draft |-> drawer.draft, phase |-> "testing",
                     sent |-> FALSE, of |-> [edits |-> edits, key |-> key]]
           IN  t \in Test /\ t.id = nextId /\ t.phase = "testing" /\ t.sent = FALSE
                 /\ t.of = [edits |-> edits, key |-> key]
  <1>1. nextId \in Request
    BY EditorAssumption DEF Request
  <1>2. drawer.draft \in Nat
    BY Shapes DEF DrawerState
  <1>3. [edits |-> edits, key |-> key] \in Draft
    BY DEF DrawerOk, Draft
  <1>4. PICK o : o = [edits |-> edits, key |-> key]
    OBVIOUS
  <1>5. PICK n : n = drawer.draft
    OBVIOUS
  <1>6. LET t == [id |-> nextId, draft |-> n, phase |-> "testing", sent |-> FALSE, of |-> o]
        IN  t \in Test /\ t.id = nextId /\ t.phase = "testing" /\ t.sent = FALSE /\ t.of = o
    BY <1>1, <1>2, <1>3, <1>4, <1>5 DEF Test
  <1> QED BY <1>4, <1>5, <1>6, Zenon

LEMMA WithoutIs ==
    ASSUME drawer \in DrawerState
    PROVE  /\ Same(drawer, WithoutDialog) /\ WithoutDialog.validity = drawer.validity
           /\ WithoutDialog.saving = drawer.saving /\ WithoutDialog.keyEdits = drawer.keyEdits
           /\ WithoutDialog.test = drawer.test /\ WithoutDialog.deleting \in {"no", drawer.deleting}
           /\ drawer.profile = dialog.profile => WithoutDialog.deleting = "no"
  <1>1. CASE drawer.profile = dialog.profile
    <2>1. WithoutDialog = [drawer EXCEPT !.deleting = "no"]
      BY <1>1, Zenon DEF WithoutDialog
    <2> QED BY <1>1, <2>1, DDeleting, Zenon
  <1>2. CASE drawer.profile # dialog.profile
    BY <1>2, Zenon DEF WithoutDialog, Same
  <1> QED BY <1>1, <1>2, Zenon

LEMMA WithoutShape ==
    ASSUME DrawerOk, drawer' = WithoutDialog, nextDrawer' = nextDrawer,
           editing' = editing, key' = key, edits' = edits
    PROVE  DrawerOk'
  <1>1. /\ Same(drawer, drawer') /\ drawer'.saving = drawer.saving
        /\ drawer'.test = drawer.test /\ drawer'.deleting \in {"no", drawer.deleting}
    BY Shapes, WithoutIs, Zenon
  <1> QED BY <1>1, ShapeFrame, Zenon

LEMMA TestedIs ==
    ASSUME drawer \in DrawerState, Testing(drawer), NEW phase \in {"passed", "failed"}
    PROVE  LET e == Tested(phase) IN
           /\ Same(drawer, e) /\ e.validity = drawer.validity
           /\ e.saving = drawer.saving /\ e.deleting = drawer.deleting /\ e.keyEdits = drawer.keyEdits
           /\ drawer.test # None /\ drawer.test.phase = "testing"
           /\ e.test \in Test /\ e.test # None /\ e.test.of = drawer.test.of /\ e.test.id = drawer.test.id
           /\ e.test.sent = drawer.test.sent /\ e.test.phase = phase
  <1>1. drawer.test # None /\ drawer.test.phase = "testing"
    BY Zenon DEF Testing
  <1>2. PICK e : e = Tested(phase)
    OBVIOUS
  <1>3. e = [drawer EXCEPT !.test.phase = phase]
    BY <1>2, Zenon DEF Tested
  <1>4. /\ Same(drawer, e) /\ e.validity = drawer.validity
        /\ e.saving = drawer.saving /\ e.deleting = drawer.deleting /\ e.keyEdits = drawer.keyEdits
        /\ e.test \in Test /\ e.test.of = drawer.test.of /\ e.test.id = drawer.test.id
        /\ e.test.sent = drawer.test.sent /\ e.test.phase = phase
    <2>1. phase \in {"testing", "passed", "failed"}
      OBVIOUS
    <2> QED BY <1>1, <1>3, <2>1, DPhase, Zenon
  <1>5. e.test # None
    BY <1>4, EditorAssumption
  <1> QED BY <1>1, <1>2, <1>4, <1>5, Zenon

LEMMA TestedShape ==
    ASSUME DrawerOk, Testing(drawer), NEW phase \in {"passed", "failed"}
    PROVE  LET e == Tested(phase) IN
           Same(drawer, e) /\ drawer.test # None /\ e.saving = drawer.saving /\ e.deleting = drawer.deleting
  BY Shapes, TestedIs, Zenon

LEMMA MessageFields ==
    ASSUME NEW m \in Messages
    PROVE  /\ m.name \in {"state", "switched"} => m.picture \in Pictures
           /\ m.name \in {"switched", "tested", "models", "refused", "deleted", "saved"} => m.id \in Request
           /\ m.name = "deleted" => m.profile \in Profile
           /\ m.name = "saved" => m.ok \in BOOLEAN
           /\ m.name = "saved" /\ m.ok => m.profile \in Profile /\ m.revision \in Revision
           /\ m.name = "tested" => m.ok \in BOOLEAN /\ m.invalid \in BOOLEAN
  BY DEF Messages

LEMMA PictureTyped ==
    ASSUME NEW m \in Messages, m.name = "state" \/ m.name = "switched"
    PROVE  /\ m.picture.list \in [Profile -> Revision] /\ m.picture.version \in 0 .. MaxVersion
           /\ m.picture.active \in Profile \cup {None}
  <1>1. m.picture \in Pictures
    BY MessageFields
  <1> QED BY <1>1 DEF Pictures

LEMMA ShownTyped ==
    ASSUME NEW l \in [Profile -> Revision]
    PROVE  Shown(l) \in [Profile -> Revision]
  <1>1. 0 \in Revision
    BY EditorAssumption DEF Revision
  <1> QED BY <1>1 DEF Shown

LEMMA HeadTyped ==
    ASSUME queued \in Seq(Messages), queued # <<>>
    PROVE  Head(queued) \in Messages /\ Tail(queued) \in Seq(Messages)
  BY HeadTailProperties

LEMMA AuthorityShape ==
    ASSUME DrawerOk, KeyOk, RequestOk, NEW m, NEW sw, ApplyAuthority(m, sw), m.list \in [Profile -> Revision],
           editing' = editing, key' = key, edits' = edits, nextDrawer' = nextDrawer
    PROVE  DrawerOk'
  <1>1. Ignored(m, sw) \/ Applied(m, sw)
    BY ApplyAuthorityIs, Zenon DEF KeyOk, RequestOk
  <1>2. CASE Ignored(m, sw)
    BY <1>2, DrawerFrame, Zenon DEF Ignored, drawerVars
  <1>3. CASE Applied(m, sw)
    <2>1. drawer' = DrawerAfter(list') /\ list' = Shown(m.list)
      BY <1>3, Zenon DEF Applied
    <2>2. list' \in [Profile -> Revision]
      BY <2>1, ShownTyped, Zenon
    <2>3. Shape(drawer', nextDrawer)
      BY <2>1, <2>2, AfterShape, Zenon
    <2> QED BY <2>3, Zenon DEF DrawerOk
  <1> QED BY <1>1, <1>2, <1>3

LEMMA DrawerStep ==
    ASSUME DrawerOk, ListOk, ProfilesOk, KeyOk, WaitOk, RequestOk, QueueOk, Next
    PROVE  DrawerOk'
  <1>1. ASSUME NEW p \in Profile, OpenEditor(p) PROVE DrawerOk'
    <2>1. PICK h : Opens1(h) \/ Opens2(p, h) \/ Opens3(p, h)
      BY <1>1, Shapes, OpenEditorIs, Zenon
    <2>2. CASE Opens1(h)
      <3>1. /\ drawer' = Closed /\ nextDrawer' = nextDrawer /\ editing' = None /\ key' = Empty /\ edits' = 0
        BY <2>2, Zenon DEF Opens1
      <3> QED BY <3>1, ClosedIsClosed, ClosedShape, Untyped, Zenon
    <2>3. CASE Opens2(p, h)
      <3>1. /\ drawer' = Opened("editing", p, list[p]) /\ nextDrawer <= MaxDrawers
            /\ nextDrawer' = nextDrawer + 1
            /\ editing' = [profile |-> p, revision |-> rows[p]] /\ key' = Empty /\ edits' = 0
        BY <2>3, Zenon DEF Opens2
      <3>2. list[p] \in Revision /\ rows[p] \in Revision
        BY DEF ListOk
      <3>3. editing' \in Ref \cup {None} /\ key' \in Key /\ edits' \in 0 .. MaxEdits
        BY <3>1, <3>2, Untyped, Zenon
      <3> QED BY <3>1, <3>2, <3>3, OpenedShape
    <2>4. CASE Opens3(p, h)
      <3>1. /\ drawer' = [drawer EXCEPT !.test = None] /\ nextDrawer' = nextDrawer
            /\ \/ editing' = editing /\ key' = key /\ edits' = edits
               \/ editing' = [profile |-> p, revision |-> rows[p]] /\ key' = Empty /\ edits' = 0
        BY <2>4, Zenon DEF Opens3
      <3>2. rows[p] \in Revision
        BY DEF ListOk
      <3>3. editing' \in Ref \cup {None} /\ key' \in Key /\ edits' \in 0 .. MaxEdits
        BY <3>1, <3>2, Untyped, Zenon DEF DrawerOk
      <3>4. /\ Same(drawer, drawer') /\ drawer'.test = None
            /\ drawer'.saving = drawer.saving /\ drawer'.deleting = drawer.deleting
        BY <3>1, Shapes, DTest, Zenon
      <3>5. Shape(drawer', nextDrawer)
        <4>1. drawer.mode = "closed" => drawer'.saving = FALSE /\ drawer'.deleting = "no"
          BY <3>4, Shapes
        <4> QED BY <3>4, <4>1, Shapes, ShapeSame, Zenon
      <3> QED BY <3>1, <3>3, <3>5, Zenon DEF DrawerOk
    <2> QED BY <2>1, <2>2, <2>3, <2>4, Zenon
  <1>2. ASSUME OpenNew PROVE DrawerOk'
    <2>1. /\ drawer' = Opened("new", None, 0) /\ nextDrawer <= MaxDrawers /\ nextDrawer' = nextDrawer + 1
          /\ editing' = None /\ key' = Empty /\ edits' = 0
      BY <1>2, Zenon DEF OpenNew
    <2>2. 0 \in Revision
      BY EditorAssumption DEF Revision
    <2>3. editing' \in Ref \cup {None} /\ key' \in Key /\ edits' \in 0 .. MaxEdits
      BY <2>1, Untyped, Zenon
    <2> QED BY <2>1, <2>2, <2>3, OpenedShape
  <1>3. ASSUME CloseDrawer PROVE DrawerOk'
    <2>1. /\ drawer' = Closed /\ nextDrawer' = nextDrawer /\ editing' = None /\ key' = Empty /\ edits' = 0
      BY <1>3, Zenon DEF CloseDrawer, idVars
    <2> QED BY <2>1, ClosedIsClosed, ClosedShape, Untyped, Zenon
  <1>4. ASSUME EditKind PROVE DrawerOk'
    <2>1. /\ Edit /\ drawer' = Edited(FALSE) /\ nextDrawer' = nextDrawer /\ editing' = editing /\ key' = Empty
      BY <1>4, Zenon DEF EditKind, idVars
    <2>2. key' \in Key
      BY <2>1, Untyped, Zenon DEF DrawerOk
    <2> QED BY <2>1, <2>2, EditShape, Zenon
  <1>5. ASSUME EditEndpoint PROVE DrawerOk'
    <2>1. /\ Edit /\ drawer' = Edited(FALSE) /\ nextDrawer' = nextDrawer /\ editing' = editing /\ key' = key
      BY <1>5, Zenon DEF EditEndpoint, idVars
    <2>2. key' \in Key
      BY <2>1, Untyped, Zenon DEF DrawerOk
    <2> QED BY <2>1, <2>2, EditShape, Zenon
  <1>6. ASSUME EditRoute PROVE DrawerOk'
    <2>1. /\ Edit /\ drawer' = Edited(FALSE) /\ nextDrawer' = nextDrawer /\ editing' = editing /\ key' = key
      BY <1>6, Zenon DEF EditRoute, idVars
    <2>2. key' \in Key
      BY <2>1, Untyped, Zenon DEF DrawerOk
    <2> QED BY <2>1, <2>2, EditShape, Zenon
  <1>7. ASSUME EditModel PROVE DrawerOk'
    <2>1. /\ Edit /\ drawer' = Edited(FALSE) /\ nextDrawer' = nextDrawer /\ editing' = editing /\ key' = key
      BY <1>7, Zenon DEF EditModel, idVars
    <2>2. key' \in Key
      BY <2>1, Untyped, Zenon DEF DrawerOk
    <2> QED BY <2>1, <2>2, EditShape, Zenon
  <1>8. ASSUME TypeKey PROVE DrawerOk'
    <2>1. /\ Edit /\ drawer' = Edited(TRUE) /\ nextDrawer' = nextDrawer /\ editing' = editing /\ key' = Typed
      BY <1>8, Zenon DEF TypeKey, idVars
    <2>2. key' \in Key
      BY <2>1, Untyped, Zenon DEF DrawerOk
    <2> QED BY <2>1, <2>2, EditShape, Zenon
  <1>9. ASSUME RefreshModels PROVE DrawerOk'
    BY <1>9, DrawerFrame, Zenon DEF RefreshModels, drawerVars, idVars
  <1>10. ASSUME SendModels PROVE DrawerOk'
    BY <1>10, DrawerFrame, Zenon DEF SendModels, drawerVars, idVars
  <1>11. ASSUME ModelsNotSent PROVE DrawerOk'
    BY <1>11, DrawerFrame, Zenon DEF ModelsNotSent, drawerVars, idVars
  <1>12. ASSUME SendSave PROVE DrawerOk'
    BY <1>12, DrawerFrame, Zenon DEF SendSave, drawerVars, idVars
  <1>13. ASSUME EndpointTimer PROVE DrawerOk'
    BY <1>13, DrawerFrame, Zenon DEF EndpointTimer, drawerVars, idVars
  <1>14. ASSUME SwitchExpires PROVE DrawerOk'
    BY <1>14, DrawerFrame, Zenon DEF SwitchExpires, drawerVars, idVars
  <1>15. ASSUME BeginRead PROVE DrawerOk'
    BY <1>15, DrawerFrame, Zenon DEF BeginRead, drawerVars, idVars
  <1>16. ASSUME ReadFails PROVE DrawerOk'
    BY <1>16, DrawerFrame, Zenon DEF ReadFails, drawerVars, idVars
  <1>17. ASSUME NEW p \in Profile, NEW on \in BOOLEAN, Toggle(p, on) PROVE DrawerOk'
    BY <1>17, DrawerFrame, Zenon DEF Toggle, drawerVars, idVars
  <1>18. ASSUME StartTest PROVE DrawerOk'
    <2>1. PICK t : t = [id |-> nextId, draft |-> drawer.draft, phase |-> "testing",
                         sent |-> FALSE, of |-> [edits |-> edits, key |-> key]]
      OBVIOUS
    <2>2. /\ drawer.mode # "closed" /\ nextId <= MaxRequests /\ drawer' = [drawer EXCEPT !.test = t]
          /\ nextDrawer' = nextDrawer /\ editing' = editing /\ key' = key /\ edits' = edits
      BY <1>18, <2>1, Zenon DEF StartTest, CanAsk
    <2>3. t \in Test
      BY <2>1, <2>2, TestStarts DEF RequestOk
    <2>4. /\ Same(drawer, drawer')
      BY <2>2, <2>3, Shapes, DTest, Zenon
    <2>5. Shape(drawer', nextDrawer)
      BY <2>2, <2>4, Shapes, ShapeSame, Zenon
    <2> QED BY <2>2, <2>5, Zenon DEF DrawerOk
  <1>19. ASSUME StartSave PROVE DrawerOk'
    <2>1. /\ drawer.mode # "closed"
          /\ drawer' = [drawer EXCEPT !.submits = @ + 1, !.test = None, !.saving = TRUE]
          /\ nextDrawer' = nextDrawer /\ editing' = editing /\ key' = key /\ edits' = edits
      BY <1>19, Zenon DEF StartSave, CanAsk
    <2>2. Same(drawer, drawer')
      BY <2>1, Shapes, DSubmitted, Zenon
    <2>3. Shape(drawer', nextDrawer)
      BY <2>1, <2>2, Shapes, ShapeSame, Zenon
    <2> QED BY <2>1, <2>3, Zenon DEF DrawerOk
  <1>20. ASSUME PageHides PROVE DrawerOk'
    <2>1. PICK x \in BOOLEAN : x = (save = None)
      OBVIOUS
    <2>2. /\ drawer' = [drawer EXCEPT !.test = None, !.saving = @ /\ x]
          /\ nextDrawer' = nextDrawer /\ editing' = editing /\ key' = key /\ edits' = edits
      BY <1>20, <2>1, Zenon DEF PageHides, idVars
    <2>3. /\ Same(drawer, drawer') /\ drawer'.test = None /\ drawer'.deleting = drawer.deleting
          /\ drawer'.saving = (drawer.saving /\ x)
      BY <2>2, Shapes, DHidden, Zenon
    <2>4. drawer'.saving = FALSE \/ drawer'.saving = drawer.saving
      <3>1. drawer.saving \in BOOLEAN
        BY Shapes
      <3> QED BY <2>3, <3>1
    <2> QED BY <2>2, <2>3, <2>4, ShapeFrame, Zenon
  <1>21. ASSUME AskDelete PROVE DrawerOk'
    <2>1. /\ drawer' = (IF drawer.mode = "editing" /\ drawer.profile = editing.profile
                     THEN [drawer EXCEPT !.deleting = "confirming"] ELSE drawer)
          /\ nextDrawer' = nextDrawer /\ editing' = editing /\ key' = key /\ edits' = edits
      BY <1>21, Zenon DEF AskDelete, idVars
    <2>2. CASE drawer' = drawer
      BY <2>1, <2>2, DrawerFrame, Zenon DEF drawerVars
    <2>3. CASE drawer.mode = "editing" /\ drawer' = [drawer EXCEPT !.deleting = "confirming"]
      <3>1. /\ Same(drawer, drawer') /\ drawer'.test = drawer.test /\ drawer'.saving = drawer.saving
        BY <2>3, Shapes, DDeleting, Zenon
      <3>2. drawer.mode # "closed"
        BY <2>3
      <3> QED BY <2>1, <3>1, <3>2, ShapeFrame
    <2> QED BY <2>1, <2>2, <2>3, Zenon
  <1>22. ASSUME CancelDelete PROVE DrawerOk'
    <2>1. /\ drawer' = WithoutDialog
          /\ nextDrawer' = nextDrawer /\ editing' = editing /\ key' = key /\ edits' = edits
      BY <1>22, Zenon DEF CancelDelete, idVars
    <2> QED BY <2>1, WithoutShape, Zenon
  <1>23. ASSUME ConfirmDelete PROVE DrawerOk'
    <2>1. PICK b \in BOOLEAN : b = (drawer.profile = dialog.profile)
      OBVIOUS
    <2>2. /\ drawer' = [drawer EXCEPT !.test = None, !.deleting = IF b THEN "deleting" ELSE @]
          /\ nextDrawer' = nextDrawer /\ editing' = editing /\ key' = key /\ edits' = edits
          /\ dialog # None
      BY <1>23, <2>1, Zenon DEF ConfirmDelete
    <2>3. /\ Same(drawer, drawer') /\ drawer'.test = None /\ drawer'.saving = drawer.saving
          /\ drawer'.deleting = IF b THEN "deleting" ELSE drawer.deleting
      BY <2>2, Shapes, DConfirmed, Zenon
    <2>4. b => drawer.mode # "closed"
      <3>1. b => drawer.profile \in Profile
        BY <2>1, <2>2 DEF WaitOk, DialogOk, Dialog
      <3>2. drawer.profile \in Profile => drawer.mode = "editing"
        BY Shapes, EditorAssumption
      <3> QED BY <3>1, <3>2
    <2>5. drawer'.deleting = drawer.deleting \/ drawer.mode # "closed"
      BY <2>3, <2>4
    <2> QED BY <2>2, <2>3, <2>5, ShapeFrame, Zenon
  <1>24. ASSUME AcceptRead PROVE DrawerOk'
    <2>1. /\ reader # None
          /\ key' = IF owner /\ load = reader.drawer /\ channel = reader.drawer /\ Untouched
                    THEN [kind |-> "saved", of |-> reader.of] ELSE key
          /\ drawer' = drawer /\ editing' = editing /\ edits' = edits /\ nextDrawer' = nextDrawer
      BY <1>24, Zenon DEF AcceptRead
    <2>2. key' \in Key
      <3>1. reader.of \in Ref
        BY <2>1 DEF KeyOk, Reader
      <3>2. [kind |-> "saved", of |-> reader.of] \in Key
        <4>1. PICK p \in Profile, r \in Revision : reader.of = [profile |-> p, revision |-> r]
          BY <3>1 DEF Ref
        <4>2. [kind |-> "saved", of |-> reader.of] = SavedKey(p, r)
          BY <4>1, Zenon DEF SavedKey
        <4> QED BY <4>2 DEF Key
      <3>3. key \in Key
        BY DEF DrawerOk
      <3> QED BY <2>1, <3>2, <3>3, Zenon
    <2> QED BY <2>1, <2>2, Zenon DEF DrawerOk
  <1>25. ASSUME ChannelFails PROVE DrawerOk'
    <2>1. /\ drawer' = ChannelDrawer(drawer)
          /\ editing' = editing /\ key' = key /\ edits' = edits /\ nextDrawer' = nextDrawer
      BY <1>25, Zenon DEF ChannelFails, CloseChannel, ChannelDrawer
    <2> QED BY <2>1, Shapes, ChannelShape, Zenon DEF Same
  <1>26. ASSUME LoadExpires PROVE DrawerOk'
    <2>1. /\ drawer' = ChannelDrawer(drawer)
          /\ editing' = editing /\ key' = key /\ edits' = edits /\ nextDrawer' = nextDrawer
      BY <1>26, Zenon DEF LoadExpires, CloseChannel, ChannelDrawer
    <2> QED BY <2>1, Shapes, ChannelShape, Zenon DEF Same
  <1>27. ASSUME SaveFails PROVE DrawerOk'
    <2>1. /\ drawer' = ChannelDrawer(drawer)
          /\ editing' = editing /\ key' = key /\ edits' = edits /\ nextDrawer' = nextDrawer
      BY <1>27, Zenon DEF SaveFails, CloseChannel, ChannelDrawer
    <2> QED BY <2>1, Shapes, ChannelShape, Zenon DEF Same
  <1>28. ASSUME TestExpires PROVE DrawerOk'
    <2>1. /\ Testing(drawer) /\ drawer' = ChannelDrawer(Tested("failed"))
          /\ editing' = editing /\ key' = key /\ edits' = edits /\ nextDrawer' = nextDrawer
      BY <1>28, Zenon DEF TestExpires, CloseChannel, ChannelDrawer
    <2> QED BY <2>1, TestedShape, ChannelShape, Zenon
  <1>29. ASSUME SendTest PROVE DrawerOk'
    <2>1. /\ drawer.test # None /\ drawer' = [drawer EXCEPT !.test.sent = TRUE]
          /\ editing' = editing /\ key' = key /\ edits' = edits /\ nextDrawer' = nextDrawer
      BY <1>29, Zenon DEF SendTest, Testing, idVars
    <2>2. Same(drawer, drawer') /\ drawer'.saving = drawer.saving /\ drawer'.deleting = drawer.deleting
      BY <2>1, Shapes, DSent, Zenon
    <2> QED BY <2>1, <2>2, ShapeFrame, Zenon
  <1>30. ASSUME TestNotSent PROVE DrawerOk'
    <2>1. /\ Testing(drawer) /\ drawer' = Tested("failed")
          /\ editing' = editing /\ key' = key /\ edits' = edits /\ nextDrawer' = nextDrawer
      BY <1>30, Zenon DEF TestNotSent, idVars
    <2> QED BY <2>1, TestedShape, ShapeFrame, Zenon
  <1>31. ASSUME OtherWindow PROVE DrawerOk'
    BY <1>31, DrawerFrame, Zenon DEF OtherWindow, sidebarVars, drawerVars, idVars
  <1>32. ASSUME NEW r \in host, HostTest(r) PROVE DrawerOk'
    BY <1>32, DrawerFrame, Zenon DEF HostTest, sidebarVars, drawerVars, idVars
  <1>33. ASSUME NEW r \in host, HostModels(r) PROVE DrawerOk'
    BY <1>33, DrawerFrame, Zenon DEF HostModels, sidebarVars, drawerVars, idVars
  <1>34. ASSUME NEW r \in host, HostSave(r) PROVE DrawerOk'
    BY <1>34, DrawerFrame, Zenon DEF HostSave, sidebarVars, drawerVars, idVars
  <1>35. ASSUME NEW r \in host, HostDelete(r) PROVE DrawerOk'
    BY <1>35, DrawerFrame, Zenon DEF HostDelete, sidebarVars, drawerVars, idVars
  <1>36. ASSUME NEW r \in host, HostSwitch(r) PROVE DrawerOk'
    BY <1>36, DrawerFrame, Zenon DEF HostSwitch, sidebarVars, drawerVars, idVars
  <1>37. ASSUME NEW m \in Messages, HandleState(m) PROVE DrawerOk'
    <2>1. PICK sw : ApplyAuthority(m.picture, sw)
      BY <1>37, Zenon DEF HandleState, TakeAuthority
    <2>2. editing' = editing /\ key' = key /\ edits' = edits /\ nextDrawer' = nextDrawer
      BY <1>37, Zenon DEF HandleState, idVars
    <2>3. m.picture.list \in [Profile -> Revision]
      BY <1>37, PictureTyped, Zenon DEF HandleState
    <2> QED BY <2>1, <2>2, <2>3, AuthorityShape, Zenon
  <1>38. ASSUME NEW m \in Messages, HandleSwitched(m) PROVE DrawerOk'
    <2>1. PICK sw : ApplyAuthority(m.picture, sw)
      BY <1>38, Zenon DEF HandleSwitched, TakeAuthority
    <2>2. editing' = editing /\ key' = key /\ edits' = edits /\ nextDrawer' = nextDrawer
      BY <1>38, Zenon DEF HandleSwitched, idVars
    <2>3. m.picture.list \in [Profile -> Revision]
      BY <1>38, PictureTyped, Zenon DEF HandleSwitched
    <2> QED BY <2>1, <2>2, <2>3, AuthorityShape, Zenon
  <1>39. ASSUME NEW m \in Messages, HandleDeleted(m) PROVE DrawerOk'
    <2>1. PICK p : p = m.profile
      OBVIOUS
    <2>2. PICK d : d = IF drawer.mode = "editing" /\ drawer.profile = p THEN Closed ELSE drawer
      OBVIOUS
    <2>3. /\ nextDrawer' = nextDrawer
          /\ \/ drawer' = Closed /\ editing' = None /\ key' = Empty /\ edits' = 0
             \/ drawer' = d /\ editing' = editing /\ key' = key /\ edits' = edits
      BY <1>39, <2>1, <2>2, Zenon DEF HandleDeleted, idVars
    <2>4. CASE drawer' = drawer /\ editing' = editing /\ key' = key /\ edits' = edits
      BY <2>3, <2>4, DrawerFrame, Zenon DEF drawerVars
    <2>5. CASE drawer' = Closed
      <3>1. editing' \in Ref \cup {None} /\ key' \in Key /\ edits' \in 0 .. MaxEdits
        BY <2>3, Untyped, Zenon DEF DrawerOk
      <3> QED BY <2>3, <2>5, <3>1, ClosedIsClosed, ClosedShape, Zenon
    <2> QED BY <2>2, <2>3, <2>4, <2>5, Zenon
  <1>40. ASSUME NEW m \in Messages, HandleRefused(m) PROVE DrawerOk'
    <2>1. /\ drawer' \in {WithoutDialog, drawer}
          /\ nextDrawer' = nextDrawer /\ editing' = editing /\ key' = key /\ edits' = edits
      BY <1>40, Zenon DEF HandleRefused, idVars
    <2>2. CASE drawer' = drawer
      BY <2>1, <2>2, DrawerFrame, Zenon DEF drawerVars
    <2>3. CASE drawer' = WithoutDialog
      BY <2>1, <2>3, WithoutShape, Zenon
    <2> QED BY <2>1, <2>2, <2>3, Zenon
  <1>41. ASSUME NEW m \in Messages, HandleTested(m) PROVE DrawerOk'
    <2>1. /\ \/ Testing(drawer) /\ drawer' = ChannelDrawer(Tested("failed"))
             \/ Testing(drawer) /\ drawer' = Tested("passed")
             \/ Testing(drawer) /\ drawer' = Tested("failed")
             \/ drawer' = drawer
          /\ nextDrawer' = nextDrawer /\ editing' = editing /\ key' = key /\ edits' = edits
      BY <1>41, Zenon DEF HandleTested, CloseChannel, ChannelDrawer
    <2>2. CASE drawer' = drawer
      BY <2>1, <2>2, DrawerFrame, Zenon DEF drawerVars
    <2>3. CASE Testing(drawer) /\ drawer' = ChannelDrawer(Tested("failed"))
      BY <2>1, <2>3, TestedShape, ChannelShape, Zenon
    <2>4. CASE Testing(drawer) /\ drawer' = Tested("passed")
      BY <2>1, <2>4, TestedShape, ShapeFrame, Zenon
    <2>5. CASE Testing(drawer) /\ drawer' = Tested("failed")
      BY <2>1, <2>5, TestedShape, ShapeFrame, Zenon
    <2> QED BY <2>1, <2>2, <2>3, <2>4, <2>5, Zenon
  <1>42. ASSUME NEW m \in Messages, HandleModels(m) PROVE DrawerOk'
    BY <1>42, DrawerFrame, Zenon DEF HandleModels, drawerVars, idVars
  <1>43. ASSUME NEW m \in Messages, HandleSaved(m) PROVE DrawerOk'
    <2>1. /\ nextDrawer' = nextDrawer
          /\ \/ UNCHANGED drawerVars
             \/ drawer' = ChannelDrawer(drawer) /\ editing' = editing /\ key' = key /\ edits' = edits
             \/ drawer' = Closed /\ editing' = None /\ key' = Empty /\ edits' = 0
      BY <1>43, Zenon DEF HandleSaved, CloseChannel, ChannelDrawer
    <2>2. CASE UNCHANGED drawerVars
      BY <2>1, <2>2, DrawerFrame, Zenon
    <2>3. CASE drawer' = ChannelDrawer(drawer) /\ editing' = editing /\ key' = key /\ edits' = edits
      BY <2>1, <2>3, Shapes, ChannelShape, Zenon DEF Same
    <2>4. CASE drawer' = Closed /\ editing' = None /\ key' = Empty /\ edits' = 0
      BY <2>1, <2>4, ClosedIsClosed, ClosedShape, Untyped, Zenon
    <2> QED BY <2>1, <2>2, <2>3, <2>4, Zenon
  <1>44. ASSUME NEW m \in Messages, HandleRevoked(m) PROVE DrawerOk'
    <2>1. /\ drawer' = drawer \/ drawer' = ChannelDrawer(drawer)
          /\ editing' = editing /\ key' = key /\ edits' = edits /\ nextDrawer' = nextDrawer
      BY <1>44, Zenon DEF HandleRevoked, CloseChannel, ChannelDrawer
    <2>2. CASE drawer' = drawer
      BY <2>1, <2>2, DrawerFrame, Zenon DEF drawerVars
    <2>3. CASE drawer' = ChannelDrawer(drawer)
      BY <2>1, <2>3, Shapes, ChannelShape, Zenon DEF Same
    <2> QED BY <2>1, <2>2, <2>3, Zenon
  <1>45. ASSUME HandleUpdate PROVE DrawerOk'
    <2>1. PICK l : /\ l = Shown(stored) /\ UpdateFor(l)
                   /\ UpdateDrops(DrawerAfter(l)) \/ UpdateKeeps(DrawerAfter(l), l)
      BY <1>45, HandleUpdateIs, Zenon DEF RequestOk, DrawerOk
    <2>2. l \in [Profile -> Revision]
      <3>1. stored \in [Profile -> Revision]
        BY DEF ProfilesOk
      <3>2. Shown(stored) \in [Profile -> Revision]
        BY <3>1, ShownTyped
      <3> QED BY <2>1, <3>2, Zenon
    <2>3. PICK d : d = DrawerAfter(l)
      OBVIOUS
    <2>4. Shape(d, nextDrawer) /\ d \in DrawerState
      BY <2>2, <2>3, AfterShape, Zenon DEF Shape
    <2>5. nextDrawer' = nextDrawer
      BY <2>1, Zenon DEF UpdateFor, idVars
    <2>6. CASE UpdateDrops(d)
      <3>1. PICK x \in BOOLEAN : x = (save = None)
        OBVIOUS
      <3>2. /\ drawer' = [d EXCEPT !.saving = @ /\ x] /\ key' = Empty
            /\ editing' \in {editing, None} /\ edits' \in {0, edits}
        BY <2>6, <3>1, Zenon DEF UpdateDrops
      <3>3. /\ Same(d, drawer') /\ drawer'.test = d.test /\ drawer'.deleting = d.deleting
            /\ drawer'.saving = (d.saving /\ x)
        BY <2>4, <3>2, DSaving, Zenon
      <3>4. d.mode # "closed" \/ (drawer'.test = None /\ drawer'.saving = FALSE /\ drawer'.deleting = "no")
        <4>1. d.mode = "closed" => d.test = None /\ d.saving = FALSE /\ d.deleting = "no"
          BY <2>4, Zenon DEF Shape
        <4> QED BY <3>3, <4>1
      <3>5. Shape(drawer', nextDrawer)
        BY <2>4, <3>3, <3>4, ShapeSame, Zenon
      <3>6. editing' \in Ref \cup {None} /\ key' \in Key /\ edits' \in 0 .. MaxEdits
        BY <3>2, Untyped, Zenon DEF DrawerOk
      <3> QED BY <2>5, <3>5, <3>6, Zenon DEF DrawerOk
    <2>7. CASE UpdateKeeps(d, l)
      <3>1. drawer' = d /\ key' = key /\ edits' = edits
        BY <2>7, Zenon DEF UpdateKeeps
      <3>2. editing' \in Ref \cup {None}
        <4>1. \/ editing' = None
              \/ editing' = editing
              \/ editing # None /\ editing' = [profile |-> editing.profile, revision |-> l[editing.profile]]
          BY <2>7, Zenon DEF UpdateKeeps
        <4>2. editing \in Ref \cup {None}
          BY DEF DrawerOk
        <4>3. editing # None => editing.profile \in Profile /\ l[editing.profile] \in Revision
          BY <2>2, <4>2 DEF Ref
        <4> QED BY <4>1, <4>2, <4>3, Untyped, Zenon
      <3> QED BY <2>4, <2>5, <3>1, <3>2, Zenon DEF DrawerOk
    <2> QED BY <2>1, <2>3, <2>6, <2>7, Zenon
  <1> QED BY <1>1, <1>2, <1>3, <1>4, <1>5, <1>6, <1>7, <1>8, <1>9, <1>10, <1>11, <1>12, <1>13,
         <1>14, <1>15, <1>16, <1>17, <1>18, <1>19, <1>20, <1>21, <1>22, <1>23, <1>24,
         <1>25, <1>26, <1>27, <1>28, <1>29, <1>30, <1>31, <1>32, <1>33, <1>34, <1>35,
         <1>36, <1>37, <1>38, <1>39, <1>40, <1>41, <1>42, <1>43, <1>44, <1>45, HeadTyped, Zenon
    DEF Next, User, Editor, Timers, Host, Deliver, QueueOk
-----------------------------------------------------------------------------
(* The key belongs to the drawer. *)

Reads(a, b) == a \in Reader /\ b \in Reader /\ a.drawer = b.drawer /\ a.of = b.of

LEMMA KeyTyped ==
    ASSUME KeyOk
    PROVE  /\ channel \in Drawer /\ load \in Drawer /\ owner \in BOOLEAN /\ reader \in Reader \cup {None}
           /\ load # 0 => reader # None /\ reader.drawer = load /\ channel = load
           /\ reader # None => reader \in Reader /\ reader.drawer \in 1 .. nextDrawer - 1 /\ reader.of \in Ref
  <1>1. reader # None => reader \in Reader
    BY DEF KeyOk
  <1>2. reader # None => reader.of \in Ref
    BY <1>1 DEF Reader
  <1> QED BY <1>1, <1>2, Zenon DEF KeyOk, KeyBelongsToTheDrawer

LEMMA Numbered ==
    \A m, n \in Nat : m <= n => \A i \in 1 .. m - 1 : i \in 1 .. n - 1
  OBVIOUS

LEMMA KeyMoves ==
    ASSUME KeyOk, nextDrawer \in Nat, nextDrawer' \in Nat, nextDrawer <= nextDrawer',
           \/ key'.kind # "saved"
           \/ drawer'.mode = "closed"
           \/ drawer'.validity = "conflict"
           \/ /\ key' = key /\ Same(drawer, drawer')
              /\ drawer'.validity = drawer.validity /\ drawer'.keyEdits = drawer.keyEdits,
           \/ load' = 0
           \/ load' = load /\ channel' = channel /\ (reader # None => reader' # None /\ Reads(reader', reader)),
           \/ reader' = None
           \/ /\ reader # None /\ Reads(reader', reader)
              /\ drawer'.mode = "closed" \/ Same(drawer, drawer'),
           channel' \in Drawer, load' \in Drawer, owner' \in BOOLEAN
    PROVE  KeyOk'
  <1>1. reader' \in Reader \cup {None}
    BY Zenon DEF Reads
  <1>2. reader' # None => reader'.drawer \in 1 .. nextDrawer' - 1
    <2>1. \A i \in 1 .. nextDrawer - 1 : i \in 1 .. nextDrawer' - 1
      BY Numbered, Zenon
    <2>2. reader' # None => reader'.drawer \in 1 .. nextDrawer - 1
      BY KeyTyped, Zenon DEF Reads
    <2> QED BY <2>1, <2>2, Zenon
  <1>3. reader' # None /\ drawer'.mode = "editing" /\ reader'.drawer = drawer'.id =>
          reader'.of = [profile |-> drawer'.profile, revision |-> drawer'.source]
    <2>1. SUFFICES ASSUME reader' # None, drawer'.mode = "editing", reader'.drawer = drawer'.id
                   PROVE  reader'.of = [profile |-> drawer'.profile, revision |-> drawer'.source]
      OBVIOUS
    <2>2. reader # None /\ Reads(reader', reader) /\ Same(drawer, drawer')
      BY <2>1
    <2>3. reader.drawer = drawer.id /\ drawer.mode = "editing"
      BY <2>1, <2>2, Zenon DEF Same, Reads
    <2>4. reader.of = [profile |-> drawer.profile, revision |-> drawer.source]
      BY <2>2, <2>3, Zenon DEF KeyOk
    <2> QED BY <2>2, <2>4, Zenon DEF Reads, Same
  <1>4. load' # 0 => reader' # None /\ reader'.drawer = load' /\ channel' = load'
    <2>1. SUFFICES ASSUME load' # 0
                   PROVE  reader' # None /\ reader'.drawer = load' /\ channel' = load'
      OBVIOUS
    <2>2. load' = load /\ channel' = channel
      BY <2>1, Zenon
    <2>3. reader # None /\ reader.drawer = load /\ channel = load
      BY <2>1, <2>2, KeyTyped, Zenon
    <2>4. reader' # None /\ Reads(reader', reader)
      BY <2>1, <2>3, Zenon
    <2> QED BY <2>2, <2>3, <2>4, Zenon DEF Reads
  <1>5. key'.kind = "saved" /\ drawer'.mode # "closed" /\ drawer'.validity # "conflict" =>
          key' = SavedKey(drawer'.profile, drawer'.source) /\ drawer'.keyEdits = 0
    <2>1. SUFFICES ASSUME key'.kind = "saved", drawer'.mode # "closed", drawer'.validity # "conflict"
                   PROVE  key' = SavedKey(drawer'.profile, drawer'.source) /\ drawer'.keyEdits = 0
      OBVIOUS
    <2>2. /\ key' = key /\ Same(drawer, drawer')
          /\ drawer'.validity = drawer.validity /\ drawer'.keyEdits = drawer.keyEdits
      BY <2>1, Zenon
    <2>3. key.kind = "saved" /\ drawer.mode # "closed" /\ drawer.validity # "conflict"
      BY <2>1, <2>2, Zenon DEF Same
    <2>4. key = SavedKey(drawer.profile, drawer.source) /\ drawer.keyEdits = 0
      BY <2>3, Zenon DEF KeyOk, KeyBelongsToTheDrawer, Conflict
    <2> QED BY <2>2, <2>4, Zenon DEF Same
  <1> QED BY <1>1, <1>2, <1>3, <1>4, <1>5, Zenon DEF KeyOk, KeyBelongsToTheDrawer, Conflict

\* The drawer is the same and nothing is read or loaded otherwise.
LEMMA KeyFrame ==
    ASSUME KeyOk, DrawerOk, UNCHANGED <<keyVars, key, nextDrawer>>, Same(drawer, drawer'),
           drawer'.validity = drawer.validity, drawer'.keyEdits = drawer.keyEdits
    PROVE  KeyOk'
  <1>1. channel' = channel /\ load' = load /\ reader' = reader /\ owner' = owner /\ key' = key /\ nextDrawer' = nextDrawer
    BY Zenon DEF keyVars
  <1>2. reader # None => Reads(reader', reader)
    BY <1>1, KeyTyped, Zenon DEF Reads
  <1>3. nextDrawer \in Nat /\ nextDrawer <= nextDrawer
    BY Shapes
  <1>4. channel' \in Drawer /\ load' \in Drawer /\ owner' \in BOOLEAN
    BY <1>1, KeyTyped, Zenon
  <1> QED BY <1>1, <1>2, <1>3, <1>4, KeyMoves, Zenon

LEMMA KeyUnchanged ==
    ASSUME KeyOk, DrawerOk, UNCHANGED <<keyVars, key, nextDrawer, drawer>>
    PROVE  KeyOk'
  <1>1. Same(drawer, drawer') /\ drawer' = drawer
    BY Shapes, Zenon DEF Same
  <1> QED BY <1>1, KeyFrame, Zenon

\* What was read is forgotten.
LEMMA KeyForgotten ==
    ASSUME KeyOk, DrawerOk, load' = 0, reader' = None, channel' \in Drawer, owner' \in BOOLEAN,
           nextDrawer' = nextDrawer \/ nextDrawer' = nextDrawer + 1,
           \/ key' = Empty
           \/ drawer'.mode = "closed"
           \/ /\ key' = key /\ Same(drawer, drawer')
              /\ drawer'.validity = drawer.validity /\ drawer'.keyEdits = drawer.keyEdits
    PROVE  KeyOk'
  <1>1. nextDrawer \in Nat /\ nextDrawer' \in Nat /\ nextDrawer <= nextDrawer'
    BY Shapes
  <1>2. Empty.kind # "saved"
    BY DEF Empty
  <1>3. load' \in Drawer
    BY EditorAssumption DEF Drawer
  <1> QED BY <1>1, <1>2, <1>3, KeyMoves, Zenon

LEMMA CancelLoadIs ==
    ASSUME CancelLoad
    PROVE  load' = 0 /\ owner' = FALSE /\ auto' = FALSE /\ channel' = 0 /\ reader' = None
             /\ channel' \in Drawer /\ owner' \in BOOLEAN
  <1>1. 0 \in Drawer
    BY EditorAssumption DEF Drawer
  <1> QED BY <1>1, Zenon DEF CancelLoad

\* The channel is closed under a drawer that may have been tested.
LEMMA KeyChannel ==
    ASSUME KeyOk, DrawerOk, NEW d, Same(drawer, d), d.validity = drawer.validity, d.keyEdits = drawer.keyEdits,
           NEW h, CloseChannel(d, h), key' = key, nextDrawer' = nextDrawer
    PROVE  KeyOk'
  <1>1. channel' = 0 /\ reader' = None
    BY Zenon DEF CloseChannel
  <1>2. load' = 0 /\ owner' \in BOOLEAN
    <2>1. CASE reader # None /\ load = reader.drawer
      BY <2>1, Zenon DEF CloseChannel
    <2>2. CASE ~(reader # None /\ load = reader.drawer)
      <3>1. load' = load /\ owner' = owner
        BY <2>2, Zenon DEF CloseChannel
      <3> QED BY <2>2, <3>1, KeyTyped, Zenon
    <2> QED BY <2>1, <2>2
  <1>3. drawer' = ChannelDrawer(d)
    BY Zenon DEF CloseChannel, ChannelDrawer
  <1>4. /\ Same(d, drawer') /\ drawer'.validity = d.validity /\ drawer'.keyEdits = d.keyEdits
    <2>1. d \in DrawerState
      BY Zenon DEF Same
    <2> QED BY <1>3, <2>1, DChannel, Zenon
  <1>5. Same(drawer, drawer')
    BY <1>4, Zenon DEF Same
  <1>6. channel' \in Drawer
    BY <1>1, EditorAssumption DEF Drawer
  <1> QED BY <1>1, <1>2, <1>4, <1>5, <1>6, KeyForgotten, Zenon

\* finishEditorCredentialLoad
LEMMA FinishLoadIs ==
    ASSUME KeyOk, reader # None, NEW d, NEW h, FinishLoad(d, h)
    PROVE  /\ load' = 0 /\ owner' \in BOOLEAN
           /\ FlushModels(d, refresh, h) \/ (auto' = auto /\ refresh' = refresh /\ nextId' = nextId /\ host' = h)
  <1>1. CASE load = reader.drawer
    BY <1>1, Zenon DEF FinishLoad
  <1>2. CASE load # reader.drawer
    <2>1. load' = load /\ owner' = owner /\ auto' = auto /\ refresh' = refresh /\ nextId' = nextId /\ host' = h
      BY <1>2, Zenon DEF FinishLoad
    <2> QED BY <1>2, <2>1, KeyTyped, Zenon
  <1> QED BY <1>1, <1>2

\* The channel is opened for something else than the load.
LEMMA KeyChannelOpens ==
    ASSUME KeyOk, DrawerOk, load = 0, load' = load, channel' = drawer.id, reader' = reader, owner' = owner,
           key' = key, nextDrawer' = nextDrawer, Same(drawer, drawer'),
           drawer'.validity = drawer.validity, drawer'.keyEdits = drawer.keyEdits
    PROVE  KeyOk'
  <1>1. reader # None => Reads(reader', reader)
    BY KeyTyped, Zenon DEF Reads
  <1>2. nextDrawer \in Nat /\ nextDrawer <= nextDrawer
    BY Shapes
  <1>3. channel' \in Drawer /\ load' \in Drawer /\ owner' \in BOOLEAN
    <2>1. drawer.id \in Drawer
      BY Shapes DEF DrawerState
    <2> QED BY <2>1, KeyTyped, Zenon
  <1> QED BY <1>1, <1>2, <1>3, KeyMoves, Zenon

LEMMA KeyAuthority ==
    ASSUME KeyOk, DrawerOk, RequestOk, NEW m, NEW sw, ApplyAuthority(m, sw), m.list \in [Profile -> Revision],
           key' = key, nextDrawer' = nextDrawer, channel' = channel, reader' = reader
    PROVE  KeyOk'
  <1>1. Ignored(m, sw) \/ Applied(m, sw)
    BY ApplyAuthorityIs, Zenon DEF KeyOk, RequestOk
  <1>2. CASE Ignored(m, sw)
    BY <1>2, KeyUnchanged, Zenon DEF Ignored, keyVars
  <1>3. CASE Applied(m, sw)
    <2>1. PICK l \in [Profile -> Revision] : drawer' = DrawerAfter(l)
      <3>1. Shown(m.list) \in [Profile -> Revision]
        BY ShownTyped
      <3> QED BY <1>3, <3>1, Zenon DEF Applied
    <2>2. GoesOn(l, drawer') \/ FallsInConflict(l, drawer') \/ IsClosed(drawer')
      BY <2>1, Shapes, DAfter, Zenon
    <2>3. reader # None => Reads(reader', reader)
      BY KeyTyped, Zenon DEF Reads
    <2>4. nextDrawer \in Nat /\ nextDrawer <= nextDrawer
      BY Shapes
    <2>5. load' \in {0, load} /\ owner' \in {FALSE, owner}
      BY <1>3, Zenon DEF Applied
    <2>6. channel' \in Drawer /\ load' \in Drawer /\ owner' \in BOOLEAN
      <3>1. 0 \in Drawer
        BY EditorAssumption DEF Drawer
      <3> QED BY <2>5, <3>1, KeyTyped, Zenon
    <2>7. drawer'.mode = "closed" \/ Same(drawer, drawer')
      BY <2>2, Zenon DEF GoesOn, FallsInConflict, IsClosed
    <2>8. \/ drawer'.mode = "closed"
          \/ drawer'.validity = "conflict"
          \/ /\ Same(drawer, drawer')
             /\ drawer'.validity = drawer.validity /\ drawer'.keyEdits = drawer.keyEdits
      BY <2>2, Zenon DEF GoesOn, FallsInConflict, IsClosed
    <2>9. load' = 0 \/ load' = load
      BY <2>5, Zenon
    <2> QED BY <2>3, <2>4, <2>6, <2>7, <2>8, <2>9, KeyMoves, Zenon
  <1> QED BY <1>1, <1>2, <1>3
LEMMA KeyStep ==
    ASSUME DrawerOk, ListOk, ProfilesOk, KeyOk, WaitOk, RequestOk, QueueOk, Next
    PROVE  KeyOk'
  <1>1. ASSUME NEW p \in Profile, OpenEditor(p) PROVE KeyOk'
    <2>1. PICK h : Opens1(h) \/ Opens2(p, h) \/ Opens3(p, h)
      BY <1>1, Shapes, OpenEditorIs, Zenon
    <2>2. CASE Opens1(h)
      <3>1. key' = Empty /\ CancelLoad /\ nextDrawer' = nextDrawer
        BY <2>2, Zenon DEF Opens1
      <3> QED BY <3>1, CancelLoadIs, KeyForgotten, Zenon
    <2>3. CASE Opens2(p, h)
      <3>1. PICK n, r : n = nextDrawer /\ r = list[p]
        OBVIOUS
      <3>2. /\ drawer' = Opened("editing", p, r) /\ nextDrawer' = n + 1 /\ key' = Empty /\ owner' = FALSE
            /\ n <= MaxDrawers
            /\ \/ /\ load' = n /\ channel' = n
                  /\ reader' = [drawer |-> n, reading |-> FALSE, of |-> [profile |-> p, revision |-> r]]
               \/ load' = 0 /\ channel' = 0 /\ reader' = None
        BY <2>3, <3>1, Zenon DEF Opens2
      <3>3. CASE load' = 0 /\ channel' = 0 /\ reader' = None
        <4>1. 0 \in Drawer
          BY EditorAssumption DEF Drawer
        <4> QED BY <3>1, <3>2, <3>3, <4>1, KeyForgotten, Zenon
      <3>4. CASE /\ load' = n /\ channel' = n
                 /\ reader' = [drawer |-> n, reading |-> FALSE, of |-> [profile |-> p, revision |-> r]]
        <4>1. PICK o : o = [profile |-> p, revision |-> r]
          OBVIOUS
        <4>2. r \in Revision
          BY <3>1 DEF ListOk
        <4>3. o \in Ref
          BY <4>1, <4>2, Untyped, Zenon
        <4>4. n \in Drawer /\ n \in 1 .. nextDrawer' - 1 /\ n # 0
          BY <3>1, <3>2, Shapes, EditorAssumption DEF Drawer
        <4>5. PICK b : b = [drawer |-> n, reading |-> FALSE, of |-> o]
          OBVIOUS
        <4>6. b \in Reader /\ b.drawer = n /\ b.of = o
          BY <4>3, <4>4, <4>5 DEF Reader
        <4>7. reader' = b
          BY <3>4, <4>1, <4>5, Zenon
        <4>8. b # None
          BY <4>6, EditorAssumption
        <4>9. drawer'.profile = p /\ drawer'.source = r
          <5>1. PICK e : e = Opened("editing", p, r)
            OBVIOUS
          <5>2. e.profile = p /\ e.source = r
            BY <5>1 DEF Opened, Closed
          <5> QED BY <3>2, <5>1, <5>2, Zenon
        <4>10. Empty.kind # "saved"
          BY DEF Empty
        <4>11. KeyBelongsToTheDrawer'
          BY <3>2, <3>4, <4>6, <4>7, <4>8, <4>10, Zenon DEF KeyBelongsToTheDrawer
        <4> QED BY <3>2, <3>4, <4>1, <4>4, <4>6, <4>7, <4>9, <4>11, Zenon DEF KeyOk
      <3> QED BY <3>2, <3>3, <3>4, Zenon
    <2>4. CASE Opens3(p, h)
      <3>1. /\ drawer' = [drawer EXCEPT !.test = None] /\ CancelLoad /\ nextDrawer' = nextDrawer
            /\ key' = key \/ key' = Empty
        BY <2>4, Zenon DEF Opens3
      <3>2. Same(drawer, drawer') /\ drawer'.validity = drawer.validity /\ drawer'.keyEdits = drawer.keyEdits
        BY <3>1, Shapes, DTest, Zenon
      <3> QED BY <3>1, <3>2, CancelLoadIs, KeyForgotten, Zenon
    <2> QED BY <2>1, <2>2, <2>3, <2>4, Zenon
  <1>2. ASSUME OpenNew PROVE KeyOk'
    <2>1. key' = Empty /\ CancelLoad /\ nextDrawer' = nextDrawer + 1
      BY <1>2, Zenon DEF OpenNew
    <2> QED BY <2>1, CancelLoadIs, KeyForgotten, Zenon
  <1>3. ASSUME CloseDrawer PROVE KeyOk'
    <2>1. key' = Empty /\ CancelLoad /\ nextDrawer' = nextDrawer
      BY <1>3, Zenon DEF CloseDrawer, idVars
    <2> QED BY <2>1, CancelLoadIs, KeyForgotten, Zenon
  <1>4. ASSUME EditKind PROVE KeyOk'
    <2>1. key' = Empty /\ CancelLoad /\ nextDrawer' = nextDrawer
      BY <1>4, Zenon DEF EditKind
    <2> QED BY <2>1, CancelLoadIs, KeyForgotten, Zenon
  <1>5. ASSUME EditEndpoint PROVE KeyOk'
    <2>1. drawer' = Edited(FALSE) /\ UNCHANGED <<keyVars, key, nextDrawer>>
      BY <1>5, Zenon DEF EditEndpoint, idVars
    <2> QED BY <2>1, Shapes, DEdited, KeyFrame, Zenon
  <1>6. ASSUME EditRoute PROVE KeyOk'
    <2>1. drawer' = Edited(FALSE) /\ UNCHANGED <<keyVars, key, nextDrawer>>
      BY <1>6, Zenon DEF EditRoute, idVars
    <2> QED BY <2>1, Shapes, DEdited, KeyFrame, Zenon
  <1>7. ASSUME EditModel PROVE KeyOk'
    <2>1. drawer' = Edited(FALSE) /\ UNCHANGED <<keyVars, key, nextDrawer>>
      BY <1>7, Zenon DEF EditModel, idVars
    <2> QED BY <2>1, Shapes, DEdited, KeyFrame, Zenon
  <1>8. ASSUME TypeKey PROVE KeyOk'
    <2>1. /\ drawer' = Edited(TRUE) /\ key' = Typed /\ nextDrawer' = nextDrawer
          /\ channel' = channel /\ load' = load /\ reader' = reader /\ owner' = owner
      BY <1>8, Zenon DEF TypeKey, keyVars, idVars
    <2>2. Same(drawer, drawer')
      BY <2>1, Shapes, DEdited, Zenon
    <2>3. key'.kind # "saved"
      BY <2>1 DEF Typed
    <2>4. reader # None => Reads(reader', reader)
      BY <2>1, KeyTyped, Zenon DEF Reads
    <2>5. nextDrawer \in Nat /\ nextDrawer <= nextDrawer
      BY Shapes
    <2>6. channel' \in Drawer /\ load' \in Drawer /\ owner' \in BOOLEAN
      BY <2>1, KeyTyped, Zenon
    <2> QED BY <2>1, <2>2, <2>3, <2>4, <2>5, <2>6, KeyMoves, Zenon
  <1>9. ASSUME RefreshModels PROVE KeyOk'
    <2>1. /\ load = 0 /\ load' = load /\ channel' = drawer.id /\ reader' = reader /\ owner' = owner
          /\ key' = key /\ nextDrawer' = nextDrawer /\ drawer' = drawer
      BY <1>9, Zenon DEF RefreshModels, CanAsk, drawerVars
    <2>2. Same(drawer, drawer')
      BY <2>1, Shapes, Zenon DEF Same
    <2> QED BY <2>1, <2>2, KeyChannelOpens, Zenon
  <1>10. ASSUME StartTest PROVE KeyOk'
    <2>1. PICK t : t = [id |-> nextId, draft |-> drawer.draft, phase |-> "testing",
                         sent |-> FALSE, of |-> [edits |-> edits, key |-> key]]
      OBVIOUS
    <2>2. /\ nextId <= MaxRequests /\ drawer' = [drawer EXCEPT !.test = t] /\ load = 0
          /\ load' = load /\ channel' = drawer.id /\ reader' = reader /\ owner' = owner
          /\ key' = key /\ nextDrawer' = nextDrawer
      BY <1>10, <2>1, Zenon DEF StartTest, CanAsk
    <2>3. t \in Test
      BY <2>1, <2>2, TestStarts DEF RequestOk
    <2>4. Same(drawer, drawer') /\ drawer'.validity = drawer.validity /\ drawer'.keyEdits = drawer.keyEdits
      BY <2>2, <2>3, Shapes, DTest, Zenon
    <2> QED BY <2>2, <2>4, KeyChannelOpens, Zenon
  <1>11. ASSUME StartSave PROVE KeyOk'
    <2>1. /\ drawer' = [drawer EXCEPT !.submits = @ + 1, !.test = None, !.saving = TRUE] /\ load = 0
          /\ load' = load /\ channel' = drawer.id /\ reader' = reader /\ owner' = owner
          /\ key' = key /\ nextDrawer' = nextDrawer
      BY <1>11, Zenon DEF StartSave, CanAsk
    <2>2. Same(drawer, drawer') /\ drawer'.validity = drawer.validity /\ drawer'.keyEdits = drawer.keyEdits
      BY <2>1, Shapes, DSubmitted, Zenon
    <2> QED BY <2>1, <2>2, KeyChannelOpens, Zenon
  <1>12. ASSUME PageHides PROVE KeyOk'
    <2>1. PICK x \in BOOLEAN : x = (save = None)
      OBVIOUS
    <2>2. /\ drawer' = [drawer EXCEPT !.test = None, !.saving = @ /\ x]
          /\ nextDrawer' = nextDrawer /\ key' = key /\ CancelLoad
      BY <1>12, <2>1, Zenon DEF PageHides, idVars
    <2>3. Same(drawer, drawer') /\ drawer'.validity = drawer.validity /\ drawer'.keyEdits = drawer.keyEdits
      BY <2>2, Shapes, DHidden, Zenon
    <2> QED BY <2>2, <2>3, CancelLoadIs, KeyForgotten, Zenon
  <1>13. ASSUME AskDelete PROVE KeyOk'
    <2>1. /\ drawer' \in {drawer, [drawer EXCEPT !.deleting = "confirming"]}
          /\ UNCHANGED <<keyVars, key, nextDrawer>>
      BY <1>13, Zenon DEF AskDelete, idVars
    <2>2. Same(drawer, drawer') /\ drawer'.validity = drawer.validity /\ drawer'.keyEdits = drawer.keyEdits
      <3>1. CASE drawer' = drawer
        BY <3>1, Shapes, Zenon DEF Same
      <3>2. CASE drawer' = [drawer EXCEPT !.deleting = "confirming"]
        BY <3>2, Shapes, DDeleting, Zenon
      <3> QED BY <2>1, <3>1, <3>2, Zenon
    <2> QED BY <2>1, <2>2, KeyFrame, Zenon
  <1>14. ASSUME CancelDelete PROVE KeyOk'
    <2>1. drawer' = WithoutDialog /\ UNCHANGED <<keyVars, key, nextDrawer>>
      BY <1>14, Zenon DEF CancelDelete, idVars
    <2> QED BY <2>1, Shapes, WithoutIs, KeyFrame, Zenon
  <1>15. ASSUME ConfirmDelete PROVE KeyOk'
    <2>1. PICK b \in BOOLEAN : b = (drawer.profile = dialog.profile)
      OBVIOUS
    <2>2. /\ drawer' = [drawer EXCEPT !.test = None, !.deleting = IF b THEN "deleting" ELSE @]
          /\ UNCHANGED <<keyVars, key, nextDrawer>>
      BY <1>15, <2>1, Zenon DEF ConfirmDelete
    <2> QED BY <2>2, Shapes, DConfirmed, KeyFrame, Zenon
  <1>16. ASSUME NEW p \in Profile, NEW on \in BOOLEAN, Toggle(p, on) PROVE KeyOk'
    BY <1>16, KeyUnchanged, Zenon DEF Toggle, drawerVars, idVars
  <1>17. ASSUME BeginRead PROVE KeyOk'
    <2>1. /\ reader # None /\ drawer' = drawer /\ key' = key /\ nextDrawer' = nextDrawer /\ channel' = channel
      BY <1>17, Zenon DEF BeginRead, drawerVars
    <2>2. Same(drawer, drawer')
      BY <2>1, Shapes, Zenon DEF Same
    <2>3. CASE load = reader.drawer /\ Untouched
      <3>1. load' = load /\ owner' = TRUE /\ reader' = [reader EXCEPT !.reading = TRUE]
        BY <1>17, <2>3, Zenon DEF BeginRead
      <3>2. PICK b : b = [reader EXCEPT !.reading = TRUE]
        OBVIOUS
      <3>3. Reads(b, reader)
        BY <2>1, <3>2, KeyTyped DEF Reads, Reader
      <3>4. b # None
        BY <3>3, EditorAssumption DEF Reads
      <3>5. nextDrawer \in Nat /\ nextDrawer <= nextDrawer
        BY Shapes
      <3>6. channel' \in Drawer /\ load' \in Drawer /\ owner' \in BOOLEAN
        BY <2>1, <3>1, KeyTyped, Zenon
      <3> QED BY <2>1, <2>2, <3>1, <3>2, <3>3, <3>4, <3>5, <3>6, KeyMoves, Zenon
    <2>4. CASE ~(load = reader.drawer /\ Untouched)
      <3>1. reader' = None /\ FinishLoad(drawer, host)
        BY <1>17, <2>4, Zenon DEF BeginRead
      <3>2. load' = 0 /\ owner' \in BOOLEAN
        BY <2>1, <3>1, FinishLoadIs, Zenon
      <3> QED BY <2>1, <2>2, <3>1, <3>2, KeyTyped, KeyForgotten, Zenon
    <2> QED BY <2>3, <2>4
  <1>18. ASSUME AcceptRead PROVE KeyOk'
    <2>1. /\ reader # None /\ reader' = None /\ FinishLoad(drawer, host)
          /\ key' = IF owner /\ load = reader.drawer /\ channel = reader.drawer /\ Untouched
                    THEN [kind |-> "saved", of |-> reader.of] ELSE key
          /\ drawer' = drawer /\ channel' = channel /\ nextDrawer' = nextDrawer
      BY <1>18, Zenon DEF AcceptRead
    <2>2. load' = 0 /\ owner' \in BOOLEAN
      BY <2>1, FinishLoadIs, Zenon
    <2>3. channel' \in Drawer
      BY <2>1, KeyTyped, Zenon
    <2>4. CASE key' = key
      <3>1. Same(drawer, drawer')
        BY <2>1, Shapes, Zenon DEF Same
      <3> QED BY <2>1, <2>2, <2>3, <2>4, <3>1, KeyForgotten, Zenon
    <2>5. CASE Untouched /\ key' = [kind |-> "saved", of |-> reader.of]
      <3>1. drawer.mode = "editing" /\ drawer.id = reader.drawer /\ drawer.keyEdits = 0
        BY <2>5, Zenon DEF Untouched
      <3>2. reader.of = [profile |-> drawer.profile, revision |-> drawer.source]
        BY <2>1, <3>1, Zenon DEF KeyOk
      <3>3. key' = SavedKey(drawer'.profile, drawer'.source) /\ drawer'.keyEdits = 0
        BY <2>1, <2>5, <3>1, <3>2, Zenon DEF SavedKey
      <3>4. KeyBelongsToTheDrawer'
        BY <2>2, <3>3, Zenon DEF KeyBelongsToTheDrawer
      <3>5. load' \in Drawer
        BY <2>2, EditorAssumption DEF Drawer
      <3> QED BY <2>1, <2>2, <2>3, <3>4, <3>5, Zenon DEF KeyOk
    <2> QED BY <2>1, <2>4, <2>5, Zenon
  <1>19. ASSUME ReadFails PROVE KeyOk'
    <2>1. /\ reader # None /\ reader' = None /\ FinishLoad(drawer, host)
          /\ key' = key /\ drawer' = drawer /\ channel' = channel /\ nextDrawer' = nextDrawer
      BY <1>19, Zenon DEF ReadFails, drawerVars
    <2>2. load' = 0 /\ owner' \in BOOLEAN
      BY <2>1, FinishLoadIs, Zenon
    <2>3. channel' \in Drawer
      BY <2>1, KeyTyped, Zenon
    <2>4. Same(drawer, drawer')
      BY <2>1, Shapes, Zenon DEF Same
    <2> QED BY <2>1, <2>2, <2>3, <2>4, KeyForgotten, Zenon
  <1>20. ASSUME ChannelFails PROVE KeyOk'
    <2>1. CloseChannel(drawer, host) /\ key' = key /\ nextDrawer' = nextDrawer
      BY <1>20, Zenon DEF ChannelFails
    <2>2. Same(drawer, drawer)
      BY Shapes, Zenon DEF Same
    <2> QED BY <2>1, <2>2, KeyChannel, Zenon
  <1>21. ASSUME LoadExpires PROVE KeyOk'
    <2>1. CloseChannel(drawer, host) /\ key' = key /\ nextDrawer' = nextDrawer
      BY <1>21, Zenon DEF LoadExpires
    <2>2. Same(drawer, drawer)
      BY Shapes, Zenon DEF Same
    <2> QED BY <2>1, <2>2, KeyChannel, Zenon
  <1>22. ASSUME SaveFails PROVE KeyOk'
    <2>1. CloseChannel(drawer, host) /\ key' = key /\ nextDrawer' = nextDrawer
      BY <1>22, Zenon DEF SaveFails
    <2>2. Same(drawer, drawer)
      BY Shapes, Zenon DEF Same
    <2> QED BY <2>1, <2>2, KeyChannel, Zenon
  <1>23. ASSUME TestExpires PROVE KeyOk'
    <2>1. PICK h : Testing(drawer) /\ CloseChannel(Tested("failed"), h) /\ key' = key /\ nextDrawer' = nextDrawer
      BY <1>23, Zenon DEF TestExpires
    <2> QED BY <2>1, Shapes, TestedIs, KeyChannel, Zenon
  <1>24. ASSUME SendModels PROVE KeyOk'
    BY <1>24, KeyUnchanged, Zenon DEF SendModels, drawerVars, idVars
  <1>25. ASSUME ModelsNotSent PROVE KeyOk'
    BY <1>25, KeyUnchanged, Zenon DEF ModelsNotSent, drawerVars, idVars
  <1>26. ASSUME SendSave PROVE KeyOk'
    BY <1>26, KeyUnchanged, Zenon DEF SendSave, drawerVars, idVars
  <1>27. ASSUME SwitchExpires PROVE KeyOk'
    BY <1>27, KeyUnchanged, Zenon DEF SwitchExpires, drawerVars, idVars
  <1>28. ASSUME EndpointTimer PROVE KeyOk'
    BY <1>28, KeyUnchanged, Zenon DEF EndpointTimer, drawerVars, idVars
  <1>29. ASSUME SendTest PROVE KeyOk'
    <2>1. /\ drawer.test # None /\ drawer' = [drawer EXCEPT !.test.sent = TRUE]
          /\ UNCHANGED <<keyVars, key, nextDrawer>>
      BY <1>29, Zenon DEF SendTest, Testing, idVars
    <2> QED BY <2>1, Shapes, DSent, KeyFrame, Zenon
  <1>30. ASSUME TestNotSent PROVE KeyOk'
    <2>1. /\ Testing(drawer) /\ drawer' = Tested("failed") /\ UNCHANGED <<keyVars, key, nextDrawer>>
      BY <1>30, Zenon DEF TestNotSent, idVars
    <2> QED BY <2>1, Shapes, TestedIs, KeyFrame, Zenon
  <1>31. ASSUME OtherWindow PROVE KeyOk'
    BY <1>31, KeyUnchanged, Zenon DEF OtherWindow, drawerVars, idVars, sidebarVars
  <1>32. ASSUME NEW r \in host, HostTest(r) PROVE KeyOk'
    BY <1>32, KeyUnchanged, Zenon DEF HostTest, drawerVars, idVars, sidebarVars
  <1>33. ASSUME NEW r \in host, HostModels(r) PROVE KeyOk'
    BY <1>33, KeyUnchanged, Zenon DEF HostModels, drawerVars, idVars, sidebarVars
  <1>34. ASSUME NEW r \in host, HostSave(r) PROVE KeyOk'
    BY <1>34, KeyUnchanged, Zenon DEF HostSave, drawerVars, idVars, sidebarVars
  <1>35. ASSUME NEW r \in host, HostDelete(r) PROVE KeyOk'
    BY <1>35, KeyUnchanged, Zenon DEF HostDelete, drawerVars, idVars, sidebarVars
  <1>36. ASSUME NEW r \in host, HostSwitch(r) PROVE KeyOk'
    BY <1>36, KeyUnchanged, Zenon DEF HostSwitch, drawerVars, idVars, sidebarVars
  <1>37. ASSUME NEW m \in Messages, HandleState(m) PROVE KeyOk'
    <2>1. PICK sw : ApplyAuthority(m.picture, sw)
      BY <1>37, Zenon DEF HandleState, TakeAuthority
    <2>2. key' = key /\ nextDrawer' = nextDrawer /\ channel' = channel /\ reader' = reader
      BY <1>37, Zenon DEF HandleState, idVars
    <2>3. m.picture.list \in [Profile -> Revision]
      BY <1>37, PictureTyped, Zenon DEF HandleState
    <2> QED BY <2>1, <2>2, <2>3, KeyAuthority, Zenon
  <1>38. ASSUME NEW m \in Messages, HandleSwitched(m) PROVE KeyOk'
    <2>1. PICK sw : ApplyAuthority(m.picture, sw)
      BY <1>38, Zenon DEF HandleSwitched, TakeAuthority
    <2>2. key' = key /\ nextDrawer' = nextDrawer /\ channel' = channel /\ reader' = reader
      BY <1>38, Zenon DEF HandleSwitched, idVars
    <2>3. m.picture.list \in [Profile -> Revision]
      BY <1>38, PictureTyped, Zenon DEF HandleSwitched
    <2> QED BY <2>1, <2>2, <2>3, KeyAuthority, Zenon
  <1>39. ASSUME NEW m \in Messages, HandleDeleted(m) PROVE KeyOk'
    <2>1. /\ nextDrawer' = nextDrawer
          /\ \/ drawer' = Closed /\ key' = Empty /\ CancelLoad
             \/ drawer' \in {Closed, drawer} /\ UNCHANGED <<keyVars, key>>
      BY <1>39, Zenon DEF HandleDeleted, idVars
    <2>2. CASE key' = Empty /\ CancelLoad
      BY <2>1, <2>2, CancelLoadIs, KeyForgotten, Zenon
    <2>3. CASE drawer' = drawer /\ UNCHANGED <<keyVars, key>>
      BY <2>1, <2>3, KeyUnchanged, Zenon
    <2>4. CASE drawer' = Closed /\ UNCHANGED <<keyVars, key>>
      <3>1. channel' = channel /\ load' = load /\ reader' = reader /\ owner' = owner
        BY <2>4, Zenon DEF keyVars
      <3>2. reader # None => Reads(reader', reader)
        BY <3>1, KeyTyped, Zenon DEF Reads
      <3>3. nextDrawer \in Nat /\ nextDrawer <= nextDrawer
        BY Shapes
      <3>4. channel' \in Drawer /\ load' \in Drawer /\ owner' \in BOOLEAN
        BY <3>1, KeyTyped, Zenon
      <3>5. drawer'.mode = "closed"
        BY <2>4, DClosed, Zenon
      <3> QED BY <2>1, <3>1, <3>2, <3>3, <3>4, <3>5, KeyMoves, Zenon
    <2> QED BY <2>1, <2>2, <2>3, <2>4, Zenon
  <1>40. ASSUME NEW m \in Messages, HandleRefused(m) PROVE KeyOk'
    <2>1. drawer' \in {WithoutDialog, drawer} /\ UNCHANGED <<keyVars, key, nextDrawer>>
      BY <1>40, Zenon DEF HandleRefused, idVars
    <2>2. CASE drawer' = drawer
      BY <2>1, <2>2, KeyUnchanged, Zenon
    <2>3. CASE drawer' = WithoutDialog
      BY <2>1, <2>3, Shapes, WithoutIs, KeyFrame, Zenon
    <2> QED BY <2>1, <2>2, <2>3, Zenon
  <1>41. ASSUME NEW m \in Messages, HandleTested(m) PROVE KeyOk'
    <2>1. /\ key' = key /\ nextDrawer' = nextDrawer
          /\ \/ Testing(drawer) /\ CloseChannel(Tested("failed"), host)
             \/ Testing(drawer) /\ drawer' = Tested("passed") /\ UNCHANGED keyVars
             \/ Testing(drawer) /\ drawer' = Tested("failed") /\ UNCHANGED keyVars
             \/ drawer' = drawer /\ UNCHANGED keyVars
      BY <1>41, Zenon DEF HandleTested
    <2>2. CASE drawer' = drawer /\ UNCHANGED keyVars
      BY <2>1, <2>2, KeyUnchanged, Zenon
    <2>3. CASE Testing(drawer) /\ CloseChannel(Tested("failed"), host)
      BY <2>1, <2>3, Shapes, TestedIs, KeyChannel, Zenon
    <2>4. CASE Testing(drawer) /\ drawer' = Tested("passed") /\ UNCHANGED keyVars
      BY <2>1, <2>4, Shapes, TestedIs, KeyFrame, Zenon
    <2>5. CASE Testing(drawer) /\ drawer' = Tested("failed") /\ UNCHANGED keyVars
      BY <2>1, <2>5, Shapes, TestedIs, KeyFrame, Zenon
    <2> QED BY <2>1, <2>2, <2>3, <2>4, <2>5, Zenon
  <1>42. ASSUME NEW m \in Messages, HandleModels(m) PROVE KeyOk'
    BY <1>42, KeyUnchanged, Zenon DEF HandleModels, drawerVars, idVars
  <1>43. ASSUME NEW m \in Messages, HandleSaved(m) PROVE KeyOk'
    <2>1. /\ nextDrawer' = nextDrawer
          /\ \/ UNCHANGED <<drawer, key, keyVars>>
             \/ CloseChannel(drawer, host) /\ key' = key
             \/ /\ save # None /\ channel' = 0 /\ reader' = None /\ drawer' = Closed /\ key' = Empty
                /\ load' = load /\ owner' = owner
      BY <1>43, Zenon DEF HandleSaved, drawerVars
    <2>2. CASE UNCHANGED <<drawer, key, keyVars>>
      BY <2>1, <2>2, KeyUnchanged, Zenon
    <2>3. CASE CloseChannel(drawer, host) /\ key' = key
      <3>1. Same(drawer, drawer)
        BY Shapes, Zenon DEF Same
      <3> QED BY <2>1, <2>3, <3>1, KeyChannel, Zenon
    <2>4. CASE /\ save # None /\ channel' = 0 /\ reader' = None /\ drawer' = Closed /\ key' = Empty
               /\ load' = load /\ owner' = owner
      <3>1. load' = 0
        BY <2>4, Zenon DEF WaitOk, SaveOk
      <3>2. 0 \in Drawer
        BY EditorAssumption DEF Drawer
      <3> QED BY <2>1, <2>4, <3>1, <3>2, KeyTyped, KeyForgotten, Zenon
    <2> QED BY <2>1, <2>2, <2>3, <2>4, Zenon
  <1>44. ASSUME NEW m \in Messages, HandleRevoked(m) PROVE KeyOk'
    <2>1. /\ nextDrawer' = nextDrawer /\ key' = key
          /\ UNCHANGED <<drawer, keyVars>> \/ CloseChannel(drawer, host)
      BY <1>44, Zenon DEF HandleRevoked
    <2>2. CASE UNCHANGED <<drawer, keyVars>>
      BY <2>1, <2>2, KeyUnchanged, Zenon
    <2>3. CASE CloseChannel(drawer, host)
      <3>1. Same(drawer, drawer)
        BY Shapes, Zenon DEF Same
      <3> QED BY <2>1, <2>3, <3>1, KeyChannel, Zenon
    <2> QED BY <2>1, <2>2, <2>3, Zenon
  <1>45. ASSUME HandleUpdate PROVE KeyOk'
    <2>1. PICK l : /\ l = Shown(stored) /\ UpdateFor(l)
                   /\ UpdateDrops(DrawerAfter(l)) \/ UpdateKeeps(DrawerAfter(l), l)
      BY <1>45, HandleUpdateIs, Zenon DEF RequestOk, DrawerOk
    <2>2. l \in [Profile -> Revision]
      <3>1. stored \in [Profile -> Revision]
        BY DEF ProfilesOk
      <3>2. Shown(stored) \in [Profile -> Revision]
        BY <3>1, ShownTyped
      <3> QED BY <2>1, <3>2, Zenon
    <2>3. PICK d : d = DrawerAfter(l)
      OBVIOUS
    <2>4. GoesOn(l, d) \/ FallsInConflict(l, d) \/ IsClosed(d)
      BY <2>2, <2>3, Shapes, DAfter, Zenon
    <2>5. nextDrawer' = nextDrawer
      BY <2>1, Zenon DEF UpdateFor, idVars
    <2>6. CASE UpdateDrops(d)
      <3>1. key' = Empty /\ CancelLoad
        BY <2>6, Zenon DEF UpdateDrops
      <3> QED BY <2>5, <3>1, CancelLoadIs, KeyForgotten, Zenon
    <2>7. CASE UpdateKeeps(d, l)
      <3>1. drawer' = d /\ UNCHANGED <<keyVars, key>> /\ d.mode # "closed" /\ d.validity # "conflict"
        BY <2>7, Zenon DEF UpdateKeeps
      <3>2. GoesOn(l, d)
        BY <2>4, <3>1, Zenon DEF FallsInConflict, IsClosed
      <3>3. Same(drawer, d) /\ d.validity = drawer.validity /\ d.keyEdits = drawer.keyEdits
        BY <3>2, Zenon DEF GoesOn
      <3> QED BY <2>5, <3>1, <3>3, KeyFrame, Zenon
    <2> QED BY <2>1, <2>3, <2>6, <2>7, Zenon
  <1> QED BY <1>1, <1>2, <1>3, <1>4, <1>5, <1>6, <1>7, <1>8, <1>9, <1>10, <1>11, <1>12, <1>13,
         <1>14, <1>15, <1>16, <1>17, <1>18, <1>19, <1>20, <1>21, <1>22, <1>23, <1>24,
         <1>25, <1>26, <1>27, <1>28, <1>29, <1>30, <1>31, <1>32, <1>33, <1>34, <1>35,
         <1>36, <1>37, <1>38, <1>39, <1>40, <1>41, <1>42, <1>43, <1>44, <1>45, HeadTyped, Zenon
    DEF Next, User, Editor, Timers, Host, Deliver, QueueOk
-----------------------------------------------------------------------------
(* Whatever waits has what ends the wait. *)

\* What an authority that comes alone does to the drawer.
LEMMA AuthorityDrawer ==
    ASSUME DrawerOk, KeyOk, RequestOk, NEW m, NEW sw, ApplyAuthority(m, sw), m.list \in [Profile -> Revision]
    PROVE  /\ switch' \in {sw, None}
           /\ \/ drawer' = drawer /\ dialog' = dialog /\ load' = load
              \/ \E l \in [Profile -> Revision] :
                   /\ drawer' = DrawerAfter(l) /\ dialog' = DialogAfter(l)
                   /\ load' = 0 \/ load' = load
                   /\ GoesOn(l, drawer') \/ FallsInConflict(l, drawer') \/ IsClosed(drawer')
  <1>1. Ignored(m, sw) \/ Applied(m, sw)
    BY ApplyAuthorityIs, Zenon DEF KeyOk, RequestOk
  <1>2. CASE Ignored(m, sw)
    BY <1>2, Zenon DEF Ignored
  <1>3. CASE Applied(m, sw)
    <2>1. /\ drawer' = DrawerAfter(list') /\ dialog' = DialogAfter(list') /\ list' = Shown(m.list)
          /\ switch' \in {sw, None} /\ (load' = 0 \/ load' = load)
      BY <1>3, Zenon DEF Applied
    <2>2. list' \in [Profile -> Revision]
      BY <2>1, ShownTyped, Zenon
    <2>3. GoesOn(list', drawer') \/ FallsInConflict(list', drawer') \/ IsClosed(drawer')
      BY <2>1, <2>2, Shapes, DAfter, Zenon
    <2> QED BY <2>1, <2>2, <2>3, Zenon
  <1> QED BY <1>1, <1>2, <1>3

LEMMA SaveFrame ==
    ASSUME SaveOk, save' = save, locked' = locked, channel' = channel, load' = load \/ load' = 0,
           drawer'.saving = drawer.saving, Same(drawer, drawer')
    PROVE  SaveOk'
  <1>1. drawer'.mode = drawer.mode /\ drawer'.id = drawer.id
    BY Zenon DEF Same
  <1> QED BY <1>1, Zenon DEF SaveOk

LEMMA SaveUnchanged ==
    ASSUME SaveOk, save' = save, locked' = locked, channel' = channel, load' = load \/ load' = 0,
           drawer' = drawer
    PROVE  SaveOk'
  BY Zenon DEF SaveOk

LEMMA SaveFreed ==
    ASSUME save' = None, locked' \in BOOLEAN, drawer'.saving = FALSE
    PROVE  SaveOk'
  BY Zenon DEF SaveOk

\* A drawer that is closed forgets to wait.
LEMMA SaveLeft ==
    ASSUME SaveOk, save' = save, locked' = locked, channel' = channel, load' = load \/ load' = 0,
           IsClosed(drawer')
    PROVE  SaveOk'
  BY Zenon DEF SaveOk, IsClosed

\* Who edits, asks or tests waits for no save.
LEMMA NoSave ==
    ASSUME SaveOk, Shape(drawer, nextDrawer), drawer.mode # "closed", ~drawer.saving \/ ~locked
    PROVE  save = None /\ drawer.saving = FALSE /\ locked \in BOOLEAN
  <1>1. drawer.saving \in BOOLEAN
    BY DEF Shape, DrawerState
  <1>2. ~drawer.saving
    BY Zenon DEF SaveOk
  <1>3. drawer.saving = FALSE
    BY <1>1, <1>2
  <1> QED BY <1>2, <1>3, Zenon DEF SaveOk

LEMMA SaveChannel ==
    ASSUME SaveOk, DrawerOk, NEW d, Same(drawer, d), d.saving = drawer.saving, NEW h, CloseChannel(d, h)
    PROVE  SaveOk'
  <1>1. save' = None /\ locked' = (IF save = None THEN locked ELSE FALSE) /\ drawer' = ChannelDrawer(d)
    BY Zenon DEF CloseChannel, GiveUpSave, ChannelDrawer
  <1>2. locked' \in BOOLEAN
    BY <1>1, Zenon DEF SaveOk
  <1>3. drawer'.saving = (d.saving /\ save = None)
    <2>1. d \in DrawerState
      BY Zenon DEF Same
    <2> QED BY <1>1, <2>1, DChannel, Zenon
  <1>4. drawer.saving \in BOOLEAN /\ (drawer.saving => save # None)
    BY Shapes, Zenon DEF SaveOk
  <1>5. drawer'.saving = FALSE
    BY <1>3, <1>4
  <1> QED BY <1>1, <1>2, <1>5, SaveFreed, Zenon

LEMMA SaveAuthority ==
    ASSUME SaveOk, DrawerOk, KeyOk, RequestOk, NEW m, NEW sw, ApplyAuthority(m, sw),
           m.list \in [Profile -> Revision], save' = save, locked' = locked, channel' = channel
    PROVE  SaveOk'
  <1>1. CASE drawer' = drawer /\ load' = load
    BY <1>1, SaveUnchanged, Zenon
  <1>2. ASSUME NEW l \in [Profile -> Revision], load' = 0 \/ load' = load,
               GoesOn(l, drawer') \/ FallsInConflict(l, drawer') \/ IsClosed(drawer')
        PROVE  SaveOk'
    <2>1. CASE IsClosed(drawer')
      BY <1>2, <2>1, SaveLeft, Zenon
    <2>2. CASE GoesOn(l, drawer') \/ FallsInConflict(l, drawer')
      BY <1>2, <2>2, SaveFrame, Zenon DEF GoesOn, FallsInConflict
    <2> QED BY <1>2, <2>1, <2>2, Zenon
  <1> QED BY <1>1, <1>2, AuthorityDrawer, Zenon


LEMMA Updates ==
    ASSUME DrawerOk, ProfilesOk, RequestOk, HandleUpdate
    PROVE  \E l \in [Profile -> Revision] : 
             /\ l = Shown(stored) /\ UpdateFor(l)
             /\ UpdateDrops(DrawerAfter(l)) \/ UpdateKeeps(DrawerAfter(l), l)
  <1>1. PICK l : /\ l = Shown(stored) /\ UpdateFor(l)
                 /\ UpdateDrops(DrawerAfter(l)) \/ UpdateKeeps(DrawerAfter(l), l)
    BY HandleUpdateIs, Zenon DEF RequestOk, DrawerOk
  <1>2. Shown(stored) \in [Profile -> Revision]
    BY ShownTyped, Zenon DEF ProfilesOk
  <1> QED BY <1>1, <1>2, Zenon

LEMMA SaveStep ==
    ASSUME DrawerOk, ListOk, ProfilesOk, KeyOk, WaitOk, RequestOk, QueueOk, Next
    PROVE  SaveOk'
  <1>1. ASSUME NEW p \in Profile, OpenEditor(p) PROVE SaveOk'
    <2>1. PICK h : Leaves /\ (Opens1(h) \/ Opens2(p, h) \/ Opens3(p, h))
      BY <1>1, Shapes, OpenEditorIs, Zenon
    <2>2. drawer.saving = FALSE /\ save' = None /\ locked' \in BOOLEAN
      BY <2>1, Zenon DEF Leaves, WaitOk, SaveOk
    <2>3. CASE Opens1(h)
      <3>1. drawer' = Closed
        BY <2>3, Zenon DEF Opens1
      <3> QED BY <2>2, <3>1, DClosed, SaveFreed, Zenon
    <2>4. CASE Opens2(p, h)
      <3>1. PICK r : drawer' = Opened("editing", p, r)
        BY <2>4, Zenon DEF Opens2
      <3>2. Opened("editing", p, r).saving = FALSE
        BY DEF Opened, Closed
      <3> QED BY <2>2, <3>1, <3>2, SaveFreed, Zenon
    <2>5. CASE Opens3(p, h)
      <3>1. drawer' = [drawer EXCEPT !.test = None]
        BY <2>5, Zenon DEF Opens3
      <3> QED BY <2>2, <3>1, Shapes, DTest, SaveFreed, Zenon
    <2> QED BY <2>1, <2>3, <2>4, <2>5, Zenon
  <1>2. ASSUME OpenNew PROVE SaveOk'
    <2>1. save' = None /\ locked' = locked /\ drawer' = Opened("new", None, 0)
      BY <1>2, Zenon DEF OpenNew, LeaveDrawer
    <2>2. Opened("new", None, 0).saving = FALSE
      BY DEF Opened, Closed
    <2> QED BY <2>1, <2>2, SaveFreed, Zenon DEF WaitOk, SaveOk
  <1>3. ASSUME CloseDrawer PROVE SaveOk'
    <2>1. save' = None /\ locked' = locked /\ drawer' = Closed
      BY <1>3, Zenon DEF CloseDrawer, LeaveDrawer
    <2> QED BY <2>1, DClosed, SaveFreed, Zenon DEF WaitOk, SaveOk
  <1>4. ASSUME EditKind PROVE SaveOk'
    <2>1. /\ drawer.mode # "closed" /\ ~locked /\ drawer' = Edited(FALSE) /\ save' = save /\ locked' = locked
      BY <1>4, Zenon DEF EditKind, Edit, saveVars
    <2>2. save = None /\ drawer.saving = FALSE /\ locked \in BOOLEAN
      BY <2>1, NoSave, Shapes, Zenon DEF WaitOk
    <2>3. drawer'.saving = drawer.saving
      BY <2>1, Shapes, DEdited, Zenon
    <2> QED BY <2>1, <2>2, <2>3, SaveFreed, Zenon
  <1>5. ASSUME EditEndpoint PROVE SaveOk'
    <2>1. /\ drawer.mode # "closed" /\ ~locked /\ drawer' = Edited(FALSE) /\ save' = save /\ locked' = locked
      BY <1>5, Zenon DEF EditEndpoint, Edit, saveVars
    <2>2. save = None /\ drawer.saving = FALSE /\ locked \in BOOLEAN
      BY <2>1, NoSave, Shapes, Zenon DEF WaitOk
    <2>3. drawer'.saving = drawer.saving
      BY <2>1, Shapes, DEdited, Zenon
    <2> QED BY <2>1, <2>2, <2>3, SaveFreed, Zenon
  <1>6. ASSUME EditRoute PROVE SaveOk'
    <2>1. /\ drawer.mode # "closed" /\ ~locked /\ drawer' = Edited(FALSE) /\ save' = save /\ locked' = locked
      BY <1>6, Zenon DEF EditRoute, Edit, saveVars
    <2>2. save = None /\ drawer.saving = FALSE /\ locked \in BOOLEAN
      BY <2>1, NoSave, Shapes, Zenon DEF WaitOk
    <2>3. drawer'.saving = drawer.saving
      BY <2>1, Shapes, DEdited, Zenon
    <2> QED BY <2>1, <2>2, <2>3, SaveFreed, Zenon
  <1>7. ASSUME EditModel PROVE SaveOk'
    <2>1. /\ drawer.mode # "closed" /\ ~locked /\ drawer' = Edited(FALSE) /\ save' = save /\ locked' = locked
      BY <1>7, Zenon DEF EditModel, Edit, saveVars
    <2>2. save = None /\ drawer.saving = FALSE /\ locked \in BOOLEAN
      BY <2>1, NoSave, Shapes, Zenon DEF WaitOk
    <2>3. drawer'.saving = drawer.saving
      BY <2>1, Shapes, DEdited, Zenon
    <2> QED BY <2>1, <2>2, <2>3, SaveFreed, Zenon
  <1>8. ASSUME TypeKey PROVE SaveOk'
    <2>1. /\ drawer.mode # "closed" /\ ~locked /\ drawer' = Edited(TRUE) /\ save' = save /\ locked' = locked
      BY <1>8, Zenon DEF TypeKey, Edit, saveVars
    <2>2. save = None /\ drawer.saving = FALSE /\ locked \in BOOLEAN
      BY <2>1, NoSave, Shapes, Zenon DEF WaitOk
    <2>3. drawer'.saving = drawer.saving
      BY <2>1, Shapes, DEdited, Zenon
    <2> QED BY <2>1, <2>2, <2>3, SaveFreed, Zenon
  <1>9. ASSUME RefreshModels PROVE SaveOk'
    <2>1. /\ drawer.mode # "closed" /\ ~drawer.saving /\ drawer' = drawer /\ save' = save /\ locked' = locked
      BY <1>9, Zenon DEF RefreshModels, CanAsk, saveVars, drawerVars
    <2>2. save = None /\ drawer.saving = FALSE /\ locked \in BOOLEAN
      BY <2>1, NoSave, Shapes, Zenon DEF WaitOk
    <2> QED BY <2>1, <2>2, SaveFreed, Zenon
  <1>10. ASSUME StartTest PROVE SaveOk'
    <2>1. PICK t : t = [id |-> nextId, draft |-> drawer.draft, phase |-> "testing",
                         sent |-> FALSE, of |-> [edits |-> edits, key |-> key]]
      OBVIOUS
    <2>2. /\ nextId <= MaxRequests /\ drawer' = [drawer EXCEPT !.test = t]
          /\ drawer.mode # "closed" /\ ~drawer.saving /\ save' = save /\ locked' = locked
      BY <1>10, <2>1, Zenon DEF StartTest, CanAsk, saveVars
    <2>3. save = None /\ drawer.saving = FALSE /\ locked \in BOOLEAN
      BY <2>2, NoSave, Shapes, Zenon DEF WaitOk
    <2>4. t \in Test
      BY <2>1, <2>2, TestStarts DEF RequestOk
    <2>5. drawer'.saving = drawer.saving
      BY <2>2, <2>4, Shapes, DTest, Zenon
    <2> QED BY <2>2, <2>3, <2>5, SaveFreed, Zenon
  <1>11. ASSUME StartSave PROVE SaveOk'
    <2>1. /\ drawer' = [drawer EXCEPT !.submits = @ + 1, !.test = None, !.saving = TRUE]
          /\ load = 0 /\ load' = load /\ channel' = drawer.id /\ locked' = TRUE /\ nextId <= MaxRequests
          /\ save' = [id |-> nextId, of |-> editing, drawer |-> drawer.id, sent |-> FALSE]
      BY <1>11, Zenon DEF StartSave, CanAsk
    <2>2. Same(drawer, drawer') /\ drawer'.saving = TRUE
      BY <2>1, Shapes, DSubmitted, Zenon
    <2>3. PICK i, e, o : i = nextId /\ e = editing /\ o = drawer.id
      OBVIOUS
    <2>4. i \in Request
      BY <2>1, <2>3, EditorAssumption DEF RequestOk, Request
    <2>5. e \in Ref \cup {None} /\ o \in Drawer
      <3>1. drawer.id \in Drawer
        BY Shapes DEF DrawerState
      <3> QED BY <2>3, <3>1, Zenon DEF DrawerOk
    <2>6. PICK s : s = [id |-> i, of |-> e, drawer |-> o, sent |-> FALSE]
      OBVIOUS
    <2>7. s \in Save /\ s.drawer = o
      BY <2>4, <2>5, <2>6 DEF Save
    <2>8. save' = s
      BY <2>1, <2>3, <2>6, Zenon
    <2>9. drawer'.id = drawer.id
      BY <2>2, Zenon DEF Same
    <2>10. s # None
      BY <2>7, EditorAssumption
    <2> QED BY <2>1, <2>2, <2>3, <2>7, <2>8, <2>9, <2>10, Zenon DEF SaveOk
  <1>12. ASSUME PageHides PROVE SaveOk'
    <2>1. PICK x \in BOOLEAN : x = (save = None)
      OBVIOUS
    <2>2. /\ drawer' = [drawer EXCEPT !.test = None, !.saving = @ /\ x]
          /\ save' = None /\ locked' = IF save = None THEN locked ELSE FALSE
      BY <1>12, <2>1, Zenon DEF PageHides, GiveUpSave
    <2>3. drawer'.saving = (drawer.saving /\ x)
      BY <2>2, Shapes, DHidden, Zenon
    <2>4. drawer.saving \in BOOLEAN /\ (drawer.saving => save # None)
      BY Shapes, Zenon DEF WaitOk, SaveOk
    <2>5. drawer'.saving = FALSE
      BY <2>1, <2>3, <2>4
    <2>6. locked' \in BOOLEAN
      BY <2>2, Zenon DEF WaitOk, SaveOk
    <2> QED BY <2>2, <2>5, <2>6, SaveFreed, Zenon
  <1>13. ASSUME AskDelete PROVE SaveOk'
    <2>1. /\ drawer' \in {drawer, [drawer EXCEPT !.deleting = "confirming"]}
          /\ save' = save /\ locked' = locked /\ channel' = channel /\ load' = load
      BY <1>13, Zenon DEF AskDelete, saveVars, keyVars
    <2>2. CASE drawer' = drawer
      BY <2>1, <2>2, SaveUnchanged, Zenon DEF WaitOk
    <2>3. CASE drawer' = [drawer EXCEPT !.deleting = "confirming"]
      BY <2>1, <2>3, Shapes, DDeleting, SaveFrame, Zenon DEF WaitOk
    <2> QED BY <2>1, <2>2, <2>3, Zenon
  <1>14. ASSUME CancelDelete PROVE SaveOk'
    <2>1. /\ drawer' = WithoutDialog
          /\ save' = save /\ locked' = locked /\ channel' = channel /\ load' = load
      BY <1>14, Zenon DEF CancelDelete, saveVars, keyVars
    <2> QED BY <2>1, Shapes, WithoutIs, SaveFrame, Zenon DEF WaitOk
  <1>15. ASSUME ConfirmDelete PROVE SaveOk'
    <2>1. PICK b \in BOOLEAN : b = (drawer.profile = dialog.profile)
      OBVIOUS
    <2>2. /\ drawer' = [drawer EXCEPT !.test = None, !.deleting = IF b THEN "deleting" ELSE @]
          /\ save' = save /\ locked' = locked /\ channel' = channel /\ load' = load
      BY <1>15, <2>1, Zenon DEF ConfirmDelete, saveVars, keyVars
    <2> QED BY <2>2, Shapes, DConfirmed, SaveFrame, Zenon DEF WaitOk
  <1>16. ASSUME NEW p \in Profile, NEW on \in BOOLEAN, Toggle(p, on) PROVE SaveOk'
    BY <1>16, SaveUnchanged, Zenon DEF WaitOk, Toggle, drawerVars, keyVars, saveVars, idVars
  <1>17. ASSUME BeginRead PROVE SaveOk'
    <2>1. drawer' = drawer /\ save' = save /\ locked' = locked /\ channel' = channel
      BY <1>17, Zenon DEF BeginRead, drawerVars, saveVars
    <2>2. load' = load \/ load' = 0
      BY <1>17, FinishLoadIs, Zenon DEF BeginRead
    <2> QED BY <2>1, <2>2, SaveUnchanged, Zenon DEF WaitOk
  <1>18. ASSUME AcceptRead PROVE SaveOk'
    <2>1. /\ drawer' = drawer /\ save' = save /\ locked' = locked /\ channel' = channel
          /\ reader # None /\ FinishLoad(drawer, host)
      BY <1>18, Zenon DEF AcceptRead, drawerVars, saveVars
    <2>2. load' = 0
      BY <2>1, FinishLoadIs, Zenon
    <2> QED BY <2>1, <2>2, SaveUnchanged, Zenon DEF WaitOk
  <1>19. ASSUME ReadFails PROVE SaveOk'
    <2>1. /\ drawer' = drawer /\ save' = save /\ locked' = locked /\ channel' = channel
          /\ reader # None /\ FinishLoad(drawer, host)
      BY <1>19, Zenon DEF ReadFails, drawerVars, saveVars
    <2>2. load' = 0
      BY <2>1, FinishLoadIs, Zenon
    <2> QED BY <2>1, <2>2, SaveUnchanged, Zenon DEF WaitOk
  <1>20. ASSUME ChannelFails PROVE SaveOk'
    <2>1. CloseChannel(drawer, host)
      BY <1>20, Zenon DEF ChannelFails
    <2>2. Same(drawer, drawer)
      BY Shapes, Zenon DEF Same
    <2> QED BY <2>1, <2>2, SaveChannel, Zenon DEF WaitOk
  <1>21. ASSUME SendModels PROVE SaveOk'
    BY <1>21, SaveUnchanged, Zenon DEF WaitOk, SendModels, drawerVars, keyVars, saveVars, idVars
  <1>22. ASSUME ModelsNotSent PROVE SaveOk'
    BY <1>22, SaveUnchanged, Zenon DEF WaitOk, ModelsNotSent, drawerVars, keyVars, saveVars, idVars
  <1>23. ASSUME SendTest PROVE SaveOk'
    <2>1. /\ drawer.test # None /\ drawer' = [drawer EXCEPT !.test.sent = TRUE]
          /\ save' = save /\ locked' = locked /\ channel' = channel /\ load' = load
      BY <1>23, Zenon DEF SendTest, Testing, saveVars, keyVars
    <2> QED BY <2>1, Shapes, DSent, SaveFrame, Zenon DEF WaitOk
  <1>24. ASSUME TestNotSent PROVE SaveOk'
    <2>1. /\ Testing(drawer) /\ drawer' = Tested("failed")
          /\ save' = save /\ locked' = locked /\ channel' = channel /\ load' = load
      BY <1>24, Zenon DEF TestNotSent, saveVars, keyVars
    <2> QED BY <2>1, Shapes, TestedIs, SaveFrame, Zenon DEF WaitOk
  <1>25. ASSUME SendSave PROVE SaveOk'
    <2>1. /\ save # None /\ save' = [save EXCEPT !.sent = TRUE]
          /\ locked' = locked /\ channel' = channel /\ load' = load /\ drawer' = drawer
      BY <1>25, Zenon DEF SendSave, keyVars, drawerVars
    <2>2. save \in Save
      BY <2>1, Zenon DEF WaitOk, SaveOk
    <2>3. save' \in Save /\ save'.drawer = save.drawer
      BY <2>1, <2>2 DEF Save
    <2>4. save' # None
      BY <2>3, EditorAssumption
    <2> QED BY <2>1, <2>3, <2>4, Zenon DEF WaitOk, SaveOk
  <1>26. ASSUME LoadExpires PROVE SaveOk'
    <2>1. CloseChannel(drawer, host)
      BY <1>26, Zenon DEF LoadExpires
    <2>2. Same(drawer, drawer)
      BY Shapes, Zenon DEF Same
    <2> QED BY <2>1, <2>2, SaveChannel, Zenon DEF WaitOk
  <1>27. ASSUME EndpointTimer PROVE SaveOk'
    BY <1>27, SaveUnchanged, Zenon DEF WaitOk, EndpointTimer, drawerVars, keyVars, saveVars, idVars
  <1>28. ASSUME TestExpires PROVE SaveOk'
    <2>1. PICK h : Testing(drawer) /\ CloseChannel(Tested("failed"), h)
      BY <1>28, Zenon DEF TestExpires
    <2> QED BY <2>1, Shapes, TestedIs, SaveChannel, Zenon DEF WaitOk
  <1>29. ASSUME SaveFails PROVE SaveOk'
    <2>1. CloseChannel(drawer, host)
      BY <1>29, Zenon DEF SaveFails
    <2>2. Same(drawer, drawer)
      BY Shapes, Zenon DEF Same
    <2> QED BY <2>1, <2>2, SaveChannel, Zenon DEF WaitOk
  <1>30. ASSUME SwitchExpires PROVE SaveOk'
    BY <1>30, SaveUnchanged, Zenon DEF WaitOk, SwitchExpires, drawerVars, keyVars, saveVars, idVars
  <1>31. ASSUME OtherWindow PROVE SaveOk'
    BY <1>31, SaveUnchanged, Zenon DEF WaitOk, OtherWindow, drawerVars, keyVars, saveVars, idVars, sidebarVars
  <1>32. ASSUME NEW r \in host, HostTest(r) PROVE SaveOk'
    BY <1>32, SaveUnchanged, Zenon DEF WaitOk, HostTest, drawerVars, keyVars, saveVars, idVars, sidebarVars
  <1>33. ASSUME NEW r \in host, HostModels(r) PROVE SaveOk'
    BY <1>33, SaveUnchanged, Zenon DEF WaitOk, HostModels, drawerVars, keyVars, saveVars, idVars, sidebarVars
  <1>34. ASSUME NEW r \in host, HostSave(r) PROVE SaveOk'
    BY <1>34, SaveUnchanged, Zenon DEF WaitOk, HostSave, drawerVars, keyVars, saveVars, idVars, sidebarVars
  <1>35. ASSUME NEW r \in host, HostDelete(r) PROVE SaveOk'
    BY <1>35, SaveUnchanged, Zenon DEF WaitOk, HostDelete, drawerVars, keyVars, saveVars, idVars, sidebarVars
  <1>36. ASSUME NEW r \in host, HostSwitch(r) PROVE SaveOk'
    BY <1>36, SaveUnchanged, Zenon DEF WaitOk, HostSwitch, drawerVars, keyVars, saveVars, idVars, sidebarVars
  <1>37. ASSUME NEW m \in Messages, HandleState(m) PROVE SaveOk'
    <2>1. PICK sw : /\ ApplyAuthority(m.picture, sw) /\ m.name \in {"state", "switched"}
                    /\ save' = save /\ locked' = locked /\ channel' = channel
      BY <1>37, Zenon DEF HandleState, TakeAuthority, saveVars
    <2>2. m.picture.list \in [Profile -> Revision]
      BY <2>1, PictureTyped
    <2> QED BY <2>1, <2>2, SaveAuthority, Zenon DEF WaitOk
  <1>38. ASSUME NEW m \in Messages, HandleSwitched(m) PROVE SaveOk'
    <2>1. PICK sw : /\ ApplyAuthority(m.picture, sw) /\ m.name \in {"state", "switched"}
                    /\ save' = save /\ locked' = locked /\ channel' = channel
      BY <1>38, Zenon DEF HandleSwitched, TakeAuthority, saveVars
    <2>2. m.picture.list \in [Profile -> Revision]
      BY <2>1, PictureTyped
    <2> QED BY <2>1, <2>2, SaveAuthority, Zenon DEF WaitOk
  <1>39. ASSUME NEW m \in Messages, HandleDeleted(m) PROVE SaveOk'
    <2>1. /\ locked' = locked
          /\ \/ drawer' = Closed /\ save' = None
             \/ drawer' \in {Closed, drawer} /\ UNCHANGED <<keyVars, save>>
      BY <1>39, Zenon DEF HandleDeleted
    <2>2. CASE drawer' = Closed /\ save' = None
      BY <2>1, <2>2, DClosed, SaveFreed, Zenon DEF WaitOk, SaveOk
    <2>3. CASE drawer' = drawer /\ UNCHANGED <<keyVars, save>>
      BY <2>1, <2>3, SaveUnchanged, Zenon DEF WaitOk, keyVars
    <2>4. CASE drawer' = Closed /\ UNCHANGED <<keyVars, save>>
      BY <2>1, <2>4, ClosedIsClosed, SaveLeft, Zenon DEF WaitOk, keyVars
    <2> QED BY <2>1, <2>2, <2>3, <2>4, Zenon
  <1>40. ASSUME NEW m \in Messages, HandleRefused(m) PROVE SaveOk'
    <2>1. /\ drawer' \in {WithoutDialog, drawer}
          /\ save' = save /\ locked' = locked /\ channel' = channel /\ load' = load
      BY <1>40, Zenon DEF HandleRefused, saveVars, keyVars
    <2>2. CASE drawer' = drawer
      BY <2>1, <2>2, SaveUnchanged, Zenon DEF WaitOk
    <2>3. CASE drawer' = WithoutDialog
      BY <2>1, <2>3, Shapes, WithoutIs, SaveFrame, Zenon DEF WaitOk
    <2> QED BY <2>1, <2>2, <2>3, Zenon
  <1>41. ASSUME NEW m \in Messages, HandleTested(m) PROVE SaveOk'
    <2>1. \/ Testing(drawer) /\ CloseChannel(Tested("failed"), host)
          \/ Testing(drawer) /\ drawer' = Tested("passed") /\ UNCHANGED <<keyVars, saveVars>>
          \/ Testing(drawer) /\ drawer' = Tested("failed") /\ UNCHANGED <<keyVars, saveVars>>
          \/ drawer' = drawer /\ UNCHANGED <<keyVars, saveVars>>
      BY <1>41, Zenon DEF HandleTested
    <2>2. CASE drawer' = drawer /\ UNCHANGED <<keyVars, saveVars>>
      BY <2>2, SaveUnchanged, Zenon DEF WaitOk, keyVars, saveVars
    <2>3. CASE Testing(drawer) /\ CloseChannel(Tested("failed"), host)
      BY <2>3, Shapes, TestedIs, SaveChannel, Zenon DEF WaitOk
    <2>4. CASE Testing(drawer) /\ drawer' = Tested("passed") /\ UNCHANGED <<keyVars, saveVars>>
      BY <2>4, Shapes, TestedIs, SaveFrame, Zenon DEF WaitOk, keyVars, saveVars
    <2>5. CASE Testing(drawer) /\ drawer' = Tested("failed") /\ UNCHANGED <<keyVars, saveVars>>
      BY <2>5, Shapes, TestedIs, SaveFrame, Zenon DEF WaitOk, keyVars, saveVars
    <2> QED BY <2>1, <2>2, <2>3, <2>4, <2>5, Zenon
  <1>42. ASSUME NEW m \in Messages, HandleModels(m) PROVE SaveOk'
    BY <1>42, SaveUnchanged, Zenon DEF WaitOk, HandleModels, drawerVars, keyVars, saveVars, idVars
  <1>43. ASSUME NEW m \in Messages, HandleSaved(m) PROVE SaveOk'
    <2>1. \/ UNCHANGED <<drawer, keyVars, saveVars>>
          \/ CloseChannel(drawer, host)
          \/ save' = None /\ locked' = FALSE /\ drawer' = Closed
      BY <1>43, Zenon DEF HandleSaved, drawerVars
    <2>2. CASE UNCHANGED <<drawer, keyVars, saveVars>>
      BY <2>2, SaveUnchanged, Zenon DEF WaitOk, keyVars, saveVars
    <2>3. CASE CloseChannel(drawer, host)
      <3>1. Same(drawer, drawer)
        BY Shapes, Zenon DEF Same
      <3> QED BY <2>3, <3>1, SaveChannel, Zenon DEF WaitOk
    <2>4. CASE save' = None /\ locked' = FALSE /\ drawer' = Closed
      BY <2>4, DClosed, SaveFreed, Zenon
    <2> QED BY <2>1, <2>2, <2>3, <2>4, Zenon
  <1>44. ASSUME NEW m \in Messages, HandleRevoked(m) PROVE SaveOk'
    <2>1. UNCHANGED <<drawer, keyVars, saveVars>> \/ CloseChannel(drawer, host)
      BY <1>44, Zenon DEF HandleRevoked
    <2>2. CASE UNCHANGED <<drawer, keyVars, saveVars>>
      BY <2>2, SaveUnchanged, Zenon DEF WaitOk, keyVars, saveVars
    <2>3. CASE CloseChannel(drawer, host)
      <3>1. Same(drawer, drawer)
        BY Shapes, Zenon DEF Same
      <3> QED BY <2>3, <3>1, SaveChannel, Zenon DEF WaitOk
    <2> QED BY <2>1, <2>2, <2>3, Zenon
  <1>45. ASSUME HandleUpdate PROVE SaveOk'
    <2>1. PICK l \in [Profile -> Revision] : 
                 /\ UpdateFor(l) /\ (UpdateDrops(DrawerAfter(l)) \/ UpdateKeeps(DrawerAfter(l), l))
      BY <1>45, Updates, Zenon
    <2>2. PICK d : d = DrawerAfter(l)
      OBVIOUS
    <2>3. GoesOn(l, d) \/ FallsInConflict(l, d) \/ IsClosed(d)
      BY <2>2, Shapes, DAfter, Zenon
    <2>4. CASE UpdateDrops(d)
      <3>1. PICK x \in BOOLEAN : x = (save = None)
        OBVIOUS
      <3>2. save' = None /\ locked' \in {locked, FALSE} /\ drawer' = [d EXCEPT !.saving = @ /\ x]
        BY <2>4, <3>1, Zenon DEF UpdateDrops
      <3>3. d \in DrawerState /\ d.saving \in {FALSE, drawer.saving}
        BY <2>3, Zenon DEF GoesOn, FallsInConflict, IsClosed, Same
      <3>4. drawer'.saving = (d.saving /\ x)
        BY <3>2, <3>3, DSaving, Zenon
      <3>5. drawer.saving \in BOOLEAN /\ (drawer.saving => save # None)
        BY Shapes, Zenon DEF WaitOk, SaveOk
      <3>6. drawer'.saving = FALSE
        BY <3>1, <3>3, <3>4, <3>5
      <3> QED BY <3>2, <3>6, SaveFreed, Zenon DEF WaitOk, SaveOk
    <2>5. CASE UpdateKeeps(d, l)
      <3>1. drawer' = d /\ UNCHANGED <<keyVars, saveVars>> /\ d.mode # "closed" /\ d.validity # "conflict"
        BY <2>5, Zenon DEF UpdateKeeps
      <3>2. GoesOn(l, d)
        BY <2>3, <3>1, Zenon DEF FallsInConflict, IsClosed
      <3> QED BY <3>1, <3>2, SaveFrame, Zenon DEF GoesOn, WaitOk, keyVars, saveVars
    <2> QED BY <2>1, <2>2, <2>4, <2>5, Zenon
  <1> QED BY <1>1, <1>2, <1>3, <1>4, <1>5, <1>6, <1>7, <1>8, <1>9, <1>10, <1>11, <1>12, <1>13,
         <1>14, <1>15, <1>16, <1>17, <1>18, <1>19, <1>20, <1>21, <1>22, <1>23, <1>24,
         <1>25, <1>26, <1>27, <1>28, <1>29, <1>30, <1>31, <1>32, <1>33, <1>34, <1>35,
         <1>36, <1>37, <1>38, <1>39, <1>40, <1>41, <1>42, <1>43, <1>44, <1>45, HeadTyped, Zenon
    DEF Next, User, Editor, Timers, Host, Deliver, QueueOk
-----------------------------------------------------------------------------
(* A deletion waits for its dialog, and a switch for its timer. *)

LEMMA DialogFrame ==
    ASSUME DialogOk, dialog' = dialog, drawer'.profile = drawer.profile,
           drawer'.deleting = drawer.deleting \/ drawer'.deleting \in {"no", "confirming"}
    PROVE  DialogOk'
  <1>1. drawer'.deleting = "deleting" => drawer.deleting = "deleting"
    OBVIOUS
  <1> QED BY <1>1, Zenon DEF DialogOk, Deleting

LEMMA DialogUnchanged ==
    ASSUME DialogOk, dialog' = dialog, drawer' = drawer
    PROVE  DialogOk'
  BY Zenon DEF DialogOk, Deleting

LEMMA DialogSame ==
    ASSUME DialogOk, dialog' = dialog, Same(drawer, drawer'), drawer'.deleting = drawer.deleting
    PROVE  DialogOk'
  BY DialogFrame, Zenon DEF Same

LEMMA DialogNot ==
    ASSUME dialog' \in Dialog \cup {None}, drawer'.deleting # "deleting"
    PROVE  DialogOk'
  BY Zenon DEF DialogOk, Deleting

LEMMA DialogClosed ==
    ASSUME DialogOk, dialog' \in {dialog, None}, IsClosed(drawer')
    PROVE  DialogOk'
  <1>1. drawer'.deleting # "deleting"
    BY DEF IsClosed
  <1>2. dialog' \in Dialog \cup {None}
    BY Zenon DEF DialogOk
  <1> QED BY <1>1, <1>2, DialogNot, Zenon

LEMMA DialogChannel ==
    ASSUME DialogOk, NEW d, Same(drawer, d), d.deleting = drawer.deleting, NEW h, CloseChannel(d, h),
           dialog' = dialog
    PROVE  DialogOk'
  <1>1. drawer' = ChannelDrawer(d) /\ d \in DrawerState
    BY Zenon DEF CloseChannel, ChannelDrawer, Same
  <1>2. Same(d, drawer') /\ drawer'.deleting = d.deleting
    BY <1>1, DChannel, Zenon
  <1> QED BY <1>2, DialogFrame, Zenon DEF Same

\* A list may end a deletion.
LEMMA DialogList ==
    ASSUME DialogOk, DrawerOk, NEW l \in [Profile -> Revision], dialog' = DialogAfter(l),
           drawer'.deleting = DrawerAfter(l).deleting, drawer'.profile = DrawerAfter(l).profile
    PROVE  DialogOk'
  <1>1. PICK d : d = DrawerAfter(l)
    OBVIOUS
  <1>2. /\ GoesOn(l, d) \/ FallsInConflict(l, d) \/ IsClosed(d)
        /\ d.deleting = "deleting" =>
                 /\ drawer.deleting = "deleting"
                 /\ ~(dialog # None /\ DialogAfter(l) = None /\ d.profile = dialog.profile)
    BY <1>1, Shapes, DAfter, Zenon
  <1>3. dialog' = dialog \/ dialog' = None
    BY Zenon DEF DialogAfter
  <1>4. dialog' \in Dialog \cup {None}
    BY <1>3, Zenon DEF DialogOk
  <1>5. ASSUME drawer'.deleting = "deleting"
        PROVE  dialog' # None /\ dialog'.profile = drawer'.profile /\ dialog'.id # 0
    <2>1. d.deleting = "deleting" /\ drawer'.profile = d.profile
      BY <1>1, <1>5, Zenon
    <2>2. /\ dialog # None /\ dialog.profile = drawer.profile /\ dialog.id # 0
      BY <1>2, <2>1, Zenon DEF DialogOk, Deleting
    <2>3. d.profile = drawer.profile
      <3>1. "deleting" # "no"
        OBVIOUS
      <3> QED BY <1>2, <2>1, <3>1, Zenon DEF GoesOn, FallsInConflict, Same, IsClosed
    <2>4. dialog' # None
      BY <1>2, <2>1, <2>2, <2>3, Zenon
    <2> QED BY <1>3, <2>1, <2>2, <2>3, <2>4, Zenon
  <1> QED BY <1>4, <1>5, Zenon DEF DialogOk, Deleting

LEMMA DialogAuthority ==
    ASSUME DialogOk, DrawerOk, KeyOk, RequestOk, NEW m, NEW sw, ApplyAuthority(m, sw),
           m.list \in [Profile -> Revision]
    PROVE  DialogOk'
  <1>1. CASE drawer' = drawer /\ dialog' = dialog
    BY <1>1, DialogUnchanged, Zenon
  <1>2. ASSUME NEW l \in [Profile -> Revision], drawer' = DrawerAfter(l), dialog' = DialogAfter(l)
        PROVE  DialogOk'
    BY <1>2, DialogList, Zenon
  <1> QED BY <1>1, <1>2, AuthorityDrawer, Zenon

LEMMA SwitchUnchanged ==
    ASSUME SwitchOk, UNCHANGED switchVars
    PROVE  SwitchOk'
  BY Zenon DEF SwitchOk, switchVars

LEMMA SwitchSettled ==
    ASSUME SwitchOk, switch' = switch \/ switch' = None,
           timers' \in {timers, ArmedTimers}
    PROVE  SwitchOk'
  <1>1. timers' \in SUBSET Request
    BY Zenon DEF SwitchOk, ArmedTimers
  <1>2. switch' # None => switch'.id \in timers'
    <2>1. SUFFICES ASSUME switch' # None PROVE switch'.id \in timers'
      OBVIOUS
    <2>2. switch' = switch /\ switch.id \in timers
      BY <2>1, Zenon DEF SwitchOk
    <2>3. ArmedTimers = timers \cap {switch'.id}
      BY <2>1, Zenon DEF ArmedTimers
    <2> QED BY <2>2, <2>3, Zenon
  <1>3. switch' \in Switch \cup {None}
    BY Zenon DEF SwitchOk
  <1> QED BY <1>1, <1>2, <1>3, Zenon DEF SwitchOk

LEMMA DialogStep ==
    ASSUME DrawerOk, ListOk, ProfilesOk, KeyOk, WaitOk, RequestOk, QueueOk, Next
    PROVE  DialogOk'
  <1>1. ASSUME NEW p \in Profile, OpenEditor(p) PROVE DialogOk'
    <2>1. PICK h : Leaves /\ (Opens1(h) \/ Opens2(p, h) \/ Opens3(p, h))
      BY <1>1, Shapes, OpenEditorIs, Zenon
    <2>2. dialog' = dialog /\ dialog = None /\ drawer.deleting # "deleting"
      BY <2>1, Zenon DEF Leaves, WaitOk, DialogOk, Deleting
    <2>3. CASE Opens1(h)
      <3>1. drawer' = Closed
        BY <2>3, Zenon DEF Opens1
      <3> QED BY <2>2, <3>1, ClosedIsClosed, DialogClosed, Zenon DEF WaitOk
    <2>4. CASE Opens2(p, h)
      <3>1. PICK r : drawer' = Opened("editing", p, r)
        BY <2>4, Zenon DEF Opens2
      <3>2. Opened("editing", p, r).deleting # "deleting"
        BY DEF Opened, Closed
      <3> QED BY <2>2, <3>1, <3>2, DialogNot, Zenon
    <2>5. CASE Opens3(p, h)
      <3>1. drawer' = [drawer EXCEPT !.test = None]
        BY <2>5, Zenon DEF Opens3
      <3> QED BY <2>2, <3>1, Shapes, DTest, DialogSame, Zenon DEF WaitOk
    <2> QED BY <2>1, <2>3, <2>4, <2>5, Zenon
  <1>2. ASSUME OpenNew PROVE DialogOk'
    <2>1. dialog' = dialog /\ dialog = None /\ drawer' = Opened("new", None, 0)
      BY <1>2, Zenon DEF OpenNew, LeaveDrawer, Reachable
    <2>2. Opened("new", None, 0).deleting # "deleting"
      BY DEF Opened, Closed
    <2> QED BY <2>1, <2>2, DialogNot, Zenon
  <1>3. ASSUME CloseDrawer PROVE DialogOk'
    <2>1. dialog' = dialog /\ drawer' = Closed
      BY <1>3, Zenon DEF CloseDrawer
    <2> QED BY <2>1, ClosedIsClosed, DialogClosed, Zenon DEF WaitOk
  <1>4. ASSUME EditKind PROVE DialogOk'
    <2>1. drawer' = Edited(FALSE) /\ dialog' = dialog
      BY <1>4, Zenon DEF EditKind
    <2> QED BY <2>1, Shapes, DEdited, DialogSame, Zenon DEF WaitOk
  <1>5. ASSUME EditEndpoint PROVE DialogOk'
    <2>1. drawer' = Edited(FALSE) /\ dialog' = dialog
      BY <1>5, Zenon DEF EditEndpoint
    <2> QED BY <2>1, Shapes, DEdited, DialogSame, Zenon DEF WaitOk
  <1>6. ASSUME EditRoute PROVE DialogOk'
    <2>1. drawer' = Edited(FALSE) /\ dialog' = dialog
      BY <1>6, Zenon DEF EditRoute
    <2> QED BY <2>1, Shapes, DEdited, DialogSame, Zenon DEF WaitOk
  <1>7. ASSUME EditModel PROVE DialogOk'
    <2>1. drawer' = Edited(FALSE) /\ dialog' = dialog
      BY <1>7, Zenon DEF EditModel
    <2> QED BY <2>1, Shapes, DEdited, DialogSame, Zenon DEF WaitOk
  <1>8. ASSUME TypeKey PROVE DialogOk'
    <2>1. drawer' = Edited(TRUE) /\ dialog' = dialog
      BY <1>8, Zenon DEF TypeKey
    <2> QED BY <2>1, Shapes, DEdited, DialogSame, Zenon DEF WaitOk
  <1>9. ASSUME RefreshModels PROVE DialogOk'
    BY <1>9, DialogUnchanged, Zenon DEF WaitOk, RefreshModels, drawerVars
  <1>10. ASSUME StartTest PROVE DialogOk'
    <2>1. PICK t : t = [id |-> nextId, draft |-> drawer.draft, phase |-> "testing",
                         sent |-> FALSE, of |-> [edits |-> edits, key |-> key]]
      OBVIOUS
    <2>2. nextId <= MaxRequests /\ drawer' = [drawer EXCEPT !.test = t] /\ dialog' = dialog
      BY <1>10, <2>1, Zenon DEF StartTest, CanAsk
    <2>3. t \in Test
      BY <2>1, <2>2, TestStarts DEF RequestOk
    <2> QED BY <2>2, <2>3, Shapes, DTest, DialogSame, Zenon DEF WaitOk
  <1>11. ASSUME StartSave PROVE DialogOk'
    <2>1. drawer' = [drawer EXCEPT !.submits = @ + 1, !.test = None, !.saving = TRUE] /\ dialog' = dialog
      BY <1>11, Zenon DEF StartSave
    <2> QED BY <2>1, Shapes, DSubmitted, DialogSame, Zenon DEF WaitOk
  <1>12. ASSUME PageHides PROVE DialogOk'
    <2>1. PICK x \in BOOLEAN : x = (save = None)
      OBVIOUS
    <2>2. drawer' = [drawer EXCEPT !.test = None, !.saving = @ /\ x] /\ dialog' = dialog
      BY <1>12, <2>1, Zenon DEF PageHides
    <2> QED BY <2>2, Shapes, DHidden, DialogSame, Zenon DEF WaitOk
  <1>13. ASSUME AskDelete PROVE DialogOk'
    <2>1. /\ drawer' \in {drawer, [drawer EXCEPT !.deleting = "confirming"]} /\ dialog = None
          /\ editing # None /\ dialog' = [profile |-> editing.profile, revision |-> editing.revision, id |-> 0]
      BY <1>13, Zenon DEF AskDelete, Reachable
    <2>2. drawer.deleting # "deleting"
      BY <2>1, Zenon DEF WaitOk, DialogOk, Deleting
    <2>3. dialog' \in Dialog
      BY <2>1, EditorAssumption DEF DrawerOk, Ref, Dialog
    <2>4. drawer'.deleting # "deleting"
      <3>1. CASE drawer' = drawer
        BY <2>2, <3>1, Zenon
      <3>2. CASE drawer' = [drawer EXCEPT !.deleting = "confirming"]
        <4>1. drawer'.deleting = "confirming"
          BY <3>2, Shapes, DDeleting, Zenon
        <4> QED BY <4>1
      <3> QED BY <2>1, <3>1, <3>2, Zenon
    <2> QED BY <2>3, <2>4, DialogNot, Zenon
  <1>14. ASSUME CancelDelete PROVE DialogOk'
    <2>1. dialog # None /\ dialog.id = 0 /\ dialog' = None /\ drawer' = WithoutDialog
      BY <1>14, Zenon DEF CancelDelete
    <2>2. drawer.deleting # "deleting"
      BY <2>1, Zenon DEF WaitOk, DialogOk, Deleting
    <2>3. drawer'.deleting \in {"no", drawer.deleting}
      BY <2>1, Shapes, WithoutIs, Zenon
    <2>4. drawer'.deleting # "deleting"
      BY <2>2, <2>3
    <2> QED BY <2>1, <2>4, DialogNot, Zenon
  <1>15. ASSUME ConfirmDelete PROVE DialogOk'
    <2>1. PICK b \in BOOLEAN : b <=> drawer.profile = dialog.profile
      OBVIOUS
    <2>2. /\ drawer' = [drawer EXCEPT !.test = None, !.deleting = IF b THEN "deleting" ELSE @]
          /\ dialog # None /\ dialog' = [dialog EXCEPT !.id = nextId] /\ nextId <= MaxRequests
      BY <1>15, <2>1, Zenon DEF ConfirmDelete
    <2>3. Same(drawer, drawer') /\ drawer'.deleting = (IF b THEN "deleting" ELSE drawer.deleting)
      BY <2>2, Shapes, DConfirmed, Zenon
    <2>4. PICK i : i = nextId
      OBVIOUS
    <2>5. i \in 0 .. MaxRequests /\ i # 0
      BY <2>2, <2>4, EditorAssumption DEF RequestOk
    <2>6. dialog \in Dialog
      BY <2>2, Zenon DEF WaitOk, DialogOk
    <2>7. dialog' \in Dialog /\ dialog'.profile = dialog.profile /\ dialog'.id = i
      BY <2>2, <2>4, <2>5, <2>6 DEF Dialog
    <2>8. dialog' # None
      BY <2>7, EditorAssumption
    <2>9. drawer'.deleting = "deleting" => dialog.profile = drawer.profile
      <3>1. drawer.deleting = "deleting" => dialog.profile = drawer.profile
        BY Zenon DEF WaitOk, DialogOk, Deleting
      <3> QED BY <2>1, <2>3, <3>1, Zenon
    <2> QED BY <2>3, <2>5, <2>7, <2>8, <2>9, Zenon DEF DialogOk, Deleting, Same
  <1>16. ASSUME NEW p \in Profile, NEW on \in BOOLEAN, Toggle(p, on) PROVE DialogOk'
    BY <1>16, DialogUnchanged, Zenon DEF WaitOk, Toggle, drawerVars
  <1>17. ASSUME BeginRead PROVE DialogOk'
    BY <1>17, DialogUnchanged, Zenon DEF WaitOk, BeginRead, drawerVars
  <1>18. ASSUME AcceptRead PROVE DialogOk'
    BY <1>18, DialogUnchanged, Zenon DEF WaitOk, AcceptRead, drawerVars
  <1>19. ASSUME ReadFails PROVE DialogOk'
    BY <1>19, DialogUnchanged, Zenon DEF WaitOk, ReadFails, drawerVars
  <1>20. ASSUME ChannelFails PROVE DialogOk'
    <2>1. CloseChannel(drawer, host) /\ dialog' = dialog
      BY <1>20, Zenon DEF ChannelFails
    <2>2. Same(drawer, drawer)
      BY Shapes, Zenon DEF Same
    <2> QED BY <2>1, <2>2, DialogChannel, Zenon DEF WaitOk
  <1>21. ASSUME SendModels PROVE DialogOk'
    BY <1>21, DialogUnchanged, Zenon DEF WaitOk, SendModels, drawerVars
  <1>22. ASSUME ModelsNotSent PROVE DialogOk'
    BY <1>22, DialogUnchanged, Zenon DEF WaitOk, ModelsNotSent, drawerVars
  <1>23. ASSUME SendTest PROVE DialogOk'
    <2>1. drawer.test # None /\ drawer' = [drawer EXCEPT !.test.sent = TRUE] /\ dialog' = dialog
      BY <1>23, Zenon DEF SendTest, Testing
    <2> QED BY <2>1, Shapes, DSent, DialogSame, Zenon DEF WaitOk
  <1>24. ASSUME TestNotSent PROVE DialogOk'
    <2>1. Testing(drawer) /\ drawer' = Tested("failed") /\ dialog' = dialog
      BY <1>24, Zenon DEF TestNotSent
    <2> QED BY <2>1, Shapes, TestedIs, DialogSame, Zenon DEF WaitOk
  <1>25. ASSUME SendSave PROVE DialogOk'
    BY <1>25, DialogUnchanged, Zenon DEF WaitOk, SendSave, drawerVars
  <1>26. ASSUME LoadExpires PROVE DialogOk'
    <2>1. CloseChannel(drawer, host) /\ dialog' = dialog
      BY <1>26, Zenon DEF LoadExpires
    <2>2. Same(drawer, drawer)
      BY Shapes, Zenon DEF Same
    <2> QED BY <2>1, <2>2, DialogChannel, Zenon DEF WaitOk
  <1>27. ASSUME EndpointTimer PROVE DialogOk'
    BY <1>27, DialogUnchanged, Zenon DEF WaitOk, EndpointTimer, drawerVars
  <1>28. ASSUME TestExpires PROVE DialogOk'
    <2>1. PICK h : Testing(drawer) /\ CloseChannel(Tested("failed"), h) /\ dialog' = dialog
      BY <1>28, Zenon DEF TestExpires
    <2> QED BY <2>1, Shapes, TestedIs, DialogChannel, Zenon DEF WaitOk
  <1>29. ASSUME SaveFails PROVE DialogOk'
    <2>1. CloseChannel(drawer, host) /\ dialog' = dialog
      BY <1>29, Zenon DEF SaveFails
    <2>2. Same(drawer, drawer)
      BY Shapes, Zenon DEF Same
    <2> QED BY <2>1, <2>2, DialogChannel, Zenon DEF WaitOk
  <1>30. ASSUME SwitchExpires PROVE DialogOk'
    BY <1>30, DialogUnchanged, Zenon DEF WaitOk, SwitchExpires, drawerVars
  <1>31. ASSUME OtherWindow PROVE DialogOk'
    BY <1>31, DialogUnchanged, Zenon DEF WaitOk, OtherWindow, drawerVars, sidebarVars
  <1>32. ASSUME NEW r \in host, HostTest(r) PROVE DialogOk'
    BY <1>32, DialogUnchanged, Zenon DEF WaitOk, HostTest, drawerVars, sidebarVars
  <1>33. ASSUME NEW r \in host, HostModels(r) PROVE DialogOk'
    BY <1>33, DialogUnchanged, Zenon DEF WaitOk, HostModels, drawerVars, sidebarVars
  <1>34. ASSUME NEW r \in host, HostSave(r) PROVE DialogOk'
    BY <1>34, DialogUnchanged, Zenon DEF WaitOk, HostSave, drawerVars, sidebarVars
  <1>35. ASSUME NEW r \in host, HostDelete(r) PROVE DialogOk'
    BY <1>35, DialogUnchanged, Zenon DEF WaitOk, HostDelete, drawerVars, sidebarVars
  <1>36. ASSUME NEW r \in host, HostSwitch(r) PROVE DialogOk'
    BY <1>36, DialogUnchanged, Zenon DEF WaitOk, HostSwitch, drawerVars, sidebarVars
  <1>37. ASSUME NEW m \in Messages, HandleState(m) PROVE DialogOk'
    <2>1. PICK sw : ApplyAuthority(m.picture, sw) /\ m.name \in {"state", "switched"}
      BY <1>37, Zenon DEF HandleState, TakeAuthority
    <2>2. m.picture.list \in [Profile -> Revision]
      BY <2>1, PictureTyped
    <2> QED BY <2>1, <2>2, DialogAuthority, Zenon DEF WaitOk
  <1>38. ASSUME NEW m \in Messages, HandleSwitched(m) PROVE DialogOk'
    <2>1. PICK sw : ApplyAuthority(m.picture, sw) /\ m.name \in {"state", "switched"}
      BY <1>38, Zenon DEF HandleSwitched, TakeAuthority
    <2>2. m.picture.list \in [Profile -> Revision]
      BY <2>1, PictureTyped
    <2> QED BY <2>1, <2>2, DialogAuthority, Zenon DEF WaitOk
  <1>39. ASSUME NEW m \in Messages, HandleDeleted(m) PROVE DialogOk'
    <2>1. /\ dialog' = IF dialog # None /\ dialog.profile = m.profile THEN None ELSE dialog
          /\ \/ drawer' = Closed
             \/ drawer' = drawer /\ ~(drawer.mode = "editing" /\ drawer.profile = m.profile)
      BY <1>39, Zenon DEF HandleDeleted
    <2>2. dialog' \in {dialog, None}
      BY <2>1, Zenon
    <2>3. CASE drawer' = Closed
      BY <2>2, <2>3, ClosedIsClosed, DialogClosed, Zenon DEF WaitOk
    <2>4. CASE drawer' = drawer /\ ~(drawer.mode = "editing" /\ drawer.profile = m.profile)
      <3>1. CASE drawer.deleting = "deleting"
        <4>1. dialog # None /\ dialog.profile = drawer.profile /\ dialog \in Dialog
          BY <3>1, Zenon DEF WaitOk, DialogOk, Deleting
        <4>2. dialog.profile \in Profile
          BY <4>1 DEF Dialog
        <4>3. drawer.mode = "editing"
          BY <4>1, <4>2, Shapes, EditorAssumption
        <4>4. dialog' = dialog
          BY <2>1, <2>4, <4>1, <4>3, Zenon
        <4> QED BY <2>4, <4>4, DialogUnchanged, Zenon DEF WaitOk
      <3>2. CASE drawer.deleting # "deleting"
        <4>1. dialog' \in Dialog \cup {None}
          BY <2>2, Zenon DEF WaitOk, DialogOk
        <4> QED BY <2>4, <3>2, <4>1, DialogNot, Zenon
      <3> QED BY <3>1, <3>2
    <2> QED BY <2>1, <2>3, <2>4, Zenon
  <1>40. ASSUME NEW m \in Messages, HandleRefused(m) PROVE DialogOk'
    <2>1. \/ drawer' = drawer /\ dialog' = dialog
          \/ drawer' = WithoutDialog /\ dialog' = None
      BY <1>40, Zenon DEF HandleRefused
    <2>2. CASE drawer' = drawer /\ dialog' = dialog
      BY <2>2, DialogUnchanged, Zenon DEF WaitOk
    <2>3. CASE drawer' = WithoutDialog /\ dialog' = None
      <3>1. /\ drawer'.deleting \in {"no", drawer.deleting}
            /\ drawer.profile = dialog.profile => drawer'.deleting = "no"
        BY <2>3, Shapes, WithoutIs, Zenon
      <3>2. drawer.deleting = "deleting" => dialog.profile = drawer.profile
        BY Zenon DEF WaitOk, DialogOk, Deleting
      <3>3. drawer'.deleting # "deleting"
        BY <3>1, <3>2
      <3> QED BY <2>3, <3>3, DialogNot, Zenon
    <2> QED BY <2>1, <2>2, <2>3, Zenon
  <1>41. ASSUME NEW m \in Messages, HandleTested(m) PROVE DialogOk'
    <2>1. /\ dialog' = dialog
          /\ \/ Testing(drawer) /\ CloseChannel(Tested("failed"), host)
             \/ Testing(drawer) /\ drawer' = Tested("passed")
             \/ Testing(drawer) /\ drawer' = Tested("failed")
             \/ drawer' = drawer
      BY <1>41, Zenon DEF HandleTested
    <2>2. CASE drawer' = drawer
      BY <2>1, <2>2, DialogUnchanged, Zenon DEF WaitOk
    <2>3. CASE Testing(drawer) /\ CloseChannel(Tested("failed"), host)
      BY <2>1, <2>3, Shapes, TestedIs, DialogChannel, Zenon DEF WaitOk
    <2>4. CASE Testing(drawer) /\ drawer' = Tested("passed")
      BY <2>1, <2>4, Shapes, TestedIs, DialogSame, Zenon DEF WaitOk
    <2>5. CASE Testing(drawer) /\ drawer' = Tested("failed")
      BY <2>1, <2>5, Shapes, TestedIs, DialogSame, Zenon DEF WaitOk
    <2> QED BY <2>1, <2>2, <2>3, <2>4, <2>5, Zenon
  <1>42. ASSUME NEW m \in Messages, HandleModels(m) PROVE DialogOk'
    BY <1>42, DialogUnchanged, Zenon DEF WaitOk, HandleModels, drawerVars
  <1>43. ASSUME NEW m \in Messages, HandleSaved(m) PROVE DialogOk'
    <2>1. dialog' = dialog /\ (drawer' = drawer \/ CloseChannel(drawer, host) \/ drawer' = Closed)
      BY <1>43, Zenon DEF HandleSaved, drawerVars
    <2>2. CASE drawer' = drawer
      BY <2>1, <2>2, DialogUnchanged, Zenon DEF WaitOk
    <2>3. CASE CloseChannel(drawer, host)
      <3>1. Same(drawer, drawer)
        BY Shapes, Zenon DEF Same
      <3> QED BY <2>1, <2>3, <3>1, DialogChannel, Zenon DEF WaitOk
    <2>4. CASE drawer' = Closed
      BY <2>1, <2>4, ClosedIsClosed, DialogClosed, Zenon DEF WaitOk
    <2> QED BY <2>1, <2>2, <2>3, <2>4, Zenon
  <1>44. ASSUME NEW m \in Messages, HandleRevoked(m) PROVE DialogOk'
    <2>1. dialog' = dialog /\ (drawer' = drawer \/ CloseChannel(drawer, host))
      BY <1>44, Zenon DEF HandleRevoked
    <2>2. CASE drawer' = drawer
      BY <2>1, <2>2, DialogUnchanged, Zenon DEF WaitOk
    <2>3. CASE CloseChannel(drawer, host)
      <3>1. Same(drawer, drawer)
        BY Shapes, Zenon DEF Same
      <3> QED BY <2>1, <2>3, <3>1, DialogChannel, Zenon DEF WaitOk
    <2> QED BY <2>1, <2>2, <2>3, Zenon
  <1>45. ASSUME HandleUpdate PROVE DialogOk'
    <2>1. PICK l \in [Profile -> Revision] : 
                 /\ UpdateFor(l) /\ (UpdateDrops(DrawerAfter(l)) \/ UpdateKeeps(DrawerAfter(l), l))
      BY <1>45, Updates, Zenon
    <2>2. PICK d : d = DrawerAfter(l)
      OBVIOUS
    <2>3. GoesOn(l, d) \/ FallsInConflict(l, d) \/ IsClosed(d)
      BY <2>2, Shapes, DAfter, Zenon
    <2>4. dialog' = DialogAfter(l)
      BY <2>1, Zenon DEF UpdateFor
    <2>5. CASE UpdateDrops(d)
      <3>1. PICK x \in BOOLEAN : x = (save = None)
        OBVIOUS
      <3>2. drawer' = [d EXCEPT !.saving = @ /\ x]
        BY <2>5, <3>1, Zenon DEF UpdateDrops
      <3>3. d \in DrawerState
        BY <2>3, Zenon DEF GoesOn, FallsInConflict, IsClosed, Same
      <3>4. drawer'.deleting = d.deleting /\ drawer'.profile = d.profile
        BY <3>2, <3>3, DSaving, Zenon DEF Same
      <3> QED BY <2>2, <2>4, <3>4, DialogList, Zenon DEF WaitOk
    <2>6. CASE UpdateKeeps(d, l)
      <3>1. drawer' = d
        BY <2>6, Zenon DEF UpdateKeeps
      <3> QED BY <2>2, <2>4, <3>1, DialogList, Zenon DEF WaitOk
    <2> QED BY <2>1, <2>2, <2>5, <2>6, Zenon
  <1> QED BY <1>1, <1>2, <1>3, <1>4, <1>5, <1>6, <1>7, <1>8, <1>9, <1>10, <1>11, <1>12, <1>13,
         <1>14, <1>15, <1>16, <1>17, <1>18, <1>19, <1>20, <1>21, <1>22, <1>23, <1>24,
         <1>25, <1>26, <1>27, <1>28, <1>29, <1>30, <1>31, <1>32, <1>33, <1>34, <1>35,
         <1>36, <1>37, <1>38, <1>39, <1>40, <1>41, <1>42, <1>43, <1>44, <1>45, HeadTyped, Zenon
    DEF Next, User, Editor, Timers, Host, Deliver, QueueOk

LEMMA SwitchStep ==
    ASSUME DrawerOk, ListOk, ProfilesOk, KeyOk, WaitOk, RequestOk, QueueOk, Next
    PROVE  SwitchOk'
  <1>1. ASSUME NEW p \in Profile, OpenEditor(p) PROVE SwitchOk'
    <2>1. UNCHANGED switchVars
      BY <1>1, Zenon DEF OpenEditor
    <2> QED BY <2>1, SwitchUnchanged, Zenon DEF WaitOk
  <1>2. ASSUME OpenNew PROVE SwitchOk'
    BY <1>2, SwitchUnchanged, Zenon DEF WaitOk, OpenNew
  <1>3. ASSUME CloseDrawer PROVE SwitchOk'
    BY <1>3, SwitchUnchanged, Zenon DEF WaitOk, CloseDrawer
  <1>4. ASSUME EditKind PROVE SwitchOk'
    BY <1>4, SwitchUnchanged, Zenon DEF WaitOk, EditKind
  <1>5. ASSUME EditEndpoint PROVE SwitchOk'
    BY <1>5, SwitchUnchanged, Zenon DEF WaitOk, EditEndpoint
  <1>6. ASSUME EditRoute PROVE SwitchOk'
    BY <1>6, SwitchUnchanged, Zenon DEF WaitOk, EditRoute
  <1>7. ASSUME EditModel PROVE SwitchOk'
    BY <1>7, SwitchUnchanged, Zenon DEF WaitOk, EditModel
  <1>8. ASSUME TypeKey PROVE SwitchOk'
    BY <1>8, SwitchUnchanged, Zenon DEF WaitOk, TypeKey
  <1>9. ASSUME RefreshModels PROVE SwitchOk'
    BY <1>9, SwitchUnchanged, Zenon DEF WaitOk, RefreshModels
  <1>10. ASSUME StartTest PROVE SwitchOk'
    BY <1>10, SwitchUnchanged, Zenon DEF WaitOk, StartTest
  <1>11. ASSUME StartSave PROVE SwitchOk'
    BY <1>11, SwitchUnchanged, Zenon DEF WaitOk, StartSave
  <1>12. ASSUME PageHides PROVE SwitchOk'
    BY <1>12, SwitchUnchanged, Zenon DEF WaitOk, PageHides
  <1>13. ASSUME AskDelete PROVE SwitchOk'
    BY <1>13, SwitchUnchanged, Zenon DEF WaitOk, AskDelete
  <1>14. ASSUME CancelDelete PROVE SwitchOk'
    BY <1>14, SwitchUnchanged, Zenon DEF WaitOk, CancelDelete
  <1>15. ASSUME ConfirmDelete PROVE SwitchOk'
    BY <1>15, SwitchUnchanged, Zenon DEF WaitOk, ConfirmDelete
  <1>16. ASSUME NEW p \in Profile, NEW on \in BOOLEAN, Toggle(p, on) PROVE SwitchOk'
    <2>1. PICK i, k : i = nextId /\ k = known
      OBVIOUS
    <2>2. /\ switch' = [id |-> i, profile |-> p, on |-> on, version |-> k] /\ timers' = timers \cup {i}
          /\ nextId <= MaxRequests
      BY <1>16, <2>1, Zenon DEF Toggle
    <2>3. i \in Request
      BY <2>1, <2>2, EditorAssumption DEF RequestOk, Request
    <2>4. k \in 0 .. MaxVersion
      BY <2>1, Zenon DEF ListOk
    <2>5. switch' \in Switch /\ switch'.id = i
      BY <2>2, <2>3, <2>4 DEF Switch
    <2> QED BY <2>2, <2>3, <2>5, Zenon DEF WaitOk, SwitchOk
  <1>17. ASSUME BeginRead PROVE SwitchOk'
    BY <1>17, SwitchUnchanged, Zenon DEF WaitOk, BeginRead
  <1>18. ASSUME AcceptRead PROVE SwitchOk'
    BY <1>18, SwitchUnchanged, Zenon DEF WaitOk, AcceptRead
  <1>19. ASSUME ReadFails PROVE SwitchOk'
    BY <1>19, SwitchUnchanged, Zenon DEF WaitOk, ReadFails
  <1>20. ASSUME ChannelFails PROVE SwitchOk'
    BY <1>20, SwitchUnchanged, Zenon DEF WaitOk, ChannelFails
  <1>21. ASSUME SendModels PROVE SwitchOk'
    BY <1>21, SwitchUnchanged, Zenon DEF WaitOk, SendModels
  <1>22. ASSUME ModelsNotSent PROVE SwitchOk'
    BY <1>22, SwitchUnchanged, Zenon DEF WaitOk, ModelsNotSent
  <1>23. ASSUME SendTest PROVE SwitchOk'
    BY <1>23, SwitchUnchanged, Zenon DEF WaitOk, SendTest
  <1>24. ASSUME TestNotSent PROVE SwitchOk'
    BY <1>24, SwitchUnchanged, Zenon DEF WaitOk, TestNotSent
  <1>25. ASSUME SendSave PROVE SwitchOk'
    BY <1>25, SwitchUnchanged, Zenon DEF WaitOk, SendSave
  <1>26. ASSUME LoadExpires PROVE SwitchOk'
    BY <1>26, SwitchUnchanged, Zenon DEF WaitOk, LoadExpires
  <1>27. ASSUME EndpointTimer PROVE SwitchOk'
    BY <1>27, SwitchUnchanged, Zenon DEF WaitOk, EndpointTimer
  <1>28. ASSUME TestExpires PROVE SwitchOk'
    BY <1>28, SwitchUnchanged, Zenon DEF WaitOk, TestExpires
  <1>29. ASSUME SaveFails PROVE SwitchOk'
    BY <1>29, SwitchUnchanged, Zenon DEF WaitOk, SaveFails
  <1>30. ASSUME SwitchExpires PROVE SwitchOk'
    <2>1. PICK id \in timers :
             timers' = timers \ {id} /\ switch' = IF switch # None /\ switch.id = id THEN None ELSE switch
      BY <1>30, Zenon DEF SwitchExpires
    <2> QED BY <2>1, Zenon DEF WaitOk, SwitchOk
  <1>31. ASSUME OtherWindow PROVE SwitchOk'
    BY <1>31, SwitchUnchanged, Zenon DEF WaitOk, OtherWindow, sidebarVars
  <1>32. ASSUME NEW r \in host, HostTest(r) PROVE SwitchOk'
    BY <1>32, SwitchUnchanged, Zenon DEF WaitOk, HostTest, sidebarVars
  <1>33. ASSUME NEW r \in host, HostModels(r) PROVE SwitchOk'
    BY <1>33, SwitchUnchanged, Zenon DEF WaitOk, HostModels, sidebarVars
  <1>34. ASSUME NEW r \in host, HostSave(r) PROVE SwitchOk'
    BY <1>34, SwitchUnchanged, Zenon DEF WaitOk, HostSave, sidebarVars
  <1>35. ASSUME NEW r \in host, HostDelete(r) PROVE SwitchOk'
    BY <1>35, SwitchUnchanged, Zenon DEF WaitOk, HostDelete, sidebarVars
  <1>36. ASSUME NEW r \in host, HostSwitch(r) PROVE SwitchOk'
    BY <1>36, SwitchUnchanged, Zenon DEF WaitOk, HostSwitch, sidebarVars
  <1>37. ASSUME NEW m \in Messages, HandleState(m) PROVE SwitchOk'
    <2>1. ApplyAuthority(m.picture, switch) /\ m.name = "state" /\ timers' \in {timers, ArmedTimers}
      BY <1>37, Zenon DEF HandleState, TakeAuthority
    <2>2. m.picture.list \in [Profile -> Revision]
      BY <2>1, PictureTyped
    <2>3. switch' \in {switch, None}
      BY <2>1, <2>2, AuthorityDrawer, Zenon
    <2> QED BY <2>1, <2>3, SwitchSettled, Zenon DEF WaitOk
  <1>38. ASSUME NEW m \in Messages, HandleSwitched(m) PROVE SwitchOk'
    <2>1. PICK sw : /\ sw = (IF switch # None /\ switch.id = m.id THEN None ELSE switch)
                    /\ ApplyAuthority(m.picture, sw) /\ m.name = "switched"
                    /\ timers' = ArmedTimers \ {m.id} \/ timers' = timers \ {m.id}
      BY <1>38, Zenon DEF HandleSwitched
    <2>2. m.picture.list \in [Profile -> Revision]
      BY <2>1, PictureTyped
    <2>3. switch' \in {sw, None}
      BY <2>1, <2>2, AuthorityDrawer, Zenon
    <2>4. timers' \in SUBSET Request
      BY <2>1, Zenon DEF WaitOk, SwitchOk, ArmedTimers
    <2>5. switch' # None => switch'.id \in timers'
      <3>1. SUFFICES ASSUME switch' # None PROVE switch'.id \in timers'
        OBVIOUS
      <3>2. switch' = switch /\ switch.id # m.id
        BY <2>1, <2>3, <3>1, Zenon
      <3>3. switch.id \in timers
        BY <3>1, <3>2, Zenon DEF WaitOk, SwitchOk
      <3>4. ArmedTimers = timers \cap {switch'.id}
        BY <3>1, Zenon DEF ArmedTimers
      <3> QED BY <2>1, <3>2, <3>3, <3>4, Zenon
    <2>6. switch' \in Switch \cup {None}
      BY <2>1, <2>3, Zenon DEF WaitOk, SwitchOk
    <2> QED BY <2>4, <2>5, <2>6, Zenon DEF SwitchOk
  <1>39. ASSUME NEW m \in Messages, HandleDeleted(m) PROVE SwitchOk'
    BY <1>39, SwitchUnchanged, Zenon DEF WaitOk, HandleDeleted
  <1>40. ASSUME NEW m \in Messages, HandleRefused(m) PROVE SwitchOk'
    BY <1>40, SwitchUnchanged, Zenon DEF WaitOk, HandleRefused
  <1>41. ASSUME NEW m \in Messages, HandleTested(m) PROVE SwitchOk'
    BY <1>41, SwitchUnchanged, Zenon DEF WaitOk, HandleTested
  <1>42. ASSUME NEW m \in Messages, HandleModels(m) PROVE SwitchOk'
    BY <1>42, SwitchUnchanged, Zenon DEF WaitOk, HandleModels
  <1>43. ASSUME NEW m \in Messages, HandleSaved(m) PROVE SwitchOk'
    BY <1>43, SwitchUnchanged, Zenon DEF WaitOk, HandleSaved
  <1>44. ASSUME NEW m \in Messages, HandleRevoked(m) PROVE SwitchOk'
    BY <1>44, SwitchUnchanged, Zenon DEF WaitOk, HandleRevoked
  <1>45. ASSUME HandleUpdate PROVE SwitchOk'
    <2>1. PICK l : UpdateFor(l)
      BY <1>45, Updates, Zenon
    <2>2. switch' \in {switch, None} /\ timers' = ArmedTimers
      BY <2>1, Zenon DEF UpdateFor
    <2> QED BY <2>2, SwitchSettled, Zenon DEF WaitOk
  <1> QED BY <1>1, <1>2, <1>3, <1>4, <1>5, <1>6, <1>7, <1>8, <1>9, <1>10, <1>11, <1>12, <1>13,
         <1>14, <1>15, <1>16, <1>17, <1>18, <1>19, <1>20, <1>21, <1>22, <1>23, <1>24,
         <1>25, <1>26, <1>27, <1>28, <1>29, <1>30, <1>31, <1>32, <1>33, <1>34, <1>35,
         <1>36, <1>37, <1>38, <1>39, <1>40, <1>41, <1>42, <1>43, <1>44, <1>45, HeadTyped, Zenon
    DEF Next, User, Editor, Timers, Host, Deliver, QueueOk

LEMMA WaitStep ==
    ASSUME DrawerOk, ListOk, ProfilesOk, KeyOk, WaitOk, RequestOk, QueueOk, Next
    PROVE  WaitOk'
  BY SaveStep, DialogStep, SwitchStep, Zenon DEF WaitOk
-----------------------------------------------------------------------------
(* A test speaks of the draft that is shown. *)

LEMMA TestNone ==
    ASSUME drawer'.test = None
    PROVE  TestOk'
  BY Zenon DEF TestOk, TestTellsTheDraft

LEMMA TestFrame ==
    ASSUME TestOk, edits' = edits, key' = key, load' = load \/ load' = 0, drawer'.validity = drawer.validity,
           drawer'.test # None => drawer.test # None /\ drawer'.test.of = drawer.test.of
    PROVE  TestOk'
  BY Zenon DEF TestOk, TestTellsTheDraft, Conflict

LEMMA TestUnchanged ==
    ASSUME TestOk, edits' = edits, key' = key, load' = load \/ load' = 0, drawer' = drawer
    PROVE  TestOk'
  BY Zenon DEF TestOk, TestTellsTheDraft, Conflict

LEMMA TestClosed ==
    ASSUME IsClosed(drawer')
    PROVE  TestOk'
  BY TestNone, Zenon DEF IsClosed

LEMMA TestEdited ==
    ASSUME TestOk, drawer \in DrawerState, NEW c \in BOOLEAN, drawer' = Edited(c)
    PROVE  TestOk'
  <1>1. CASE Conflict
    <2>1. drawer' = drawer
      BY <1>1, DEdited, Zenon
    <2>2. drawer.test = None
      BY <1>1, Zenon DEF TestOk, TestTellsTheDraft
    <2> QED BY <2>1, <2>2, TestNone, Zenon
  <1>2. CASE ~Conflict
    BY <1>2, DEdited, TestNone, Zenon
  <1> QED BY <1>1, <1>2

LEMMA TestChannel ==
    ASSUME TestOk, KeyOk, DrawerOk, NEW d, Same(drawer, d), d.validity = drawer.validity,
           d.test # None => drawer.test # None /\ d.test.of = drawer.test.of,
           NEW h, CloseChannel(d, h), edits' = edits, key' = key
    PROVE  TestOk'
  <1>1. drawer' = ChannelDrawer(d) /\ d \in DrawerState
    BY Zenon DEF CloseChannel, ChannelDrawer, Same
  <1>2. d \in DrawerState
    BY <1>1
  <1>4. ChannelDrawer(d).validity = d.validity
    BY <1>2, DChannel, Zenon
  <1>5. d.test = None => ChannelDrawer(d).test = None
    BY <1>2, DChannel, Zenon
  <1>6. d.test # None => ChannelDrawer(d).test.of = d.test.of
    BY <1>2, DChannel, Zenon
  <1>3. load' = load \/ load' = 0
    BY Zenon DEF CloseChannel
  <1> QED BY <1>1, <1>3, <1>4, <1>5, <1>6, TestFrame, Zenon

LEMMA TestAuthority ==
    ASSUME TestOk, DrawerOk, KeyOk, RequestOk, NEW m, NEW sw, ApplyAuthority(m, sw),
           m.list \in [Profile -> Revision], edits' = edits, key' = key
    PROVE  TestOk'
  <1>1. CASE drawer' = drawer /\ load' = load
    BY <1>1, TestUnchanged, Zenon
  <1>2. ASSUME NEW l \in [Profile -> Revision], load' = 0 \/ load' = load,
               GoesOn(l, drawer') \/ FallsInConflict(l, drawer') \/ IsClosed(drawer')
        PROVE  TestOk'
    <2>1. CASE IsClosed(drawer') \/ FallsInConflict(l, drawer')
      BY <1>2, <2>1, TestNone, Zenon DEF FallsInConflict, IsClosed
    <2>2. CASE GoesOn(l, drawer')
      BY <1>2, <2>2, TestFrame, Zenon DEF GoesOn
    <2> QED BY <1>2, <2>1, <2>2, Zenon
  <1> QED BY <1>1, <1>2, AuthorityDrawer, Zenon

LEMMA TestStep ==
    ASSUME DrawerOk, ListOk, ProfilesOk, KeyOk, WaitOk, RequestOk, TestOk, QueueOk, Next
    PROVE  TestOk'
  <1>1. ASSUME NEW p \in Profile, OpenEditor(p) PROVE TestOk'
    <2>1. PICK h : Opens1(h) \/ Opens2(p, h) \/ Opens3(p, h)
      BY <1>1, Shapes, OpenEditorIs, Zenon
    <2>2. CASE Opens1(h)
      <3>1. drawer' = Closed
        BY <2>2, Zenon DEF Opens1
      <3> QED BY <3>1, ClosedIsClosed, TestClosed, Zenon
    <2>3. CASE Opens2(p, h)
      <3>1. PICK r : drawer' = Opened("editing", p, r)
        BY <2>3, Zenon DEF Opens2
      <3>2. Opened("editing", p, r).test = None
        BY DEF Opened, Closed
      <3> QED BY <3>1, <3>2, TestNone, Zenon
    <2>4. CASE Opens3(p, h)
      <3>1. drawer' = [drawer EXCEPT !.test = None]
        BY <2>4, Zenon DEF Opens3
      <3> QED BY <3>1, Shapes, DTest, TestNone, Zenon
    <2> QED BY <2>1, <2>2, <2>3, <2>4, Zenon
  <1>2. ASSUME OpenNew PROVE TestOk'
    <2>1. drawer' = Opened("new", None, 0)
      BY <1>2, Zenon DEF OpenNew
    <2>2. Opened("new", None, 0).test = None
      BY DEF Opened, Closed
    <2> QED BY <2>1, <2>2, TestNone, Zenon
  <1>3. ASSUME CloseDrawer PROVE TestOk'
    <2>1. drawer' = Closed
      BY <1>3, Zenon DEF CloseDrawer
    <2> QED BY <2>1, ClosedIsClosed, TestClosed, Zenon
  <1>4. ASSUME EditKind PROVE TestOk'
    <2>1. drawer' = Edited(FALSE)
      BY <1>4, Zenon DEF EditKind
    <2> QED BY <2>1, Shapes, TestEdited, Zenon
  <1>5. ASSUME EditEndpoint PROVE TestOk'
    <2>1. drawer' = Edited(FALSE)
      BY <1>5, Zenon DEF EditEndpoint
    <2> QED BY <2>1, Shapes, TestEdited, Zenon
  <1>6. ASSUME EditRoute PROVE TestOk'
    <2>1. drawer' = Edited(FALSE)
      BY <1>6, Zenon DEF EditRoute
    <2> QED BY <2>1, Shapes, TestEdited, Zenon
  <1>7. ASSUME EditModel PROVE TestOk'
    <2>1. drawer' = Edited(FALSE)
      BY <1>7, Zenon DEF EditModel
    <2> QED BY <2>1, Shapes, TestEdited, Zenon
  <1>8. ASSUME TypeKey PROVE TestOk'
    <2>1. drawer' = Edited(TRUE)
      BY <1>8, Zenon DEF TypeKey
    <2> QED BY <2>1, Shapes, TestEdited, Zenon
  <1>9. ASSUME RefreshModels PROVE TestOk'
    BY <1>9, TestUnchanged, Zenon DEF RefreshModels, drawerVars, keyVars
  <1>10. ASSUME StartTest PROVE TestOk'
    <2>1. PICK o : o = [edits |-> edits, key |-> key]
      OBVIOUS
    <2>2. PICK t : t = [id |-> nextId, draft |-> drawer.draft, phase |-> "testing",
                         sent |-> FALSE, of |-> [edits |-> edits, key |-> key]]
      OBVIOUS
    <2>3. /\ nextId <= MaxRequests /\ drawer' = [drawer EXCEPT !.test = t] /\ edits' = edits /\ key' = key
          /\ load = 0 /\ load' = load /\ ~Conflict
      BY <1>10, <2>2, Zenon DEF StartTest, CanAsk
    <2>4. t \in Test /\ t.of = [edits |-> edits, key |-> key]
      BY <2>2, <2>3, TestStarts DEF RequestOk
    <2>5. drawer'.test = t /\ drawer'.validity = drawer.validity
      BY <2>3, <2>4, Shapes, DTest, Zenon
    <2> QED BY <2>3, <2>4, <2>5, Zenon DEF TestOk, TestTellsTheDraft, Conflict
  <1>11. ASSUME StartSave PROVE TestOk'
    <2>1. drawer' = [drawer EXCEPT !.submits = @ + 1, !.test = None, !.saving = TRUE]
      BY <1>11, Zenon DEF StartSave
    <2> QED BY <2>1, Shapes, DSubmitted, TestNone, Zenon
  <1>12. ASSUME PageHides PROVE TestOk'
    <2>1. PICK x \in BOOLEAN : x = (save = None)
      OBVIOUS
    <2>2. drawer' = [drawer EXCEPT !.test = None, !.saving = @ /\ x]
      BY <1>12, <2>1, Zenon DEF PageHides
    <2> QED BY <2>2, Shapes, DHidden, TestNone, Zenon
  <1>13. ASSUME AskDelete PROVE TestOk'
    <2>1. /\ drawer' \in {drawer, [drawer EXCEPT !.deleting = "confirming"]}
          /\ load' = load /\ edits' = edits /\ key' = key
      BY <1>13, Zenon DEF AskDelete, keyVars
    <2>2. CASE drawer' = drawer
      BY <2>1, <2>2, TestUnchanged, Zenon
    <2>3. CASE drawer' = [drawer EXCEPT !.deleting = "confirming"]
      BY <2>1, <2>3, Shapes, DDeleting, TestFrame, Zenon
    <2> QED BY <2>1, <2>2, <2>3, Zenon
  <1>14. ASSUME CancelDelete PROVE TestOk'
    <2>1. drawer' = WithoutDialog /\ load' = load /\ edits' = edits /\ key' = key
      BY <1>14, Zenon DEF CancelDelete, keyVars
    <2> QED BY <2>1, Shapes, WithoutIs, TestFrame, Zenon
  <1>15. ASSUME ConfirmDelete PROVE TestOk'
    <2>1. PICK b \in BOOLEAN : b = (drawer.profile = dialog.profile)
      OBVIOUS
    <2>2. drawer' = [drawer EXCEPT !.test = None, !.deleting = IF b THEN "deleting" ELSE @]
      BY <1>15, <2>1, Zenon DEF ConfirmDelete
    <2> QED BY <2>2, Shapes, DConfirmed, TestNone, Zenon
  <1>16. ASSUME NEW p \in Profile, NEW on \in BOOLEAN, Toggle(p, on) PROVE TestOk'
    BY <1>16, TestUnchanged, Zenon DEF Toggle, drawerVars, keyVars
  <1>17. ASSUME BeginRead PROVE TestOk'
    <2>1. drawer' = drawer /\ edits' = edits /\ key' = key
      BY <1>17, Zenon DEF BeginRead, drawerVars
    <2>2. load' = load \/ load' = 0
      BY <1>17, FinishLoadIs, Zenon DEF BeginRead
    <2> QED BY <2>1, <2>2, TestUnchanged, Zenon
  <1>18. ASSUME AcceptRead PROVE TestOk'
    <2>1. /\ drawer' = drawer /\ edits' = edits /\ reader # None /\ FinishLoad(drawer, host)
          /\ key' = key \/ load = reader.drawer
      BY <1>18, Zenon DEF AcceptRead
    <2>2. load' = 0
      BY <2>1, FinishLoadIs, Zenon
    <2>3. CASE key' = key
      BY <2>1, <2>2, <2>3, TestUnchanged, Zenon
    <2>4. CASE load = reader.drawer
      <3>1. 0 \notin 1 .. nextDrawer - 1
        BY Shapes
      <3>2. load # 0
        BY <2>1, <2>4, <3>1, KeyTyped, Zenon
      <3> QED BY <2>1, <3>2, TestNone, Zenon DEF TestOk
    <2> QED BY <2>1, <2>3, <2>4, Zenon
  <1>19. ASSUME ReadFails PROVE TestOk'
    <2>1. drawer' = drawer /\ edits' = edits /\ key' = key /\ reader # None /\ FinishLoad(drawer, host)
      BY <1>19, Zenon DEF ReadFails, drawerVars
    <2>2. load' = 0
      BY <2>1, FinishLoadIs, Zenon
    <2> QED BY <2>1, <2>2, TestUnchanged, Zenon
  <1>20. ASSUME ChannelFails PROVE TestOk'
    <2>1. CloseChannel(drawer, host) /\ edits' = edits /\ key' = key
      BY <1>20, Zenon DEF ChannelFails
    <2>2. Same(drawer, drawer)
      BY Shapes, Zenon DEF Same
    <2> QED BY <2>1, <2>2, TestChannel, Zenon
  <1>21. ASSUME SendModels PROVE TestOk'
    BY <1>21, TestUnchanged, Zenon DEF SendModels, drawerVars, keyVars
  <1>22. ASSUME ModelsNotSent PROVE TestOk'
    BY <1>22, TestUnchanged, Zenon DEF ModelsNotSent, drawerVars, keyVars
  <1>23. ASSUME SendTest PROVE TestOk'
    <2>1. /\ drawer.test # None /\ drawer' = [drawer EXCEPT !.test.sent = TRUE]
          /\ load' = load /\ edits' = edits /\ key' = key
      BY <1>23, Zenon DEF SendTest, Testing, keyVars
    <2> QED BY <2>1, Shapes, DSent, TestFrame, Zenon
  <1>24. ASSUME TestNotSent PROVE TestOk'
    <2>1. /\ Testing(drawer) /\ drawer' = Tested("failed")
          /\ load' = load /\ edits' = edits /\ key' = key
      BY <1>24, Zenon DEF TestNotSent, keyVars
    <2> QED BY <2>1, Shapes, TestedIs, TestFrame, Zenon
  <1>25. ASSUME SendSave PROVE TestOk'
    BY <1>25, TestUnchanged, Zenon DEF SendSave, drawerVars, keyVars
  <1>26. ASSUME LoadExpires PROVE TestOk'
    <2>1. CloseChannel(drawer, host) /\ edits' = edits /\ key' = key
      BY <1>26, Zenon DEF LoadExpires
    <2>2. Same(drawer, drawer)
      BY Shapes, Zenon DEF Same
    <2> QED BY <2>1, <2>2, TestChannel, Zenon
  <1>27. ASSUME EndpointTimer PROVE TestOk'
    BY <1>27, TestUnchanged, Zenon DEF EndpointTimer, drawerVars, keyVars
  <1>28. ASSUME TestExpires PROVE TestOk'
    <2>1. PICK h : Testing(drawer) /\ CloseChannel(Tested("failed"), h) /\ edits' = edits /\ key' = key
      BY <1>28, Zenon DEF TestExpires
    <2> QED BY <2>1, Shapes, TestedIs, TestChannel, Zenon
  <1>29. ASSUME SaveFails PROVE TestOk'
    <2>1. CloseChannel(drawer, host) /\ edits' = edits /\ key' = key
      BY <1>29, Zenon DEF SaveFails
    <2>2. Same(drawer, drawer)
      BY Shapes, Zenon DEF Same
    <2> QED BY <2>1, <2>2, TestChannel, Zenon
  <1>30. ASSUME SwitchExpires PROVE TestOk'
    BY <1>30, TestUnchanged, Zenon DEF SwitchExpires, drawerVars, keyVars
  <1>31. ASSUME OtherWindow PROVE TestOk'
    BY <1>31, TestUnchanged, Zenon DEF OtherWindow, drawerVars, keyVars, sidebarVars
  <1>32. ASSUME NEW r \in host, HostTest(r) PROVE TestOk'
    BY <1>32, TestUnchanged, Zenon DEF HostTest, drawerVars, keyVars, sidebarVars
  <1>33. ASSUME NEW r \in host, HostModels(r) PROVE TestOk'
    BY <1>33, TestUnchanged, Zenon DEF HostModels, drawerVars, keyVars, sidebarVars
  <1>34. ASSUME NEW r \in host, HostSave(r) PROVE TestOk'
    BY <1>34, TestUnchanged, Zenon DEF HostSave, drawerVars, keyVars, sidebarVars
  <1>35. ASSUME NEW r \in host, HostDelete(r) PROVE TestOk'
    BY <1>35, TestUnchanged, Zenon DEF HostDelete, drawerVars, keyVars, sidebarVars
  <1>36. ASSUME NEW r \in host, HostSwitch(r) PROVE TestOk'
    BY <1>36, TestUnchanged, Zenon DEF HostSwitch, drawerVars, keyVars, sidebarVars
  <1>37. ASSUME NEW m \in Messages, HandleState(m) PROVE TestOk'
    <2>1. PICK sw : /\ ApplyAuthority(m.picture, sw) /\ m.name \in {"state", "switched"}
                    /\ edits' = edits /\ key' = key
      BY <1>37, Zenon DEF HandleState, TakeAuthority
    <2>2. m.picture.list \in [Profile -> Revision]
      BY <2>1, PictureTyped
    <2> QED BY <2>1, <2>2, TestAuthority, Zenon
  <1>38. ASSUME NEW m \in Messages, HandleSwitched(m) PROVE TestOk'
    <2>1. PICK sw : /\ ApplyAuthority(m.picture, sw) /\ m.name \in {"state", "switched"}
                    /\ edits' = edits /\ key' = key
      BY <1>38, Zenon DEF HandleSwitched, TakeAuthority
    <2>2. m.picture.list \in [Profile -> Revision]
      BY <2>1, PictureTyped
    <2> QED BY <2>1, <2>2, TestAuthority, Zenon
  <1>39. ASSUME NEW m \in Messages, HandleDeleted(m) PROVE TestOk'
    <2>1. \/ drawer' = Closed
          \/ drawer' = drawer /\ edits' = edits /\ key' = key /\ load' = load
      BY <1>39, Zenon DEF HandleDeleted, keyVars
    <2> QED BY <2>1, ClosedIsClosed, TestClosed, TestUnchanged, Zenon
  <1>40. ASSUME NEW m \in Messages, HandleRefused(m) PROVE TestOk'
    <2>1. drawer' \in {WithoutDialog, drawer} /\ edits' = edits /\ key' = key /\ load' = load
      BY <1>40, Zenon DEF HandleRefused, keyVars
    <2>2. CASE drawer' = drawer
      BY <2>1, <2>2, TestUnchanged, Zenon
    <2>3. CASE drawer' = WithoutDialog
      BY <2>1, <2>3, Shapes, WithoutIs, TestFrame, Zenon
    <2> QED BY <2>1, <2>2, <2>3, Zenon
  <1>41. ASSUME NEW m \in Messages, HandleTested(m) PROVE TestOk'
    <2>1. /\ edits' = edits /\ key' = key
          /\ \/ Testing(drawer) /\ CloseChannel(Tested("failed"), host)
             \/ Testing(drawer) /\ drawer' = Tested("passed") /\ load' = load
             \/ Testing(drawer) /\ drawer' = Tested("failed") /\ load' = load
             \/ drawer' = drawer /\ load' = load
      BY <1>41, Zenon DEF HandleTested, keyVars
    <2>2. CASE drawer' = drawer /\ load' = load
      BY <2>1, <2>2, TestUnchanged, Zenon
    <2>3. CASE Testing(drawer) /\ CloseChannel(Tested("failed"), host)
      BY <2>1, <2>3, Shapes, TestedIs, TestChannel, Zenon
    <2>4. CASE Testing(drawer) /\ drawer' = Tested("passed") /\ load' = load
      BY <2>1, <2>4, Shapes, TestedIs, TestFrame, Zenon
    <2>5. CASE Testing(drawer) /\ drawer' = Tested("failed") /\ load' = load
      BY <2>1, <2>5, Shapes, TestedIs, TestFrame, Zenon
    <2> QED BY <2>1, <2>2, <2>3, <2>4, <2>5, Zenon
  <1>42. ASSUME NEW m \in Messages, HandleModels(m) PROVE TestOk'
    BY <1>42, TestUnchanged, Zenon DEF HandleModels, drawerVars, keyVars
  <1>43. ASSUME NEW m \in Messages, HandleSaved(m) PROVE TestOk'
    <2>1. \/ drawer' = drawer /\ edits' = edits /\ key' = key /\ load' = load
          \/ CloseChannel(drawer, host) /\ edits' = edits /\ key' = key
          \/ drawer' = Closed
      BY <1>43, Zenon DEF HandleSaved, drawerVars, keyVars
    <2>2. CASE drawer' = drawer /\ edits' = edits /\ key' = key /\ load' = load
      BY <2>2, TestUnchanged, Zenon
    <2>3. CASE CloseChannel(drawer, host) /\ edits' = edits /\ key' = key
      <3>1. Same(drawer, drawer)
        BY Shapes, Zenon DEF Same
      <3> QED BY <2>3, <3>1, TestChannel, Zenon
    <2>4. CASE drawer' = Closed
      BY <2>4, ClosedIsClosed, TestClosed, Zenon
    <2> QED BY <2>1, <2>2, <2>3, <2>4, Zenon
  <1>44. ASSUME NEW m \in Messages, HandleRevoked(m) PROVE TestOk'
    <2>1. /\ edits' = edits /\ key' = key
          /\ (drawer' = drawer /\ load' = load) \/ CloseChannel(drawer, host)
      BY <1>44, Zenon DEF HandleRevoked, keyVars
    <2>2. CASE drawer' = drawer /\ load' = load
      BY <2>1, <2>2, TestUnchanged, Zenon
    <2>3. CASE CloseChannel(drawer, host)
      <3>1. Same(drawer, drawer)
        BY Shapes, Zenon DEF Same
      <3> QED BY <2>1, <2>3, <3>1, TestChannel, Zenon
    <2> QED BY <2>1, <2>2, <2>3, Zenon
  <1>45. ASSUME HandleUpdate PROVE TestOk'
    <2>1. PICK l \in [Profile -> Revision] : 
                 /\ UpdateFor(l) /\ (UpdateDrops(DrawerAfter(l)) \/ UpdateKeeps(DrawerAfter(l), l))
      BY <1>45, Updates, Zenon
    <2>2. PICK d : d = DrawerAfter(l)
      OBVIOUS
    <2>3. GoesOn(l, d) \/ FallsInConflict(l, d) \/ IsClosed(d)
      BY <2>2, Shapes, DAfter, Zenon
    <2>4. CASE UpdateDrops(d)
      <3>1. PICK x \in BOOLEAN : x = (save = None)
        OBVIOUS
      <3>2. drawer' = [d EXCEPT !.saving = @ /\ x] /\ (d.mode = "closed" \/ d.validity = "conflict")
        BY <2>4, <3>1, Zenon DEF UpdateDrops
      <3>3. d \in DrawerState
        BY <2>3, Zenon DEF GoesOn, FallsInConflict, IsClosed, Same
      <3>4. drawer'.test = d.test
        BY <3>2, <3>3, DSaving, Zenon
      <3>5. CASE FallsInConflict(l, d) \/ IsClosed(d)
        BY <3>4, <3>5, TestNone, Zenon DEF FallsInConflict, IsClosed
      <3>6. CASE GoesOn(l, d)
        <4>1. d.test = drawer.test /\ d.mode = drawer.mode /\ d.validity = drawer.validity
          BY <3>6, Zenon DEF GoesOn, Same
        <4>2. drawer.test = None
          BY <3>2, <4>1, Shapes, Zenon DEF TestOk, TestTellsTheDraft, Conflict
        <4> QED BY <3>4, <4>1, <4>2, TestNone, Zenon
      <3> QED BY <2>3, <3>5, <3>6, Zenon
    <2>5. CASE UpdateKeeps(d, l)
      <3>1. /\ drawer' = d /\ UNCHANGED <<keyVars, key>> /\ edits' = edits
            /\ d.mode # "closed" /\ d.validity # "conflict"
        BY <2>5, Zenon DEF UpdateKeeps
      <3>2. GoesOn(l, d)
        BY <2>3, <3>1, Zenon DEF FallsInConflict, IsClosed
      <3> QED BY <3>1, <3>2, TestFrame, Zenon DEF GoesOn, keyVars
    <2> QED BY <2>1, <2>2, <2>4, <2>5, Zenon
  <1> QED BY <1>1, <1>2, <1>3, <1>4, <1>5, <1>6, <1>7, <1>8, <1>9, <1>10, <1>11, <1>12, <1>13,
         <1>14, <1>15, <1>16, <1>17, <1>18, <1>19, <1>20, <1>21, <1>22, <1>23, <1>24,
         <1>25, <1>26, <1>27, <1>28, <1>29, <1>30, <1>31, <1>32, <1>33, <1>34, <1>35,
         <1>36, <1>37, <1>38, <1>39, <1>40, <1>41, <1>42, <1>43, <1>44, <1>45, HeadTyped, Zenon
    DEF Next, User, Editor, Timers, Host, Deliver, QueueOk
-----------------------------------------------------------------------------
(* The window's own steps, and what they tell the sidebar. *)

LEMMA HostStep ==
    ASSUME Host
    PROVE  UNCHANGED sidebarVars
  BY Zenon DEF Host, OtherWindow, HostTest, HostModels, HostSave, HostDelete, HostSwitch

LEMMA ProfilesFrame ==
    ASSUME ProfilesOk, UNCHANGED hostVars
    PROVE  ProfilesOk'
  BY Zenon DEF ProfilesOk, hostVars

LEMMA ListFrame ==
    ASSUME ListOk, UNCHANGED listVars
    PROVE  ListOk'
  BY Zenon DEF ListOk, listVars

LEMMA QueueFrame ==
    ASSUME QueueOk, queued' = queued
    PROVE  QueueOk'
  BY Zenon DEF QueueOk

\* A change of the stored profiles.
LEMMA Changes ==
    ASSUME ProfilesOk, NEW p \in Profile, NEW r \in Nat, r <= stored[p] + 1, NEW on \in Profile \cup {None},
           Change(p, r, on)
    PROVE  /\ ProfilesOk' /\ version' = version + 1 /\ stored' = [stored EXCEPT ![p] = r]
           /\ unborn' = unborn \ {p}
  <1>1. /\ version < MaxVersion /\ version' = version + 1
        /\ stored' = [stored EXCEPT ![p] = r] /\ active' = on /\ unborn' = unborn \ {p}
    BY Zenon DEF Change
  <1>2. version \in Nat /\ MaxVersion \in Nat /\ version' \in 0 .. MaxVersion
    BY <1>1, EditorAssumption DEF ProfilesOk
  <1>3. \A q \in Profile : stored[q] \in Nat /\ stored[q] <= version + 1
    BY <1>2 DEF ProfilesOk, Revision
  <1>4. r <= version' + 1 /\ r \in Revision
    BY <1>1, <1>2, <1>3 DEF Revision
  <1>5. \A q \in Profile : stored'[q] <= version' + 1
    <2>1. ASSUME NEW q \in Profile PROVE stored'[q] <= version' + 1
      <3>1. stored[q] <= version' + 1
        BY <1>1, <1>2, <1>3
      <3>2. stored \in [Profile -> Revision]
        BY DEF ProfilesOk
      <3> QED BY <1>1, <1>4, <3>1, <3>2
    <2> QED BY <2>1
  <1>6. stored' \in [Profile -> Revision]
    BY <1>1, <1>4 DEF ProfilesOk
  <1>7. active' \in Profile \cup {None} /\ unborn' \in SUBSET Profile
    BY <1>1, Zenon DEF ProfilesOk
  <1> QED BY <1>1, <1>2, <1>5, <1>6, <1>7, Zenon DEF ProfilesOk

LEMMA WithoutTyped ==
    ASSUME ProfilesOk, NEW p
    PROVE  Without(p) \in Profile \cup {None}
  BY Zenon DEF Without, ProfilesOk

\* What is published of a change, and what is answered.
Published == IF version' = version THEN <<>> ELSE <<[name |-> "state", picture |-> Picture']>>

LEMMA PublishedTyped ==
    ASSUME ProfilesOk'
    PROVE  Published \in Seq(Messages) /\ Picture' \in Pictures
  <1>1. Picture' \in Pictures
    BY DEF Picture, Pictures, ProfilesOk
  <1>2. [name |-> "state", picture |-> Picture'] \in Messages
    <2>1. PICK q : q = Picture'
      OBVIOUS
    <2>2. [name |-> "state", picture |-> q] \in Messages
      BY <1>1, <2>1 DEF Messages
    <2> QED BY <2>1, <2>2, Zenon
  <1>3. PICK m \in Messages : m = [name |-> "state", picture |-> Picture']
    BY <1>2, Zenon
  <1>4. <<m>> \in Seq(Messages) /\ <<>> \in Seq(Messages)
    OBVIOUS
  <1> QED BY <1>1, <1>3, <1>4, Zenon DEF Published

LEMMA TellsIs ==
    ASSUME QueueOk, ProfilesOk', NEW messages \in Seq(Messages), Tells(messages)
    PROVE  QueueOk' /\ queued' = (queued \o Published) \o messages
  <1>1. queued' = (queued \o Published) \o messages /\ Len(queued') <= MaxQueue
    BY Zenon DEF Tells, Published
  <1>2. queued \in Seq(Messages) /\ Published \in Seq(Messages)
    BY PublishedTyped, Zenon DEF QueueOk
  <1>3. queued' \in Seq(Messages)
    BY <1>1, <1>2, ConcatProperties
  <1> QED BY <1>1, <1>3, Zenon DEF QueueOk

LEMMA AnsweredOne ==
    ASSUME NEW m, NEW name
    PROVE  Answered(name, <<m>>) = IF m.name = name THEN {m.id} ELSE {}
  <1>1. PICK s : s = <<m>>
    OBVIOUS
  <1>2. Len(s) = 1 /\ s[1] = m
    BY <1>1
  <1>3. \A i : i \in 1 .. Len(s) <=> i = 1
    BY <1>2
  <1>4. Answered(name, s) = IF m.name = name THEN {m.id} ELSE {}
    BY <1>2, <1>3 DEF Answered
  <1> QED BY <1>1, <1>4

LEMMA AnsweredNothing ==
    ASSUME NEW name
    PROVE  Answered(name, <<>>) = {}
  BY DEF Answered

LEMMA AnsweredMore ==
    ASSUME NEW s \in Seq(Messages), NEW t \in Seq(Messages), NEW name
    PROVE  Answered(name, s \o t) \subseteq Answered(name, s) \cup Answered(name, t)
  <1>1. ASSUME NEW x \in Answered(name, s \o t)
        PROVE  x \in Answered(name, s) \cup Answered(name, t)
    <2>1. PICK i \in 1 .. Len(s \o t) : (s \o t)[i].name = name /\ x = (s \o t)[i].id
      BY DEF Answered
    <2>2. CASE i <= Len(s)
      <3>1. i \in 1 .. Len(s) /\ (s \o t)[i] = s[i]
        BY <2>1, <2>2, ConcatProperties
      <3> QED BY <2>1, <3>1 DEF Answered
    <2>3. CASE ~(i <= Len(s))
      <3>1. i - Len(s) \in 1 .. Len(t) /\ (s \o t)[i] = t[i - Len(s)]
        BY <2>1, <2>3, ConcatProperties, LenProperties
      <3>2. PICK j : j = i - Len(s)
        OBVIOUS
      <3>3. j \in 1 .. Len(t) /\ t[j].name = name /\ x = t[j].id
        BY <2>1, <3>1, <3>2
      <3>4. x \in Answered(name, t)
        BY <3>3 DEF Answered
      <3> QED BY <3>4
    <2> QED BY <2>2, <2>3
  <1> QED BY <1>1

LEMMA AnsweredTail ==
    ASSUME NEW s \in Seq(Messages), s # <<>>, NEW name
    PROVE  /\ Answered(name, Tail(s)) \subseteq Answered(name, s)
           /\ Head(s).name = name => Head(s).id \in Answered(name, s)
  <1>1. /\ Len(Tail(s)) = Len(s) - 1 /\ Len(s) \in Nat \ {0}
        /\ \A i \in 1 .. Len(Tail(s)) : Tail(s)[i] = s[i + 1]
    BY HeadTailProperties, EmptySeq, LenProperties
  <1>2. ASSUME NEW x \in Answered(name, Tail(s)) PROVE x \in Answered(name, s)
    <2>1. PICK i \in 1 .. Len(Tail(s)) : Tail(s)[i].name = name /\ x = Tail(s)[i].id
      BY DEF Answered
    <2>2. PICK j : j = i + 1
      OBVIOUS
    <2>3. j \in 1 .. Len(s) /\ Tail(s)[i] = s[j]
      BY <1>1, <2>1, <2>2
    <2> QED BY <2>1, <2>3 DEF Answered
  <1>3. ASSUME Head(s).name = name PROVE Head(s).id \in Answered(name, s)
    <2>1. 1 \in 1 .. Len(s) /\ s[1] = Head(s)
      BY <1>1, HeadTailProperties
    <2> QED BY <1>3, <2>1 DEF Answered
  <1> QED BY <1>2, <1>3

LEMMA AnsweredTyped ==
    ASSUME NEW s \in Seq(Messages), NEW name \in {"tested", "models"}
    PROVE  Answered(name, s) \in SUBSET Nat
  <1>1. \A i \in 1 .. Len(s) : s[i] \in Messages
    BY ElementOfSeq
  <1>2. \A m \in Messages : m.name = name => m.id \in Nat
    BY MessageFields, EditorAssumption DEF Request
  <1> QED BY <1>1, <1>2 DEF Answered

\* Only the messages that are sent answer anything: a picture does not.
LEMMA TellsAnswers ==
    ASSUME QueueOk, ProfilesOk', NEW messages \in Seq(Messages), Tells(messages), NEW name, name # "state"
    PROVE  Answered(name, queued') \subseteq Answered(name, queued) \cup Answered(name, messages)
  <1>1. queued' = (queued \o Published) \o messages
    BY TellsIs, Zenon
  <1>2. queued \in Seq(Messages) /\ Published \in Seq(Messages)
    BY PublishedTyped, Zenon DEF QueueOk
  <1>3. queued \o Published \in Seq(Messages)
    BY <1>2, ConcatProperties
  <1>4. Answered(name, Published) = {}
    <2>1. CASE version' = version
      BY <2>1, AnsweredNothing, Zenon DEF Published
    <2>2. CASE version' # version
      <3>1. PICK m : m = [name |-> "state", picture |-> Picture']
        OBVIOUS
      <3>2. m.name # name
        BY <3>1
      <3> QED BY <2>2, <3>1, <3>2, AnsweredOne, Zenon DEF Published
    <2> QED BY <2>1, <2>2
  <1>5. /\ Answered(name, (queued \o Published) \o messages)
             \subseteq Answered(name, queued \o Published) \cup Answered(name, messages)
        /\ Answered(name, queued \o Published) \subseteq Answered(name, queued) \cup Answered(name, Published)
    BY <1>2, <1>3, AnsweredMore, Zenon
  <1> QED BY <1>1, <1>4, <1>5, Zenon
LEMMA QuietStep ==
    ASSUME User \/ Editor \/ Timers
    PROVE  UNCHANGED <<hostVars, queued, listVars>>
  <1>1. ASSUME NEW p \in Profile, OpenEditor(p) PROVE UNCHANGED <<hostVars, queued, listVars>>
    BY <1>1, Zenon DEF OpenEditor
  <1>2. ASSUME OpenNew PROVE UNCHANGED <<hostVars, queued, listVars>>
    BY <1>2, Zenon DEF OpenNew
  <1>3. ASSUME CloseDrawer PROVE UNCHANGED <<hostVars, queued, listVars>>
    BY <1>3, Zenon DEF CloseDrawer
  <1>4. ASSUME EditKind PROVE UNCHANGED <<hostVars, queued, listVars>>
    BY <1>4, Zenon DEF EditKind
  <1>5. ASSUME EditEndpoint PROVE UNCHANGED <<hostVars, queued, listVars>>
    BY <1>5, Zenon DEF EditEndpoint
  <1>6. ASSUME EditRoute PROVE UNCHANGED <<hostVars, queued, listVars>>
    BY <1>6, Zenon DEF EditRoute
  <1>7. ASSUME EditModel PROVE UNCHANGED <<hostVars, queued, listVars>>
    BY <1>7, Zenon DEF EditModel
  <1>8. ASSUME TypeKey PROVE UNCHANGED <<hostVars, queued, listVars>>
    BY <1>8, Zenon DEF TypeKey
  <1>9. ASSUME RefreshModels PROVE UNCHANGED <<hostVars, queued, listVars>>
    BY <1>9, Zenon DEF RefreshModels
  <1>10. ASSUME SendModels PROVE UNCHANGED <<hostVars, queued, listVars>>
    BY <1>10, Zenon DEF SendModels
  <1>11. ASSUME ModelsNotSent PROVE UNCHANGED <<hostVars, queued, listVars>>
    BY <1>11, Zenon DEF ModelsNotSent
  <1>12. ASSUME SendSave PROVE UNCHANGED <<hostVars, queued, listVars>>
    BY <1>12, Zenon DEF SendSave
  <1>13. ASSUME EndpointTimer PROVE UNCHANGED <<hostVars, queued, listVars>>
    BY <1>13, Zenon DEF EndpointTimer
  <1>14. ASSUME SwitchExpires PROVE UNCHANGED <<hostVars, queued, listVars>>
    BY <1>14, Zenon DEF SwitchExpires
  <1>15. ASSUME BeginRead PROVE UNCHANGED <<hostVars, queued, listVars>>
    BY <1>15, Zenon DEF BeginRead
  <1>16. ASSUME ReadFails PROVE UNCHANGED <<hostVars, queued, listVars>>
    BY <1>16, Zenon DEF ReadFails
  <1>17. ASSUME NEW p \in Profile, NEW on \in BOOLEAN, Toggle(p, on) PROVE UNCHANGED <<hostVars, queued, listVars>>
    BY <1>17, Zenon DEF Toggle
  <1>18. ASSUME StartTest PROVE UNCHANGED <<hostVars, queued, listVars>>
    BY <1>18, Zenon DEF StartTest
  <1>19. ASSUME StartSave PROVE UNCHANGED <<hostVars, queued, listVars>>
    BY <1>19, Zenon DEF StartSave
  <1>20. ASSUME PageHides PROVE UNCHANGED <<hostVars, queued, listVars>>
    BY <1>20, Zenon DEF PageHides
  <1>21. ASSUME AskDelete PROVE UNCHANGED <<hostVars, queued, listVars>>
    BY <1>21, Zenon DEF AskDelete
  <1>22. ASSUME CancelDelete PROVE UNCHANGED <<hostVars, queued, listVars>>
    BY <1>22, Zenon DEF CancelDelete
  <1>23. ASSUME ConfirmDelete PROVE UNCHANGED <<hostVars, queued, listVars>>
    BY <1>23, Zenon DEF ConfirmDelete
  <1>24. ASSUME AcceptRead PROVE UNCHANGED <<hostVars, queued, listVars>>
    BY <1>24, Zenon DEF AcceptRead
  <1>25. ASSUME ChannelFails PROVE UNCHANGED <<hostVars, queued, listVars>>
    BY <1>25, Zenon DEF ChannelFails
  <1>26. ASSUME LoadExpires PROVE UNCHANGED <<hostVars, queued, listVars>>
    BY <1>26, Zenon DEF LoadExpires
  <1>27. ASSUME SaveFails PROVE UNCHANGED <<hostVars, queued, listVars>>
    BY <1>27, Zenon DEF SaveFails
  <1>28. ASSUME TestExpires PROVE UNCHANGED <<hostVars, queued, listVars>>
    BY <1>28, Zenon DEF TestExpires
  <1>29. ASSUME SendTest PROVE UNCHANGED <<hostVars, queued, listVars>>
    BY <1>29, Zenon DEF SendTest
  <1>30. ASSUME TestNotSent PROVE UNCHANGED <<hostVars, queued, listVars>>
    BY <1>30, Zenon DEF TestNotSent
  <1> QED BY <1>1, <1>2, <1>3, <1>4, <1>5, <1>6, <1>7, <1>8, <1>9, <1>10, <1>11, <1>12, <1>13,
         <1>14, <1>15, <1>16, <1>17, <1>18, <1>19, <1>20, <1>21, <1>22, <1>23, <1>24,
         <1>25, <1>26, <1>27, <1>28, <1>29, <1>30, Zenon DEF User, Editor, Timers

\* The answers of the global entry.
LEMMA AnswersIs ==
    ASSUME NEW r \in Requests, r.kind \in {"test", "models", "draft-models"}, NEW ok, NEW m \in Messages,
           Answers(r, ok, m)
    PROVE  /\ host' = host \ {r} /\ UNCHANGED hostVars
           /\ \E s \in Seq(Messages) : Tells(s) /\ \A i \in 1 .. Len(s) : s[i] = m \/ s[i].name = "revoked"
  <1>1. host' = host \ {r} /\ UNCHANGED hostVars
    BY Zenon DEF Answers
  <1>2. PICK revoked \in BOOLEAN :
           /\ revoked => r.kind # "models"
           /\ Tells(<<m>> \o IF revoked THEN <<Message("revoked", r.drawer)>> ELSE <<>>)
    BY Zenon DEF Answers
  <1>3. CASE revoked
    <2>1. r.drawer \in Drawer
      <3>1. r \in Drafts
        BY <1>2, <1>3, RequestFields DEF DraftKinds
      <3> QED BY <3>1 DEF Drafts
    <2>2. PICK q : q = Message("revoked", r.drawer)
      OBVIOUS
    <2>3. q \in Messages /\ q.name = "revoked"
      BY <2>1, <2>2 DEF Message, Messages
    <2>4. Tells(<<m>> \o <<q>>)
      BY <1>2, <1>3, <2>2, Zenon
    <2>5. PICK s : s = <<m>> \o <<q>>
      OBVIOUS
    <2>6. s \in Seq(Messages) /\ \A i \in 1 .. Len(s) : s[i] = m \/ s[i].name = "revoked"
      BY <2>3, <2>5
    <2> QED BY <1>1, <2>4, <2>5, <2>6, Zenon
  <1>4. CASE ~revoked
    <2>1. Tells(<<m>> \o <<>>)
      BY <1>2, <1>4, Zenon
    <2>2. PICK s : s = <<m>> \o <<>>
      OBVIOUS
    <2>3. s \in Seq(Messages) /\ \A i \in 1 .. Len(s) : s[i] = m \/ s[i].name = "revoked"
      BY <2>2
    <2> QED BY <1>1, <2>1, <2>2, <2>3, Zenon
  <1> QED BY <1>3, <1>4

LEMMA HostTestIs ==
    ASSUME NEW r \in Requests, HostTest(r)
    PROVE  /\ r.kind = "test" /\ host' = host \ {r} /\ UNCHANGED hostVars
           /\ \/ queued' = queued
              \/ \E s \in Seq(Messages) :
                   /\ Tells(s)
                   /\ \A i \in 1 .. Len(s) : (s[i].name = "tested" /\ s[i].id = r.id) \/ s[i].name = "revoked"
  <1>1. CASE Dropped(r)
    BY <1>1, Zenon DEF HostTest, Dropped
  <1>2. ASSUME NEW ok \in BOOLEAN, NEW invalid \in BOOLEAN, r.kind = "test",
               Answers(r, ok, [name |-> "tested", id |-> r.id, drawer |-> r.drawer, draft |-> r.draft,
                               ok |-> ok, invalid |-> invalid])
        PROVE  /\ host' = host \ {r} /\ UNCHANGED hostVars
               /\ \E s \in Seq(Messages) :
                   /\ Tells(s)
                   /\ \A i \in 1 .. Len(s) : (s[i].name = "tested" /\ s[i].id = r.id) \/ s[i].name = "revoked"
    <2>1. PICK m : m = [name |-> "tested", id |-> r.id, drawer |-> r.drawer, draft |-> r.draft,
                        ok |-> ok, invalid |-> invalid]
      OBVIOUS
    <2>2. m \in Messages /\ m.name = "tested" /\ m.id = r.id
      <3>1. r \in Drafts
        BY <1>2, RequestFields DEF DraftKinds
      <3>2. r.id \in Request /\ r.drawer \in Drawer /\ r.draft \in Nat
        BY <3>1 DEF Drafts
      <3> QED BY <2>1, <3>2 DEF Messages
    <2>3. Answers(r, ok, m)
      BY <1>2, <2>1, Zenon
    <2> QED BY <1>2, <2>2, <2>3, AnswersIs
  <1> QED BY <1>1, <1>2, Zenon DEF HostTest

LEMMA HostModelsIs ==
    ASSUME NEW r \in Requests, HostModels(r)
    PROVE  /\ r.kind \in {"models", "draft-models"} /\ host' = host \ {r} /\ UNCHANGED hostVars
           /\ \/ queued' = queued
              \/ \E s \in Seq(Messages) :
                   /\ Tells(s)
                   /\ \A i \in 1 .. Len(s) : (s[i].name = "models" /\ s[i].id = r.id) \/ s[i].name = "revoked"
  <1>1. r.kind \in {"models", "draft-models"}
    BY Zenon DEF HostModels
  <1>2. CASE Dropped(r)
    BY <1>1, <1>2, Zenon DEF Dropped
  <1>3. ASSUME NEW ok \in BOOLEAN, Answers(r, ok, Message("models", r.id))
        PROVE  /\ host' = host \ {r} /\ UNCHANGED hostVars
               /\ \E s \in Seq(Messages) :
                   /\ Tells(s)
                   /\ \A i \in 1 .. Len(s) : (s[i].name = "models" /\ s[i].id = r.id) \/ s[i].name = "revoked"
    <2>1. PICK m : m = Message("models", r.id)
      OBVIOUS
    <2>2. m \in Messages /\ m.name = "models" /\ m.id = r.id
      <3>1. r.id \in Request
        BY RequestFields
      <3> QED BY <2>1, <3>1 DEF Messages, Message
    <2>3. Answers(r, ok, m)
      BY <1>3, <2>1, Zenon
    <2> QED BY <1>1, <2>2, <2>3, AnswersIs
  <1> QED BY <1>1, <1>2, <1>3, Zenon DEF HostModels

\* A save that is answered without a change, and one that has changed a profile.
SaveFailed(r) ==
    /\ host' = host \ {r} /\ UNCHANGED hostVars
    /\ Tells(<<[name |-> "saved", id |-> r.id, ok |-> FALSE]>>)
SaveStored(r, p, ok) ==
    /\ Change(p, stored[p] + 1, Without(p))
    /\ IF r.of = None THEN p \in unborn
       ELSE p = r.of.profile /\ stored[p] = r.of.revision /\ stored[p] # 0
    /\ host' = {IF q.kind \in {"test", "draft-models"} THEN [q EXCEPT !.cancelled = TRUE] ELSE q :
                  q \in Withdrawn(host \ {r}, p)}
    /\ Tells(<<[name |-> "saved", id |-> r.id, ok |-> ok, profile |-> p, revision |-> stored'[p]]>>)
LEMMA HostSaveIs ==
    ASSUME NEW r, HostSave(r)
    PROVE  r.kind = "save" /\ (SaveFailed(r) \/ \E p \in Profile, ok \in BOOLEAN : SaveStored(r, p, ok))
  BY Zenon DEF HostSave, SaveFailed, SaveStored

DeleteRefused(r) == host' = host \ {r} /\ UNCHANGED hostVars /\ Tells(<<Message("refused", r.id)>>)
DeleteStored(r, p) ==
    /\ Change(p, 0, Without(p)) /\ host' = Withdrawn(host \ {r}, p)
    /\ Tells(<<[name |-> "deleted", id |-> r.id, profile |-> p]>>)
LEMMA HostDeleteIs ==
    ASSUME NEW r \in Requests, HostDelete(r)
    PROVE  r.kind = "delete" /\ (DeleteRefused(r) \/ \E p \in Profile : DeleteStored(r, p))
  <1>1. r.kind = "delete" /\ (DeleteRefused(r) \/ DeleteStored(r, r.of.profile))
    BY Zenon DEF HostDelete, DeleteRefused, DeleteStored
  <1>2. r.of.profile \in Profile
    <2>1. r \in Deletes
      BY <1>1, RequestFields
    <2>2. r.of \in Ref
      BY <2>1 DEF Deletes
    <2> QED BY <2>2 DEF Ref
  <1> QED BY <1>1, <1>2, Zenon

Switched(r) == Tells(<<[name |-> "switched", id |-> r.id, picture |-> Picture']>>)
LEMMA HostSwitchIs ==
    ASSUME ProfilesOk, NEW r \in Requests, HostSwitch(r)
    PROVE  /\ r.kind = "switch" /\ host' = host \ {r} /\ Switched(r)
           /\ UNCHANGED hostVars
                \/ \E p \in Profile, on \in Profile \cup {None} : Change(p, stored[p], on)
  <1>1. /\ r.kind = "switch" /\ host' = host \ {r} /\ Switched(r)
        /\ UNCHANGED hostVars \/ Change(r.of.profile, stored[r.of.profile], IF r.on THEN r.of.profile ELSE None)
    BY Zenon DEF HostSwitch, Switched
  <1>2. r.of.profile \in Profile
    <2>1. r \in Switches
      BY <1>1, RequestFields
    <2>2. r.of \in Ref
      BY <2>1 DEF Switches
    <2> QED BY <2>2 DEF Ref
  <1> QED BY <1>1, <1>2, Zenon

LEMMA StoredNumbers ==
    ASSUME ProfilesOk
    PROVE  \A p \in Profile : stored[p] \in Nat /\ stored[p] + 1 \in Nat /\ 0 \in Nat /\ 0 <= stored[p] + 1
              /\ stored[p] + 1 <= stored[p] + 1 /\ stored[p] <= stored[p] + 1
  <1>1. \A p \in Profile : stored[p] \in Revision
    <2>1. stored \in [Profile -> Revision]
      BY Zenon DEF ProfilesOk
    <2> QED BY <2>1
  <1>2. \A r \in Revision : r \in Nat
    BY EditorAssumption DEF Revision
  <1>3. \A n \in Nat : n + 1 \in Nat /\ 0 \in Nat /\ 0 <= n + 1 /\ n + 1 <= n + 1 /\ n <= n + 1
    OBVIOUS
  <1> QED BY <1>1, <1>2, <1>3, Zenon

LEMMA OtherWindowIs ==
    ASSUME ProfilesOk, OtherWindow
    PROVE  /\ Tells(<<>>)
           /\ \E p \in Profile, r \in Nat, on \in Profile \cup {None} :
                Change(p, r, on) /\ r <= stored[p] + 1 /\ (stored[p] = 0 => r = 0)
                /\ (r < stored[p] => r = 0)
                /\ host' \in {host, Withdrawn(host, p)}
  <1>1. PICK p \in Profile :
           /\ stored[p] # 0
           /\ \/ Change(p, stored[p] + 1, Without(p)) /\ host' = Withdrawn(host, p)
              \/ Change(p, 0, Without(p)) /\ host' = Withdrawn(host, p)
              \/ Change(p, stored[p], IF active = p THEN None ELSE p) /\ host' = host
    BY Zenon DEF OtherWindow
  <1>2. stored[p] \in Nat
    BY StoredNumbers, Zenon
  <1>3. /\ stored[p] + 1 \in Nat /\ stored[p] + 1 <= stored[p] + 1 /\ 0 \in Nat /\ 0 <= stored[p] + 1
        /\ stored[p] <= stored[p] + 1 /\ ~(stored[p] + 1 < stored[p]) /\ ~(stored[p] < stored[p])
    BY <1>2
  <1>4. Tells(<<>>) /\ (IF active = p THEN None ELSE p) \in Profile \cup {None} /\ Without(p) \in Profile \cup {None}
    BY WithoutTyped, Zenon DEF OtherWindow
  <1> QED BY <1>1, <1>2, <1>3, <1>4, Zenon

\* The stored profiles stay as they are or one of them is changed.
Changed == \E p \in Profile, r \in Nat, on \in Profile \cup {None} : Change(p, r, on) /\ r <= stored[p] + 1

LEMMA StoredIs ==
    ASSUME ProfilesOk, host \in SUBSET Requests, Host
    PROVE  UNCHANGED hostVars \/ Changed
  <1>1. CASE OtherWindow
    BY <1>1, OtherWindowIs, Zenon DEF Changed
  <1>2. \A p \in Profile : stored[p] \in Nat /\ stored[p] + 1 \in Nat /\ 0 \in Nat /\ 0 <= stored[p] + 1
              /\ stored[p] + 1 <= stored[p] + 1 /\ stored[p] <= stored[p] + 1
    BY StoredNumbers, Zenon
  <1>3. ASSUME NEW r \in host, HostTest(r) \/ HostModels(r) PROVE UNCHANGED hostVars
    BY <1>3, HostTestIs, HostModelsIs, Zenon
  <1>4. ASSUME NEW r \in host, HostSave(r) PROVE UNCHANGED hostVars \/ Changed
    BY <1>2, <1>4, HostSaveIs, WithoutTyped, Zenon DEF SaveFailed, SaveStored, Changed
  <1>5. ASSUME NEW r \in host, HostDelete(r) PROVE UNCHANGED hostVars \/ Changed
    <2>1. r \in Requests
      OBVIOUS
    <2> QED BY <1>2, <1>5, <2>1, HostDeleteIs, WithoutTyped, Zenon DEF DeleteRefused, DeleteStored, Changed
  <1>6. ASSUME NEW r \in host, HostSwitch(r) PROVE UNCHANGED hostVars \/ Changed
    <2>1. r \in Requests
      OBVIOUS
    <2> QED BY <1>2, <1>6, <2>1, HostSwitchIs, Zenon DEF Changed
  <1> QED BY <1>1, <1>3, <1>4, <1>5, <1>6, Zenon DEF Host

LEMMA ProfilesStep ==
    ASSUME ProfilesOk, host \in SUBSET Requests, Next
    PROVE  ProfilesOk'
  <1>1. CASE User \/ Editor \/ Timers
    BY <1>1, QuietStep, ProfilesFrame, Zenon
  <1>2. CASE Host
    <2>1. CASE UNCHANGED hostVars
      BY <2>1, ProfilesFrame, Zenon
    <2>2. CASE Changed
      BY <2>2, Changes, Zenon DEF Changed
    <2> QED BY <1>2, <2>1, <2>2, StoredIs, Zenon
  <1>3. CASE Deliver
    <2>1. UNCHANGED hostVars
      BY <1>3, Zenon DEF Deliver, HandleState, HandleSwitched, HandleDeleted, HandleRefused, HandleTested,
                          HandleModels, HandleSaved, HandleRevoked
    <2> QED BY <2>1, ProfilesFrame, Zenon
  <1>4. CASE HandleUpdate
    <2>1. UNCHANGED hostVars
      BY <1>4, Zenon DEF HandleUpdate
    <2> QED BY <2>1, ProfilesFrame, Zenon
  <1> QED BY <1>1, <1>2, <1>3, <1>4, Zenon DEF Next

LEMMA QueueStep ==
    ASSUME QueueOk, ProfilesOk, ProfilesOk', host \in SUBSET Requests, Next
    PROVE  QueueOk'
  <1>1. CASE User \/ Editor \/ Timers
    BY <1>1, QuietStep, QueueFrame, Zenon
  <1>2. CASE OtherWindow
    <2>1. <<>> \in Seq(Messages)
      OBVIOUS
    <2> QED BY <1>2, <2>1, OtherWindowIs, TellsIs, Zenon
  <1>3. ASSUME NEW m \in Messages, Tells(<<m>>) PROVE QueueOk'
    <2>1. <<m>> \in Seq(Messages)
      OBVIOUS
    <2> QED BY <1>3, <2>1, TellsIs, Zenon
  <1>4. ASSUME NEW r \in host, HostTest(r) \/ HostModels(r) PROVE QueueOk'
    BY <1>4, HostTestIs, HostModelsIs, TellsIs, QueueFrame, Zenon
  <1>5. ASSUME NEW r \in host, HostSave(r) PROVE QueueOk'
    <2>1. r.id \in Request
      BY RequestFields
    <2>2. CASE SaveFailed(r)
      <3>1. [name |-> "saved", id |-> r.id, ok |-> FALSE] \in Messages
        BY <2>1 DEF Messages
      <3> QED BY <1>3, <2>2, <3>1, Zenon DEF SaveFailed
    <2>3. ASSUME NEW p \in Profile, NEW ok \in BOOLEAN, SaveStored(r, p, ok) PROVE QueueOk'
      <3>1. PICK v : v = stored'[p]
        OBVIOUS
      <3>2. v \in Revision
        BY <3>1 DEF ProfilesOk
      <3>3. [name |-> "saved", id |-> r.id, ok |-> ok, profile |-> p, revision |-> v] \in Messages
        BY <2>1, <3>2 DEF Messages
      <3> QED BY <1>3, <2>3, <3>1, <3>3, Zenon DEF SaveStored
    <2> QED BY <1>5, <2>2, <2>3, HostSaveIs, Zenon
  <1>6. ASSUME NEW r \in host, HostDelete(r) PROVE QueueOk'
    <2>1. r.id \in Request /\ r \in Requests
      BY RequestFields
    <2>2. CASE DeleteRefused(r)
      <3>1. Message("refused", r.id) \in Messages
        BY <2>1 DEF Messages, Message
      <3> QED BY <1>3, <2>2, <3>1, Zenon DEF DeleteRefused
    <2>3. ASSUME NEW p \in Profile, DeleteStored(r, p) PROVE QueueOk'
      <3>1. [name |-> "deleted", id |-> r.id, profile |-> p] \in Messages
        BY <2>1 DEF Messages
      <3> QED BY <1>3, <2>3, <3>1, Zenon DEF DeleteStored
    <2> QED BY <1>6, <2>1, <2>2, <2>3, HostDeleteIs, Zenon
  <1>7. ASSUME NEW r \in host, HostSwitch(r) PROVE QueueOk'
    <2>1. r.id \in Request /\ r \in Requests
      BY RequestFields
    <2>2. PICK q : q = Picture'
      OBVIOUS
    <2>3. q \in Pictures
      BY <2>2, PublishedTyped, Zenon
    <2>4. [name |-> "switched", id |-> r.id, picture |-> q] \in Messages
      BY <2>1, <2>3 DEF Messages
    <2> QED BY <1>3, <1>7, <2>1, <2>2, <2>4, HostSwitchIs, Zenon DEF Switched
  <1>8. CASE Deliver
    <2>1. queued # <<>> /\ queued' = Tail(queued)
      BY <1>8, Zenon DEF Deliver
    <2>2. Len(Tail(queued)) <= MaxQueue
      BY <2>1, EditorAssumption, HeadTailProperties, LenProperties DEF QueueOk
    <2> QED BY <2>1, <2>2, HeadTyped, Zenon DEF QueueOk
  <1>9. CASE HandleUpdate
    <2>1. queued' = queued
      BY <1>9, Zenon DEF HandleUpdate
    <2> QED BY <2>1, QueueFrame, Zenon
  <1> QED BY <1>1, <1>2, <1>4, <1>5, <1>6, <1>7, <1>8, <1>9, Zenon DEF Next, Host

\* What an authority that comes alone does to the list.
LEMMA ListAuthority ==
    ASSUME ListOk, KeyOk, RequestOk, NEW m \in Pictures, NEW sw, ApplyAuthority(m, sw), gone' = gone,
           rows' \in {rows, list'}
    PROVE  ListOk'
  <1>1. m.list \in [Profile -> Revision] /\ m.version \in 0 .. MaxVersion /\ m.active \in Profile \cup {None}
    BY DEF Pictures
  <1>2. Ignored(m, sw) \/ Applied(m, sw)
    BY ApplyAuthorityIs, Zenon DEF KeyOk, RequestOk
  <1>3. list' \in [Profile -> Revision] /\ enabled' \in Profile \cup {None} /\ known' \in 0 .. MaxVersion
    BY <1>1, <1>2, ShownTyped, Zenon DEF Ignored, Applied, ListOk
  <1> QED BY <1>3, Zenon DEF ListOk

LEMMA ListStep ==
    ASSUME ListOk, QueueOk, ProfilesOk, KeyOk, RequestOk, Next
    PROVE  ListOk'
  <1>1. CASE User \/ Editor \/ Timers
    BY <1>1, QuietStep, ListFrame, Zenon
  <1>2. CASE Host
    BY <1>2, HostStep, ListFrame, Zenon DEF sidebarVars
  <1>3. 0 \in Revision
    BY EditorAssumption DEF Revision
  <1>4. ASSUME NEW m \in Messages, HandleState(m) PROVE ListOk'
    <2>1. m.picture \in Pictures
      BY <1>4, MessageFields, Zenon DEF HandleState
    <2>2. ApplyAuthority(m.picture, switch) /\ gone' = gone /\ rows' \in {rows, list'}
      BY <1>4, Zenon DEF HandleState, TakeAuthority
    <2> QED BY <2>1, <2>2, ListAuthority, Zenon
  <1>5. ASSUME NEW m \in Messages, HandleSwitched(m) PROVE ListOk'
    <2>1. m.picture \in Pictures
      BY <1>5, MessageFields, Zenon DEF HandleSwitched
    <2>2. PICK sw : ApplyAuthority(m.picture, sw) /\ gone' = gone /\ rows' \in {rows, list'}
      BY <1>5, Zenon DEF HandleSwitched
    <2> QED BY <2>1, <2>2, ListAuthority, Zenon
  <1>6. ASSUME NEW m \in Messages, HandleDeleted(m) PROVE ListOk'
    <2>1. /\ gone' = gone \cup {m.profile} /\ list' = [list EXCEPT ![m.profile] = 0] /\ rows' = list'
          /\ enabled' = enabled /\ known' = known /\ m.name = "deleted"
      BY <1>6, Zenon DEF HandleDeleted
    <2>2. m.profile \in Profile
      BY <2>1, MessageFields
    <2>3. list' \in [Profile -> Revision]
      BY <1>3, <2>1 DEF ListOk
    <2> QED BY <2>1, <2>2, <2>3, Zenon DEF ListOk
  <1>7. ASSUME NEW m \in Messages, HandleRefused(m) \/ HandleTested(m) \/ HandleModels(m) \/ HandleRevoked(m)
        PROVE  ListOk'
    <2>1. UNCHANGED listVars
      BY <1>7, Zenon DEF HandleRefused, HandleTested, HandleModels, HandleRevoked
    <2> QED BY <2>1, ListFrame, Zenon
  <1>8. ASSUME NEW m \in Messages, HandleSaved(m) PROVE ListOk'
    <2>1. /\ list' = list /\ enabled' = enabled /\ known' = known /\ gone' = gone
          /\ rows' = rows \/ (rows' = [rows EXCEPT ![m.profile] = m.revision] /\ m.ok /\ m.name = "saved")
      BY <1>8, Zenon DEF HandleSaved
    <2>2. rows' \in [Profile -> Revision]
      <3>1. CASE rows' = rows
        BY <3>1 DEF ListOk
      <3>2. CASE rows' = [rows EXCEPT ![m.profile] = m.revision] /\ m.ok /\ m.name = "saved"
        <4>1. m.revision \in Revision
          BY <3>2, MessageFields
        <4> QED BY <3>2, <4>1 DEF ListOk
      <3> QED BY <2>1, <3>1, <3>2
    <2> QED BY <2>1, <2>2, Zenon DEF ListOk
  <1>9. CASE HandleUpdate
    <2>1. /\ list' = Shown(stored) /\ enabled' = active /\ known' = version /\ gone' = gone
          /\ rows' \in {rows, Shown(stored)}
      BY <1>9, Zenon DEF HandleUpdate
    <2>2. Shown(stored) \in [Profile -> Revision]
      BY ShownTyped DEF ProfilesOk
    <2> QED BY <2>1, <2>2, Zenon DEF ListOk, ProfilesOk
  <1> QED BY <1>1, <1>2, <1>4, <1>5, <1>6, <1>7, <1>8, <1>9, HeadTyped, Zenon DEF Next, Deliver, QueueOk
-----------------------------------------------------------------------------
(* The host works for nobody. *)

LEMMA RequestFacts ==
    ASSUME RequestOk, QueueOk, DrawerOk
    PROVE  /\ host \in SUBSET Requests /\ refresh \in Refresh \cup {None} /\ auto \in BOOLEAN
           /\ nextId \in 1 .. MaxRequests + 1 /\ nextId \in Nat /\ nextDrawer \in Nat /\ drawer \in DrawerState
           /\ Answered("models", queued) \in SUBSET Nat /\ Answered("tested", queued) \in SUBSET Nat
           /\ ModelsSound(host, refresh, nextId, Answered("models", queued))
           /\ TestsSound(host, drawer, nextId, nextDrawer, Answered("tested", queued))
  <1>1. nextId \in 1 .. MaxRequests + 1 /\ nextId \in Nat
    BY EditorAssumption DEF RequestOk
  <1>2. Answered("models", queued) \in SUBSET Nat /\ Answered("tested", queued) \in SUBSET Nat
    <2>1. queued \in Seq(Messages)
      BY DEF QueueOk
    <2> QED BY <2>1, AnsweredTyped
  <1> QED BY <1>1, <1>2, Shapes, Zenon DEF RequestOk

LEMMA ModelsTold ==
    ASSUME NEW h, NEW k, NEW n, NEW a, NEW b \in SUBSET a, ModelsSound(h, k, n, a)
    PROVE  ModelsSound(h, k, n, b)
  BY Zenon DEF ModelsSound

LEMMA TestsTold ==
    ASSUME NEW h, NEW d, NEW n, NEW m, NEW a, NEW b \in SUBSET a, TestsSound(h, d, n, m, a)
    PROVE  TestsSound(h, d, n, m, b)
  BY Zenon DEF TestsSound

\* An answer arrives at most: nothing is answered.
Delivered == queued' = queued \/ (queued # <<>> /\ queued' = Tail(queued))

LEMMA RequestMoves ==
    ASSUME QueueOk, Delivered,
           host' \in SUBSET Requests, refresh' \in Refresh \cup {None}, auto' \in BOOLEAN,
           nextId' \in 1 .. MaxRequests + 1,
           ModelsSound(host', refresh', nextId', Answered("models", queued)),
           TestsSound(host', drawer', nextId', nextDrawer', Answered("tested", queued))
    PROVE  RequestOk'
  <1>1. \A name : Answered(name, queued') \subseteq Answered(name, queued)
    <2>1. CASE queued' = queued
      BY <2>1, Zenon
    <2>2. CASE queued # <<>> /\ queued' = Tail(queued)
      BY <2>2, AnsweredTail, Zenon DEF QueueOk
    <2> QED BY <2>1, <2>2, Zenon DEF Delivered
  <1>2. ModelsSound(host', refresh', nextId', Answered("models", queued'))
    BY <1>1, ModelsTold, Zenon
  <1>3. TestsSound(host', drawer', nextId', nextDrawer', Answered("tested", queued'))
    BY <1>1, TestsTold, Zenon
  <1> QED BY <1>2, <1>3, Zenon DEF RequestOk, Answered

\* A step leaves requests of the host, or asks for models after that.
LEMMA RequestEnds ==
    ASSUME RequestOk, QueueOk, DrawerOk, DrawerOk', Delivered,
           NEW g \in SUBSET Requests, NEW k \in Refresh \cup {None}, NEW d, d.profile \in Profile \cup {None},
           ModelsSound(g, k, nextId, Answered("models", queued)),
           TestsSound(g, drawer', nextId, nextDrawer', Answered("tested", queued)),
           \/ host' = g /\ refresh' = k /\ auto' \in BOOLEAN /\ nextId' = nextId
           \/ (RequestModels(FALSE, d, k, g) \/ RequestModels(TRUE, d, k, g)) /\ auto' \in BOOLEAN
           \/ FlushModels(d, k, g)
    PROVE  RequestOk'
  <1>1. /\ nextId \in 1 .. MaxRequests + 1 /\ nextId \in Nat /\ nextDrawer' \in Nat /\ drawer' \in DrawerState
        /\ Answered("models", queued) \in SUBSET Nat /\ Answered("tested", queued) \in SUBSET Nat
        /\ auto \in BOOLEAN
    <2>1. nextDrawer' \in Nat /\ drawer' \in DrawerState
      BY EditorAssumption DEF DrawerOk, Shape
    <2> QED BY <2>1, RequestFacts
  <1>2. CASE host' = g /\ refresh' = k /\ auto' \in BOOLEAN /\ nextId' = nextId
    BY <1>1, <1>2, RequestMoves, Zenon
  <1>3. ASSUME /\ refresh' \in Refresh \cup {None} /\ host' \in SUBSET Requests /\ auto' \in BOOLEAN
               /\ nextId' \in 1 .. MaxRequests + 1 /\ nextId <= nextId'
               /\ Fewer(TestKinds, g, host')
               /\ ModelsSound(host', refresh', nextId', Answered("models", queued))
        PROVE  RequestOk'
    <2>1. nextId' \in Nat
      BY <1>3, EditorAssumption
    <2>2. TestsSound(host', drawer', nextId, nextDrawer', Answered("tested", queued))
      BY <1>3, TestsFewer, Zenon
    <2>3. nextDrawer' <= nextDrawer'
      BY <1>1
    <2>4. TestsSound(host', drawer', nextId', nextDrawer', Answered("tested", queued))
      BY <1>1, <1>3, <2>1, <2>2, <2>3, TestsLater, Zenon
    <2> QED BY <1>3, <2>4, RequestMoves, Zenon
  <1>4. ASSUME NEW manual \in BOOLEAN, RequestModels(manual, d, k, g), auto' \in BOOLEAN PROVE RequestOk'
    BY <1>1, <1>3, <1>4, Asked, Zenon
  <1>5. CASE FlushModels(d, k, g)
    BY <1>1, <1>3, <1>5, Flushed, Zenon
  <1> QED BY <1>2, <1>4, <1>5, Zenon

\* What all of a drawer's requests are cancelled with.
LEMMA ModelsCancelled ==
    ASSUME NEW g, NEW n, NEW a, ModelsSound(host, refresh, n, a), Fewer(ModelKinds, host, g),
           \A q \in g : ~q.cancelled => q \in host /\ q.id \notin RefreshIds
    PROVE  ModelsSound(g, None, n, a)
  <1>1. ASSUME NEW q \in g, q.kind \in ModelKinds, ~q.cancelled PROVE FALSE
    <2>1. q \in host /\ q.id \notin RefreshIds
      BY <1>1
    <2>2. refresh # None /\ refresh.id = q.id
      BY <1>1, <2>1, Zenon DEF ModelsSound
    <2> QED BY <2>1, <2>2, Zenon DEF RefreshIds
  <1>2. \A q \in g : q.kind \in ModelKinds => q.cancelled
    BY <1>1, Zenon
  <1> QED BY <1>2, ModelsForgotten, Zenon

LEMMA CancelAll ==
    ASSUME RequestOk, QueueOk, DrawerOk, NEW ids, NEW closing
    PROVE  LET g == Cancelled(host, ids \cup RefreshIds, closing) IN
           /\ g \in SUBSET Requests /\ Fewer(TestKinds, host, g)
           /\ ModelsSound(g, None, nextId, Answered("models", queued))
           /\ \A q \in g : ~q.cancelled => q \in host /\ q.id \notin ids
  <1>1. PICK all : all = ids \cup RefreshIds
    OBVIOUS
  <1>2. PICK g : g = Cancelled(host, all, closing)
    OBVIOUS
  <1>3. /\ g \in SUBSET Requests /\ Fewer(ModelKinds, host, g) /\ Fewer(TestKinds, host, g)
        /\ \A q \in g : ~q.cancelled => q \in host /\ q.id \notin all
    BY <1>2, RequestFacts, CancelledFacts, Zenon
  <1>4. \A q \in g : ~q.cancelled => q \in host /\ q.id \notin RefreshIds /\ q.id \notin ids
    BY <1>1, <1>3, Zenon
  <1>5. ModelsSound(g, None, nextId, Answered("models", queued))
    BY <1>3, <1>4, RequestFacts, ModelsCancelled, Zenon
  <1> QED BY <1>1, <1>2, <1>3, <1>4, <1>5, Zenon

LEMMA CancelTests ==
    ASSUME RequestOk, QueueOk, DrawerOk, NEW ids, NEW closing
    PROVE  LET g == Cancelled(host, ids, closing) IN
           /\ g \in SUBSET Requests /\ Fewer(TestKinds, host, g) /\ Fewer(ModelKinds, host, g)
           /\ ModelsSound(g, refresh, nextId, Answered("models", queued))
           /\ \A q \in g : ~q.cancelled => q \in host /\ q.id \notin ids
  <1>1. PICK g : g = Cancelled(host, ids, closing)
    OBVIOUS
  <1>2. /\ g \in SUBSET Requests /\ Fewer(ModelKinds, host, g) /\ Fewer(TestKinds, host, g)
        /\ \A q \in g : ~q.cancelled => q \in host /\ q.id \notin ids
    BY <1>1, RequestFacts, CancelledFacts, Zenon
  <1>3. ModelsSound(g, refresh, nextId, Answered("models", queued))
    BY <1>2, RequestFacts, ModelsFewer, Zenon
  <1> QED BY <1>1, <1>2, <1>3, Zenon

LEMMA TestsEdited ==
    ASSUME RequestOk, QueueOk, DrawerOk, NEW c \in BOOLEAN, drawer' = Edited(c), nextDrawer' = nextDrawer,
           NEW g, Fewer(TestKinds, host, g),
           \A q \in g : ~q.cancelled => q \in host /\ q.id \notin EditTestIds
    PROVE  TestsSound(g, drawer', nextId, nextDrawer', Answered("tested", queued))
  <1>1. CASE Conflict
    <2>1. drawer' = drawer
      BY <1>1, Shapes, DEdited, Zenon
    <2> QED BY <2>1, RequestFacts, TestsFewer, Zenon
  <1>2. CASE ~Conflict
    <2>1. drawer'.test = None /\ drawer'.id = drawer.id /\ drawer'.validity = drawer.validity
      BY <1>2, Shapes, DEdited, Zenon DEF Same
    <2>2. \A q \in g : ~q.cancelled => q \in host /\ q.id \notin TestIds
      BY <1>2, Zenon DEF EditTestIds
    <2> QED BY <2>1, <2>2, RequestFacts, TestsCancelled, Zenon
  <1> QED BY <1>1, <1>2

\* An edit that cancels the models that are awaited.
LEMMA RequestEdits ==
    ASSUME RequestOk, QueueOk, DrawerOk, DrawerOk', Delivered, NEW c \in BOOLEAN, drawer' = Edited(c),
           nextDrawer' = nextDrawer, NEW closing, NEW d, d.profile \in Profile \cup {None},
           LET h == Cancelled(host, EditTestIds \cup RefreshIds, closing) IN
           \/ host' = h /\ refresh' = None /\ auto' \in BOOLEAN /\ nextId' = nextId
           \/ RequestModels(FALSE, d, None, h) /\ auto' \in BOOLEAN
           \/ FlushModels(d, None, h)
    PROVE  RequestOk'
  <1>1. PICK g : g = Cancelled(host, EditTestIds \cup RefreshIds, closing)
    OBVIOUS
  <1>2. /\ g \in SUBSET Requests /\ Fewer(TestKinds, host, g)
        /\ ModelsSound(g, None, nextId, Answered("models", queued))
        /\ \A q \in g : ~q.cancelled => q \in host /\ q.id \notin EditTestIds
    BY <1>1, CancelAll, Zenon
  <1>3. TestsSound(g, drawer', nextId, nextDrawer', Answered("tested", queued))
    BY <1>2, TestsEdited, Zenon
  <1>4. \/ host' = g /\ refresh' = None /\ auto' \in BOOLEAN /\ nextId' = nextId
        \/ RequestModels(FALSE, d, None, g) /\ auto' \in BOOLEAN
        \/ FlushModels(d, None, g)
    BY <1>1, Zenon
  <1> QED BY <1>2, <1>3, <1>4, RequestEnds, Zenon

\* A test that has been answered or given up.
LEMMA TestsEnded ==
    ASSUME NEW h, NEW g, NEW e, NEW n, NEW m, NEW a, TestsSound(h, drawer, n, m, a), Fewer(TestKinds, h, g),
           e.id = drawer.id, e.validity = drawer.validity, drawer.test # None, e.test # None,
           e.test.id = drawer.test.id, e.test.sent = drawer.test.sent,
           \A q \in g : q.kind \in TestKinds /\ ~q.cancelled => q.id # drawer.test.id
    PROVE  TestsSound(g, e, n, m, a)
  <1>1. TestsSound(g, drawer, n, m, a)
    BY TestsFewer, Zenon
  <1> QED BY <1>1, Zenon DEF TestsSound

\* A test begins in a drawer that has none under way.
LEMMA TestsStarted ==
    ASSUME NEW h \in SUBSET Requests, NEW e, NEW n \in Nat, NEW m, NEW a \in SUBSET Nat,
           TestsSound(h, drawer, n, m, a), ~Testing(drawer),
           e.id = drawer.id, e.validity = drawer.validity, e.test # None, e.test.id = n
    PROVE  TestsSound(h, e, n + 1, m, a)
  <1>1. \A i \in Nat : i < n => i < n + 1 /\ i # n
    OBVIOUS
  <1>2. \A r \in h : r.id \in Nat
    BY RequestFields DEF Request
  <1>3. n < n + 1
    OBVIOUS
  <1> QED BY <1>1, <1>2, <1>3, Zenon DEF TestsSound

\* The channel is closed, for a drawer d that is the drawer or has its test ended.
LEMMA RequestChannel ==
    ASSUME RequestOk, QueueOk, DrawerOk, DrawerOk', KeyOk, SaveOk, Delivered, nextDrawer' = nextDrawer,
           NEW d \in DrawerState, NEW h \in SUBSET Requests, CloseChannel(d, h), Fewer(ModelKinds, host, h),
           TestsSound(h, d, nextId, nextDrawer, Answered("tested", queued))
    PROVE  RequestOk'
  <1>1. ModelsSound(h, refresh, nextId, Answered("models", queued))
    BY RequestFacts, ModelsFewer, Zenon
  <1>2. /\ refresh \in Refresh \cup {None} /\ auto \in BOOLEAN /\ nextId \in 1 .. MaxRequests + 1
        /\ Answered("models", queued) \in SUBSET Nat /\ nextId \in Nat /\ nextDrawer \in Nat
        /\ Answered("tested", queued) \in SUBSET Nat
    BY RequestFacts
  <1>3. owner \in BOOLEAN /\ locked \in BOOLEAN /\ (load # 0 => reader # None /\ reader.drawer = load)
    BY KeyTyped, Zenon DEF SaveOk
  <1>4. /\ drawer' = ChannelDrawer(d)
        /\ refresh' \in Refresh \cup {None} /\ host' \in SUBSET Requests /\ auto' \in BOOLEAN
        /\ nextId' \in 1 .. MaxRequests + 1 /\ nextId <= nextId' /\ Fewer(TestKinds, h, host')
        /\ ModelsSound(host', refresh', nextId', Answered("models", queued))
    BY <1>1, <1>2, <1>3, ChannelCloses, Zenon
  <1>5. /\ ChannelDrawer(d) \in DrawerState
        /\ ChannelDrawer(d).id = d.id /\ ChannelDrawer(d).validity = d.validity
        /\ d.test = None => ChannelDrawer(d).test = None
        /\ d.test # None =>
             /\ ChannelDrawer(d).test \in Test /\ ChannelDrawer(d).test.id = d.test.id
             /\ ChannelDrawer(d).test.sent = d.test.sent
             /\ d.test.sent => ChannelDrawer(d).test = d.test
    BY DChannel, Zenon DEF Same
  <1>6. None \notin Test
    BY EditorAssumption
  <1>7. PICK e : e = ChannelDrawer(d)
    OBVIOUS
  <1>8. TestsSound(h, e, nextId, nextDrawer, Answered("tested", queued))
    BY <1>5, <1>6, <1>7, TestsAlike, Zenon
  <1>9. TestsSound(host', e, nextId, nextDrawer, Answered("tested", queued))
    BY <1>4, <1>8, TestsFewer, Zenon
  <1>10. nextId' \in Nat /\ nextDrawer <= nextDrawer
    BY <1>2, <1>4, EditorAssumption
  <1>11. TestsSound(host', e, nextId', nextDrawer, Answered("tested", queued))
    BY <1>2, <1>4, <1>5, <1>7, <1>9, <1>10, TestsLater, Zenon
  <1> QED BY <1>4, <1>7, <1>11, RequestMoves, Zenon

LEMMA RequestChannelSame ==
    ASSUME RequestOk, QueueOk, DrawerOk, DrawerOk', KeyOk, SaveOk, Delivered, nextDrawer' = nextDrawer,
           CloseChannel(drawer, host)
    PROVE  RequestOk'
  <1>1. Fewer(ModelKinds, host, host)
    BY SubsetFewer
  <1> QED BY <1>1, RequestFacts, RequestChannel, Zenon

\* The sidebar has done nothing that concerns the requests.
LEMMA RequestAlike ==
    ASSUME RequestOk, QueueOk, DrawerOk, DrawerOk', Delivered, nextDrawer' = nextDrawer,
           host' = host, refresh' = refresh, auto' \in BOOLEAN, nextId' = nextId,
           drawer'.id = drawer.id, drawer'.validity = drawer.validity, drawer'.test = drawer.test
    PROVE  RequestOk'
  <1>1. drawer.test # None => drawer'.test # None /\ drawer'.test.id = drawer.test.id
                               /\ drawer'.test.sent = drawer.test.sent
    BY Zenon
  <1>2. TestsSound(host, drawer', nextId, nextDrawer, Answered("tested", queued))
    BY <1>1, RequestFacts, TestsAlike, Zenon
  <1> QED BY <1>2, RequestFacts, RequestMoves, Zenon

LEMMA RequestUnchanged ==
    ASSUME RequestOk, QueueOk, DrawerOk, DrawerOk', Delivered, nextDrawer' = nextDrawer,
           host' = host, refresh' = refresh, auto' \in BOOLEAN, nextId' = nextId, drawer' = drawer
    PROVE  RequestOk'
  BY RequestAlike, Zenon

\* A request of another kind.
LEMMA RequestJoins ==
    ASSUME RequestOk, QueueOk, DrawerOk, DrawerOk', Delivered, nextDrawer' = nextDrawer,
           NEW g, NEW r \in Requests, r.kind \notin ModelKinds, r.kind \notin TestKinds,
           g \in SUBSET Requests, Fewer(ModelKinds, host, g), Fewer(TestKinds, host, g),
           host' = g \cup {r}, refresh' = refresh, auto' = auto,
           nextId' \in 1 .. MaxRequests + 1, nextId <= nextId',
           drawer' = drawer \/ (/\ drawer'.test = None /\ drawer'.id = drawer.id
                                /\ drawer'.validity = drawer.validity
                                /\ \A q \in g : ~q.cancelled => q \in host /\ q.id \notin TestIds)
    PROVE  RequestOk'
  <1>1. Fewer(ModelKinds, host, host') /\ Fewer(TestKinds, g, host')
    <2>1. Fewer(TestKinds, g, g)
      BY SubsetFewer
    <2> QED BY <2>1, OthersJoin, Zenon
  <1>2. host' \in SUBSET Requests
    BY Zenon
  <1>3. /\ nextId \in Nat /\ nextDrawer \in Nat /\ nextId' \in Nat /\ nextDrawer <= nextDrawer
        /\ refresh \in Refresh \cup {None} /\ auto \in BOOLEAN /\ drawer' \in DrawerState
        /\ Answered("models", queued) \in SUBSET Nat /\ Answered("tested", queued) \in SUBSET Nat
    <2>1. nextId' \in Nat
      BY EditorAssumption
    <2>2. drawer' \in DrawerState
      BY DEF DrawerOk, Shape
    <2>3. nextDrawer <= nextDrawer
      BY Shapes
    <2> QED BY <2>1, <2>2, <2>3, RequestFacts, Zenon
  <1>4. ModelsSound(host', refresh, nextId, Answered("models", queued))
    BY <1>1, RequestFacts, ModelsFewer, Zenon
  <1>5. ModelsSound(host', refresh, nextId', Answered("models", queued))
    BY <1>2, <1>3, <1>4, ModelsLater, Zenon
  <1>6. TestsSound(g, drawer', nextId, nextDrawer, Answered("tested", queued))
    BY RequestFacts, TestsFewer, TestsCancelled, Zenon
  <1>7. TestsSound(host', drawer', nextId, nextDrawer, Answered("tested", queued))
    BY <1>1, <1>6, TestsFewer, Zenon
  <1>8. TestsSound(host', drawer', nextId', nextDrawer, Answered("tested", queued))
    BY <1>2, <1>3, <1>7, TestsLater, Zenon
  <1> QED BY <1>2, <1>3, <1>5, <1>8, RequestMoves, Zenon

\* The host's requests become fewer, and some are answered.
LEMMA RequestHost ==
    ASSUME RequestOk, UNCHANGED sidebarVars, host' \in SUBSET Requests,
           ModelsSound(host', refresh, nextId, Answered("models", queued')),
           TestsSound(host', drawer, nextId, nextDrawer, Answered("tested", queued'))
    PROVE  RequestOk'
  <1>1. refresh' = refresh /\ auto' = auto /\ nextId' = nextId /\ nextDrawer' = nextDrawer /\ drawer' = drawer
    BY Zenon DEF sidebarVars, modelVars, idVars, drawerVars
  <1> QED BY <1>1, Zenon DEF RequestOk, Answered

LEMMA RequestTells ==
    ASSUME RequestOk, QueueOk, DrawerOk, ProfilesOk', UNCHANGED sidebarVars, host' \in SUBSET Requests,
           Fewer(ModelKinds, host, host'), Fewer(TestKinds, host, host'),
           NEW s \in Seq(Messages), Tells(s), \A i \in 1 .. Len(s) : s[i].name \notin {"models", "tested"}
    PROVE  RequestOk'
  <1>1. Answered("models", s) = {} /\ Answered("tested", s) = {}
    BY DEF Answered
  <1>2. /\ Answered("models", queued') \subseteq Answered("models", queued)
        /\ Answered("tested", queued') \subseteq Answered("tested", queued)
    <2>1. "models" # "state" /\ "tested" # "state"
      OBVIOUS
    <2> QED BY <1>1, <2>1, TellsAnswers, Zenon
  <1>3. ModelsSound(host', refresh, nextId, Answered("models", queued'))
    BY <1>2, RequestFacts, ModelsFewer, ModelsTold, Zenon
  <1>4. TestsSound(host', drawer, nextId, nextDrawer, Answered("tested", queued'))
    BY <1>2, RequestFacts, TestsFewer, TestsTold, Zenon
  <1> QED BY <1>3, <1>4, RequestHost, Zenon

LEMMA ModelsAnswered ==
    ASSUME NEW h, NEW r \in h, NEW k, NEW n, NEW a, ModelsSound(h, k, n, a), r.kind \in ModelKinds
    PROVE  ModelsSound(h \ {r}, k, n, a \cup {r.id})
  BY Zenon DEF ModelsSound, Single

LEMMA TestsAnswered ==
    ASSUME NEW h, NEW r \in h, NEW d, NEW n, NEW m, NEW a, TestsSound(h, d, n, m, a), r.kind \in TestKinds
    PROVE  TestsSound(h \ {r}, d, n, m, a \cup {r.id})
  BY Zenon DEF TestsSound, Single
LEMMA ShapesNext ==
    ASSUME DrawerOk'
    PROVE  /\ drawer' \in DrawerState /\ drawer'.profile \in Profile \cup {None} /\ nextDrawer' \in Nat
           /\ nextDrawer' \in 1 .. MaxDrawers + 1
  <1>1. drawer' \in DrawerState /\ nextDrawer' \in 1 .. MaxDrawers + 1
    BY Zenon DEF DrawerOk, Shape
  <1>2. drawer'.profile \in Profile \cup {None}
    BY <1>1 DEF DrawerState
  <1>3. nextDrawer' \in Nat
    BY <1>1, EditorAssumption
  <1> QED BY <1>1, <1>2, <1>3, Zenon

LEMMA RequestPlain ==
    ASSUME RequestOk, QueueOk, DrawerOk, DrawerOk', Delivered,
           NEW g \in SUBSET Requests, NEW k \in Refresh \cup {None},
           ModelsSound(g, k, nextId, Answered("models", queued)),
           TestsSound(g, drawer', nextId, nextDrawer', Answered("tested", queued)),
           host' = g, refresh' = k, auto' \in BOOLEAN, nextId' = nextId
    PROVE  RequestOk'
  BY RequestEnds, Shapes, Zenon

\* An event that takes an id for something that is not a request of the host yet.
LEMMA RequestCounts ==
    ASSUME RequestOk, QueueOk, DrawerOk, DrawerOk', Delivered, nextDrawer' = nextDrawer,
           NEW g \in SUBSET Requests, ModelsSound(g, refresh, nextId, Answered("models", queued)),
           TestsSound(g, drawer', nextId, nextDrawer, Answered("tested", queued))
             \/ TestsSound(g, drawer', nextId + 1, nextDrawer, Answered("tested", queued)),
           host' = g, refresh' = refresh, auto' = auto, nextId <= MaxRequests, nextId' = nextId + 1
    PROVE  RequestOk'
  <1>1. /\ nextId \in Nat /\ nextDrawer \in Nat /\ refresh \in Refresh \cup {None} /\ auto \in BOOLEAN
        /\ Answered("models", queued) \in SUBSET Nat /\ Answered("tested", queued) \in SUBSET Nat
    BY RequestFacts
  <1>2. /\ nextId' \in Nat /\ nextId <= nextId' /\ nextId' <= nextId' /\ nextDrawer <= nextDrawer
        /\ nextId' \in 1 .. MaxRequests + 1
    BY <1>1, EditorAssumption
  <1>3. ModelsSound(g, refresh, nextId', Answered("models", queued))
    BY <1>1, <1>2, ModelsLater, Zenon
  <1>4. TestsSound(g, drawer', nextId', nextDrawer, Answered("tested", queued))
    BY <1>1, <1>2, ShapesNext, TestsLater, Zenon
  <1> QED BY <1>1, <1>2, <1>3, <1>4, RequestMoves, Zenon

\* The drawer is left, and its requests are cancelled.
LEMMA RequestLeaves ==
    ASSUME RequestOk, QueueOk, DrawerOk, DrawerOk', Delivered, NEW ids, NEW closing,
           TestsSound(Cancelled(host, ids \cup RefreshIds, closing), drawer', nextId, nextDrawer',
                      Answered("tested", queued)),
           LET h == Cancelled(host, ids \cup RefreshIds, closing) IN
           \/ host' = h /\ refresh' = None /\ auto' \in BOOLEAN /\ nextId' = nextId
           \/ RequestModels(FALSE, drawer', None, h) /\ auto' \in BOOLEAN
    PROVE  RequestOk'
  <1>1. PICK g : g = Cancelled(host, ids \cup RefreshIds, closing)
    OBVIOUS
  <1>2. g \in SUBSET Requests /\ ModelsSound(g, None, nextId, Answered("models", queued))
    BY <1>1, CancelAll, Zenon
  <1>3. TestsSound(g, drawer', nextId, nextDrawer', Answered("tested", queued))
    BY <1>1, Zenon
  <1>4. \/ host' = g /\ refresh' = None /\ auto' \in BOOLEAN /\ nextId' = nextId
        \/ RequestModels(FALSE, drawer', None, g) /\ auto' \in BOOLEAN
    BY <1>1, Zenon
  <1> QED BY <1>2, <1>3, <1>4, ShapesNext, RequestEnds, Zenon

\* A new drawer has no tests.
LEMMA TestsOpened ==
    ASSUME RequestOk, QueueOk, DrawerOk, NEW g \in SUBSET Requests, Fewer(TestKinds, host, g),
           NEW e \in DrawerState, e.test = None, e.id = nextDrawer
    PROVE  TestsSound(g, e, nextId, nextDrawer + 1, Answered("tested", queued))
  <1>1. TestsSound(g, drawer, nextId, nextDrawer, Answered("tested", queued))
    BY RequestFacts, TestsFewer, Zenon
  <1>2. \A q \in g : q.kind \in TestKinds => q.drawer # e.id
    <2>1. nextDrawer \notin 1 .. nextDrawer - 1
      BY RequestFacts
    <2> QED BY <1>1, <2>1, Zenon DEF TestsSound
  <1>3. TestsSound(g, e, nextId, nextDrawer, Answered("tested", queued))
    BY <1>2, RequestFacts, TestsForgotten, Zenon
  <1>4. /\ nextDrawer \in Nat /\ nextDrawer + 1 \in Nat /\ nextDrawer <= nextDrawer + 1
        /\ nextId \in Nat /\ nextId <= nextId /\ Answered("tested", queued) \in SUBSET Nat
    BY RequestFacts
  <1> QED BY <1>3, <1>4, TestsLater, Zenon

\* A drawer that is closed, or the same one without its test.
LEMMA TestsLeft ==
    ASSUME RequestOk, QueueOk, DrawerOk, DrawerOk', nextDrawer' = nextDrawer, NEW g, Fewer(TestKinds, host, g),
           \/ IsClosed(drawer')
           \/ /\ Same(drawer, drawer') /\ drawer'.validity = drawer.validity /\ drawer'.test = None
              /\ \A q \in g : ~q.cancelled => q \in host /\ q.id \notin TestIds
    PROVE  TestsSound(g, drawer', nextId, nextDrawer', Answered("tested", queued))
  <1>1. CASE IsClosed(drawer')
    BY <1>1, RequestFacts, TestsClosed, Zenon
  <1>2. CASE ~IsClosed(drawer')
    BY <1>2, RequestFacts, TestsCancelled, Zenon DEF Same
  <1> QED BY <1>1, <1>2

\* What a list does to the drawer concerns its tests as little.
LEMMA TestsListed ==
    ASSUME RequestOk, QueueOk, DrawerOk, NEW g, Fewer(TestKinds, host, g), NEW l, NEW d,
           GoesOn(l, d) \/ FallsInConflict(l, d) \/ IsClosed(d)
    PROVE  TestsSound(g, d, nextId, nextDrawer, Answered("tested", queued))
  <1>1. TestsSound(g, drawer, nextId, nextDrawer, Answered("tested", queued))
    BY RequestFacts, TestsFewer, Zenon
  <1>2. CASE GoesOn(l, d)
    BY <1>1, <1>2, TestsAlike, Zenon DEF GoesOn, Same
  <1>3. CASE FallsInConflict(l, d)
    <2>1. d.test = None /\ d.validity = "conflict"
      BY <1>3, Zenon DEF FallsInConflict
    <2> QED BY <2>1, RequestFacts, TestsForgotten, Zenon
  <1>4. CASE IsClosed(d)
    BY <1>4, RequestFacts, TestsClosed, Zenon
  <1> QED BY <1>2, <1>3, <1>4

LEMMA RequestAuthority ==
    ASSUME RequestOk, QueueOk, DrawerOk, DrawerOk', KeyOk, Delivered, nextDrawer' = nextDrawer,
           NEW m, NEW sw, ApplyAuthority(m, sw), m.list \in [Profile -> Revision],
           host' = host, refresh' = refresh, nextId' = nextId
    PROVE  RequestOk'
  <1>1. auto' \in BOOLEAN
    <2>1. Ignored(m, sw) \/ Applied(m, sw)
      BY ApplyAuthorityIs, Zenon DEF KeyOk, RequestOk
    <2> QED BY <2>1, Zenon DEF Ignored, Applied, RequestOk
  <1>2. CASE drawer' = drawer
    BY <1>1, <1>2, RequestUnchanged, Zenon
  <1>3. ASSUME NEW l, GoesOn(l, drawer') \/ FallsInConflict(l, drawer') \/ IsClosed(drawer')
        PROVE  RequestOk'
    <2>1. Fewer(TestKinds, host, host)
      BY SubsetFewer
    <2>2. TestsSound(host, drawer', nextId, nextDrawer', Answered("tested", queued))
      BY <1>3, <2>1, TestsListed, Zenon
    <2> QED BY <1>1, <2>2, RequestFacts, RequestPlain, Zenon
  <1> QED BY <1>2, <1>3, AuthorityDrawer, Zenon

\* The load ends: the intent that waited for it is flushed.
LEMMA RequestFinishes ==
    ASSUME RequestOk, QueueOk, DrawerOk, DrawerOk', KeyOk, Delivered, nextDrawer' = nextDrawer,
           reader # None, drawer' = drawer, FinishLoad(drawer, host)
    PROVE  RequestOk'
  <1>1. FlushModels(drawer, refresh, host)
          \/ (auto' = auto /\ refresh' = refresh /\ nextId' = nextId /\ host' = host)
    BY FinishLoadIs, Zenon
  <1>2. CASE auto' = auto /\ refresh' = refresh /\ nextId' = nextId /\ host' = host
    BY <1>2, RequestFacts, RequestUnchanged, Zenon
  <1>3. CASE FlushModels(drawer, refresh, host)
    <2>1. TestsSound(host, drawer', nextId, nextDrawer', Answered("tested", queued))
      BY RequestFacts, Zenon
    <2> QED BY <1>3, <2>1, RequestFacts, Shapes, RequestEnds, Zenon
  <1> QED BY <1>1, <1>2, <1>3

LEMMA ModelsUnseal ==
    ASSUME RequestOk, QueueOk, DrawerOk, NEW g \in SUBSET Requests,
           ModelsSound(g, refresh, nextId, Answered("models", queued)),
           (Unsealed = None /\ refresh' = None) \/ Unseals(refresh')
    PROVE  refresh' \in Refresh \cup {None} /\ ModelsSound(g, refresh', nextId, Answered("models", queued))
  <1>1. CASE Unsealed = None /\ refresh' = None
    BY <1>1, RequestFacts, UnsealedFacts, Zenon
  <1>2. CASE Unseals(refresh')
    <2>1. /\ refresh # None /\ refresh'.id = refresh.id /\ refresh'.sent = refresh.sent /\ refresh' \in Refresh
          /\ refresh \in Refresh
      BY <1>2, RequestFacts, Zenon DEF Unseals, Unsealed
    <2>2. refresh' # None /\ nextId <= nextId
      BY <2>1, RequestFacts, EditorAssumption
    <2> QED BY <2>1, <2>2, RequestFacts, ModelsAlike, Zenon
  <1> QED BY <1>1, <1>2

LEMMA DeleteTyped ==
    ASSUME NEW i \in Request, NEW p \in Profile, NEW v \in Revision
    PROVE  LET r == [kind |-> "delete", id |-> i, cancelled |-> FALSE, of |-> [profile |-> p, revision |-> v]] IN
           r \in Requests /\ r.kind \notin ModelKinds /\ r.kind \notin TestKinds
  BY DEF Requests, Deletes, Ref, ModelKinds, TestKinds

LEMMA SwitchTyped ==
    ASSUME NEW i \in Request, NEW p \in Profile, NEW v \in Revision, NEW on \in BOOLEAN
    PROVE  LET r == [kind |-> "switch", id |-> i, on |-> on, cancelled |-> FALSE,
                     of |-> [profile |-> p, revision |-> v]] IN
           r \in Requests /\ r.kind \notin ModelKinds /\ r.kind \notin TestKinds
  BY DEF Requests, Switches, Ref, ModelKinds, TestKinds

LEMMA SaveTyped ==
    ASSUME NEW s \in Save
    PROVE  LET r == [kind |-> "save", id |-> s.id, of |-> s.of, cancelled |-> FALSE] IN
           r \in Requests /\ r.kind \notin ModelKinds /\ r.kind \notin TestKinds
  BY DEF Requests, Saves, Save, ModelKinds, TestKinds

LEMMA OneCancelled ==
    ASSUME NEW h \in SUBSET Requests, NEW kind
    PROVE  LET g == {IF q.kind = kind THEN [q EXCEPT !.cancelled = TRUE] ELSE q : q \in h} IN
           /\ g \in SUBSET Requests /\ Fewer(ModelKinds, h, g) /\ Fewer(TestKinds, h, g)
           /\ \A q \in g : ~q.cancelled => q \in h /\ q.kind # kind
  <1> DEFINE P == {r \in h : r.kind = kind}
  <1>1. PICK g : g = {IF q.kind = kind THEN [q EXCEPT !.cancelled = TRUE] ELSE q : q \in h}
    OBVIOUS
  <1>2. Cancels(h, g, P)
    BY <1>1, Zenon DEF Cancels
  <1>3. /\ g \in SUBSET Requests /\ Fewer(ModelKinds, h, g) /\ Fewer(TestKinds, h, g)
        /\ \A q \in g : ~q.cancelled => q \in h /\ q \notin P
    <2> HIDE DEF P
    <2> QED BY <1>2, CancelsSome
  <1>4. \A q \in g : ~q.cancelled => q \in h /\ q.kind # kind
    BY <1>3, Zenon
  <1> QED BY <1>1, <1>3, <1>4, Zenon

LEMMA DraftsCancelled ==
    ASSUME NEW h \in SUBSET Requests
    PROVE  LET g == {IF q.kind \in {"test", "draft-models"} THEN [q EXCEPT !.cancelled = TRUE] ELSE q : q \in h} IN
           g \in SUBSET Requests /\ Fewer(ModelKinds, h, g) /\ Fewer(TestKinds, h, g)
  <1> DEFINE P == {r \in h : r.kind \in {"test", "draft-models"}}
  <1>1. PICK g : g = {IF q.kind \in {"test", "draft-models"} THEN [q EXCEPT !.cancelled = TRUE] ELSE q : q \in h}
    OBVIOUS
  <1>2. Cancels(h, g, P)
    BY <1>1, Zenon DEF Cancels
  <1>3. /\ g \in SUBSET Requests /\ Fewer(ModelKinds, h, g) /\ Fewer(TestKinds, h, g)
    <2> HIDE DEF P
    <2> QED BY <1>2, CancelsSome
  <1> QED BY <1>1, <1>3, Zenon

SentAs(kind, id, draft) ==
    \E g \in SUBSET Requests, r \in Requests :
        /\ Sent(kind, id, draft) = g \cup {r}
        /\ Fewer(ModelKinds, host, g) /\ Fewer(TestKinds, host, g)
        /\ \A q \in g : ~q.cancelled => q \in host /\ q.kind # kind
        /\ r.kind = kind /\ r.id = id /\ r.drawer = drawer.id /\ r.cancelled = FALSE

\* The draft is sent: what was sent for the purpose before is cancelled.
LEMMA SentIs ==
    ASSUME RequestOk, QueueOk, DrawerOk, NEW kind \in DraftKinds, NEW id \in Request, NEW draft \in Nat
    PROVE  SentAs(kind, id, draft)
  <1>1. PICK g : g = {IF q.kind = kind THEN [q EXCEPT !.cancelled = TRUE] ELSE q : q \in host}
    OBVIOUS
  <1>2. /\ g \in SUBSET Requests /\ Fewer(ModelKinds, host, g) /\ Fewer(TestKinds, host, g)
        /\ \A q \in g : ~q.cancelled => q \in host /\ q.kind # kind
    BY <1>1, RequestFacts, OneCancelled, Zenon
  <1>3. PICK r : r = [kind |-> kind, id |-> id, of |-> drawer.profile, drawer |-> drawer.id, draft |-> draft,
                      cancelled |-> FALSE]
    OBVIOUS
  <1>4. /\ r \in Requests /\ r.kind = kind /\ r.id = id /\ r.drawer = drawer.id /\ r.cancelled = FALSE
    <2>1. drawer.profile \in Profile \cup {None} /\ drawer.id \in Drawer
      BY Shapes DEF DrawerState
    <2> QED BY <1>3, <2>1 DEF Requests, Drafts
  <1>5. Sent(kind, id, draft) = g \cup {r}
    BY <1>1, <1>3, Zenon DEF Sent
  <1> QED BY <1>2, <1>4, <1>5, Zenon DEF SentAs

LEMMA ModelsSent ==
    ASSUME NEW h, NEW g, NEW r, NEW k, NEW l, NEW n, NEW a, ModelsSound(h, k, n, a), Fewer(ModelKinds, h, g),
           k # None, ~k.sent, l # None, l.id = k.id, l.sent, r.id = k.id, r.cancelled = FALSE
    PROVE  ModelsSound(g \cup {r}, l, n, a)
  <1>1. ModelsSound(g, k, n, a)
    BY ModelsFewer, Zenon
  <1>2. \A q \in g : q.kind \in ModelKinds => q.cancelled /\ q.id # r.id /\ q.id < n /\ q.id \notin a
    BY <1>1, Zenon DEF ModelsSound
  <1>3. Single(ModelKinds, g \cup {r})
    <2>1. Single(ModelKinds, g)
      BY <1>1, Zenon DEF ModelsSound
    <2> QED BY <1>2, <2>1, Zenon DEF Single
  <1>4. r.id < n /\ r.id \notin a /\ \A i \in a : i < n
    BY <1>1, Zenon DEF ModelsSound
  <1> QED BY <1>2, <1>3, <1>4, Zenon DEF ModelsSound

LEMMA TestsSent ==
    ASSUME NEW h, NEW g, NEW r, NEW e, NEW n, NEW m, NEW a, TestsSound(h, drawer, n, m, a),
           Fewer(TestKinds, h, g), \A q \in g : ~q.cancelled => q.kind # "test",
           Testing(drawer), ~drawer.test.sent, e.id = drawer.id, e.validity = drawer.validity,
           Testing(e), e.test.id = drawer.test.id, e.test.sent = TRUE,
           r.id = drawer.test.id, r.drawer = drawer.id, drawer.id \in 1 .. m - 1
    PROVE  TestsSound(g \cup {r}, e, n, m, a)
  <1>1. TestsSound(g, drawer, n, m, a) /\ drawer.test # None
    BY TestsFewer, Zenon DEF Testing
  <1>2. \A q \in g : q.kind \in TestKinds =>
          q.cancelled /\ q.id # r.id /\ q.id < n /\ q.id \notin a /\ q.drawer \in 1 .. m - 1
    <2>1. \A q \in g : q.kind \in TestKinds => q.kind = "test"
      BY DEF TestKinds
    <2> QED BY <1>1, <2>1, Zenon DEF TestsSound
  <1>3. Single(TestKinds, g \cup {r})
    <2>1. Single(TestKinds, g)
      BY <1>1, Zenon DEF TestsSound
    <2> QED BY <1>2, <2>1, Zenon DEF Single
  <1>4. r.id < n /\ r.id \notin a /\ \A i \in a : i < n
    BY <1>1, Zenon DEF TestsSound
  <1> QED BY <1>1, <1>2, <1>3, <1>4, Zenon DEF TestsSound, Testing

LEMMA NextDrawer ==
    ASSUME DrawerOk, nextDrawer <= MaxDrawers
    PROVE  nextDrawer \in Drawer
  BY EditorAssumption DEF DrawerOk, Drawer

LEMMA NextId ==
    ASSUME RequestOk, nextId <= MaxRequests
    PROVE  nextId \in Request /\ nextId + 1 \in 1 .. MaxRequests + 1 /\ nextId <= nextId + 1
  BY EditorAssumption DEF RequestOk, Request
LEMMA TestedTest ==
    ASSUME drawer \in DrawerState, Testing(drawer), NEW phase \in {"passed", "failed"}
    PROVE  LET d == Tested(phase) IN
           /\ d \in DrawerState /\ d.id = drawer.id /\ d.validity = drawer.validity /\ drawer.test # None
           /\ d.test # None /\ d.test.id = drawer.test.id /\ d.test.sent = drawer.test.sent
  <1>1. PICK e : e = Tested(phase)
    OBVIOUS
  <1>2. /\ Same(drawer, e) /\ e.validity = drawer.validity /\ drawer.test # None
        /\ e.test # None /\ e.test.id = drawer.test.id /\ e.test.sent = drawer.test.sent
    BY <1>1, TestedIs, Zenon
  <1> QED BY <1>1, <1>2, Zenon DEF Same

LEMMA RequestEvent ==
    ASSUME DrawerOk, ListOk, ProfilesOk, KeyOk, WaitOk, RequestOk, TestOk, QueueOk, DrawerOk', ProfilesOk', User \/ Editor \/ Timers
    PROVE  RequestOk'
  <1>1. ASSUME NEW p \in Profile, OpenEditor(p) PROVE RequestOk'
    <2>1. PICK h : h = Cancelled(host, TestIds \cup RefreshIds, TRUE)
      OBVIOUS
    <2>2. Leaves /\ (Opens1(h) \/ Opens2(p, h) \/ Opens3(p, h))
      BY <1>1, <2>1, Shapes, OpenEditorIs, Zenon
    <2>3. Delivered
      BY <2>2, Zenon DEF Leaves, Delivered
    <2>4. /\ h \in SUBSET Requests /\ Fewer(TestKinds, host, h)
          /\ \A q \in h : ~q.cancelled => q \in host /\ q.id \notin TestIds
      BY <2>1, CancelAll, Zenon
    <2>5. CASE Opens1(h)
      <3>1. /\ drawer' = Closed /\ nextDrawer' = nextDrawer
            /\ host' = h /\ refresh' = None /\ auto' \in BOOLEAN /\ nextId' = nextId
        BY <2>5, CancelLoadIs, Zenon DEF Opens1
      <3>2. TestsSound(h, drawer', nextId, nextDrawer', Answered("tested", queued))
        BY <2>4, <3>1, ClosedIsClosed, TestsLeft, Zenon
      <3> QED BY <2>1, <2>3, <3>1, <3>2, RequestLeaves, Zenon
    <2>6. CASE Opens2(p, h)
      <3>1. /\ drawer' = Opened("editing", p, list[p]) /\ nextDrawer <= MaxDrawers /\ nextDrawer' = nextDrawer + 1
            /\ \/ host' = h /\ refresh' = None /\ auto' \in BOOLEAN /\ nextId' = nextId
               \/ RequestModels(FALSE, drawer', None, h) /\ auto' \in BOOLEAN
        BY <2>6, Zenon DEF Opens2
      <3>2. /\ drawer'.test = None /\ drawer'.id = nextDrawer
        <4> QED BY <3>1 DEF Opened, Closed
      <3>3. TestsSound(h, drawer', nextId, nextDrawer', Answered("tested", queued))
        BY <2>4, <3>1, <3>2, ShapesNext, TestsOpened, Zenon
      <3> QED BY <2>1, <2>3, <3>1, <3>3, RequestLeaves, Zenon
    <2>7. CASE Opens3(p, h)
      <3>1. /\ drawer' = [drawer EXCEPT !.test = None] /\ nextDrawer' = nextDrawer /\ auto' \in BOOLEAN
            /\ \/ host' = h /\ refresh' = None /\ nextId' = nextId
               \/ RequestModels(FALSE, drawer', None, h)
        BY <2>7, CancelLoadIs, Zenon DEF Opens3
      <3>2. Same(drawer, drawer') /\ drawer'.validity = drawer.validity /\ drawer'.test = None
        BY <3>1, Shapes, DTest, Zenon
      <3>3. TestsSound(h, drawer', nextId, nextDrawer', Answered("tested", queued))
        BY <2>4, <3>1, <3>2, TestsLeft, Zenon
      <3> QED BY <2>1, <2>3, <3>1, <3>3, RequestLeaves, Zenon
    <2> QED BY <2>2, <2>5, <2>6, <2>7, Zenon
  <1>2. ASSUME OpenNew PROVE RequestOk'
    <2>1. PICK h : h = Cancelled(host, TestIds \cup RefreshIds, TRUE)
      OBVIOUS
    <2>2. /\ drawer' = Opened("new", None, 0) /\ nextDrawer <= MaxDrawers /\ nextDrawer' = nextDrawer + 1
          /\ host' = h /\ refresh' = None /\ auto' \in BOOLEAN /\ nextId' = nextId /\ queued' = queued
      BY <1>2, <2>1, CancelLoadIs, Zenon DEF OpenNew
    <2>3. h \in SUBSET Requests /\ Fewer(TestKinds, host, h)
      BY <2>1, CancelAll, Zenon
    <2>4. /\ drawer'.test = None /\ drawer'.id = nextDrawer
      BY <2>2 DEF Opened, Closed
    <2>5. TestsSound(h, drawer', nextId, nextDrawer', Answered("tested", queued))
      BY <2>2, <2>3, <2>4, ShapesNext, TestsOpened, Zenon
    <2> QED BY <2>1, <2>2, <2>5, RequestLeaves, Zenon DEF Delivered
  <1>3. ASSUME CloseDrawer PROVE RequestOk'
    <2>1. PICK h : h = Cancelled(host, TestIds \cup RefreshIds, TRUE)
      OBVIOUS
    <2>2. /\ drawer' = Closed /\ nextDrawer' = nextDrawer
          /\ host' = h /\ refresh' = None /\ auto' \in BOOLEAN /\ nextId' = nextId /\ queued' = queued
      BY <1>3, <2>1, CancelLoadIs, Zenon DEF CloseDrawer, idVars
    <2>3. h \in SUBSET Requests /\ Fewer(TestKinds, host, h)
      BY <2>1, CancelAll, Zenon
    <2>4. TestsSound(h, drawer', nextId, nextDrawer', Answered("tested", queued))
      BY <2>2, <2>3, ClosedIsClosed, TestsLeft, Zenon
    <2> QED BY <2>1, <2>2, <2>4, RequestLeaves, Zenon DEF Delivered
  <1>4. ASSUME EditKind PROVE RequestOk'
    <2>1. /\ drawer' = Edited(FALSE) /\ nextDrawer' = nextDrawer /\ auto' \in BOOLEAN /\ queued' = queued
          /\ RequestModels(FALSE, drawer', None, Cancelled(host, EditTestIds \cup RefreshIds, TRUE))
      BY <1>4, CancelLoadIs, Zenon DEF EditKind
    <2> QED BY <2>1, ShapesNext, RequestEdits, Zenon DEF Delivered
  <1>5. ASSUME EditEndpoint PROVE RequestOk'
    <2>1. /\ drawer' = Edited(FALSE) /\ nextDrawer' = nextDrawer /\ auto' \in BOOLEAN /\ queued' = queued
          /\ host' = Cancelled(host, EditTestIds \cup RefreshIds, FALSE) /\ refresh' = None /\ nextId' = nextId
      BY <1>5, Zenon DEF EditEndpoint, idVars
    <2> QED BY <2>1, ShapesNext, RequestEdits, Zenon DEF Delivered
  <1>6. ASSUME EditRoute PROVE RequestOk'
    <2>1. PICK h : h = Cancelled(host, EditTestIds \cup RefreshIds, FALSE)
      OBVIOUS
    <2>2. /\ drawer' = Edited(FALSE) /\ nextDrawer' = nextDrawer /\ queued' = queued
          /\ \/ host' = h /\ refresh' = None /\ auto' = TRUE /\ nextId' = nextId
             \/ RequestModels(FALSE, drawer', None, h) /\ auto' = auto
             \/ FlushModels(drawer', None, h)
      BY <1>6, <2>1, Zenon DEF EditRoute
    <2>3. \/ host' = h /\ refresh' = None /\ auto' \in BOOLEAN /\ nextId' = nextId
          \/ RequestModels(FALSE, drawer', None, h) /\ auto' \in BOOLEAN
          \/ FlushModels(drawer', None, h)
      BY <2>2, RequestFacts, Zenon
    <2> QED BY <2>1, <2>2, <2>3, ShapesNext, RequestEdits, Zenon DEF Delivered
  <1>7. ASSUME EditModel PROVE RequestOk'
    <2>1. PICK h : h = Cancelled(host, EditTestIds, FALSE)
      OBVIOUS
    <2>2. /\ drawer' = Edited(FALSE) /\ nextDrawer' = nextDrawer /\ queued' = queued
          /\ host' = h /\ refresh' = refresh /\ auto' = auto /\ nextId' = nextId
      BY <1>7, <2>1, Zenon DEF EditModel, modelVars, idVars
    <2>3. /\ h \in SUBSET Requests /\ Fewer(TestKinds, host, h)
          /\ ModelsSound(h, refresh, nextId, Answered("models", queued))
          /\ \A q \in h : ~q.cancelled => q \in host /\ q.id \notin EditTestIds
      BY <2>1, CancelTests, Zenon
    <2>4. TestsSound(h, drawer', nextId, nextDrawer', Answered("tested", queued))
      BY <2>2, <2>3, TestsEdited, Zenon
    <2> QED BY <2>2, <2>3, <2>4, RequestFacts, RequestPlain, Zenon DEF Delivered
  <1>8. ASSUME TypeKey PROVE RequestOk'
    <2>1. /\ drawer' = Edited(TRUE) /\ nextDrawer' = nextDrawer /\ auto' = auto /\ queued' = queued
          /\ host' = Cancelled(host, EditTestIds \cup RefreshIds, FALSE) /\ refresh' = None /\ nextId' = nextId
      BY <1>8, Zenon DEF TypeKey, idVars
    <2> QED BY <2>1, RequestFacts, ShapesNext, RequestEdits, Zenon DEF Delivered
  <1>9. ASSUME RefreshModels PROVE RequestOk'
    <2>1. /\ drawer' = drawer /\ nextDrawer' = nextDrawer /\ queued' = queued /\ auto' \in BOOLEAN
          /\ RequestModels(TRUE, drawer, refresh, host)
      BY <1>9, RequestFacts, Zenon DEF RefreshModels, drawerVars
    <2>2. TestsSound(host, drawer', nextId, nextDrawer', Answered("tested", queued))
      BY <2>1, RequestFacts, Zenon
    <2> QED BY <2>1, <2>2, RequestFacts, Shapes, RequestEnds, Zenon DEF Delivered
  <1>10. ASSUME EndpointTimer PROVE RequestOk'
    <2>1. /\ drawer' = drawer /\ nextDrawer' = nextDrawer /\ queued' = queued /\ auto' \in BOOLEAN
          /\ RequestModels(FALSE, drawer, refresh, host)
      BY <1>10, RequestFacts, Zenon DEF EndpointTimer, drawerVars
    <2>2. TestsSound(host, drawer', nextId, nextDrawer', Answered("tested", queued))
      BY <2>1, RequestFacts, Zenon
    <2> QED BY <2>1, <2>2, RequestFacts, Shapes, RequestEnds, Zenon DEF Delivered
  <1>11. ASSUME StartTest PROVE RequestOk'
    <2>1. PICK o : o = [edits |-> edits, key |-> key]
      OBVIOUS
    <2>2. PICK t : t = [id |-> nextId, draft |-> drawer.draft, phase |-> "testing",
                         sent |-> FALSE, of |-> [edits |-> edits, key |-> key]]
      OBVIOUS
    <2>3. /\ nextId <= MaxRequests /\ drawer' = [drawer EXCEPT !.test = t] /\ ~Testing(drawer)
          /\ nextDrawer' = nextDrawer /\ queued' = queued /\ nextId' = nextId + 1
          /\ host' = host /\ refresh' = refresh /\ auto' = auto
      BY <1>11, <2>2, Zenon DEF StartTest, CanAsk, modelVars
    <2>4. t \in Test
      BY <2>2, <2>3, TestStarts DEF RequestOk
    <2>5. t # None /\ t.id = nextId
      BY <2>2, <2>4, EditorAssumption
    <2>6. drawer'.test = t /\ drawer'.validity = drawer.validity /\ drawer'.id = drawer.id
      BY <2>3, <2>4, Shapes, DTest, Zenon DEF Same
    <2>7. TestsSound(host, drawer', nextId + 1, nextDrawer, Answered("tested", queued))
      BY <2>3, <2>5, <2>6, RequestFacts, TestsStarted, Zenon
    <2> QED BY <2>3, <2>7, RequestFacts, RequestCounts, Zenon DEF Delivered
  <1>12. ASSUME StartSave PROVE RequestOk'
    <2>1. PICK h : h = Cancelled(host, TestIds, FALSE)
      OBVIOUS
    <2>2. /\ nextId <= MaxRequests /\ nextDrawer' = nextDrawer /\ queued' = queued /\ nextId' = nextId + 1
          /\ drawer' = [drawer EXCEPT !.submits = @ + 1, !.test = None, !.saving = TRUE]
          /\ host' = h /\ refresh' = refresh /\ auto' = auto
      BY <1>12, <2>1, Zenon DEF StartSave, CanAsk, modelVars
    <2>3. /\ h \in SUBSET Requests /\ Fewer(TestKinds, host, h)
          /\ ModelsSound(h, refresh, nextId, Answered("models", queued))
          /\ \A q \in h : ~q.cancelled => q \in host /\ q.id \notin TestIds
      BY <2>1, CancelTests, Zenon
    <2>4. Same(drawer, drawer') /\ drawer'.validity = drawer.validity /\ drawer'.test = None
      BY <2>2, Shapes, DSubmitted, Zenon
    <2>5. TestsSound(h, drawer', nextId, nextDrawer, Answered("tested", queued))
      BY <2>2, <2>3, <2>4, TestsLeft, Zenon
    <2> QED BY <2>2, <2>3, <2>5, RequestCounts, Zenon DEF Delivered
  <1>13. ASSUME PageHides PROVE RequestOk'
    <2>1. PICK x \in BOOLEAN : x = (save = None)
      OBVIOUS
    <2>2. PICK h : h = Cancelled(host, TestIds \cup RefreshIds, TRUE)
      OBVIOUS
    <2>3. /\ drawer' = [drawer EXCEPT !.test = None, !.saving = @ /\ x] /\ nextDrawer' = nextDrawer
          /\ host' = h /\ refresh' = None /\ auto' \in BOOLEAN /\ nextId' = nextId /\ queued' = queued
      BY <1>13, <2>1, <2>2, CancelLoadIs, Zenon DEF PageHides, idVars
    <2>4. /\ h \in SUBSET Requests /\ Fewer(TestKinds, host, h)
          /\ \A q \in h : ~q.cancelled => q \in host /\ q.id \notin TestIds
      BY <2>2, CancelAll, Zenon
    <2>5. Same(drawer, drawer') /\ drawer'.validity = drawer.validity /\ drawer'.test = None
      BY <2>3, Shapes, DHidden, Zenon
    <2>6. TestsSound(h, drawer', nextId, nextDrawer', Answered("tested", queued))
      BY <2>3, <2>4, <2>5, TestsLeft, Zenon
    <2> QED BY <2>2, <2>3, <2>6, RequestLeaves, Zenon DEF Delivered
  <1>14. ASSUME AskDelete PROVE RequestOk'
    <2>1. /\ drawer' \in {drawer, [drawer EXCEPT !.deleting = "confirming"]} /\ queued' = queued
          /\ host' = host /\ refresh' = refresh /\ auto' = auto /\ nextId' = nextId /\ nextDrawer' = nextDrawer
      BY <1>14, Zenon DEF AskDelete, modelVars, idVars
    <2>2. drawer'.test = drawer.test /\ drawer'.validity = drawer.validity /\ drawer'.id = drawer.id
      <3>1. CASE drawer' = drawer
        BY <3>1, Zenon
      <3>2. CASE drawer' = [drawer EXCEPT !.deleting = "confirming"]
        BY <3>2, Shapes, DDeleting, Zenon DEF Same
      <3> QED BY <2>1, <3>1, <3>2, Zenon
    <2> QED BY <2>1, <2>2, RequestFacts, RequestAlike, Zenon DEF Delivered
  <1>15. ASSUME CancelDelete PROVE RequestOk'
    <2>1. /\ drawer' = WithoutDialog /\ queued' = queued
          /\ host' = host /\ refresh' = refresh /\ auto' = auto /\ nextId' = nextId /\ nextDrawer' = nextDrawer
      BY <1>15, Zenon DEF CancelDelete, modelVars, idVars
    <2>2. drawer'.test = drawer.test /\ drawer'.validity = drawer.validity /\ drawer'.id = drawer.id
      BY <2>1, Shapes, WithoutIs, Zenon DEF Same
    <2> QED BY <2>1, <2>2, RequestFacts, RequestAlike, Zenon DEF Delivered
  <1>16. ASSUME ConfirmDelete PROVE RequestOk'
    <2>1. PICK b \in BOOLEAN : b = (drawer.profile = dialog.profile)
      OBVIOUS
    <2>2. PICK h : h = Cancelled(host, TestIds, FALSE)
      OBVIOUS
    <2>3. PICK i, p, v : i = nextId /\ p = dialog.profile /\ v = dialog.revision
      OBVIOUS
    <2>4. PICK r : r = [kind |-> "delete", id |-> i, cancelled |-> FALSE, of |-> [profile |-> p, revision |-> v]]
      OBVIOUS
    <2>5. /\ dialog # None /\ nextId <= MaxRequests /\ nextDrawer' = nextDrawer /\ queued' = queued
          /\ nextId' = nextId + 1
          /\ drawer' = [drawer EXCEPT !.test = None, !.deleting = IF b THEN "deleting" ELSE @]
          /\ host' = h \cup {r} /\ refresh' = refresh /\ auto' = auto
      BY <1>16, <2>1, <2>2, <2>3, <2>4, Zenon DEF ConfirmDelete, modelVars
    <2>6. /\ h \in SUBSET Requests /\ Fewer(TestKinds, host, h) /\ Fewer(ModelKinds, host, h)
          /\ \A q \in h : ~q.cancelled => q \in host /\ q.id \notin TestIds
      BY <2>2, CancelTests, Zenon
    <2>7. Same(drawer, drawer') /\ drawer'.validity = drawer.validity /\ drawer'.test = None
      BY <2>5, Shapes, DConfirmed, Zenon
    <2>8. r \in Requests /\ r.kind \notin ModelKinds /\ r.kind \notin TestKinds
      <3>1. dialog \in Dialog
        BY <2>5, Zenon DEF WaitOk, DialogOk
      <3>2. i \in Request /\ p \in Profile /\ v \in Revision
        BY <2>3, <2>5, <3>1, NextId DEF Dialog
      <3> QED BY <2>4, <3>2, DeleteTyped, Zenon
    <2>9. nextId' \in 1 .. MaxRequests + 1 /\ nextId <= nextId'
      BY <2>5, NextId
    <2> QED BY <2>5, <2>6, <2>7, <2>8, <2>9, RequestJoins, Zenon DEF Delivered, Same
  <1>17. ASSUME NEW p \in Profile, NEW on \in BOOLEAN, Toggle(p, on) PROVE RequestOk'
    <2>1. PICK i, v : i = nextId /\ v = rows[p]
      OBVIOUS
    <2>2. PICK r : r = [kind |-> "switch", id |-> i, on |-> on, cancelled |-> FALSE,
                        of |-> [profile |-> p, revision |-> v]]
      OBVIOUS
    <2>3. /\ nextId <= MaxRequests /\ nextDrawer' = nextDrawer /\ queued' = queued /\ nextId' = nextId + 1
          /\ drawer' = drawer /\ host' = host \cup {r} /\ refresh' = refresh /\ auto' = auto
      BY <1>17, <2>1, <2>2, Zenon DEF Toggle, modelVars, drawerVars
    <2>4. r \in Requests /\ r.kind \notin ModelKinds /\ r.kind \notin TestKinds
      <3>1. i \in Request /\ v \in Revision
        BY <2>1, <2>3, NextId DEF ListOk
      <3> QED BY <2>2, <3>1, SwitchTyped, Zenon
    <2>5. nextId' \in 1 .. MaxRequests + 1 /\ nextId <= nextId'
      BY <2>3, NextId
    <2>6. Fewer(ModelKinds, host, host) /\ Fewer(TestKinds, host, host)
      BY SubsetFewer
    <2> QED BY <2>3, <2>4, <2>5, <2>6, RequestFacts, RequestJoins, Zenon DEF Delivered
  <1>18. ASSUME SendSave PROVE RequestOk'
    <2>1. PICK r : r = [kind |-> "save", id |-> save.id, of |-> save.of, cancelled |-> FALSE]
      OBVIOUS
    <2>2. /\ save # None /\ nextDrawer' = nextDrawer /\ queued' = queued /\ nextId' = nextId
          /\ drawer' = drawer /\ host' = host \cup {r} /\ refresh' = refresh /\ auto' = auto
      BY <1>18, <2>1, Zenon DEF SendSave, modelVars, drawerVars, idVars
    <2>3. r \in Requests /\ r.kind \notin ModelKinds /\ r.kind \notin TestKinds
      <3>1. save \in Save
        BY <2>2, Zenon DEF WaitOk, SaveOk
      <3> QED BY <2>1, <3>1, SaveTyped, Zenon
    <2>4. nextId' \in 1 .. MaxRequests + 1 /\ nextId <= nextId'
      BY <2>2, RequestFacts
    <2>5. Fewer(ModelKinds, host, host) /\ Fewer(TestKinds, host, host)
      BY SubsetFewer
    <2> QED BY <2>2, <2>3, <2>4, <2>5, RequestFacts, RequestJoins, Zenon DEF Delivered
  <1>19. ASSUME BeginRead PROVE RequestOk'
    <2>1. /\ reader # None /\ drawer' = drawer /\ queued' = queued /\ nextDrawer' = nextDrawer
          /\ \/ host' = host /\ refresh' = refresh /\ auto' = auto /\ nextId' = nextId
             \/ FinishLoad(drawer, host)
      BY <1>19, Zenon DEF BeginRead, drawerVars
    <2> QED BY <2>1, RequestFacts, RequestUnchanged, RequestFinishes, Zenon DEF Delivered
  <1>20. ASSUME AcceptRead PROVE RequestOk'
    <2>1. /\ reader # None /\ drawer' = drawer /\ queued' = queued /\ nextDrawer' = nextDrawer
          /\ FinishLoad(drawer, host)
      BY <1>20, Zenon DEF AcceptRead, drawerVars
    <2> QED BY <2>1, RequestFinishes, Zenon DEF Delivered
  <1>21. ASSUME ReadFails PROVE RequestOk'
    <2>1. /\ reader # None /\ drawer' = drawer /\ queued' = queued /\ nextDrawer' = nextDrawer
          /\ FinishLoad(drawer, host)
      BY <1>21, Zenon DEF ReadFails, drawerVars
    <2> QED BY <2>1, RequestFinishes, Zenon DEF Delivered
  <1>22. ASSUME ChannelFails PROVE RequestOk'
    <2>1. CloseChannel(drawer, host) /\ queued' = queued /\ nextDrawer' = nextDrawer
      BY <1>22, Zenon DEF ChannelFails
    <2> QED BY <2>1, RequestChannelSame, Zenon DEF Delivered, WaitOk
  <1>23. ASSUME LoadExpires PROVE RequestOk'
    <2>1. CloseChannel(drawer, host) /\ queued' = queued /\ nextDrawer' = nextDrawer
      BY <1>23, Zenon DEF LoadExpires
    <2> QED BY <2>1, RequestChannelSame, Zenon DEF Delivered, WaitOk
  <1>24. ASSUME SaveFails PROVE RequestOk'
    <2>1. CloseChannel(drawer, host) /\ queued' = queued /\ nextDrawer' = nextDrawer
      BY <1>24, Zenon DEF SaveFails
    <2> QED BY <2>1, RequestChannelSame, Zenon DEF Delivered, WaitOk
  <1>25. ASSUME TestExpires PROVE RequestOk'
    <2>1. PICK h : h = Cancelled(host, TestIds, FALSE)
      OBVIOUS
    <2>2. PICK d : d = Tested("failed")
      OBVIOUS
    <2>3. /\ Testing(drawer) /\ CloseChannel(d, h) /\ queued' = queued /\ nextDrawer' = nextDrawer
      BY <1>25, <2>1, <2>2, Zenon DEF TestExpires
    <2>4. /\ h \in SUBSET Requests /\ Fewer(TestKinds, host, h) /\ Fewer(ModelKinds, host, h)
          /\ \A q \in h : ~q.cancelled => q \in host /\ q.id \notin TestIds
      BY <2>1, CancelTests, Zenon
    <2>5. /\ d \in DrawerState /\ d.id = drawer.id /\ d.validity = drawer.validity /\ drawer.test # None
          /\ d.test # None /\ d.test.id = drawer.test.id /\ d.test.sent = drawer.test.sent
      BY <2>2, <2>3, Shapes, TestedTest
    <2>6. \A q \in h : ~q.cancelled => q.id # drawer.test.id
      BY <2>4, <2>5, Zenon DEF TestIds
    <2>7. TestsSound(h, d, nextId, nextDrawer, Answered("tested", queued))
      BY <2>4, <2>5, <2>6, RequestFacts, TestsEnded, Zenon
    <2> QED BY <2>3, <2>4, <2>5, <2>7, RequestChannel, Zenon DEF Delivered, WaitOk
  <1>26. ASSUME SendModels PROVE RequestOk'
    <2>1. /\ refresh # None /\ ~refresh.sent /\ refresh' = [refresh EXCEPT !.sent = TRUE]
          /\ host' = Sent("draft-models", refresh.id, drawer.draft)
          /\ drawer' = drawer /\ auto' = auto /\ nextId' = nextId /\ nextDrawer' = nextDrawer /\ queued' = queued
      BY <1>26, Zenon DEF SendModels, drawerVars, idVars
    <2>2. refresh \in Refresh /\ drawer.draft \in Nat /\ "draft-models" \in DraftKinds
      BY <2>1, RequestFacts, Shapes DEF DrawerState, DraftKinds
    <2>3. /\ refresh' \in Refresh /\ refresh'.id = refresh.id /\ refresh'.sent = TRUE
          /\ refresh.id \in Request
      BY <2>1, <2>2 DEF Refresh
    <2>4. refresh' # None
      BY <2>3, EditorAssumption
    <2>5. PICK g \in SUBSET Requests, r \in Requests :
             /\ host' = g \cup {r} /\ Fewer(ModelKinds, host, g) /\ Fewer(TestKinds, host, g)
             /\ r.kind = "draft-models" /\ r.id = refresh.id /\ r.cancelled = FALSE
      <3>1. PICK k, i, t : k = "draft-models" /\ i = refresh.id /\ t = drawer.draft
        OBVIOUS
      <3>2. k \in DraftKinds /\ i \in Request /\ t \in Nat
        BY <2>2, <2>3, <3>1, Zenon
      <3>3. SentAs(k, i, t)
        BY <3>2, SentIs, Zenon
      <3> QED BY <2>1, <3>1, <3>3, Zenon DEF SentAs
    <2>6. ModelsSound(g \cup {r}, refresh', nextId, Answered("models", queued))
      BY <2>1, <2>3, <2>4, <2>5, RequestFacts, ModelsSent, Zenon
    <2>7. Fewer(TestKinds, host, g \cup {r})
      <3>1. r.kind \notin TestKinds
        BY <2>5 DEF TestKinds
      <3> QED BY <2>5, <3>1, OthersJoin, Zenon
    <2>8. TestsSound(host', drawer', nextId, nextDrawer', Answered("tested", queued))
      BY <2>1, <2>5, <2>7, RequestFacts, TestsFewer, Zenon
    <2> QED BY <2>1, <2>3, <2>5, <2>6, <2>8, RequestFacts, RequestPlain, Zenon DEF Delivered
  <1>27. ASSUME ModelsNotSent PROVE RequestOk'
    <2>1. /\ refresh # None /\ ~refresh.sent /\ refresh' = None /\ host' = host
          /\ drawer' = drawer /\ auto' = auto /\ nextId' = nextId /\ nextDrawer' = nextDrawer /\ queued' = queued
      BY <1>27, Zenon DEF ModelsNotSent, drawerVars, idVars
    <2>2. \A q \in host : q.kind \in ModelKinds => q.cancelled
      BY <2>1, RequestFacts, Zenon DEF ModelsSound
    <2>3. Fewer(ModelKinds, host, host)
      BY SubsetFewer
    <2>4. ModelsSound(host, None, nextId, Answered("models", queued))
      BY <2>2, <2>3, RequestFacts, ModelsForgotten, Zenon
    <2> QED BY <2>1, <2>4, RequestFacts, RequestPlain, Zenon DEF Delivered
  <1>28. ASSUME SendTest PROVE RequestOk'
    <2>1. /\ Testing(drawer) /\ ~drawer.test.sent /\ drawer' = [drawer EXCEPT !.test.sent = TRUE]
          /\ host' = Sent("test", drawer.test.id, drawer.test.draft)
          /\ refresh' = refresh /\ auto' = auto /\ nextId' = nextId /\ nextDrawer' = nextDrawer /\ queued' = queued
      BY <1>28, Zenon DEF SendTest, modelVars, idVars
    <2>2. drawer.test # None /\ drawer.test.phase = "testing"
      BY <2>1, Zenon DEF Testing
    <2>3. drawer.test.id \in Request /\ drawer.test.draft \in Nat /\ "test" \in DraftKinds
      BY <2>2, Shapes DEF DrawerState, Test, DraftKinds
    <2>4. /\ drawer'.id = drawer.id /\ drawer'.validity = drawer.validity /\ drawer'.test \in Test
          /\ drawer'.test.id = drawer.test.id /\ drawer'.test.sent = TRUE
          /\ drawer'.test.phase = drawer.test.phase
      BY <2>1, <2>2, Shapes, DSent, Zenon DEF Same
    <2>5. Testing(drawer')
      BY <2>2, <2>4, EditorAssumption DEF Testing
    <2>6. PICK g \in SUBSET Requests, r \in Requests :
             /\ host' = g \cup {r} /\ Fewer(ModelKinds, host, g) /\ Fewer(TestKinds, host, g)
             /\ \A q \in g : ~q.cancelled => q.kind # "test"
             /\ r.kind = "test" /\ r.id = drawer.test.id /\ r.drawer = drawer.id /\ r.cancelled = FALSE
      <3>1. PICK k, i, t : k = "test" /\ i = drawer.test.id /\ t = drawer.test.draft
        OBVIOUS
      <3>2. k \in DraftKinds /\ i \in Request /\ t \in Nat
        BY <2>3, <3>1, Zenon
      <3>3. SentAs(k, i, t)
        BY <3>2, SentIs, Zenon
      <3> QED BY <2>1, <3>1, <3>3, Zenon DEF SentAs
    <2>7. drawer.id \in 1 .. nextDrawer - 1
      BY <2>2, Shapes
    <2>8. TestsSound(host', drawer', nextId, nextDrawer', Answered("tested", queued))
      <3>1. TestsSound(host, drawer, nextId, nextDrawer, Answered("tested", queued))
        BY RequestFacts, Zenon
      <3>2. PICK a, e : a = Answered("tested", queued) /\ e = drawer'
        OBVIOUS
      <3>3. /\ e.id = drawer.id /\ e.validity = drawer.validity /\ Testing(e)
            /\ e.test.id = drawer.test.id /\ e.test.sent = TRUE
        BY <2>4, <2>5, <3>2, Zenon
      <3>4. TestsSound(g \cup {r}, e, nextId, nextDrawer, a)
        <4>1. TestsSound(host, drawer, nextId, nextDrawer, a)
          BY <3>1, <3>2, Zenon
        <4>2. Testing(drawer) /\ ~drawer.test.sent
          BY <2>1, Zenon
        <4> QED BY <2>6, <2>7, <3>3, <4>1, <4>2, TestsSent, Zenon
      <3> QED BY <2>1, <2>6, <3>2, <3>4, Zenon
    <2>9. ModelsSound(host', refresh, nextId, Answered("models", queued))
      <3>1. r.kind \notin ModelKinds
        BY <2>6 DEF ModelKinds
      <3>2. Fewer(ModelKinds, host, g \cup {r})
        BY <2>6, <3>1, OthersJoin, Zenon
      <3> QED BY <2>6, <3>2, RequestFacts, ModelsFewer, Zenon
    <2> QED BY <2>1, <2>6, <2>8, <2>9, RequestFacts, RequestPlain, Zenon DEF Delivered
  <1>29. ASSUME TestNotSent PROVE RequestOk'
    <2>1. /\ Testing(drawer) /\ ~drawer.test.sent /\ drawer' = Tested("failed") /\ queued' = queued
          /\ host' = host /\ refresh' = refresh /\ auto' = auto /\ nextId' = nextId /\ nextDrawer' = nextDrawer
      BY <1>29, Zenon DEF TestNotSent, modelVars, idVars
    <2>2. /\ drawer'.id = drawer.id /\ drawer'.validity = drawer.validity /\ drawer.test # None
          /\ drawer'.test # None /\ drawer'.test.id = drawer.test.id /\ drawer'.test.sent = drawer.test.sent
      BY <2>1, Shapes, TestedTest
    <2>3. \A q \in host : q.kind \in TestKinds => q.id # drawer.test.id
      BY <2>1, <2>2, RequestFacts, Zenon DEF TestsSound
    <2>4. Fewer(TestKinds, host, host)
      BY SubsetFewer
    <2>5. TestsSound(host, drawer', nextId, nextDrawer', Answered("tested", queued))
      BY <2>1, <2>2, <2>3, <2>4, RequestFacts, TestsEnded, Zenon
    <2> QED BY <2>1, <2>5, RequestFacts, RequestPlain, Zenon DEF Delivered
  <1>30. ASSUME SwitchExpires PROVE RequestOk'
    <2>1. /\ drawer' = drawer /\ queued' = queued
          /\ host' = host /\ refresh' = refresh /\ auto' = auto /\ nextId' = nextId /\ nextDrawer' = nextDrawer
      BY <1>30, Zenon DEF SwitchExpires, drawerVars, modelVars, idVars
    <2> QED BY <2>1, RequestFacts, RequestUnchanged, Zenon DEF Delivered
  <1> QED BY <1>1, <1>2, <1>3, <1>4, <1>5, <1>6, <1>7, <1>8, <1>9, <1>10, <1>11, <1>12, <1>13,
         <1>14, <1>15, <1>16, <1>17, <1>18, <1>19, <1>20, <1>21, <1>22, <1>23, <1>24,
         <1>25, <1>26, <1>27, <1>28, <1>29, <1>30, Zenon DEF User, Editor, Timers

LEMMA RequestAnswer ==
    ASSUME DrawerOk, ListOk, ProfilesOk, KeyOk, WaitOk, RequestOk, TestOk, QueueOk, DrawerOk', ProfilesOk', Host
    PROVE  RequestOk'
  <1>1. ASSUME OtherWindow PROVE RequestOk'
    <2>1. Tells(<<>>) /\ UNCHANGED sidebarVars /\ \E p : host' \in {host, Withdrawn(host, p)}
      BY <1>1, OtherWindowIs, HostStep, Zenon DEF Host
    <2>2. host' \in SUBSET Requests /\ Fewer(ModelKinds, host, host') /\ Fewer(TestKinds, host, host')
      <3>1. Fewer(ModelKinds, host, host) /\ Fewer(TestKinds, host, host)
        BY SubsetFewer
      <3> QED BY <2>1, <3>1, RequestFacts, WithdrawnFacts, Zenon
    <2>3. <<>> \in Seq(Messages) /\ \A i \in 1 .. Len(<<>>) : <<>>[i].name \notin {"models", "tested"}
      OBVIOUS
    <2> QED BY <2>1, <2>2, <2>3, RequestTells
  <1>2. ASSUME NEW r \in host, HostTest(r) PROVE RequestOk'
    <2>1. r \in Requests /\ UNCHANGED sidebarVars
      BY <1>2, HostStep, Zenon DEF Host, RequestOk
    <2>2. /\ host' = host \ {r} /\ r.kind \in TestKinds
          /\ \/ queued' = queued
             \/ \E s \in Seq(Messages) :
                  /\ Tells(s)
                  /\ \A i \in 1 .. Len(s) : (s[i].name = "tested" /\ s[i].id = r.id) \/ s[i].name = "revoked"
      BY <1>2, <2>1, HostTestIs DEF ModelKinds, TestKinds
    <2>3. /\ Answered("tested", queued') \subseteq Answered("tested", queued) \cup {r.id}
          /\ Answered("models", queued') \subseteq Answered("models", queued)
      <3>1. CASE queued' = queued
        BY <3>1, Zenon
      <3>2. ASSUME NEW s \in Seq(Messages), Tells(s),
                   \A i \in 1 .. Len(s) : (s[i].name = "tested" /\ s[i].id = r.id) \/ s[i].name = "revoked"
            PROVE  /\ Answered("tested", queued') \subseteq Answered("tested", queued) \cup {r.id}
                   /\ Answered("models", queued') \subseteq Answered("models", queued)
        <4>1. Answered("tested", s) \subseteq {r.id} /\ Answered("models", s) = {}
          BY <3>2 DEF Answered
        <4>2. "tested" # "state" /\ "models" # "state"
          OBVIOUS
        <4> QED BY <3>2, <4>1, <4>2, TellsAnswers, Zenon
      <3> QED BY <2>2, <3>1, <3>2, Zenon
    <2>4. Fewer(ModelKinds, host, host')
      BY <2>2, SubsetFewer, Zenon
    <2>5. host' \in SUBSET Requests
      BY <2>2, RequestFacts, Zenon
    <2>6. ModelsSound(host', refresh, nextId, Answered("models", queued'))
      BY <2>2, <2>3, <2>4, RequestFacts, ModelsFewer, ModelsAnswered, ModelsTold, Zenon
    <2>7. TestsSound(host', drawer, nextId, nextDrawer, Answered("tested", queued'))
      BY <2>2, <2>3, <2>4, RequestFacts, TestsFewer, TestsAnswered, TestsTold, Zenon
    <2> QED BY <2>1, <2>5, <2>6, <2>7, RequestHost, Zenon
  <1>3. ASSUME NEW r \in host, HostModels(r) PROVE RequestOk'
    <2>1. r \in Requests /\ UNCHANGED sidebarVars
      BY <1>3, HostStep, Zenon DEF Host, RequestOk
    <2>2. /\ host' = host \ {r} /\ r.kind \in ModelKinds
          /\ \/ queued' = queued
             \/ \E s \in Seq(Messages) :
                  /\ Tells(s)
                  /\ \A i \in 1 .. Len(s) : (s[i].name = "models" /\ s[i].id = r.id) \/ s[i].name = "revoked"
      BY <1>3, <2>1, HostModelsIs DEF ModelKinds, TestKinds
    <2>3. /\ Answered("models", queued') \subseteq Answered("models", queued) \cup {r.id}
          /\ Answered("tested", queued') \subseteq Answered("tested", queued)
      <3>1. CASE queued' = queued
        BY <3>1, Zenon
      <3>2. ASSUME NEW s \in Seq(Messages), Tells(s),
                   \A i \in 1 .. Len(s) : (s[i].name = "models" /\ s[i].id = r.id) \/ s[i].name = "revoked"
            PROVE  /\ Answered("models", queued') \subseteq Answered("models", queued) \cup {r.id}
                   /\ Answered("tested", queued') \subseteq Answered("tested", queued)
        <4>1. Answered("models", s) \subseteq {r.id} /\ Answered("tested", s) = {}
          BY <3>2 DEF Answered
        <4>2. "models" # "state" /\ "tested" # "state"
          OBVIOUS
        <4> QED BY <3>2, <4>1, <4>2, TellsAnswers, Zenon
      <3> QED BY <2>2, <3>1, <3>2, Zenon
    <2>4. Fewer(TestKinds, host, host')
      BY <2>2, SubsetFewer, Zenon
    <2>5. host' \in SUBSET Requests
      BY <2>2, RequestFacts, Zenon
    <2>6. ModelsSound(host', refresh, nextId, Answered("models", queued'))
      BY <2>2, <2>3, <2>4, RequestFacts, ModelsFewer, ModelsAnswered, ModelsTold, Zenon
    <2>7. TestsSound(host', drawer, nextId, nextDrawer, Answered("tested", queued'))
      BY <2>2, <2>3, <2>4, RequestFacts, TestsFewer, TestsAnswered, TestsTold, Zenon
    <2> QED BY <2>1, <2>5, <2>6, <2>7, RequestHost, Zenon
  <1>4. ASSUME NEW r \in host, HostSave(r) PROVE RequestOk'
    <2>1. r \in Requests /\ r.id \in Request /\ UNCHANGED sidebarVars
      BY <1>4, HostStep, RequestFacts, RequestFields, Zenon DEF Host
    <2>2. PICK g : g = host \ {r}
      OBVIOUS
    <2>3. g \in SUBSET Requests /\ Fewer(ModelKinds, host, g) /\ Fewer(TestKinds, host, g)
      BY <2>2, RequestFacts, SubsetFewer, Zenon
    <2>9. ASSUME NEW q \in Messages, q.name \notin {"models", "tested"}, Tells(<<q>>),
                 host' \in SUBSET Requests, Fewer(ModelKinds, host, host'), Fewer(TestKinds, host, host')
          PROVE  RequestOk'
      <3>1. PICK s : s = <<q>>
        OBVIOUS
      <3>2. s \in Seq(Messages) /\ \A i \in 1 .. Len(s) : s[i].name \notin {"models", "tested"}
        BY <2>9, <3>1
      <3> QED BY <2>1, <2>9, <3>1, <3>2, RequestTells, Zenon
    <2>4. CASE SaveFailed(r)
      <3>1. PICK q : q = [name |-> "saved", id |-> r.id, ok |-> FALSE]
        OBVIOUS
      <3>2. q \in Messages /\ q.name \notin {"models", "tested"}
        BY <2>1, <3>1 DEF Messages
      <3> QED BY <2>2, <2>3, <2>4, <2>9, <3>1, <3>2, Zenon DEF SaveFailed
    <2>5. ASSUME NEW p \in Profile, NEW ok \in BOOLEAN, SaveStored(r, p, ok) PROVE RequestOk'
      <3>1. PICK v : v = stored'[p]
        OBVIOUS
      <3>2. v \in Revision
        BY <3>1 DEF ProfilesOk
      <3>3. PICK q : q = [name |-> "saved", id |-> r.id, ok |-> ok, profile |-> p, revision |-> v]
        OBVIOUS
      <3>4. q \in Messages /\ q.name \notin {"models", "tested"}
        BY <2>1, <3>2, <3>3 DEF Messages
      <3>5. PICK f : f = Withdrawn(g, p)
        OBVIOUS
      <3>6. f \in SUBSET Requests /\ Fewer(ModelKinds, g, f) /\ Fewer(TestKinds, g, f)
        BY <2>3, <3>5, WithdrawnFacts, Zenon
      <3>7. /\ host' = {IF t.kind \in {"test", "draft-models"} THEN [t EXCEPT !.cancelled = TRUE] ELSE t : t \in f}
            /\ Tells(<<q>>)
        BY <2>2, <2>5, <3>1, <3>3, <3>5, Zenon DEF SaveStored
      <3>8. host' \in SUBSET Requests /\ Fewer(ModelKinds, f, host') /\ Fewer(TestKinds, f, host')
        BY <3>6, <3>7, DraftsCancelled, Zenon
      <3>9. host' \in SUBSET Requests /\ Fewer(ModelKinds, host, host') /\ Fewer(TestKinds, host, host')
        BY <2>3, <3>6, <3>8, FewerOfFewer, Zenon
      <3> QED BY <2>9, <3>4, <3>7, <3>9, Zenon
    <2> QED BY <1>4, <2>4, <2>5, HostSaveIs, Zenon
  <1>5. ASSUME NEW r \in host, HostDelete(r) PROVE RequestOk'
    <2>1. r \in Requests /\ r.id \in Request /\ UNCHANGED sidebarVars
      BY <1>5, HostStep, RequestFacts, RequestFields, Zenon DEF Host
    <2>2. PICK g : g = host \ {r}
      OBVIOUS
    <2>3. g \in SUBSET Requests /\ Fewer(ModelKinds, host, g) /\ Fewer(TestKinds, host, g)
      BY <2>2, RequestFacts, SubsetFewer, Zenon
    <2>9. ASSUME NEW q \in Messages, q.name \notin {"models", "tested"}, Tells(<<q>>),
                 host' \in SUBSET Requests, Fewer(ModelKinds, host, host'), Fewer(TestKinds, host, host')
          PROVE  RequestOk'
      <3>1. PICK s : s = <<q>>
        OBVIOUS
      <3>2. s \in Seq(Messages) /\ \A i \in 1 .. Len(s) : s[i].name \notin {"models", "tested"}
        BY <2>9, <3>1
      <3> QED BY <2>1, <2>9, <3>1, <3>2, RequestTells, Zenon
    <2>4. CASE DeleteRefused(r)
      <3>1. PICK q : q = Message("refused", r.id)
        OBVIOUS
      <3>2. q \in Messages /\ q.name \notin {"models", "tested"}
        BY <2>1, <3>1 DEF Messages, Message
      <3> QED BY <2>2, <2>3, <2>4, <2>9, <3>1, <3>2, Zenon DEF DeleteRefused
    <2>5. ASSUME NEW p \in Profile, DeleteStored(r, p) PROVE RequestOk'
      <3>1. PICK q : q = [name |-> "deleted", id |-> r.id, profile |-> p]
        OBVIOUS
      <3>2. q \in Messages /\ q.name \notin {"models", "tested"}
        BY <2>1, <3>1 DEF Messages
      <3>3. host' = Withdrawn(g, p) /\ Tells(<<q>>)
        BY <2>2, <2>5, <3>1, Zenon DEF DeleteStored
      <3>4. host' \in SUBSET Requests /\ Fewer(ModelKinds, g, host') /\ Fewer(TestKinds, g, host')
        BY <2>3, <3>3, WithdrawnFacts, Zenon
      <3>5. Fewer(ModelKinds, host, host') /\ Fewer(TestKinds, host, host')
        BY <2>3, <3>4, FewerOfFewer, Zenon
      <3> QED BY <2>9, <3>2, <3>3, <3>4, <3>5, Zenon
    <2> QED BY <1>5, <2>1, <2>4, <2>5, HostDeleteIs, Zenon
  <1>6. ASSUME NEW r \in host, HostSwitch(r) PROVE RequestOk'
    <2>1. r \in Requests /\ r.id \in Request /\ UNCHANGED sidebarVars
      BY <1>6, HostStep, RequestFacts, RequestFields, Zenon DEF Host
    <2>2. PICK g : g = host \ {r}
      OBVIOUS
    <2>3. g \in SUBSET Requests /\ Fewer(ModelKinds, host, g) /\ Fewer(TestKinds, host, g)
      BY <2>2, RequestFacts, SubsetFewer, Zenon
    <2>9. ASSUME NEW q \in Messages, q.name \notin {"models", "tested"}, Tells(<<q>>),
                 host' \in SUBSET Requests, Fewer(ModelKinds, host, host'), Fewer(TestKinds, host, host')
          PROVE  RequestOk'
      <3>1. PICK s : s = <<q>>
        OBVIOUS
      <3>2. s \in Seq(Messages) /\ \A i \in 1 .. Len(s) : s[i].name \notin {"models", "tested"}
        BY <2>9, <3>1
      <3> QED BY <2>1, <2>9, <3>1, <3>2, RequestTells, Zenon
    <2>4. PICK v : v = Picture'
      OBVIOUS
    <2>5. v \in Pictures
      BY <2>4, PublishedTyped, Zenon
    <2>6. PICK q : q = [name |-> "switched", id |-> r.id, picture |-> v]
      OBVIOUS
    <2>7. q \in Messages /\ q.name \notin {"models", "tested"}
      BY <2>1, <2>5, <2>6 DEF Messages
    <2>8. host' = host \ {r} /\ Tells(<<q>>)
      BY <1>6, <2>1, <2>4, <2>6, HostSwitchIs, Zenon DEF Switched
    <2> QED BY <2>2, <2>3, <2>7, <2>8, <2>9, Zenon
  <1> QED BY <1>1, <1>2, <1>3, <1>4, <1>5, <1>6, Zenon DEF Host

LEMMA RequestMessage ==
    ASSUME DrawerOk, ListOk, ProfilesOk, KeyOk, WaitOk, RequestOk, TestOk, QueueOk, DrawerOk', ProfilesOk', Delivered, NEW m \in Messages, queued # <<>>, m = Head(queued),
           HandleState(m) \/ HandleSwitched(m) \/ HandleDeleted(m) \/ HandleRefused(m)
             \/ HandleTested(m) \/ HandleModels(m) \/ HandleSaved(m) \/ HandleRevoked(m)
    PROVE  RequestOk'
  <1>1. ASSUME HandleState(m) PROVE RequestOk'
    <2>1. /\ ApplyAuthority(m.picture, switch) /\ m.name \in {"state", "switched"}
          /\ host' = host /\ refresh' = refresh /\ nextId' = nextId /\ nextDrawer' = nextDrawer
      BY <1>1, Zenon DEF HandleState, TakeAuthority, idVars
    <2>2. m.picture.list \in [Profile -> Revision]
      BY <2>1, PictureTyped
    <2> QED BY <2>1, <2>2, RequestAuthority, Zenon
  <1>2. ASSUME HandleSwitched(m) PROVE RequestOk'
    <2>1. PICK sw : /\ ApplyAuthority(m.picture, sw) /\ m.name \in {"state", "switched"}
                    /\ host' = host /\ refresh' = refresh /\ nextId' = nextId /\ nextDrawer' = nextDrawer
      BY <1>2, Zenon DEF HandleSwitched, idVars
    <2>2. m.picture.list \in [Profile -> Revision]
      BY <2>1, PictureTyped
    <2> QED BY <2>1, <2>2, RequestAuthority, Zenon
  <1>3. ASSUME HandleDeleted(m) PROVE RequestOk'
    <2>1. PICK ids : ids = (IF (IF drawer.mode = "editing" /\ drawer.profile = m.profile THEN Closed ELSE drawer).test = None
                             THEN {} ELSE TestIds)
      OBVIOUS
    <2>2. \/ /\ drawer' = Closed /\ auto' \in BOOLEAN /\ refresh' = None
             /\ host' = Cancelled(host, ids \cup RefreshIds, TRUE)
          \/ drawer' \in {Closed, drawer} /\ host' = host /\ refresh' = refresh /\ auto' = auto
      BY <1>3, <2>1, CancelLoadIs, Zenon DEF HandleDeleted, modelVars
    <2>3. nextId' = nextId /\ nextDrawer' = nextDrawer
      BY <1>3, Zenon DEF HandleDeleted, idVars
    <2>4. CASE /\ drawer' = Closed /\ auto' \in BOOLEAN /\ refresh' = None
               /\ host' = Cancelled(host, ids \cup RefreshIds, TRUE)
      <3>1. Fewer(TestKinds, host, host')
        BY <2>4, CancelAll, Zenon
      <3>2. TestsSound(host', drawer', nextId, nextDrawer', Answered("tested", queued))
        BY <2>3, <2>4, <3>1, ClosedIsClosed, TestsLeft, Zenon
      <3> QED BY <2>3, <2>4, <3>2, RequestLeaves, Zenon
    <2>5. CASE drawer' \in {Closed, drawer} /\ host' = host /\ refresh' = refresh /\ auto' = auto
      <3>1. Fewer(TestKinds, host, host)
        BY SubsetFewer
      <3>2. CASE drawer' = Closed
        <4>1. TestsSound(host, drawer', nextId, nextDrawer', Answered("tested", queued))
          BY <2>3, <3>1, <3>2, ClosedIsClosed, TestsLeft, Zenon
        <4> QED BY <2>3, <2>5, <4>1, RequestFacts, RequestPlain, Zenon
      <3> QED BY <2>3, <2>5, <3>2, RequestFacts, RequestUnchanged, Zenon
    <2> QED BY <2>2, <2>4, <2>5, Zenon
  <1>4. ASSUME HandleRefused(m) PROVE RequestOk'
    <2>1. /\ drawer' \in {WithoutDialog, drawer}
          /\ host' = host /\ refresh' = refresh /\ auto' = auto /\ nextId' = nextId /\ nextDrawer' = nextDrawer
      BY <1>4, Zenon DEF HandleRefused, modelVars, idVars
    <2>2. drawer'.test = drawer.test /\ drawer'.validity = drawer.validity /\ drawer'.id = drawer.id
      BY <2>1, Shapes, WithoutIs, Zenon DEF Same
    <2> QED BY <2>1, <2>2, RequestFacts, RequestAlike, Zenon
  <1>5. ASSUME HandleTested(m) PROVE RequestOk'
    <2>1. /\ nextDrawer' = nextDrawer
          /\ \/ \E phase \in {"passed", "failed"} :
                  /\ Testing(drawer) /\ drawer.test.id = m.id
                  /\ \/ CloseChannel(Tested("failed"), host)
                     \/ /\ drawer' = Tested(phase)
                        /\ host' = host /\ refresh' = refresh /\ auto' = auto /\ nextId' = nextId
             \/ drawer' = drawer /\ host' = host /\ refresh' = refresh /\ auto' = auto /\ nextId' = nextId
      BY <1>5, Zenon DEF HandleTested, modelVars
    <2>2. m.id \in Answered("tested", queued)
      BY <1>5, AnsweredTail, Zenon DEF HandleTested, QueueOk
    <2>3. CASE drawer' = drawer /\ host' = host /\ refresh' = refresh /\ auto' = auto /\ nextId' = nextId
      BY <2>1, <2>3, RequestFacts, RequestUnchanged, Zenon
    <2>4. ASSUME NEW phase \in {"passed", "failed"}, Testing(drawer), drawer.test.id = m.id,
                 NEW d, d = Tested(phase)
          PROVE  /\ TestsSound(host, d, nextId, nextDrawer, Answered("tested", queued))
                 /\ d \in DrawerState
      <3>1. /\ d \in DrawerState /\ d.id = drawer.id /\ d.validity = drawer.validity /\ drawer.test # None
            /\ d.test # None /\ d.test.id = drawer.test.id /\ d.test.sent = drawer.test.sent
        BY <2>4, Shapes, TestedTest
      <3>2. \A q \in host : q.kind \in TestKinds => q.id # drawer.test.id
        BY <2>2, <2>4, RequestFacts, Zenon DEF TestsSound
      <3>3. Fewer(TestKinds, host, host)
        BY SubsetFewer
      <3> QED BY <3>1, <3>2, <3>3, RequestFacts, TestsEnded, Zenon
    <2>5. ASSUME Testing(drawer), drawer.test.id = m.id, CloseChannel(Tested("failed"), host) PROVE RequestOk'
      <3>1. PICK d : d = Tested("failed")
        OBVIOUS
      <3>2. Fewer(ModelKinds, host, host)
        BY SubsetFewer
      <3>3. TestsSound(host, d, nextId, nextDrawer, Answered("tested", queued)) /\ d \in DrawerState
        BY <2>4, <2>5, <3>1
      <3>4. CloseChannel(d, host)
        BY <2>5, <3>1, Zenon
      <3> QED BY <2>1, <3>2, <3>3, <3>4, RequestFacts, RequestChannel, Zenon DEF WaitOk
    <2>6. ASSUME NEW phase \in {"passed", "failed"}, Testing(drawer), drawer.test.id = m.id,
                 drawer' = Tested(phase), host' = host, refresh' = refresh, auto' = auto, nextId' = nextId
          PROVE  RequestOk'
      <3>1. TestsSound(host, drawer', nextId, nextDrawer', Answered("tested", queued))
        BY <2>1, <2>4, <2>6, Zenon
      <3> QED BY <2>6, <3>1, RequestFacts, RequestPlain, Zenon
    <2> QED BY <2>1, <2>3, <2>5, <2>6, Zenon
  <1>6. ASSUME HandleModels(m) PROVE RequestOk'
    <2>1. /\ drawer' = drawer /\ host' = host /\ auto' = auto /\ nextId' = nextId /\ nextDrawer' = nextDrawer
          /\ refresh' = refresh \/ (refresh' = None /\ refresh # None /\ refresh.id = m.id)
      BY <1>6, Zenon DEF HandleModels, drawerVars, idVars
    <2>2. m.id \in Answered("models", queued)
      BY <1>6, AnsweredTail, Zenon DEF HandleModels, QueueOk
    <2>3. CASE refresh' = refresh
      BY <2>1, <2>3, RequestFacts, RequestUnchanged, Zenon
    <2>4. CASE refresh' = None /\ refresh # None /\ refresh.id = m.id
      <3>1. \A q \in host : q.kind \in ModelKinds => q.cancelled
        BY <2>2, <2>4, RequestFacts, Zenon DEF ModelsSound
      <3>2. Fewer(ModelKinds, host, host)
        BY SubsetFewer
      <3>3. ModelsSound(host, None, nextId, Answered("models", queued))
        BY <3>1, <3>2, RequestFacts, ModelsForgotten, Zenon
      <3> QED BY <2>1, <2>4, <3>3, RequestFacts, RequestPlain, Zenon
    <2> QED BY <2>1, <2>3, <2>4
  <1>7. ASSUME HandleSaved(m) PROVE RequestOk'
    <2>1. PICK h : h = Cancelled(host, {}, TRUE)
      OBVIOUS
    <2>2. /\ nextDrawer' = nextDrawer
          /\ \/ drawer' = drawer /\ host' = host /\ refresh' = refresh /\ auto' = auto /\ nextId' = nextId
             \/ CloseChannel(drawer, host)
             \/ /\ drawer' = Closed /\ host' = h /\ auto' = auto /\ nextId' = nextId
                /\ refresh' = IF Unsealed = None THEN None ELSE [refresh EXCEPT !.fresh = @ /\ editing = None]
      BY <1>7, <2>1, Zenon DEF HandleSaved, drawerVars, modelVars
    <2>3. CASE drawer' = drawer /\ host' = host /\ refresh' = refresh /\ auto' = auto /\ nextId' = nextId
      BY <2>2, <2>3, RequestFacts, RequestUnchanged, Zenon
    <2>4. CASE CloseChannel(drawer, host)
      BY <2>2, <2>4, RequestChannelSame, Zenon DEF WaitOk
    <2>5. CASE /\ drawer' = Closed /\ host' = h /\ auto' = auto /\ nextId' = nextId
               /\ refresh' = IF Unsealed = None THEN None ELSE [refresh EXCEPT !.fresh = @ /\ editing = None]
      <3>1. (Unsealed = None /\ refresh' = None) \/ Unseals(refresh')
        <4>1. PICK b \in BOOLEAN : b = (editing = None)
          OBVIOUS
        <4>2. CASE Unsealed = None
          BY <2>5, <4>2, Zenon
        <4>3. CASE Unsealed # None
          <5>1. refresh # None /\ refresh' = [refresh EXCEPT !.fresh = @ /\ b]
            BY <2>5, <4>1, <4>3, Zenon DEF Unsealed
          <5>2. refresh \in Refresh
            BY <5>1, RequestFacts, Zenon
          <5> QED BY <4>3, <5>1, <5>2, RefreshKept, Zenon DEF Unseals
        <4> QED BY <4>2, <4>3
      <3>2. /\ h \in SUBSET Requests /\ Fewer(TestKinds, host, h)
            /\ ModelsSound(h, refresh, nextId, Answered("models", queued))
        BY <2>1, CancelTests, Zenon
      <3>3. refresh' \in Refresh \cup {None} /\ ModelsSound(h, refresh', nextId, Answered("models", queued))
        BY <3>1, <3>2, ModelsUnseal, Zenon
      <3>4. TestsSound(h, drawer', nextId, nextDrawer', Answered("tested", queued))
        BY <2>2, <2>5, <3>2, ClosedIsClosed, TestsLeft, Zenon
      <3> QED BY <2>5, <3>2, <3>3, <3>4, RequestFacts, RequestPlain, Zenon
    <2> QED BY <2>2, <2>3, <2>4, <2>5, Zenon
  <1>8. ASSUME HandleRevoked(m) PROVE RequestOk'
    <2>1. /\ nextDrawer' = nextDrawer
          /\ \/ drawer' = drawer /\ host' = host /\ refresh' = refresh /\ auto' = auto /\ nextId' = nextId
             \/ CloseChannel(drawer, host)
      BY <1>8, Zenon DEF HandleRevoked, modelVars
    <2>2. CASE drawer' = drawer /\ host' = host /\ refresh' = refresh /\ auto' = auto /\ nextId' = nextId
      BY <2>1, <2>2, RequestFacts, RequestUnchanged, Zenon
    <2>3. CASE CloseChannel(drawer, host)
      BY <2>1, <2>3, RequestChannelSame, Zenon DEF WaitOk
    <2> QED BY <2>1, <2>2, <2>3
  <1> QED BY <1>1, <1>2, <1>3, <1>4, <1>5, <1>6, <1>7, <1>8, Zenon

LEMMA RequestUpdate ==
    ASSUME DrawerOk, ListOk, ProfilesOk, KeyOk, WaitOk, RequestOk, TestOk, QueueOk, DrawerOk', ProfilesOk', HandleUpdate
    PROVE  RequestOk'
  <1>1. PICK l \in [Profile -> Revision] :
           /\ UpdateFor(l) /\ (UpdateDrops(DrawerAfter(l)) \/ UpdateKeeps(DrawerAfter(l), l))
    BY Updates, Zenon
  <1>2. PICK d : d = DrawerAfter(l)
    OBVIOUS
  <1>3. GoesOn(l, d) \/ FallsInConflict(l, d) \/ IsClosed(d)
    BY <1>2, Shapes, DAfter, Zenon
  <1>4. d \in DrawerState
    BY <1>3, Zenon DEF GoesOn, FallsInConflict, IsClosed, Same
  <1>5. nextId' = nextId /\ nextDrawer' = nextDrawer /\ queued' = queued
    BY <1>1, Zenon DEF UpdateFor, idVars
  <1>6. CASE UpdateDrops(d)
    <2>1. PICK x \in BOOLEAN : x = (save = None)
      OBVIOUS
    <2>2. drawer' = [d EXCEPT !.saving = @ /\ x] /\ auto' \in BOOLEAN
      BY <1>6, <2>1, CancelLoadIs, Zenon DEF UpdateDrops
    <2>3. drawer'.test = d.test /\ drawer'.id = d.id /\ drawer'.validity = d.validity
      BY <1>4, <2>2, DSaving, Zenon DEF Same
    <2>4. ASSUME NEW g, Fewer(TestKinds, host, g)
          PROVE  TestsSound(g, drawer', nextId, nextDrawer', Answered("tested", queued))
      <3>1. TestsSound(g, d, nextId, nextDrawer', Answered("tested", queued))
        BY <1>3, <1>5, <2>4, TestsListed, Zenon
      <3> QED BY <2>3, <3>1, TestsAlike, Zenon
    <2>5. CASE refresh' = None /\ host' = Cancelled(host, Lost(d) \cup RefreshIds, TRUE)
      <3>1. Fewer(TestKinds, host, host')
        BY <2>5, CancelAll, Zenon
      <3> QED BY <1>5, <2>2, <2>4, <2>5, <3>1, RequestLeaves, Zenon DEF Delivered
    <2>6. CASE /\ host' = Cancelled(host, Lost(d) \cup {}, TRUE)
               /\ (Unsealed = None /\ refresh' = None) \/ Unseals(refresh')
      <3>1. /\ host' \in SUBSET Requests /\ Fewer(TestKinds, host, host')
            /\ ModelsSound(host', refresh, nextId, Answered("models", queued))
        BY <2>6, CancelTests, Zenon
      <3>2. refresh' \in Refresh \cup {None} /\ ModelsSound(host', refresh', nextId, Answered("models", queued))
        BY <2>6, <3>1, ModelsUnseal, Zenon
      <3> QED BY <1>5, <2>2, <2>4, <3>1, <3>2, RequestPlain, Zenon DEF Delivered
    <2> QED BY <1>6, <2>5, <2>6, Zenon DEF UpdateDrops
  <1>7. CASE UpdateKeeps(d, l)
    <2>1. /\ drawer' = d /\ auto' = auto /\ host' = Cancelled(host, Lost(d), FALSE)
          /\ \/ refresh = None /\ refresh' = None
             \/ refresh # None /\ refresh'.id = refresh.id /\ refresh'.sent = refresh.sent /\ refresh' \in Refresh
      BY <1>7, Zenon DEF UpdateKeeps
    <2>2. /\ host' \in SUBSET Requests /\ Fewer(TestKinds, host, host')
          /\ ModelsSound(host', refresh, nextId, Answered("models", queued))
      BY <2>1, CancelTests, Zenon
    <2>3. TestsSound(host', drawer', nextId, nextDrawer', Answered("tested", queued))
      BY <1>3, <1>5, <2>1, <2>2, TestsListed, Zenon
    <2>4. refresh' \in Refresh \cup {None} /\ ModelsSound(host', refresh', nextId, Answered("models", queued))
      <3>1. CASE refresh = None /\ refresh' = None
        BY <2>2, <3>1, Zenon
      <3>2. CASE /\ refresh # None /\ refresh'.id = refresh.id /\ refresh'.sent = refresh.sent
                 /\ refresh' \in Refresh
        <4>1. refresh' # None /\ refresh \in Refresh /\ nextId <= nextId
          BY <3>2, RequestFacts, EditorAssumption
        <4> QED BY <2>2, <3>2, <4>1, RequestFacts, ModelsAlike, Zenon
      <3> QED BY <2>1, <3>1, <3>2
    <2> QED BY <1>5, <2>1, <2>2, <2>3, <2>4, RequestFacts, RequestPlain, Zenon DEF Delivered
  <1> QED BY <1>1, <1>2, <1>6, <1>7, Zenon

LEMMA RequestStep ==
    ASSUME DrawerOk, ListOk, ProfilesOk, KeyOk, WaitOk, RequestOk, TestOk, QueueOk, DrawerOk', ProfilesOk', Next
    PROVE  RequestOk'
  <1>1. ASSUME Deliver PROVE RequestOk'
    <2>1. queued # <<>> /\ queued' = Tail(queued)
      BY <1>1, Zenon DEF Deliver
    <2>2. PICK m : m = Head(queued)
      OBVIOUS
    <2>3. m \in Messages
      BY <2>1, <2>2, HeadTyped, Zenon DEF QueueOk
    <2>4. \/ HandleState(m) \/ HandleSwitched(m) \/ HandleDeleted(m) \/ HandleRefused(m)
          \/ HandleTested(m) \/ HandleModels(m) \/ HandleSaved(m) \/ HandleRevoked(m)
      BY <1>1, <2>2, Zenon DEF Deliver
    <2> QED BY <2>1, <2>2, <2>3, <2>4, RequestMessage, Zenon DEF Delivered
  <1> QED BY <1>1, RequestEvent, RequestAnswer, RequestUpdate, Zenon DEF Next

-----------------------------------------------------------------------------
(* The invariant is inductive. *)

EditorInv == DrawerOk /\ ListOk /\ ProfilesOk /\ KeyOk /\ WaitOk /\ RequestOk /\ TestOk /\ QueueOk

LEMMA EditorStarts ==
    ASSUME Init
    PROVE  EditorInv
  <1>1. 0 \in Revision /\ 1 \in Revision /\ 0 \in Drawer /\ 0 \in 0 .. MaxVersion /\ 0 \in 0 .. MaxEdits
        /\ 1 \in 1 .. MaxDrawers + 1 /\ 1 \in 1 .. MaxRequests + 1
    BY EditorAssumption DEF Revision, Drawer
  <1>2. IsClosed(drawer)
    BY DClosed, Zenon DEF Init, IsClosed
  <1>3. DrawerOk
    <2>1. Shape(drawer, nextDrawer)
      BY <1>2, ShapeClosed, Zenon
    <2>2. editing \in Ref \cup {None} /\ key \in Key /\ edits \in 0 .. MaxEdits
      BY <1>1 DEF Init, Key
    <2>3. nextDrawer \in 1 .. MaxDrawers + 1
      BY <1>1, Zenon DEF Init
    <2> QED BY <2>1, <2>2, <2>3, Zenon DEF DrawerOk
  <1>4. ProfilesOk
    <2>1. stored \in [Profile -> {0, 1}] /\ version = 0
      BY Zenon DEF Init
    <2>2. \A p \in Profile : stored[p] <= version + 1
      BY <2>1
    <2>3. stored \in [Profile -> Revision]
      BY <1>1, <2>1
    <2>4. active \in Profile \cup {None} /\ unborn \in SUBSET Profile
      BY DEF Init
    <2> QED BY <1>1, <2>1, <2>2, <2>3, <2>4, Zenon DEF ProfilesOk
  <1>5. ListOk
    <2>1. /\ list = stored /\ rows = stored /\ enabled = active /\ known = 0 /\ gone = {}
          /\ stored \in [Profile -> Revision] /\ active \in Profile \cup {None}
      BY <1>4, Zenon DEF Init, ProfilesOk
    <2> QED BY <1>1, <2>1 DEF ListOk
  <1>6. /\ channel = 0 /\ load = 0 /\ reader = None /\ owner = FALSE /\ refresh = None /\ auto = FALSE
        /\ save = None /\ locked = FALSE /\ dialog = None /\ switch = None /\ timers = {} /\ key = Empty
        /\ nextId = 1 /\ host = {} /\ queued = <<>>
    BY Zenon DEF Init
  <1>7. KeyOk
    <2>1. KeyBelongsToTheDrawer
      BY <1>6 DEF KeyBelongsToTheDrawer, Empty
    <2> QED BY <1>1, <1>6, <2>1 DEF KeyOk
  <1>8. WaitOk
    <2>1. SaveOk
      BY <1>2, <1>6, Zenon DEF SaveOk, IsClosed
    <2>2. DialogOk
      BY <1>2, <1>6 DEF DialogOk, IsClosed, Deleting
    <2>3. SwitchOk
      BY <1>6 DEF SwitchOk
    <2> QED BY <2>1, <2>2, <2>3, Zenon DEF WaitOk
  <1>9. TestOk
    BY <1>2, Zenon DEF TestOk, TestTellsTheDraft, IsClosed
  <1>10. QueueOk
    BY <1>6, EditorAssumption DEF QueueOk
  <1>11. RequestOk
    <2>1. Answered("models", queued) = {} /\ Answered("tested", queued) = {}
      BY <1>6, AnsweredNothing, Zenon
    <2>2. ModelsSound({}, None, 1, {})
      BY DEF ModelsSound, Single
    <2>3. TestsSound({}, drawer, 1, 1, {})
      <3>1. drawer.test = None
        BY <1>2, Zenon DEF IsClosed
      <3> QED BY <3>1 DEF TestsSound, Single
    <2>4. nextDrawer = 1
      BY Zenon DEF Init
    <2> QED BY <1>1, <1>6, <2>1, <2>2, <2>3, <2>4 DEF RequestOk
  <1> QED BY <1>3, <1>4, <1>5, <1>7, <1>8, <1>9, <1>10, <1>11, Zenon DEF EditorInv

LEMMA EditorStutters ==
    ASSUME EditorInv, UNCHANGED vars
    PROVE  EditorInv'
  <1>1. UNCHANGED <<hostVars, host, queued, listVars, drawerVars, keyVars, modelVars, saveVars, dialog, switchVars, idVars>>
    BY Zenon DEF vars
  <1>2. /\ stored' = stored /\ active' = active /\ version' = version /\ unborn' = unborn
        /\ host' = host /\ queued' = queued /\ list' = list /\ enabled' = enabled /\ known' = known
        /\ gone' = gone /\ rows' = rows /\ drawer' = drawer /\ editing' = editing /\ key' = key /\ edits' = edits
        /\ channel' = channel /\ load' = load /\ reader' = reader /\ owner' = owner
        /\ refresh' = refresh /\ auto' = auto /\ save' = save /\ locked' = locked /\ dialog' = dialog
        /\ switch' = switch /\ timers' = timers /\ nextId' = nextId /\ nextDrawer' = nextDrawer
    BY <1>1, Zenon DEF hostVars, listVars, drawerVars, keyVars, modelVars, saveVars, switchVars, idVars
  <1>3. DrawerOk'
    BY <1>1, <1>2, DrawerFrame, Zenon DEF EditorInv
  <1>4. ListOk' /\ ProfilesOk' /\ QueueOk'
    BY <1>1, <1>2, ListFrame, ProfilesFrame, QueueFrame, Zenon DEF EditorInv
  <1>5. KeyOk'
    BY <1>2, Zenon DEF EditorInv, KeyOk, KeyBelongsToTheDrawer, Conflict
  <1>6. WaitOk'
    BY <1>2, Zenon DEF EditorInv, WaitOk, SaveOk, DialogOk, SwitchOk, Deleting
  <1>7. TestOk'
    BY <1>2, Zenon DEF EditorInv, TestOk, TestTellsTheDraft, Conflict
  <1>8. RequestOk'
    BY <1>2, Zenon DEF EditorInv, RequestOk
  <1> QED BY <1>3, <1>4, <1>5, <1>6, <1>7, <1>8, Zenon DEF EditorInv

LEMMA EditorSteps ==
    ASSUME EditorInv, Next
    PROVE  EditorInv'
  <1>1. /\ DrawerOk /\ ListOk /\ ProfilesOk /\ KeyOk /\ WaitOk /\ RequestOk /\ TestOk /\ QueueOk
        /\ host \in SUBSET Requests
    BY Zenon DEF EditorInv, RequestOk
  <1>2. DrawerOk'
    BY <1>1, DrawerStep, Zenon
  <1>3. ProfilesOk'
    BY <1>1, ProfilesStep, Zenon
  <1>4. QueueOk'
    BY <1>1, <1>3, QueueStep, Zenon
  <1>5. ListOk'
    BY <1>1, ListStep, Zenon
  <1>6. KeyOk' /\ WaitOk' /\ TestOk'
    BY <1>1, KeyStep, WaitStep, TestStep, Zenon
  <1>7. RequestOk'
    BY <1>1, <1>2, <1>3, RequestStep, Zenon
  <1> QED BY <1>2, <1>3, <1>4, <1>5, <1>6, <1>7, Zenon DEF EditorInv

LEMMA EditorInvariant == Spec => []EditorInv
  <1>1. Init => EditorInv
    BY EditorStarts
  <1>2. EditorInv /\ [Next]_vars => EditorInv'
    BY EditorSteps, EditorStutters
  <1> QED BY <1>1, <1>2, PTL DEF Spec

-----------------------------------------------------------------------------
(* What is wanted of the editor. *)

\* Every variable of the sidebar, of the window behind it and of the profiles has
\* its type, and the queue its length.
THEOREM TypeCorrect == Spec => []TypeOK
  <1>1. ASSUME EditorInv PROVE TypeOK
    <2>1. /\ stored \in [Profile -> Revision] /\ active \in Profile \cup {None}
          /\ version \in 0 .. MaxVersion /\ unborn \in SUBSET Profile
      BY <1>1, Zenon DEF EditorInv, ProfilesOk
    <2>2. /\ list \in [Profile -> Revision] /\ rows \in [Profile -> Revision]
          /\ enabled \in Profile \cup {None} /\ known \in 0 .. MaxVersion /\ gone \in SUBSET Profile
      BY <1>1, Zenon DEF EditorInv, ListOk
    <2>3. /\ drawer \in DrawerState /\ nextDrawer \in 1 .. MaxDrawers + 1
          /\ editing \in Ref \cup {None} /\ key \in Key /\ edits \in 0 .. MaxEdits
      BY <1>1, Shapes, Zenon DEF EditorInv, DrawerOk
    <2>4. channel \in Drawer /\ load \in Drawer /\ owner \in BOOLEAN /\ reader \in Reader \cup {None}
      BY <1>1, Zenon DEF EditorInv, KeyOk
    <2>5. /\ save \in Save \cup {None} /\ locked \in BOOLEAN /\ dialog \in Dialog \cup {None}
          /\ switch \in Switch \cup {None} /\ timers \in SUBSET Request
      BY <1>1, Zenon DEF EditorInv, WaitOk, SaveOk, DialogOk, SwitchOk
    <2>6. /\ host \in SUBSET Requests /\ refresh \in Refresh \cup {None} /\ auto \in BOOLEAN
          /\ nextId \in 1 .. MaxRequests + 1
      BY <1>1, Zenon DEF EditorInv, RequestOk
    <2>7. \A r \in host : r.id \in Request /\ r.cancelled \in BOOLEAN
      BY <2>6, RequestFields, Zenon
    <2>8. Len(queued) <= MaxQueue
      BY <1>1, Zenon DEF EditorInv, QueueOk
    <2> QED BY <2>1, <2>2, <2>3, <2>4, <2>5, <2>6, <2>7, <2>8 DEF TypeOK
  <1> QED BY <1>1, EditorInvariant, PTL

\* A test that is shown, under way or over, is a test of the draft as it stands:
\* sidebar.ts drops it with every edit.
THEOREM TestTold == Spec => []TestTellsTheDraft
  <1>1. EditorInv => TestTellsTheDraft
    BY Zenon DEF EditorInv, TestOk
  <1> QED BY <1>1, EditorInvariant, PTL

\* A saved key that stands in the drawer is of the profile and the revision shown
\* and covers nothing typed, and a key is read through the channel of its drawer,
\* however many drawers were opened meanwhile (sidebar.ts, loadEditorCredential).
THEOREM KeyBelongs == Spec => []KeyBelongsToTheDrawer
  <1>1. EditorInv => KeyBelongsToTheDrawer
    BY Zenon DEF EditorInv, KeyOk
  <1> QED BY <1>1, EditorInvariant, PTL

\* What the window tests of the drawer that is shown, or lists, and has not
\* cancelled is what the sidebar waits for: every way to stop waiting cancels.
THEOREM RequestsOwned == Spec => []RequestsAreOwned
  <1>1. ASSUME EditorInv PROVE RequestsAreOwned
    <2>1. /\ ModelsSound(host, refresh, nextId, Answered("models", queued))
          /\ TestsSound(host, drawer, nextId, nextDrawer, Answered("tested", queued))
      BY <1>1, Zenon DEF EditorInv, RequestOk
    <2>2. ASSUME NEW r \in host, ~r.cancelled, r.kind = "test", r.drawer = drawer.id, ~Conflict
          PROVE  Testing(drawer) /\ drawer.test.id = r.id
      <3>1. r.kind \in TestKinds
        BY <2>2 DEF TestKinds
      <3> QED BY <2>1, <2>2, <3>1, Zenon DEF TestsSound, Conflict
    <2>3. ASSUME NEW r \in host, ~r.cancelled, r.kind \in {"models", "draft-models"}
          PROVE  refresh # None /\ refresh.id = r.id
      <3>1. r.kind \in ModelKinds
        BY <2>3 DEF ModelKinds
      <3> QED BY <2>1, <2>3, <3>1, Zenon DEF ModelsSound
    <2> QED BY <2>2, <2>3, Zenon DEF RequestsAreOwned
  <1> QED BY <1>1, EditorInvariant, PTL

\* Whatever waits has something that ends the wait: a drawer that is saved its save
\* and the channel of that, a deletion its dialog, a switch its timer.
THEOREM EveryWaitEnds == Spec => []WaitsEnd
  <1>1. EditorInv => WaitsEnd
    BY Zenon DEF EditorInv, WaitOk, SaveOk, DialogOk, SwitchOk, WaitsEnd
  <1> QED BY <1>1, EditorInvariant, PTL

-----------------------------------------------------------------------------
(* What a save expects.  The lists that the window has told of and will tell of *)
(* are those the stored profiles went through: the invariant says that there    *)
(* are a list and the ids without a profile for each version so far, of which   *)
(* the sidebar shows one and the queue holds others.                            *)

Histories == [0 .. MaxVersion -> [Profile -> Revision]]
Births == [0 .. MaxVersion -> SUBSET Profile]
Agree(f, g, n) == \A v \in 0 .. n : g[v] = f[v]

\* A profile of the list k has grown or is gone for good in the later list l.
Grown(k, l, u) == \A p \in Profile : p \notin u => l[p] = 0 \/ (k[p] # 0 /\ k[p] <= l[p])
Later(ls, us, v, w) == us[w] \subseteq us[v] /\ Grown(ls[v], ls[w], us[v])
Past(ls, us, n, l, u) ==
    /\ ls[n] = l /\ us[n] = u
    /\ \A v \in 0 .. n : \A p \in us[v] : ls[v][p] = 0
    /\ \A v \in 0 .. n : \A w \in v .. n : Later(ls, us, v, w)

\* What a message says of the profiles was so.
Pictured(ls, m, n) ==
    m.name \in {"state", "switched"} => m.picture.version \in 0 .. n /\ m.picture.list = ls[m.picture.version]
\* The revision that a save has stored is in a list that is shown, or told before.
Backed(ls, m, n, k, s, i) ==
    m.name = "saved" /\ m.ok =>
        /\ m.revision # 0
        /\ \E v \in 0 .. n :
             /\ ls[v][m.profile] = m.revision
             /\ v <= k \/ \E j \in 1 .. i : s[j].name = "state" /\ s[j].picture.version = v
Told(ls, s, n, k) == \A i \in 1 .. Len(s) : Pictured(ls, s[i], n) /\ Backed(ls, s[i], n, k, s, i - 1)

\* What the sidebar shows when its list is l and u are the ids that had no profile.
ShownBy(l, g) == [p \in Profile |-> IF p \in g THEN 0 ELSE l[p]]
RowsShown(r, s, u) == \A p \in Profile : r[p] # 0 => p \notin u /\ (s[p] = 0 \/ r[p] <= s[p])
Seen(l, u) ==
    /\ list = ShownBy(l, gone) /\ RowsShown(rows, list, u)
    /\ editing # None => editing.profile \notin u
    /\ SaveExpectsWhatIsShown

HistoryIs(ls, us) ==
    /\ known \in 0 .. version /\ Past(ls, us, version, stored, unborn)
    /\ Seen(ls[known], us[known]) /\ Told(ls, queued, version, known)
HistoryOk == \E ls \in Histories, us \in Births : HistoryIs(ls, us)

LEMMA ToldLater ==
    ASSUME NEW ls, NEW ks, NEW s \in Seq(Messages), NEW n \in Nat, NEW m \in Nat, NEW k \in Nat, NEW l \in Nat,
           Told(ls, s, n, k), Agree(ls, ks, n), n <= m, k <= l
    PROVE  Told(ks, s, m, l)
  <1>1. \A v \in 0 .. n : v \in 0 .. m /\ ks[v] = ls[v]
    BY DEF Agree
  <1>2. \A v \in 0 .. n : v <= k => v <= l
    OBVIOUS
  <1>3. ASSUME NEW i \in 1 .. Len(s) PROVE Pictured(ks, s[i], m) /\ Backed(ks, s[i], m, l, s, i - 1)
    <2>1. Pictured(ls, s[i], n) /\ Backed(ls, s[i], n, k, s, i - 1)
      BY Zenon DEF Told
    <2>2. Pictured(ks, s[i], m)
      BY <1>1, <2>1, Zenon DEF Pictured
    <2>3. Backed(ks, s[i], m, l, s, i - 1)
      BY <1>1, <1>2, <2>1, Zenon DEF Backed
    <2> QED BY <2>2, <2>3
  <1> QED BY <1>3, Zenon DEF Told

\* What is told is added to the queue.
LEMMA ToldMore ==
    ASSUME NEW ls, NEW s \in Seq(Messages), NEW t \in Seq(Messages), NEW n, NEW k, Told(ls, s, n, k),
           \A i \in 1 .. Len(t) : Pictured(ls, t[i], n) /\ Backed(ls, t[i], n, k, s, Len(s))
    PROVE  Told(ls, s \o t, n, k)
  <1>1. PICK q : q = s \o t
    OBVIOUS
  <1>2. /\ Len(s) \in Nat /\ Len(t) \in Nat /\ Len(q) = Len(s) + Len(t)
        /\ \A i \in 1 .. Len(s) : q[i] = s[i]
        /\ \A i \in 1 .. Len(q) : i > Len(s) => i - Len(s) \in 1 .. Len(t) /\ q[i] = t[i - Len(s)]
    BY <1>1, ConcatProperties, LenProperties
  <1>3. ASSUME NEW m, NEW i \in Nat, NEW j \in Nat, i <= j, i <= Len(s), Backed(ls, m, n, k, s, i)
        PROVE  Backed(ls, m, n, k, q, j)
    <2>1. \A h \in 1 .. i : h \in 1 .. j /\ q[h] = s[h]
      BY <1>2, <1>3
    <2> QED BY <1>3, <2>1, Zenon DEF Backed
  <1>4. ASSUME NEW i \in 1 .. Len(q) PROVE Pictured(ls, q[i], n) /\ Backed(ls, q[i], n, k, q, i - 1)
    <2>1. CASE i <= Len(s)
      <3>1. i \in 1 .. Len(s) /\ q[i] = s[i] /\ i - 1 \in Nat /\ i - 1 <= i - 1 /\ i - 1 <= Len(s)
        BY <1>2, <2>1
      <3>2. Pictured(ls, s[i], n) /\ Backed(ls, s[i], n, k, s, i - 1)
        BY <3>1, Zenon DEF Told
      <3> QED BY <1>3, <3>1, <3>2, Zenon
    <2>2. CASE ~(i <= Len(s))
      <3>1. /\ i - Len(s) \in 1 .. Len(t) /\ q[i] = t[i - Len(s)]
            /\ Len(s) <= i - 1 /\ Len(s) <= Len(s) /\ i - 1 \in Nat
        BY <1>2, <2>2
      <3>2. Pictured(ls, q[i], n) /\ Backed(ls, q[i], n, k, s, Len(s))
        BY <3>1, Zenon
      <3> QED BY <1>2, <1>3, <3>1, <3>2, Zenon
    <2> QED BY <2>1, <2>2
  <1> QED BY <1>1, <1>4, Zenon DEF Told

\* The first message is taken from the queue.
LEMMA ToldTail ==
    ASSUME NEW ls, NEW s \in Seq(Messages), s # <<>>, NEW n \in Nat, NEW k \in Nat, NEW l \in Nat, Told(ls, s, n, k),
           k <= l, Head(s).name = "state" => Head(s).picture.version <= l
    PROVE  Told(ls, Tail(s), n, l)
  <1>1. PICK t : t = Tail(s)
    OBVIOUS
  <1>2. /\ Len(t) = Len(s) - 1 /\ Len(s) \in Nat \ {0} /\ s[1] = Head(s)
        /\ \A i \in 1 .. Len(t) : t[i] = s[i + 1]
    BY <1>1, HeadTailProperties, EmptySeq, LenProperties
  <1>3. ASSUME NEW i \in 1 .. Len(t) PROVE Pictured(ls, t[i], n) /\ Backed(ls, t[i], n, l, t, i - 1)
    <2>1. i + 1 \in 1 .. Len(s) /\ t[i] = s[i + 1] /\ (i + 1) - 1 = i
      BY <1>2
    <2>2. Pictured(ls, s[i + 1], n) /\ Backed(ls, s[i + 1], n, k, s, (i + 1) - 1)
      BY <2>1, Zenon DEF Told
    <2>3. Pictured(ls, t[i], n) /\ Backed(ls, t[i], n, k, s, i)
      BY <2>1, <2>2, Zenon
    <2>4. ASSUME NEW j \in 1 .. i, NEW v \in 0 .. n, s[j].name = "state", s[j].picture.version = v
          PROVE  v <= l \/ \E h \in 1 .. i - 1 : t[h].name = "state" /\ t[h].picture.version = v
      <3>1. CASE j = 1
        BY <1>2, <2>4, <3>1
      <3>2. CASE j # 1
        <4>1. j - 1 \in 1 .. i - 1 /\ j - 1 \in 1 .. Len(t) /\ (j - 1) + 1 = j
          BY <1>2, <3>2
        <4>2. t[j - 1] = s[j]
          BY <1>2, <4>1, Zenon
        <4> QED BY <2>4, <4>1, <4>2, Zenon
      <3> QED BY <3>1, <3>2
    <2>5. \A v \in 0 .. n : v <= k => v <= l
      OBVIOUS
    <2>6. Backed(ls, t[i], n, l, t, i - 1)
      BY <2>3, <2>4, <2>5, Zenon DEF Backed
    <2> QED BY <2>3, <2>6
  <1> QED BY <1>1, <1>3, Zenon DEF Told

\* What the first message says.
LEMMA ToldHead ==
    ASSUME NEW ls, NEW s \in Seq(Messages), s # <<>>, NEW n, NEW k, Told(ls, s, n, k)
    PROVE  LET m == Head(s) IN
           /\ Pictured(ls, m, n)
           /\ m.name = "saved" /\ m.ok =>
                m.revision # 0 /\ \E v \in 0 .. n : ls[v][m.profile] = m.revision /\ v <= k
  <1>1. 1 \in 1 .. Len(s) /\ s[1] = Head(s)
    BY HeadTailProperties, EmptySeq, LenProperties
  <1>2. PICK m : m = Head(s)
    OBVIOUS
  <1>3. Pictured(ls, m, n) /\ Backed(ls, m, n, k, s, 1 - 1)
    BY <1>1, <1>2, Zenon DEF Told
  <1>4. \A j : j \notin 1 .. 1 - 1
    OBVIOUS
  <1> QED BY <1>2, <1>3, <1>4, Zenon DEF Backed

LEMMA GrownSame ==
    ASSUME NEW l \in [Profile -> Revision], NEW u
    PROVE  Grown(l, l, u)
  <1>1. \A p \in Profile : l[p] \in Nat
    BY EditorAssumption DEF Revision
  <1> QED BY <1>1 DEF Grown

LEMMA PastIs ==
    ASSUME NEW ls, NEW us, NEW n, NEW l, NEW u, ls[n] = l, us[n] = u,
           \A v \in 0 .. n : \A p \in us[v] : ls[v][p] = 0,
           \A v \in 0 .. n : \A w \in v .. n : Later(ls, us, v, w)
    PROVE  Past(ls, us, n, l, u)
  BY Zenon DEF Past

\* What the lists so far say of one of them.
LEMMA PastFacts ==
    ASSUME NEW ls \in Histories, NEW us \in Births, NEW n \in 0 .. MaxVersion, NEW l, NEW u,
           Past(ls, us, n, l, u), NEW k \in 0 .. n
    PROVE  /\ ls[k] \in [Profile -> Revision] /\ us[k] \in SUBSET Profile
           /\ \A p \in us[k] : ls[k][p] = 0
           /\ \A j \in k .. n : us[j] \subseteq us[k] /\ Grown(ls[k], ls[j], us[k])
  <1>1. k \in 0 .. MaxVersion
    BY EditorAssumption
  <1>2. ls[k] \in [Profile -> Revision] /\ us[k] \in SUBSET Profile
    BY <1>1 DEF Histories, Births
  <1>3. \A p \in us[k] : ls[k][p] = 0
    BY Zenon DEF Past
  <1>4. \A j \in k .. n : Later(ls, us, k, j)
    BY Zenon DEF Past
  <1> QED BY <1>2, <1>3, <1>4, Zenon DEF Later

\* A change of one profile makes one more list.
Grows(l, u, p, r) == r = 0 \/ p \in u \/ (l[p] # 0 /\ l[p] <= r)

LEMMA PastChange ==
    ASSUME NEW ls \in Histories, NEW us \in Births, NEW n \in 0 .. MaxVersion, n < MaxVersion,
           NEW l \in [Profile -> Revision], NEW u \in SUBSET Profile, Past(ls, us, n, l, u),
           NEW p \in Profile, NEW r \in Revision, Grows(l, u, p, r)
    PROVE  \E ks \in Histories, vs \in Births :
              /\ Past(ks, vs, n + 1, [l EXCEPT ![p] = r], u \ {p})
              /\ Agree(ls, ks, n) /\ Agree(us, vs, n)
  <1>1. PICK m, k, v : m = n + 1 /\ k = [l EXCEPT ![p] = r] /\ v = u \ {p}
    OBVIOUS
  <1>2. n \in Nat /\ m \in 0 .. MaxVersion /\ m \notin 0 .. n /\ MaxVersion \in Nat
    BY <1>1, EditorAssumption
  <1>3. \A i \in 0 .. m : i = m \/ i \in 0 .. n
    BY <1>1, <1>2
  <1>4. \A i \in 0 .. n : i \in 0 .. MaxVersion /\ i # m
    BY <1>2
  <1>5. k \in [Profile -> Revision] /\ v \in SUBSET Profile /\ k[p] = r /\ \A q \in Profile \ {p} : k[q] = l[q]
    BY <1>1
  <1>6. PICK ks, vs : ks = [ls EXCEPT ![m] = k] /\ vs = [us EXCEPT ![m] = v]
    OBVIOUS
  <1>7. /\ ks \in Histories /\ vs \in Births /\ ks[m] = k /\ vs[m] = v
        /\ \A i \in 0 .. n : ks[i] = ls[i] /\ vs[i] = us[i]
    BY <1>2, <1>4, <1>5, <1>6 DEF Histories, Births
  <1>8. \A i \in 0 .. n : Later(ls, us, i, n) /\ \A q \in us[i] : ls[i][q] = 0
    <2>1. \A i \in 0 .. n : n \in i .. n
      BY <1>2
    <2> QED BY <2>1, Zenon DEF Past
  <1>9. ASSUME NEW i \in 0 .. n PROVE us[i] \in SUBSET Profile /\ v \subseteq us[i] /\ Grown(ls[i], k, us[i])
    <2>1. us[i] \in SUBSET Profile /\ ls[i] \in [Profile -> Revision]
      BY <1>4 DEF Births, Histories
    <2>2. u \subseteq us[i] /\ Grown(ls[i], l, us[i])
      BY <1>8, Zenon DEF Later, Past
    <2>3. \A q \in Profile : ls[i][q] \in Nat /\ l[q] \in Nat
      BY <2>1, EditorAssumption DEF Revision
    <2>4. r \in Nat
      BY EditorAssumption DEF Revision
    <2>5. ASSUME NEW q \in Profile, q \notin us[i] PROVE k[q] = 0 \/ (ls[i][q] # 0 /\ ls[i][q] <= k[q])
      <3>1. l[q] = 0 \/ (ls[i][q] # 0 /\ ls[i][q] <= l[q])
        BY <2>2, <2>5, Zenon DEF Grown
      <3>2. CASE q # p
        BY <1>5, <3>1, <3>2
      <3>3. CASE q = p
        <4>1. r = 0 \/ (l[q] # 0 /\ l[q] <= r)
          BY <2>2, <2>5, <3>3, Zenon DEF Grows
        <4> QED BY <1>5, <2>3, <2>4, <3>1, <3>3, <4>1
      <3> QED BY <3>2, <3>3
    <2>6. Grown(ls[i], k, us[i])
      BY <2>5, Zenon DEF Grown
    <2>7. v \subseteq us[i]
      BY <1>1, <2>2
    <2> QED BY <2>1, <2>6, <2>7
  <1>10. \A i \in 0 .. m : \A q \in vs[i] : ks[i][q] = 0
    <2>1. ASSUME NEW q \in v PROVE k[q] = 0
      <3>1. q \in u /\ q \in Profile \ {p}
        BY <1>1, <2>1
      <3>2. l[q] = 0
        <4>1. n \in 0 .. n
          BY <1>2
        <4> QED BY <3>1, <4>1, Zenon DEF Past
      <3> QED BY <1>5, <3>1, <3>2
    <2> QED BY <1>3, <1>7, <1>8, <2>1, Zenon
  <1>11. ASSUME NEW i \in 0 .. m, NEW j \in i .. m PROVE Later(ks, vs, i, j)
    <2>1. CASE i = m
      <3>1. j = m
        BY <1>2, <2>1
      <3> QED BY <1>5, <1>7, <2>1, <3>1, GrownSame, Zenon DEF Later
    <2>2. CASE i \in 0 .. n /\ j = m
      BY <1>7, <1>9, <2>2, Zenon DEF Later
    <2>3. CASE i \in 0 .. n /\ j # m
      <3>1. j \in i .. n /\ j \in 0 .. n
        BY <1>1, <1>2, <2>3
      <3>2. Later(ls, us, i, j)
        BY <2>3, <3>1, Zenon DEF Past
      <3> QED BY <1>7, <2>3, <3>1, <3>2, Zenon DEF Later
    <2> QED BY <1>3, <2>1, <2>2, <2>3
  <1>12. \A i \in 0 .. m : \A j \in i .. m : Later(ks, vs, i, j)
    BY <1>11
  <1>13. Past(ks, vs, m, k, v)
    BY <1>7, <1>10, <1>12, PastIs, Zenon
  <1>14. Agree(ls, ks, n) /\ Agree(us, vs, n)
    BY <1>7, Zenon DEF Agree
  <1>15. Past(ks, vs, n + 1, [l EXCEPT ![p] = r], u \ {p})
    BY <1>1, <1>13, Zenon
  <1> QED BY <1>7, <1>14, <1>15, Zenon

-----------------------------------------------------------------------------
(* What is shown of a list. *)

LEMMA ShownIs ==
    ASSUME NEW l
    PROVE  Shown(l) = ShownBy(l, gone)
  BY DEF Shown, ShownBy

LEMMA ShownFacts ==
    ASSUME NEW l \in [Profile -> Revision], NEW g
    PROVE  /\ ShownBy(l, g) \in [Profile -> Revision]
           /\ \A p \in Profile : ShownBy(l, g)[p] \in Nat /\ l[p] \in Nat
           /\ \A p \in Profile : ShownBy(l, g)[p] = 0 \/ (p \notin g /\ ShownBy(l, g)[p] = l[p])
           /\ \A p \in Profile : ShownBy(l, g)[p] = 0 => p \in g \/ l[p] = 0
  BY EditorAssumption DEF ShownBy, Revision

\* What is not shown is not shown later either.
LEMMA ShownZero ==
    ASSUME NEW l \in [Profile -> Revision], NEW k \in [Profile -> Revision], NEW u, NEW g, NEW h,
           Grown(l, k, u), g \subseteq h, NEW p \in Profile, p \notin u, ShownBy(l, g)[p] = 0
    PROVE  ShownBy(k, h)[p] = 0
  <1>1. p \in g \/ l[p] = 0
    BY ShownFacts
  <1>2. k[p] = 0 \/ l[p] # 0
    BY Zenon DEF Grown
  <1> QED BY <1>1, <1>2 DEF ShownBy

LEMMA RowsList ==
    ASSUME NEW l \in [Profile -> Revision], NEW u, NEW g, \A p \in u : l[p] = 0
    PROVE  RowsShown(ShownBy(l, g), ShownBy(l, g), u)
  <1>1. PICK s : s = ShownBy(l, g)
    OBVIOUS
  <1>2. \A p \in Profile : s[p] \in Nat /\ (s[p] = 0 \/ s[p] = l[p])
    BY <1>1, ShownFacts
  <1>3. \A p \in Profile : s[p] # 0 => p \notin u /\ s[p] <= s[p]
    BY <1>2
  <1> QED BY <1>1, <1>3, Zenon DEF RowsShown

LEMMA RowsSaved ==
    ASSUME NEW r \in [Profile -> Revision], NEW s, NEW u, RowsShown(r, s, u),
           NEW p \in Profile, NEW v, p \notin u, s[p] = 0 \/ v <= s[p]
    PROVE  RowsShown([r EXCEPT ![p] = v], s, u)
  <1>1. PICK q : q = [r EXCEPT ![p] = v]
    OBVIOUS
  <1>2. q[p] = v /\ \A o \in Profile \ {p} : q[o] = r[o]
    BY <1>1
  <1>3. ASSUME NEW o \in Profile, q[o] # 0 PROVE o \notin u /\ (s[o] = 0 \/ q[o] <= s[o])
    <2>1. CASE o = p
      BY <1>2, <2>1
    <2>2. CASE o # p
      <3>1. q[o] = r[o] /\ r[o] # 0
        BY <1>2, <1>3, <2>2
      <3> QED BY <3>1, Zenon DEF RowsShown
    <2> QED BY <2>1, <2>2
  <1>4. RowsShown(q, s, u)
    BY <1>3, Zenon DEF RowsShown
  <1> QED BY <1>1, <1>4

-----------------------------------------------------------------------------
(* What is edited stays what it is, or nothing is. *)

Kept ==
    /\ editing' = editing \/ editing' = None
    /\ drawer'.mode = "editing" /\ drawer'.validity # "conflict" =>
         /\ editing' = editing /\ drawer.mode = "editing" /\ drawer.validity # "conflict"
         /\ drawer'.profile = drawer.profile /\ drawer'.source = drawer.source

LEMMA KeptSame ==
    ASSUME Same(drawer, drawer'), drawer'.validity = drawer.validity, editing' = editing
    PROVE  Kept
  BY Zenon DEF Kept, Same

LEMMA KeptFrame ==
    ASSUME drawer' = drawer, editing' = editing
    PROVE  Kept
  BY Zenon DEF Kept

LEMMA KeptGone ==
    ASSUME drawer'.mode # "editing" \/ drawer'.validity = "conflict", editing' = editing \/ editing' = None
    PROVE  Kept
  BY Zenon DEF Kept

LEMMA KeptChannel ==
    ASSUME NEW d, Same(drawer, d), d.validity = drawer.validity,
           drawer' = ChannelDrawer(d), editing' = editing
    PROVE  Kept
  <1>1. d \in DrawerState
    BY Zenon DEF Same
  <1>2. Same(d, drawer') /\ drawer'.validity = d.validity
    BY <1>1, DChannel, Zenon
  <1>3. Same(drawer, drawer')
    BY <1>2, Zenon DEF Same
  <1> QED BY <1>2, <1>3, KeptSame, Zenon

LEMMA KeptAfter ==
    ASSUME DrawerOk, NEW l \in [Profile -> Revision], drawer' = DrawerAfter(l), editing' = editing
    PROVE  Kept
  <1>1. GoesOn(l, drawer') \/ FallsInConflict(l, drawer') \/ IsClosed(drawer')
    BY Shapes, DAfter, Zenon
  <1>2. CASE GoesOn(l, drawer')
    BY <1>2, KeptSame, Zenon DEF GoesOn
  <1>3. CASE FallsInConflict(l, drawer')
    BY <1>3, KeptGone, Zenon DEF FallsInConflict
  <1>4. CASE IsClosed(drawer')
    <2>1. drawer'.mode # "editing"
      BY <1>4 DEF IsClosed
    <2> QED BY <2>1, KeptGone, Zenon
  <1> QED BY <1>1, <1>2, <1>3, <1>4

LEMMA KeptClosed ==
    ASSUME drawer' = Closed, editing' = editing \/ editing' = None
    PROVE  Kept
  <1>1. drawer'.mode # "editing"
    BY DClosed
  <1> QED BY <1>1, KeptGone, Zenon

LEMMA KeptEdit ==
    ASSUME DrawerOk, NEW c \in BOOLEAN, drawer' = Edited(c), editing' = editing
    PROVE  Kept
  BY Shapes, DEdited, KeptSame, Zenon

Opening == \E p \in Profile : OpenEditor(p)

LEMMA QuietKept ==
    ASSUME DrawerOk, RequestOk, User \/ Editor \/ Timers
    PROVE  Opening \/ Kept
  <1>1. ASSUME NEW p \in Profile, OpenEditor(p) PROVE Opening
    BY <1>1, Zenon DEF Opening
  <1>2. ASSUME OpenNew PROVE Kept
    <2>1. drawer' = Opened("new", None, 0) /\ editing' = None /\ nextDrawer <= MaxDrawers
      BY <1>2, Zenon DEF OpenNew
    <2>2. drawer'.mode = "new"
      <3>1. nextDrawer \in Drawer /\ 0 \in Revision /\ None \in Profile \cup {None} /\ "new" \in {"new", "editing"}
        BY <2>1, EditorAssumption DEF DrawerOk, Drawer, Revision
      <3>2. Opened("new", None, 0).mode = "new"
        BY DEF Opened, Closed
      <3> QED BY <2>1, <3>2, Zenon
    <2>3. drawer'.mode # "editing"
      BY <2>2
    <2> QED BY <2>1, <2>3, KeptGone, Zenon
  <1>3. ASSUME CloseDrawer PROVE Kept
    BY <1>3, KeptClosed, Zenon DEF CloseDrawer
  <1>4. ASSUME EditKind \/ EditEndpoint \/ EditRoute \/ EditModel PROVE Kept
    <2>1. drawer' = Edited(FALSE) /\ editing' = editing
      BY <1>4, Zenon DEF EditKind, EditEndpoint, EditRoute, EditModel
    <2> QED BY <2>1, KeptEdit, Zenon
  <1>5. ASSUME TypeKey PROVE Kept
    BY <1>5, KeptEdit, Zenon DEF TypeKey
  <1>6. ASSUME RefreshModels \/ SendModels \/ ModelsNotSent \/ SendSave \/ EndpointTimer \/ SwitchExpires
                 \/ BeginRead \/ ReadFails
        PROVE  Kept
    BY <1>6, KeptFrame, Zenon DEF RefreshModels, SendModels, ModelsNotSent, SendSave, EndpointTimer,
                                  SwitchExpires, BeginRead, ReadFails, drawerVars
  <1>7. ASSUME NEW p \in Profile, NEW on \in BOOLEAN, Toggle(p, on) PROVE Kept
    BY <1>7, KeptFrame, Zenon DEF Toggle, drawerVars
  <1>8. ASSUME AcceptRead PROVE Kept
    BY <1>8, KeptFrame, Zenon DEF AcceptRead
  <1>9. ASSUME StartTest PROVE Kept
    <2>1. PICK t : t = [id |-> nextId, draft |-> drawer.draft, phase |-> "testing",
                         sent |-> FALSE, of |-> [edits |-> edits, key |-> key]]
      OBVIOUS
    <2>2. nextId <= MaxRequests /\ drawer' = [drawer EXCEPT !.test = t] /\ editing' = editing
      BY <1>9, <2>1, Zenon DEF StartTest, CanAsk
    <2>3. t \in Test
      BY <2>1, <2>2, TestStarts DEF RequestOk
    <2>4. Same(drawer, drawer') /\ drawer'.validity = drawer.validity
      BY <2>2, <2>3, Shapes, DTest, Zenon
    <2> QED BY <2>2, <2>4, KeptSame, Zenon
  <1>10. ASSUME StartSave PROVE Kept
    <2>1. /\ drawer' = [drawer EXCEPT !.submits = @ + 1, !.test = None, !.saving = TRUE] /\ editing' = editing
      BY <1>10, Zenon DEF StartSave
    <2> QED BY <2>1, Shapes, DSubmitted, KeptSame, Zenon
  <1>11. ASSUME PageHides PROVE Kept
    <2>1. PICK x \in BOOLEAN : x = (save = None)
      OBVIOUS
    <2>2. drawer' = [drawer EXCEPT !.test = None, !.saving = @ /\ x] /\ editing' = editing
      BY <1>11, <2>1, Zenon DEF PageHides
    <2> QED BY <2>2, Shapes, DHidden, KeptSame, Zenon
  <1>12. ASSUME AskDelete PROVE Kept
    <2>1. /\ drawer' = drawer \/ drawer' = [drawer EXCEPT !.deleting = "confirming"]
          /\ editing' = editing
      BY <1>12, Zenon DEF AskDelete
    <2>2. CASE drawer' = [drawer EXCEPT !.deleting = "confirming"]
      BY <2>1, <2>2, Shapes, DDeleting, KeptSame, Zenon
    <2> QED BY <2>1, <2>2, KeptFrame, Zenon
  <1>13. ASSUME CancelDelete PROVE Kept
    BY <1>13, Shapes, WithoutIs, KeptSame, Zenon DEF CancelDelete
  <1>14. ASSUME ConfirmDelete PROVE Kept
    <2>1. PICK b \in BOOLEAN : b = (drawer.profile = dialog.profile)
      OBVIOUS
    <2>2. /\ drawer' = [drawer EXCEPT !.test = None, !.deleting = IF b THEN "deleting" ELSE @]
          /\ editing' = editing
      BY <1>14, <2>1, Zenon DEF ConfirmDelete
    <2> QED BY <2>2, Shapes, DConfirmed, KeptSame, Zenon
  <1>15. ASSUME ChannelFails \/ LoadExpires \/ SaveFails PROVE Kept
    <2>1. drawer' = ChannelDrawer(drawer) /\ editing' = editing
      BY <1>15, Zenon DEF ChannelFails, LoadExpires, SaveFails, CloseChannel, ChannelDrawer
    <2> QED BY <2>1, Shapes, KeptChannel, Zenon DEF Same
  <1>16. ASSUME TestExpires PROVE Kept
    <2>1. Testing(drawer) /\ drawer' = ChannelDrawer(Tested("failed")) /\ editing' = editing
      BY <1>16, Zenon DEF TestExpires, CloseChannel, ChannelDrawer
    <2> QED BY <2>1, Shapes, TestedIs, KeptChannel, Zenon
  <1>17. ASSUME SendTest PROVE Kept
    <2>1. drawer.test # None /\ drawer' = [drawer EXCEPT !.test.sent = TRUE] /\ editing' = editing
      BY <1>17, Zenon DEF SendTest, Testing
    <2> QED BY <2>1, Shapes, DSent, KeptSame, Zenon
  <1>18. ASSUME TestNotSent PROVE Kept
    <2>1. Testing(drawer) /\ drawer' = Tested("failed") /\ editing' = editing
      BY <1>18, Zenon DEF TestNotSent
    <2> QED BY <2>1, Shapes, TestedIs, KeptSame, Zenon
  <1> QED BY <1>1, <1>2, <1>3, <1>4, <1>5, <1>6, <1>7, <1>8, <1>9, <1>10, <1>11, <1>12, <1>13,
         <1>14, <1>15, <1>16, <1>17, <1>18, Zenon DEF User, Editor, Timers

-----------------------------------------------------------------------------
(* A step that makes no list, seen from the lists so far. *)

LEMMA HistoryNext ==
    ASSUME NEW ls \in Histories, NEW us \in Births, known' \in 0 .. version',
           Past(ls, us, version', stored', unborn'), Seen(ls[known], us[known])',
           Told(ls, queued', version', known')
    PROVE  HistoryOk'
  <1>1. HistoryIs(ls, us)'
    BY Zenon DEF HistoryIs
  <1> QED BY <1>1, Zenon DEF HistoryOk, Histories, Births, Revision

\* The sidebar takes what is known further, and may take a message.
Takes == queued # <<>> /\ queued' = Tail(queued)
            /\ (Head(queued).name = "state" => Head(queued).picture.version <= known')

LEMMA HistoryMoves ==
    ASSUME NEW ls \in Histories, NEW us \in Births, HistoryIs(ls, us), UNCHANGED hostVars,
           queued \in Seq(Messages), version \in Nat, known' \in known .. version,
           Seen(ls[known], us[known])', queued' = queued \/ Takes
    PROVE  HistoryOk'
  <1>1. /\ known \in 0 .. version /\ Past(ls, us, version, stored, unborn)
        /\ Told(ls, queued, version, known)
    BY Zenon DEF HistoryIs
  <1>2. version' = version /\ stored' = stored /\ unborn' = unborn
    BY Zenon DEF hostVars
  <1>3. known \in Nat /\ known' \in Nat /\ known <= known' /\ known' \in 0 .. version /\ version <= version
    BY <1>1
  <1>4. Agree(ls, ls, version)
    BY Zenon DEF Agree
  <1>5. PICK k \in Nat : k = known'
    BY <1>3
  <1>6. Told(ls, queued', version, known')
    <2>1. CASE queued' = queued
      BY <1>1, <1>3, <1>4, <1>5, <2>1, ToldLater, Zenon
    <2>2. CASE Takes
      BY <1>1, <1>3, <1>5, <2>2, ToldTail, Zenon DEF Takes
    <2> QED BY <2>1, <2>2
  <1> QED BY <1>1, <1>2, <1>3, <1>6, HistoryNext, Zenon

LEMMA SaveKept ==
    ASSUME SaveExpectsWhatIsShown, Kept, NEW s, s = list',
           editing # None /\ list[editing.profile] = 0 => s[editing.profile] = 0
    PROVE  SaveExpectsWhatIsShown'
  BY Zenon DEF SaveExpectsWhatIsShown, Kept, Conflict

\* What is edited is kept, and the sidebar shows a later list.
LEMMA SeenMoves ==
    ASSUME NEW l \in [Profile -> Revision], NEW k \in [Profile -> Revision], NEW u, NEW v, v \subseteq u,
           Seen(l, u), Grown(l, k, u), gone \subseteq gone', editing \in Ref \cup {None}, Kept,
           list' = ShownBy(k, gone'), RowsShown(rows', list', v)
    PROVE  Seen(k, v)'
  <1>1. /\ list = ShownBy(l, gone) /\ SaveExpectsWhatIsShown
        /\ editing # None => editing.profile \notin u
    BY Zenon DEF Seen
  <1>2. PICK s, h : s = list' /\ h = gone'
    OBVIOUS
  <1>3. editing # None => editing.profile \in Profile
    BY DEF Ref
  <1>4. editing # None /\ list[editing.profile] = 0 => s[editing.profile] = 0
    <2>1. SUFFICES ASSUME editing # None, list[editing.profile] = 0 PROVE s[editing.profile] = 0
      OBVIOUS
    <2>2. PICK p, g : p = editing.profile /\ g = gone
      OBVIOUS
    <2>3. /\ p \in Profile /\ p \notin u /\ g \subseteq h /\ ShownBy(l, g)[p] = 0
          /\ s = ShownBy(k, h)
      BY <1>1, <1>2, <1>3, <2>1, <2>2, Zenon
    <2>4. ShownBy(k, h)[p] = 0
      BY <2>3, ShownZero
    <2> QED BY <2>2, <2>3, <2>4
  <1>5. SaveExpectsWhatIsShown'
    BY <1>1, <1>2, <1>4, SaveKept, Zenon
  <1>6. editing' # None => editing'.profile \notin v
    <2>1. editing' = editing \/ editing' = None
      BY Zenon DEF Kept
    <2> QED BY <1>1, <2>1
  <1> QED BY <1>5, <1>6, Zenon DEF Seen

LEMMA SeenKept ==
    ASSUME NEW l \in [Profile -> Revision], NEW u, Seen(l, u), editing \in Ref \cup {None}, Kept,
           list' = list, rows' = rows, gone' = gone
    PROVE  Seen(l, u)'
  <1>1. Grown(l, l, u)
    BY GrownSame
  <1>2. list = ShownBy(l, gone) /\ RowsShown(rows, list, u)
    BY Zenon DEF Seen
  <1>3. list' = ShownBy(l, gone') /\ RowsShown(rows', list', u) /\ gone \subseteq gone' /\ u \subseteq u
    BY <1>2, Zenon
  <1> QED BY <1>1, <1>3, SeenMoves, Zenon

\* What a history says of now.
LEMMA HistoryNow ==
    ASSUME NEW ls \in Histories, NEW us \in Births, HistoryIs(ls, us), ProfilesOk
    PROVE  /\ version \in 0 .. MaxVersion /\ version \in Nat /\ known \in 0 .. version /\ known \in Nat
           /\ Seen(ls[known], us[known]) /\ Told(ls, queued, version, known)
           /\ ls[version] = stored /\ us[version] = unborn
           /\ Past(ls, us, version, stored, unborn)
           /\ \A k \in 0 .. version :
                /\ ls[k] \in [Profile -> Revision] /\ us[k] \in SUBSET Profile
                /\ \A p \in us[k] : ls[k][p] = 0
                /\ \A j \in k .. version : us[j] \subseteq us[k] /\ Grown(ls[k], ls[j], us[k])
  <1>1. version \in 0 .. MaxVersion
    BY Zenon DEF ProfilesOk
  <1>2. version \in Nat
    BY <1>1, EditorAssumption
  <1>3. /\ known \in 0 .. version /\ Past(ls, us, version, stored, unborn)
        /\ Seen(ls[known], us[known]) /\ Told(ls, queued, version, known)
    BY Zenon DEF HistoryIs
  <1>4. ls[version] = stored /\ us[version] = unborn
    BY <1>3, Zenon DEF Past
  <1>5. known \in Nat
    BY <1>2, <1>3
  <1>6. \A k \in 0 .. version :
                /\ ls[k] \in [Profile -> Revision] /\ us[k] \in SUBSET Profile
                /\ \A p \in us[k] : ls[k][p] = 0
                /\ \A j \in k .. version : us[j] \subseteq us[k] /\ Grown(ls[k], ls[j], us[k])
    BY <1>1, <1>3, PastFacts, Zenon
  <1> QED BY <1>1, <1>2, <1>3, <1>4, <1>5, <1>6, Zenon

LEMMA QuietHistory ==
    ASSUME DrawerOk, ListOk, ProfilesOk, RequestOk, QueueOk,
           NEW ls \in Histories, NEW us \in Births, HistoryIs(ls, us), User \/ Editor \/ Timers
    PROVE  HistoryOk'
  <1>1. PICK l, u : l = ls[known] /\ u = us[known]
    OBVIOUS
  <1>2. /\ l \in [Profile -> Revision] /\ Seen(l, u) /\ version \in Nat /\ known \in Nat /\ known \in 0 .. version
    BY <1>1, HistoryNow, Zenon
  <1>3. /\ UNCHANGED hostVars /\ queued' = queued /\ list' = list /\ known' = known /\ gone' = gone /\ rows' = rows
        /\ queued \in Seq(Messages) /\ editing \in Ref \cup {None}
    BY QuietStep, Zenon DEF listVars, QueueOk, DrawerOk
  <1>4. known' \in known .. version
    BY <1>2, <1>3
  <1>5. CASE Kept
    <2>1. Seen(l, u)'
      BY <1>2, <1>3, <1>5, SeenKept, Zenon
    <2>2. Seen(ls[known], us[known])'
      BY <1>1, <1>3, <2>1, Zenon DEF Seen
    <2> QED BY <1>2, <1>3, <1>4, <2>2, HistoryMoves, Zenon
  <1>6. ASSUME NEW p \in Profile, OpenEditor(p) PROVE HistoryOk'
    <2>1. /\ list = ShownBy(l, gone) /\ RowsShown(rows, list, u)
          /\ editing # None => editing.profile \notin u
      BY <1>2, Zenon DEF Seen
    <2>2. drawer \in DrawerState /\ list[p] \in Revision /\ rows[p] \in Revision
      BY Shapes DEF ListOk
    <2>3. PICK h : rows[p] # 0 /\ (Opens1(h) \/ Opens2(p, h) \/ Opens3(p, h))
      BY <1>6, <2>2, OpenEditorIs, Zenon
    <2>4. p \notin u /\ (list[p] = 0 \/ rows[p] <= list[p])
      BY <2>1, <2>3, Zenon DEF RowsShown
    <2>5. SaveExpectsWhatIsShown' /\ (editing' # None => editing'.profile \notin u)
      <3>1. CASE Opens1(h)
        <4>1. drawer' = Closed /\ editing' = None
          BY <3>1, Zenon DEF Opens1
        <4>2. drawer'.mode # "editing"
          BY <4>1, DClosed
        <4> QED BY <4>1, <4>2, Zenon DEF SaveExpectsWhatIsShown
      <3>2. CASE Opens2(p, h)
        <4>1. PICK v, r : v = list[p] /\ r = rows[p]
          OBVIOUS
        <4>2. /\ drawer' = Opened("editing", p, v) /\ editing' = [profile |-> p, revision |-> r]
              /\ v # 0
          BY <3>2, <4>1, Zenon DEF Opens2
        <4>3. drawer'.profile = p /\ drawer'.source = v
          <5>1. PICK e : e = Opened("editing", p, v)
            OBVIOUS
          <5>2. e.profile = p /\ e.source = v
            BY <5>1 DEF Opened, Closed
          <5> QED BY <4>2, <5>1, <5>2, Zenon
        <4>4. editing'.profile = p /\ editing'.revision = r /\ editing' # None
          <5>1. [profile |-> p, revision |-> r] \in Ref
            BY <2>2, <4>1 DEF Ref
          <5> QED BY <4>2, <5>1, EditorAssumption
        <4>5. r <= v
          BY <2>4, <4>1, <4>2
        <4> QED BY <2>4, <4>3, <4>4, <4>5, Zenon DEF SaveExpectsWhatIsShown
      <3>3. CASE Opens3(p, h)
        <4>1. PICK r : r = rows[p]
          OBVIOUS
        <4>2. list[p] = 0 /\ \/ editing # None /\ editing.profile = p /\ editing' = editing
                             \/ editing' = [profile |-> p, revision |-> r]
          BY <3>3, <4>1, Zenon DEF Opens3
        <4>3. editing' # None /\ editing'.profile = p
          <5>1. [profile |-> p, revision |-> r] \in Ref
            BY <2>2, <4>1 DEF Ref
          <5> QED BY <4>2, <5>1, EditorAssumption
        <4>4. list'[editing'.profile] = 0
          BY <1>3, <4>2, <4>3, Zenon
        <4> QED BY <2>4, <4>3, <4>4, Zenon DEF SaveExpectsWhatIsShown
      <3> QED BY <2>3, <3>1, <3>2, <3>3, Zenon
    <2>6. Seen(ls[known], us[known])'
      BY <1>1, <1>3, <2>1, <2>5, Zenon DEF Seen
    <2> QED BY <1>2, <1>3, <1>4, <2>6, HistoryMoves, Zenon
  <1> QED BY <1>5, <1>6, QuietKept, Zenon DEF Opening

-----------------------------------------------------------------------------
(* What a message does. *)

\* The lists that a message speaks of.
LEMMA HistoryHead ==
    ASSUME QueueOk, ProfilesOk, queued # <<>>, NEW ls \in Histories, NEW us \in Births, HistoryIs(ls, us),
           NEW m, m = Head(queued)
    PROVE  /\ m \in Messages
           /\ m.name \in {"state", "switched"} => m.picture.version \in 0 .. version /\ m.picture.list = ls[m.picture.version]
           /\ m.name = "saved" /\ m.ok =>
                m.revision # 0 /\ \E v \in 0 .. version : ls[v][m.profile] = m.revision /\ v <= known
  <1>1. Told(ls, queued, version, known) /\ queued \in Seq(Messages)
    BY HistoryNow, Zenon DEF QueueOk
  <1>2. m \in Messages
    BY <1>1, HeadTyped, Zenon
  <1>3. /\ Pictured(ls, m, version)
        /\ m.name = "saved" /\ m.ok =>
                m.revision # 0 /\ \E v \in 0 .. version : ls[v][m.profile] = m.revision /\ v <= known
    BY <1>1, ToldHead, Zenon
  <1> QED BY <1>2, <1>3, Zenon DEF Pictured

LEMMA AuthorityHistory ==
    ASSUME DrawerOk, KeyOk, RequestOk, ProfilesOk, QueueOk,
           NEW ls \in Histories, NEW us \in Births, HistoryIs(ls, us),
           queued # <<>>, queued' = Tail(queued), NEW m, m = Head(queued), m.name \in {"state", "switched"},
           NEW sw, ApplyAuthority(m.picture, sw), UNCHANGED hostVars, gone' = gone, editing' = editing,
           rows' = list' \/ (rows' = rows /\ ~(m.picture.version >= known))
    PROVE  HistoryOk'
  <1>1. PICK q, w : q = m.picture /\ w = q.version
    OBVIOUS
  <1>2. ApplyAuthority(q, sw) /\ owner \in BOOLEAN /\ auto \in BOOLEAN
    BY <1>1, Zenon DEF KeyOk, RequestOk
  <1>3. w \in 0 .. version /\ q.list = ls[w] /\ (Ignored(q, sw) \/ Applied(q, sw))
    BY <1>1, <1>2, HistoryHead, ApplyAuthorityIs, Zenon
  <1>4. PICK l, u, k, v : l = ls[known] /\ u = us[known] /\ k = ls[w] /\ v = us[w]
    OBVIOUS
  <1>5. /\ version \in Nat /\ known \in Nat /\ known \in 0 .. version /\ Seen(l, u)
        /\ l \in [Profile -> Revision] /\ k \in [Profile -> Revision]
        /\ \A p \in u : l[p] = 0
        /\ \A p \in v : k[p] = 0
        /\ w \in known .. version => v \subseteq u /\ Grown(l, k, u)
    BY <1>3, <1>4, HistoryNow, Zenon
  <1>6. queued \in Seq(Messages) /\ editing \in Ref \cup {None} /\ gone \subseteq gone'
    BY DEF QueueOk, DrawerOk
  <1>7. w \in Nat
    BY <1>3, <1>5
  <1>8. CASE Ignored(q, sw)
    <2>1. list' = list /\ known' = known /\ drawer' = drawer /\ w <= known
      BY <1>1, <1>8, Zenon DEF Ignored
    <2>2. list = ShownBy(l, gone) /\ RowsShown(rows, list, u)
      BY <1>5, Zenon DEF Seen
    <2>3. RowsShown(rows', list', u)
      BY <1>5, <2>1, <2>2, RowsList, Zenon
    <2>4. Grown(l, l, u) /\ u \subseteq u
      BY <1>5, GrownSame
    <2>5. Kept /\ list' = ShownBy(l, gone')
      BY <2>1, <2>2, KeptFrame, Zenon
    <2>6. Seen(l, u)'
      BY <1>5, <1>6, <2>3, <2>4, <2>5, SeenMoves, Zenon
    <2>7. Seen(ls[known], us[known])'
      BY <1>4, <2>1, <2>6, Zenon DEF Seen
    <2>8. Takes /\ known' \in known .. version
      <3>1. known' \in known .. version
        BY <1>5, <2>1
      <3> QED BY <1>1, <2>1, <3>1, Zenon DEF Takes
    <2> QED BY <1>5, <1>6, <2>7, <2>8, HistoryMoves, Zenon
  <1>9. CASE Applied(q, sw)
    <2>1. list' = Shown(q.list) /\ known' = w /\ drawer' = DrawerAfter(list') /\ ~(w <= known)
      BY <1>1, <1>9, Zenon DEF Applied
    <2>2. list' = ShownBy(k, gone') /\ list' \in [Profile -> Revision]
      BY <1>3, <1>4, <1>5, <2>1, ShownIs, ShownTyped, Zenon
    <2>3. rows' = list' /\ w \in known .. version /\ w <= w
      BY <1>1, <1>3, <1>5, <1>7, <2>1
    <2>4. RowsShown(rows', list', v)
      BY <1>5, <2>2, <2>3, RowsList, Zenon
    <2>5. Kept
      <3>1. PICK s : s = list'
        OBVIOUS
      <3>2. s \in [Profile -> Revision] /\ drawer' = DrawerAfter(s)
        BY <2>1, <2>2, <3>1, Zenon
      <3> QED BY <3>2, KeptAfter, Zenon
    <2>6. Seen(k, v)'
      BY <1>5, <1>6, <2>2, <2>3, <2>4, <2>5, SeenMoves, Zenon
    <2>7. Seen(ls[known], us[known])'
      BY <1>4, <2>1, <2>6, Zenon DEF Seen
    <2>8. Takes /\ known' \in known .. version
      BY <1>1, <2>1, <2>3, Zenon DEF Takes
    <2> QED BY <1>5, <1>6, <2>7, <2>8, HistoryMoves, Zenon
  <1> QED BY <1>3, <1>8, <1>9

LEMMA DeletedHistory ==
    ASSUME DrawerOk, ProfilesOk, QueueOk, NEW ls \in Histories, NEW us \in Births, HistoryIs(ls, us),
           queued # <<>>, queued' = Tail(queued), NEW m, m = Head(queued), HandleDeleted(m)
    PROVE  HistoryOk'
  <1>1. m.name = "deleted" /\ m \in Messages
    BY HistoryHead, Zenon DEF HandleDeleted
  <1>2. PICK p \in Profile : p = m.profile
    BY <1>1, MessageFields
  <1>3. /\ gone' = gone \cup {p} /\ list' = [list EXCEPT ![p] = 0] /\ rows' = list' /\ known' = known
        /\ UNCHANGED hostVars
        /\ \/ drawer' = Closed /\ (editing' = editing \/ editing' = None)
           \/ drawer' = drawer /\ editing' = editing
    BY <1>2, Zenon DEF HandleDeleted
  <1>4. PICK l, u : l = ls[known] /\ u = us[known]
    OBVIOUS
  <1>5. /\ version \in Nat /\ known \in Nat /\ known \in 0 .. version /\ Seen(l, u)
        /\ l \in [Profile -> Revision]
        /\ \A o \in u : l[o] = 0
    BY <1>4, HistoryNow, Zenon
  <1>6. queued \in Seq(Messages) /\ editing \in Ref \cup {None} /\ gone \subseteq gone'
    BY <1>3 DEF QueueOk, DrawerOk
  <1>7. Kept
    BY <1>3, KeptClosed, KeptFrame, Zenon
  <1>8. list' = ShownBy(l, gone')
    <2>1. list = ShownBy(l, gone)
      BY <1>5, Zenon DEF Seen
    <2>2. [ShownBy(l, gone) EXCEPT ![p] = 0] = ShownBy(l, gone \cup {p})
      BY DEF ShownBy
    <2> QED BY <1>3, <2>1, <2>2, Zenon
  <1>9. RowsShown(rows', list', u)
    BY <1>3, <1>5, <1>8, RowsList, Zenon
  <1>10. Grown(l, l, u) /\ u \subseteq u
    BY <1>5, GrownSame
  <1>11. Seen(l, u)'
    BY <1>5, <1>6, <1>7, <1>8, <1>9, <1>10, SeenMoves, Zenon
  <1>12. Seen(ls[known], us[known])'
    BY <1>3, <1>4, <1>11, Zenon DEF Seen
  <1>13. known' \in known .. version
    BY <1>3, <1>5
  <1>14. Takes
    <2>1. m.name # "state"
      BY <1>1
    <2> QED BY <2>1, Zenon DEF Takes
  <1> QED BY <1>3, <1>5, <1>6, <1>12, <1>13, <1>14, HistoryMoves, Zenon

\* A row is there at once: its profile is in the list that is shown, or has gone from it.
LEMMA SavedHistory ==
    ASSUME DrawerOk, ListOk, ProfilesOk, QueueOk, NEW ls \in Histories, NEW us \in Births, HistoryIs(ls, us),
           queued # <<>>, queued' = Tail(queued), NEW m, m = Head(queued), HandleSaved(m)
    PROVE  HistoryOk'
  <1>1. m.name = "saved" /\ m \in Messages
    BY HistoryHead, Zenon DEF HandleSaved
  <1>2. /\ list' = list /\ known' = known /\ gone' = gone /\ UNCHANGED hostVars
        /\ \/ rows' = rows /\ drawer' = drawer /\ editing' = editing
           \/ rows' = rows /\ drawer' = ChannelDrawer(drawer) /\ editing' = editing
           \/ rows' = [rows EXCEPT ![m.profile] = m.revision] /\ m.ok /\ drawer' = Closed /\ editing' = None
    BY Zenon DEF HandleSaved, CloseChannel, ChannelDrawer, drawerVars
  <1>3. PICK l, u : l = ls[known] /\ u = us[known]
    OBVIOUS
  <1>4. /\ version \in Nat /\ known \in Nat /\ known \in 0 .. version /\ Seen(l, u)
        /\ l \in [Profile -> Revision]
    BY <1>3, HistoryNow, Zenon
  <1>5. queued \in Seq(Messages) /\ editing \in Ref \cup {None} /\ gone \subseteq gone'
    BY <1>2 DEF QueueOk, DrawerOk
  <1>6. Kept
    <2>1. drawer \in DrawerState /\ Same(drawer, drawer)
      BY Shapes, Zenon DEF Same
    <2> QED BY <1>2, <2>1, KeptClosed, KeptFrame, KeptChannel, Zenon
  <1>7. list = ShownBy(l, gone) /\ RowsShown(rows, list, u)
    BY <1>4, Zenon DEF Seen
  <1>8. RowsShown(rows', list', u)
    <2>1. CASE rows' = rows
      BY <1>2, <1>7, <2>1, Zenon
    <2>2. CASE rows' = [rows EXCEPT ![m.profile] = m.revision] /\ m.ok
      <3>1. PICK p, r : p = m.profile /\ r = m.revision
        OBVIOUS
      <3>2. p \in Profile /\ r \in Revision
        BY <1>1, <2>2, <3>1, MessageFields
      <3>3. PICK v \in 0 .. version : r # 0 /\ ls[v][p] = r /\ v <= known
        BY <1>1, <2>2, <3>1, HistoryHead, Zenon
      <3>4. known \in v .. version
        BY <1>4, <3>3
      <3>5. (\A o \in us[v] : ls[v][o] = 0) /\ u \subseteq us[v] /\ Grown(ls[v], l, us[v])
        BY <1>3, <3>4, HistoryNow, Zenon
      <3>6. p \notin us[v] /\ p \notin u
        BY <3>3, <3>5
      <3>7. l[p] = 0 \/ r <= l[p]
        BY <3>2, <3>3, <3>5, <3>6, Zenon DEF Grown
      <3>8. list[p] = 0 \/ r <= list[p]
        <4>1. list[p] = 0 \/ list[p] = l[p]
          BY <1>7, <3>2 DEF ShownBy
        <4>2. l[p] \in Nat
          BY <1>4, <3>2, EditorAssumption DEF Revision
        <4> QED BY <3>7, <4>1, <4>2
      <3>9. rows \in [Profile -> Revision]
        BY Zenon DEF ListOk
      <3>10. RowsShown([rows EXCEPT ![p] = r], list, u)
        BY <1>7, <3>2, <3>6, <3>8, <3>9, RowsSaved, Zenon
      <3> QED BY <1>2, <2>2, <3>1, <3>10, Zenon
    <2> QED BY <1>2, <2>1, <2>2
  <1>9. Grown(l, l, u) /\ u \subseteq u
    BY <1>4, GrownSame
  <1>10. list' = ShownBy(l, gone')
    BY <1>2, <1>7, Zenon
  <1>11. Seen(l, u)'
    BY <1>4, <1>5, <1>6, <1>8, <1>9, <1>10, SeenMoves, Zenon
  <1>12. Seen(ls[known], us[known])'
    BY <1>2, <1>3, <1>11, Zenon DEF Seen
  <1>13. known' \in known .. version
    BY <1>2, <1>4
  <1>14. Takes
    <2>1. m.name # "state"
      BY <1>1
    <2> QED BY <2>1, Zenon DEF Takes
  <1> QED BY <1>2, <1>4, <1>5, <1>12, <1>13, <1>14, HistoryMoves, Zenon

LEMMA DeliverHistory ==
    ASSUME DrawerOk, ListOk, ProfilesOk, KeyOk, WaitOk, RequestOk, QueueOk,
           NEW ls \in Histories, NEW us \in Births, HistoryIs(ls, us), Deliver
    PROVE  HistoryOk'
  <1>1. PICK m : m = Head(queued)
    OBVIOUS
  <1>2. /\ queued # <<>> /\ queued' = Tail(queued)
        /\ \/ HandleState(m) \/ HandleSwitched(m) \/ HandleDeleted(m) \/ HandleRefused(m)
           \/ HandleTested(m) \/ HandleModels(m) \/ HandleSaved(m) \/ HandleRevoked(m)
    BY <1>1, Zenon DEF Deliver
  <1>3. CASE HandleState(m)
    <2>1. /\ m.name = "state" /\ ApplyAuthority(m.picture, switch)
          /\ rows' = IF m.picture.version >= known THEN list' ELSE rows
          /\ UNCHANGED hostVars /\ gone' = gone /\ editing' = editing
      BY <1>3, Zenon DEF HandleState, TakeAuthority
    <2>2. rows' = list' \/ (rows' = rows /\ ~(m.picture.version >= known))
      BY <2>1, Zenon
    <2>3. m.name \in {"state", "switched"}
      BY <2>1
    <2> QED BY <1>1, <1>2, <2>1, <2>2, <2>3, AuthorityHistory, Zenon
  <1>4. CASE HandleSwitched(m)
    <2>1. PICK sw : sw = IF switch # None /\ switch.id = m.id THEN None ELSE switch
      OBVIOUS
    <2>2. /\ m.name = "switched" /\ ApplyAuthority(m.picture, sw)
          /\ rows' = list' \/ (rows' = rows /\ ~(m.picture.version >= known))
          /\ UNCHANGED hostVars /\ gone' = gone /\ editing' = editing
      BY <1>4, <2>1, Zenon DEF HandleSwitched
    <2>3. m.name \in {"state", "switched"}
      BY <2>2
    <2> QED BY <1>1, <1>2, <2>2, <2>3, AuthorityHistory, Zenon
  <1>5. CASE HandleDeleted(m)
    BY <1>1, <1>2, <1>5, DeletedHistory, Zenon
  <1>6. CASE HandleSaved(m)
    BY <1>1, <1>2, <1>6, SavedHistory, Zenon
  <1>7. CASE HandleRefused(m) \/ HandleTested(m) \/ HandleModels(m) \/ HandleRevoked(m)
    <2>1. UNCHANGED <<hostVars, listVars>> /\ editing' = editing /\ m.name # "state"
      <3>1. UNCHANGED <<hostVars, listVars>> /\ editing' = editing
        BY <1>7, Zenon DEF HandleRefused, HandleTested, HandleModels, HandleRevoked, drawerVars
      <3>2. m.name \in {"refused", "tested", "models", "revoked"}
        BY <1>7 DEF HandleRefused, HandleTested, HandleModels, HandleRevoked
      <3> QED BY <3>1, <3>2
    <2>2. list' = list /\ rows' = rows /\ gone' = gone /\ known' = known
      BY <2>1, Zenon DEF listVars
    <2>3. Kept
      <3>1. drawer \in DrawerState /\ Same(drawer, drawer)
        BY Shapes, Zenon DEF Same
      <3>2. CASE HandleRefused(m)
        <4>1. drawer' = drawer \/ drawer' = WithoutDialog
          BY <3>2, Zenon DEF HandleRefused
        <4> QED BY <2>1, <3>1, <4>1, WithoutIs, KeptSame, KeptFrame, Zenon
      <3>3. CASE HandleTested(m)
        <4>1. PICK t \in {"passed", "failed"} : t = IF m.ok THEN "passed" ELSE "failed"
          OBVIOUS
        <4>2. \/ drawer' = drawer
              \/ Testing(drawer) /\ drawer' = ChannelDrawer(Tested("failed"))
              \/ Testing(drawer) /\ drawer' = Tested(t)
          BY <3>3, <4>1, Zenon DEF HandleTested, CloseChannel, ChannelDrawer
        <4>3. CASE drawer' = drawer
          BY <2>1, <4>3, KeptFrame, Zenon
        <4>4. CASE Testing(drawer) /\ drawer' = ChannelDrawer(Tested("failed"))
          BY <2>1, <3>1, <4>4, TestedIs, KeptChannel, Zenon
        <4>5. CASE Testing(drawer) /\ drawer' = Tested(t)
          BY <2>1, <3>1, <4>5, TestedIs, KeptSame, Zenon
        <4> QED BY <4>2, <4>3, <4>4, <4>5, Zenon
      <3>4. CASE HandleModels(m)
        BY <2>1, <3>4, KeptFrame, Zenon DEF HandleModels, drawerVars
      <3>5. CASE HandleRevoked(m)
        <4>1. drawer' = drawer \/ drawer' = ChannelDrawer(drawer)
          BY <3>5, Zenon DEF HandleRevoked, CloseChannel, ChannelDrawer
        <4> QED BY <2>1, <3>1, <4>1, KeptFrame, KeptChannel, Zenon
      <3> QED BY <1>7, <3>2, <3>3, <3>4, <3>5, Zenon
    <2>4. PICK l, u : l = ls[known] /\ u = us[known]
      OBVIOUS
    <2>5. /\ l \in [Profile -> Revision] /\ Seen(l, u) /\ version \in Nat /\ known \in Nat /\ known \in 0 .. version
      BY <2>4, HistoryNow, Zenon
    <2>6. queued \in Seq(Messages) /\ editing \in Ref \cup {None}
      BY Zenon DEF QueueOk, DrawerOk
    <2>7. Seen(l, u)'
      BY <2>2, <2>3, <2>5, <2>6, SeenKept, Zenon
    <2>8. Seen(ls[known], us[known])'
      BY <2>2, <2>4, <2>7, Zenon DEF Seen
    <2>9. known' \in known .. version
      BY <2>2, <2>5
    <2>10. Takes
      BY <1>1, <1>2, <2>1, Zenon DEF Takes
    <2> QED BY <2>1, <2>5, <2>6, <2>8, <2>9, <2>10, HistoryMoves, Zenon
  <1> QED BY <1>2, <1>3, <1>4, <1>5, <1>6, <1>7, Zenon

\* A snapshot overtakes what is queued.
LEMMA UpdateHistory ==
    ASSUME DrawerOk, ProfilesOk, RequestOk, QueueOk,
           NEW ls \in Histories, NEW us \in Births, HistoryIs(ls, us), HandleUpdate
    PROVE  HistoryOk'
  <1>1. editing \in Ref \cup {None} /\ refresh \in Refresh \cup {None} /\ queued \in Seq(Messages)
    BY Zenon DEF DrawerOk, RequestOk, QueueOk
  <1>2. PICK s : s = Shown(stored)
    OBVIOUS
  <1>3. PICK d : d = DrawerAfter(s)
    OBVIOUS
  <1>4. UpdateFor(s) /\ (UpdateDrops(d) \/ UpdateKeeps(d, s))
    BY <1>1, <1>2, <1>3, HandleUpdateIs, Zenon
  <1>5. PICK l, u : l = ls[known] /\ u = us[known]
    OBVIOUS
  <1>6. PICK k, v : k = stored /\ v = unborn
    OBVIOUS
  <1>7. /\ version \in Nat /\ known \in Nat /\ known \in 0 .. version /\ Seen(l, u)
        /\ l \in [Profile -> Revision] /\ k = ls[version] /\ v = us[version]
    BY <1>5, <1>6, HistoryNow, Zenon
  <1>8. version \in known .. version /\ version \in version .. version /\ version \in 0 .. version
    BY <1>7
  <1>9. /\ k \in [Profile -> Revision] /\ v \subseteq u /\ Grown(l, k, u)
        /\ \A p \in v : k[p] = 0
    <2>1. \A j \in 0 .. version :
             /\ ls[j] \in [Profile -> Revision]
             /\ \A p \in us[j] : ls[j][p] = 0
             /\ \A i \in j .. version : us[i] \subseteq us[j] /\ Grown(ls[j], ls[i], us[j])
      BY HistoryNow, Zenon
    <2>2. k \in [Profile -> Revision] /\ \A p \in v : k[p] = 0
      BY <1>7, <1>8, <2>1, Zenon
    <2>3. v \subseteq u /\ Grown(l, k, u)
      BY <1>5, <1>7, <1>8, <2>1, Zenon
    <2> QED BY <2>2, <2>3
  <1>10. /\ list' = s /\ known' = version /\ gone' = gone /\ UNCHANGED hostVars /\ queued' = queued
         /\ rows' = s \/ (s = list /\ version = known /\ rows' = rows)
    BY <1>4, Zenon DEF UpdateFor
  <1>11. s = ShownBy(k, gone') /\ s = ShownBy(k, gone) /\ s \in [Profile -> Revision]
    BY <1>2, <1>6, <1>9, <1>10, ShownIs, ShownTyped, Zenon
  <1>12. RowsShown(rows', s, v)
    <2>1. CASE rows' = s
      BY <1>9, <1>11, <2>1, RowsList, Zenon
    <2>2. CASE s = list /\ version = known /\ rows' = rows
      <3>1. v = u
        BY <1>5, <1>7, <2>2, Zenon
      <3> QED BY <1>7, <2>2, <3>1, Zenon DEF Seen
    <2> QED BY <1>10, <2>1, <2>2
  <1>13. gone \subseteq gone' /\ list' = ShownBy(k, gone') /\ RowsShown(rows', list', v)
    BY <1>10, <1>11, <1>12, Zenon
  <1>14. Shape(d, nextDrawer) /\ d \in DrawerState /\ (GoesOn(s, d) \/ FallsInConflict(s, d) \/ IsClosed(d))
    BY <1>3, <1>11, Shapes, DAfter, AfterShape, Zenon
  <1>15. Seen(k, v)'
    <2>1. CASE UpdateDrops(d)
      <3>1. /\ d.mode = "closed" \/ d.validity = "conflict"
            /\ editing' = editing \/ editing' = None
            /\ drawer' = [d EXCEPT !.saving = @ /\ save = None]
        BY <2>1, Zenon DEF UpdateDrops
      <3>2. PICK x \in BOOLEAN : x = (save = None)
        OBVIOUS
      <3>3. drawer' = [d EXCEPT !.saving = @ /\ x]
        BY <3>1, <3>2, Zenon
      <3>4. drawer'.mode = d.mode /\ drawer'.validity = d.validity
        BY <1>14, <3>3, DSaving, Zenon DEF Same
      <3>5. drawer'.mode # "editing" \/ drawer'.validity = "conflict"
        BY <3>1, <3>4
      <3>6. Kept
        BY <3>1, <3>5, KeptGone, Zenon
      <3> QED BY <1>1, <1>7, <1>9, <1>13, <3>6, SeenMoves, Zenon
    <2>2. CASE UpdateKeeps(d, s)
      <3>1. /\ d.mode # "closed" /\ d.validity # "conflict" /\ drawer' = d
            /\ \/ editing' = None /\ editing = None
               \/ editing # None /\ editing' = editing /\ (s[editing.profile] = 0 \/ save # None)
               \/ /\ editing # None /\ s[editing.profile] # 0 /\ save = None
                  /\ editing' = [profile |-> editing.profile, revision |-> s[editing.profile]]
        BY <2>2, Zenon DEF UpdateKeeps
      <3>2. GoesOn(s, d)
        BY <1>14, <3>1, Zenon DEF FallsInConflict, IsClosed
      <3>3. /\ Same(drawer, drawer') /\ drawer'.validity = drawer.validity /\ drawer'.validity # "conflict"
            /\ drawer.mode = "editing" => s[drawer.profile] = drawer.source \/ save # None
        BY <3>1, <3>2, Zenon DEF GoesOn
      <3>4. CASE editing' = editing
        <4>1. Kept
          BY <3>3, <3>4, KeptSame, Zenon
        <4> QED BY <1>1, <1>7, <1>9, <1>13, <4>1, SeenMoves, Zenon
      <3>5. CASE /\ editing # None /\ s[editing.profile] # 0 /\ save = None
                 /\ editing' = [profile |-> editing.profile, revision |-> s[editing.profile]]
        <4>1. PICK e, r : e = editing.profile /\ r = s[e]
          OBVIOUS
        <4>2. e \in Profile /\ r \in Revision
          BY <1>1, <1>11, <3>5, <4>1 DEF Ref
        <4>3. editing' = [profile |-> e, revision |-> r] /\ r # 0 /\ editing # None /\ save = None
          BY <3>5, <4>1, Zenon
        <4>4. editing'.profile = e /\ editing'.revision = r /\ editing' # None
          <5>1. [profile |-> e, revision |-> r] \in Ref
            BY <4>2 DEF Ref
          <5> QED BY <4>3, <5>1, EditorAssumption
        <4>5. /\ list = ShownBy(l, gone) /\ SaveExpectsWhatIsShown /\ e \notin u
          BY <1>7, <4>1, <4>3, Zenon DEF Seen
        <4>6. list[e] # 0
          <5>1. PICK g : g = gone
            OBVIOUS
          <5>2. ShownBy(k, g)[e] # 0 /\ g \subseteq g
            BY <1>11, <4>1, <4>3, <5>1, Zenon
          <5>3. ShownBy(l, g)[e] # 0
            BY <1>7, <1>9, <4>2, <4>5, <5>2, ShownZero
          <5> QED BY <4>5, <5>1, <5>3, Zenon
        <4>7. drawer'.mode = "editing" => editing'.profile = drawer'.profile /\ editing'.revision <= drawer'.source
          <5>1. SUFFICES ASSUME drawer'.mode = "editing"
                         PROVE  editing'.profile = drawer'.profile /\ editing'.revision <= drawer'.source
            OBVIOUS
          <5>2. /\ drawer.mode = "editing" /\ drawer.validity # "conflict" /\ drawer'.profile = drawer.profile
                /\ drawer'.source = drawer.source
            BY <3>3, <5>1, Zenon DEF Same
          <5>3. e = drawer.profile
            BY <4>1, <4>5, <4>6, <5>2, Zenon DEF SaveExpectsWhatIsShown, Conflict
          <5>4. drawer.source = r
            BY <3>3, <4>1, <4>3, <5>2, <5>3, Zenon
          <5>5. r <= r
            BY <4>2, EditorAssumption DEF Revision
          <5> QED BY <4>4, <5>2, <5>3, <5>4, <5>5, Zenon
        <4>8. SaveExpectsWhatIsShown'
          BY <4>4, <4>7, Zenon DEF SaveExpectsWhatIsShown
        <4>9. e \notin v
          BY <1>9, <4>5
        <4> QED BY <1>13, <4>4, <4>8, <4>9, Zenon DEF Seen
      <3> QED BY <3>1, <3>4, <3>5, Zenon
    <2> QED BY <1>4, <2>1, <2>2
  <1>16. Seen(ls[known], us[known])'
    BY <1>7, <1>10, <1>15, Zenon DEF Seen
  <1>17. known' \in known .. version
    BY <1>8, <1>10
  <1> QED BY <1>1, <1>7, <1>10, <1>16, <1>17, HistoryMoves, Zenon

-----------------------------------------------------------------------------
(* What the window tells. *)

\* What is answered speaks of the profiles as they are now.
Speaks(m) ==
    /\ m.name # "state"
    /\ m.name = "switched" => m.picture = Picture'
    /\ m.name = "saved" /\ m.ok => m.revision # 0 /\ version' # version /\ stored'[m.profile] = m.revision

LEMMA PictureNow ==
    /\ Picture'.version = version' /\ Picture'.list = stored'
  BY DEF Picture

LEMMA TellsHistory ==
    ASSUME DrawerOk, ProfilesOk', QueueOk, NEW ls \in Histories, NEW us \in Births, UNCHANGED sidebarVars,
           known \in Nat, version' \in Nat, known <= version', Past(ls, us, version', stored', unborn'),
           ls[known] \in [Profile -> Revision],
           Seen(ls[known], us[known]), Told(ls, queued, version', known),
           NEW s \in Seq(Messages), Tells(s), \A i \in 1 .. Len(s) : Speaks(s[i])
    PROVE  HistoryOk'
  <1>1. PICK n \in Nat, k \in Nat : n = version' /\ k = known
    OBVIOUS
  <1>2. ls[n] = stored' /\ n \in 0 .. n /\ k \in 0 .. n
    <2>1. ls[n] = stored'
      BY <1>1, Zenon DEF Past
    <2>2. n \in 0 .. n /\ k \in 0 .. n
      BY <1>1
    <2> QED BY <2>1, <2>2
  <1>3. PICK q, r : q = Published /\ r = queued \o q
    OBVIOUS
  <1>4. /\ queued \in Seq(Messages) /\ q \in Seq(Messages) /\ queued' = r \o s
    BY <1>3, PublishedTyped, TellsIs, Zenon DEF QueueOk
  <1>5. /\ r \in Seq(Messages) /\ Len(r) \in Nat /\ Len(r) = Len(queued) + Len(q)
        /\ Len(queued) \in Nat /\ Len(q) \in Nat
        /\ \A i \in 1 .. Len(q) : r[Len(queued) + i] = q[i]
    BY <1>3, <1>4, ConcatProperties, LenProperties
  <1>6. \/ Len(q) = 0 /\ version' = version
        \/ Len(q) = 1 /\ q[1].name = "state" /\ q[1].picture = Picture'
    <2>1. CASE version' = version
      BY <1>3, <2>1 DEF Published
    <2>2. CASE version' # version
      <3>1. PICK m : m = [name |-> "state", picture |-> Picture']
        OBVIOUS
      <3>2. q = <<m>>
        BY <1>3, <2>2, <3>1, Zenon DEF Published
      <3>3. Len(q) = 1 /\ q[1] = m /\ m.name = "state" /\ m.picture = Picture'
        BY <3>1, <3>2
      <3> QED BY <3>3
    <2> QED BY <2>1, <2>2
  <1>7. Told(ls, r, n, k)
    <2>1. ASSUME NEW i \in 1 .. Len(q) PROVE Pictured(ls, q[i], n) /\ Backed(ls, q[i], n, k, queued, Len(queued))
      <3>1. i = 1 /\ q[1].name = "state" /\ q[1].picture = Picture'
        <4>1. Len(q) # 0 /\ (Len(q) = 1 => i = 1)
          BY <1>5, <2>1
        <4> QED BY <1>6, <4>1, Zenon
      <3>2. q[i].picture.version = n /\ q[i].picture.list = ls[n] /\ q[i].name # "saved"
        BY <1>1, <1>2, <3>1, PictureNow
      <3> QED BY <1>2, <3>2, Zenon DEF Pictured, Backed
    <2>2. Told(ls, queued, n, k)
      BY <1>1
    <2> QED BY <1>3, <1>4, <2>1, <2>2, ToldMore, Zenon
  <1>8. Told(ls, r \o s, n, k)
    <2>1. ASSUME NEW i \in 1 .. Len(s) PROVE Pictured(ls, s[i], n) /\ Backed(ls, s[i], n, k, r, Len(r))
      <3>1. Speaks(s[i])
        OBVIOUS
      <3>2. Pictured(ls, s[i], n)
        <4>1. SUFFICES ASSUME s[i].name \in {"state", "switched"}
                       PROVE  s[i].picture.version \in 0 .. n /\ s[i].picture.list = ls[s[i].picture.version]
          BY Zenon DEF Pictured
        <4>2. s[i].picture = Picture'
          BY <3>1, <4>1, Zenon DEF Speaks
        <4> QED BY <1>1, <1>2, <4>2, PictureNow
      <3>3. Backed(ls, s[i], n, k, r, Len(r))
        <4>1. SUFFICES ASSUME s[i].name = "saved" /\ s[i].ok
                       PROVE  /\ s[i].revision # 0
                              /\ \E v \in 0 .. n :
                                   /\ ls[v][s[i].profile] = s[i].revision
                                   /\ v <= k \/ \E j \in 1 .. Len(r) : r[j].name = "state" /\ r[j].picture.version = v
          BY Zenon DEF Backed
        <4>2. s[i].revision # 0 /\ version' # version /\ stored'[s[i].profile] = s[i].revision
          BY <3>1, <4>1, Zenon DEF Speaks
        <4>3. PICK j : j = Len(queued) + 1
          OBVIOUS
        <4>4. j \in 1 .. Len(r) /\ r[j] = q[1] /\ q[1].name = "state" /\ q[1].picture = Picture'
          BY <1>5, <1>6, <4>2, <4>3
        <4>5. r[j].name = "state" /\ r[j].picture.version = n
          BY <1>1, <4>4, PictureNow
        <4>6. ls[n][s[i].profile] = s[i].revision
          BY <1>2, <4>2
        <4> QED BY <1>2, <4>2, <4>4, <4>5, <4>6, Zenon
      <3> QED BY <3>2, <3>3
    <2> QED BY <1>4, <1>5, <1>7, <2>1, ToldMore, Zenon
  <1>9. /\ list' = list /\ rows' = rows /\ gone' = gone /\ known' = known
        /\ drawer' = drawer /\ editing' = editing
    BY Zenon DEF sidebarVars, listVars, drawerVars
  <1>10. Seen(ls[known], us[known])'
    <2>1. PICK l, u : l = ls[known] /\ u = us[known]
      OBVIOUS
    <2>2. editing \in Ref \cup {None} /\ Kept
      BY <1>9, KeptFrame, Zenon DEF DrawerOk
    <2>3. Seen(l, u)'
      BY <1>9, <2>1, <2>2, SeenKept, Zenon
    <2> QED BY <1>9, <2>1, <2>3, Zenon DEF Seen
  <1>11. known' \in 0 .. version' /\ Told(ls, queued', version', known')
    BY <1>1, <1>2, <1>4, <1>8, <1>9, Zenon
  <1> QED BY <1>10, <1>11, HistoryNext, Zenon

\* The stored profiles change by one, or not at all.
Alters == \E p \in Profile, r \in Nat, on \in Profile \cup {None} : Change(p, r, on) /\ Grows(stored, unborn, p, r)

LEMMA HostTells ==
    ASSUME DrawerOk, ProfilesOk, ProfilesOk', QueueOk, NEW ls \in Histories, NEW us \in Births, HistoryIs(ls, us),
           UNCHANGED sidebarVars, UNCHANGED hostVars \/ Alters,
           NEW s \in Seq(Messages), Tells(s), \A i \in 1 .. Len(s) : Speaks(s[i])
    PROVE  HistoryOk'
  <1>1. /\ version \in 0 .. MaxVersion /\ version \in Nat /\ known \in 0 .. version /\ known \in Nat
        /\ Seen(ls[known], us[known]) /\ Told(ls, queued, version, known)
        /\ Past(ls, us, version, stored, unborn)
        /\ ls[known] \in [Profile -> Revision]
    BY HistoryNow, Zenon
  <1>2. CASE UNCHANGED hostVars
    <2>1. version' = version /\ stored' = stored /\ unborn' = unborn
      BY <1>2, Zenon DEF hostVars
    <2>2. version' \in Nat /\ known <= version'
      BY <1>1, <2>1
    <2> QED BY <1>1, <2>1, <2>2, TellsHistory, Zenon
  <1>3. CASE Alters
    <2>1. PICK p \in Profile, r \in Nat, on \in Profile \cup {None} :
             Change(p, r, on) /\ Grows(stored, unborn, p, r)
      BY <1>3, Zenon DEF Alters
    <2>2. /\ version < MaxVersion /\ version' = version + 1 /\ stored' = [stored EXCEPT ![p] = r]
          /\ unborn' = unborn \ {p}
      BY <2>1, Zenon DEF Change
    <2>3. stored \in [Profile -> Revision] /\ unborn \in SUBSET Profile /\ stored' \in [Profile -> Revision]
      BY Zenon DEF ProfilesOk
    <2>4. r \in Revision
      BY <2>2, <2>3
    <2>5. PICK n, l, u : n = version /\ n \in Nat /\ l = stored /\ u = unborn
      BY <1>1
    <2>6. PICK ks \in Histories, vs \in Births :
             /\ Past(ks, vs, n + 1, [l EXCEPT ![p] = r], u \ {p}) /\ Agree(ls, ks, n) /\ Agree(us, vs, n)
      <3>1. /\ n \in 0 .. MaxVersion /\ n < MaxVersion /\ l \in [Profile -> Revision] /\ u \in SUBSET Profile
            /\ Past(ls, us, n, l, u) /\ Grows(l, u, p, r)
        BY <1>1, <2>1, <2>2, <2>3, <2>5, Zenon
      <3> QED BY <2>4, <3>1, PastChange
    <2>7. Past(ks, vs, version', stored', unborn')
      BY <2>2, <2>5, <2>6, Zenon
    <2>8. ks[known] = ls[known] /\ vs[known] = us[known]
      BY <1>1, <2>5, <2>6, Zenon DEF Agree
    <2>9. version' \in Nat /\ version <= version' /\ known <= known /\ known <= version'
      BY <1>1, <2>2
    <2>10. Told(ks, queued, version', known)
      <3>1. PICK m \in Nat, k \in Nat : m = version' /\ k = known
        BY <1>1, <2>9
      <3>2. n \in Nat /\ Told(ls, queued, n, k) /\ n <= m /\ k <= k /\ queued \in Seq(Messages)
        BY <1>1, <2>5, <2>9, <3>1, Zenon DEF QueueOk
      <3>3. Told(ks, queued, m, k)
        BY <2>6, <3>2, ToldLater, Zenon
      <3> QED BY <3>1, <3>3
    <2>11. Seen(ks[known], vs[known]) /\ ks[known] \in [Profile -> Revision]
      BY <1>1, <2>8, Zenon
    <2> QED BY <1>1, <2>7, <2>9, <2>10, <2>11, TellsHistory, Zenon
  <1> QED BY <1>2, <1>3

\* One message is answered.
LEMMA OneSpeaks ==
    ASSUME NEW m \in Messages, Speaks(m)
    PROVE  <<m>> \in Seq(Messages) /\ \A i \in 1 .. Len(<<m>>) : Speaks(<<m>>[i])
  <1>1. PICK s : s = <<m>>
    OBVIOUS
  <1>2. s \in Seq(Messages) /\ \A i \in 1 .. Len(s) : s[i] = m
    BY <1>1
  <1>3. \A i \in 1 .. Len(s) : Speaks(s[i])
    BY <1>2, Zenon
  <1> QED BY <1>1, <1>2, <1>3, Zenon

\* A request of the global entry that is worked on.
LEMMA RequestHistory ==
    ASSUME DrawerOk, ProfilesOk, ProfilesOk', QueueOk, NEW ls \in Histories, NEW us \in Births, HistoryIs(ls, us),
           NEW r \in Requests, UNCHANGED sidebarVars,
           HostTest(r) \/ HostModels(r) \/ HostSave(r) \/ HostDelete(r) \/ HostSwitch(r)
    PROVE  HistoryOk'
  <1>1. ASSUME NEW m \in Messages, Tells(<<m>>), Speaks(m), UNCHANGED hostVars \/ Alters
        PROVE  HistoryOk'
    <2>1. PICK s : s = <<m>>
      OBVIOUS
    <2>2. s \in Seq(Messages) /\ Tells(s) /\ \A i \in 1 .. Len(s) : Speaks(s[i])
      BY <1>1, <2>1, OneSpeaks, Zenon
    <2> QED BY <1>1, <2>2, HostTells, Zenon
  <1>2. \A p \in Profile : stored[p] \in Nat /\ stored[p] + 1 \in Nat /\ 0 \in Nat
                             /\ stored[p] <= stored[p] /\ stored[p] <= stored[p] + 1 /\ stored[p] + 1 # 0
    <2>1. \A p \in Profile : stored[p] \in Nat
      BY StoredNumbers, Zenon
    <2> QED BY <2>1
  <1>3. r.id \in Request
    BY RequestFields
  <1>4. version \in Nat
    BY EditorAssumption DEF ProfilesOk
  <1>5. CASE HostTest(r) \/ HostModels(r)
    <2>1. /\ UNCHANGED hostVars
          /\ \/ queued' = queued
             \/ \E s \in Seq(Messages) :
                  /\ Tells(s)
                  /\ \A i \in 1 .. Len(s) : s[i].name = "tested" \/ s[i].name = "models" \/ s[i].name = "revoked"
      BY <1>5, HostTestIs, HostModelsIs, Zenon
    <2>2. CASE queued' = queued
      <3>1. PICK l, u : l = ls[known] /\ u = us[known]
        OBVIOUS
      <3>2. /\ l \in [Profile -> Revision] /\ Seen(l, u) /\ version \in Nat /\ known \in Nat /\ known \in 0 .. version
        BY <3>1, HistoryNow, Zenon
      <3>3. /\ list' = list /\ rows' = rows /\ gone' = gone /\ known' = known
            /\ drawer' = drawer /\ editing' = editing
        BY Zenon DEF sidebarVars, listVars, drawerVars
      <3>4. queued \in Seq(Messages) /\ editing \in Ref \cup {None} /\ Kept
        BY <3>3, KeptFrame, Zenon DEF QueueOk, DrawerOk
      <3>5. Seen(l, u)'
        BY <3>2, <3>3, <3>4, SeenKept, Zenon
      <3>6. Seen(ls[known], us[known])'
        BY <3>1, <3>3, <3>5, Zenon DEF Seen
      <3>7. known' \in known .. version
        BY <3>2, <3>3
      <3> QED BY <2>1, <2>2, <3>2, <3>4, <3>6, <3>7, HistoryMoves, Zenon
    <2>3. ASSUME NEW s \in Seq(Messages), Tells(s),
                 \A i \in 1 .. Len(s) : s[i].name = "tested" \/ s[i].name = "models" \/ s[i].name = "revoked"
          PROVE  HistoryOk'
      <3>1. ASSUME NEW i \in 1 .. Len(s) PROVE Speaks(s[i])
        <4>1. PICK m : m = s[i]
          OBVIOUS
        <4>2. m.name = "tested" \/ m.name = "models" \/ m.name = "revoked"
          BY <2>3, <4>1, Zenon
        <4>3. m.name # "state" /\ m.name # "switched" /\ m.name # "saved"
          BY <4>2
        <4> QED BY <4>1, <4>3, Zenon DEF Speaks
      <3> QED BY <2>1, <2>3, <3>1, HostTells, Zenon
    <2> QED BY <2>1, <2>2, <2>3, Zenon
  <1>6. CASE HostSave(r)
    <2>1. CASE SaveFailed(r)
      <3>1. PICK m : m = [name |-> "saved", id |-> r.id, ok |-> FALSE]
        OBVIOUS
      <3>2. m \in Messages /\ m.name = "saved" /\ m.ok = FALSE
        BY <1>3, <3>1 DEF Messages
      <3>3. Tells(<<m>>) /\ UNCHANGED hostVars
        BY <2>1, <3>1, Zenon DEF SaveFailed
      <3>4. m.name # "state" /\ m.name # "switched" /\ ~m.ok
        BY <3>2
      <3>5. Speaks(m)
        BY <3>4, Zenon DEF Speaks
      <3> QED BY <1>1, <3>2, <3>3, <3>5, Zenon
    <2>2. ASSUME NEW p \in Profile, NEW ok \in BOOLEAN, SaveStored(r, p, ok) PROVE HistoryOk'
      <3>1. p \in unborn \/ stored[p] # 0
        BY <2>2, Zenon DEF SaveStored
      <3>2. Change(p, stored[p] + 1, Without(p))
        BY <2>2, Zenon DEF SaveStored
      <3>3. Alters
        <4>1. Grows(stored, unborn, p, stored[p] + 1)
          BY <1>2, <3>1, Zenon DEF Grows
        <4> QED BY <1>2, <3>2, <4>1, WithoutTyped, Zenon DEF Alters
      <3>4. PICK v : v = stored'[p]
        OBVIOUS
      <3>5. v \in Revision /\ v # 0 /\ version' # version
        <4>1. v \in Revision
          BY <3>4 DEF ProfilesOk
        <4>2. version' = version + 1 /\ stored' = [stored EXCEPT ![p] = stored[p] + 1]
          BY <3>2, Zenon DEF Change
        <4>3. stored \in [Profile -> Revision]
          BY Zenon DEF ProfilesOk
        <4>4. stored'[p] = stored[p] + 1
          BY <4>2, <4>3
        <4>5. v # 0
          BY <1>2, <3>4, <4>4, Zenon
        <4>6. version' # version
          BY <1>4, <4>2
        <4> QED BY <4>1, <4>5, <4>6
      <3>6. PICK m : m = [name |-> "saved", id |-> r.id, ok |-> ok, profile |-> p, revision |-> v]
        OBVIOUS
      <3>7. m \in Messages /\ m.name = "saved" /\ m.profile = p /\ m.revision = v
        BY <1>3, <3>5, <3>6 DEF Messages
      <3>8. Tells(<<m>>)
        BY <2>2, <3>4, <3>6, Zenon DEF SaveStored
      <3>9. m.name # "state" /\ m.name # "switched"
        BY <3>7
      <3>10. Speaks(m)
        BY <3>4, <3>5, <3>7, <3>9, Zenon DEF Speaks
      <3> QED BY <1>1, <3>3, <3>7, <3>8, <3>10, Zenon
    <2> QED BY <1>6, <2>1, <2>2, HostSaveIs, Zenon
  <1>7. CASE HostDelete(r)
    <2>1. CASE DeleteRefused(r)
      <3>1. PICK m : m = Message("refused", r.id)
        OBVIOUS
      <3>2. m \in Messages /\ m.name = "refused"
        BY <1>3, <3>1 DEF Messages, Message
      <3>3. Tells(<<m>>) /\ UNCHANGED hostVars
        BY <2>1, <3>1, Zenon DEF DeleteRefused
      <3>4. m.name # "state" /\ m.name # "switched" /\ m.name # "saved"
        BY <3>2
      <3>5. Speaks(m)
        BY <3>4, Zenon DEF Speaks
      <3> QED BY <1>1, <3>2, <3>3, <3>5, Zenon
    <2>2. ASSUME NEW p \in Profile, DeleteStored(r, p) PROVE HistoryOk'
      <3>1. Change(p, 0, Without(p)) /\ Grows(stored, unborn, p, 0)
        BY <2>2, Zenon DEF DeleteStored, Grows
      <3>2. Alters
        BY <1>2, <3>1, WithoutTyped, Zenon DEF Alters
      <3>3. PICK m : m = [name |-> "deleted", id |-> r.id, profile |-> p]
        OBVIOUS
      <3>4. m \in Messages /\ m.name = "deleted"
        BY <1>3, <3>3 DEF Messages
      <3>5. Tells(<<m>>)
        BY <2>2, <3>3, Zenon DEF DeleteStored
      <3>6. m.name # "state" /\ m.name # "switched" /\ m.name # "saved"
        BY <3>4
      <3>7. Speaks(m)
        BY <3>6, Zenon DEF Speaks
      <3> QED BY <1>1, <3>2, <3>4, <3>5, <3>7, Zenon
    <2> QED BY <1>7, <2>1, <2>2, HostDeleteIs, Zenon
  <1>8. CASE HostSwitch(r)
    <2>1. /\ Switched(r)
          /\ UNCHANGED hostVars
                \/ \E p \in Profile, on \in Profile \cup {None} : Change(p, stored[p], on)
      BY <1>8, HostSwitchIs, Zenon
    <2>2. UNCHANGED hostVars \/ Alters
      <3>1. ASSUME NEW p \in Profile PROVE Grows(stored, unborn, p, stored[p])
        BY <1>2, Zenon DEF Grows
      <3> QED BY <1>2, <2>1, <3>1, Zenon DEF Alters
    <2>3. PICK q : q = Picture'
      OBVIOUS
    <2>4. PICK m : m = [name |-> "switched", id |-> r.id, picture |-> q]
      OBVIOUS
    <2>5. q \in Pictures
      BY <2>3, PublishedTyped, Zenon
    <2>6. m \in Messages /\ m.name = "switched" /\ m.picture = q
      BY <1>3, <2>4, <2>5 DEF Messages
    <2>7. Tells(<<m>>)
      BY <2>1, <2>3, <2>4, Zenon DEF Switched
    <2>8. m.name # "state" /\ m.name # "saved"
      BY <2>6
    <2>9. Speaks(m)
      BY <2>3, <2>6, <2>8, Zenon DEF Speaks
    <2> QED BY <1>1, <2>2, <2>6, <2>7, <2>9, Zenon
  <1> QED BY <1>5, <1>6, <1>7, <1>8

LEMMA HostHistory ==
    ASSUME DrawerOk, ProfilesOk, ProfilesOk', RequestOk, QueueOk,
           NEW ls \in Histories, NEW us \in Births, HistoryIs(ls, us), Host
    PROVE  HistoryOk'
  <1>1. UNCHANGED sidebarVars
    BY HostStep, Zenon
  <1>2. CASE OtherWindow
    <2>1. PICK p \in Profile, v \in Nat, on \in Profile \cup {None} :
             Change(p, v, on) /\ (stored[p] = 0 => v = 0) /\ (v < stored[p] => v = 0)
      BY <1>2, OtherWindowIs, Zenon
    <2>2. stored[p] \in Nat
      BY StoredNumbers, Zenon
    <2>3. v = 0 \/ (stored[p] # 0 /\ stored[p] <= v)
      BY <2>1, <2>2
    <2>4. Alters
      BY <2>1, <2>3, Zenon DEF Grows, Alters
    <2>5. PICK s : s = <<>>
      OBVIOUS
    <2>6. s \in Seq(Messages) /\ Len(s) = 0
      BY <2>5
    <2>7. \A i \in 1 .. Len(s) : Speaks(s[i])
      BY <2>6
    <2>8. Tells(s)
      BY <1>2, <2>5, OtherWindowIs, Zenon
    <2> QED BY <1>1, <2>4, <2>6, <2>7, <2>8, HostTells, Zenon
  <1>3. ASSUME NEW r \in host,
               HostTest(r) \/ HostModels(r) \/ HostSave(r) \/ HostDelete(r) \/ HostSwitch(r)
        PROVE  HistoryOk'
    <2>1. r \in Requests
      BY DEF RequestOk
    <2> QED BY <1>1, <1>3, <2>1, RequestHistory, Zenon
  <1> QED BY <1>2, <1>3, Zenon DEF Host

-----------------------------------------------------------------------------
(* There is always a history. *)

LEMMA HistoryStarts ==
    ASSUME Init
    PROVE  HistoryOk
  <1>1. /\ stored \in [Profile -> {0, 1}] /\ unborn = {p \in Profile : stored[p] = 0} /\ version = 0
        /\ queued = <<>> /\ list = stored /\ known = 0 /\ gone = {} /\ rows = stored
        /\ drawer = Closed /\ editing = None
    BY Zenon DEF Init
  <1>2. PICK l, u : l = stored /\ u = unborn
    OBVIOUS
  <1>3. l \in [Profile -> Revision] /\ u \in SUBSET Profile /\ (\A p \in u : l[p] = 0)
        /\ \A p \in Profile : p \notin u => l[p] # 0
    BY <1>1, <1>2, EditorAssumption DEF Revision
  <1>4. PICK ls, us : ls = [v \in 0 .. MaxVersion |-> l] /\ us = [v \in 0 .. MaxVersion |-> u]
    OBVIOUS
  <1>5. ls \in Histories /\ us \in Births /\ ls[0] = l /\ us[0] = u
    BY <1>3, <1>4, EditorAssumption DEF Histories, Births
  <1>6. \A v \in 0 .. 0 : v = 0
    OBVIOUS
  <1>7. Past(ls, us, 0, l, u)
    <2>1. \A v \in 0 .. 0 : \A p \in us[v] : ls[v][p] = 0
      BY <1>3, <1>5, <1>6, Zenon
    <2>2. \A v \in 0 .. 0 : \A w \in v .. 0 : Later(ls, us, v, w)
      <3>1. Grown(l, l, u)
        BY <1>3, GrownSame
      <3>2. Later(ls, us, 0, 0)
        BY <1>5, <3>1 DEF Later
      <3> QED BY <1>6, <3>2, Zenon
    <2> QED BY <1>5, <2>1, <2>2, PastIs, Zenon
  <1>8. Seen(l, u)
    <2>1. ShownBy(l, {}) = l
      BY <1>3 DEF ShownBy
    <2>2. RowsShown(l, l, u)
      BY <1>3, <2>1, RowsList
    <2>3. drawer.mode # "editing"
      BY <1>1, DClosed
    <2> QED BY <1>1, <1>2, <2>1, <2>2, <2>3, Zenon DEF Seen, SaveExpectsWhatIsShown
  <1>9. Told(ls, queued, 0, 0)
    <2>1. \A i : i \notin 1 .. Len(queued)
      BY <1>1
    <2> QED BY <2>1, Zenon DEF Told
  <1>10. HistoryIs(ls, us)
    BY <1>1, <1>2, <1>5, <1>6, <1>7, <1>8, <1>9 DEF HistoryIs
  <1> QED BY <1>5, <1>10, Zenon DEF HistoryOk

LEMMA HistoryStutters ==
    ASSUME HistoryOk, UNCHANGED vars
    PROVE  HistoryOk'
  <1>1. PICK ls \in Histories, us \in Births : HistoryIs(ls, us)
    BY Zenon DEF HistoryOk
  <1>2. /\ stored' = stored /\ version' = version /\ unborn' = unborn /\ queued' = queued
        /\ list' = list /\ known' = known /\ gone' = gone /\ rows' = rows
        /\ drawer' = drawer /\ editing' = editing
    BY Zenon DEF vars, hostVars, listVars, drawerVars
  <1>3. HistoryIs(ls, us)'
    BY <1>1, <1>2, Zenon DEF HistoryIs, Seen, SaveExpectsWhatIsShown, Conflict
  <1> QED BY <1>3, Zenon DEF HistoryOk, Histories, Births, Revision

LEMMA HistorySteps ==
    ASSUME DrawerOk, ListOk, ProfilesOk, ProfilesOk', KeyOk, WaitOk, RequestOk, QueueOk, HistoryOk, Next
    PROVE  HistoryOk'
  <1>1. PICK ls \in Histories, us \in Births : HistoryIs(ls, us)
    BY Zenon DEF HistoryOk
  <1> QED BY <1>1, QuietHistory, HostHistory, DeliverHistory, UpdateHistory, Zenon DEF Next

\* The save of a drawer that is not in conflict expects no newer revision of its
\* profile than the one the drawer shows, or its profile is gone from the list:
\* what another window changed meanwhile is never overwritten, whatever the order
\* in which answers, authorities and snapshots reach sidebar.ts.
THEOREM SaveExpects == Spec => []SaveExpectsWhatIsShown
  <1>1. Init => EditorInv /\ HistoryOk
    BY EditorStarts, HistoryStarts
  <1>2. EditorInv /\ HistoryOk /\ [Next]_vars => (EditorInv /\ HistoryOk)'
    <2>1. ASSUME EditorInv, HistoryOk, Next PROVE (EditorInv /\ HistoryOk)'
      <3>1. EditorInv'
        BY <2>1, EditorSteps
      <3>2. HistoryOk'
        BY <2>1, <3>1, HistorySteps, Zenon DEF EditorInv
      <3> QED BY <3>1, <3>2
    <2> QED BY <2>1, EditorStutters, HistoryStutters
  <1>3. EditorInv /\ HistoryOk => SaveExpectsWhatIsShown
    BY Zenon DEF HistoryOk, HistoryIs, Seen
  <1> QED BY <1>1, <1>2, <1>3, PTL DEF Spec
=============================================================================
