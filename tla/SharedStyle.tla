----------------------------- MODULE SharedStyle -----------------------------
(***************************************************************************)
(* What all windows share of the look of a translation: the text style and *)
(* the position, held by two authorities of the global entry, kept in the  *)
(* preferences, followed by every window over the mailbox; and the picker, *)
(* a helper process that lets one window choose a font or a color.         *)
(*                                                                         *)
(* A style has one color field and the font.  A sidebar and the script of  *)
(* its window are one: the sidebar edits the color, opens the picker, and  *)
(* moves the position.  Handlers of the entry run to their end unless they *)
(* wait for the helper; a message it sends is handled by the windows later.*)
(***************************************************************************)
EXTENDS Mailbox

CONSTANTS
    None,
    Color, Family, Position,  \* None is the system's font
    Default,         \* the look of a window that was told nothing: its color and position
    Restored,        \* those the preferences hold at the start
    EventCapacity,   \* of the helper's store of events
    MaxActs,         \* bound: what users do, and changes of the fonts installed
    MaxFaults,       \* bound: what fails
    MaxEvents        \* bound: windows that open, and the other two, together

ASSUME SharedStyleAssumption ==
    /\ None \notin Color /\ None \notin Family /\ {Default, Restored} \subseteq [fontColor : Color, position : Position]
    /\ EventCapacity \in Nat \ {0} /\ {MaxActs, MaxFaults, MaxEvents} \subseteq Nat

VARIABLES
    style,      \* the authority of the style
    position,   \* the authority of the position
    stored,     \* the preferences
    active,     \* activeStylePicker
    opening,    \* picker-open handlers that wait
    client,     \* there is a client of the helper, and it polls
    launching,  \* the helper is being started
    asked,      \* families whose availability was asked for, by whom
    batch,      \* events that were read and not handled
    helper,     \* the picker's process
    calls,      \* cancellations on their way to it
    follower,   \* what each window follows, and what it draws
    acts, faults

entry == <<style, position, stored, active>>
picker == <<opening, client, launching, asked, batch>>
native == <<helper, calls>>
counters == <<acts, faults>>
vars == <<mailbox, entry, picker, native, follower, counters>>

Families == Family \cup {None}
Style == [fontFamily : Families, fontColor : Color]
Field == {"fontFamily", "fontColor"}
Font == [preferred : Families, availability : {"available", "unavailable", "unknown"}]
Id == 1..MaxActs
Happens == acts + faults + Cardinality({w \in Window : window[w] # "new"}) < MaxEvents
Fails == faults < MaxFaults /\ faults' = faults + 1 /\ Happens

-----------------------------------------------------------------------------
(***************************************************************************)
(* The authority of the style.  Each interaction has one intent, numbered; *)
(* a field belongs to the latest intent for it.                            *)
(***************************************************************************)
Existing(a, id, f, v) == {i \in a.interactions : i.id = id /\ i.field = f /\ i.value = v}

Preview(a, id, f, v) ==
    LET valid == [a EXCEPT !.invalid = @ \ {id}]
        i == [id |-> id, field |-> f, value |-> v, seq |-> a.intent + 1]
    IN  IF Existing(a, id, f, v) # {} THEN valid
        ELSE [valid EXCEPT !.intent = i.seq, !.latest[f] = i.seq, !.live[f] = v, !.rev = @ + 1,
                           !.interactions = {j \in @ : j.id # id} \cup {i}]

\* beginCommit: the authority, and whether the edit was overtaken.
Begun(a, id, f, v) ==
    IF id \in a.invalid \/ Existing(a, id, f, v) # {} THEN a ELSE Preview(a, id, f, v)
IntentOf(a, id) == CHOOSE i \in a.interactions : i.id = id
Superseded(a, id, f) == id \in a.invalid \/ a.latest[f] # IntentOf(a, id).seq

CommitSilently(a, i) ==  \* mutant
    [a EXCEPT !.committed[i.field] = i.value, !.live[i.field] = i.value,
              !.interactions = {j \in @ : j.id # i.id}]
Commit(a, i) ==
    [a EXCEPT !.committed[i.field] = i.value, !.live[i.field] = i.value, !.rev = @ + 1,
              !.interactions = {j \in @ : j.id # i.id}]

\* fail: everything that is not committed is reverted, for every window.
Fail(a, i) ==
    IF a.latest[i.field] # i.seq THEN a
    ELSE [a EXCEPT !.invalid = @ \cup {j.id : j \in a.interactions}, !.interactions = {},
                   !.latest = [f \in Field |-> 0], !.live = a.committed, !.rev = @ + 1,
                   !.font.preferred = a.committed.fontFamily]

UpdateFont(a, family, availability) ==
    [a EXCEPT !.font = [preferred |-> family, availability |-> availability], !.rev = @ + 1]

Snapshot(a) == [live |-> a.live, committed |-> a.committed, font |-> a.font, rev |-> a.rev]
-----------------------------------------------------------------------------
(***************************************************************************)
(* Handlers of the entry, as functions of its state.                       *)
(***************************************************************************)
Entry(to) ==
    [style |-> style, position |-> position, stored |-> stored, active |-> active,
     out |-> responses, to |-> to, ok |-> TRUE]
Becomes(e) ==
    /\ style' = e.style /\ position' = e.position /\ stored' = e.stored
    /\ active' = e.active /\ responses' = e.out

\* Broadcasts of the style, and the results that carry it to one window.
Announce(e) == Broadcast(e, [name |-> "style", state |-> Snapshot(e.style)])
Result(e, w) == Send(e, w, [name |-> "style", state |-> Snapshot(e.style)])

\* Save, commit, broadcast, answer; where one of these throws the intent fails,
\* even if it was saved and committed.
Undo(e, w, i) == Result(Announce([Caught(e) EXCEPT !.style = Fail(@, i)]), w)
Saved(e, i) == [e EXCEPT !.stored.style = [e.style.committed EXCEPT ![i.field] = i.value]]
CommitAndTell(e, w, i) == Result(Announce([e EXCEPT !.style = Commit(@, i)]), w)
SaveLast(e, w, i, saves) ==  \* mutant
    LET done == CommitAndTell(e, w, i)
    IN  IF done.ok /\ saves THEN Saved(done, i) ELSE Undo(done, w, i)
Complete(e, w, i, saves) ==
    LET done == CommitAndTell(Saved(e, i), w, i)
    IN  IF ~saves THEN Undo(e, w, i) ELSE IF done.ok THEN done ELSE Undo(done, w, i)

\* The end of an edit, be it the sidebar's or the picker's.
CommitEdit(e, w, id, f, v, saves) ==
    LET a == Begun(e.style, id, f, v)
        pending == [e EXCEPT !.style = a]
    IN  IF ~e.ok THEN e
        ELSE IF Superseded(a, id, f) THEN Result(pending, w)
        ELSE Complete(pending, w, IntentOf(a, id), saves)
PreviewEdit(e, id, f, v) == Announce([e EXCEPT !.style = Preview(@, id, f, v)])

\* A color that was previewed and not chosen is taken back.
Revert(e, s) ==
    LET a == Begun(e.style, s.id, "fontColor", s.previewed)
    IN  IF s.previewed = None THEN e
        ELSE IF Superseded(a, s.id, "fontColor") THEN [e EXCEPT !.style = a]
        ELSE Announce([e EXCEPT !.style = Fail(a, IntentOf(a, s.id))])

\* failActiveStylePicker.
KeepActive(e) == e  \* mutant
FailActive(e) ==
    LET s == e.active
    IN  IF s = None THEN e ELSE Result(Revert([e EXCEPT !.active = None], s), s.owner)

\* acceptColorPickerClose: the color that is chosen was previewed as a rule.
ColorClosed(e, s, changed, c, saves) ==
    IF ~changed THEN Result(Revert(e, s), s.owner)
    ELSE CommitEdit(IF s.previewed = c THEN e ELSE PreviewEdit(e, s.id, "fontColor", c),
                    s.owner, s.id, "fontColor", c, saves)

\* handleStylePickerEvent, for an event of the active session.
Handled(e, event, saves) ==
    LET s == e.active
        over == [e EXCEPT !.active = None]
    IN  CASE event.type = "color-preview" /\ s.kind = "color" ->
                PreviewEdit([e EXCEPT !.active.previewed = event.value], s.id, "fontColor", event.value)
          [] event.type = "color-closed" /\ s.kind = "color" ->
                ColorClosed(over, s, event.changed, event.value, saves)
          [] event.type = "font-confirmed" /\ s.kind = "font" ->
                CommitEdit(over, s.owner, s.id, "fontFamily", event.value, saves)
          [] event.type = "font-cancelled" /\ s.kind = "font" -> Result(over, s.owner)
          [] OTHER -> e

\* The position: a preview counts an intent, a save one more and a revision.
AnnouncePosition(e) == Broadcast(e, [name |-> "position", state |-> e.position])
PreviewPosition(e, p) ==
    AnnouncePosition([e EXCEPT !.position.intent = @ + 1, !.position.live = p])
PositionResult(e, w) == Send(e, w, [name |-> "position", state |-> e.position])
RevertPosition(e, w) ==
    PositionResult(AnnouncePosition([Caught(e) EXCEPT !.position.live = e.position.committed]), w)
SavePosition(e, w, p, saves) ==
    LET begun == [e EXCEPT !.position.intent = @ + 1, !.position.live = p]
        commit == [begun EXCEPT !.stored.position = p, !.position.committed = p,
                                !.position.revision = @ + 1]
        done == PositionResult(AnnouncePosition(commit), w)
    IN  IF ~saves THEN RevertPosition(begun, w) ELSE IF done.ok THEN done ELSE RevertPosition(done, w)
-----------------------------------------------------------------------------
(***************************************************************************)
(* Windows.                                                                *)
(***************************************************************************)
PositionIsNotOlder(own, s) ==
    s.intent > own.intent \/ (s.intent = own.intent /\ s.revision >= own.revision)

\* What a window draws of what it follows, or before it follows anything.
Unplaced == [live |-> Default.position, committed |-> Default.position, intent |-> 0, revision |-> 0]
Effective(s) ==
    IF s = None THEN [fontFamily |-> None, fontColor |-> Default.fontColor]
    ELSE [fontFamily |-> IF s.font.availability = "available" THEN s.font.preferred ELSE None,
          fontColor |-> s.live.fontColor]
Following(s, p) ==
    [style |-> s, drawn |-> Effective(s), edited |-> FALSE,
     position |-> p, at |-> p.live, moved |-> FALSE]
DrawStyle(f) == [f EXCEPT !.drawn = Effective(f.style), !.edited = FALSE]
DrawPosition(f) == [f EXCEPT !.at = f.position.live, !.moved = FALSE]

\* What it draws of what its user does.
DrawColor(f, c) ==
    [f EXCEPT !.drawn = [Effective(f.style) EXCEPT !.fontColor = c], !.edited = TRUE]
DrawAt(f, p) == [f EXCEPT !.at = p, !.moved = TRUE]

\* The followers of a window, and what it draws of a frame.  One that is no news
\* makes it draw again, or is an error the handler swallows.
IsNews(own, s) == own = None \/ s.rev > own.rev
Follow(f, m, redraws) ==
    CASE m.name = "style" /\ IsNews(f.style, m.state) -> DrawStyle([f EXCEPT !.style = m.state])
      [] m.name = "style" /\ ~IsNews(f.style, m.state) /\ redraws -> DrawStyle(f)
      [] m.name = "position" /\ PositionIsNotOlder(f.position, m.state) ->
            DrawPosition([f EXCEPT !.position = m.state])
      [] OTHER -> f
FollowAll(f, messages, redraws) == FoldLeft(LAMBDA g, m : Follow(g, m, redraws), f, messages)
Receive(w, redraws) ==
    /\ Received(w)
    /\ follower' = [follower EXCEPT ![w] = FollowAll(@, responses[w], redraws)]
    /\ UNCHANGED <<entry, picker, native, counters>>

Act == acts < MaxActs /\ acts' = acts + 1 /\ Happens

\* What the user does in the sidebar: the window draws it at once, and posts it.
\* A message that meets a full queue is dropped.
UserPosts(w, frames, f) ==
    /\ window[w] = "open" /\ Act
    /\ requests' = requests \o Fitting(frames) /\ follower' = [follower EXCEPT ![w] = f]
    /\ UNCHANGED <<players, responses, window, entry, picker, native, faults>>
Asks(w, frames) == UserPosts(w, frames, follower[w])

\* A choice, of another color than is shown, is previewed and committed at once.
Edit(w, c) ==
    LET frame(name) == [from |-> w, name |-> name, id |-> acts + 1, value |-> c]
    IN  /\ c # follower[w].drawn.fontColor
        /\ UserPosts(w, <<frame("edit-preview"), frame("edit-commit")>>, DrawColor(follower[w], c))
OpenPicker(w, k) == Asks(w, <<[from |-> w, name |-> "picker-open", id |-> acts + 1, value |-> k]>>)

\* The position is moved, and dropped where it was moved to or elsewhere.
Places(w, name, p) ==
    UserPosts(w, <<[from |-> w, name |-> name, value |-> p]>>, DrawAt(follower[w], p))
MoveTo(w, p) == p # follower[w].at /\ Places(w, "position-preview", p)
DropAt(w, p) == (follower[w].moved \/ p # follower[w].at) /\ Places(w, "position-save", p)

\* A window asks for everything when it opens, and when its sidebar was loaded.
Questions(w) == <<[from |-> w, name |-> "position-get"], [from |-> w, name |-> "style-get"]>>
OpenWindow(w) ==
    /\ Open(w, Questions(w)) /\ Happens
    /\ UNCHANGED <<entry, picker, native, follower, counters>>
Ready(w) == Asks(w, Questions(w))

\* The window closes; the picker is cancelled first, then a test (and a list).
Cancellations(w) == <<[from |-> w, name |-> "picker-cancel"], [from |-> w, name |-> "test-cancel"]>>
CloseWindow(w) ==
    /\ Close(w, Cancellations(w)) \/ CloseAborts(w, Cancellations(w))
    /\ Act
    /\ UNCHANGED <<entry, picker, native, follower, faults>>

WindowRuns(w) ==
    \/ OpenWindow(w)
    \/ \E redraws \in BOOLEAN : Receive(w, redraws)
    \/ Heartbeat(w) /\ UNCHANGED <<entry, picker, native, follower, counters>>
-----------------------------------------------------------------------------
(***************************************************************************)
(* Frames at the global entry.                                             *)
(***************************************************************************)
Frame == Head(requests)
Handles(name) == IsRequest(name) /\ Took(Frame)
Here == Entry(Seen(Frame.from))
Waits == UNCHANGED <<opening, client, launching, asked, batch, helper, calls, follower, counters>>
Saves(saves) == IF saves THEN UNCHANGED faults ELSE Fails

HandleOther ==
    /\ Handles("heartbeat") \/ Handles("test-cancel")
    /\ UNCHANGED <<responses, entry, picker, native, follower, counters>>
HandleGet ==
    \/ Handles("style-get") /\ Becomes(Result(Here, Frame.from)) /\ Waits
    \/ Handles("position-get") /\ Becomes(PositionResult(Here, Frame.from)) /\ Waits
HandlePreview ==
    \/ /\ Handles("edit-preview") /\ Waits
       /\ Becomes(PreviewEdit(Here, Frame.id, "fontColor", Frame.value))
    \/ Handles("position-preview") /\ Becomes(PreviewPosition(Here, Frame.value)) /\ Waits
HandleSave(saves) ==
    /\ \/ /\ Handles("edit-commit")
          /\ Becomes(CommitEdit(Here, Frame.from, Frame.id, "fontColor", Frame.value, saves))
       \/ /\ Handles("position-save")
          /\ Becomes(SavePosition(Here, Frame.from, Frame.value, saves))
    /\ Saves(saves)
    /\ UNCHANGED <<picker, native, follower, acts>>

\* picker-open: another session is brought to the front; otherwise this one is
\* active, and goes to the helper, or waits for its start.
Starting == launching \/ asked["start"] # "idle"
HandlePickerOpen ==
    /\ Handles("picker-open")
    /\ \/ /\ active # None
          /\ Becomes(Result(Here, Frame.from)) /\ UNCHANGED <<opening, launching>>
       \/ /\ active = None
          /\ Becomes([Here EXCEPT !.active = [id |-> Frame.id, owner |-> Frame.from,
                                             kind |-> Frame.value, previewed |-> None]])
          /\ opening' = opening \cup {[id |-> Frame.id, owner |-> Frame.from, kind |-> Frame.value,
                                      step |-> IF client THEN "call" ELSE "start"]}
          /\ launching' = (launching \/ ~(client \/ Starting))
    /\ UNCHANGED <<client, asked, batch, native, follower, counters>>

\* picker-cancel, of the window the session belongs to.
HandlePickerCancel ==
    LET owned == active # None /\ active.owner = Frame.from
    IN  /\ Handles("picker-cancel")
        /\ IF owned /\ ~client
           THEN Becomes(Result([Here EXCEPT !.active = None], Frame.from)) /\ UNCHANGED calls
           ELSE /\ calls' = IF owned THEN calls \cup {[id |-> active.id, tells |-> TRUE]} ELSE calls
                /\ UNCHANGED <<responses, entry>>
        /\ UNCHANGED <<picker, helper, follower, counters>>

\* onSessionClose: the session of the window fails; unless telling the others
\* throws, the helper is told.
SessionCloses(w) ==
    LET owned == active # None /\ active.owner = w
        e == IF owned THEN FailActive(Entry(players')) ELSE Entry(players')
    IN  /\ Becomes(e)
        /\ calls' = IF owned /\ e.ok /\ client THEN calls \cup {[id |-> active.id, tells |-> FALSE]}
                    ELSE calls
        /\ UNCHANGED <<picker, helper, follower>>
HandleClose(w) == TookClose(w) /\ SessionCloses(w) /\ UNCHANGED counters

\* A closed window that could not say so expires; one that was asleep, too.
Expire(w) ==
    /\ Expired(w) /\ SessionCloses(w)
    /\ UNCHANGED acts
    /\ IF Listening(w) THEN Fails ELSE UNCHANGED faults

Poll ==
    \/ HandleOther \/ HandleGet \/ HandlePreview \/ HandlePickerOpen \/ HandlePickerCancel
    \/ \E saves \in BOOLEAN : HandleSave(saves)
    \/ \E w \in Window : HandleClose(w)
-----------------------------------------------------------------------------
(***************************************************************************)
(* The client of the picker.                                               *)
(***************************************************************************)
NoHelper == [alive |-> FALSE, active |-> None, panel |-> None, cancelling |-> {},
             events |-> <<>>, lost |-> FALSE]
Serving == [NoHelper EXCEPT !.alive = TRUE]
Settle(how) ==
    {IF o.step = "start" THEN [o EXCEPT !.step = how] ELSE o : o \in opening}
Committed == style.committed.fontFamily

\* The helper has told its port: there is a client, it begins to poll, and asks
\* for the font before the handlers that wait go on.
Launched ==
    /\ launching /\ launching' = FALSE /\ client' = TRUE
    /\ helper' = Serving
    /\ asked' = [asked EXCEPT !["start"] = Committed]
    /\ UNCHANGED <<mailbox, entry, opening, batch, calls, follower, counters>>
LaunchFails ==
    /\ launching /\ launching' = FALSE /\ opening' = Settle("failed") /\ Fails
    /\ UNCHANGED <<mailbox, entry, client, asked, batch, native, follower, acts>>

\* The catch of poll: there is no client any more, the session fails, and the
\* font is unknown, where telling so does not throw in turn.
PollEnds(e) ==
    LET failed == FailActive(Caught(e))
        unknown == [failed EXCEPT !.style = UpdateFont(@, @.committed.fontFamily, "unknown")]
    IN  /\ Becomes(IF failed.ok THEN Announce(unknown) ELSE failed)
        /\ client' = FALSE /\ helper' = NoHelper /\ batch' = <<>>
        /\ asked' = [asked EXCEPT !["poll"] = "idle"]

\* refreshFontAvailability, by the start and by the poller: whatever was
\* committed since it asked, it sets what it has asked for.
FontAnswered(by, availability) ==
    LET e == Announce([Entry(players) EXCEPT !.style = UpdateFont(@, asked[by], availability)])
    IN  /\ asked[by] # "idle" /\ helper.alive
        /\ asked[by] = None => availability = "available"
        /\ IF by = "poll" /\ ~e.ok THEN PollEnds(e)
           ELSE /\ Becomes(e) /\ asked' = [asked EXCEPT ![by] = "idle"]
                /\ UNCHANGED <<client, helper, batch>>
        /\ opening' = IF by = "poll" THEN opening
                      ELSE Settle(IF e.ok THEN "ready" ELSE "failed")
        /\ UNCHANGED <<players, requests, window, launching, calls, follower, counters>>
FontNotAnswered(by) ==
    /\ asked[by] # "idle" /\ ~helper.alive
    /\ \/ /\ by = "poll" /\ PollEnds(Entry(players)) /\ UNCHANGED opening
       \/ /\ by = "start" /\ asked' = [asked EXCEPT ![by] = "idle"] /\ opening' = Settle("failed")
          /\ UNCHANGED <<responses, entry, client, helper, batch>>
    /\ UNCHANGED <<players, requests, window, launching, calls, follower, counters>>

\* The handler goes on when there is a client, if its session is still active.
IsActive(o) == active # None /\ active.id = o.id
Proceed(o) ==
    /\ o \in opening /\ o.step = "ready"
    /\ opening' = (opening \ {o}) \cup IF IsActive(o) THEN {[o EXCEPT !.step = "call"]} ELSE {}
    /\ UNCHANGED <<mailbox, entry, client, launching, asked, batch, native, follower, counters>>

\* The helper opens one panel at a time.  "focused" ends whatever session is
\* active; an error only the one that it is about.
Opens(o) ==
    /\ o \in opening /\ o.step = "call" /\ opening' = opening \ {o} /\ helper.alive
    /\ \/ /\ helper.active = None
          /\ helper' = [helper EXCEPT !.active = o.id,
                                      !.panel = [id |-> o.id, kind |-> o.kind, color |-> None]]
          /\ UNCHANGED <<responses, entry>>
       \/ /\ helper.active # None /\ UNCHANGED helper
          /\ Becomes(Result([Entry(players) EXCEPT !.active = None], o.owner))
    /\ UNCHANGED <<players, requests, window, client, launching, asked, batch, calls, follower, counters>>
OpenFails(o) ==
    /\ o \in opening /\ opening' = opening \ {o}
    /\ o.step = "failed" \/ (o.step = "call" /\ ~helper.alive)
    /\ Becomes(Result([Entry(players) EXCEPT !.active = IF IsActive(o) THEN None ELSE @], o.owner))
    /\ UNCHANGED <<players, requests, window, client, launching, asked, batch, native, follower, counters>>

\* poll: the next events are read; a gap fails the session and asks for the font.
ReadsEvents == client /\ helper.alive /\ batch = <<>> /\ asked["poll"] = "idle"
Fetch ==
    /\ ReadsEvents /\ ~helper.lost /\ helper.events # <<>>
    /\ batch' = helper.events /\ helper' = [helper EXCEPT !.events = <<>>]
    /\ UNCHANGED <<mailbox, entry, opening, client, launching, asked, calls, follower, counters>>
FetchGap ==
    LET e == FailActive(Entry(players))
    IN  /\ ReadsEvents /\ helper.lost
        /\ IF ~e.ok THEN PollEnds(e)
           ELSE /\ Becomes(e) /\ asked' = [asked EXCEPT !["poll"] = Committed]
                /\ helper' = [helper EXCEPT !.events = <<>>, !.lost = FALSE]
                /\ UNCHANGED <<client, batch>>
        /\ UNCHANGED <<players, requests, window, opening, launching, calls, follower, counters>>
PollFails ==
    /\ client /\ ~helper.alive /\ batch = <<>> /\ asked["poll"] = "idle"
    /\ PollEnds(Entry(players))
    /\ UNCHANGED <<players, requests, window, opening, launching, calls, follower, counters>>

\* An event that was read.
HandleEvent(saves) ==
    LET event == Head(batch)
        now == Entry(players)
        e == IF IsActive(event) THEN Handled(now, event, saves) ELSE now
    IN  /\ batch # <<>> /\ asked["poll"] = "idle" /\ Saves(saves)
        /\ IF event.type = "font-catalog-changed"
           THEN /\ asked' = [asked EXCEPT !["poll"] = Committed] /\ batch' = Tail(batch)
                /\ UNCHANGED <<responses, entry, client, helper>>
           ELSE IF ~e.ok THEN PollEnds(e)
           ELSE Becomes(e) /\ batch' = Tail(batch) /\ UNCHANGED <<asked, client, helper>>
        /\ UNCHANGED <<players, requests, window, opening, launching, calls, follower, acts>>
-----------------------------------------------------------------------------
(***************************************************************************)
(* The picker's process.                                                   *)
(***************************************************************************)
\* The store forgets its oldest event when it is full.
Stored(h, event) ==
    IF Len(h.events) < EventCapacity THEN [h EXCEPT !.events = Append(@, event)]
    ELSE [h EXCEPT !.events = Append(Tail(@), event), !.lost = TRUE]

Native == UNCHANGED <<mailbox, entry, picker, calls, follower, faults>>
Panel(kind) == helper.panel # None /\ helper.panel.kind = kind

\* A color is tried (bound: one in a session): told while the session goes on.
TryColor(c) ==
    LET shown == [helper EXCEPT !.panel.color = c]
    IN  /\ Panel("color") /\ helper.panel.color = None /\ Native /\ UNCHANGED acts
        /\ helper' = IF helper.active = helper.panel.id
                     THEN Stored(shown, [id |-> helper.panel.id, type |-> "color-preview", value |-> c])
                     ELSE shown

\* A panel is closed, by whom ever; who completes the session tells of it.
Finish(event) ==
    LET gone == [helper EXCEPT !.panel = None]
    IN  helper' = IF helper.active = helper.panel.id
                  THEN Stored([gone EXCEPT !.active = None], event) ELSE gone
CloseColor ==
    /\ Panel("color") /\ Native /\ UNCHANGED acts
    /\ Finish([id |-> helper.panel.id, type |-> "color-closed",
               changed |-> helper.panel.color # None, value |-> helper.panel.color])
ChooseFont(f) ==
    /\ Panel("font") /\ Native /\ UNCHANGED acts
    /\ Finish([id |-> helper.panel.id, type |-> "font-confirmed", value |-> f])
CancelFont ==
    /\ Panel("font") /\ Native /\ UNCHANGED acts
    /\ Finish([id |-> helper.panel.id, type |-> "font-cancelled"])
CatalogChanges ==
    /\ helper.alive /\ Act /\ Native
    /\ helper' = Stored(helper, [id |-> None, type |-> "font-catalog-changed"])

\* A cancellation arrives, and ends the session at once; its panel later, if the
\* user has not closed it.
CancelArrives(call) ==
    /\ call \in calls /\ calls' = calls \ {call} /\ helper.alive
    /\ helper' = IF helper.active = call.id
                 THEN [helper EXCEPT !.active = None, !.cancelling = @ \cup {call.id}] ELSE helper
    /\ UNCHANGED <<mailbox, entry, picker, follower, counters>>
CancelFails(call) ==
    /\ call \in calls /\ calls' = calls \ {call} /\ ~helper.alive
    /\ Becomes(IF call.tells THEN FailActive(Entry(players)) ELSE Entry(players))
    /\ UNCHANGED <<players, requests, window, picker, helper, follower, counters>>
ClosesCancelled(id) ==
    LET there == helper.panel # None /\ helper.panel.id = id
        gone == [helper EXCEPT !.cancelling = @ \ {id}, !.panel = IF there THEN None ELSE @]
    IN  /\ id \in helper.cancelling /\ Native /\ UNCHANGED acts
        /\ helper' = Stored(gone, IF there /\ Panel("color")
                                  THEN [id |-> id, type |-> "color-closed", changed |-> FALSE, value |-> None]
                                  ELSE [id |-> id, type |-> "font-cancelled"])
HelperDies ==
    /\ helper.alive /\ Fails /\ helper' = NoHelper
    /\ UNCHANGED <<mailbox, entry, picker, calls, follower, acts>>
-----------------------------------------------------------------------------
Init ==
    /\ MailboxInit
    /\ LET first == [fontFamily |-> None, fontColor |-> Restored.fontColor]
           p == Restored.position IN
        /\ style = [live |-> first, committed |-> first, rev |-> 0, intent |-> 0,
                    font |-> [preferred |-> None, availability |-> "available"],
                    interactions |-> {}, invalid |-> {}, latest |-> [f \in Field |-> 0]]
        /\ position = [live |-> p, committed |-> p, intent |-> 0, revision |-> 0]
        /\ stored = [style |-> first, position |-> p]
    /\ follower = [w \in Window |-> Following(None, Unplaced)]
    /\ active = None /\ opening = {} /\ client = FALSE /\ launching = FALSE
    /\ asked = [by \in {"start", "poll"} |-> "idle"] /\ batch = <<>>
    /\ helper = NoHelper /\ calls = {} /\ acts = 0 /\ faults = 0

Others == UNCHANGED <<entry, picker, native, follower, acts>>
Users ==
    \E w \in Window :
        \/ \E c \in Color : Edit(w, c)
        \/ \E k \in {"font", "color"} : OpenPicker(w, k)
        \/ \E p \in Position : MoveTo(w, p) \/ DropAt(w, p)
        \/ Ready(w) \/ CloseWindow(w)
Lapse(w) == Expire(w) \/ (CleanupExpired(w) /\ UNCHANGED faults /\ Others)
Lose == Fails /\ Others /\ (LoseRequest \/ \E w \in Window : Listening(w) /\ LoseResponse(w))
Picker ==
    \/ Launched \/ LaunchFails \/ Fetch \/ FetchGap \/ PollFails
    \/ \E saves \in BOOLEAN : HandleEvent(saves)
    \/ \E by \in {"start", "poll"} :
        FontNotAnswered(by) \/ \E a \in {"available", "unavailable"} : FontAnswered(by, a)
    \/ \E o \in opening : Proceed(o) \/ Opens(o) \/ OpenFails(o)
    \/ \E call \in calls : CancelArrives(call) \/ CancelFails(call)
    \/ \E c \in Color : TryColor(c)
    \/ CloseColor \/ \E f \in Families : ChooseFont(f)
    \/ CancelFont \/ CatalogChanges \/ \E id \in helper.cancelling : ClosesCancelled(id)
    \/ HelperDies

Next ==
    \/ Users \/ Poll \/ Lose \/ Picker
    \/ \E w \in Window : WindowRuns(w) \/ Lapse(w)

Spec == Init /\ [][Next]_vars
-----------------------------------------------------------------------------
(***************************************************************************)
(* Properties                                                              *)
(***************************************************************************)
TypeOK ==
    /\ MailboxTypeOK
    /\ style.live \in Style /\ style.committed \in Style /\ style.font \in Font
    /\ {style.rev, style.intent} \cup {style.latest[f] : f \in Field} \subseteq Nat
    /\ \A i, j \in style.interactions : i.id = j.id => i = j
    /\ style.invalid \subseteq Id
    /\ position.live \in Position /\ position.committed \in Position
    /\ stored \in [style : Style, position : Position]
    /\ active # None => active.id \in Id /\ active.previewed \in Color \cup {None}
    /\ \A o \in opening : o.step \in {"start", "ready", "failed", "call"}
    /\ client \in BOOLEAN /\ launching \in BOOLEAN
    /\ asked \in [{"start", "poll"} -> Families \cup {"idle"}]
    /\ Len(helper.events) <= EventCapacity
    /\ helper.active \in Id \cup {None}
    /\ \A w \in Window : follower[w].drawn \in Style /\ follower[w].at \in Position
    /\ acts \in 0..MaxActs /\ faults \in 0..MaxFaults

\* README.md: the windows share one style.  Whatever was lost, whichever part of
\* a broadcast a full queue cut off, whoever came late or was away: windows that
\* were told of one revision have one style, of one intent one position, the
\* authority's if these are its numbers; and they draw the same, but for what a
\* window's user has changed since.
Authority == Following(Snapshot(style), position)
AgreeOnStyle(f, g) ==
    f.style # None /\ g.style # None /\ f.style.rev = g.style.rev =>
        f.style = g.style /\ (f.edited \/ g.edited \/ f.drawn = g.drawn)
AgreeOnPosition(f, g) ==
    /\ Unplaced \notin {f.position, g.position}
    /\ f.position.intent = g.position.intent /\ f.position.revision = g.position.revision
    => f.position.live = g.position.live /\ (f.moved \/ g.moved \/ f.at = g.at)
FollowersAgree ==
    \A w \in Window :
        /\ follower[w].style # None => follower[w].style.rev <= style.rev
        /\ \A f \in {Authority} \cup Range(follower) :
              AgreeOnStyle(follower[w], f) /\ AgreeOnPosition(follower[w], f)

\* What IINA restores at its next start is what the authorities call committed,
\* even if telling the windows failed half-way and the save was called failed.
SavedIsCommitted ==
    stored = [style |-> style.committed, position |-> position.committed]

\* The picker belongs to a window the entry believes to be there: a session ends
\* with its window, and none begins after it, whatever it was waiting for.
PickerIsOwned == active # None => Registered(active.owner)

\* docs/releases/v0.1.3.md: "Font color, size, family, ... update the current
\* translated subtitle immediately".  When nothing of the picker is under way, the
\* family the windows draw with is the one that was chosen, or its replacement.
ChosenFontIsDrawn ==
    (asked \in [{"start", "poll"} -> {"idle"}] /\ batch = <<>> /\ helper.events = <<>>)
        => style.font.preferred = style.committed.fontFamily
=============================================================================
