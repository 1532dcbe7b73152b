---------------------------- MODULE ProfileEditor ----------------------------
(***************************************************************************)
(* The profile editor in the sidebar of one player window: the drawer with *)
(* its draft, the key field and the saved key read into it, the test, the  *)
(* model list, the save, the delete dialog and the activation switches     *)
(* (src/ui/sidebar.ts over src/ui/sidebar-state.ts and                     *)
(* src/ui/credential-editor.ts), with the handlers of main.ts and          *)
(* global.ts that answer it.                                               *)
(*                                                                         *)
(* The window tells the sidebar of its own profiles in two ways: messages  *)
(* it queues in order, and on every poll a snapshot of what it knows now,  *)
(* which overtakes the queue.  The answers of the credential channel are   *)
(* such messages: the relay posts them to queueSidebarMessage, the port it *)
(* was given for the sidebar (main.ts, 656-660).  The delay of a frame to  *)
(* the global entry is a delay of the step that handles it.  The sidebar   *)
(* runs on one thread: an action is one event with the promises it         *)
(* settles.                                                                *)
(***************************************************************************)
EXTENDS Integers, Sequences

CONSTANTS
    Profile, None,
    MaxVersion,   \* changes of the stored profiles
    MaxDrawers,   \* drawers the user opens
    MaxRequests,  \* requests the sidebar sends
    MaxEdits,     \* edits of the fields of one drawer
    MaxQueue      \* messages queued for the sidebar

VARIABLES
    stored, active, version,   \* the profiles as the window knows them
    unborn,                    \* ids no profile has had yet
    host,                      \* requests the global entry works on
    queued,                    \* messages for the sidebar
    list, enabled, known,      \* snapshot.profiles, the activation, its stateVersion
    gone,                      \* deletedProfileIds
    rows,                      \* the profiles of the rendered rows
    drawer, editing,           \* snapshot.drawer, editingProfile
    key, edits,                \* the key field; the edits of the fields since the drawer opened
    channel,                   \* the drawer of the credential editor's channel
    load, reader, owner,       \* credentialLoad, its read, credentialReadOwner
    refresh, auto,             \* pendingModelRefresh, pendingAutomaticRefresh
    save, locked,              \* pendingProfileSave; are the fields disabled?
    dialog,                    \* deleteConfirmation
    switch, timers,            \* the pending activation, profileActivationTimeouts
    nextId, nextDrawer

hostVars   == <<stored, active, version, unborn>>
listVars   == <<list, enabled, known, gone, rows>>
drawerVars == <<drawer, editing, key, edits>>
keyVars    == <<channel, load, reader, owner>>
modelVars  == <<refresh, auto>>
saveVars   == <<save, locked>>
switchVars == <<switch, timers>>
idVars     == <<nextId, nextDrawer>>
vars == <<hostVars, host, queued, listVars, drawerVars, keyVars, modelVars, saveVars,
          dialog, switchVars, idVars>>

Revision == 0..MaxVersion + 1   \* 0: the profile is not in the list
Ref == [profile : Profile, revision : Revision]
Request == 1..MaxRequests
Drawer == 0..MaxDrawers         \* 0: no drawer
Empty == [kind |-> "empty", of |-> None]
Typed == [kind |-> "typed", of |-> None]
SavedKey(p, r) == [kind |-> "saved", of |-> [profile |-> p, revision |-> r]]
Key == {Empty, Typed} \cup {SavedKey(p, r) : p \in Profile, r \in Revision}
Draft == [edits : 0..MaxEdits, key : Key]
Test == [id : Request, draft : Nat, phase : {"testing", "passed", "failed"}, sent : BOOLEAN, of : Draft]
Reader == [drawer : Drawer, reading : BOOLEAN, of : Ref]
Refresh == [id : Request, manual : BOOLEAN, sent : BOOLEAN, fresh : BOOLEAN]
Save == [id : Request, of : Ref \cup {None}, drawer : Drawer, sent : BOOLEAN]
Dialog == [profile : Profile, revision : Revision, id : 0..MaxRequests]
Switch == [id : Request, profile : Profile, on : BOOLEAN, version : 0..MaxVersion]
DrawerState ==
    [mode : {"closed", "new", "editing"}, id : Drawer, profile : Profile \cup {None},
     source : Revision, draft : Nat, keyEdits : Nat, submits : Nat, validity : {"current", "conflict"},
     test : Test \cup {None}, saving : BOOLEAN, deleting : {"no", "confirming", "deleting"}]

\* None is not one of the things that it is the absence of.
ASSUME EditorAssumption ==
    /\ {MaxVersion, MaxDrawers, MaxRequests, MaxEdits, MaxQueue} \subseteq Nat
    /\ None \notin Profile \cup Ref
    /\ None \notin Test \cup Reader \cup Refresh \cup Save \cup Dialog \cup Switch

Closed == [mode |-> "closed", id |-> 0, profile |-> None, source |-> 0, draft |-> 0,
           keyEdits |-> 0, submits |-> 0, validity |-> "current", test |-> None,
           saving |-> FALSE, deleting |-> "no"]

-----------------------------------------------------------------------------
(* What the sidebar's handlers are built from. *)

Testing(d) == d.test # None /\ d.test.phase = "testing"
Conflict == drawer.validity = "conflict"
Deleting == drawer.deleting = "deleting"

\* The requests the host is told to cancel.  Closing the credential editor's
\* channel cancels the operations that were sealed in it.
Cancelled(h, ids, closing) ==
    {IF r.id \in ids \/ (closing /\ channel # 0 /\ r.kind \in {"test", "draft-models"})
     THEN [r EXCEPT !.cancelled = TRUE] ELSE r : r \in h}
TestIds == IF drawer.test = None THEN {} ELSE {drawer.test.id}
RefreshIds == IF refresh = None THEN {} ELSE {refresh.id}

\* The profiles that are shown of a list, and what it does to the delete dialog
\* and to the drawer.  A drawer whose profile is gone closes; one whose profile
\* has changed is in conflict, unless its own save is under way.
Shown(l) == [p \in Profile |-> IF p \in gone THEN 0 ELSE l[p]]

DialogAfter(l) == IF dialog # None /\ l[dialog.profile] # dialog.revision THEN None ELSE dialog

DrawerIfThere(l) ==  \* mutant: a change of the profile is not noticed
    IF drawer.mode = "editing" /\ l[drawer.profile] = 0 THEN Closed ELSE drawer

DrawerAfter(l) ==
    LET d == IF drawer.mode # "editing" \/ (l[drawer.profile] # 0
                  /\ (l[drawer.profile] = drawer.source \/ save # None)) THEN drawer
             ELSE IF l[drawer.profile] = 0 THEN Closed
             ELSE [drawer EXCEPT !.validity = "conflict", !.test = None]
    IN  IF dialog # None /\ DialogAfter(l) = None /\ d.profile = dialog.profile
        THEN [d EXCEPT !.deleting = "no"] ELSE d

\* Is the pending activation confirmed by a newer authority?
Settled(sw, m) ==
    sw # None /\ m.version > sw.version /\ (sw.on <=> m.active = sw.profile)

\* applyProfileAuthority: only a newer one changes anything.
ApplyAuthority(m, sw) ==
    IF m.version <= known
    THEN /\ switch' = sw
         /\ UNCHANGED <<list, enabled, known, drawer, dialog, load, owner, auto>>
    ELSE LET l == Shown(m.list)
             d == DrawerAfter(l)
             dropped == d.mode = "closed" \/ d.validity = "conflict"
         IN  /\ list' = l /\ enabled' = m.active /\ known' = m.version
             /\ drawer' = d /\ dialog' = DialogAfter(l)
             /\ load' = IF dropped THEN 0 ELSE load
             /\ owner' = (owner /\ ~dropped) /\ auto' = (auto /\ ~dropped)
             /\ switch' = IF Settled(sw, m) THEN None ELSE sw

NoTimers == {}  \* mutant

\* clearConfirmedProfileActivationTimeouts
ArmedTimers == timers \cap (IF switch' = None THEN {} ELSE {switch'.id})

\* requestModels in a drawer d, when "kept" is the request that is still pending
\* and h are the requests of the host.  An automatic request repeats no other.
RequestModels(manual, d, kept, h) ==
    IF \/ d.mode = "closed" \/ d.saving \/ d.deleting = "deleting" \/ Testing(d)
       \/ d.validity = "conflict"
       \/ ~manual /\ kept # None /\ kept.fresh /\ ~kept.manual
    THEN refresh' = kept /\ host' = h /\ nextId' = nextId
    ELSE /\ nextId <= MaxRequests
         /\ refresh' = [id |-> nextId, manual |-> manual, sent |-> ~manual, fresh |-> TRUE]
         /\ host' = Cancelled(h, IF kept = None THEN {} ELSE {kept.id}, FALSE)
                      \cup IF manual THEN {}
                           ELSE {[kind |-> "models", id |-> nextId, of |-> d.profile, cancelled |-> FALSE]}
         /\ nextId' = nextId + 1

\* The intent that waited for the key is flushed, or its timer is armed again.
FlushModels(d, kept, h) ==
    \/ auto /\ auto' = FALSE /\ RequestModels(FALSE, d, kept, h)
    \/ auto' = auto /\ refresh' = kept /\ host' = h /\ nextId' = nextId

\* A refresh whose sealing is rejected ends in an error.
Unsealed == IF refresh # None /\ ~refresh.sent THEN None ELSE refresh

\* A save that is rejected gives the fields back.
GiveUpSave == save' = None /\ locked' = IF save = None THEN locked ELSE FALSE

\* credentialEditor.close(), when d is the drawer and h are the requests of the
\* host: all that waits for the channel is rejected.
CloseChannel(d, h) ==
    /\ channel' = 0 /\ reader' = None /\ GiveUpSave
    /\ drawer' = [d EXCEPT !.saving = @ /\ save = None,
                           !.test = IF Testing(d) /\ ~d.test.sent THEN [@ EXCEPT !.phase = "failed"] ELSE @]
    /\ IF reader # None /\ load = reader.drawer
       THEN load' = 0 /\ owner' = FALSE /\ FlushModels(d, Unsealed, Cancelled(h, {}, TRUE))
       ELSE UNCHANGED <<load, owner, auto, nextId>> /\ refresh' = Unsealed /\ host' = Cancelled(h, {}, TRUE)

\* cancelEditorCredentialLoad: the load is forgotten and the channel closed.
CancelLoad == load' = 0 /\ owner' = FALSE /\ auto' = FALSE /\ channel' = 0 /\ reader' = None

-----------------------------------------------------------------------------
(* The drawer. *)

\* The delete dialog shields the rest of the sidebar.
Reachable == dialog = None

\* What loadEditor, openNewProfile and clearProfileDrawer begin with.  Nobody
\* unlocks the fields that a save locked which is forgotten here.
LeaveDrawer ==
    /\ Reachable /\ ~drawer.saving
    /\ save' = None /\ UNCHANGED locked

Opened(mode, p, r) ==
    [Closed EXCEPT !.mode = mode, !.id = nextDrawer, !.profile = p, !.source = r, !.draft = 1]

\* A card is clicked; the one that is open closes.  A profile with a saved key
\* starts to read it, and its models wait for that.
OpenEditor(p) ==
    /\ LeaveDrawer /\ rows[p] # 0
    /\ LET h == Cancelled(host, TestIds \cup RefreshIds, TRUE) IN
       \/ /\ drawer.mode = "editing" /\ drawer.profile = p /\ list[p] # 0
          /\ drawer' = Closed /\ editing' = None /\ key' = Empty /\ edits' = 0
          /\ CancelLoad /\ refresh' = None /\ host' = h
          /\ UNCHANGED idVars
       \/ /\ drawer.profile # p /\ list[p] # 0 /\ nextDrawer <= MaxDrawers
          /\ drawer' = Opened("editing", p, list[p])
          /\ editing' = [profile |-> p, revision |-> rows[p]]
          /\ key' = Empty /\ edits' = 0 /\ nextDrawer' = nextDrawer + 1 /\ owner' = FALSE
          /\ \/ /\ load' = nextDrawer /\ channel' = nextDrawer
                /\ reader' = [drawer |-> nextDrawer, reading |-> FALSE,
                               of |-> [profile |-> p, revision |-> list[p]]]
                /\ auto' = TRUE /\ refresh' = None /\ host' = h /\ UNCHANGED nextId
             \/ /\ load' = 0 /\ channel' = 0 /\ reader' = None /\ auto' = FALSE
                /\ RequestModels(FALSE, drawer', None, h)
       \/ /\ list[p] = 0 /\ CancelLoad /\ UNCHANGED nextDrawer
          /\ drawer' = [drawer EXCEPT !.test = None]
          /\ IF editing # None /\ editing.profile = p
             THEN refresh' = None /\ host' = h /\ UNCHANGED <<editing, key, edits, nextId>>
             ELSE /\ editing' = [profile |-> p, revision |-> rows[p]] /\ key' = Empty /\ edits' = 0
                  /\ RequestModels(FALSE, drawer', None, h)
    /\ UNCHANGED <<hostVars, queued, listVars, dialog, switchVars>>

OpenNew ==
    /\ LeaveDrawer /\ drawer.mode # "new" /\ nextDrawer <= MaxDrawers
    /\ drawer' = Opened("new", None, 0) /\ nextDrawer' = nextDrawer + 1
    /\ editing' = None /\ key' = Empty /\ edits' = 0
    /\ CancelLoad /\ refresh' = None
    /\ host' = Cancelled(host, TestIds \cup RefreshIds, TRUE)
    /\ UNCHANGED <<hostVars, queued, listVars, dialog, switchVars, nextId>>

CloseDrawer ==
    /\ LeaveDrawer /\ drawer.mode # "closed"
    /\ drawer' = Closed /\ editing' = None /\ key' = Empty /\ edits' = 0
    /\ CancelLoad /\ refresh' = None
    /\ host' = Cancelled(host, TestIds \cup RefreshIds, TRUE)
    /\ UNCHANGED <<hostVars, queued, listVars, dialog, switchVars, idVars>>

\* An edit of a field that a test depends on: a drawer in conflict ignores it.
Edit == Reachable /\ ~locked /\ drawer.mode # "closed" /\ edits < MaxEdits /\ edits' = edits + 1
EditedAfterTest(credential) ==  \* mutant
    IF Conflict THEN drawer
    ELSE [drawer EXCEPT !.draft = @ + 1, !.keyEdits = IF credential THEN @ + 1 ELSE @]
Edited(credential) ==
    IF Conflict THEN drawer
    ELSE [drawer EXCEPT !.draft = @ + 1, !.test = None, !.keyEdits = IF credential THEN @ + 1 ELSE @]
NoTestIds == {}  \* mutant
EditTestIds == IF Conflict THEN {} ELSE TestIds

\* The service: the key goes, and the models of the new one are requested.
EditKind ==
    /\ Edit /\ drawer' = Edited(FALSE) /\ key' = Empty
    /\ CancelLoad
    /\ RequestModels(FALSE, drawer', None, Cancelled(host, EditTestIds \cup RefreshIds, TRUE))
    /\ UNCHANGED <<hostVars, queued, listVars, editing, saveVars, dialog, switchVars, nextDrawer>>

\* The endpoint: its models are requested when it has been left alone.
EditEndpoint ==
    /\ Edit /\ drawer' = Edited(FALSE) /\ refresh' = None /\ auto' = TRUE
    /\ host' = Cancelled(host, EditTestIds \cup RefreshIds, FALSE)
    /\ UNCHANGED <<hostVars, queued, listVars, editing, key, keyVars, saveVars, dialog, switchVars, idVars>>

\* The network route; while the key is loaded the request waits for it.
EditRoute ==
    /\ Edit /\ drawer' = Edited(FALSE)
    /\ LET h == Cancelled(host, EditTestIds \cup RefreshIds, FALSE)
       IN  IF load # 0 THEN auto' = TRUE /\ refresh' = None /\ host' = h /\ nextId' = nextId
           ELSE IF auto THEN FlushModels(drawer', None, h)
           ELSE auto' = auto /\ RequestModels(FALSE, drawer', None, h)
    /\ UNCHANGED <<hostVars, queued, listVars, editing, key, keyVars, saveVars, dialog, switchVars, nextDrawer>>

EditModel ==
    /\ Edit /\ drawer' = Edited(FALSE)
    /\ host' = Cancelled(host, EditTestIds, FALSE)
    /\ UNCHANGED <<hostVars, queued, listVars, editing, key, keyVars, modelVars, saveVars, dialog,
                   switchVars, idVars>>

TypeKey ==
    /\ Edit /\ drawer' = Edited(TRUE) /\ key' = Typed /\ refresh' = None
    /\ host' = Cancelled(host, EditTestIds \cup RefreshIds, FALSE)
    /\ UNCHANGED <<hostVars, queued, listVars, editing, keyVars, auto, saveVars, dialog, switchVars, idVars>>

-----------------------------------------------------------------------------
(* The saved key of the profile, read into the key field. *)

\* mutant: what the user has typed meanwhile is overwritten
UntouchedDrawer == drawer.mode = "editing" /\ ~Conflict /\ drawer.id = reader.drawer

\* Is the drawer the one the read began for, and untouched since?
Untouched ==
    /\ drawer.mode = "editing" /\ ~Conflict /\ drawer.id = reader.drawer
    /\ drawer.draft = 1 /\ drawer.keyEdits = 0 /\ drawer.submits = 0

\* finishEditorCredentialLoad, if the load is still the reader's.
FinishLoad(d, h) ==
    IF load = reader.drawer
    THEN load' = 0 /\ owner' = FALSE /\ FlushModels(d, refresh, h)
    ELSE UNCHANGED <<load, owner, auto, refresh, nextId>> /\ host' = h

\* The channel is open: the read may begin.
BeginRead ==
    /\ reader # None /\ ~reader.reading
    /\ IF load = reader.drawer /\ Untouched
       THEN /\ owner' = TRUE /\ reader' = [reader EXCEPT !.reading = TRUE]
            /\ UNCHANGED <<load, auto, refresh, host, nextId>>
       ELSE reader' = None /\ FinishLoad(drawer, host)
    /\ UNCHANGED <<hostVars, queued, listVars, drawerVars, channel, saveVars, dialog, switchVars, nextDrawer>>

\* The key arrives.
AcceptRead ==
    /\ reader # None /\ reader.reading /\ reader' = None
    /\ key' = IF owner /\ load = reader.drawer /\ channel = reader.drawer /\ Untouched
              THEN [kind |-> "saved", of |-> reader.of] ELSE key
    /\ FinishLoad(drawer, host)
    /\ UNCHANGED <<hostVars, queued, listVars, drawer, editing, edits, channel, saveVars, dialog,
                   switchVars, nextDrawer>>

\* The read is refused.
ReadFails ==
    /\ reader # None /\ reader.reading /\ reader' = None
    /\ FinishLoad(drawer, host)
    /\ UNCHANGED <<hostVars, queued, listVars, drawerVars, channel, saveVars, dialog, switchVars, nextDrawer>>

\* The channel cannot be opened.
ChannelFails ==
    /\ channel # 0
    /\ \/ reader # None /\ ~reader.reading
       \/ Testing(drawer) /\ ~drawer.test.sent
       \/ refresh # Unsealed
       \/ save # None /\ ~save.sent
    /\ CloseChannel(drawer, host)
    /\ UNCHANGED <<hostVars, queued, listVars, editing, key, edits, dialog, switchVars, nextDrawer>>

\* The key is not there after fifteen seconds; the channel is the load's.
LoadExpires ==
    /\ load # 0 /\ CloseChannel(drawer, host)
    /\ UNCHANGED <<hostVars, queued, listVars, editing, key, edits, dialog, switchVars, nextDrawer>>

-----------------------------------------------------------------------------
(* The model list and the test. *)

CanAsk == Reachable /\ drawer.mode # "closed" /\ load = 0 /\ ~Conflict /\ ~drawer.saving
             /\ ~Deleting /\ nextId <= MaxRequests

\* By hand, with the key in the field: the draft is sealed in the channel, which
\* is opened when there is none.
RefreshModels ==
    /\ CanAsk /\ ~Testing(drawer) /\ RequestModels(TRUE, drawer, refresh, host) /\ channel' = drawer.id
    /\ UNCHANGED <<hostVars, queued, listVars, drawerVars, load, reader, owner, auto, saveVars, dialog,
                   switchVars, nextDrawer>>

\* The timer of an edited endpoint.
EndpointTimer ==
    /\ auto /\ load = 0 /\ auto' = FALSE /\ RequestModels(FALSE, drawer, refresh, host)
    /\ UNCHANGED <<hostVars, queued, listVars, drawerVars, keyVars, saveVars, dialog, switchVars, nextDrawer>>

\* The draft is sealed: it is sent while it is wanted.  The global entry works on
\* the last draft of each purpose.
Sent(kind, id, draft) ==
    {IF r.kind = kind THEN [r EXCEPT !.cancelled = TRUE] ELSE r : r \in host} \cup
    {[kind |-> kind, id |-> id, of |-> drawer.profile, drawer |-> drawer.id, draft |-> draft,
      cancelled |-> FALSE]}

SendModels ==
    /\ refresh # None /\ ~refresh.sent /\ refresh.fresh
    /\ refresh' = [refresh EXCEPT !.sent = TRUE] /\ host' = Sent("draft-models", refresh.id, drawer.draft)
    /\ UNCHANGED <<hostVars, queued, listVars, drawerVars, keyVars, auto, saveVars, dialog, switchVars, idVars>>

\* The key cannot be sealed.
ModelsNotSent ==
    /\ refresh # None /\ ~refresh.sent /\ refresh' = None
    /\ UNCHANGED <<hostVars, host, queued, listVars, drawerVars, keyVars, auto, saveVars, dialog,
                   switchVars, idVars>>

Tested(phase) == [drawer EXCEPT !.test.phase = phase]

StartTest ==
    /\ CanAsk /\ ~Testing(drawer) /\ channel' = drawer.id
    /\ drawer' = [drawer EXCEPT !.test = [id |-> nextId, draft |-> drawer.draft, phase |-> "testing",
                                          sent |-> FALSE, of |-> [edits |-> edits, key |-> key]]]
    /\ nextId' = nextId + 1
    /\ UNCHANGED <<hostVars, host, queued, listVars, editing, key, edits, load, reader, owner, modelVars,
                   saveVars, dialog, switchVars, nextDrawer>>

SendTest ==
    /\ Testing(drawer) /\ ~drawer.test.sent
    /\ drawer' = [drawer EXCEPT !.test.sent = TRUE]
    /\ host' = Sent("test", drawer.test.id, drawer.test.draft)
    /\ UNCHANGED <<hostVars, queued, listVars, editing, key, edits, keyVars, modelVars, saveVars, dialog,
                   switchVars, idVars>>

TestNotSent ==
    /\ Testing(drawer) /\ ~drawer.test.sent /\ drawer' = Tested("failed")
    /\ UNCHANGED <<hostVars, host, queued, listVars, editing, key, edits, keyVars, modelVars, saveVars,
                   dialog, switchVars, idVars>>

\* No answer after ten seconds.
TestExpires ==
    /\ Testing(drawer) /\ CloseChannel(Tested("failed"), Cancelled(host, TestIds, FALSE))
    /\ UNCHANGED <<hostVars, queued, listVars, editing, key, edits, dialog, switchVars, nextDrawer>>

\* The page is hidden: nothing is awaited any more.
PageHides ==
    /\ CancelLoad /\ refresh' = None /\ GiveUpSave
    /\ drawer' = [drawer EXCEPT !.test = None, !.saving = @ /\ save = None]
    /\ host' = Cancelled(host, TestIds \cup RefreshIds, TRUE)
    /\ UNCHANGED <<hostVars, queued, listVars, editing, key, edits, dialog, switchVars, idVars>>

-----------------------------------------------------------------------------
(* The save. *)

StartSave ==
    /\ CanAsk
    /\ save' = [id |-> nextId, of |-> editing, drawer |-> drawer.id, sent |-> FALSE]
    /\ drawer' = [drawer EXCEPT !.submits = @ + 1, !.test = None, !.saving = TRUE]
    /\ locked' = TRUE /\ nextId' = nextId + 1 /\ channel' = drawer.id
    /\ host' = Cancelled(host, TestIds, FALSE)
    /\ UNCHANGED <<hostVars, queued, listVars, editing, key, edits, load, reader, owner, modelVars, dialog,
                   switchVars, nextDrawer>>

\* The reservation is made and the key sealed for it.
SendSave ==
    /\ save # None /\ ~save.sent
    /\ save' = [save EXCEPT !.sent = TRUE]
    /\ host' = host \cup {[kind |-> "save", id |-> save.id, of |-> save.of, cancelled |-> FALSE]}
    /\ UNCHANGED <<hostVars, queued, listVars, drawerVars, keyVars, modelVars, locked, dialog, switchVars,
                   idVars>>

\* The save is refused, or an answer does not come in fifteen seconds.
SaveFails ==
    /\ save # None /\ CloseChannel(drawer, host)
    /\ UNCHANGED <<hostVars, queued, listVars, editing, key, edits, dialog, switchVars, nextDrawer>>

-----------------------------------------------------------------------------
(* The delete dialog and the switches. *)

AskDelete ==
    /\ Reachable /\ editing # None /\ ~Conflict /\ ~drawer.saving /\ ~Deleting
    /\ list[editing.profile] = editing.revision
    /\ dialog' = [profile |-> editing.profile, revision |-> editing.revision, id |-> 0]
    /\ drawer' = IF drawer.mode = "editing" /\ drawer.profile = editing.profile
                 THEN [drawer EXCEPT !.deleting = "confirming"] ELSE drawer
    /\ UNCHANGED <<hostVars, host, queued, listVars, editing, key, edits, keyVars, modelVars, saveVars,
                   switchVars, idVars>>

WithoutDialog == IF drawer.profile = dialog.profile THEN [drawer EXCEPT !.deleting = "no"] ELSE drawer

CancelDelete ==
    /\ dialog # None /\ dialog.id = 0
    /\ dialog' = None /\ drawer' = WithoutDialog
    /\ UNCHANGED <<hostVars, host, queued, listVars, editing, key, edits, keyVars, modelVars, saveVars,
                   switchVars, idVars>>

ConfirmDelete ==
    /\ dialog # None /\ dialog.id = 0 /\ nextId <= MaxRequests
    /\ list[dialog.profile] = dialog.revision
    /\ dialog' = [dialog EXCEPT !.id = nextId] /\ nextId' = nextId + 1
    /\ drawer' = [drawer EXCEPT !.test = None,
                    !.deleting = IF drawer.profile = dialog.profile THEN "deleting" ELSE @]
    /\ host' = Cancelled(host, TestIds, FALSE) \cup
                 {[kind |-> "delete", id |-> nextId, cancelled |-> FALSE,
                   of |-> [profile |-> dialog.profile, revision |-> dialog.revision]]}
    /\ UNCHANGED <<hostVars, queued, listVars, editing, key, edits, keyVars, modelVars, saveVars,
                   switchVars, nextDrawer>>

\* A switch is turned: all of them are disabled until the answer or the timer.
Toggle(p, on) ==
    /\ Reachable /\ switch = None /\ rows[p] # 0 /\ list[p] # 0 /\ nextId <= MaxRequests
    /\ on # (enabled = p)
    /\ switch' = [id |-> nextId, profile |-> p, on |-> on, version |-> known]
    /\ timers' = timers \cup {nextId} /\ nextId' = nextId + 1
    /\ host' = host \cup {[kind |-> "switch", id |-> nextId, on |-> on, cancelled |-> FALSE,
                           of |-> [profile |-> p, revision |-> rows[p]]]}
    /\ UNCHANGED <<hostVars, queued, listVars, drawerVars, keyVars, modelVars, saveVars, dialog, nextDrawer>>

\* Eight seconds have passed.
SwitchExpires ==
    /\ \E id \in timers :
         /\ timers' = timers \ {id}
         /\ switch' = IF switch # None /\ switch.id = id THEN None ELSE switch
    /\ UNCHANGED <<hostVars, host, queued, listVars, drawerVars, keyVars, modelVars, saveVars, dialog, idVars>>

-----------------------------------------------------------------------------
(* The window and the global entry. *)

Picture == [version |-> version, list |-> stored, active |-> active]
Message(name, id) == [name |-> name, id |-> id]

\* A change of the stored profiles is published before it is answered.
Tells(messages) ==
    /\ queued' = queued \o (IF version' = version THEN <<>> ELSE <<[name |-> "state", picture |-> Picture']>>)
                     \o messages
    /\ Len(queued') <= MaxQueue

Change(p, revision, on) ==
    /\ version < MaxVersion /\ version' = version + 1
    /\ stored' = [stored EXCEPT ![p] = revision] /\ active' = on
    /\ unborn' = unborn \ {p}
Without(p) == IF active = p THEN None ELSE active

\* What works with a profile that has changed is cancelled.
Withdrawn(h, p) ==
    {IF r.kind \in {"test", "models", "draft-models"} /\ r.of = p
     THEN [r EXCEPT !.cancelled = TRUE] ELSE r : r \in h}

sidebarVars == <<listVars, drawerVars, keyVars, modelVars, saveVars, dialog, switchVars, idVars>>

\* Another window edits, deletes, enables or disables a profile.
OtherWindow ==
    /\ \E p \in Profile :
         /\ stored[p] # 0
         /\ \/ Change(p, stored[p] + 1, Without(p)) /\ host' = Withdrawn(host, p)
            \/ Change(p, 0, Without(p)) /\ host' = Withdrawn(host, p)
            \/ Change(p, stored[p], IF active = p THEN None ELSE p) /\ UNCHANGED host
    /\ Tells(<<>>)
    /\ UNCHANGED sidebarVars

\* A cancelled request may end without an answer.
Dropped(r) == r.cancelled /\ host' = host \ {r} /\ UNCHANGED <<hostVars, queued>>

\* The answer to a draft; one that fails may close the channel, which the window
\* is told after it.
Answers(r, ok, message) ==
    /\ host' = host \ {r} /\ UNCHANGED hostVars
    /\ \E revoked \in BOOLEAN :
         /\ revoked => r.kind # "models" /\ ~ok
         /\ Tells(<<message>> \o IF revoked THEN <<Message("revoked", r.drawer)>> ELSE <<>>)

\* "invalid": the channel of the draft is not the window's.
HostTest(r) ==
    /\ r.kind = "test"
    /\ \/ Dropped(r)
       \/ \E ok \in BOOLEAN, invalid \in BOOLEAN :
            /\ ok => ~invalid
            /\ Answers(r, ok, [name |-> "tested", id |-> r.id, drawer |-> r.drawer, draft |-> r.draft,
                               ok |-> ok, invalid |-> invalid])
    /\ UNCHANGED sidebarVars

HostModels(r) ==
    /\ r.kind \in {"models", "draft-models"}
    /\ \/ Dropped(r)
       \/ \E ok \in BOOLEAN : Answers(r, ok, Message("models", r.id))
    /\ UNCHANGED sidebarVars

\* The commit succeeds for the revision it expects, and closes the window's
\* channel; the answer of one that was stored may still be a failure.
HostSave(r) ==
    /\ r.kind = "save"
    /\ \/ /\ host' = host \ {r} /\ UNCHANGED hostVars
          /\ Tells(<<[name |-> "saved", id |-> r.id, ok |-> FALSE]>>)
       \/ \E p \in Profile, ok \in BOOLEAN :
            /\ IF r.of = None THEN p \in unborn
               ELSE p = r.of.profile /\ stored[p] = r.of.revision /\ stored[p] # 0
            /\ Change(p, stored[p] + 1, Without(p))
            /\ host' = {IF q.kind \in {"test", "draft-models"} THEN [q EXCEPT !.cancelled = TRUE] ELSE q :
                          q \in Withdrawn(host \ {r}, p)}
            /\ Tells(<<[name |-> "saved", id |-> r.id, ok |-> ok, profile |-> p, revision |-> stored'[p]]>>)
    /\ UNCHANGED sidebarVars

HostDelete(r) ==
    /\ r.kind = "delete"
    /\ \/ /\ host' = host \ {r} /\ UNCHANGED hostVars /\ Tells(<<Message("refused", r.id)>>)
       \/ LET p == r.of.profile
          IN  /\ stored[p] = r.of.revision /\ Change(p, 0, Without(p))
              /\ host' = Withdrawn(host \ {r}, p)
              /\ Tells(<<[name |-> "deleted", id |-> r.id, profile |-> p]>>)
    /\ UNCHANGED sidebarVars

HostSwitch(r) ==
    /\ r.kind = "switch" /\ host' = host \ {r}
    /\ LET p == r.of.profile IN
       \/ UNCHANGED hostVars
       \/ /\ stored[p] = r.of.revision /\ r.on # (active = p)
          /\ Change(p, stored[p], IF r.on THEN p ELSE None)
    /\ Tells(<<[name |-> "switched", id |-> r.id, picture |-> Picture']>>)
    /\ UNCHANGED sidebarVars

-----------------------------------------------------------------------------
(* What the sidebar does with a message. *)

\* An authority that comes alone: the drawer is not reconciled with it.
TakeAuthority(m, sw) ==
    /\ ApplyAuthority(m, sw)
    /\ timers' = IF m.version >= known THEN ArmedTimers ELSE timers
    /\ rows' = IF m.version >= known THEN list' ELSE rows

HandleState(m) ==
    /\ m.name = "state" /\ TakeAuthority(m.picture, switch)
    /\ UNCHANGED <<hostVars, host, gone, editing, key, edits, channel, reader, refresh, saveVars, idVars>>

HandleSwitched(m) ==
    /\ m.name = "switched"
    /\ LET sw == IF switch # None /\ switch.id = m.id THEN None ELSE switch
       IN  /\ ApplyAuthority(m.picture, sw)
           /\ IF sw # switch \/ m.picture.version >= known
              THEN timers' = ArmedTimers \ {m.id} /\ rows' = list'
              ELSE timers' = timers \ {m.id} /\ UNCHANGED rows
    /\ UNCHANGED <<hostVars, host, gone, editing, key, edits, channel, reader, refresh, saveVars, idVars>>

\* The window's own deletion has succeeded: deleteSucceeded, then resetEditor.
HandleDeleted(m) ==
    /\ m.name = "deleted"
    /\ LET p == m.profile
           d == IF drawer.mode = "editing" /\ drawer.profile = p THEN Closed ELSE drawer
       IN  /\ gone' = gone \cup {p} /\ list' = [list EXCEPT ![p] = 0] /\ rows' = list'
           /\ dialog' = IF dialog # None /\ dialog.profile = p THEN None ELSE dialog
           /\ IF editing # None /\ editing.profile = p /\ ~d.saving
              THEN /\ drawer' = Closed /\ editing' = None /\ key' = Empty /\ edits' = 0
                   /\ CancelLoad /\ refresh' = None /\ save' = None
                   /\ host' = Cancelled(host, (IF d.test = None THEN {} ELSE TestIds) \cup RefreshIds, TRUE)
              ELSE drawer' = d /\ UNCHANGED <<editing, key, edits, keyVars, modelVars, save, host>>
    /\ UNCHANGED <<hostVars, enabled, known, locked, switchVars, idVars>>

HandleRefused(m) ==
    /\ m.name = "refused"
    /\ IF dialog # None /\ dialog.id = m.id THEN dialog' = None /\ drawer' = WithoutDialog
       ELSE UNCHANGED <<dialog, drawer>>
    /\ UNCHANGED <<hostVars, host, listVars, editing, key, edits, keyVars, modelVars, saveVars, switchVars, idVars>>

HandleTested(m) ==
    /\ m.name = "tested"
    /\ IF /\ Testing(drawer) /\ drawer.test.id = m.id /\ drawer.id = m.drawer
          /\ drawer.test.draft = m.draft /\ drawer.draft = m.draft /\ ~Conflict
       THEN IF m.invalid THEN CloseChannel(Tested("failed"), host)
            ELSE /\ drawer' = Tested(IF m.ok THEN "passed" ELSE "failed")
                 /\ UNCHANGED <<host, keyVars, modelVars, saveVars, nextId>>
       ELSE UNCHANGED <<host, drawer, keyVars, modelVars, saveVars, nextId>>
    /\ UNCHANGED <<hostVars, listVars, editing, key, edits, dialog, switchVars, nextDrawer>>

HandleModels(m) ==
    /\ m.name = "models"
    /\ refresh' = IF refresh # None /\ refresh.id = m.id /\ refresh.fresh THEN None ELSE refresh
    /\ UNCHANGED <<hostVars, host, listVars, drawerVars, keyVars, auto, saveVars, dialog, switchVars, idVars>>

\* The answer of a save: the drawer closes, and the row is there at once.
HandleSaved(m) ==
    /\ m.name = "saved"
    /\ IF save = None \/ save.id # m.id
       THEN UNCHANGED <<host, rows, drawerVars, keyVars, modelVars, saveVars, nextId>>
       ELSE IF ~m.ok
       THEN CloseChannel(drawer, host) /\ UNCHANGED <<rows, editing, key, edits>>
       ELSE /\ save' = None /\ locked' = FALSE /\ channel' = 0 /\ reader' = None
            /\ drawer' = Closed /\ editing' = None /\ key' = Empty /\ edits' = 0
            /\ rows' = [rows EXCEPT ![m.profile] = m.revision]
            /\ refresh' = IF Unsealed = None THEN None ELSE [refresh EXCEPT !.fresh = @ /\ editing = None]
            /\ host' = Cancelled(host, {}, TRUE)
            /\ UNCHANGED <<load, owner, auto, nextId>>
    /\ UNCHANGED <<hostVars, list, enabled, known, gone, dialog, switchVars, nextDrawer>>

\* The host has closed the channel.
HandleRevoked(m) ==
    /\ m.name = "revoked"
    /\ IF channel = 0 \/ channel # m.id
       THEN UNCHANGED <<host, drawer, keyVars, modelVars, saveVars, nextId>>
       ELSE CloseChannel(drawer, host)
    /\ UNCHANGED <<hostVars, listVars, editing, key, edits, dialog, switchVars, nextDrawer>>

Deliver ==
    /\ queued # <<>> /\ queued' = Tail(queued)
    /\ LET m == Head(queued)
       IN  \/ HandleState(m) \/ HandleSwitched(m) \/ HandleDeleted(m) \/ HandleRefused(m)
           \/ HandleTested(m) \/ HandleModels(m) \/ HandleSaved(m) \/ HandleRevoked(m)

\* The answer to a poll: what the window knows now, with which the drawer is
\* reconciled.  Rows are rendered when the list or the authority has changed.
HandleUpdate ==
    LET l == Shown(stored)
        d == DrawerAfter(l)
        closed == d.mode = "closed"
        conflict == d.validity = "conflict"
        lost == IF d.test = None THEN TestIds ELSE {}
    IN  /\ list' = l /\ enabled' = active /\ known' = version
        /\ dialog' = DialogAfter(l)
        /\ switch' = IF version > known /\ Settled(switch, Picture) THEN None ELSE switch
        /\ timers' = ArmedTimers
        /\ rows' = l \/ (l = list /\ version = known /\ rows' = rows)
        /\ editing' = IF closed \/ editing = None THEN None
                      ELSE IF l[editing.profile] = 0 \/ conflict \/ save # None THEN editing
                      ELSE [editing EXCEPT !.revision = l[editing.profile]]
        /\ IF closed \/ conflict
           THEN /\ CancelLoad /\ key' = Empty /\ GiveUpSave
                /\ drawer' = [d EXCEPT !.saving = @ /\ save = None]
                /\ host' = Cancelled(host, lost \cup (IF conflict THEN RefreshIds ELSE {}), TRUE)
                /\ refresh' = IF conflict \/ Unsealed = None THEN None
                              ELSE [refresh EXCEPT !.fresh = @ /\ editing' = editing]
           ELSE /\ drawer' = d /\ host' = Cancelled(host, lost, FALSE) /\ UNCHANGED <<keyVars, auto, key, saveVars>>
                /\ refresh' = IF refresh = None THEN None
                              ELSE [refresh EXCEPT !.fresh = @ /\ editing' = editing]
        /\ edits' = IF closed THEN 0 ELSE edits
        /\ UNCHANGED <<hostVars, queued, gone, idVars>>

-----------------------------------------------------------------------------
Init ==
    /\ stored \in [Profile -> {0, 1}] /\ unborn = {p \in Profile : stored[p] = 0}
    /\ active \in {p \in Profile : stored[p] = 1} \cup {None} /\ version = 0
    /\ host = {} /\ queued = <<>>
    /\ list = stored /\ enabled = active /\ known = 0 /\ gone = {} /\ rows = stored
    /\ drawer = Closed /\ editing = None /\ key = Empty /\ edits = 0
    /\ channel = 0 /\ load = 0 /\ reader = None /\ owner = FALSE
    /\ refresh = None /\ auto = FALSE /\ save = None /\ locked = FALSE
    /\ dialog = None /\ switch = None /\ timers = {}
    /\ nextId = 1 /\ nextDrawer = 1

User ==
    \/ \E p \in Profile : OpenEditor(p)
    \/ OpenNew \/ CloseDrawer
    \/ EditKind \/ EditEndpoint \/ EditRoute \/ EditModel \/ TypeKey
    \/ RefreshModels \/ StartTest \/ StartSave \/ PageHides
    \/ AskDelete \/ CancelDelete \/ ConfirmDelete
    \/ \E p \in Profile, on \in BOOLEAN : Toggle(p, on)

Editor ==
    \/ BeginRead \/ AcceptRead \/ ReadFails
    \/ ChannelFails \/ SendModels \/ ModelsNotSent \/ SendTest \/ TestNotSent \/ SendSave

Timers == LoadExpires \/ EndpointTimer \/ TestExpires \/ SaveFails \/ SwitchExpires

Host ==
    \/ OtherWindow
    \/ \E r \in host : HostTest(r) \/ HostModels(r) \/ HostSave(r) \/ HostDelete(r) \/ HostSwitch(r)

Next == User \/ Editor \/ Timers \/ Host \/ Deliver \/ HandleUpdate

Spec == Init /\ [][Next]_vars
-----------------------------------------------------------------------------
TypeOK ==
    /\ stored \in [Profile -> Revision] /\ list \in [Profile -> Revision]
    /\ rows \in [Profile -> Revision] /\ {gone, unborn} \subseteq SUBSET Profile
    /\ {active, enabled} \subseteq Profile \cup {None}
    /\ {version, known} \subseteq 0..MaxVersion
    /\ \A r \in host : r.id \in Request /\ r.cancelled \in BOOLEAN
    /\ Len(queued) <= MaxQueue
    /\ drawer \in DrawerState
    /\ editing \in Ref \cup {None} /\ key \in Key /\ edits \in 0..MaxEdits
    /\ {channel, load} \subseteq Drawer /\ reader \in Reader \cup {None}
    /\ {owner, auto, locked} \subseteq BOOLEAN
    /\ refresh \in Refresh \cup {None} /\ save \in Save \cup {None}
    /\ dialog \in Dialog \cup {None} /\ switch \in Switch \cup {None}
    /\ timers \subseteq Request
    /\ nextId \in 1..MaxRequests + 1 /\ nextDrawer \in 1..MaxDrawers + 1

\* A save expects the revision of the profile that its drawer was opened on: no
\* save overwrites a change the user has not seen.  (The row that an answer left of
\* a profile deleted meanwhile may still be clicked: its save is refused.)
SaveExpectsWhatIsShown ==
    drawer.mode = "editing" /\ ~Conflict =>
        /\ editing # None
        /\ \/ editing.profile = drawer.profile /\ editing.revision <= drawer.source
           \/ list[editing.profile] = 0

\* A test speaks of the draft that is shown.
TestTellsTheDraft ==
    drawer.test # None => drawer.test.of = [edits |-> edits, key |-> key] /\ ~Conflict

\* The saved key of a profile stands only in the drawer of that revision of it,
\* never replaces one the user has typed, and is read through that drawer's
\* channel (sidebar.ts, loadEditorCredential).
KeyBelongsToTheDrawer ==
    /\ key.kind = "saved" /\ drawer.mode # "closed" /\ ~Conflict =>
         key = SavedKey(drawer.profile, drawer.source) /\ drawer.keyEdits = 0
    /\ load # 0 => reader # None /\ reader.drawer = load /\ channel = load

\* The host works for nobody: what it tests of the drawer, and the models that it
\* lists, are awaited or cancelled.
RequestsAreOwned ==
    \A r \in host : ~r.cancelled =>
        /\ r.kind = "test" /\ r.drawer = drawer.id /\ ~Conflict => Testing(drawer) /\ drawer.test.id = r.id
        /\ r.kind \in {"models", "draft-models"} => refresh # None /\ refresh.id = r.id

\* What waits has something that ends the wait: a drawer that is being saved its
\* save, one whose profile is being deleted the dialog, a switch its timer.
WaitsEnd ==
    /\ drawer.saving => save # None /\ save.drawer = drawer.id /\ locked
    /\ Deleting => dialog # None /\ dialog.profile = drawer.profile /\ dialog.id # 0
    /\ switch # None => switch.id \in timers
    /\ save # None => channel = save.drawer
=============================================================================
