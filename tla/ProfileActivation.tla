-------------------------- MODULE ProfileActivation --------------------------
(***************************************************************************)
(* The authority over the list of profiles and the enabled one:            *)
(* src/runtime/providers/profile-activation.ts, with the calls it makes    *)
(* through src/runtime/transport/supervisor.ts to the profile store of the *)
(* transport helper (SecureCredentialStore.swift).                         *)
(*                                                                         *)
(* The authority chains every operation to a promise, its tail, so that    *)
(* one runs at a time: it is the queue here.  An operation that changes    *)
(* something awaits one mutation of the store.  The supervisor sends it at *)
(* most twice under one commit id, each time to a helper it believes       *)
(* alive; a helper that was given up may still execute what it was sent.   *)
(* One action is the code between two awaits, or what a helper does under  *)
(* the lock of the store.                                                  *)
(*                                                                         *)
(* A profile is its id and revision: the name, endpoint and key of a       *)
(* revision never change.  Damaged documents are not modelled.             *)
(***************************************************************************)
EXTENDS Integers, Sequences

CONSTANTS
    Profile,         \* profile ids; an id is used for one profile ever
    Window,          \* the player windows that send requests
    None,            \* null
    InitialProfiles, \* [Profile -> Nat], the revisions stored at start, 0 if none
    InitialActivation, \* the enabled profile stored at start, or None
    Migrating,       \* BOOLEAN: does a migration still need its cleanup?
    MaxRequests, MaxFaults  \* bounds of the model

VARIABLES
    doc,           \* the stored document
    lineage,       \* the pictures the document has had, by revision (history)
    inbox,         \* mutations sent to helpers and neither executed nor lost
    commits,       \* every commit ever prepared, by commit id, with its outcome
    storeRevision, profiles, activation,  \* what the authority believes is stored
    ready, reconciling, generation, stateVersion,
    fallback,      \* fallbackEntered: the authority started without the store
    queue,         \* operations chained to the tail
    current,       \* the operation that awaits the store, or None
    requests, faults  \* counters of the bounds

storeVars == <<doc, lineage, inbox>>
pictureVars == <<storeRevision, profiles, activation>>
feedVars == <<ready, reconciling, generation, stateVersion, fallback>>
vars == <<storeVars, commits, pictureVars, feedVars, queue, current, requests, faults>>

Ref == [profile : Profile, revision : Nat]
Picture == [profiles : [Profile -> Nat], activation : Ref \cup {None}]
Document == [revision : Nat, receipt : Nat, profiles : [Profile -> Nat],
             activation : Ref \cup {None}, migrating : BOOLEAN]
Operation ==
    [kind : {"set"}, window : Window, ref : Ref, on : BOOLEAN]
    \cup [kind : {"delete"}, ref : Ref]
    \cup [kind : {"reserve"}, window : Window, ref : Ref]
    \cup [kind : {"complete"}, commit : Nat]
    \cup [kind : {"reconcile", "maintain"}]
\* A commit of kind "save" starts as a reservation of a window.
Commit == [kind : {"set", "delete", "save", "cleanup"}, owner : Window \cup {None},
           base : Nat, picture : Picture,
           outcome : {"reserved", "dropped", "waiting", "changed", "failed", "pending"}]
Step == {"send", "wait", "read", "committed", "rejected", "thrown", "reconciling",
         "recover", "recovered", "unrecovered"}
Running == [op : Operation, commit : Nat, attempt : 1..2, step : Step,
            seen : Document \cup {None}]

ASSUME AuthorityAssumption ==
    /\ InitialProfiles \in [Profile -> Nat]
    /\ InitialActivation = None \/ InitialActivation \in
         {[profile |-> p, revision |-> InitialProfiles[p]] : p \in {q \in Profile : InitialProfiles[q] > 0}}
    /\ Migrating \in BOOLEAN
    /\ MaxRequests \in Nat /\ MaxFaults \in Nat
    /\ None \notin Running  \* null is no operation in hand

Absent == [p \in Profile |-> 0]
Believed == [profiles |-> profiles, activation |-> activation]
Exists(ref) == ref.revision > 0 /\ profiles[ref.profile] = ref.revision
PictureOf(d) == [profiles |-> d.profiles, activation |-> d.activation]

Reconcile == [kind |-> "reconcile"]
Reserved == {i \in DOMAIN commits : commits[i].outcome = "reserved"}

\* The activation the windows are told of: a start without the store enables
\* nothing before somebody chooses again.
Effective == IF fallback /\ generation = 0 THEN None ELSE activation
AcceptsTranslations == ready /\ ~reconciling /\ Effective # None
-----------------------------------------------------------------------------
(***************************************************************************)
(* Requests of the windows, as the handlers of global.ts pass them on.  A  *)
(* request answered "pending" makes the handler ask for a reconciliation.  *)
(***************************************************************************)
Unavailable == reconciling \/ ~ready

Request(op) ==
    /\ requests < MaxRequests
    /\ requests' = requests + 1
    /\ queue' = Append(queue, op)
    /\ UNCHANGED <<storeVars, commits, pictureVars, feedVars, current, faults>>

\* pendingBySender: the window has a set operation under way.
HasSetPending(w) ==
    \/ current # None /\ current.op.kind = "set" /\ current.op.window = w
    \/ \E i \in DOMAIN queue : queue[i].kind = "set" /\ queue[i].window = w

RequestSet(w, ref, on) ==
    Request(IF HasSetPending(w) \/ Unavailable THEN Reconcile
            ELSE [kind |-> "set", window |-> w, ref |-> ref, on |-> on])

RequestDelete(ref) ==
    Request(IF Unavailable THEN Reconcile ELSE [kind |-> "delete", ref |-> ref])

\* ref is the profile's next revision as the window sees it.
RequestReserve(w, ref) == Request([kind |-> "reserve", window |-> w, ref |-> ref])

RequestComplete(i) ==
    Request(IF Unavailable THEN Reconcile ELSE [kind |-> "complete", commit |-> i])

\* A window that was served before asks for the list or the activation again.
\* (Not counted, and enabled only when no operation is left.)
RequestReconcile ==
    /\ queue = <<>> /\ current = None
    /\ queue' = <<Reconcile>>
    /\ UNCHANGED <<storeVars, commits, pictureVars, feedVars, current, requests, faults>>

\* The window closes its credential channel, or the reservation expires.
CancelReservation(i) ==
    /\ i \in Reserved
    /\ commits' = [commits EXCEPT ![i].outcome = "dropped"]
    /\ UNCHANGED <<storeVars, pictureVars, feedVars, queue, current, requests, faults>>
-----------------------------------------------------------------------------
(***************************************************************************)
(* An operation reaches the head of the tail.                              *)
(***************************************************************************)
AtHead(kind) == current = None /\ queue # <<>> /\ Head(queue).kind = kind

\* The operation ends without touching the store.
Skip == /\ queue' = Tail(queue)
        /\ UNCHANGED <<storeVars, commits, pictureVars, feedVars, current, requests, faults>>

\* enqueueMutation and execute find that an earlier operation has not been settled.
AnswerPending ==
    /\ queue' = Append(Tail(queue), Reconcile)
    /\ UNCHANGED <<storeVars, commits, pictureVars, feedVars, current, requests, faults>>

Await(op, commit, step) ==
    current' = [op |-> op, commit |-> commit, attempt |-> 1, step |-> step, seen |-> None]

\* mutant of BeginCommit: the version of the snapshot is not advanced
BeginCommitSilently(op, i) ==
    /\ Await(op, i, "send")
    /\ ready' = FALSE
    /\ queue' = Tail(queue)
    /\ UNCHANGED <<storeVars, pictureVars, reconciling, generation, stateVersion, fallback,
                   requests, faults>>

\* beginCommit, and the call of the store.
BeginCommit(op, i) ==
    /\ Await(op, i, "send")
    /\ ready' = FALSE
    /\ stateVersion' = stateVersion + 1
    /\ queue' = Tail(queue)
    /\ UNCHANGED <<storeVars, pictureVars, reconciling, generation, fallback, requests, faults>>

NewCommit(kind, owner, picture) ==
    Append(commits, [kind |-> kind, owner |-> owner, base |-> storeRevision,
                     picture |-> picture, outcome |-> "waiting"])

\* execute: what the request asks for, compared with what is enabled.
BeginSet ==
    /\ AtHead("set")
    /\ LET op == Head(queue)
           candidate == IF op.on THEN op.ref ELSE None
           refused == ~Exists(op.ref) \/ (~op.on /\ activation # op.ref)
           unchanged == ~(fallback /\ generation = 0) /\ activation = candidate
       IN  IF Unavailable THEN AnswerPending
           ELSE IF refused \/ unchanged THEN Skip
           ELSE /\ commits' = NewCommit("set", op.window, [Believed EXCEPT !.activation = candidate])
                /\ BeginCommit(op, Len(commits) + 1)

\* A profile that is changed or deleted is not enabled any more.
Without(p) == IF activation # None /\ activation.profile = p THEN None ELSE activation

BeginDelete ==
    /\ AtHead("delete")
    /\ LET op == Head(queue)
           p == op.ref.profile
           left == [profiles |-> [profiles EXCEPT ![p] = 0], activation |-> Without(p)]
       IN  IF Unavailable THEN AnswerPending
           ELSE IF ~Exists(op.ref) THEN Skip
           ELSE /\ commits' = NewCommit("delete", None, left)
                /\ BeginCommit(op, Len(commits) + 1)

\* completeProfileSave: the reservation must have survived and fit the store.
BeginSave ==
    /\ AtHead("complete")
    /\ LET op == Head(queue)
           i  == op.commit
       IN  IF Unavailable THEN AnswerPending
           ELSE IF i \notin Reserved THEN Skip
           ELSE IF commits[i].base # storeRevision
           THEN /\ commits' = [commits EXCEPT ![i].outcome = "failed"]
                /\ queue' = Tail(queue)
                /\ UNCHANGED <<storeVars, pictureVars, feedVars, current, requests, faults>>
           ELSE /\ commits' = [commits EXCEPT ![i].outcome = "waiting"]
                /\ BeginCommit(op, i)

\* reserveProfileSave, when the authority is ready: the save candidate must be
\* the successor of the known revision, and replaces the window's reservation.
MakeReservation(op) ==
    LET p == op.ref.profile
        fits == op.ref.revision = profiles[p] + 1
        kept == [i \in DOMAIN commits |->
                   IF i \in Reserved /\ commits[i].owner = op.window
                   THEN [commits[i] EXCEPT !.outcome = "dropped"] ELSE commits[i]]
    IN  commits' = IF ~fits THEN kept
                   ELSE Append(kept, [kind |-> "save", owner |-> op.window, base |-> storeRevision,
                                      picture |-> [profiles |-> [profiles EXCEPT ![p] = op.ref.revision],
                                                   activation |-> Without(p)],
                                      outcome |-> "reserved"])

BeginReserve ==
    /\ AtHead("reserve") /\ ~Unavailable
    /\ MakeReservation(Head(queue))
    /\ queue' = Tail(queue)
    /\ UNCHANGED <<storeVars, pictureVars, feedVars, current, requests, faults>>

\* verifyBase asks the store, unless there is nothing to verify.
BeginRecovery ==
    /\ AtHead("reconcile") \/ AtHead("reserve")
    /\ IF Unavailable
       THEN /\ Await(Head(queue), 0, "recover")
            /\ queue' = Tail(queue)
            /\ UNCHANGED <<storeVars, commits, pictureVars, feedVars, requests, faults>>
       ELSE AtHead("reconcile") /\ Skip

\* maintain: the cleanup after a migration, with the authority in service.
BeginMaintenance ==
    /\ AtHead("maintain")
    /\ commits' = NewCommit("cleanup", None, Believed)
    /\ Await(Head(queue), Len(commits) + 1, "send")
    /\ queue' = Tail(queue)
    /\ UNCHANGED <<storeVars, pictureVars, feedVars, requests, faults>>
-----------------------------------------------------------------------------
(***************************************************************************)
(* The supervisor (localMutation, profileStateSave) and the helpers.       *)
(***************************************************************************)
At(step) == current # None /\ current.step = step
Fault == faults < MaxFaults /\ faults' = faults + 1
OnlyStep == UNCHANGED <<commits, pictureVars, feedVars, queue, requests>>
Message == [commit |-> current.commit, attempt |-> current.attempt]

Send ==
    /\ At("send")
    /\ inbox' = inbox \cup {Message}
    /\ current' = [current EXCEPT !.step = "wait"]
    /\ OnlyStep /\ UNCHANGED <<doc, lineage, faults>>

\* liveClient finds no helper and cannot start one: the call throws, whether or
\* not an earlier attempt was sent.
NoHelper ==
    /\ At("send") \/ At("read")
    /\ Fault
    /\ current' = [current EXCEPT !.step = "thrown"]
    /\ OnlyStep /\ UNCHANGED storeVars

\* The first attempt found its helper gone, or its outcome unconfirmed: try once more.
TryAgain == IF current.attempt = 1
            THEN [current EXCEPT !.attempt = 2, !.step = "send"]
            ELSE [current EXCEPT !.step = "read"]

\* The deadline of one second passes: the helper is slow, or it is gone with the
\* request or with the answer.
AttemptTimesOut ==
    /\ At("wait")
    /\ IF Message \in inbox THEN Fault ELSE UNCHANGED faults
    /\ current' = TryAgain
    /\ OnlyStep /\ UNCHANGED storeVars

\* A helper exits, or finds a request too old, or the supervisor removes the file.
LoseRequest(m) ==
    /\ m \in inbox
    /\ Fault
    /\ inbox' = inbox \ {m}
    /\ OnlyStep /\ UNCHANGED <<doc, lineage, current>>

\* The helper's answer reaches the supervisor that still waits for it, or nobody.
\* seen is the snapshot that comes with it.
Reply(m, answer, seen) ==
    current' =
        IF ~(At("wait") /\ Message = m) THEN current
        ELSE CASE answer = "committed"   -> [current EXCEPT !.step = "committed", !.seen = seen]
               [] answer = "unconfirmed" -> TryAgain
               [] answer = "conflict"    -> IF current.attempt = 1
                                            THEN [current EXCEPT !.step = "rejected"] ELSE TryAgain
               [] answer = "unavailable" -> IF current.attempt = 1
                                            THEN [current EXCEPT !.step = "thrown"] ELSE TryAgain
               [] answer = "lost"        -> current

Execute(m, answer) ==
    /\ m \in inbox
    /\ inbox' = inbox \ {m}
    /\ IF answer \in {"committed", "conflict"} THEN UNCHANGED faults ELSE Fault
    /\ OnlyStep

\* The outcomes after which the document holds the commit.
Confirmation == {"committed", "unconfirmed", "lost"}

IsCleanup(m) == commits[m.commit].kind = "cleanup"
HasReceipt(m) == doc.receipt = m.commit
FitsRevision(m) == doc.revision = commits[m.commit].base

\* confirm: the receipt of the document names this commit.
Confirm(m, answer) ==
    /\ Execute(m, answer)
    /\ HasReceipt(m)
    /\ Reply(m, answer, doc)
    /\ UNCHANGED <<doc, lineage>>

\* mutate: compare the revision, replace the document.
Store(m, answer) ==
    LET new == commits[m.commit].picture IN
    /\ Execute(m, answer)
    /\ ~HasReceipt(m) /\ ~IsCleanup(m) /\ FitsRevision(m)
    /\ doc' = [doc EXCEPT !.revision = @ + 1, !.receipt = m.commit,
                          !.profiles = new.profiles, !.activation = new.activation]
    /\ lineage' = Append(lineage, new)
    /\ Reply(m, answer, doc')

\* cleanupProfileState: compares no revision, and has nothing to do when clean.
Clean(m, answer) ==
    /\ Execute(m, answer)
    /\ ~HasReceipt(m) /\ IsCleanup(m)
    /\ doc' = IF doc.migrating
              THEN [doc EXCEPT !.revision = @ + 1, !.receipt = m.commit, !.migrating = FALSE]
              ELSE doc
    /\ lineage' = IF doc.migrating THEN Append(lineage, PictureOf(doc)) ELSE lineage
    /\ Reply(m, answer, doc')

Refuse(m) ==
    /\ Execute(m, "conflict")
    /\ ~HasReceipt(m) /\ ~IsCleanup(m) /\ ~FitsRevision(m)
    /\ Reply(m, "conflict", None)
    /\ UNCHANGED <<doc, lineage>>

\* Nothing can be read, or nothing written before the rename.
FailToStore(m) ==
    /\ Execute(m, "unavailable")
    /\ Reply(m, "unavailable", None)
    /\ UNCHANGED <<doc, lineage>>

\* After two attempts the supervisor only reads, to have a snapshot to return.
ReadBack ==
    /\ At("read")
    /\ current' = [current EXCEPT !.step = "reconciling"]
    /\ OnlyStep /\ UNCHANGED <<storeVars, faults>>

\* recover: the document is read, under a deadline of 15 seconds.
ReadForRecovery ==
    /\ At("recover")
    /\ \/ /\ current' = [current EXCEPT !.step = "recovered", !.seen = doc]
          /\ UNCHANGED faults
       \/ /\ Fault
          /\ current' = [current EXCEPT !.step = "unrecovered"]
    /\ OnlyStep /\ UNCHANGED storeVars
-----------------------------------------------------------------------------
(***************************************************************************)
(* The code of the authority after the await.                              *)
(***************************************************************************)
\* mutant: an uncertain commit is taken for a successful one
ConcludeOptimistically(outcome) ==
    /\ commits' = [commits EXCEPT ![current.commit].outcome =
                      IF outcome = "pending" THEN "changed" ELSE outcome]
    /\ current' = None
    /\ UNCHANGED <<storeVars, fallback, requests, faults>>
Conclude(outcome) ==
    /\ commits' = [commits EXCEPT ![current.commit].outcome = outcome]
    /\ current' = None
    /\ UNCHANGED <<storeVars, fallback, requests, faults>>

ApplyAllButRevision(seen) ==  \* mutant
    profiles' = seen.profiles /\ activation' = seen.activation /\ UNCHANGED storeRevision
ApplyCommitted(seen) ==
    /\ storeRevision' = seen.revision
    /\ profiles' = seen.profiles
    /\ activation' = seen.activation

MatchesState(seen, picture) ==
    seen.revision = storeRevision + 1 /\ PictureOf(seen) = picture

IsMutation == current # None /\ current.op.kind \in {"set", "delete", "complete"}
IsSave     == current.op.kind = "complete"

CommitIsConfirmed ==
    /\ IsMutation /\ At("committed")
    /\ MatchesState(current.seen, commits[current.commit].picture)
    /\ ApplyCommitted(current.seen)
    /\ generation' = IF current.op.kind = "set" \/ activation' # activation
                     THEN generation + 1 ELSE generation
    /\ ready' = TRUE
    /\ stateVersion' = stateVersion + 1
    /\ UNCHANGED <<reconciling, queue>>
    /\ Conclude("changed")

\* failCommit.  For set and delete every error is a failure; a save tells the
\* errors that rule out a change from the others.
Refused == At("rejected") \/ (At("thrown") /\ ~IsSave)

CommitFails ==
    /\ IsMutation /\ Refused
    /\ ready' = TRUE
    /\ stateVersion' = stateVersion + 1
    /\ UNCHANGED <<pictureVars, reconciling, generation, queue>>
    /\ Conclude("failed")

CommitIsUncertain ==
    /\ IsMutation
    /\ \/ At("reconciling")
       \/ At("thrown") /\ ~Refused
       \/ At("committed") /\ ~MatchesState(current.seen, commits[current.commit].picture)
    /\ reconciling' = TRUE
    /\ queue' = Append(queue, Reconcile)
    /\ UNCHANGED <<pictureVars, ready, generation, stateVersion>>
    /\ Conclude("pending")

IsNewer(seen) == seen.revision > storeRevision  \* mutant
IsNotOlder(seen) == seen.revision >= storeRevision

EndMaintenance ==
    /\ current # None /\ current.op.kind = "maintain"
    /\ current.step \in {"committed", "rejected", "thrown", "reconciling"}
    /\ LET seen == current.seen
           good == /\ current.step = "committed" /\ IsNotOlder(seen)
                   /\ PictureOf(seen) = Believed
       IN  /\ IF good THEN ApplyCommitted(seen) /\ stateVersion' = stateVersion + 1
                      ELSE UNCHANGED <<pictureVars, stateVersion>>
           /\ UNCHANGED <<ready, reconciling, generation, queue>>
           /\ Conclude(IF good THEN "changed" ELSE "failed")

GenerationAfter(seen) ==
    IF reconciling /\ activation # seen.activation THEN generation + 1 ELSE generation

Recovered ==
    /\ At("recovered")
    /\ IsNotOlder(current.seen)
    /\ ApplyCommitted(current.seen)
    /\ generation' = GenerationAfter(current.seen)
    /\ reconciling' = FALSE /\ ready' = TRUE
    /\ stateVersion' = stateVersion + 1
    /\ commits' = [i \in DOMAIN commits |->
                     IF i \in Reserved THEN [commits[i] EXCEPT !.outcome = "dropped"] ELSE commits[i]]
    \* a reservation that waited for the verification is made next
    /\ queue' = IF current.op.kind = "reserve" THEN <<current.op>> \o queue ELSE queue
    /\ current' = None
    /\ UNCHANGED <<storeVars, fallback, requests, faults>>

NotRecovered ==
    /\ At("unrecovered") \/ (At("recovered") /\ ~IsNotOlder(current.seen))
    /\ current' = None
    /\ UNCHANGED <<storeVars, commits, pictureVars, feedVars, queue, requests, faults>>
-----------------------------------------------------------------------------
\* main.ts is not answered before the restoration is over: it found the
\* document, or gave up and left the authority without it.
Init ==
    /\ doc = [revision |-> 1, receipt |-> 0, profiles |-> InitialProfiles,
              activation |-> InitialActivation, migrating |-> Migrating]
    /\ lineage = <<PictureOf(doc)>>
    /\ inbox = {} /\ commits = <<>>
    /\ fallback \in BOOLEAN
    /\ ready = ~fallback /\ reconciling = FALSE
    /\ storeRevision = IF fallback THEN 0 ELSE 1
    /\ profiles = IF fallback THEN Absent ELSE InitialProfiles
    /\ activation = IF fallback THEN None ELSE InitialActivation
    /\ generation = 0 /\ stateVersion = 0
    /\ queue = IF Migrating /\ ~fallback THEN <<[kind |-> "maintain"]>> ELSE <<>>
    /\ current = None
    /\ requests = 0 /\ faults = 0

\* What a window may have seen of a profile, now or earlier; ids are not reused.
Seen == {r \in [profile : Profile, revision : 1..(Len(lineage) + 1)] :
           \E n \in DOMAIN lineage : lineage[n].profiles[r.profile] = r.revision}
Unused == {p \in Profile : /\ \A n \in DOMAIN lineage : lineage[n].profiles[p] = 0
                           /\ \A i \in DOMAIN commits : commits[i].picture.profiles[p] = 0}
Savable == {[r EXCEPT !.revision = @ + 1] : r \in Seen}
           \cup [profile : Unused, revision : {1}]

Requests ==
    \/ \E w \in Window, r \in Seen, on \in BOOLEAN : RequestSet(w, r, on)
    \/ \E r \in Seen : RequestDelete(r)
    \/ \E w \in Window, r \in Savable : RequestReserve(w, r)
    \/ \E i \in Reserved : RequestComplete(i) \/ CancelReservation(i)
    \/ RequestReconcile

Helpers ==
    \E m \in inbox :
        \/ \E answer \in Confirmation : Confirm(m, answer) \/ Store(m, answer) \/ Clean(m, answer)
        \/ Refuse(m) \/ FailToStore(m) \/ LoseRequest(m)

Begin == \/ BeginSet \/ BeginDelete \/ BeginSave \/ BeginReserve \/ BeginRecovery
         \/ BeginMaintenance
Supervise == Send \/ NoHelper \/ AttemptTimesOut \/ ReadBack \/ ReadForRecovery
Resume == \/ CommitIsConfirmed \/ CommitFails \/ CommitIsUncertain
          \/ EndMaintenance \/ Recovered \/ NotRecovered

Next == Requests \/ Helpers \/ Begin \/ Supervise \/ Resume

Spec == Init /\ [][Next]_vars

(***************************************************************************)
(* Fairness: promises continue, deadlines pass, a helper that lives does   *)
(* what it was sent.  Nobody has to ask anything of the authority.         *)
(***************************************************************************)
FairSpec ==
    /\ Spec
    /\ WF_vars(Helpers) /\ WF_vars(Begin) /\ WF_vars(Supervise) /\ WF_vars(Resume)
-----------------------------------------------------------------------------
(***************************************************************************)
(* Properties.                                                             *)
(***************************************************************************)

StoreType ==
    /\ doc \in Document /\ lineage \in Seq(Picture)
    /\ inbox \subseteq [commit : DOMAIN commits, attempt : 1..2] /\ commits \in Seq(Commit)
PictureType == storeRevision \in Nat /\ profiles \in [Profile -> Nat] /\ activation \in Ref \cup {None}
FeedType ==
    /\ ready \in BOOLEAN /\ reconciling \in BOOLEAN /\ fallback \in BOOLEAN
    /\ generation \in Nat /\ stateVersion \in Nat
TailType ==
    /\ queue \in Seq(Operation) /\ current \in Running \cup {None}
    /\ current # None => current.commit \in DOMAIN commits \cup {0}

\* Every variable has its type.
TypeOK == StoreType /\ PictureType /\ FeedType /\ TailType /\ requests \in Nat /\ faults \in Nat

\* Whatever is lost, late or executed twice, what the authority believes is a
\* picture the document really had at the revision the authority names, and no
\* profile revision that was deleted or replaced is enabled in it.
BelievesAStoredPicture ==
    /\ IF storeRevision = 0
       THEN fallback /\ Believed = [profiles |-> Absent, activation |-> None]
       ELSE storeRevision \in DOMAIN lineage /\ Believed = lineage[storeRevision]
    /\ activation # None => Exists(activation)

\* A request answered "changed" is stored, as asked for, on top of exactly the
\* state it was prepared from.
ChangedIsStored ==
    \A i \in DOMAIN commits :
        commits[i].outcome = "changed" /\ commits[i].kind # "cleanup" =>
            /\ commits[i].base + 1 \in DOMAIN lineage
            /\ lineage[commits[i].base + 1] = commits[i].picture

\* A save answered "failed" is not stored and never will be: only errors that
\* rule out a change are reported as failures.
FailedSaveIsNotStored ==
    \A i \in DOMAIN commits : commits[i].kind = "save" /\ commits[i].outcome = "failed" =>
        /\ doc.receipt # i
        /\ \A m \in inbox : m.commit # i

\* What a window is told of its request is the truth, either way.
AnswersAreTrue == ChangedIsStored /\ FailedSaveIsNotStored

\* docs/releases/v0.1.5.md: "Failed changes preserve the previous choice."
FailedChangeIsNotStored ==
    \A i \in DOMAIN commits : commits[i].kind = "set" /\ commits[i].outcome = "failed" =>
        doc.receipt # i

\* No generation ever authorizes two different profiles, and no version is ever
\* sent to the windows with two different pictures: translations admitted under
\* the one, and windows that have seen the other, are never misled.
NumbersNameOnePicture ==
    [][/\ Effective' # Effective => generation' > generation
       /\ <<Believed, ready, generation>>' # <<Believed, ready, generation>> =>
             stateVersion' > stateVersion]_vars

\* Whatever the authority was asked for, it comes to rest in service, unless the
\* document cannot be read: no lost, late or uncertain commit leaves it
\* unavailable with nothing under way.  (After a failed read, and after a start
\* without the document, it waits until a window asks again.)
Resting == queue = <<>> /\ current = None
InService == ~Resting ~> (Resting /\ ~Unavailable) \/ At("unrecovered")
=============================================================================
