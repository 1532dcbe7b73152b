----------------------- MODULE ProfileActivationProofs -----------------------
(***************************************************************************)
(* For any profiles, windows, requests and faults: what the authority      *)
(* believes is a picture the document has had, what a window is told of    *)
(* its change is true, and a generation and a version name one picture.    *)
(*                                                                         *)
(* The argument follows one commit.  It is prepared from a picture in      *)
(* which no absent profile is enabled (CommitSound); while it runs, the    *)
(* authority's revision stays the one it was prepared from, and what a     *)
(* helper answers is a document of the lineage (RunningSound); only a      *)
(* commit no helper can still execute is refused.                          *)
(***************************************************************************)
EXTENDS ProfileActivation, SequenceTheorems, TLAPS

PictureSound(picture) ==
    picture.activation # None =>
        /\ picture.activation.revision > 0
        /\ picture.profiles[picture.activation.profile] = picture.activation.revision

\* The document was, or is, as d says.
WasStored(d) == d \in Document /\ d.revision \in DOMAIN lineage /\ PictureOf(d) = lineage[d.revision]

DocSound ==
    /\ WasStored(doc) /\ doc.revision = Len(lineage) /\ doc.receipt \in 0 .. Len(commits)
    /\ \A n \in DOMAIN lineage : PictureSound(lineage[n])

\* No helper has executed the commit or will.
NotSent(i) == doc.receipt # i /\ \A m \in inbox : m.commit # i

CommitSound(i) ==
    /\ PictureSound(commits[i].picture)
    /\ commits[i].outcome = "reserved" => commits[i].kind = "save"
    /\ commits[i].kind = "save" /\ commits[i].outcome \in {"reserved", "failed"} => NotSent(i)
    /\ commits[i].outcome = "changed" /\ commits[i].kind # "cleanup" =>
         commits[i].base + 1 \in DOMAIN lineage /\ lineage[commits[i].base + 1] = commits[i].picture
CommitsSound == \A i \in DOMAIN commits : CommitSound(i)

\* The kind of commit that an operation prepares.
KindOf(op) == CASE op.kind = "set" -> "set" [] op.kind = "delete" -> "delete"
                [] op.kind = "complete" -> "save" [] op.kind = "maintain" -> "cleanup"
Recovering == {"recover", "recovered", "unrecovered"}

RunningSound ==
    current # None =>
        LET i == current.commit
        IN  /\ current.step \in Recovering =>
                 Unavailable /\ current.op.kind \in {"reconcile", "reserve"}
            /\ current.step \notin Recovering =>
                 /\ current.op.kind \in {"set", "delete", "complete", "maintain"}
                 /\ i \in DOMAIN commits /\ commits[i].outcome = "waiting"
                 /\ commits[i].base = storeRevision /\ commits[i].kind = KindOf(current.op)
            /\ current.step \in {"committed", "recovered"} => WasStored(current.seen)
            /\ current.step = "send" /\ current.attempt = 1 => NotSent(i)
            /\ current.step = "wait" /\ current.attempt = 1 => \A m \in inbox : m.commit = i => m.attempt = 1
            /\ current.step = "rejected" => NotSent(i)

\* An authority out of service has a commit under way or in doubt, or was started
\* without the store.
ReadySound == ready \/ reconciling \/ IsMutation \/ (fallback /\ generation = 0)

Sound == /\ DocSound /\ BelievesAStoredPicture /\ CommitsSound /\ RunningSound /\ ReadySound
AuthorityInv == TypeOK /\ Sound
-----------------------------------------------------------------------------
(* What changes in the table of commits. *)

Outcome == {"reserved", "dropped", "waiting", "changed", "failed", "pending"}

\* A commit is prepared once: only its outcome changes.
Kin(j) == /\ j \in DOMAIN commits /\ j \in DOMAIN commits'
          /\ commits'[j].kind = commits[j].kind /\ commits'[j].base = commits[j].base
          /\ commits'[j].picture = commits[j].picture

LEMMA OutcomeSet ==
    ASSUME commits \in Seq(Commit), NEW i \in DOMAIN commits, NEW o \in Outcome,
           commits' = [commits EXCEPT ![i].outcome = o]
    PROVE  /\ commits' \in Seq(Commit) /\ DOMAIN commits' = DOMAIN commits /\ Len(commits') = Len(commits)
           /\ \A j \in DOMAIN commits : Kin(j)
           /\ \A j \in DOMAIN commits : commits'[j].outcome = IF j = i THEN o ELSE commits[j].outcome
  <1> DEFINE e == [commits[i] EXCEPT !.outcome = o]
  <1>1. i \in 1 .. Len(commits) /\ DOMAIN commits = 1 .. Len(commits) /\ commits[i] \in Commit
    BY ElementOfSeq, LenProperties
  <1>2. e \in Commit /\ e.outcome = o /\ e.kind = commits[i].kind /\ e.base = commits[i].base
        /\ e.picture = commits[i].picture
    BY <1>1 DEF Commit, Outcome
  <1>3. commits' = [commits EXCEPT ![i] = e]
    OBVIOUS
  <1> HIDE DEF e
  <1>4. /\ commits' \in Seq(Commit) /\ Len(commits') = Len(commits)
        /\ \A j \in 1 .. Len(commits) : commits'[j] = IF j = i THEN e ELSE commits[j]
    BY <1>1, <1>2, <1>3, ExceptSeq
  <1>5. DOMAIN commits' = 1 .. Len(commits)
    BY <1>4, LenProperties
  <1> QED
    BY <1>1, <1>2, <1>4, <1>5 DEF Kin

LEMMA CommitAdded ==
    ASSUME commits \in Seq(Commit), NEW e \in Commit, commits' = Append(commits, e)
    PROVE  /\ commits' \in Seq(Commit) /\ Len(commits') = Len(commits) + 1
           /\ DOMAIN commits' = DOMAIN commits \cup {Len(commits) + 1}
           /\ Len(commits) + 1 \notin DOMAIN commits /\ commits'[Len(commits) + 1] = e
           /\ \A j \in DOMAIN commits : Kin(j) /\ commits'[j] = commits[j]
  <1>1. commits' \in Seq(Commit) /\ Len(commits') = Len(commits) + 1 /\ Len(commits) \in Nat
        /\ commits'[Len(commits) + 1] = e /\ \A j \in 1 .. Len(commits) : commits'[j] = commits[j]
    OBVIOUS
  <1>2. DOMAIN commits = 1 .. Len(commits) /\ DOMAIN commits' = 1 .. Len(commits) + 1
    BY <1>1, LenProperties
  <1> QED
    BY <1>1, <1>2 DEF Kin

\* Reservations of some set are dropped.
LEMMA Dropped ==
    ASSUME commits \in Seq(Commit), NEW P, NEW s,
           s = [i \in DOMAIN commits |-> IF i \in P THEN [commits[i] EXCEPT !.outcome = "dropped"] ELSE commits[i]]
    PROVE  /\ s \in Seq(Commit) /\ Len(s) = Len(commits) /\ DOMAIN s = DOMAIN commits
           /\ \A j \in DOMAIN commits :
                /\ s[j].kind = commits[j].kind /\ s[j].base = commits[j].base
                /\ s[j].picture = commits[j].picture
                /\ s[j].outcome = IF j \in P THEN "dropped" ELSE commits[j].outcome
  <1>1. Len(commits) \in Nat /\ DOMAIN commits = 1 .. Len(commits)
        /\ \A j \in DOMAIN commits : commits[j] \in Commit
    BY ElementOfSeq, LenProperties
  <1>2. ASSUME NEW e \in Commit
        PROVE  [e EXCEPT !.outcome = "dropped"] \in Commit
    BY <1>2 DEF Commit
  <1>3. s \in [1 .. Len(commits) -> Commit]
    BY <1>1, <1>2
  <1>4. s \in Seq(Commit)
    BY <1>1, <1>3, SeqDef
  <1>5. Len(s) = Len(commits) /\ DOMAIN s = DOMAIN commits
    BY <1>1, <1>3, <1>4, LenProperties
  <1>6. ASSUME NEW j \in DOMAIN commits
        PROVE  /\ s[j].kind = commits[j].kind /\ s[j].base = commits[j].base
               /\ s[j].picture = commits[j].picture
               /\ s[j].outcome = IF j \in P THEN "dropped" ELSE commits[j].outcome
    BY <1>1 DEF Commit
  <1> QED
    BY <1>4, <1>5, <1>6
-----------------------------------------------------------------------------
(* The types. *)

LEMMA QueueGrows ==
    ASSUME queue \in Seq(Operation), NEW op \in Operation
    PROVE  /\ Append(queue, op) \in Seq(Operation)
           /\ <<op>> \in Seq(Operation) /\ <<op>> \o queue \in Seq(Operation)
           /\ queue # <<>> => /\ Head(queue) \in Operation /\ Tail(queue) \in Seq(Operation)
                              /\ Append(Tail(queue), op) \in Seq(Operation)
  <1>1. queue # <<>> => Head(queue) \in Operation /\ Tail(queue) \in Seq(Operation)
    BY HeadTailProperties
  <1>2. <<op>> \in Seq(Operation)
    OBVIOUS
  <1> QED
    BY <1>1, <1>2, ConcatProperties

LEMMA ReconcileType == Reconcile \in Operation
  BY DEF Reconcile, Operation

\* Steps that change the queue only.
LEMMA QueueTypes ==
    ASSUME TypeOK, queue' \in Seq(Operation), requests' \in Nat,
           UNCHANGED <<storeVars, commits, pictureVars, feedVars, current, faults>>
    PROVE  TypeOK'
  BY DEF TypeOK, StoreType, PictureType, FeedType, TailType, storeVars, pictureVars, feedVars

LEMMA RequestTypes ==
    ASSUME TypeOK, Requests
    PROVE  TypeOK'
  <1>1. commits \in Seq(Commit) /\ queue \in Seq(Operation)
    BY DEF TypeOK, StoreType, TailType
  <1>2. ASSUME NEW op \in Operation, Request(op) PROVE TypeOK'
    <2>1. queue' \in Seq(Operation) /\ requests' \in Nat
      BY <1>1, <1>2, QueueGrows DEF Request, TypeOK
    <2> QED
      BY <1>2, <2>1, QueueTypes DEF Request
  <1>3. Seen \subseteq Ref
    BY DEF Seen, Ref
  <1>4. Savable \subseteq Ref
    <2>1. \A r \in Seen : [r EXCEPT !.revision = @ + 1] \in Ref
      BY <1>3 DEF Ref
    <2>2. [profile : Unused, revision : {1}] \subseteq Ref
      BY DEF Unused, Ref
    <2> QED
      BY <2>1, <2>2 DEF Savable
  <1>5. ASSUME NEW w \in Window, NEW r \in Seen, NEW on \in BOOLEAN, RequestSet(w, r, on) PROVE TypeOK'
    <2>1. [kind |-> "set", window |-> w, ref |-> r, on |-> on] \in Operation
      BY <1>3 DEF Operation
    <2> QED
      BY <1>2, <1>5, <2>1, ReconcileType DEF RequestSet
  <1>6. ASSUME NEW r \in Seen, RequestDelete(r) PROVE TypeOK'
    <2>1. [kind |-> "delete", ref |-> r] \in Operation
      BY <1>3 DEF Operation
    <2> QED
      BY <1>2, <1>6, <2>1, ReconcileType DEF RequestDelete
  <1>7. ASSUME NEW w \in Window, NEW r \in Savable, RequestReserve(w, r) PROVE TypeOK'
    <2>1. [kind |-> "reserve", window |-> w, ref |-> r] \in Operation
      BY <1>4 DEF Operation
    <2> QED
      BY <1>2, <1>7, <2>1 DEF RequestReserve
  <1>8. ASSUME NEW i \in Reserved, RequestComplete(i) PROVE TypeOK'
    <2>1. i \in Nat
      BY <1>1, LenProperties DEF Reserved
    <2>2. [kind |-> "complete", commit |-> i] \in Operation
      BY <2>1 DEF Operation
    <2> QED
      BY <1>2, <1>8, <2>2, ReconcileType DEF RequestComplete
  <1>9. ASSUME NEW i \in Reserved, CancelReservation(i) PROVE TypeOK'
    <2>1. i \in DOMAIN commits /\ "dropped" \in Outcome
      BY DEF Reserved, Outcome
    <2>2. commits' \in Seq(Commit) /\ DOMAIN commits' = DOMAIN commits
      BY <1>1, <1>9, <2>1, OutcomeSet DEF CancelReservation
    <2> QED
      BY <1>9, <2>2 DEF CancelReservation, TypeOK, StoreType, PictureType, FeedType, TailType,
                        storeVars, pictureVars, feedVars
  <1>10. CASE RequestReconcile
    <2>1. queue' \in Seq(Operation)
      BY <1>1, <1>10, ReconcileType, QueueGrows DEF RequestReconcile
    <2> QED
      BY <1>10, <2>1, QueueTypes DEF RequestReconcile, TypeOK
  <1> QED
    BY <1>5, <1>6, <1>7, <1>8, <1>9, <1>10 DEF Requests

LEMMA OperationFields ==
    ASSUME NEW op \in Operation
    PROVE  /\ op.kind = "set" => op.ref \in Ref /\ op.window \in Window /\ op.on \in BOOLEAN
           /\ op.kind = "delete" => op.ref \in Ref
           /\ op.kind = "reserve" => op.ref \in Ref /\ op.window \in Window
           /\ op.kind = "complete" => op.commit \in Nat
  BY DEF Operation

LEMMA WithoutType ==
    ASSUME PictureType, NEW p \in Profile
    PROVE  Without(p) \in Ref \cup {None}
  BY DEF PictureType, Without

LEMMA NewCommitTypes ==
    ASSUME TypeOK, NEW kind \in {"set", "delete", "save", "cleanup"}, NEW owner \in Window \cup {None},
           NEW picture \in Picture, NEW outcome \in {"reserved", "waiting"}
    PROVE  [kind |-> kind, owner |-> owner, base |-> storeRevision, picture |-> picture,
            outcome |-> outcome] \in Commit
  BY DEF TypeOK, PictureType, Commit

\* Steps that start to await the store.
LEMMA AwaitTypes ==
    ASSUME TypeOK, NEW op \in Operation, NEW c \in Nat, NEW step \in Step, Await(op, c, step),
           commits' \in Seq(Commit), DOMAIN commits \subseteq DOMAIN commits', c \in DOMAIN commits' \cup {0},
           queue' \in Seq(Operation), ready' \in BOOLEAN, stateVersion' \in Nat,
           UNCHANGED <<storeVars, pictureVars, reconciling, generation, fallback, requests, faults>>
    PROVE  TypeOK'
  <1>1. current' \in Running /\ current'.commit = c
    BY DEF Await, Running
  <1>2. TailType'
    BY <1>1 DEF TailType
  <1>3. StoreType'
    BY DEF TypeOK, StoreType, storeVars
  <1>4. PictureType' /\ FeedType'
    BY DEF TypeOK, PictureType, FeedType, pictureVars
  <1> QED
    BY <1>2, <1>3, <1>4 DEF TypeOK

LEMMA AtHeadTypes ==
    ASSUME TypeOK, NEW kind, AtHead(kind)
    PROVE  /\ Head(queue) \in Operation /\ Tail(queue) \in Seq(Operation)
           /\ Append(Tail(queue), Reconcile) \in Seq(Operation)
           /\ Head(queue).kind = kind
  BY QueueGrows, ReconcileType DEF TypeOK, TailType, AtHead

LEMMA SkipTypes ==
    ASSUME TypeOK, Tail(queue) \in Seq(Operation), Append(Tail(queue), Reconcile) \in Seq(Operation),
           Skip \/ AnswerPending
    PROVE  TypeOK'
  <1>1. queue' \in Seq(Operation) /\ requests' \in Nat
    BY DEF Skip, AnswerPending, TypeOK
  <1> QED
    BY <1>1, QueueTypes DEF Skip, AnswerPending

LEMMA BeginCommitTypes ==
    ASSUME TypeOK, NEW op \in Operation, NEW c \in Nat, BeginCommit(op, c), Tail(queue) \in Seq(Operation),
           commits' \in Seq(Commit), DOMAIN commits \subseteq DOMAIN commits', c \in DOMAIN commits'
    PROVE  TypeOK'
  <1>1. Await(op, c, "send") /\ "send" \in Step
    BY DEF BeginCommit, Step
  <1>2. queue' \in Seq(Operation) /\ stateVersion' \in Nat
    BY DEF BeginCommit, TypeOK, FeedType
  <1>4. ready' \in BOOLEAN
    BY Zenon DEF BeginCommit
  <1>3. UNCHANGED <<storeVars, pictureVars, reconciling, generation, fallback, requests, faults>>
    BY DEF BeginCommit
  <1> QED
    BY <1>1, <1>2, <1>3, <1>4, AwaitTypes

LEMMA BeginTypes ==
    ASSUME TypeOK, Begin
    PROVE  TypeOK'
  <1>1. commits \in Seq(Commit) /\ Len(commits) \in Nat /\ DOMAIN commits = 1 .. Len(commits)
    BY LenProperties DEF TypeOK, StoreType
  <1>2. ASSUME NEW op \in Operation, NEW k \in {"set", "delete", "cleanup"}, NEW o \in Window \cup {None},
               NEW picture \in Picture, commits' = NewCommit(k, o, picture)
        PROVE  commits' \in Seq(Commit) /\ DOMAIN commits \subseteq DOMAIN commits'
               /\ Len(commits) + 1 \in DOMAIN commits' /\ Len(commits) + 1 \in Nat
    <2> DEFINE e == [kind |-> k, owner |-> o, base |-> storeRevision, picture |-> picture, outcome |-> "waiting"]
    <2>1. e \in Commit
      BY NewCommitTypes
    <2>2. commits' = Append(commits, e)
      BY <1>2 DEF NewCommit
    <2> HIDE DEF e
    <2> QED
      BY <1>1, <2>1, <2>2, CommitAdded
  <1> DEFINE op == Head(queue)
  <1>3. Believed \in Picture
    BY DEF Believed, Picture, TypeOK, PictureType
  <1>4. CASE BeginSet
    <2>1. op \in Operation /\ Tail(queue) \in Seq(Operation) /\ Append(Tail(queue), Reconcile) \in Seq(Operation)
          /\ op.kind = "set"
      BY <1>4, AtHeadTypes DEF BeginSet
    <2>2. op.ref \in Ref /\ op.window \in Window
      BY <2>1, OperationFields
    <2> DEFINE candidate == IF op.on THEN op.ref ELSE None
               picture == [Believed EXCEPT !.activation = candidate]
    <2>3. picture \in Picture
      BY <1>3, <2>2 DEF Picture
    <2>4. CASE Skip \/ AnswerPending
      BY <2>1, <2>4, SkipTypes
    <2>5. CASE commits' = NewCommit("set", op.window, picture) /\ BeginCommit(op, Len(commits) + 1)
      BY <2>1, <2>2, <2>3, <2>5, <1>2, BeginCommitTypes
    <2> QED
      BY <1>4, <2>4, <2>5 DEF BeginSet
  <1>5. CASE BeginDelete
    <2>1. op \in Operation /\ Tail(queue) \in Seq(Operation) /\ Append(Tail(queue), Reconcile) \in Seq(Operation)
          /\ op.kind = "delete"
      BY <1>5, AtHeadTypes DEF BeginDelete
    <2>2. op.ref.profile \in Profile
      BY <2>1, OperationFields DEF Ref
    <2> DEFINE left == [profiles |-> [profiles EXCEPT ![op.ref.profile] = 0], activation |-> Without(op.ref.profile)]
    <2>3. left \in Picture
      BY <2>2, WithoutType DEF Picture, TypeOK, PictureType
    <2>4. CASE Skip \/ AnswerPending
      BY <2>1, <2>4, SkipTypes
    <2>5. CASE commits' = NewCommit("delete", None, left) /\ BeginCommit(op, Len(commits) + 1)
      BY <2>1, <2>2, <2>3, <2>5, <1>2, BeginCommitTypes
    <2> QED
      BY <1>5, <2>4, <2>5 DEF BeginDelete
  <1>6. CASE BeginSave
    <2>1. op \in Operation /\ Tail(queue) \in Seq(Operation) /\ Append(Tail(queue), Reconcile) \in Seq(Operation)
      BY <1>6, AtHeadTypes DEF BeginSave
    <2>2. CASE Skip \/ AnswerPending
      BY <2>1, <2>2, SkipTypes
    <2>3. ASSUME op.commit \in Reserved, NEW o \in Outcome, commits' = [commits EXCEPT ![op.commit].outcome = o]
          PROVE  commits' \in Seq(Commit) /\ DOMAIN commits' = DOMAIN commits /\ op.commit \in DOMAIN commits
      BY <1>1, <2>3, OutcomeSet DEF Reserved
    <2>4. CASE op.commit \in Reserved /\ commits' = [commits EXCEPT ![op.commit].outcome = "failed"]
               /\ queue' = Tail(queue)
               /\ UNCHANGED <<storeVars, pictureVars, feedVars, current, requests, faults>>
      <3>1. commits' \in Seq(Commit) /\ DOMAIN commits' = DOMAIN commits
        BY <2>3, <2>4 DEF Outcome
      <3> QED
        BY <2>1, <2>4, <3>1 DEF TypeOK, StoreType, PictureType, FeedType, TailType, storeVars, pictureVars, feedVars
    <2>5. CASE op.commit \in Reserved /\ commits' = [commits EXCEPT ![op.commit].outcome = "waiting"]
               /\ BeginCommit(op, op.commit)
      <3>1. commits' \in Seq(Commit) /\ DOMAIN commits' = DOMAIN commits /\ op.commit \in DOMAIN commits
        BY <2>3, <2>5 DEF Outcome
      <3> QED
        BY <1>1, <2>1, <2>5, <3>1, BeginCommitTypes
    <2> QED
      BY <1>6, <2>2, <2>4, <2>5 DEF BeginSave
  <1>7. CASE BeginReserve
    <2>1. op \in Operation /\ Tail(queue) \in Seq(Operation) /\ op.kind = "reserve"
      BY <1>7, AtHeadTypes DEF BeginReserve
    <2>2. op.ref \in Ref /\ op.window \in Window /\ op.ref.profile \in Profile /\ op.ref.revision \in Nat
      BY <2>1, OperationFields DEF Ref
    <2>3. commits' \in Seq(Commit) /\ DOMAIN commits \subseteq DOMAIN commits'
      <3> DEFINE P == {i \in Reserved : commits[i].owner = op.window}
                 kept == [i \in DOMAIN commits |-> IF i \in P THEN [commits[i] EXCEPT !.outcome = "dropped"] ELSE commits[i]]
                 new == [kind |-> "save", owner |-> op.window, base |-> storeRevision,
                         picture |-> [profiles |-> [profiles EXCEPT ![op.ref.profile] = op.ref.revision],
                                      activation |-> Without(op.ref.profile)],
                         outcome |-> "reserved"]
      <3>1. kept \in Seq(Commit) /\ DOMAIN kept = DOMAIN commits
        BY <1>1, Dropped
      <3>2. new \in Commit
        <4>1. new.picture \in Picture
          BY <2>2, WithoutType DEF Picture, TypeOK, PictureType
        <4> QED
          BY <2>2, <4>1, NewCommitTypes
      <3>3. kept = [i \in DOMAIN commits |->
                      IF i \in Reserved /\ commits[i].owner = op.window
                      THEN [commits[i] EXCEPT !.outcome = "dropped"] ELSE commits[i]]
        OBVIOUS
      <3>4. commits' = kept \/ commits' = Append(kept, new)
        BY <1>7, <3>3 DEF BeginReserve, MakeReservation
      <3> HIDE DEF kept, new
      <3>5. Append(kept, new) \in Seq(Commit) /\ DOMAIN kept \subseteq DOMAIN Append(kept, new)
        BY <3>1, <3>2, LenProperties, AppendProperties
      <3> QED
        BY <3>1, <3>4, <3>5
    <2> QED
      BY <1>7, <2>1, <2>3 DEF BeginReserve, TypeOK, StoreType, PictureType, FeedType, TailType,
                              storeVars, pictureVars, feedVars
  <1>8. CASE BeginRecovery
    <2>1. op \in Operation /\ Tail(queue) \in Seq(Operation) /\ Append(Tail(queue), Reconcile) \in Seq(Operation)
      BY <1>8, AtHeadTypes DEF BeginRecovery
    <2>2. CASE Skip
      BY <2>1, <2>2, SkipTypes
    <2>3. CASE Await(op, 0, "recover") /\ queue' = Tail(queue)
               /\ UNCHANGED <<storeVars, commits, pictureVars, feedVars, requests, faults>>
      <3>1. "recover" \in Step /\ 0 \in Nat
        BY DEF Step
      <3>2. ready' \in BOOLEAN /\ stateVersion' \in Nat /\ UNCHANGED <<reconciling, generation, fallback>>
        BY <2>3 DEF feedVars, TypeOK, FeedType
      <3> QED
        BY <1>1, <2>1, <2>3, <3>1, <3>2, AwaitTypes
    <2> QED
      BY <1>8, <2>2, <2>3 DEF BeginRecovery
  <1>9. CASE BeginMaintenance
    <2>1. op \in Operation /\ Tail(queue) \in Seq(Operation)
      BY <1>9, AtHeadTypes DEF BeginMaintenance
    <2>2. commits' \in Seq(Commit) /\ DOMAIN commits \subseteq DOMAIN commits'
               /\ Len(commits) + 1 \in DOMAIN commits' /\ Len(commits) + 1 \in Nat
      BY <1>2, <1>3, <1>9, <2>1 DEF BeginMaintenance
    <2>3. "send" \in Step
      BY DEF Step
    <2>4. ready' \in BOOLEAN /\ stateVersion' \in Nat /\ UNCHANGED <<reconciling, generation, fallback>>
      BY <1>9 DEF BeginMaintenance, feedVars, TypeOK, FeedType
    <2> QED
      BY <1>9, <2>1, <2>2, <2>3, <2>4, AwaitTypes DEF BeginMaintenance
  <1> QED
    BY <1>4, <1>5, <1>6, <1>7, <1>8, <1>9 DEF Begin
-----------------------------------------------------------------------------
(* What a step of the supervisor or of a helper does. *)

LEMMA StepMoves ==
    ASSUME NEW c \in Running, NEW s \in Step, NEW d, d = [c EXCEPT !.step = s]
    PROVE  /\ d \in Running /\ d.op = c.op /\ d.commit = c.commit
           /\ d.step = s /\ d.attempt = c.attempt
  BY DEF Running

SameCall == /\ current # None /\ current \in Running /\ current' \in Running
            /\ current'.op = current.op /\ current'.commit = current.commit

\* The attempt has failed, or has been given up.
NextAttempt == \/ current'.step = "send" /\ current'.attempt = 2
               \/ current'.step \in {"thrown", "read", "reconciling"}

LEMMA TriesAgain ==
    ASSUME TypeOK, current # None, current' = TryAgain
    PROVE  SameCall /\ NextAttempt
  <1>1. current \in Running /\ "read" \in Step
    BY DEF TypeOK, TailType, Step
  <1>2. CASE current.attempt = 1
    <2>1. current' = [current EXCEPT !.attempt = 2, !.step = "send"]
      BY <1>2 DEF TryAgain
    <2>2. /\ current' \in Running /\ current'.op = current.op /\ current'.commit = current.commit
          /\ current'.step = "send" /\ current'.attempt = 2
      <3>1. current' = [op |-> current.op, commit |-> current.commit, attempt |-> 2, step |-> "send",
                        seen |-> current.seen]
        BY <1>1, <2>1 DEF Running
      <3>2. current' \in Running
        BY <1>1, <3>1 DEF Running, Step
      <3> QED
        BY <3>1, <3>2
    <2> QED
      BY <1>1, <2>2 DEF SameCall, NextAttempt
  <1>3. CASE current.attempt # 1
    <2>1. current' = [current EXCEPT !.step = "read"]
      BY <1>3 DEF TryAgain
    <2> QED
      BY <1>1, <2>1, StepMoves DEF SameCall, NextAttempt
  <1> QED
    BY <1>2, <1>3

LEMMA Moves ==
    ASSUME TypeOK, current # None, NEW s \in Step, current' = [current EXCEPT !.step = s]
    PROVE  SameCall /\ current'.step = s /\ current'.attempt = current.attempt
  BY StepMoves DEF TypeOK, TailType, SameCall

SupervisorSends ==
    /\ current.step = "send" /\ current'.step = "wait" /\ current'.attempt = current.attempt
    /\ inbox' = inbox \cup {Message}
SupervisorGivesUp ==
    /\ current.step \in {"send", "wait", "read"} /\ NextAttempt /\ inbox' = inbox
SupervisorReads ==
    /\ current.step = "recover" /\ inbox' = inbox
    /\ \/ current'.step = "recovered" /\ current'.seen = doc
       \/ current'.step = "unrecovered"

LEMMA SuperviseEffect ==
    ASSUME TypeOK, Supervise
    PROVE  /\ UNCHANGED <<doc, lineage, commits, pictureVars, feedVars, queue, requests>> /\ faults' \in Nat
           /\ SameCall /\ (SupervisorSends \/ SupervisorGivesUp \/ SupervisorReads)
  <1>1. UNCHANGED <<doc, lineage, commits, pictureVars, feedVars, queue, requests>>
    BY DEF Supervise, Send, NoHelper, AttemptTimesOut, ReadBack, ReadForRecovery, OnlyStep, storeVars
  <1>2. faults' \in Nat
    <2>1. faults \in Nat
      BY DEF TypeOK
    <2> QED
      BY <2>1 DEF Supervise, Send, NoHelper, AttemptTimesOut, ReadBack, ReadForRecovery, Fault
  <1>3. {"wait", "thrown", "reconciling", "recovered", "unrecovered"} \subseteq Step
    BY DEF Step
  <1>4. CASE Send
    <2>1. current # None /\ current.step = "send" /\ inbox' = inbox \cup {Message}
          /\ current' = [current EXCEPT !.step = "wait"]
      BY <1>4 DEF Send, At
    <2> QED
      BY <1>1, <1>2, <1>3, <2>1, Moves DEF SupervisorSends
  <1>5. CASE NoHelper
    <2>1. current # None /\ current.step \in {"send", "wait", "read"} /\ inbox' = inbox
          /\ current' = [current EXCEPT !.step = "thrown"]
      BY <1>5 DEF NoHelper, At, storeVars
    <2> QED
      BY <1>1, <1>2, <1>3, <2>1, Moves DEF SupervisorGivesUp, NextAttempt
  <1>6. CASE AttemptTimesOut
    <2>1. current # None /\ current.step \in {"send", "wait", "read"} /\ inbox' = inbox /\ current' = TryAgain
      BY <1>6 DEF AttemptTimesOut, At, storeVars
    <2> QED
      BY <1>1, <1>2, <2>1, TriesAgain DEF SupervisorGivesUp
  <1>7. CASE ReadBack
    <2>1. current # None /\ current.step \in {"send", "wait", "read"} /\ inbox' = inbox
          /\ current' = [current EXCEPT !.step = "reconciling"]
      BY <1>7 DEF ReadBack, At, storeVars
    <2> QED
      BY <1>1, <1>2, <1>3, <2>1, Moves DEF SupervisorGivesUp, NextAttempt
  <1>8. CASE ReadForRecovery
    <2>1. current # None /\ current.step = "recover" /\ inbox' = inbox
      BY <1>8 DEF ReadForRecovery, At, storeVars
    <2>2. current \in Running /\ doc \in Document
      BY <2>1 DEF TypeOK, TailType, StoreType
    <2>3. CASE current' = [current EXCEPT !.step = "recovered", !.seen = doc]
      <3>1. /\ current' \in Running /\ current'.op = current.op /\ current'.commit = current.commit
            /\ current'.step = "recovered" /\ current'.seen = doc
        <4>1. current' = [op |-> current.op, commit |-> current.commit, attempt |-> current.attempt,
                          step |-> "recovered", seen |-> doc]
          BY <2>2, <2>3 DEF Running
        <4>2. current' \in Running
          BY <1>3, <2>2, <4>1 DEF Running
        <4> QED
          BY <4>1, <4>2
      <3> QED
        BY <1>1, <1>2, <2>1, <2>2, <3>1 DEF SupervisorReads, SameCall
    <2>4. CASE current' = [current EXCEPT !.step = "unrecovered"]
      BY <1>1, <1>2, <1>3, <2>1, <2>4, Moves DEF SupervisorReads
    <2> QED
      BY <1>8, <2>3, <2>4 DEF ReadForRecovery
  <1> QED
    BY <1>4, <1>5, <1>6, <1>7, <1>8 DEF Supervise

LEMMA SuperviseTypes ==
    ASSUME TypeOK, RunningSound, Supervise
    PROVE  TypeOK'
  <1>1. /\ UNCHANGED <<doc, lineage, commits, pictureVars, feedVars, queue, requests>> /\ faults' \in Nat
        /\ SameCall /\ (SupervisorSends \/ SupervisorGivesUp \/ SupervisorReads)
    BY SuperviseEffect
  <1>2. inbox' \subseteq [commit : DOMAIN commits, attempt : 1..2]
    <2>1. inbox \subseteq [commit : DOMAIN commits, attempt : 1..2]
      BY DEF TypeOK, StoreType
    <2>2. CASE SupervisorSends
      <3>1. current.commit \in DOMAIN commits /\ current.attempt \in 1..2
        BY <1>1, <2>2 DEF SupervisorSends, SameCall, RunningSound, Recovering, Running
      <3> QED
        BY <2>1, <2>2, <3>1 DEF SupervisorSends, Message
    <2> QED
      BY <1>1, <2>1, <2>2 DEF SupervisorGivesUp, SupervisorReads
  <1>3. StoreType'
    BY <1>1, <1>2 DEF TypeOK, StoreType
  <1>4. TailType'
    BY <1>1 DEF TypeOK, TailType, SameCall
  <1>5. PictureType' /\ FeedType'
    BY <1>1 DEF TypeOK, PictureType, FeedType, pictureVars, feedVars
  <1> QED
    BY <1>1, <1>3, <1>4, <1>5 DEF TypeOK

\* A helper has stored something for the commit, or nothing.
HelperStores(m) ==
    \/ doc' = doc /\ lineage' = lineage
    \/ /\ doc' \in Document /\ doc'.receipt = m.commit /\ doc'.revision = doc.revision + 1
       /\ PictureOf(doc') \in Picture /\ lineage' = Append(lineage, PictureOf(doc'))
       /\ PictureSound(PictureOf(doc'))

\* It has answered the supervisor, or nobody.
HelperAnswers(m) ==
    \/ current' = current
    \/ /\ SameCall /\ current.step = "wait" /\ Message = m
       /\ \/ current'.step = "committed" /\ current'.seen = doc'
          \/ current'.step = "rejected" /\ current.attempt = 1 /\ doc.receipt # m.commit /\ doc' = doc
          \/ NextAttempt

LEMMA Replies ==
    ASSUME TypeOK, NEW m, NEW answer \in {"committed", "unconfirmed", "lost"}, NEW e,
           e = doc', doc' \in Document, Reply(m, answer, e)
    PROVE  HelperAnswers(m)
  <1>1. {"committed", "rejected", "thrown"} \subseteq Step
    BY DEF Step
  <1>2. CASE ~(At("wait") /\ Message = m)
    BY <1>2 DEF Reply, HelperAnswers
  <1>3. CASE At("wait") /\ Message = m
    <2>1. current # None /\ current.step = "wait" /\ Message = m /\ current \in Running
      BY <1>3 DEF At, TypeOK, TailType
    <2>2. CASE answer = "committed"
      <3>1. current' = [current EXCEPT !.step = "committed", !.seen = e]
        BY <1>3, <2>2 DEF Reply
      <3>2. current' = [op |-> current.op, commit |-> current.commit, attempt |-> current.attempt,
                        step |-> "committed", seen |-> e]
        BY <2>1, <3>1 DEF Running
      <3>3. current' \in Running
        BY <1>1, <2>1, <3>2 DEF Running
      <3> QED
        BY <2>1, <3>2, <3>3 DEF HelperAnswers, SameCall
    <2>3. CASE answer = "unconfirmed"
      <3>1. current' = TryAgain
        BY <1>3, <2>3 DEF Reply
      <3> QED
        BY <2>1, <3>1, TriesAgain DEF HelperAnswers
    <2>4. CASE answer = "lost"
      BY <1>3, <2>4 DEF Reply, HelperAnswers
    <2> QED
      BY <2>2, <2>3, <2>4
  <1> QED
    BY <1>2, <1>3

LEMMA RepliesNothingStored ==
    ASSUME TypeOK, NEW m, NEW answer \in {"conflict", "unavailable"}, NEW e, Reply(m, answer, e),
           answer = "conflict" => doc.receipt # m.commit, doc' = doc
    PROVE  HelperAnswers(m)
  <1>1. {"committed", "rejected", "thrown"} \subseteq Step
    BY DEF Step
  <1>2. CASE ~(At("wait") /\ Message = m)
    BY <1>2 DEF Reply, HelperAnswers
  <1>3. CASE At("wait") /\ Message = m
    <2>1. current # None /\ current.step = "wait" /\ Message = m
      BY <1>3 DEF At
    <2>2. CASE current.attempt # 1
      <3>1. current' = TryAgain
        BY <1>3, <2>2 DEF Reply
      <3> QED
        BY <2>1, <3>1, TriesAgain DEF HelperAnswers
    <2>3. CASE current.attempt = 1 /\ answer = "conflict"
      <3>1. current' = [current EXCEPT !.step = "rejected"]
        BY <1>3, <2>3 DEF Reply
      <3> QED
        BY <1>1, <2>1, <2>3, <3>1, Moves DEF HelperAnswers
    <2>4. CASE current.attempt = 1 /\ answer = "unavailable"
      <3>1. current' = [current EXCEPT !.step = "thrown"]
        BY <1>3, <2>4 DEF Reply
      <3> QED
        BY <1>1, <2>1, <3>1, Moves DEF HelperAnswers, NextAttempt
    <2> QED
      BY <2>2, <2>3, <2>4
  <1> QED
    BY <1>2, <1>3

LEMMA HelpersEffect ==
    ASSUME TypeOK, DocSound, CommitsSound, Helpers
    PROVE  \E m \in inbox :
             /\ m.commit \in DOMAIN commits /\ inbox' = inbox \ {m}
             /\ UNCHANGED <<commits, pictureVars, feedVars, queue, requests>> /\ faults' \in Nat
             /\ HelperStores(m) /\ HelperAnswers(m)
  <1>1. PICK m \in inbox :
          \/ \E answer \in Confirmation : Confirm(m, answer) \/ Store(m, answer) \/ Clean(m, answer)
          \/ Refuse(m) \/ FailToStore(m) \/ LoseRequest(m)
    BY DEF Helpers
  <1>2. m.commit \in DOMAIN commits /\ doc \in Document /\ faults \in Nat
        /\ commits[m.commit] \in Commit
    BY ElementOfSeq, LenProperties DEF TypeOK, StoreType
  <1>3. ASSUME NEW answer, Execute(m, answer)
        PROVE  inbox' = inbox \ {m} /\ UNCHANGED <<commits, pictureVars, feedVars, queue, requests>> /\ faults' \in Nat
    BY <1>2, <1>3 DEF Execute, OnlyStep, Fault
  <1>4. ASSUME NEW answer \in Confirmation, Confirm(m, answer)
        PROVE  HelperStores(m) /\ HelperAnswers(m)
    <2>1. doc' = doc /\ lineage' = lineage /\ Reply(m, answer, doc)
      BY <1>4 DEF Confirm
    <2> QED
      BY <1>2, <1>4, <2>1, Replies DEF HelperStores, Confirmation
  <1>5. ASSUME NEW answer \in Confirmation, Store(m, answer)
        PROVE  HelperStores(m) /\ HelperAnswers(m)
    <2> DEFINE new == commits[m.commit].picture
    <2>1. /\ doc' = [doc EXCEPT !.revision = @ + 1, !.receipt = m.commit,
                                !.profiles = new.profiles, !.activation = new.activation]
          /\ lineage' = Append(lineage, new) /\ Reply(m, answer, doc')
      BY <1>5 DEF Store
    <2>2. new \in Picture /\ PictureSound(new) /\ m.commit \in Nat
      <3>1. m.commit \in Nat
        BY <1>2, LenProperties DEF TypeOK, StoreType
      <3> QED
        BY <1>2, <3>1 DEF CommitsSound, CommitSound, Commit
    <2> HIDE DEF new
    <2>3. doc' = [revision |-> doc.revision + 1, receipt |-> m.commit, profiles |-> new.profiles,
                  activation |-> new.activation, migrating |-> doc.migrating]
      BY <1>2, <2>1 DEF Document
    <2>4. doc' \in Document
      BY <1>2, <2>2, <2>3 DEF Document, Picture
    <2>5. doc'.receipt = m.commit /\ doc'.revision = doc.revision + 1
          /\ doc'.profiles = new.profiles /\ doc'.activation = new.activation
      BY <2>3
    <2>6. PictureOf(doc') = new
      BY <2>2, <2>5 DEF PictureOf, Picture
    <2>7. HelperStores(m)
      BY <2>1, <2>2, <2>4, <2>5, <2>6 DEF HelperStores
    <2> QED
      BY <1>5, <2>1, <2>4, <2>7, Replies DEF Confirmation
  <1>6. ASSUME NEW answer \in Confirmation, Clean(m, answer)
        PROVE  HelperStores(m) /\ HelperAnswers(m)
    <2>1. Reply(m, answer, doc')
      BY <1>6 DEF Clean
    <2>2. CASE doc.migrating
      <3>1. doc' = [doc EXCEPT !.revision = @ + 1, !.receipt = m.commit, !.migrating = FALSE]
            /\ lineage' = Append(lineage, PictureOf(doc))
        BY <1>6, <2>2 DEF Clean
      <3>2. m.commit \in Nat
        BY <1>2, LenProperties DEF TypeOK, StoreType
      <3>3. doc' = [revision |-> doc.revision + 1, receipt |-> m.commit, profiles |-> doc.profiles,
                    activation |-> doc.activation, migrating |-> FALSE]
        BY <1>2, <3>1 DEF Document
      <3>4. doc' \in Document
        BY <1>2, <3>2, <3>3 DEF Document
      <3>5. doc'.receipt = m.commit /\ doc'.revision = doc.revision + 1
            /\ doc'.profiles = doc.profiles /\ doc'.activation = doc.activation
        BY <3>3
      <3>6. PictureOf(doc') = PictureOf(doc) /\ PictureOf(doc) \in Picture
        BY <1>2, <3>5 DEF PictureOf, Picture, Document
      <3>7. PictureSound(PictureOf(doc))
        BY DEF DocSound, WasStored
      <3> QED
        BY <1>6, <2>1, <3>1, <3>4, <3>5, <3>6, <3>7, Replies DEF HelperStores, Confirmation
    <2>3. CASE ~doc.migrating
      <3>1. doc' = doc /\ lineage' = lineage
        BY <1>6, <2>3 DEF Clean
      <3> QED
        BY <1>2, <1>6, <2>1, <3>1, Replies DEF HelperStores, Confirmation
    <2> QED
      BY <2>2, <2>3
  <1>7. ASSUME Refuse(m) PROVE HelperStores(m) /\ HelperAnswers(m)
    <2>1. Reply(m, "conflict", None) /\ doc.receipt # m.commit /\ doc' = doc /\ lineage' = lineage
      BY <1>7 DEF Refuse, HasReceipt
    <2>2. HelperStores(m)
      BY <2>1, Zenon DEF HelperStores
    <2>3. HelperAnswers(m)
      BY <2>1, RepliesNothingStored
    <2> QED
      BY <2>2, <2>3
  <1>8. ASSUME FailToStore(m) PROVE HelperStores(m) /\ HelperAnswers(m)
    <2>1. Reply(m, "unavailable", None) /\ doc' = doc /\ lineage' = lineage
      BY <1>8 DEF FailToStore
    <2>2. HelperStores(m)
      BY <2>1, Zenon DEF HelperStores
    <2>3. HelperAnswers(m)
      BY <2>1, RepliesNothingStored
    <2> QED
      BY <2>2, <2>3
  <1>9. ASSUME LoseRequest(m)
        PROVE  inbox' = inbox \ {m} /\ UNCHANGED <<commits, pictureVars, feedVars, queue, requests>> /\ faults' \in Nat
    BY <1>2, <1>9 DEF LoseRequest, OnlyStep, Fault
  <1>10. \E answer : Execute(m, answer) \/ LoseRequest(m)
    BY <1>1 DEF Confirm, Store, Clean, Refuse, FailToStore
  <1>11. ASSUME LoseRequest(m) PROVE HelperStores(m) /\ HelperAnswers(m)
    <2>1. doc' = doc /\ lineage' = lineage /\ current' = current
      BY <1>11 DEF LoseRequest, storeVars
    <2> QED
      BY <2>1, Zenon DEF HelperStores, HelperAnswers
  <1>12. HelperStores(m) /\ HelperAnswers(m)
    <2>1. CASE \E answer \in Confirmation : Confirm(m, answer) \/ Store(m, answer) \/ Clean(m, answer)
      BY <1>4, <1>5, <1>6, <2>1, Zenon
    <2> QED
      BY Zenon, <1>1, <1>7, <1>8, <1>11, <2>1
  <1> QED
    BY <1>2, <1>3, <1>9, <1>10, <1>12

LEMMA HelpersTypes ==
    ASSUME TypeOK, DocSound, CommitsSound, Helpers
    PROVE  TypeOK'
  <1>1. PICK m \in inbox :
             /\ m.commit \in DOMAIN commits /\ inbox' = inbox \ {m}
             /\ UNCHANGED <<commits, pictureVars, feedVars, queue, requests>> /\ faults' \in Nat
             /\ HelperStores(m) /\ HelperAnswers(m)
    BY HelpersEffect
  <1>2. doc' \in Document /\ lineage' \in Seq(Picture)
    BY <1>1, AppendProperties DEF HelperStores, TypeOK, StoreType
  <1>3. StoreType'
    BY <1>1, <1>2 DEF TypeOK, StoreType
  <1>4. current' \in Running \cup {None} /\ (current' # None => current'.commit \in DOMAIN commits \cup {0})
    BY <1>1 DEF HelperAnswers, SameCall, TypeOK, TailType
  <1>5. TailType'
    BY <1>1, <1>4 DEF TypeOK, TailType
  <1>6. PictureType' /\ FeedType'
    BY <1>1 DEF TypeOK, PictureType, FeedType, pictureVars, feedVars
  <1> QED
    BY <1>1, <1>3, <1>5, <1>6 DEF TypeOK
-----------------------------------------------------------------------------
(* What the authority does after the await. *)

Adopts(seen) == storeRevision' = seen.revision /\ Believed' = PictureOf(seen)

LEMMA AppliesTheSeen ==
    ASSUME NEW seen \in Document, ApplyCommitted(seen)
    PROVE  PictureType' /\ Adopts(seen) /\ profiles' = seen.profiles /\ activation' = seen.activation
  BY DEF ApplyCommitted, PictureType, Document, Adopts, Believed, PictureOf

\* A call that ends is of a commit that waits, and what it has seen was stored.
LEMMA CallInHand ==
    ASSUME TypeOK, RunningSound, current # None
    PROVE  /\ current \in Running /\ current.op \in Operation
           /\ current.step \notin Recovering =>
                current.commit \in DOMAIN commits /\ commits[current.commit].outcome = "waiting"
           /\ current.step \in {"committed", "recovered"} => current.seen \in Document
  BY DEF TypeOK, TailType, RunningSound, WasStored, Running

LEMMA ConcludedTypes ==
    ASSUME TypeOK, RunningSound, current # None, current.step \notin Recovering, NEW o \in Outcome, Conclude(o),
           PictureType', ready' \in BOOLEAN, reconciling' \in BOOLEAN, generation' \in Nat, stateVersion' \in Nat,
           queue' \in Seq(Operation)
    PROVE  TypeOK'
  <1>1. commits' = [commits EXCEPT ![current.commit].outcome = o] /\ current' = None
        /\ UNCHANGED <<storeVars, fallback, requests, faults>>
    BY DEF Conclude
  <1>2. commits' \in Seq(Commit) /\ DOMAIN commits' = DOMAIN commits
    BY <1>1, CallInHand, OutcomeSet DEF TypeOK, StoreType
  <1>3. StoreType' /\ TailType'
    BY <1>1, <1>2 DEF TypeOK, StoreType, TailType, storeVars
  <1>4. fallback' \in BOOLEAN
    BY <1>1 DEF TypeOK, FeedType
  <1> QED
    BY <1>1, <1>3, <1>4 DEF TypeOK, FeedType

LEMMA ResumeTypes ==
    ASSUME TypeOK, RunningSound, Resume
    PROVE  TypeOK'
  <1>1. /\ ready \in BOOLEAN /\ reconciling \in BOOLEAN /\ generation \in Nat /\ stateVersion \in Nat
        /\ PictureType /\ queue \in Seq(Operation)
    BY DEF TypeOK, FeedType, TailType
  <1>2. stateVersion + 1 \in Nat /\ generation + 1 \in Nat
    BY <1>1
  <1>3. {"changed", "failed", "pending"} \subseteq Outcome
    BY DEF Outcome
  <1>4. UNCHANGED pictureVars => PictureType'
    BY <1>1 DEF PictureType, pictureVars
  <1>5. CASE CommitIsConfirmed
    <2>1. current # None /\ current.step = "committed" /\ current.step \notin Recovering /\ Conclude("changed")
          /\ ApplyCommitted(current.seen) /\ UNCHANGED <<reconciling, queue>>
      BY <1>5 DEF CommitIsConfirmed, At, Recovering
    <2>2. PictureType'
      BY <2>1, CallInHand, AppliesTheSeen
    <2>3. generation' \in Nat /\ stateVersion' \in Nat
      BY <1>1, <1>5 DEF CommitIsConfirmed
    <2>4. ready' \in BOOLEAN
      BY <1>5, Zenon DEF CommitIsConfirmed
    <2> QED
      BY <1>1, <1>3, <2>1, <2>2, <2>3, <2>4, ConcludedTypes
  <1>6. CASE CommitFails
    <2>1. current # None /\ current.step \notin Recovering /\ Conclude("failed")
          /\ UNCHANGED <<pictureVars, reconciling, generation, queue>>
      BY <1>6 DEF CommitFails, Refused, At, Recovering, IsMutation
    <2>3. stateVersion' \in Nat
      BY <1>1, <1>6 DEF CommitFails
    <2>4. ready' \in BOOLEAN
      BY <1>6, Zenon DEF CommitFails
    <2> QED
      BY <1>1, <1>3, <1>4, <2>1, <2>3, <2>4, ConcludedTypes
  <1>7. CASE CommitIsUncertain
    <2>1. current # None /\ current.step \notin Recovering /\ Conclude("pending")
          /\ UNCHANGED <<pictureVars, ready, generation, stateVersion>>
      BY <1>7 DEF CommitIsUncertain, At, Recovering, IsMutation
    <2>2. queue' \in Seq(Operation)
      BY <1>1, <1>7, QueueGrows, ReconcileType DEF CommitIsUncertain
    <2>3. reconciling' \in BOOLEAN
      BY <1>7, Zenon DEF CommitIsUncertain
    <2> QED
      BY <1>1, <1>3, <1>4, <2>1, <2>2, <2>3, ConcludedTypes
  <1>8. CASE EndMaintenance
    <2>1. current # None /\ current.step \notin Recovering /\ (Conclude("changed") \/ Conclude("failed"))
          /\ UNCHANGED <<ready, reconciling, generation, queue>>
      BY <1>8 DEF EndMaintenance, Recovering
    <2>2. PictureType' /\ stateVersion' \in Nat
      <3>1. CASE current.step = "committed" /\ ApplyCommitted(current.seen) /\ stateVersion' = stateVersion + 1
        BY <1>2, <2>1, <3>1, CallInHand, AppliesTheSeen
      <3>2. CASE UNCHANGED <<pictureVars, stateVersion>>
        BY <1>1, <1>4, <3>2
      <3> QED
        BY <1>8, <3>1, <3>2 DEF EndMaintenance
    <2> QED
      BY <1>1, <1>3, <2>1, <2>2, ConcludedTypes
  <1>9. CASE Recovered
    <2>1. current # None /\ current.step = "recovered" /\ ApplyCommitted(current.seen)
      BY <1>9 DEF Recovered, At
    <2>2. PictureType'
      BY <2>1, CallInHand, AppliesTheSeen
    <2>3. commits' \in Seq(Commit) /\ DOMAIN commits' = DOMAIN commits
      BY <1>9, Dropped DEF Recovered, TypeOK, StoreType
    <2>4. queue' \in Seq(Operation)
      BY <1>1, <1>9, <2>1, CallInHand, QueueGrows DEF Recovered
    <2>5. generation' \in Nat /\ stateVersion' \in Nat
      BY <1>1, <1>2, <1>9 DEF Recovered, GenerationAfter
    <2>6. ready' \in BOOLEAN /\ reconciling' \in BOOLEAN
      BY <1>9, Zenon DEF Recovered
    <2>7. UNCHANGED <<storeVars, fallback, requests, faults>> /\ current' = None
      BY <1>9 DEF Recovered
    <2>8. StoreType' /\ TailType'
      BY <2>3, <2>4, <2>7 DEF TypeOK, StoreType, TailType, storeVars
    <2>9. fallback' \in BOOLEAN
      BY <2>7 DEF TypeOK, FeedType
    <2> QED
      BY <2>2, <2>5, <2>6, <2>7, <2>8, <2>9 DEF TypeOK, FeedType
  <1>10. CASE NotRecovered
    BY <1>10 DEF NotRecovered, TypeOK, StoreType, PictureType, FeedType, TailType, storeVars, pictureVars, feedVars
  <1> QED
    BY <1>5, <1>6, <1>7, <1>8, <1>9, <1>10 DEF Resume
-----------------------------------------------------------------------------
(* The lineage and the commits. *)

LineageKept == \A n \in DOMAIN lineage : n \in DOMAIN lineage' /\ lineage'[n] = lineage[n]

LEMMA StillBelieves ==
    ASSUME BelievesAStoredPicture, LineageKept, UNCHANGED <<pictureVars, fallback>>
    PROVE  BelievesAStoredPicture'
  BY DEF BelievesAStoredPicture, LineageKept, pictureVars, Believed, Exists

\* A picture that was stored can be believed.
LEMMA BelievesTheSeen ==
    ASSUME TypeOK, DocSound, UNCHANGED lineage, NEW seen, WasStored(seen), ApplyCommitted(seen)
    PROVE  BelievesAStoredPicture'
  <1>1. seen \in Document /\ seen.revision \in DOMAIN lineage /\ PictureOf(seen) = lineage[seen.revision]
    BY DEF WasStored
  <1>2. seen.revision # 0
    BY <1>1, LenProperties DEF TypeOK, StoreType
  <1>3. storeRevision' = seen.revision /\ Believed' = PictureOf(seen)
        /\ profiles' = seen.profiles /\ activation' = seen.activation
    BY <1>1, AppliesTheSeen DEF Adopts
  <1>4. PictureSound(PictureOf(seen))
    BY <1>1 DEF DocSound
  <1>5. activation' # None => activation'.revision > 0 /\ profiles'[activation'.profile] = activation'.revision
    BY <1>3, <1>4 DEF PictureSound, PictureOf
  <1> QED
    BY <1>1, <1>2, <1>3, <1>5 DEF BelievesAStoredPicture, Exists

\* Nothing is stored: the document stays sound as commits are added.
LEMMA DocStays ==
    ASSUME DocSound, UNCHANGED <<doc, lineage>>, Len(commits) \in Nat, Len(commits') \in Nat,
           Len(commits') >= Len(commits)
    PROVE  DocSound' /\ LineageKept
  <1>1. WasStored(doc)' /\ doc'.revision = Len(lineage') /\ \A n \in DOMAIN lineage' : PictureSound(lineage'[n])
    BY DEF DocSound, WasStored
  <1>2. doc'.receipt \in 0 .. Len(commits')
    BY DEF DocSound
  <1>3. LineageKept
    BY DEF LineageKept
  <1>4. (\A n \in DOMAIN lineage : PictureSound(lineage[n]))'
    BY <1>1
  <1> QED
    BY <1>1, <1>2, <1>3, <1>4 DEF DocSound

\* A commit that is not concluded in this step, or is dropped, sent or in doubt.
LEMMA CommitStays ==
    ASSUME NEW i \in DOMAIN commits, CommitSound(i), Kin(i), LineageKept, NotSent(i) => NotSent(i)',
           commits'[i].outcome = commits[i].outcome \/ commits'[i].outcome \in {"dropped", "waiting", "pending"}
    PROVE  CommitSound(i)'
  <1>1. commits'[i].kind = commits[i].kind /\ commits'[i].base = commits[i].base
        /\ commits'[i].picture = commits[i].picture
    BY DEF Kin
  <1>2. CASE commits'[i].outcome = commits[i].outcome
    BY <1>1, <1>2 DEF CommitSound, LineageKept, PictureSound
  <1>3. CASE commits'[i].outcome \in {"dropped", "waiting", "pending"}
    BY <1>1, <1>3 DEF CommitSound, PictureSound
  <1> QED
    BY <1>2, <1>3

\* No helper knows of a commit that was not prepared yet.
LEMMA NewIsNotSent ==
    ASSUME TypeOK, DocSound, NEW j, j = Len(commits) + 1
    PROVE  NotSent(j)
  <1>1. DOMAIN commits = 1 .. Len(commits) /\ Len(commits) \in Nat
    BY LenProperties DEF TypeOK, StoreType
  <1>2. \A m \in inbox : m.commit \in 1 .. Len(commits)
    BY <1>1 DEF TypeOK, StoreType
  <1> QED
    BY <1>1, <1>2 DEF DocSound, NotSent
-----------------------------------------------------------------------------
(* Requests, and the operations that touch only the queue. *)

LEMMA QueueOnlySound ==
    ASSUME Sound, UNCHANGED <<storeVars, commits, pictureVars, feedVars>>,
           current' = current \/ (current' = None /\ ~IsMutation)
    PROVE  Sound'
  <1>1. UNCHANGED <<doc, lineage, inbox, commits, storeRevision, profiles, activation, ready, reconciling,
                    generation, fallback>>
    BY DEF storeVars, pictureVars, feedVars
  <1>2. DocSound'
    BY <1>1 DEF Sound, DocSound, WasStored, PictureOf, PictureSound
  <1>3. BelievesAStoredPicture'
    BY <1>1 DEF Sound, BelievesAStoredPicture, Believed, Exists
  <1>4. CommitsSound'
    BY <1>1 DEF Sound, CommitsSound, CommitSound, NotSent, PictureSound
  <1>5. RunningSound'
    <2>1. CASE current' = current
      BY <1>1, <2>1 DEF Sound, RunningSound, Unavailable, WasStored, PictureOf, NotSent
    <2>2. CASE current' = None
      BY <2>2 DEF RunningSound
    <2> QED
      BY <2>1, <2>2
  <1>6. ReadySound'
    <2>1. IsMutation => IsMutation'
      BY DEF IsMutation
    <2> QED
      BY <1>1, <2>1 DEF Sound, ReadySound
  <1> QED
    BY <1>2, <1>3, <1>4, <1>5, <1>6 DEF Sound

LEMMA CancelSound ==
    ASSUME AuthorityInv, NEW i, CancelReservation(i)
    PROVE  Sound'
  <1>1. /\ i \in DOMAIN commits /\ commits[i].outcome = "reserved" /\ "dropped" \in Outcome
        /\ commits' = [commits EXCEPT ![i].outcome = "dropped"]
        /\ UNCHANGED <<storeVars, pictureVars, feedVars, current>>
    BY DEF CancelReservation, Reserved, Outcome
  <1>2. commits \in Seq(Commit) /\ Len(commits) \in Nat
    BY LenProperties DEF AuthorityInv, TypeOK, StoreType
  <1>3. /\ DOMAIN commits' = DOMAIN commits /\ Len(commits') = Len(commits)
        /\ \A j \in DOMAIN commits : Kin(j)
        /\ \A j \in DOMAIN commits : commits'[j].outcome = IF j = i THEN "dropped" ELSE commits[j].outcome
    BY <1>1, <1>2, OutcomeSet
  <1>4. DocSound' /\ LineageKept
    BY <1>1, <1>2, <1>3, DocStays DEF AuthorityInv, Sound, storeVars
  <1>5. BelievesAStoredPicture'
    BY <1>1, <1>4, StillBelieves DEF AuthorityInv, Sound, feedVars
  <1>6. CommitsSound'
    <2>1. ASSUME NEW j \in DOMAIN commits PROVE CommitSound(j)'
      <3>1. NotSent(j) => NotSent(j)'
        BY <1>1 DEF NotSent, storeVars
      <3>2. CommitSound(j) /\ Kin(j)
        BY <1>3 DEF AuthorityInv, Sound, CommitsSound
      <3>3. commits'[j].outcome = commits[j].outcome \/ commits'[j].outcome = "dropped"
        BY <1>3
      <3> QED
        BY <1>4, <3>1, <3>2, <3>3, CommitStays
    <2> QED
      BY <1>3, <2>1 DEF CommitsSound
  <1>7. RunningSound'
    <2>1. RunningSound
      BY DEF AuthorityInv, Sound
    <2>2. current # None /\ current.step \notin Recovering =>
            LET c == current.commit
            IN  /\ c \in DOMAIN commits' /\ commits'[c].outcome = "waiting"
                /\ commits'[c].base = storeRevision /\ commits'[c].kind = KindOf(current.op)
      BY <1>1, <1>3, <2>1 DEF RunningSound, Kin
    <2>3. UNCHANGED <<doc, lineage, inbox, current, storeRevision, ready, reconciling>>
      BY <1>1 DEF storeVars, pictureVars, feedVars
    <2> QED
      BY <2>1, <2>2, <2>3 DEF RunningSound, Unavailable, WasStored, PictureOf, NotSent
  <1>8. ReadySound'
    BY <1>1 DEF AuthorityInv, Sound, ReadySound, IsMutation, feedVars
  <1> QED
    BY <1>4, <1>5, <1>6, <1>7, <1>8 DEF Sound

LEMMA RequestsSound ==
    ASSUME AuthorityInv, Requests
    PROVE  Sound'
  <1>1. ASSUME NEW op, Request(op) PROVE Sound'
    BY <1>1, QueueOnlySound DEF Request, AuthorityInv
  <1>2. CASE RequestReconcile
    BY <1>2, QueueOnlySound DEF RequestReconcile, AuthorityInv
  <1>3. CASE (\E w \in Window, r \in Seen, on \in BOOLEAN : RequestSet(w, r, on))
             \/ (\E r \in Seen : RequestDelete(r)) \/ (\E w \in Window, r \in Savable : RequestReserve(w, r))
             \/ (\E i \in Reserved : RequestComplete(i))
    BY <1>1, <1>3 DEF RequestSet, RequestDelete, RequestReserve, RequestComplete
  <1> QED
    BY <1>2, <1>3, CancelSound DEF Requests
-----------------------------------------------------------------------------
(* The supervisor and the helpers. *)

LEMMA CallStaysInHand ==
    ASSUME ReadySound, UNCHANGED <<ready, reconciling, fallback, generation>>, IsMutation => IsMutation'
    PROVE  ReadySound'
  BY DEF ReadySound

LEMMA SameCallMutates ==
    ASSUME AuthorityAssumption, SameCall
    PROVE  current' # None /\ (IsMutation <=> IsMutation')
  <1>1. current' # None
    BY DEF AuthorityAssumption, SameCall
  <1> QED
    BY <1>1 DEF SameCall, IsMutation

LEMMA SuperviseSound ==
    ASSUME AuthorityInv, Supervise
    PROVE  Sound'
  <1>1. /\ UNCHANGED <<doc, lineage, commits, pictureVars, feedVars, queue, requests>>
        /\ SameCall /\ (SupervisorSends \/ SupervisorGivesUp \/ SupervisorReads)
    BY SuperviseEffect DEF AuthorityInv
  <1>2. /\ DocSound /\ BelievesAStoredPicture /\ CommitsSound /\ RunningSound /\ ReadySound
        /\ WasStored(doc)
    BY DEF AuthorityInv, Sound, DocSound
  <1>3. /\ current # None /\ current'.op = current.op /\ current'.commit = current.commit
        /\ UNCHANGED <<doc, lineage, commits, storeRevision, ready, reconciling>>
    BY <1>1 DEF SameCall, pictureVars, feedVars
  <1>4. Len(commits) \in Nat
    BY LenProperties DEF AuthorityInv, TypeOK, StoreType
  <1>5. DocSound' /\ LineageKept
    BY <1>1, <1>2, <1>4, DocStays
  <1>6. BelievesAStoredPicture'
    BY <1>1, <1>2, <1>5, StillBelieves DEF feedVars
  <1>7. ReadySound'
    BY <1>1, <1>2, SameCallMutates, CallStaysInHand, AuthorityAssumption DEF feedVars
  <1>8. \A d : WasStored(d) => WasStored(d)'
    BY <1>3 DEF WasStored, PictureOf
  <1>9. inbox' = inbox \/ (SupervisorSends /\ inbox' = inbox \cup {Message})
    BY <1>1 DEF SupervisorSends, SupervisorGivesUp, SupervisorReads
  <1>10. CommitsSound'
    <2>1. ASSUME NEW j \in DOMAIN commits PROVE CommitSound(j)'
      <3>1. CommitSound(j) /\ Kin(j) /\ commits'[j].outcome = commits[j].outcome
        BY <1>2, <1>3 DEF CommitsSound, Kin
      <3>2. CASE NotSent(j) => NotSent(j)'
        BY <1>5, <3>1, <3>2, CommitStays
      <3>3. CASE SupervisorSends /\ inbox' = inbox \cup {Message} /\ j = current.commit
        <4>1. commits[j].outcome = "waiting"
          BY <1>2, <1>3, <3>3 DEF SupervisorSends, RunningSound, Recovering
        <4> QED
          BY <1>3, <3>1, <4>1 DEF CommitSound, PictureSound
      <3>4. SupervisorSends /\ inbox' = inbox \cup {Message} /\ j # current.commit =>
              (NotSent(j) => NotSent(j)')
        BY <1>3 DEF NotSent, Message
      <3>5. inbox' = inbox => (NotSent(j) => NotSent(j)')
        BY <1>3 DEF NotSent
      <3> QED
        BY <1>9, <3>2, <3>3, <3>4, <3>5
    <2> QED
      BY <1>3, <2>1 DEF CommitsSound
  <1>11. RunningSound'
    <2> DEFINE c == current.commit
    <2>1. CASE SupervisorSends
      <3>1. /\ current.step = "send" /\ current'.step = "wait" /\ current'.attempt = current.attempt
            /\ inbox' = inbox \cup {Message}
        BY <2>1 DEF SupervisorSends
      <3>2. /\ current.op.kind \in {"set", "delete", "complete", "maintain"}
            /\ c \in DOMAIN commits /\ commits[c].outcome = "waiting"
            /\ commits[c].base = storeRevision /\ commits[c].kind = KindOf(current.op)
            /\ current.attempt = 1 => NotSent(c)
        BY <1>2, <1>3, <3>1 DEF RunningSound, Recovering
      <3>3. current.attempt = 1 => \A m \in inbox' : m.commit = c => m.attempt = 1
        BY <3>1, <3>2 DEF NotSent, Message
      <3> QED
        BY <1>3, <3>1, <3>2, <3>3 DEF RunningSound, Recovering
    <2>2. CASE SupervisorGivesUp
      <3>1. /\ current.step \in {"send", "wait", "read"} /\ inbox' = inbox
            /\ (current'.step = "send" /\ current'.attempt = 2) \/ current'.step \in {"thrown", "read", "reconciling"}
        BY <2>2 DEF SupervisorGivesUp, NextAttempt
      <3>2. /\ current.op.kind \in {"set", "delete", "complete", "maintain"}
            /\ c \in DOMAIN commits /\ commits[c].outcome = "waiting"
            /\ commits[c].base = storeRevision /\ commits[c].kind = KindOf(current.op)
        BY <1>2, <1>3, <3>1 DEF RunningSound, Recovering
      <3> QED
        BY <1>3, <3>1, <3>2 DEF RunningSound, Recovering
    <2>3. CASE SupervisorReads
      <3>1. /\ current.step = "recover" /\ current'.step \in {"recovered", "unrecovered"}
            /\ current'.step = "recovered" => current'.seen = doc
        BY <2>3 DEF SupervisorReads
      <3>2. Unavailable' /\ current.op.kind \in {"reconcile", "reserve"}
        BY <1>2, <1>3, <3>1 DEF RunningSound, Recovering, Unavailable
      <3>3. current'.step = "recovered" => WasStored(current.seen)'
        BY <1>2, <1>8, <1>3, <3>1 DEF WasStored, PictureOf
      <3> QED
        BY <1>3, <3>1, <3>2, <3>3 DEF RunningSound, Recovering
    <2> QED
      BY <1>1, <2>1, <2>2, <2>3
  <1> QED
    BY <1>5, <1>6, <1>7, <1>10, <1>11 DEF Sound

LEMMA HelpersSound ==
    ASSUME AuthorityInv, Helpers
    PROVE  Sound'
  <1>1. /\ TypeOK /\ DocSound /\ BelievesAStoredPicture /\ CommitsSound /\ RunningSound /\ ReadySound
        /\ WasStored(doc)
    BY DEF AuthorityInv, Sound, DocSound
  <1>2. PICK m \in inbox :
             /\ m.commit \in DOMAIN commits /\ inbox' = inbox \ {m}
             /\ UNCHANGED <<commits, pictureVars, feedVars, queue, requests>>
             /\ HelperStores(m) /\ HelperAnswers(m)
    BY <1>1, HelpersEffect
  <1>3. /\ DOMAIN commits = 1 .. Len(commits) /\ Len(commits) \in Nat /\ lineage \in Seq(Picture)
        /\ Len(lineage) \in Nat /\ DOMAIN lineage = 1 .. Len(lineage) /\ doc.revision = Len(lineage)
    BY <1>1, LenProperties DEF TypeOK, StoreType, DocSound
  <1>4. DocSound' /\ LineageKept
    <2>1. CASE doc' = doc /\ lineage' = lineage
      BY <1>1, <1>2, <1>3, <2>1, DocStays
    <2>2. CASE /\ doc' \in Document /\ doc'.receipt = m.commit /\ doc'.revision = doc.revision + 1
               /\ PictureOf(doc') \in Picture /\ lineage' = Append(lineage, PictureOf(doc'))
               /\ PictureSound(PictureOf(doc'))
      <3>1. /\ Len(lineage') = Len(lineage) + 1 /\ DOMAIN lineage' = 1 .. (Len(lineage) + 1)
            /\ lineage'[Len(lineage) + 1] = PictureOf(doc')
            /\ \A n \in 1 .. Len(lineage) : lineage'[n] = lineage[n]
        BY <1>3, <2>2, AppendProperties, LenProperties
      <3>2. LineageKept
        BY <1>3, <3>1 DEF LineageKept
      <3>3. WasStored(doc)' /\ doc'.revision = Len(lineage') /\ doc'.receipt \in 0 .. Len(commits')
        <4>1. doc'.revision \in DOMAIN lineage' /\ (PictureOf(doc))' = lineage'[doc'.revision]
          BY <1>3, <2>2, <3>1 DEF PictureOf
        <4> QED
          BY <1>2, <1>3, <2>2, <3>1, <4>1 DEF WasStored
      <3>4. ASSUME NEW n \in DOMAIN lineage' PROVE PictureSound(lineage'[n])
        <4>1. CASE n = Len(lineage) + 1
          BY <2>2, <3>1, <4>1
        <4>2. CASE n \in 1 .. Len(lineage)
          BY <1>1, <1>3, <3>1, <4>2 DEF DocSound
        <4> QED
          BY <1>3, <3>1, <4>1, <4>2
      <3>5. (\A n \in DOMAIN lineage : PictureSound(lineage[n]))'
        BY <3>4
      <3> QED
        BY <3>2, <3>3, <3>5 DEF DocSound
    <2> QED
      BY <1>2, <2>1, <2>2 DEF HelperStores
  <1>5. BelievesAStoredPicture'
    BY <1>1, <1>2, <1>4, StillBelieves DEF feedVars
  <1>6. IsMutation => IsMutation'
    BY <1>2, SameCallMutates, AuthorityAssumption DEF HelperAnswers, IsMutation
  <1>7. ReadySound'
    BY <1>1, <1>2, <1>6, CallStaysInHand DEF feedVars
  <1>8. doc' = doc \/ doc'.receipt = m.commit
    BY <1>2 DEF HelperStores
  <1>9. ASSUME NEW j, NotSent(j) PROVE NotSent(j)'
    BY <1>2, <1>8, <1>9 DEF NotSent
  <1>10. CommitsSound'
    <2>1. ASSUME NEW j \in DOMAIN commits PROVE CommitSound(j)'
      <3>1. CommitSound(j) /\ Kin(j) /\ commits'[j].outcome = commits[j].outcome
        BY <1>1, <1>2 DEF CommitsSound, Kin
      <3> QED
        BY <1>4, <1>9, <3>1, CommitStays
    <2> QED
      BY <1>2, <2>1 DEF CommitsSound
  <1>11. ASSUME NEW d, WasStored(d) PROVE WasStored(d)'
    BY <1>4, <1>11 DEF WasStored, LineageKept, PictureOf
  <1>12. UNCHANGED <<commits, storeRevision, ready, reconciling>>
    BY <1>2 DEF pictureVars, feedVars
  <1>13. RunningSound'
    <2> DEFINE c == current.commit
    <2>1. CASE current' = current
      <3>1. NotSent(c) => NotSent(current.commit)'
        BY <1>9, <2>1 DEF NotSent
      <3>2. WasStored(current.seen) => WasStored(current.seen)'
        BY <1>11, <2>1 DEF WasStored, PictureOf
      <3>3. inbox' \subseteq inbox
        BY <1>2
      <3> QED
        BY <1>1, <1>12, <2>1, <3>1, <3>2, <3>3 DEF RunningSound, Unavailable
    <2>2. CASE /\ SameCall /\ current.step = "wait" /\ Message = m
               /\ \/ current'.step = "committed" /\ current'.seen = doc'
                  \/ current'.step = "rejected" /\ current.attempt = 1 /\ doc.receipt # m.commit /\ doc' = doc
                  \/ NextAttempt
      <3>1. /\ current.op.kind \in {"set", "delete", "complete", "maintain"}
            /\ c \in DOMAIN commits /\ commits[c].outcome = "waiting"
            /\ commits[c].base = storeRevision /\ commits[c].kind = KindOf(current.op)
            /\ current.attempt = 1 => \A e \in inbox : e.commit = c => e.attempt = 1
        BY <1>1, <2>2 DEF RunningSound, Recovering, SameCall
      <3>2. m.commit = c /\ m.attempt = current.attempt
            /\ current'.commit = c /\ current'.op = current.op
        BY <2>2 DEF Message, SameCall
      <3>3. CASE current'.step = "committed" /\ current'.seen = doc'
        <4>1. WasStored(current.seen)'
          BY <1>4, <3>3 DEF DocSound, WasStored, PictureOf
        <4> QED
          BY <1>12, <3>1, <3>2, <3>3, <4>1 DEF RunningSound, Recovering
      <3>4. CASE current'.step = "rejected" /\ current.attempt = 1 /\ doc.receipt # m.commit /\ doc' = doc
        <4>1. ASSUME NEW e \in inbox' PROVE e.commit # c
          <5>1. e \in [commit : DOMAIN commits, attempt : 1..2] /\ m \in [commit : DOMAIN commits, attempt : 1..2]
                /\ e \in inbox /\ e # m
            BY <1>1, <1>2 DEF TypeOK, StoreType
          <5>2. e.commit = c => e.attempt = m.attempt
            BY <3>1, <3>2, <3>4, <5>1
          <5> QED
            BY <3>2, <5>1, <5>2
        <4>2. NotSent(current.commit)'
          BY <3>2, <3>4, <4>1 DEF NotSent
        <4> QED
          BY <1>12, <3>1, <3>2, <3>4, <4>2 DEF RunningSound, Recovering
      <3>5. CASE NextAttempt
        BY <1>12, <3>1, <3>2, <3>5 DEF NextAttempt, RunningSound, Recovering
      <3> QED
        BY <2>2, <3>3, <3>4, <3>5
    <2> QED
      BY <1>2, <2>1, <2>2 DEF HelperAnswers
  <1> QED
    BY <1>4, <1>5, <1>7, <1>10, <1>13 DEF Sound
-----------------------------------------------------------------------------
(* The operations that begin. *)

\* An operation begins with a commit that no helper knows of.
LEMMA CallBegins ==
    ASSUME AuthorityAssumption, TypeOK', current'.op.kind \in {"set", "delete", "complete", "maintain"},
           current' # None, current'.step = "send", NotSent(current.commit)',
           current'.commit \in DOMAIN commits', commits'[current'.commit].outcome = "waiting",
           commits'[current'.commit].base = storeRevision', commits'[current'.commit].kind = KindOf(current'.op)
    PROVE  RunningSound'
  BY DEF RunningSound, Recovering

LEMMA AwaitedCall ==
    ASSUME AuthorityAssumption, NEW op \in Operation, NEW c \in Nat, NEW step \in Step, Await(op, c, step)
    PROVE  current' # None /\ current'.op = op /\ current'.commit = c /\ current'.step = step
  <1>1. current' = [op |-> op, commit |-> c, attempt |-> 1, step |-> step, seen |-> None]
    BY DEF Await
  <1>2. current' # None
    <2>1. current' \in Running
      BY <1>1 DEF Running
    <2> QED
      BY <2>1 DEF AuthorityAssumption
  <1> QED
    BY <1>1, <1>2

\* The commits that were prepared before stay sound, and the new one is.
LEMMA PreparedSound ==
    ASSUME AuthorityInv, UNCHANGED storeVars, LineageKept, NEW k, NEW e,
           \A j \in DOMAIN commits : Kin(j) /\ commits'[j].outcome \in {commits[j].outcome, "dropped", "waiting"},
           DOMAIN commits' = DOMAIN commits \cup {k}, k = Len(commits) + 1, commits'[k] = e,
           PictureSound(e.picture), e.outcome = "waiting" \/ (e.outcome = "reserved" /\ e.kind = "save")
    PROVE  CommitsSound' /\ NotSent(k)'
  <1>1. \A j : NotSent(j) => NotSent(j)'
    BY DEF NotSent, storeVars
  <1>2. NotSent(k)'
    BY <1>1, NewIsNotSent DEF AuthorityInv, Sound
  <1>3. ASSUME NEW j \in DOMAIN commits PROVE CommitSound(j)'
    <2>1. CommitSound(j) /\ Kin(j) /\ (NotSent(j) => NotSent(j)')
      BY <1>1 DEF AuthorityInv, Sound, CommitsSound
    <2>2. commits'[j].outcome = commits[j].outcome \/ commits'[j].outcome \in {"dropped", "waiting", "pending"}
      OBVIOUS
    <2> QED
      BY <2>1, <2>2, CommitStays
  <1>4. CommitSound(k)'
    <2>1. PictureSound(commits'[k].picture)
          /\ (commits'[k].outcome = "waiting" \/ (commits'[k].outcome = "reserved" /\ commits'[k].kind = "save"))
      OBVIOUS
    <2> QED
      BY <1>2, <2>1 DEF CommitSound, PictureSound
  <1> QED
    BY <1>2, <1>3, <1>4 DEF CommitsSound

\* A profile that is not touched keeps its activation.
LEMMA WithoutSound ==
    ASSUME TypeOK, BelievesAStoredPicture, NEW p \in Profile, NEW n \in Nat, NEW picture,
           picture = [profiles |-> [profiles EXCEPT ![p] = n], activation |-> Without(p)]
    PROVE  PictureSound(picture)
  <1>1. profiles \in [Profile -> Nat] /\ activation \in Ref \cup {None}
    BY DEF TypeOK, PictureType
  <1>2. activation # None => activation.revision > 0 /\ profiles[activation.profile] = activation.revision
    BY DEF BelievesAStoredPicture, Exists
  <1>3. picture.activation # None => /\ picture.activation = activation /\ activation # None
                                     /\ activation.profile # p
    BY DEF Without
  <1>4. picture.activation # None => picture.profiles[activation.profile] = profiles[activation.profile]
    BY <1>1, <1>3 DEF Ref
  <1> QED
    BY <1>2, <1>3, <1>4 DEF PictureSound

\* An operation begins to wait for the store with a new commit.
LEMMA NewCommitSound ==
    ASSUME AuthorityAssumption, AuthorityInv, TypeOK', current = None, NEW op \in Operation,
           op.kind \in {"set", "delete", "maintain"}, NEW owner \in Window \cup {None}, NEW picture \in Picture,
           PictureSound(picture), commits' = NewCommit(KindOf(op), owner, picture),
           Await(op, Len(commits) + 1, "send"), UNCHANGED <<storeVars, pictureVars, reconciling, generation, fallback>>,
           ready' = ready \/ op.kind # "maintain"
    PROVE  Sound'
  <1>0. PICK k : k = Len(commits) + 1
    OBVIOUS
  <1> DEFINE e == [kind |-> KindOf(op), owner |-> owner, base |-> storeRevision, picture |-> picture,
                   outcome |-> "waiting"]
  <1>1. TypeOK /\ commits \in Seq(Commit) /\ Len(commits) \in Nat
    BY LenProperties DEF AuthorityInv, TypeOK, StoreType
  <1>2. e \in Commit
    <2>1. KindOf(op) \in {"set", "delete", "save", "cleanup"}
      BY DEF KindOf
    <2> HIDE DEF KindOf
    <2> QED
      BY <1>1, <2>1, NewCommitTypes
  <1>3. commits' = Append(commits, e)
    BY DEF NewCommit
  <1>4. e.kind = KindOf(op) /\ e.base = storeRevision /\ e.picture = picture /\ e.outcome = "waiting"
    OBVIOUS
  <1> HIDE DEF e
  <1>5. /\ Len(commits') = Len(commits) + 1 /\ DOMAIN commits' = DOMAIN commits \cup {k} /\ commits'[k] = e
        /\ \A j \in DOMAIN commits : Kin(j) /\ commits'[j] = commits[j]
    BY <1>0, <1>1, <1>2, <1>3, CommitAdded
  <1>6. DocSound' /\ LineageKept
    BY <1>1, <1>5, DocStays DEF AuthorityInv, Sound, storeVars
  <1>7. BelievesAStoredPicture'
    BY <1>6, StillBelieves DEF AuthorityInv, Sound
  <1>8. CommitsSound' /\ NotSent(k)'
    <2>1. \A j \in DOMAIN commits : Kin(j) /\ commits'[j].outcome \in {commits[j].outcome, "dropped", "waiting"}
      BY <1>5
    <2> QED
      BY <1>0, <1>4, <1>5, <1>6, <2>1, PreparedSound
  <1>9. current' # None /\ current'.op = op /\ current'.commit = k /\ current'.step = "send"
    <2>1. k \in Nat /\ "send" \in Step
      BY <1>0, <1>1 DEF Step
    <2> QED
      BY <1>0, <2>1, AwaitedCall
  <1>10. RunningSound'
    <2>1. NotSent(current.commit)'
      BY <1>8, <1>9 DEF NotSent
    <2>2. commits'[k].base = storeRevision' /\ k \in DOMAIN commits'
      BY <1>4, <1>5 DEF pictureVars
    <2> QED
      BY <1>4, <1>5, <1>9, <2>1, <2>2, CallBegins
  <1>11. ReadySound'
    <2>1. op.kind # "maintain" => IsMutation'
      BY <1>9 DEF IsMutation
    <2>2. ready \/ reconciling \/ (fallback /\ generation = 0)
      BY DEF AuthorityInv, Sound, ReadySound, IsMutation
    <2> QED
      BY <2>1, <2>2 DEF ReadySound
  <1> QED
    BY <1>6, <1>7, <1>8, <1>10, <1>11 DEF Sound

LEMMA BeginSound ==
    ASSUME AuthorityAssumption, AuthorityInv, TypeOK', Begin
    PROVE  Sound'
  <1> DEFINE op == Head(queue)
  <1>1. /\ TypeOK /\ BelievesAStoredPicture /\ DocSound /\ CommitsSound
        /\ commits \in Seq(Commit) /\ Len(commits) \in Nat /\ profiles \in [Profile -> Nat]
        /\ DOMAIN commits = 1 .. Len(commits)
    BY LenProperties DEF AuthorityInv, Sound, TypeOK, StoreType, PictureType
  <1>2. ASSUME NEW kind, AtHead(kind)
        PROVE  op \in Operation /\ op.kind = kind /\ current = None /\ ~IsMutation
    BY <1>1, <1>2, AtHeadTypes DEF AtHead, IsMutation
  <1>3. ASSUME Skip \/ AnswerPending PROVE Sound'
    BY <1>3, QueueOnlySound DEF Skip, AnswerPending, AuthorityInv
  <1>4. Believed \in Picture /\ PictureSound(Believed)
    <2>1. Believed \in Picture
      BY <1>1 DEF Believed, Picture, TypeOK, PictureType
    <2>2. Believed.activation = activation /\ Believed.profiles = profiles
      BY DEF Believed
    <2> QED
      BY <1>1, <2>1, <2>2 DEF PictureSound, BelievesAStoredPicture, Exists
  <1>5. ASSUME NEW o \in Operation, NEW c, BeginCommit(o, c)
        PROVE  Await(o, c, "send") /\ UNCHANGED <<storeVars, pictureVars, reconciling, generation, fallback>>
    BY <1>5 DEF BeginCommit
  <1>6. CASE BeginSet
    <2>1. op \in Operation /\ op.kind = "set" /\ current = None
      BY <1>2, <1>6 DEF BeginSet
    <2>2. op.ref \in Ref /\ op.window \in Window
      BY <2>1, OperationFields
    <2> DEFINE candidate == IF op.on THEN op.ref ELSE None
               picture == [Believed EXCEPT !.activation = candidate]
    <2>3. CASE Exists(op.ref) /\ commits' = NewCommit("set", op.window, picture) /\ BeginCommit(op, Len(commits) + 1)
      <3>1. picture = [profiles |-> profiles, activation |-> candidate]
        BY DEF Believed
      <3>2. picture \in Picture
        BY <1>1, <2>2, <3>1 DEF Picture
      <3>3. PictureSound(picture)
        BY <2>3, <3>1 DEF PictureSound, Exists
      <3>4. KindOf(op) = "set"
        BY <2>1 DEF KindOf
      <3> HIDE DEF picture
      <3> QED
        BY <1>5, <2>1, <2>2, <2>3, <3>2, <3>3, <3>4, NewCommitSound
    <2>4. CASE Skip \/ AnswerPending
      BY <1>3, <2>4
    <2> QED
      BY <1>6, <2>3, <2>4 DEF BeginSet
  <1>7. CASE BeginDelete
    <2>1. op \in Operation /\ op.kind = "delete" /\ current = None
      BY <1>2, <1>7 DEF BeginDelete
    <2>2. op.ref.profile \in Profile
      BY <2>1, OperationFields DEF Ref
    <2> DEFINE p == op.ref.profile
               left == [profiles |-> [profiles EXCEPT ![p] = 0], activation |-> Without(p)]
    <2>3. CASE commits' = NewCommit("delete", None, left) /\ BeginCommit(op, Len(commits) + 1)
      <3>1. left \in Picture
        BY <1>1, <2>2, WithoutType DEF Picture, TypeOK, PictureType
      <3>2. PictureSound(left)
        BY <1>1, <2>2, WithoutSound
      <3>3. KindOf(op) = "delete"
        BY <2>1 DEF KindOf
      <3> HIDE DEF left
      <3> QED
        BY <1>5, <2>1, <2>3, <3>1, <3>2, <3>3, NewCommitSound
    <2>4. CASE Skip \/ AnswerPending
      BY <1>3, <2>4
    <2> QED
      BY <1>7, <2>3, <2>4 DEF BeginDelete
  <1>8. CASE BeginSave
    <2>1. op \in Operation /\ op.kind = "complete" /\ current = None /\ ~IsMutation
      BY <1>2, <1>8 DEF BeginSave
    <2>2. PICK i : i = op.commit
      OBVIOUS
    <2>3. CASE Skip \/ AnswerPending
      BY <1>3, <2>3
    <2>4. ASSUME i \in Reserved, NEW o \in {"failed", "waiting"}, commits' = [commits EXCEPT ![i].outcome = o],
                 UNCHANGED <<storeVars, pictureVars, fallback>>
          PROVE  /\ DocSound' /\ BelievesAStoredPicture' /\ CommitsSound' /\ NotSent(i)'
                 /\ i \in DOMAIN commits' /\ commits'[i].outcome = o /\ commits'[i].kind = "save"
                 /\ commits'[i].base = commits[i].base
      <3>1. i \in DOMAIN commits /\ commits[i].outcome = "reserved" /\ o \in Outcome
        BY <2>4 DEF Reserved, Outcome
      <3>2. commits[i].kind = "save" /\ NotSent(i) /\ PictureSound(commits[i].picture)
        BY <1>1, <3>1 DEF CommitsSound, CommitSound
      <3>3. /\ DOMAIN commits' = DOMAIN commits /\ Len(commits') = Len(commits)
            /\ \A j \in DOMAIN commits : Kin(j)
            /\ \A j \in DOMAIN commits : commits'[j].outcome = IF j = i THEN o ELSE commits[j].outcome
        BY <1>1, <2>4, <3>1, OutcomeSet
      <3>4. DocSound' /\ LineageKept
        BY <1>1, <2>4, <3>3, DocStays DEF storeVars
      <3>5. BelievesAStoredPicture'
        BY <1>1, <2>4, <3>4, StillBelieves
      <3>6. \A j : NotSent(j) => NotSent(j)'
        BY <2>4 DEF NotSent, storeVars
      <3>7. ASSUME NEW j \in DOMAIN commits PROVE CommitSound(j)'
        <4>1. CommitSound(j) /\ Kin(j)
          BY <1>1, <3>3 DEF CommitsSound
        <4>2. CASE j # i \/ o = "waiting"
          <5>1. commits'[j].outcome = commits[j].outcome \/ commits'[j].outcome \in {"dropped", "waiting", "pending"}
            BY <3>3, <4>2
          <5> QED
            BY <3>4, <3>6, <4>1, <5>1, CommitStays
        <4>3. CASE j = i /\ o = "failed"
          BY <3>2, <3>3, <3>6, <4>1, <4>3 DEF CommitSound, Kin, PictureSound
        <4> QED
          BY <2>4, <4>2, <4>3
      <3>8. CommitsSound'
        BY <3>3, <3>7 DEF CommitsSound
      <3> QED
        BY <3>1, <3>2, <3>3, <3>4, <3>5, <3>6, <3>8 DEF Kin
    <2>5. CASE i \in Reserved /\ commits' = [commits EXCEPT ![i].outcome = "failed"]
               /\ UNCHANGED <<storeVars, pictureVars, feedVars, current>>
      <3>1. DocSound' /\ BelievesAStoredPicture' /\ CommitsSound'
        BY <2>4, <2>5 DEF feedVars
      <3>2. RunningSound'
        BY <2>1, <2>5 DEF RunningSound
      <3>3. ReadySound'
        BY <2>5 DEF AuthorityInv, Sound, ReadySound, IsMutation, feedVars
      <3> QED
        BY <3>1, <3>2, <3>3 DEF Sound
    <2>6. CASE i \in Reserved /\ commits[i].base = storeRevision
               /\ commits' = [commits EXCEPT ![i].outcome = "waiting"] /\ BeginCommit(op, i)
      <3>1. Await(op, i, "send") /\ UNCHANGED <<storeVars, pictureVars, reconciling, generation, fallback>>
        BY <1>5, <2>1, <2>6
      <3>2. /\ DocSound' /\ BelievesAStoredPicture' /\ CommitsSound' /\ NotSent(i)'
            /\ i \in DOMAIN commits' /\ commits'[i].outcome = "waiting" /\ commits'[i].kind = "save"
            /\ commits'[i].base = commits[i].base
        BY <2>4, <2>6, <3>1
      <3>3. i \in Nat /\ "send" \in Step
        BY <1>1, <2>6 DEF Step, Reserved
      <3>4. current' # None /\ current'.op = op /\ current'.commit = i /\ current'.step = "send"
        BY <2>1, <3>1, <3>3, AwaitedCall
      <3>5. RunningSound'
        <4>1. NotSent(current.commit)'
          BY <3>2, <3>4 DEF NotSent
        <4>2. commits'[i].base = storeRevision'
          BY <2>6, <3>1, <3>2 DEF pictureVars
        <4>3. KindOf(op) = "save"
          BY <2>1 DEF KindOf
        <4> QED
          BY <2>1, <3>2, <3>4, <4>1, <4>2, <4>3, CallBegins
      <3>6. ReadySound'
        BY <2>1, <3>4 DEF ReadySound, IsMutation
      <3> QED
        BY <3>2, <3>5, <3>6 DEF Sound
    <2> QED
      BY <1>8, <2>2, <2>3, <2>5, <2>6 DEF BeginSave
  <1>9. CASE BeginReserve
    <2>1. op \in Operation /\ op.kind = "reserve" /\ current = None
      BY <1>2, <1>9 DEF BeginReserve
    <2>2. op.ref \in Ref /\ op.window \in Window /\ op.ref.profile \in Profile /\ op.ref.revision \in Nat
      BY <2>1, OperationFields DEF Ref
    <2>3. UNCHANGED <<storeVars, pictureVars, feedVars, current>>
      BY <1>9 DEF BeginReserve
    <2> DEFINE P == {i \in Reserved : commits[i].owner = op.window}
               kept == [i \in DOMAIN commits |-> IF i \in P THEN [commits[i] EXCEPT !.outcome = "dropped"] ELSE commits[i]]
               picture == [profiles |-> [profiles EXCEPT ![op.ref.profile] = op.ref.revision],
                           activation |-> Without(op.ref.profile)]
               new == [kind |-> "save", owner |-> op.window, base |-> storeRevision, picture |-> picture,
                       outcome |-> "reserved"]
    <2>4. /\ kept \in Seq(Commit) /\ Len(kept) = Len(commits) /\ DOMAIN kept = DOMAIN commits
          /\ \A j \in DOMAIN commits :
               /\ kept[j].kind = commits[j].kind /\ kept[j].base = commits[j].base
               /\ kept[j].picture = commits[j].picture
               /\ kept[j].outcome = IF j \in P THEN "dropped" ELSE commits[j].outcome
      BY <1>1, Dropped
    <2>5. kept = [i \in DOMAIN commits |->
                    IF i \in Reserved /\ commits[i].owner = op.window
                    THEN [commits[i] EXCEPT !.outcome = "dropped"] ELSE commits[i]]
      OBVIOUS
    <2>6. commits' = kept \/ commits' = Append(kept, new)
      BY <1>9, <2>5 DEF BeginReserve, MakeReservation
    <2>7. picture \in Picture /\ PictureSound(picture)
      BY <1>1, <2>2, WithoutType, WithoutSound DEF Picture, TypeOK, PictureType
    <2>8. new \in Commit
      <3> HIDE DEF picture
      <3> QED
        BY <1>1, <2>2, <2>7, NewCommitTypes
    <2>9. new.picture = picture /\ new.outcome = "reserved" /\ new.kind = "save"
      OBVIOUS
    <2> HIDE DEF kept, new, picture, P
    <2>10. ASSUME NEW j \in DOMAIN commits, j \in DOMAIN commits', commits'[j] = kept[j]
           PROVE  Kin(j) /\ commits'[j].outcome \in {commits[j].outcome, "dropped", "waiting"}
      BY <2>4, <2>10 DEF Kin
    <2>11. DocSound' /\ LineageKept /\ CommitsSound'
      <3>1. CASE commits' = kept
        <4>1. DocSound' /\ LineageKept
          BY <1>1, <2>3, <2>4, <3>1, DocStays DEF storeVars
        <4>2. ASSUME NEW j \in DOMAIN commits PROVE CommitSound(j)'
          <5>1. CommitSound(j) /\ (NotSent(j) => NotSent(j)')
            BY <1>1, <2>3 DEF CommitsSound, NotSent, storeVars
          <5>2. Kin(j) /\ (commits'[j].outcome = commits[j].outcome \/ commits'[j].outcome \in {"dropped", "waiting", "pending"})
            BY <2>4, <2>10, <3>1
          <5> QED
            BY <4>1, <5>1, <5>2, CommitStays
        <4> QED
          BY <2>4, <3>1, <4>1, <4>2 DEF CommitsSound
      <3>2. CASE commits' = Append(kept, new)
        <4>0. PICK k : k = Len(commits) + 1
          OBVIOUS
        <4>1. /\ Len(commits') = Len(commits) + 1 /\ DOMAIN commits' = DOMAIN commits \cup {k} /\ commits'[k] = new
              /\ \A j \in DOMAIN commits : commits'[j] = kept[j]
          <5>1. /\ Append(kept, new) \in Seq(Commit) /\ Len(Append(kept, new)) = Len(commits) + 1
                /\ \A j \in 1 .. Len(commits) : Append(kept, new)[j] = kept[j]
                /\ Append(kept, new)[Len(commits) + 1] = new
            BY <2>4, <2>8, AppendProperties
          <5>2. DOMAIN Append(kept, new) = 1 .. Len(commits) + 1
            BY <5>1, LenProperties
          <5> QED
            BY <1>1, <3>2, <4>0, <5>1, <5>2
        <4>2. DocSound' /\ LineageKept
          BY <1>1, <2>3, <4>1, DocStays DEF storeVars
        <4>3. \A j \in DOMAIN commits : Kin(j) /\ commits'[j].outcome \in {commits[j].outcome, "dropped", "waiting"}
          BY <2>10, <4>1
        <4>4. CommitsSound'
          BY <2>3, <2>7, <2>9, <4>0, <4>1, <4>2, <4>3, PreparedSound
        <4> QED
          BY <4>2, <4>4
      <3> QED
        BY <2>6, <3>1, <3>2
    <2>12. BelievesAStoredPicture'
      BY <1>1, <2>3, <2>11, StillBelieves DEF feedVars
    <2>13. RunningSound'
      BY <2>1, <2>3 DEF RunningSound
    <2>14. ReadySound'
      BY <2>3 DEF AuthorityInv, Sound, ReadySound, IsMutation, feedVars
    <2> QED
      BY <2>11, <2>12, <2>13, <2>14 DEF Sound
  <1>10. CASE BeginRecovery
    <2>1. op \in Operation /\ op.kind \in {"reconcile", "reserve"} /\ current = None /\ ~IsMutation
      BY <1>2, <1>10 DEF BeginRecovery
    <2>2. CASE Skip
      BY <1>3, <2>2
    <2>3. CASE Unavailable /\ Await(op, 0, "recover") /\ UNCHANGED <<storeVars, commits, pictureVars, feedVars>>
      <3>1. UNCHANGED <<doc, lineage, inbox, commits, storeRevision, profiles, activation, ready, reconciling,
                        generation, fallback>>
        BY <2>3 DEF storeVars, pictureVars, feedVars
      <3>2. DocSound' /\ BelievesAStoredPicture' /\ CommitsSound'
        <4>1. DocSound'
          BY <1>1, <3>1 DEF DocSound, WasStored, PictureOf, PictureSound
        <4>2. BelievesAStoredPicture'
          BY <1>1, <3>1 DEF BelievesAStoredPicture, Believed, Exists
        <4>3. CommitsSound'
          BY <1>1, <3>1 DEF CommitsSound, CommitSound, NotSent, PictureSound
        <4> QED
          BY <4>1, <4>2, <4>3
      <3>3. "recover" \in Step
        BY DEF Step
      <3>4. current' # None /\ current'.op = op /\ current'.step = "recover"
        BY <2>1, <2>3, <3>3, AwaitedCall
      <3>5. RunningSound'
        BY <2>1, <2>3, <3>1, <3>4 DEF RunningSound, Recovering, Unavailable
      <3>6. ReadySound'
        BY <2>1, <3>1 DEF AuthorityInv, Sound, ReadySound
      <3> QED
        BY <3>2, <3>5, <3>6 DEF Sound
    <2> QED
      BY <1>10, <2>2, <2>3 DEF BeginRecovery
  <1>11. CASE BeginMaintenance
    <2>1. op \in Operation /\ op.kind = "maintain" /\ current = None
      BY <1>2, <1>11 DEF BeginMaintenance
    <2>2. KindOf(op) = "cleanup"
      BY <2>1 DEF KindOf
    <2>3. /\ commits' = NewCommit(KindOf(op), None, Believed) /\ Await(op, Len(commits) + 1, "send")
          /\ UNCHANGED <<storeVars, pictureVars, reconciling, generation, fallback>> /\ ready' = ready
      BY <1>11, <2>2 DEF BeginMaintenance, feedVars
    <2> QED
      BY <1>4, <2>1, <2>3, NewCommitSound
  <1> QED
    BY <1>6, <1>7, <1>8, <1>9, <1>10, <1>11 DEF Begin
-----------------------------------------------------------------------------
(* The authority concludes what it awaited. *)

LEMMA ConcludedSound ==
    ASSUME AuthorityInv, current # None, current.step \notin Recovering, NEW o \in {"changed", "failed", "pending"},
           Conclude(o), BelievesAStoredPicture', ready' \/ reconciling' \/ ReadySound',
           o = "failed" /\ commits[current.commit].kind = "save" => current.step = "rejected",
           o = "changed" /\ commits[current.commit].kind # "cleanup" =>
               /\ commits[current.commit].base + 1 \in DOMAIN lineage
               /\ lineage[commits[current.commit].base + 1] = commits[current.commit].picture
    PROVE  Sound'
  <1>1. PICK i : i = current.commit
    OBVIOUS
  <1>2. /\ commits' = [commits EXCEPT ![i].outcome = o] /\ current' = None
        /\ UNCHANGED <<doc, lineage, inbox>> /\ o \in Outcome
    BY <1>1 DEF Conclude, storeVars, Outcome
  <1>3. /\ TypeOK /\ DocSound /\ CommitsSound /\ RunningSound /\ commits \in Seq(Commit) /\ Len(commits) \in Nat
    BY LenProperties DEF AuthorityInv, Sound, TypeOK, StoreType
  <1>4. i \in DOMAIN commits /\ commits[i].outcome = "waiting"
        /\ (current.step = "rejected" => NotSent(i))
    BY <1>1, <1>3 DEF RunningSound
  <1>5. /\ DOMAIN commits' = DOMAIN commits /\ Len(commits') = Len(commits)
        /\ \A j \in DOMAIN commits : Kin(j)
        /\ \A j \in DOMAIN commits : commits'[j].outcome = IF j = i THEN o ELSE commits[j].outcome
    BY <1>2, <1>3, <1>4, OutcomeSet
  <1>6. DocSound' /\ LineageKept
    BY <1>2, <1>3, <1>5, DocStays
  <1>7. \A j : NotSent(j) => NotSent(j)'
    BY <1>2 DEF NotSent
  <1>8. ASSUME NEW j \in DOMAIN commits PROVE CommitSound(j)'
    <2>1. CommitSound(j) /\ Kin(j)
      BY <1>3, <1>5 DEF CommitsSound
    <2>2. CASE j # i \/ o = "pending"
      <3>1. commits'[j].outcome = commits[j].outcome \/ commits'[j].outcome \in {"dropped", "waiting", "pending"}
        BY <1>5, <2>2
      <3> QED
        BY <1>6, <1>7, <2>1, <3>1, CommitStays
    <2>3. CASE j = i /\ o = "failed"
      <3>1. commits[i].kind = "save" => NotSent(i)'
        BY <1>1, <1>4, <1>7, <2>3
      <3> QED
        BY <1>5, <2>1, <2>3, <3>1 DEF CommitSound, Kin, PictureSound
    <2>4. CASE j = i /\ o = "changed"
      <3>1. commits[i].kind # "cleanup" =>
               commits[i].base + 1 \in DOMAIN lineage' /\ lineage'[commits[i].base + 1] = commits[i].picture
        BY <1>1, <1>2, <2>4
      <3> QED
        BY <1>5, <2>1, <2>4, <3>1 DEF CommitSound, Kin, PictureSound
    <2> QED
      BY <2>2, <2>3, <2>4
  <1>9. CommitsSound'
    BY <1>5, <1>8 DEF CommitsSound
  <1>10. RunningSound'
    BY <1>2 DEF RunningSound
  <1>11. ReadySound'
    BY DEF ReadySound
  <1> QED
    BY <1>6, <1>9, <1>10, <1>11 DEF Sound

LEMMA ResumeSound ==
    ASSUME AuthorityInv, Resume
    PROVE  Sound'
  <1>1. /\ TypeOK /\ DocSound /\ BelievesAStoredPicture /\ CommitsSound /\ RunningSound /\ ReadySound
        /\ commits \in Seq(Commit) /\ Len(commits) \in Nat
    BY LenProperties DEF AuthorityInv, Sound, TypeOK, StoreType
  <1>2. current # None /\ current.step \in {"committed", "recovered"} => WasStored(current.seen)
    BY <1>1 DEF RunningSound
  <1>3. UNCHANGED <<pictureVars, fallback, lineage>> => BelievesAStoredPicture'
    BY <1>1, StillBelieves DEF LineageKept
  <1>4. ASSUME NEW o, Conclude(o)
        PROVE  UNCHANGED <<fallback, lineage>>
    BY <1>4 DEF Conclude, storeVars
  <1>5. current # None /\ current.step \notin Recovering =>
          /\ current.op.kind \in {"set", "delete", "complete", "maintain"}
          /\ commits[current.commit].kind = KindOf(current.op) /\ commits[current.commit].base = storeRevision
    BY <1>1 DEF RunningSound
  <1>6. CASE CommitIsConfirmed
    <2>1. /\ current # None /\ current.step = "committed" /\ current.step \notin Recovering /\ Conclude("changed")
          /\ ApplyCommitted(current.seen) /\ MatchesState(current.seen, commits[current.commit].picture)
      BY <1>6 DEF CommitIsConfirmed, At, Recovering
    <2>2. ready' = TRUE
      BY <1>6, Zenon DEF CommitIsConfirmed
    <2>3. BelievesAStoredPicture'
      BY <1>1, <1>2, <1>4, <2>1, BelievesTheSeen
    <2>4. /\ commits[current.commit].base + 1 \in DOMAIN lineage
          /\ lineage[commits[current.commit].base + 1] = commits[current.commit].picture
      BY <1>2, <1>5, <2>1 DEF MatchesState, WasStored
    <2> QED
      BY <2>1, <2>2, <2>3, <2>4, ConcludedSound
  <1>7. CASE CommitFails
    <2>1. /\ current # None /\ current.step \notin Recovering /\ Conclude("failed") /\ UNCHANGED pictureVars
          /\ current.step = "rejected" \/ current.op.kind # "complete"
      BY <1>7 DEF CommitFails, Refused, At, Recovering, IsMutation, IsSave
    <2>2. ready' = TRUE
      BY <1>7, Zenon DEF CommitFails
    <2>3. BelievesAStoredPicture'
      BY <1>3, <1>4, <2>1
    <2>4. current.op.kind # "complete" => commits[current.commit].kind # "save"
      BY <1>5, <2>1 DEF KindOf
    <2> QED
      BY <2>1, <2>2, <2>3, <2>4, ConcludedSound
  <1>8. CASE CommitIsUncertain
    <2>1. /\ current # None /\ current.step \notin Recovering /\ Conclude("pending") /\ UNCHANGED pictureVars
      BY <1>8 DEF CommitIsUncertain, At, Recovering, IsMutation
    <2>2. reconciling' = TRUE
      BY <1>8, Zenon DEF CommitIsUncertain
    <2>3. BelievesAStoredPicture'
      BY <1>3, <1>4, <2>1
    <2> QED
      BY <2>1, <2>2, <2>3, ConcludedSound
  <1>9. CASE EndMaintenance
    <2>1. /\ current # None /\ current.op.kind = "maintain" /\ current.step \notin Recovering
          /\ UNCHANGED <<ready, reconciling, generation, queue>>
      BY <1>9 DEF EndMaintenance, Recovering
    <2>2. commits[current.commit].kind = "cleanup"
      BY <1>5, <2>1 DEF KindOf
    <2>3. UNCHANGED fallback /\ ~IsMutation
      BY <1>4, <1>9, <2>1 DEF EndMaintenance, IsMutation
    <2>4. ReadySound'
      BY <1>1, <2>1, <2>3 DEF ReadySound
    <2>5. CASE Conclude("changed") /\ current.step = "committed" /\ ApplyCommitted(current.seen)
      <3>1. BelievesAStoredPicture'
        BY <1>1, <1>2, <1>4, <2>1, <2>5, BelievesTheSeen
      <3> QED
        BY <2>1, <2>2, <2>4, <2>5, <3>1, ConcludedSound
    <2>6. CASE Conclude("failed") /\ UNCHANGED pictureVars
      <3>1. BelievesAStoredPicture'
        BY <1>3, <1>4, <2>6
      <3> QED
        BY <2>1, <2>2, <2>4, <2>6, <3>1, ConcludedSound
    <2> QED
      BY <1>9, <2>5, <2>6 DEF EndMaintenance
  <1>10. CASE Recovered
    <2>1. /\ current # None /\ current.step = "recovered" /\ ApplyCommitted(current.seen)
          /\ UNCHANGED storeVars /\ current' = None
          /\ commits' = [i \in DOMAIN commits |->
                          IF i \in Reserved THEN [commits[i] EXCEPT !.outcome = "dropped"] ELSE commits[i]]
      BY <1>10 DEF Recovered, At
    <2>2. /\ Len(commits') = Len(commits) /\ DOMAIN commits' = DOMAIN commits
          /\ \A j \in DOMAIN commits : Kin(j)
          /\ \A j \in DOMAIN commits : commits'[j].outcome = IF j \in Reserved THEN "dropped" ELSE commits[j].outcome
      BY <1>1, <2>1, Dropped DEF Kin
    <2>3. DocSound' /\ LineageKept
      BY <1>1, <2>1, <2>2, DocStays DEF storeVars
    <2>4. BelievesAStoredPicture'
      BY <1>1, <1>2, <2>1, BelievesTheSeen DEF storeVars
    <2>5. ASSUME NEW j \in DOMAIN commits PROVE CommitSound(j)'
      <3>1. CommitSound(j) /\ Kin(j) /\ (NotSent(j) => NotSent(j)')
        BY <1>1, <2>1, <2>2 DEF CommitsSound, NotSent, storeVars
      <3>2. commits'[j].outcome = commits[j].outcome \/ commits'[j].outcome \in {"dropped", "waiting", "pending"}
        BY <2>2
      <3> QED
        BY <2>3, <3>1, <3>2, CommitStays
    <2>6. ready' = TRUE
      BY <1>10, Zenon DEF Recovered
    <2>7. RunningSound' /\ ReadySound'
      BY <2>1, <2>6 DEF RunningSound, ReadySound
    <2> QED
      BY <2>2, <2>3, <2>4, <2>5, <2>7 DEF Sound, CommitsSound
  <1>11. CASE NotRecovered
    <2>1. /\ UNCHANGED <<storeVars, commits, pictureVars, feedVars>> /\ current' = None /\ current # None
          /\ current.step \in Recovering
      BY <1>11 DEF NotRecovered, At, Recovering
    <2>2. ~IsMutation
      BY <1>1, <2>1 DEF RunningSound, IsMutation
    <2> QED
      BY <2>1, <2>2, QueueOnlySound DEF AuthorityInv
  <1> QED
    BY <1>6, <1>7, <1>8, <1>9, <1>10, <1>11 DEF Resume
-----------------------------------------------------------------------------
(* The invariant, and what follows from it. *)

LEMMA StartsSound ==
    ASSUME AuthorityAssumption, Init
    PROVE  AuthorityInv
  <1>1. /\ InitialProfiles \in [Profile -> Nat] /\ InitialActivation \in Ref \cup {None}
        /\ InitialActivation # None =>
             InitialActivation.revision > 0 /\ InitialProfiles[InitialActivation.profile] = InitialActivation.revision
    BY DEF AuthorityAssumption, Ref
  <1>2. doc = [revision |-> 1, receipt |-> 0, profiles |-> InitialProfiles,
               activation |-> InitialActivation, migrating |-> Migrating]
    BY DEF Init
  <1>3. Migrating \in BOOLEAN
    BY DEF AuthorityAssumption
  <1>4. doc \in Document
    BY <1>1, <1>2, <1>3 DEF Document
  <1>5. doc.revision = 1 /\ doc.receipt = 0 /\ doc.profiles = InitialProfiles /\ doc.activation = InitialActivation
    BY <1>2
  <1>6. PictureOf(doc) \in Picture /\ PictureSound(PictureOf(doc))
    BY <1>1, <1>5 DEF PictureOf, Picture, PictureSound
  <1>7. lineage = <<PictureOf(doc)>> /\ lineage \in Seq(Picture) /\ Len(lineage) = 1 /\ DOMAIN lineage = {1}
        /\ lineage[1] = PictureOf(doc)
    <2>1. lineage = <<PictureOf(doc)>>
      BY DEF Init
    <2> HIDE DEF PictureOf
    <2>2. lineage \in Seq(Picture) /\ Len(lineage) = 1 /\ lineage[1] = PictureOf(doc)
      BY <1>6, <2>1
    <2> QED
      BY <2>1, <2>2, LenProperties
  <1>8. commits = <<>> /\ commits \in Seq(Commit) /\ Len(commits) = 0 /\ DOMAIN commits = {} /\ inbox = {}
    BY EmptySeq, LenProperties DEF Init
  <1>9. StoreType
    BY <1>4, <1>7, <1>8 DEF StoreType
  <1>10. PictureType
    BY <1>1 DEF Init, PictureType, Absent
  <1>11. FeedType
    <2>1. ready \in BOOLEAN /\ reconciling \in BOOLEAN /\ fallback \in BOOLEAN
      BY Zenon DEF Init
    <2> QED
      BY <2>1 DEF Init, FeedType
  <1>12. TailType
    <2>1. [kind |-> "maintain"] \in Operation
      BY DEF Operation
    <2>2. queue = <<[kind |-> "maintain"]>> \/ queue = <<>>
      BY DEF Init
    <2>3. queue \in Seq(Operation)
      <3>1. \A e \in Operation : <<e>> \in Seq(Operation)
        OBVIOUS
      <3> QED
        BY <2>1, <2>2, <3>1, EmptySeq
    <2> QED
      BY <2>3 DEF Init, TailType
  <1>13. TypeOK
    BY <1>9, <1>10, <1>11, <1>12 DEF Init, TypeOK
  <1>14. DocSound
    BY <1>4, <1>5, <1>6, <1>7, <1>8 DEF DocSound, WasStored
  <1>15. BelievesAStoredPicture
    <2>1. CASE fallback
      BY <2>1 DEF Init, BelievesAStoredPicture, Believed
    <2>2. CASE ~fallback
      <3>1. storeRevision = 1 /\ profiles = InitialProfiles /\ activation = InitialActivation
        BY <2>2 DEF Init
      <3>2. Believed = PictureOf(doc)
        BY <1>5, <3>1 DEF Believed, PictureOf
      <3> QED
        BY <1>1, <1>7, <3>1, <3>2 DEF BelievesAStoredPicture, Exists
    <2> QED
      BY <2>1, <2>2
  <1>16. CommitsSound /\ RunningSound
    BY <1>8 DEF Init, CommitsSound, RunningSound
  <1>17. ReadySound
    BY Zenon DEF Init, ReadySound
  <1> QED
    BY <1>13, <1>14, <1>15, <1>16, <1>17 DEF AuthorityInv, Sound

LEMMA StaysSound ==
    ASSUME AuthorityAssumption, AuthorityInv, [Next]_vars
    PROVE  AuthorityInv'
  <1>1. TypeOK /\ DocSound /\ CommitsSound /\ RunningSound
    BY DEF AuthorityInv, Sound
  <1>2. CASE Requests
    BY <1>1, <1>2, RequestTypes, RequestsSound DEF AuthorityInv
  <1>3. CASE Helpers
    BY <1>1, <1>3, HelpersTypes, HelpersSound DEF AuthorityInv
  <1>4. CASE Begin
    BY <1>1, <1>4, BeginTypes, BeginSound DEF AuthorityInv
  <1>5. CASE Supervise
    BY <1>1, <1>5, SuperviseTypes, SuperviseSound DEF AuthorityInv
  <1>6. CASE Resume
    BY <1>1, <1>6, ResumeTypes, ResumeSound DEF AuthorityInv
  <1>7. CASE UNCHANGED vars
    <2>1. UNCHANGED <<storeVars, commits, pictureVars, feedVars, queue, current, requests, faults>>
      BY <1>7 DEF vars
    <2>2. Sound'
      BY <2>1, QueueOnlySound DEF AuthorityInv
    <2>3. TypeOK'
      <3>1. queue' \in Seq(Operation) /\ requests' \in Nat
        BY <1>1, <2>1 DEF TypeOK, TailType
      <3> QED
        BY <1>1, <2>1, <3>1, QueueTypes
    <2> QED
      BY <2>2, <2>3 DEF AuthorityInv
  <1> QED
    BY <1>2, <1>3, <1>4, <1>5, <1>6, <1>7 DEF Next

LEMMA AuthorityIsSound == Spec => []AuthorityInv
  BY StartsSound, StaysSound, AuthorityAssumption, PTL DEF Spec

\* Every variable has its type, for any constants that satisfy the assumption.
THEOREM TypeCorrect == Spec => []TypeOK
  <1>1. AuthorityInv => TypeOK
    BY DEF AuthorityInv
  <1> QED
    BY <1>1, AuthorityIsSound, PTL

\* Whatever is lost, late or executed twice, the authority (ProfileActivation of
\* profile-activation.ts) believes a picture that the document really had.
THEOREM BelievesWhatWasStored == Spec => []BelievesAStoredPicture
  <1>1. AuthorityInv => BelievesAStoredPicture
    BY DEF AuthorityInv, Sound
  <1> QED
    BY <1>1, AuthorityIsSound, PTL

\* What a window is told of its request, "changed" or that a save has "failed", is
\* true of the document and stays so (beginCommit, failCommit, finishCommit).
THEOREM AnswersStayTrue == Spec => []AnswersAreTrue
  <1>1. AuthorityInv => AnswersAreTrue
    BY DEF AuthorityInv, Sound, CommitsSound, CommitSound, NotSent, AnswersAreTrue, ChangedIsStored,
           FailedSaveIsNotStored
  <1> QED
    BY <1>1, AuthorityIsSound, PTL

NamesOnePicture ==
    /\ Effective' # Effective => generation' > generation
    /\ <<Believed, ready, generation>>' # <<Believed, ready, generation>> => stateVersion' > stateVersion

LEMMA QuietStep ==
    ASSUME UNCHANGED <<pictureVars, fallback, generation>>, generation \in Nat, stateVersion \in Nat,
           ready' = ready \/ stateVersion' = stateVersion + 1
    PROVE  NamesOnePicture
  <1>1. Believed' = Believed /\ Effective' = Effective
    BY DEF pictureVars, Believed, Effective
  <1> QED
    BY <1>1 DEF NamesOnePicture

LEMMA StepNamesOnePicture ==
    ASSUME AuthorityInv, [Next]_vars
    PROVE  NamesOnePicture
  <1>1. /\ generation \in Nat /\ stateVersion \in Nat /\ RunningSound /\ ReadySound
        /\ stateVersion + 1 > stateVersion /\ generation + 1 > generation
    BY DEF AuthorityInv, Sound, TypeOK, FeedType
  <1>2. CASE Requests \/ Supervise \/ Helpers \/ UNCHANGED vars
    <2>1. UNCHANGED <<pictureVars, feedVars>>
      <3>1. CASE Requests
        BY <3>1 DEF Requests, RequestSet, RequestDelete, RequestReserve, RequestComplete, RequestReconcile,
                    Request, CancelReservation
      <3>2. CASE Supervise
        BY <3>2, SuperviseEffect DEF AuthorityInv
      <3>3. CASE Helpers
        BY <3>3, HelpersEffect DEF AuthorityInv, Sound
      <3> QED
        BY <1>2, <3>1, <3>2, <3>3 DEF vars
    <2> QED
      BY <1>1, <2>1, QuietStep DEF feedVars
  <1>3. CASE Begin
    <2>1. ASSUME UNCHANGED <<pictureVars, feedVars>> PROVE NamesOnePicture
      BY <1>1, <2>1, QuietStep DEF feedVars
    <2>2. ASSUME NEW op, NEW c, BeginCommit(op, c) PROVE NamesOnePicture
      BY <1>1, <2>2, QuietStep DEF BeginCommit
    <2> QED
      BY <1>3, <2>1, <2>2 DEF Begin, BeginSet, BeginDelete, BeginSave, BeginReserve, BeginRecovery,
                              BeginMaintenance, Skip, AnswerPending
  <1>4. CASE CommitIsConfirmed
    <2>1. /\ generation' = IF current.op.kind = "set" \/ activation' # activation THEN generation + 1 ELSE generation
          /\ stateVersion' = stateVersion + 1 /\ fallback' = fallback
      BY <1>4 DEF CommitIsConfirmed, Conclude
    <2>2. generation' = generation => Effective' = Effective
      BY <1>1, <2>1 DEF Effective
    <2>3. generation' = generation \/ generation' > generation
      BY <1>1, <2>1
    <2> QED
      BY <1>1, <2>1, <2>2, <2>3 DEF NamesOnePicture
  <1>5. CASE CommitFails \/ CommitIsUncertain
    <2>1. UNCHANGED <<pictureVars, fallback, generation>> /\ (ready' = ready \/ stateVersion' = stateVersion + 1)
      BY <1>5 DEF CommitFails, CommitIsUncertain, Conclude
    <2> QED
      BY <1>1, <2>1, QuietStep
  <1>6. CASE EndMaintenance
    <2>1. UNCHANGED <<ready, generation, fallback>>
      BY <1>6 DEF EndMaintenance, Conclude
    <2>2. Believed' = Believed
      <3>1. CASE PictureOf(current.seen) = Believed /\ ApplyCommitted(current.seen)
        BY <3>1 DEF PictureOf, Believed, ApplyCommitted
      <3>2. CASE UNCHANGED pictureVars
        BY <3>2 DEF pictureVars, Believed
      <3> QED
        BY <1>6, <3>1, <3>2 DEF EndMaintenance
    <2>3. activation' = activation
      BY <2>2 DEF Believed
    <2> QED
      BY <2>1, <2>2, <2>3 DEF NamesOnePicture, Effective
  <1>7. CASE Recovered
    <2>1. /\ activation' = current.seen.activation /\ generation' = GenerationAfter(current.seen)
          /\ stateVersion' = stateVersion + 1 /\ fallback' = fallback /\ current # None
          /\ current.step = "recovered"
      BY <1>7 DEF Recovered, ApplyCommitted, At
    <2>2. generation' = generation \/ generation' = generation + 1
      BY <2>1 DEF GenerationAfter
    <2>3. generation' = generation => Effective' = Effective
      <3>1. CASE reconciling
        <4>1. generation' = generation => activation' = activation
          BY <1>1, <2>1, <3>1 DEF GenerationAfter
        <4> QED
          BY <2>1, <4>1 DEF Effective
      <3>2. CASE ~reconciling
        <4>1. ~ready /\ ~IsMutation
          BY <1>1, <2>1, <3>2 DEF RunningSound, Recovering, Unavailable, IsMutation
        <4>2. fallback /\ generation = 0
          BY <1>1, <3>2, <4>1 DEF ReadySound
        <4> QED
          BY <2>1, <4>2 DEF Effective
      <3> QED
        BY <3>1, <3>2
    <2> QED
      BY <1>1, <2>1, <2>2, <2>3 DEF NamesOnePicture
  <1>8. CASE NotRecovered
    BY <1>1, <1>8, QuietStep DEF NotRecovered, feedVars
  <1> QED
    BY <1>2, <1>3, <1>4, <1>5, <1>6, <1>7, <1>8 DEF Next, Resume

\* No generation authorizes two profiles, and no version of the state is sent with
\* two different pictures: every step that changes the one advances the other.
THEOREM NumbersStayUnambiguous == Spec => NumbersNameOnePicture
  <1>1. AuthorityInv /\ [Next]_vars => [NamesOnePicture]_vars
    BY StepNamesOnePicture
  <1> QED
    BY <1>1, AuthorityIsSound, PTL DEF Spec, NumbersNameOnePicture, NamesOnePicture
=============================================================================
