------------------------- MODULE SubtitlePreparation -------------------------
(***************************************************************************)
(* How the embedded subtitle of a player window becomes the source of its  *)
(* translations: src/runtime/app/subtitle-preparation.ts, with the owner's *)
(* wiring (src/runtime/main.ts, epoch-bootstrap-gate.ts), the client's     *)
(* supervisor (adapters/iina/subtitle-extractor.ts) and the jobs of the    *)
(* extractor helper (ExtractionJobs.swift).                                *)
(*                                                                         *)
(* An attempt extracts one track in one job of the helper.  An attempt that *)
(* is overtaken or late is cancelled, and the next one waits until the      *)
(* cancellation has ended, since the helper runs one job at a time.         *)
(* The code runs on one thread: an action is the work of one event, with   *)
(* all the promises it settles.                                            *)
(***************************************************************************)
EXTENDS Integers, Sequences

CONSTANTS
    Track,        \* embedded text tracks
    None,         \* null; also a selection that is no embedded text track
    MaxEpoch, MaxAttempts, MaxFaults  \* bounds of the model

VARIABLES
    selected,    \* the track selected in the player
    mediaEpoch, enabled,
    key,         \* embeddedPreparationKey
    shown,       \* preparationView, the state in the sidebar
    source,      \* the key of the subtitle the controller translates
    boot, bootEpoch, failedEpoch,  \* is there a coordinator?  the bootstrap gate
    waiting,     \* keys of the loads that wait for the coordinator
    attempts,    \* every attempt of the coordinator, the active one last
    client,      \* does the supervisor hold a client?
    alive,       \* does the helper of that client live?
    results,     \* jobs with a result directory of that helper
    completed,   \* jobs that helper remembers as completed
    faults

windowVars == <<selected, mediaEpoch, enabled>>
ownerVars  == <<key, shown, source>>
bootVars   == <<boot, bootEpoch, failedEpoch, waiting>>
helperVars == <<client, alive, results, completed>>
vars == <<windowVars, ownerVars, bootVars, attempts, helperVars, faults>>

Key == [epoch : 0..MaxEpoch, track : Track]
State == {"preparing", "ready", "emptyOrUnreadable", "timedOut", "failed", "invalidated"}
Retryable == {"emptyOrUnreadable", "timedOut", "failed"}

ASSUME PreparationAssumption ==
    /\ None \notin Track \cup State
    /\ MaxEpoch \in Nat /\ MaxAttempts \in Nat /\ MaxFaults \in Nat

\* How the supervisor's call of the helper ends, and its states before that.
Outcome == {"result", "empty", "failed", "cancelled", "refused", "unavailable"}
Attempt ==
    [key : Key, status : State,
     await : {"barrier", "race", "release", "discard", "none"}, \* where prepare() is suspended
     call : {"none", "reaching", "posted", "running", "stopping", "over"} \cup Outcome,
     replayed : BOOLEAN,
     cancel : {"none", "waiting", "posted", "stopping"},
     release : BOOLEAN,           \* is a release under way?
     timer : BOOLEAN, overdue : BOOLEAN]

KeyNow == IF selected = None THEN None ELSE [epoch |-> mediaEpoch, track |-> selected]
View(as) == IF as = <<>> THEN None ELSE as[Len(as)].status

\* A newer attempt has always invalidated this one.
Accepts(j) == j = Len(attempts) /\ attempts[j].status = "preparing"
Cancelling == {j \in DOMAIN attempts : attempts[j].cancel # "none"}
InTime(j) == Accepts(j) /\ ~attempts[j].overdue
-----------------------------------------------------------------------------
(***************************************************************************)
(* The coordinator, on a sequence of attempts.                             *)
(***************************************************************************)
QueueCancellation(attempt) ==
    [attempt EXCEPT !.cancel = IF @ = "none" THEN "waiting" ELSE @]

\* A job is cancelled even if it is over; without a job there is nothing to cancel.
Overtaken(attempt) ==
    LET ended == [attempt EXCEPT !.status = "invalidated", !.timer = FALSE]
    IN  IF attempt.call = "none" THEN ended ELSE QueueCancellation(ended)

Invalidated(as) == IF as = <<>> THEN as ELSE [as EXCEPT ![Len(as)] = Overtaken(@)]

Started(attempt) == [attempt EXCEPT !.await = "race", !.call = "reaching", !.timer = TRUE]

NewAttempt(k) ==
    [key |-> k, status |-> "preparing", await |-> "barrier", call |-> "none",
     replayed |-> FALSE, cancel |-> "none", release |-> FALSE,
     timer |-> FALSE, overdue |-> FALSE]

\* mutant: the barrier is not waited for
WithNewAttemptAtOnce(as, k) == Append(Invalidated(as), Started(NewAttempt(k)))

\* prepare, up to its first await.
WithNewAttempt(as, k) ==
    LET old == Invalidated(as)
        free == \A j \in DOMAIN old : old[j].cancel = "none"
    IN  Append(old, IF free THEN Started(NewAttempt(k)) ELSE NewAttempt(k))

CanAttempt == Len(attempts) + Len(waiting) < MaxAttempts
-----------------------------------------------------------------------------
(***************************************************************************)
(* The owner.                                                              *)
(***************************************************************************)
\* invalidatePreparation, controller.setSource(null).
Forget ==
    /\ attempts' = Invalidated(attempts)
    /\ key' = None /\ shown' = None /\ source' = None

Owns(k) == enabled /\ key = k

\* mutants of AcceptPrepared: a failure is not shown; the player is not asked
AcceptPreparedOnly(as, k, prepared) ==
    /\ attempts' = as
    /\ IF prepared /\ Owns(k) THEN source' = k /\ shown' = View(as) /\ UNCHANGED key
                               ELSE UNCHANGED ownerVars
AcceptPreparedUnasked(as, k, prepared) ==
    /\ attempts' = as
    /\ IF Owns(k) THEN /\ shown' = View(as)
                       /\ source' = IF prepared THEN k ELSE source
                       /\ UNCHANGED key
                  ELSE UNCHANGED ownerVars

\* acceptPrepared, called with what prepare() or retry() returned.  The player
\* may have another track selected that the window has not heard of.
AcceptPrepared(as, k, prepared) ==
    IF ~Owns(k) THEN attempts' = as /\ UNCHANGED ownerVars
    ELSE IF prepared /\ KeyNow # k
    THEN /\ attempts' = Invalidated(as)
         /\ key' = None /\ shown' = None
         /\ UNCHANGED source
    ELSE /\ attempts' = as
         /\ shown' = View(as)
         /\ source' = IF prepared THEN k ELSE source
         /\ UNCHANGED key

\* loadEmbedded, when the same track is not being prepared, nor ready.  The
\* first load starts the extractor, the next ones wait for the same start; a
\* start that failed is not repeated for the same file.
Load(k) ==
    /\ CanAttempt
    /\ key' = k /\ source' = None
    /\ IF boot = "there"
       THEN /\ attempts' = WithNewAttempt(attempts, k)
            /\ shown' = "preparing"
            /\ UNCHANGED bootVars
       ELSE /\ UNCHANGED <<attempts, failedEpoch>>
            /\ IF boot = "none" /\ failedEpoch = k.epoch
               THEN shown' = "failed" /\ UNCHANGED <<boot, bootEpoch, waiting>>
               ELSE /\ shown' = "preparing"
                    /\ waiting' = Append(waiting, k)
                    /\ boot' = "starting"
                    /\ bootEpoch' = IF boot = "none" THEN k.epoch ELSE bootEpoch

\* scheduleSourceReload and loadSource, for the selection k.
Reload(k) ==
    IF k = None THEN Forget /\ UNCHANGED bootVars
    ELSE IF key = k /\ View(attempts) \in {"preparing", "ready"}
    THEN UNCHANGED <<attempts, ownerVars, bootVars>>
    ELSE Load(k)

\* The player selects a track; its event reaches the window later, or with the
\* change of the list of tracks.
SelectTrack(t) ==
    /\ selected' = t
    /\ UNCHANGED <<mediaEpoch, enabled, ownerVars, bootVars, attempts, helperVars, faults>>

SelectionEvent ==
    /\ enabled
    /\ Reload(KeyNow)
    /\ UNCHANGED <<windowVars, helperVars, faults>>

EndFile ==
    /\ mediaEpoch < MaxEpoch
    /\ mediaEpoch' = mediaEpoch + 1
    /\ Forget
    /\ UNCHANGED <<selected, enabled, bootVars, helperVars, faults>>

\* iina.file-loaded: everything is forgotten, then the new selection is loaded.
FileLoaded(t) ==
    /\ mediaEpoch < MaxEpoch
    /\ mediaEpoch' = mediaEpoch + 1
    /\ selected' = t
    /\ IF enabled /\ t # None THEN Load(KeyNow') ELSE Forget /\ UNCHANGED bootVars
    /\ UNCHANGED <<enabled, helperVars, faults>>

SwitchOff ==
    /\ enabled /\ enabled' = FALSE
    /\ Forget
    /\ UNCHANGED <<selected, mediaEpoch, bootVars, helperVars, faults>>

SwitchOn ==
    /\ ~enabled /\ enabled' = TRUE
    /\ Reload(KeyNow)
    /\ UNCHANGED <<selected, mediaEpoch, helperVars, faults>>

\* subtitle:retry-preparation.
Retry ==
    /\ enabled /\ key # None /\ KeyNow = key
    /\ View(attempts) \in Retryable
    /\ CanAttempt
    /\ attempts' = WithNewAttempt(attempts, attempts[Len(attempts)].key)
    /\ shown' = "preparing"
    /\ UNCHANGED <<windowVars, key, source, bootVars, helperVars, faults>>

Fault == faults < MaxFaults /\ faults' = faults + 1

\* A helper was launched and has told its port, or the one there is answers.
HelperServes == client' = TRUE /\ alive' = TRUE

BootstrapSucceeds ==
    /\ boot = "starting"
    /\ boot' = "there"
    /\ HelperServes
    /\ UNCHANGED <<windowVars, ownerVars, bootEpoch, failedEpoch, waiting, attempts,
                   results, completed, faults>>

BootstrapFails ==
    /\ boot = "starting"
    /\ Fault
    /\ boot' = "none" /\ failedEpoch' = bootEpoch /\ waiting' = <<>>
    /\ shown' = IF \E i \in DOMAIN waiting : Owns(waiting[i]) THEN "failed" ELSE shown
    /\ UNCHANGED <<windowVars, key, source, bootEpoch, attempts, helperVars>>

\* The loads that waited go on one after the other, before any other event.
LoadWaiting ==
    /\ boot = "there" /\ waiting # <<>>
    /\ waiting' = Tail(waiting)
    /\ attempts' = IF Owns(Head(waiting)) THEN WithNewAttempt(attempts, Head(waiting)) ELSE attempts
    /\ UNCHANGED <<windowVars, ownerVars, boot, bootEpoch, failedEpoch, helperVars, faults>>
-----------------------------------------------------------------------------
(***************************************************************************)
(* The rest of an attempt.                                                 *)
(***************************************************************************)
OnlyAttempts == UNCHANGED <<windowVars, ownerVars, bootVars, helperVars, faults>>

Update(j, attempt) == [attempts EXCEPT ![j] = attempt]
Returns(j, attempt) == AcceptPrepared(Update(j, attempt), attempt.key, FALSE)

\* The cancellation an attempt waited for has ended.
BarrierOpens(j) ==
    /\ attempts[j].await = "barrier" /\ Cancelling = {}
    /\ IF Accepts(j) THEN attempts' = Update(j, Started(attempts[j])) /\ UNCHANGED ownerVars
                     ELSE Returns(j, [attempts[j] EXCEPT !.await = "none"])
    /\ UNCHANGED <<windowVars, bootVars, helperVars, faults>>

\* deadlineAt passes.  The timer was armed a little later, and fires later.
DeadlinePasses(j) ==
    /\ attempts[j].await = "race" /\ Accepts(j) /\ ~attempts[j].overdue
    /\ attempts' = [attempts EXCEPT ![j].overdue = TRUE]
    /\ OnlyAttempts

TimerFires(j) ==
    /\ attempts[j].timer /\ attempts[j].overdue
    /\ Returns(j, QueueCancellation([attempts[j] EXCEPT !.status = "timedOut",
                                        !.timer = FALSE, !.await = "none"]))
    /\ UNCHANGED <<windowVars, bootVars, helperVars, faults>>

\* safeState.
StateAfter(outcome) == IF outcome = "empty" THEN "emptyOrUnreadable" ELSE "failed"

Dropped(attempt, outcome) == attempt  \* mutant
\* The timer won the race: a late result is released.
LateOutcome(attempt, outcome) == [attempt EXCEPT !.release = outcome = "result"]

\* The supervisor's prepare settles.
CallEnds(j) ==
    LET attempt == attempts[j]
        outcome == attempt.call
        over    == [attempt EXCEPT !.call = "over", !.timer = FALSE]
        replays == outcome = "unavailable" /\ ~attempt.replayed /\ InTime(j)
    IN
    /\ outcome \in Outcome
    /\ CASE replays ->
                \* a new helper is given the job once
                /\ attempts' = Update(j, [attempt EXCEPT !.call = "reaching", !.replayed = TRUE])
                /\ UNCHANGED ownerVars
         [] ~replays /\ attempt.await # "race" ->
                /\ attempts' = Update(j, LateOutcome(over, outcome))
                /\ UNCHANGED ownerVars
         [] attempt.await = "race" /\ outcome = "result" ->
                IF ~InTime(j)
                THEN /\ attempts' = Update(j, [over EXCEPT !.await = "discard", !.release = TRUE])
                     /\ UNCHANGED ownerVars
                ELSE /\ attempts' = Update(j, [over EXCEPT !.await = "release", !.release = TRUE])
                     /\ UNCHANGED ownerVars
         [] OTHER ->
                Returns(j, [over EXCEPT !.await = "none",
                                !.status = IF Accepts(j) THEN StateAfter(outcome) ELSE @])
    /\ UNCHANGED <<windowVars, bootVars, helperVars, faults>>

\* The helper has removed the result, or there is no helper.  The text was read
\* before, and parsed or not.
Released(j, readable) ==
    LET attempt == attempts[j]
        done    == [attempt EXCEPT !.release = FALSE, !.await = "none"]
        state   == IF readable THEN "ready" ELSE "emptyOrUnreadable"
    IN
    /\ attempt.release /\ (client => alive)
    /\ results' = results \ {j} /\ completed' = completed \ {j}
    /\ CASE attempt.await = "release" /\ Accepts(j) ->
                AcceptPrepared(Update(j, [done EXCEPT !.status = state]), attempt.key, readable)
         [] attempt.await = "discard" \/ (attempt.await = "release" /\ ~Accepts(j)) ->
                Returns(j, done)
         [] attempt.await = "none" -> attempts' = Update(j, done) /\ UNCHANGED ownerVars
    /\ UNCHANGED <<windowVars, bootVars, client, alive, faults>>
-----------------------------------------------------------------------------
(***************************************************************************)
(* The supervisor's way to the helper.                                     *)
(***************************************************************************)
\* liveClient: the helper is healthy, or a new one is started.  A replay is
\* given up if the attempt was overtaken meanwhile.
Reach(j) ==
    /\ attempts[j].call = "reaching" /\ (client => alive)
    /\ HelperServes
    /\ attempts' = [attempts EXCEPT ![j].call =
                       IF attempts[j].replayed /\ ~InTime(j) THEN "cancelled" ELSE "posted"]
    /\ UNCHANGED <<windowVars, ownerVars, bootVars, results, completed, faults>>

CannotReach(j) ==
    /\ attempts[j].call = "reaching" /\ ~client
    /\ Fault
    /\ attempts' = [attempts EXCEPT ![j].call = "failed"]
    /\ UNCHANGED <<windowVars, ownerVars, bootVars, helperVars>>

InHelper == {"posted", "running", "stopping"}

\* A call has reached its deadline, because the helper is gone or slow, or the
\* extraction of an overtaken attempt lasts for more than 25 s: the client is
\* given up, with every call that waits for an answer.
CallTimesOut ==
    /\ client
    /\ \E j \in DOMAIN attempts :
          \/ attempts[j].call \in InHelper \cup {"reaching"}
          \/ attempts[j].cancel \in {"posted", "stopping"}
          \/ attempts[j].release
    /\ IF alive /\ \A j \in DOMAIN attempts : Accepts(j) \/ attempts[j].call \notin InHelper
       THEN Fault ELSE UNCHANGED faults
    /\ client' = FALSE /\ alive' = FALSE
    /\ results' = {} /\ completed' = {}   \* those of the next helper
    /\ attempts' = [j \in DOMAIN attempts |->
         [attempts[j] EXCEPT
            !.call = IF @ \in InHelper THEN "unavailable" ELSE @,
            !.cancel = IF @ \in {"posted", "stopping"} THEN "none" ELSE @]]
    /\ UNCHANGED <<windowVars, ownerVars, bootVars>>

\* mutant: only a call that reaches the helper lets the cancellation go on
SubmittedToHelper(attempt) ==
    attempt.call \in InHelper \/ attempt.replayed
\* cancel waits until the job was submitted, or will not be.
Submitted(attempt) == attempt.call # "reaching" \/ attempt.replayed

PostCancel(j) ==
    /\ attempts[j].cancel = "waiting" /\ Submitted(attempts[j])
    /\ client \/ \A i \in DOMAIN attempts : attempts[i].call # "reaching"
    /\ attempts' = [attempts EXCEPT ![j].cancel = IF client THEN "posted" ELSE "none"]
    /\ OnlyAttempts
-----------------------------------------------------------------------------
(***************************************************************************)
(* The helper.                                                             *)
(***************************************************************************)
Active == {j \in DOMAIN attempts : attempts[j].call \in {"running", "stopping"}}

\* The helper's worker claims the file of a request.
Claims(j, what) == alive /\ attempts[j][what] = "posted"

TakeJob(j) ==
    /\ Claims(j, "call")
    /\ IF Active = {}
       THEN /\ attempts' = [attempts EXCEPT ![j].call = "running"]
            /\ results' = results \cup {j}
       ELSE attempts' = [attempts EXCEPT ![j].call = "refused"] /\ UNCHANGED results
    /\ UNCHANGED <<windowVars, ownerVars, bootVars, client, alive, completed, faults>>

EndJob(j, outcome) ==
    /\ alive /\ attempts[j].call = "running"
    /\ attempts' = [attempts EXCEPT ![j].call = outcome]
    /\ results'   = IF outcome = "result" THEN results ELSE results \ {j}
    /\ completed' = IF outcome = "result" THEN completed \cup {j} ELSE completed
    /\ UNCHANGED <<windowVars, ownerVars, bootVars, client, alive, faults>>

\* A cancelled job ends, perhaps successfully; then the cancellation is answered.
StopJob(j, outcome) ==
    /\ alive /\ attempts[j].call = "stopping"
    /\ attempts' = [attempts EXCEPT ![j].call = outcome, ![j].cancel = "none"]
    /\ results'   = results \ {j}
    /\ completed' = IF outcome = "result" THEN completed \cup {j} ELSE completed
    /\ UNCHANGED <<windowVars, ownerVars, bootVars, client, alive, faults>>

Pending(j) == attempts[j].call # "over"

\* A cancellation the helper answers at once.  "unknown" is asked again while
\* the supervisor's prepare is pending, for one second.
AnswerCancel(j) ==
    /\ Claims(j, "cancel")
    /\ IF attempts[j].call = "running"
       THEN /\ attempts' = [attempts EXCEPT ![j].call = "stopping", ![j].cancel = "stopping"]
            /\ UNCHANGED faults
       ELSE IF j \in completed \/ ~Pending(j)
       THEN attempts' = [attempts EXCEPT ![j].cancel = "none"] /\ UNCHANGED faults
       ELSE Fault /\ attempts' = [attempts EXCEPT ![j].cancel = "none"]
    /\ UNCHANGED <<windowVars, ownerVars, bootVars, helperVars>>

\* After 300 s without work, by a crash, or killed.
HelperExits ==
    /\ alive
    /\ Fault
    /\ alive' = FALSE
    /\ UNCHANGED <<windowVars, ownerVars, bootVars, attempts, client, results, completed>>
-----------------------------------------------------------------------------
Init ==
    /\ selected \in Track \cup {None} /\ mediaEpoch = 0 /\ enabled \in BOOLEAN
    /\ key = None /\ shown = None /\ source = None
    /\ boot = "none" /\ bootEpoch = 0 /\ failedEpoch = None /\ waiting = <<>>
    /\ attempts = <<>>
    /\ client = FALSE /\ alive = FALSE /\ results = {} /\ completed = {}
    /\ faults = 0

Player ==
    \/ \E t \in Track \cup {None} : SelectTrack(t) \/ FileLoaded(t)
    \/ SelectionEvent \/ EndFile \/ SwitchOff \/ SwitchOn \/ Retry

Coordinator ==
    \/ BootstrapSucceeds \/ BootstrapFails
    \/ \E j \in DOMAIN attempts : CallEnds(j)
    \/ \E j \in DOMAIN attempts, readable \in BOOLEAN : Released(j, readable)

Clock ==
    \/ CallTimesOut
    \/ \E j \in DOMAIN attempts : DeadlinePasses(j) \/ TimerFires(j)

Supervisor == \E j \in DOMAIN attempts : Reach(j) \/ CannotReach(j) \/ PostCancel(j)

Helper ==
    \E j \in DOMAIN attempts :
        \/ TakeJob(j) \/ AnswerCancel(j)
        \/ StopJob(j, "cancelled") \/ StopJob(j, "result")

Extraction ==
    \E j \in DOMAIN attempts : EndJob(j, "result") \/ EndJob(j, "empty") \/ EndJob(j, "failed")

\* What the promises settled by one event still have to do before the next event.
Continue == LoadWaiting \/ \E j \in DOMAIN attempts : BarrierOpens(j)
Settled ==
    /\ ~(boot = "there" /\ waiting # <<>>)
    /\ ~(Cancelling = {} /\ \E j \in DOMAIN attempts : attempts[j].await = "barrier")

Next ==
    \/ Continue
    \/ Settled /\ (Player \/ Coordinator \/ Clock \/ Supervisor \/ Helper \/ Extraction \/ HelperExits)

Spec == Init /\ [][Next]_vars

(***************************************************************************)
(* Fairness: timers fire, promises continue, a helper that lives takes its *)
(* calls and ends what it is told to stop.  An extraction may last for ever.*)
(***************************************************************************)
FairSpec ==
    /\ Spec
    /\ WF_vars(Continue) /\ WF_vars(Settled /\ Coordinator)
    /\ WF_vars(Settled /\ Clock) /\ WF_vars(Settled /\ Supervisor)
    /\ WF_vars(Settled /\ Helper)
-----------------------------------------------------------------------------
(***************************************************************************)
(* Properties.                                                             *)
(***************************************************************************)

\* Every variable has its type.
TypeOK ==
    /\ selected \in Track \cup {None} /\ mediaEpoch \in 0..MaxEpoch /\ enabled \in BOOLEAN
    /\ key \in Key \cup {None} /\ source \in Key \cup {None} /\ shown \in State \cup {None}
    /\ boot \in {"none", "starting", "there"}
    /\ bootEpoch \in 0..MaxEpoch /\ failedEpoch \in 0..MaxEpoch \cup {None}
    /\ waiting \in Seq(Key)
    /\ attempts \in Seq(Attempt)
    /\ client \in BOOLEAN /\ alive \in BOOLEAN
    /\ results \subseteq DOMAIN attempts /\ completed \subseteq DOMAIN attempts
    /\ faults \in 0..MaxFaults

\* A subtitle becomes the source only while it is the one selected in the
\* player, even if the window has not been told of a change.
SourceIsSelected ==
    [][source' # source /\ source' # None => source' = KeyNow']_vars

\* The sidebar tells the state of the coordinator, of whatever attempt it was
\* told last.
SidebarTellsView ==
    key # None /\ boot = "there" /\ waiting = <<>> => shown = View(attempts)

\* docs/releases/v0.1.8.md: rapid changes of track or file do not show a
\* failure: while the helper answers in time, it never gets a job before the
\* last one has ended.
NeverRefused == faults = 0 => \A j \in DOMAIN attempts : attempts[j].call # "refused"

\* README.md: extraction data is removed "after parsing, cancellation, timeout".
\* However a job ended, when nothing is under way nothing is left.
Quiet == \A j \in DOMAIN attempts :
    attempts[j].call \in {"none", "over"} /\ attempts[j].cancel = "none" /\ ~attempts[j].release
NothingLeft == faults = 0 /\ Quiet => results = {} /\ completed = {}

\* Every preparation returns: it is not kept waiting by a predecessor that will
\* not be cancelled, nor by an extraction that never ends.
Awaits(j) == j \in DOMAIN attempts /\ attempts[j].await # "none"
PreparationReturns == \A j \in 1..MaxAttempts : Awaits(j) ~> ~Awaits(j)
=============================================================================
