------------------------- MODULE PlaybackController -------------------------
(***************************************************************************)
(* The translation controller of one player window:                        *)
(* src/runtime/app/controller.ts with the session, pipeline, cache,        *)
(* scheduler and request builder it owns.                                  *)
(*                                                                         *)
(* The owner (src/runtime/main.ts) calls the controller synchronously:     *)
(* a tick every 350 ms, and one call per change of subtitle, language,     *)
(* provider, position or switch.  A tick may start ONE batch, which then   *)
(* runs as an asynchronous job: up to four attempts at the provider, with  *)
(* a pause between two.  Every await of the job is a place where owner     *)
(* calls interleave, so each stretch of code between two awaits is one     *)
(* action here, and "the promise is settled" and "the code after the await *)
(* runs" are different steps.                                              *)
(*                                                                         *)
(* A translated text is abstracted to its origin: the source, language and *)
(* provider selection of the request that produced it.                     *)
(***************************************************************************)
EXTENDS Integers, FiniteSets

LOCAL INSTANCE FiniteSetsExt

CONSTANTS
    Source,        \* subtitle tracks that can be loaded (by content hash)
    Cue,           \* cue ids, numbered in file order; an id embeds the cue's
                   \*   times, so tracks may share ids but never their times
    CuesOf,        \* [Source -> SUBSET Cue], the cues of each track
    StartMs, EndMs,\* [Cue -> Nat], when a cue is on screen
    CodePoints,    \* [Cue -> Nat], the length of a cue's text
    Position,      \* playback positions that occur
    Language,      \* target languages
    Selection,     \* provider selections (profile, revision, generation)
    EndpointOf,    \* [Selection -> Endpoint], the selection's part of a cache key
    Endpoint,
    None,          \* null
    Lookahead,     \* lookaheadMs of the cue window
    MaxWindow,     \* at most this many cues in the window
    MaxBatch,      \* at most this many cues in a batch
    MaxBatchCodePoints, \* at most this much text in a batch
    LastAttempt,   \* the loop runs attempt = 0 .. LastAttempt
    MaxSessionEpoch, MaxWindowEpoch, MaxRequests  \* bounds of the model

ASSUME ControllerAssumption ==
    /\ Cue \subseteq Nat /\ IsFiniteSet(Cue)
    /\ CuesOf \in [Source -> SUBSET Cue]
    /\ StartMs \in [Cue -> Nat] /\ EndMs \in [Cue -> Nat]
    /\ CodePoints \in [Cue -> Nat]
    /\ Position \subseteq Nat
    /\ EndpointOf \in [Selection -> Endpoint]
    /\ {Lookahead, MaxWindow, MaxBatch, MaxBatchCodePoints, LastAttempt} \subseteq Nat
    /\ {MaxSessionEpoch, MaxWindowEpoch, MaxRequests} \subseteq Nat
    /\ None \notin Source /\ None \notin Selection /\ None \notin Nat

VARIABLES
    sessionEpoch, windowEpoch, position, enabled, closed,  \* PlaybackSession
    source, target, selection,        \* what is being translated, and by whom
    translations,    \* [Cue -> origin or None]
    failed,          \* terminallyFailedCueIds
    cache,           \* SessionTranslationCache: a set of keyed entries
    runningEpoch, visibleFailure, status,                  \* feedback
    overlay,         \* [Cue -> origin or None], the lines on screen
    job,             \* the batch in the pipeline, or None
    calls,           \* provider calls not answered yet
    requestSequence

sessionVars  == <<sessionEpoch, windowEpoch, position, enabled, closed>>
configVars   == <<source, target, selection>>
resultVars   == <<translations, failed, cache>>
feedbackVars == <<runningEpoch, visibleFailure, status>>
jobVars      == <<job, calls, requestSequence>>
vars == <<sessionVars, configVars, resultVars, feedbackVars, overlay, jobVars>>

Status == {"disabled", "waitingForSubtitle", "waitingForConfiguration",
           "preparing", "running", "serviceUnavailable", "partialFailure"}

\* How an attempt fails, as classifyAttemptFailure tells failures apart.
Failure == {"retryable", "fatal", "cancelled"}

Origin      == [source : Source, target : Language, selection : Selection]
Identity    == [source : Source, target : Language, endpoint : Endpoint]
CacheEntry  == [identity : Identity, cue : Cue, text : Origin]
Fingerprint == [session : Nat, window : Nat]
Job == [request : Nat, fp : Fingerprint, identity : Identity,
        origin : Origin, remaining : SUBSET Cue, attempt : 0..LastAttempt,
        phase : {"attempt", "answered", "backoff", "woken", "done"},
        error : Failure \cup {"none"}, given : SUBSET Cue]
Call == [request : Nat, attempt : 0..LastAttempt, fp : Fingerprint,
         origin : Origin, items : SUBSET Cue, settled : BOOLEAN]

ASSUME NoneIsNoValue == None \notin Job /\ None \notin Origin

Blank == [c \in Cue |-> None]
Translated == {c \in Cue : translations[c] # None}

(***************************************************************************)
(* Helpers of the session and of the scheduler.                            *)
(***************************************************************************)
CurrentFingerprint == [session |-> sessionEpoch, window |-> windowEpoch]

AcceptsAnySession(fp) == ~closed /\ enabled /\ fp.window = windowEpoch  \* mutant
Accepts(fp) == ~closed /\ enabled /\ fp = CurrentFingerprint

CurrentOrigin == [source |-> source, target |-> target, selection |-> selection]

CacheIdentity ==
    [source |-> source, target |-> target, endpoint |-> EndpointOf[selection]]

\* selectNearbyCues: the first MaxWindow cues that have not ended and start soon.
Window(p) ==
    LET near == {c \in CuesOf[source] : EndMs[c] >= p /\ StartMs[c] <= p + Lookahead}
    IN  {c \in near : Cardinality({d \in near : d < c}) < MaxWindow}

TextIn(cues) == MapThenSumSet(LAMBDA c : CodePoints[c], cues)

\* batchCues(...).batches[0]: the run of cues from the first one that fits in a
\* batch at all, cut at an oversized cue and at either limit.
FirstBatch(pending) ==
    LET fits(c)  == CodePoints[c] <= MaxBatchCodePoints
        upTo(c)  == {d \in pending : d <= c /\ \E e \in pending : e <= d /\ fits(e)}
    IN  {c \in pending : /\ \A d \in upTo(c) \cup {c} : fits(d)
                         /\ Cardinality(upTo(c)) <= MaxBatch
                         /\ TextIn(upTo(c)) <= MaxBatchCodePoints}

\* selectActiveTranslations: the lines to show at position p, given texts tr.
Shown(tr, p) ==
    [c \in Cue |->
        IF /\ enabled /\ source # None /\ p # None
           /\ c \in CuesOf[source] /\ StartMs[c] <= p /\ p < EndMs[c]
        THEN tr[c] ELSE None]

NextIdleStatus ==
    CASE ~enabled                                            -> "disabled"
      [] enabled /\ source = None                            -> "waitingForSubtitle"
      [] enabled /\ source # None /\ selection = None        -> "waitingForConfiguration"
      [] enabled /\ source # None /\ selection # None        -> "preparing"

CurrentSessionStatus ==
    CASE ~enabled                                            -> "disabled"
      [] enabled /\ visibleFailure = "retryable"             -> "serviceUnavailable"
      [] enabled /\ visibleFailure = "fatal"                 -> "partialFailure"
      [] /\ enabled /\ visibleFailure = "none"
         /\ runningEpoch = sessionEpoch                      -> "running"
      [] OTHER                                               -> NextIdleStatus
-----------------------------------------------------------------------------
(***************************************************************************)
(* Owner calls.                                                            *)
(***************************************************************************)

\* mutant of CancelPending: the job is told, the provider is not
CancelJobOnly ==
    /\ job' = IF job = None THEN None
              ELSE CASE job.phase = "attempt" ->
                            [job EXCEPT !.phase = "answered", !.error = "cancelled"]
                     [] job.phase = "backoff" -> [job EXCEPT !.phase = "done"]
                     [] OTHER                 -> job
    /\ UNCHANGED calls

\* mutant of CancelPending: the provider is told, the promise is not settled
CancelCallOnly ==
    /\ calls' = {[call EXCEPT !.settled = TRUE] : call \in calls}
    /\ UNCHANGED job

\* cancelPending: every registered cancellation runs.  At most one is
\* registered, by the attempt or by the pause the job waits for.  It settles
\* that promise; the code after the await runs later.  (After a cancelled pause
\* that code only returns, so the job is done.)
CancelPending ==
    /\ job' = IF job = None THEN None
              ELSE CASE job.phase = "attempt" ->
                            [job EXCEPT !.phase = "answered", !.error = "cancelled"]
                     [] job.phase = "backoff" -> [job EXCEPT !.phase = "done"]
                     [] OTHER                 -> job
    /\ calls' = {[call EXCEPT !.settled = TRUE] : call \in calls}

InvalidateSession ==
    /\ sessionEpoch < MaxSessionEpoch
    /\ CancelPending
    /\ sessionEpoch' = sessionEpoch + 1
    /\ windowEpoch' = 0

ResetSessionFeedback == runningEpoch' = None /\ visibleFailure' = "none"

\* mutant of ClearResults: the cache survives
ClearAllButCache ==
    /\ translations' = Blank /\ failed' = {} /\ overlay' = Blank
    /\ ResetSessionFeedback
    /\ UNCHANGED cache

\* What every change of source, language or provider clears.
ClearResults ==
    /\ translations' = Blank
    /\ failed' = {}
    /\ ResetSessionFeedback
    /\ cache' = {}
    /\ overlay' = Blank

SetSource(s) ==
    /\ ~closed
    /\ InvalidateSession
    /\ ClearResults
    /\ source' = s
    /\ UNCHANGED <<position, enabled, closed, target, selection, requestSequence>>
    /\ status' = NextIdleStatus'

SetTargetLanguage(language) ==
    /\ ~closed
    /\ InvalidateSession
    /\ ClearResults
    /\ target' = language
    /\ UNCHANGED <<position, enabled, closed, source, selection, requestSequence>>
    /\ status' = NextIdleStatus'

SetProviderSelection(s) ==
    /\ ~closed
    /\ InvalidateSession
    /\ ClearResults
    /\ selection' = s
    /\ UNCHANGED <<position, enabled, closed, source, target, requestSequence>>
    /\ status' = NextIdleStatus'

ClearProviderSelection ==
    /\ ~closed
    /\ InvalidateSession
    /\ ClearResults
    /\ selection' = None
    /\ status' = IF enabled THEN "waitingForConfiguration" ELSE "disabled"
    /\ UNCHANGED <<position, enabled, closed, source, target, requestSequence>>

EndFile ==
    /\ ~closed
    /\ InvalidateSession
    /\ ClearResults
    /\ source' = None
    /\ UNCHANGED <<position, enabled, closed, target, selection, requestSequence>>
    /\ status' = NextIdleStatus'

\* Switching off keeps the translations; switching on forgets only the failures.
Disable ==
    /\ ~closed /\ enabled
    /\ InvalidateSession
    /\ enabled' = FALSE
    /\ ResetSessionFeedback
    /\ overlay' = Blank
    /\ status' = "disabled"
    /\ UNCHANGED <<position, closed, configVars, resultVars, requestSequence>>

Enable ==
    /\ ~closed /\ ~enabled
    /\ InvalidateSession
    /\ enabled' = TRUE
    /\ ResetSessionFeedback
    /\ failed' = {}
    /\ UNCHANGED <<position, closed, configVars, translations, cache, overlay,
                   requestSequence>>
    /\ status' = NextIdleStatus'

\* A set-enabled message that repeats the current setting.
SetEnabledUnchanged ==
    /\ ~closed
    /\ status' = CurrentSessionStatus
    /\ UNCHANGED <<sessionVars, configVars, resultVars, runningEpoch,
                   visibleFailure, overlay, jobVars>>

OnSeek(p) ==
    /\ ~closed
    /\ windowEpoch < MaxWindowEpoch
    /\ CancelPending
    /\ windowEpoch' = windowEpoch + 1
    /\ position' = p
    /\ overlay' = Blank
    /\ status' = CurrentSessionStatus
    /\ UNCHANGED <<sessionEpoch, enabled, closed, configVars, resultVars,
                   runningEpoch, visibleFailure, requestSequence>>

\* No owner calls a closed controller again; a provider may still answer it.
Close ==
    /\ ~closed
    /\ InvalidateSession
    /\ ClearResults
    /\ closed' = TRUE
    /\ enabled' = FALSE
    /\ status' = "disabled"
    /\ UNCHANGED <<position, configVars, requestSequence>>

-----------------------------------------------------------------------------
(***************************************************************************)
(* The tick, and the start of a batch.                                     *)
(***************************************************************************)
CallOf(j) ==
    [request |-> j.request, attempt |-> j.attempt, fp |-> j.fp,
     origin |-> j.origin, items |-> j.remaining, settled |-> FALSE]

\* The top of the attempt loop, up to the await.  The source and the language
\* were frozen by the tick, the provider selection is read again.
StartAttempt(j) ==
    LET next == [j EXCEPT !.phase = "attempt",
                          !.origin = [source |-> j.identity.source,
                                      target |-> j.identity.target,
                                      selection |-> selection]]
    IN  IF Accepts(j.fp) /\ source # None
        THEN job' = next /\ calls' = calls \cup {CallOf(next)}
        ELSE job' = [j EXCEPT !.phase = "done"] /\ UNCHANGED calls

FollowWithoutRedraw(p) ==  \* mutant
    /\ ~closed
    /\ position' = p
    /\ UNCHANGED <<sessionEpoch, windowEpoch, enabled, closed, configVars, overlay>>

\* updatePosition and syncCurrentOverlay: what every tick does first.
FollowPosition(p) ==
    /\ ~closed
    /\ position' = p
    /\ overlay' = Shown(translations, p)
    /\ UNCHANGED <<sessionEpoch, windowEpoch, enabled, closed, configVars>>

Idle(p) == ~enabled \/ source = None \/ p = None \/ job # None

TickIdle(p) ==
    /\ Idle(p)
    /\ FollowPosition(p)
    /\ UNCHANGED <<resultVars, feedbackVars, jobVars>>

TickUnconfigured(p) ==
    /\ ~Idle(p) /\ selection = None
    /\ FollowPosition(p)
    /\ status' = "waitingForConfiguration"
    /\ UNCHANGED <<resultVars, runningEpoch, visibleFailure, jobVars>>

\* translations, completed from the cache for the cues of the window
Recalled(p) ==
    [c \in Cue |->
        IF \E e \in cache : e.identity = CacheIdentity /\ e.cue = c /\ c \in Window(p)
        THEN (CHOOSE e \in cache : e.identity = CacheIdentity /\ e.cue = c).text
        ELSE translations[c]]

PendingDespiteFailure(p) == {c \in Window(p) : Recalled(p)[c] = None}  \* mutant
Pending(p) == {c \in Window(p) : Recalled(p)[c] = None /\ c \notin failed}

TickNothingPending(p) ==
    /\ ~Idle(p) /\ selection # None
    /\ Pending(p) = {}
    /\ FollowPosition(p)
    /\ translations' = Recalled(p)
    /\ status' = IF Translated' # {} \/ visibleFailure # "none"
                 THEN CurrentSessionStatus ELSE status
    /\ UNCHANGED <<failed, cache, runningEpoch, visibleFailure, jobVars>>

TickOversized(p) ==
    /\ ~Idle(p) /\ selection # None
    /\ Pending(p) # {} /\ FirstBatch(Pending(p)) = {}
    /\ FollowPosition(p)
    /\ translations' = Recalled(p)
    /\ status' = "partialFailure"
    /\ UNCHANGED <<failed, cache, runningEpoch, visibleFailure, jobVars>>

TickStartsBatch(p) ==
    /\ ~Idle(p) /\ selection # None
    /\ FirstBatch(Pending(p)) # {}
    /\ requestSequence < MaxRequests
    /\ FollowPosition(p)
    /\ translations' = Recalled(p)
    /\ status' = CurrentSessionStatus
    /\ requestSequence' = requestSequence + 1
    /\ StartAttempt([request |-> requestSequence + 1, fp |-> CurrentFingerprint,
                     identity |-> CacheIdentity, origin |-> CurrentOrigin,
                     remaining |-> FirstBatch(Pending(p)), attempt |-> 0,
                     phase |-> "attempt", error |-> "none", given |-> {}])
    /\ UNCHANGED <<failed, cache, runningEpoch, visibleFailure>>

Tick(p) ==
    \/ TickIdle(p) \/ TickUnconfigured(p) \/ TickNothingPending(p)
    \/ TickOversized(p) \/ TickStartsBatch(p)

-----------------------------------------------------------------------------
(***************************************************************************)
(* The provider's answers, and the rest of the job.                        *)
(***************************************************************************)

\* acceptResults: of the texts given, those asked for and still missing are
\* stored, in the map and under the identity the batch was started with.
Store(accepted, origin) ==
    /\ translations' = [c \in Cue |-> IF c \in accepted THEN origin ELSE translations[c]]
    /\ cache' = {e \in cache : ~(e.identity = job.identity /\ e.cue \in accepted)}
                  \cup {[identity |-> job.identity, cue |-> c, text |-> origin]
                         : c \in accepted}

\* acceptsAttempt and the settled flag: the checks on a progress message.
TakesProgress(call) ==
    /\ ~call.settled
    /\ Accepts(call.fp)
    /\ call.origin.selection = selection
    /\ job # None /\ job.phase = "attempt"
    /\ job.request = call.request /\ job.attempt = call.attempt

\* A progress message with the valid texts of some cues.
Progress(call, given) ==
    /\ call \in calls
    /\ IF TakesProgress(call) /\ given \cap job.remaining # {}
       THEN LET accepted == given \cap job.remaining IN
            /\ Store(accepted, call.origin)
            /\ job' = [job EXCEPT !.remaining = @ \ accepted]
            /\ overlay' = Shown(translations', position)
            /\ runningEpoch' = call.fp.session
            /\ visibleFailure' = "none"
            /\ UNCHANGED <<sessionVars, configVars, failed, calls, requestSequence>>
            /\ status' = CurrentSessionStatus'
       ELSE UNCHANGED vars

\* The provider's promise settles.  The first settlement of an attempt wins: a
\* call that was cancelled meanwhile answers to nobody.
Settle(call, error, given) ==
    /\ call \in calls
    /\ calls' = calls \ {call}
    /\ job' = IF call.settled THEN job
              ELSE [job EXCEPT !.phase = "answered", !.error = error, !.given = given]
    /\ UNCHANGED <<sessionVars, configVars, resultVars, feedbackVars, overlay,
                   requestSequence>>

Succeed(call, given) == Settle(call, "none", given)
Fail(call, error)    == Settle(call, error, {})

\* The code after the attempt's await.  (A null source implies a newer session
\* epoch, so the checks of the source add nothing to accepts.)
Stale == job # None /\ job.phase = "answered" /\ ~Accepts(job.fp)
LiveUnchecked == job # None /\ job.phase = "answered"  \* mutant
Live  == job # None /\ job.phase = "answered" /\ Accepts(job.fp)

Accepted == job.given \cap job.remaining
Left     == job.remaining \ Accepted

\* terminalError: a partial result counts as a retryable failure.
AttemptError ==
    IF job.error # "none" THEN job.error ELSE IF Left = {} THEN "none" ELSE "retryable"

Retries == Left # {} /\ AttemptError = "retryable" /\ job.attempt < LastAttempt

GivesUpOnCancellation == Left # {}  \* mutant
GivesUp == AttemptError # "cancelled" /\ Left # {}

\* What an accepted final result changes, in the loop and before any retry.
TakeResult ==
    /\ Store(Accepted, job.origin)
    /\ overlay' = IF Accepted # {} THEN Shown(translations', position) ELSE overlay
    /\ runningEpoch' = IF Accepted # {} THEN job.fp.session ELSE runningEpoch

AbandonBatch ==
    /\ Stale
    /\ job' = [job EXCEPT !.phase = "done"]
    /\ UNCHANGED <<sessionVars, configVars, resultVars, feedbackVars, overlay,
                   calls, requestSequence>>

RetryLater ==
    /\ Live /\ Retries
    /\ TakeResult
    /\ visibleFailure' = IF Accepted # {} THEN "none" ELSE visibleFailure
    /\ job' = [job EXCEPT !.remaining = Left, !.phase = "backoff",
                          !.error = "none", !.given = {}]
    /\ UNCHANGED <<sessionVars, configVars, failed, status, calls, requestSequence>>

\* The batch is over: what is left of it has failed, unless the provider
\* reported a cancellation, after which the cues may be asked for again.
FinishBatch ==
    /\ Live /\ ~Retries
    /\ TakeResult
    /\ failed' = IF GivesUp THEN failed \cup Left ELSE failed
    /\ visibleFailure' = IF GivesUp THEN AttemptError
                         ELSE IF Accepted # {} THEN "none" ELSE visibleFailure
    /\ job' = [job EXCEPT !.remaining = Left, !.phase = "done"]
    /\ UNCHANGED <<sessionVars, configVars, calls, requestSequence>>
    /\ status' = CurrentSessionStatus'

RetryTimerFires ==
    /\ job # None /\ job.phase = "backoff"
    /\ job' = [job EXCEPT !.phase = IF Accepts(job.fp) THEN "woken" ELSE "done"]
    /\ UNCHANGED <<sessionVars, configVars, resultVars, feedbackVars, overlay,
                   calls, requestSequence>>

NextAttempt ==
    /\ job # None /\ job.phase = "woken"
    /\ StartAttempt([job EXCEPT !.attempt = @ + 1])
    /\ UNCHANGED <<sessionVars, configVars, resultVars, feedbackVars, overlay,
                   requestSequence>>

\* The pipeline's finally: only now may a tick start the next batch.
ReleasePipeline ==
    /\ job # None /\ job.phase = "done"
    /\ job' = None
    /\ UNCHANGED <<sessionVars, configVars, resultVars, feedbackVars, overlay,
                   calls, requestSequence>>

-----------------------------------------------------------------------------
\* main.ts restores the language and the switch before anything else happens.
Init ==
    /\ enabled \in BOOLEAN
    /\ sessionEpoch = IF enabled THEN 0 ELSE 1
    /\ windowEpoch = 0 /\ position = None /\ closed = FALSE
    /\ source = None /\ selection = None /\ target \in Language
    /\ translations = Blank /\ failed = {} /\ cache = {} /\ overlay = Blank
    /\ runningEpoch = None /\ visibleFailure = "none"
    /\ status = IF enabled THEN "waitingForSubtitle" ELSE "disabled"
    /\ job = None /\ calls = {} /\ requestSequence = 0

Owner ==
    \/ \E s \in Source \cup {None} : SetSource(s)
    \/ \E l \in Language : SetTargetLanguage(l)
    \/ \E s \in Selection : SetProviderSelection(s)
    \/ ClearProviderSelection \/ EndFile
    \/ Enable \/ Disable \/ SetEnabledUnchanged \/ Close
    \/ \E p \in Position \cup {None} : OnSeek(p) \/ Tick(p)

Provider ==
    \E call \in calls :
        \/ \E given \in SUBSET Cue : Progress(call, given) \/ Succeed(call, given)
        \/ \E error \in Failure : Fail(call, error)

Continue ==
    \/ AbandonBatch \/ RetryLater \/ FinishBatch
    \/ RetryTimerFires \/ NextAttempt \/ ReleasePipeline

Next == Owner \/ Provider \/ Continue

Spec == Init /\ [][Next]_vars

(***************************************************************************)
(* Fairness: the tick timer keeps firing, promises and timers run, and the *)
(* provider settles a call that still waits.  A tick that changes nothing  *)
(* is a tick like any other, and the timer has no say in the position: a   *)
(* step is demanded of it only where every tick would change something.    *)
(***************************************************************************)
TickMayRest == ENABLED (Tick(position) /\ vars' = vars)
TickTimer == ~TickMayRest /\ \E p \in Position \cup {None} : Tick(p)

Answer == \E call \in calls :
    /\ ~call.settled
    /\ \/ \E given \in SUBSET Cue : Succeed(call, given)
       \/ \E error \in Failure : Fail(call, error)

FairSpec ==
    /\ Spec
    /\ WF_vars(TickTimer)
    /\ WF_vars(Answer)
    /\ WF_vars(Continue)
-----------------------------------------------------------------------------
(***************************************************************************)
(* Properties.                                                             *)
(***************************************************************************)

\* Every variable has its type.
TypeOK ==
    /\ sessionEpoch \in Nat /\ windowEpoch \in Nat
    /\ position \in Position \cup {None}
    /\ enabled \in BOOLEAN /\ closed \in BOOLEAN
    /\ source \in Source \cup {None} /\ target \in Language
    /\ selection \in Selection \cup {None}
    /\ translations \in [Cue -> Origin \cup {None}]
    /\ overlay \in [Cue -> Origin \cup {None}]
    /\ failed \subseteq Cue
    /\ cache \subseteq CacheEntry
    /\ runningEpoch \in Nat \cup {None}
    /\ visibleFailure \in {"none", "retryable", "fatal"}
    /\ status \in Status
    /\ job \in Job \cup {None}
    /\ calls \subseteq Call
    /\ requestSequence \in Nat

\* Whatever answers arrive in whatever order, every stored text was produced
\* for the subtitle, the language and the provider selection of this moment,
\* and every cache entry is filed under the current identity: no result of an
\* earlier source, language or selection survives a change or arrives after it.
NothingStale ==
    /\ \A c \in Translated : translations[c] = CurrentOrigin /\ c \in CuesOf[source]
    /\ \A e \in cache : e.text = CurrentOrigin /\ e.identity = CacheIdentity

\* The screen shows either nothing or exactly the translated cues that are
\* active at the last position the controller was told, and nothing at all when
\* it is switched off or has no subtitle: texts land on screen with the
\* position of now, whenever they were asked for.
OverlayExact ==
    /\ overlay = Blank \/ overlay = Shown(translations, position)
    /\ (~enabled \/ source = None) => overlay = Blank

\* A call the provider still works on, uncancelled, belongs to the current
\* fingerprint and configuration, and the job waits for it: there is one at most.
LiveCallIsCurrent ==
    \A call \in calls : ~call.settled =>
        /\ Accepts(call.fp) /\ call.origin = CurrentOrigin
        /\ job # None /\ job.phase = "attempt"
        /\ job.request = call.request /\ job.attempt = call.attempt

\* The cache holds the same cues as the translations do, so that a tick never
\* brings back a text that was cleared.
CacheMirrorsTranslations == {e.cue : e \in cache} = Translated

\* No cue that is translated or given up on is sent to the provider again, in a
\* retry (after progress) or in a later batch.
NoRepeatedWork ==
    [][\A call \in calls' \ calls :
        ~call.settled => call.items \cap (Translated' \cup failed') = {}]_vars

\* The whole controller, with its asynchronous job, implements the table of
\* TranslationSession: each step settles open cues for the context of that
\* moment, changes the context, turns the switch, redraws, or does nothing.
Session == INSTANCE TranslationSession
    WITH context <- CurrentOrigin, on <- enabled, texts <- translations, screen <- overlay
ImplementsSession == Session!Spec

CueWanted(c) ==
    /\ ~closed /\ enabled /\ source # None /\ selection # None /\ position # None
    /\ c \in Window(position) /\ CodePoints[c] <= MaxBatchCodePoints
    /\ requestSequence < MaxRequests

\* A cue that stays near the playback position gets a text or is given up on.  A
\* pipeline that stays blocked makes every tick one that changes nothing, and
\* fails this.
WantedCuesSettle ==
    \A c \in Cue : <>[]CueWanted(c) => <>[](c \in Translated \cup failed)
=============================================================================
