---------------------- MODULE PlaybackControllerProofs ----------------------
(***************************************************************************)
(* Theorems about PlaybackController for every set of cues, tracks,        *)
(* languages and selections and every limit.                               *)
(*                                                                         *)
(* TypeOK and NothingStale are not inductive by themselves: that a late    *)
(* continuation writes nothing stale follows from what the job remembers.  *)
(* JobSane ties a job of the current session epoch to the configuration,   *)
(* CallsSane ties an uncancelled call to the job.                          *)
(*                                                                         *)
(* On top of that invariant stands the table of cues: the cache and the    *)
(* screen follow it, and the batch of a job of this session is open in it. *)
(* Each step is then a step of TranslationSession.                         *)
(***************************************************************************)
EXTENDS PlaybackController, TLAPS

JobOfThisSession ==
    /\ enabled /\ ~closed /\ source # None /\ selection # None
    /\ job.fp.window <= windowEpoch
    /\ job.origin = CurrentOrigin /\ job.identity = CacheIdentity
    /\ job.remaining \subseteq CuesOf[source]

JobSane ==
    job # None =>
        /\ job.fp.session <= sessionEpoch
        /\ job.fp.session = sessionEpoch => JobOfThisSession
        /\ job.phase \in {"attempt", "backoff"} => job.fp = CurrentFingerprint
        /\ job.phase \in {"backoff", "woken"} => job.attempt < LastAttempt

CallsSane ==
    /\ \A call \in calls : ~call.settled =>
        /\ job # None /\ job.phase = "attempt"
        /\ job.request = call.request /\ job.attempt = call.attempt
        /\ job.fp = call.fp /\ job.origin = call.origin
    /\ \A a, b \in calls : ~a.settled /\ ~b.settled => a = b

IInv == TypeOK /\ JobSane /\ CallsSane /\ NothingStale

-----------------------------------------------------------------------------
\* The statuses the controller derives are statuses, before and after a step.
LEMMA StatusTyped ==
    /\ enabled \in BOOLEAN => NextIdleStatus \in Status /\ CurrentSessionStatus \in Status
    /\ enabled' \in BOOLEAN => NextIdleStatus' \in Status /\ CurrentSessionStatus' \in Status
  <1>1. enabled \in BOOLEAN => NextIdleStatus \in Status
    BY DEF NextIdleStatus, Status
  <1>2. enabled \in BOOLEAN => CurrentSessionStatus \in Status
    BY <1>1 DEF CurrentSessionStatus, Status
  <1>3. enabled' \in BOOLEAN => NextIdleStatus' \in Status
    BY DEF NextIdleStatus, Status
  <1>4. enabled' \in BOOLEAN => CurrentSessionStatus' \in Status
    BY <1>3 DEF CurrentSessionStatus, Status
  <1>5. QED BY <1>1, <1>2, <1>3, <1>4

\* After cancelPending no call is unsettled and the job, if any, waits for
\* nothing; apart from that the job is what it was.
LEMMA CancelSettles ==
    ASSUME IInv, CancelPending
    PROVE  /\ calls' \subseteq Call
           /\ \A call \in calls' : call.settled
           /\ job' \in Job \cup {None}
           /\ job' # None =>
                /\ job # None
                /\ job'.fp = job.fp /\ job'.attempt = job.attempt
                /\ job'.origin = job.origin /\ job'.identity = job.identity
                /\ job'.remaining = job.remaining
                /\ job'.phase \notin {"attempt", "backoff"}
                /\ job'.phase = "woken" => job.phase = "woken"
  <1>1. job \in Job \cup {None} /\ calls \subseteq Call
    BY DEF IInv, TypeOK
  <1>2. calls' = {[call EXCEPT !.settled = TRUE] : call \in calls}
    BY DEF CancelPending
  <1>3. calls' \subseteq Call /\ \A call \in calls' : call.settled
    BY <1>1, <1>2 DEF Call
  <1>4. CASE job = None
    BY <1>3, <1>4 DEF CancelPending
  <1>5. CASE job # None /\ job.phase = "attempt"
    <2>1. job' = [job EXCEPT !.phase = "answered", !.error = "cancelled"]
      BY <1>5 DEF CancelPending
    <2>2. job' \in Job
      BY <1>1, <1>5, <2>1 DEF Job, Failure
    <2>3. /\ job'.fp = job.fp /\ job'.attempt = job.attempt /\ job'.phase = "answered"
          /\ job'.origin = job.origin /\ job'.identity = job.identity
          /\ job'.remaining = job.remaining
      BY <1>1, <1>5, <2>1 DEF Job
    <2>4. QED BY <1>3, <1>5, <2>2, <2>3
  <1>6. CASE job # None /\ job.phase = "backoff"
    <2>1. job' = [job EXCEPT !.phase = "done"]
      BY <1>6 DEF CancelPending
    <2>2. QED BY <1>1, <1>3, <1>6, <2>1 DEF Job
  <1>7. CASE job # None /\ job.phase \notin {"attempt", "backoff"}
    <2>1. job' = job
      BY <1>7 DEF CancelPending
    <2>2. QED BY <1>1, <1>3, <1>7, <2>1
  <1>8. QED BY <1>4, <1>5, <1>6, <1>7

\* A new session epoch leaves the job behind, whatever the configuration
\* becomes: only the types and the stored texts remain to be checked.
LEMMA NewSession ==
    ASSUME IInv, InvalidateSession, NothingStale',
           position' \in Position \cup {None},
           enabled' \in BOOLEAN, closed' \in BOOLEAN,
           source' \in Source \cup {None}, target' \in Language,
           selection' \in Selection \cup {None},
           translations' \in [Cue -> Origin \cup {None}],
           overlay' \in [Cue -> Origin \cup {None}],
           failed' \subseteq Cue, cache' \subseteq CacheEntry,
           runningEpoch' = None, visibleFailure' = "none",
           status' \in Status, requestSequence' = requestSequence
    PROVE  IInv'
  <1>1. CancelPending /\ sessionEpoch' = sessionEpoch + 1 /\ windowEpoch' = 0
    BY DEF InvalidateSession
  <1>2. sessionEpoch \in Nat /\ requestSequence \in Nat /\ job \in Job \cup {None}
    BY DEF IInv, TypeOK
  <1>3. /\ calls' \subseteq Call /\ \A call \in calls' : call.settled
        /\ job' \in Job \cup {None}
    BY <1>1, CancelSettles
  <1>4. TypeOK'
    BY <1>1, <1>2, <1>3 DEF TypeOK
  <1>5. JobSane'
    <2>1. SUFFICES ASSUME job' # None PROVE JobSane'
      BY DEF JobSane
    <2>2. /\ job # None /\ job'.fp = job.fp /\ job'.attempt = job.attempt
          /\ job'.phase \notin {"attempt", "backoff"}
          /\ job'.phase = "woken" => job.phase = "woken"
      BY <1>1, <2>1, CancelSettles
    <2>3. job.fp.session \in Nat /\ job.fp.session <= sessionEpoch
      BY <1>2, <2>2 DEF IInv, JobSane, Job, Fingerprint
    <2>4. job'.fp.session < sessionEpoch'
      BY <1>1, <1>2, <2>2, <2>3
    <2>5. job'.phase = "woken" => job'.attempt < LastAttempt
      BY <2>2 DEF IInv, JobSane
    <2>6. job'.fp.session \in Nat /\ sessionEpoch' \in Nat
      BY <1>1, <1>2, <2>2, <2>3
    <2>7. QED BY <2>2, <2>4, <2>5, <2>6 DEF JobSane
  <1>6. CallsSane'
    BY <1>3 DEF CallsSane
  <1>7. QED BY <1>4, <1>5, <1>6 DEF IInv

\* With the results cleared, any change of the configuration keeps the invariant.
LEMMA ConfigurationChange ==
    ASSUME IInv, InvalidateSession, ClearResults,
           position' \in Position \cup {None},
           enabled' \in BOOLEAN, closed' \in BOOLEAN,
           source' \in Source \cup {None}, target' \in Language,
           selection' \in Selection \cup {None},
           status' \in Status, requestSequence' = requestSequence
    PROVE  IInv'
  <1>1. /\ translations' = Blank /\ overlay' = Blank /\ failed' = {} /\ cache' = {}
        /\ runningEpoch' = None /\ visibleFailure' = "none"
    BY DEF ClearResults, ResetSessionFeedback
  <1>2. Blank \in [Cue -> Origin \cup {None}]
    BY DEF Blank
  <1>3. NothingStale'
    BY <1>1 DEF NothingStale, Translated, Blank
  <1>4. QED BY <1>1, <1>2, <1>3, NewSession

-----------------------------------------------------------------------------
\* Every call of the owner but the tick keeps the invariant.
LEMMA OwnerCallsPreserve ==
    ASSUME IInv,
           \/ \E s \in Source \cup {None} : SetSource(s)
           \/ \E l \in Language : SetTargetLanguage(l)
           \/ \E s \in Selection : SetProviderSelection(s)
           \/ ClearProviderSelection \/ EndFile \/ Close
           \/ Enable \/ Disable \/ SetEnabledUnchanged
           \/ \E p \in Position \cup {None} : OnSeek(p)
    PROVE  IInv'
  <1> USE DEF IInv, TypeOK
  <1>1. ASSUME NEW s \in Source \cup {None}, SetSource(s)
        PROVE  IInv'
    <2>1. status' \in Status
      BY <1>1, StatusTyped DEF SetSource
    <2>2. QED BY <1>1, <2>1, ConfigurationChange DEF SetSource
  <1>2. ASSUME NEW l \in Language, SetTargetLanguage(l)
        PROVE  IInv'
    <2>1. status' \in Status
      BY <1>2, StatusTyped DEF SetTargetLanguage
    <2>2. QED BY <1>2, <2>1, ConfigurationChange DEF SetTargetLanguage
  <1>3. ASSUME NEW s \in Selection, SetProviderSelection(s)
        PROVE  IInv'
    <2>1. status' \in Status
      BY <1>3, StatusTyped DEF SetProviderSelection
    <2>2. QED BY <1>3, <2>1, ConfigurationChange DEF SetProviderSelection
  <1>4. CASE ClearProviderSelection
    <2>1. status' \in Status
      BY <1>4 DEF ClearProviderSelection, Status
    <2>2. QED BY <1>4, <2>1, ConfigurationChange DEF ClearProviderSelection
  <1>5. CASE EndFile
    <2>1. status' \in Status
      BY <1>5, StatusTyped DEF EndFile
    <2>2. QED BY <1>5, <2>1, ConfigurationChange DEF EndFile
  <1>6. CASE Close
    <2>1. status' \in Status
      BY <1>6 DEF Close, Status
    <2>2. QED BY <1>6, <2>1, ConfigurationChange DEF Close, configVars
  <1>7. CASE Enable
    <2>1. status' \in Status
      BY <1>7, StatusTyped DEF Enable
    <2>2. NothingStale'
      BY <1>7 DEF Enable, NothingStale, Translated, CurrentOrigin, CacheIdentity, configVars
    <2>3. QED
      BY <1>7, <2>1, <2>2, NewSession DEF Enable, ResetSessionFeedback, configVars
  <1>8. CASE Disable
    <2>1. status' \in Status /\ Blank \in [Cue -> Origin \cup {None}]
      BY <1>8 DEF Disable, Status, Blank
    <2>2. NothingStale'
      BY <1>8 DEF Disable, NothingStale, Translated, CurrentOrigin, CacheIdentity,
                  configVars, resultVars
    <2>3. QED
      BY <1>8, <2>1, <2>2, NewSession
      DEF Disable, ResetSessionFeedback, configVars, resultVars
  <1>9. CASE SetEnabledUnchanged
    <2>1. status' \in Status
      BY <1>9, StatusTyped DEF SetEnabledUnchanged
    <2>2. TypeOK'
      BY <1>9, <2>1
      DEF SetEnabledUnchanged, sessionVars, configVars, resultVars, jobVars
    <2>3. JobSane' /\ CallsSane' /\ NothingStale'
      BY <1>9
      DEF SetEnabledUnchanged, sessionVars, configVars, resultVars, jobVars,
          JobSane, JobOfThisSession, CallsSane, NothingStale, Translated,
          CurrentOrigin, CacheIdentity, CurrentFingerprint
    <2>4. QED BY <2>2, <2>3
  <1>10. ASSUME NEW p \in Position \cup {None}, OnSeek(p)
         PROVE  IInv'
    <2>1. status' \in Status
      BY <1>10, StatusTyped DEF OnSeek
    <2>2. CancelPending /\ windowEpoch' = windowEpoch + 1 /\ sessionEpoch' = sessionEpoch
      BY <1>10 DEF OnSeek
    <2>3. /\ enabled' = enabled /\ closed' = closed
          /\ source' = source /\ target' = target /\ selection' = selection
          /\ translations' = translations /\ cache' = cache
      BY <1>10 DEF OnSeek, configVars, resultVars
    <2>4. TypeOK'
      <3>1. Blank \in [Cue -> Origin \cup {None}]
        BY DEF Blank
      <3>2. calls' \subseteq Call /\ job' \in Job \cup {None}
        BY <2>2, CancelSettles
      <3>3. QED BY <1>10, <2>1, <3>1, <3>2 DEF OnSeek, configVars, resultVars
    <2>5. JobSane'
      <3>1. SUFFICES ASSUME job' # None PROVE JobSane'
        BY DEF JobSane
      <3>2. /\ job # None /\ job'.fp = job.fp /\ job'.attempt = job.attempt
            /\ job'.origin = job.origin /\ job'.identity = job.identity
            /\ job'.remaining = job.remaining
            /\ job'.phase \notin {"attempt", "backoff"}
            /\ job'.phase = "woken" => job.phase = "woken"
        BY <2>2, <3>1, CancelSettles
      <3>3. job.fp.session = sessionEpoch => JobOfThisSession'
        <4>1. job.fp.window \in Nat /\ windowEpoch \in Nat
          BY <3>2 DEF Job, Fingerprint
        <4>2. QED
          BY <2>2, <2>3, <3>2, <4>1
          DEF JobSane, JobOfThisSession, CurrentOrigin, CacheIdentity
      <3>4. QED BY <2>2, <3>2, <3>3 DEF JobSane
    <2>6. CallsSane'
      BY <2>2, CancelSettles DEF CallsSane
    <2>7. NothingStale'
      BY <2>3 DEF NothingStale, Translated, CurrentOrigin, CacheIdentity
    <2>8. QED BY <2>4, <2>5, <2>6, <2>7
  <1>11. QED BY <1>1, <1>2, <1>3, <1>4, <1>5, <1>6, <1>7, <1>8, <1>9, <1>10

-----------------------------------------------------------------------------
\* What a tick shows and recalls is well typed, and what it recalls from the
\* cache was made for the current configuration.
LEMMA RecalledFresh ==
    ASSUME IInv, source # None, selection # None, NEW p \in Position
    PROVE  /\ Recalled(p) \in [Cue -> Origin \cup {None}]
           /\ \A c \in Cue : Recalled(p)[c] # None =>
                Recalled(p)[c] = CurrentOrigin /\ c \in CuesOf[source]
  <1>1. source \in Source /\ selection \in Selection /\ target \in Language
    BY DEF IInv, TypeOK
  <1>2. CurrentOrigin \in Origin
    BY <1>1 DEF CurrentOrigin, Origin
  <1>3. SUFFICES ASSUME NEW c \in Cue
                 PROVE  /\ Recalled(p)[c] \in Origin \cup {None}
                        /\ Recalled(p)[c] # None =>
                             Recalled(p)[c] = CurrentOrigin /\ c \in CuesOf[source]
    BY DEF Recalled
  <1>4. CASE \E e \in cache : e.identity = CacheIdentity /\ e.cue = c /\ c \in Window(p)
    <2> DEFINE entry == CHOOSE e \in cache : e.identity = CacheIdentity /\ e.cue = c
    <2>1. entry \in cache
      BY <1>4
    <2>2. Recalled(p)[c] = entry.text
      BY <1>4 DEF Recalled
    <2>3. entry.text = CurrentOrigin
      BY <2>1 DEF IInv, NothingStale
    <2>4. c \in CuesOf[source]
      BY <1>4 DEF Window
    <2>5. QED BY <1>2, <2>2, <2>3, <2>4
  <1>5. CASE ~ \E e \in cache : e.identity = CacheIdentity /\ e.cue = c /\ c \in Window(p)
    <2>1. Recalled(p)[c] = translations[c]
      BY <1>5 DEF Recalled
    <2>2. QED BY <2>1 DEF IInv, TypeOK, NothingStale, Translated
  <1>6. QED BY <1>4, <1>5

\* What is drawn at a position is a line of the table, or nothing, for each cue.
LEMMA ShownTyped ==
    ASSUME NEW p, NEW tr \in [Cue -> Origin \cup {None}]
    PROVE  Shown(tr, p) \in [Cue -> Origin \cup {None}]
  BY DEF Shown

\* A batch is made of cues of the current track.
LEMMA BatchOfTrack ==
    ASSUME NEW p
    PROVE  FirstBatch(Pending(p)) \subseteq CuesOf[source]
  <1>1. FirstBatch(Pending(p)) \subseteq Pending(p)
    BY DEF FirstBatch
  <1>2. Pending(p) \subseteq CuesOf[source]
    BY DEF Pending, Window
  <1>3. QED BY <1>1, <1>2

\* A tick that starts no batch keeps the invariant.
LEMMA QuietTickPreserves ==
    ASSUME IInv, NEW p \in Position \cup {None},
           TickIdle(p) \/ TickUnconfigured(p) \/ TickNothingPending(p) \/ TickOversized(p)
    PROVE  IInv'
  <1>1. /\ position' = p /\ overlay' = Shown(translations, p)
        /\ sessionEpoch' = sessionEpoch /\ windowEpoch' = windowEpoch
        /\ enabled' = enabled /\ closed' = closed
        /\ source' = source /\ target' = target /\ selection' = selection
    BY DEF TickIdle, TickUnconfigured, TickNothingPending, TickOversized,
           FollowPosition, configVars
  <1>2. /\ failed' = failed /\ cache' = cache
        /\ runningEpoch' = runningEpoch /\ visibleFailure' = visibleFailure
        /\ job' = job /\ calls' = calls /\ requestSequence' = requestSequence
    BY DEF TickIdle, TickUnconfigured, TickNothingPending, TickOversized,
           resultVars, feedbackVars, jobVars
  <1>3. status' \in Status
    BY StatusTyped DEF TickIdle, TickUnconfigured, TickNothingPending, TickOversized,
           feedbackVars, IInv, TypeOK, Status
  <1>4. overlay' \in [Cue -> Origin \cup {None}]
    BY <1>1, ShownTyped DEF IInv, TypeOK
  <1>5. /\ translations' \in [Cue -> Origin \cup {None}]
        /\ \A c \in Cue : translations'[c] # None =>
             translations'[c] = CurrentOrigin /\ c \in CuesOf[source]
    <2>1. CASE translations' = translations
      BY <2>1 DEF IInv, TypeOK, NothingStale, Translated
    <2>2. CASE ~Idle(p) /\ selection # None /\ translations' = Recalled(p)
      BY <2>2, RecalledFresh DEF Idle
    <2>3. QED
      BY <2>1, <2>2 DEF TickIdle, TickUnconfigured, TickNothingPending, TickOversized,
                        resultVars
  <1>6. TypeOK'
    BY <1>1, <1>2, <1>3, <1>4, <1>5 DEF IInv, TypeOK
  <1>7. JobSane' /\ CallsSane'
    BY <1>1, <1>2 DEF IInv, JobSane, JobOfThisSession, CallsSane, CurrentOrigin,
                      CacheIdentity, CurrentFingerprint
  <1>8. NothingStale'
    BY <1>1, <1>2, <1>5 DEF IInv, NothingStale, Translated, CurrentOrigin, CacheIdentity
  <1>9. QED BY <1>6, <1>7, <1>8 DEF IInv

\* So does a tick that starts one: its job and its call are of this moment.
LEMMA StartingTickPreserves ==
    ASSUME IInv, NEW p \in Position \cup {None}, TickStartsBatch(p)
    PROVE  IInv'
  <1>1. /\ position' = p /\ overlay' = Shown(translations, p)
        /\ sessionEpoch' = sessionEpoch /\ windowEpoch' = windowEpoch
        /\ enabled' = enabled /\ closed' = closed /\ ~closed
        /\ source' = source /\ target' = target /\ selection' = selection
        /\ translations' = Recalled(p) /\ failed' = failed /\ cache' = cache
        /\ runningEpoch' = runningEpoch /\ visibleFailure' = visibleFailure
        /\ requestSequence' = requestSequence + 1
    BY DEF TickStartsBatch, FollowPosition, configVars
  <1>2. enabled /\ source \in Source /\ selection \in Selection /\ p \in Position
        /\ target \in Language /\ source # None /\ selection # None /\ job = None
    BY DEF TickStartsBatch, Idle, IInv, TypeOK
  <1>3. status' \in Status
    BY StatusTyped DEF TickStartsBatch, IInv, TypeOK
  <1>4. overlay' \in [Cue -> Origin \cup {None}]
    BY <1>1, ShownTyped DEF IInv, TypeOK
  <1>5. /\ translations' \in [Cue -> Origin \cup {None}]
        /\ \A c \in Cue : translations'[c] # None =>
             translations'[c] = CurrentOrigin /\ c \in CuesOf[source]
    BY <1>1, <1>2, RecalledFresh
  <1> DEFINE batch == FirstBatch(Pending(p))
             next == [request |-> requestSequence + 1, fp |-> CurrentFingerprint,
                      identity |-> CacheIdentity, origin |-> CurrentOrigin,
                      remaining |-> batch, attempt |-> 0,
                      phase |-> "attempt", error |-> "none", given |-> {}]
  <1>6. job' = next /\ calls' = calls \cup {CallOf(next)}
    BY <1>1, <1>2 DEF TickStartsBatch, StartAttempt, Accepts, CurrentOrigin, CacheIdentity
  <1>7. batch \subseteq CuesOf[source] /\ batch \subseteq Cue
    BY <1>2, BatchOfTrack, ControllerAssumption
  <1>8. CurrentOrigin \in Origin /\ CacheIdentity \in Identity
        /\ CurrentFingerprint \in Fingerprint /\ requestSequence + 1 \in Nat
        /\ sessionEpoch \in Nat /\ windowEpoch \in Nat /\ 0 \in 0..LastAttempt
    BY <1>2, ControllerAssumption DEF CurrentOrigin, CacheIdentity, CurrentFingerprint,
       Origin, Identity, Fingerprint, IInv, TypeOK
  <1>9. next \in Job /\ CallOf(next) \in Call
    BY <1>7, <1>8 DEF Job, Call, CallOf
  <1>10. TypeOK'
    BY <1>1, <1>3, <1>4, <1>5, <1>6, <1>8, <1>9 DEF IInv, TypeOK
  <1>11. JobSane'
    <2>1. job'.fp = CurrentFingerprint /\ job'.phase = "attempt"
          /\ job'.origin = CurrentOrigin /\ job'.identity = CacheIdentity
          /\ job'.remaining = batch
      BY <1>6
    <2>2. CurrentFingerprint' = CurrentFingerprint /\ CurrentOrigin' = CurrentOrigin
          /\ CacheIdentity' = CacheIdentity
      BY <1>1 DEF CurrentFingerprint, CurrentOrigin, CacheIdentity
    <2>3. job'.fp.session = sessionEpoch /\ job'.fp.window = windowEpoch
      BY <2>1 DEF CurrentFingerprint
    <2>4. QED
      BY <1>1, <1>2, <1>7, <1>8, <2>1, <2>2, <2>3 DEF JobSane, JobOfThisSession
  <1>12. CallsSane'
    <2>1. \A call \in calls : call.settled
      BY <1>2 DEF IInv, CallsSane
    <2>2. job' # None /\ job' = next
      BY <1>6, <1>9, NoneIsNoValue
    <2>3. /\ CallOf(next).request = job'.request /\ CallOf(next).attempt = job'.attempt
          /\ CallOf(next).fp = job'.fp /\ CallOf(next).origin = job'.origin
          /\ job'.phase = "attempt"
      BY <2>2 DEF CallOf
    <2> HIDE DEF next
    <2>4. \A call \in calls' : ~call.settled => call = CallOf(next)
      BY <1>6, <2>1
    <2>5. QED BY <2>2, <2>3, <2>4 DEF CallsSane
  <1>13. NothingStale'
    BY <1>1, <1>5 DEF IInv, NothingStale, Translated, CurrentOrigin, CacheIdentity
  <1>14. QED BY <1>10, <1>11, <1>12, <1>13 DEF IInv

-----------------------------------------------------------------------------
\* Storing texts of the current configuration for cues of the job's batch keeps
\* the results well typed and current.
LEMMA StoreKeepsFresh ==
    ASSUME IInv, job # None, JobOfThisSession,
           NEW accepted \in SUBSET job.remaining, Store(accepted, CurrentOrigin),
           source' = source, target' = target, selection' = selection
    PROVE  /\ translations' \in [Cue -> Origin \cup {None}]
           /\ cache' \subseteq CacheEntry
           /\ NothingStale'
  <1>1. /\ source \in Source /\ selection \in Selection /\ target \in Language
        /\ CurrentOrigin \in Origin /\ CacheIdentity \in Identity
    BY ControllerAssumption
    DEF IInv, TypeOK, JobOfThisSession, CurrentOrigin, CacheIdentity, Origin, Identity
  <1>2. accepted \subseteq CuesOf[source] /\ accepted \subseteq Cue
    BY <1>1, ControllerAssumption DEF JobOfThisSession
  <1>3. translations' = [c \in Cue |-> IF c \in accepted THEN CurrentOrigin
                                       ELSE translations[c]]
    BY DEF Store
  <1>4. translations' \in [Cue -> Origin \cup {None}]
    BY <1>1, <1>3 DEF IInv, TypeOK
  <1>5. \A e \in cache' :
           \/ e \in cache
           \/ \E c \in accepted :
                e = [identity |-> CacheIdentity, cue |-> c, text |-> CurrentOrigin]
    BY DEF Store, JobOfThisSession
  <1>6. cache' \subseteq CacheEntry
    BY <1>1, <1>2, <1>5 DEF IInv, TypeOK, CacheEntry
  <1>7. \A e \in cache' : e.text = CurrentOrigin /\ e.identity = CacheIdentity
    BY <1>5 DEF IInv, NothingStale
  <1>8. \A c \in Cue : translations'[c] # None =>
           translations'[c] = CurrentOrigin /\ c \in CuesOf[source]
    BY <1>2, <1>3 DEF IInv, NothingStale, Translated
  <1>9. CurrentOrigin' = CurrentOrigin /\ CacheIdentity' = CacheIdentity
    BY DEF CurrentOrigin, CacheIdentity
  <1>10. NothingStale'
    BY <1>7, <1>8, <1>9 DEF NothingStale, Translated
  <1>11. QED BY <1>4, <1>6, <1>10

\* What a provider sends, progress or settlement, keeps the invariant.
LEMMA ProviderPreserves ==
    ASSUME IInv, NEW call \in calls, NEW given \in SUBSET Cue, NEW error \in Failure,
           Progress(call, given) \/ Succeed(call, given) \/ Fail(call, error)
    PROVE  IInv'
  <1>1. CASE Progress(call, given) /\ TakesProgress(call) /\ given \cap job.remaining # {}
    <2> DEFINE accepted == given \cap job.remaining
    <2>1. /\ Store(accepted, call.origin)
          /\ job' = [job EXCEPT !.remaining = @ \ accepted]
          /\ overlay' = Shown(translations', position)
          /\ runningEpoch' = call.fp.session /\ visibleFailure' = "none"
          /\ sessionEpoch' = sessionEpoch /\ windowEpoch' = windowEpoch
          /\ position' = position /\ enabled' = enabled /\ closed' = closed
          /\ source' = source /\ target' = target /\ selection' = selection
          /\ failed' = failed /\ calls' = calls /\ requestSequence' = requestSequence
          /\ status' = CurrentSessionStatus'
      BY <1>1 DEF Progress, sessionVars, configVars
    <2>2. /\ job # None /\ job \in Job /\ job.phase = "attempt" /\ ~call.settled
          /\ job.fp = CurrentFingerprint /\ job.fp.session = sessionEpoch
          /\ job.fp = call.fp /\ job.origin = call.origin
      BY <1>1 DEF TakesProgress, IInv, TypeOK, JobSane, CallsSane, CurrentFingerprint
    <2>3. JobOfThisSession
      BY <2>2 DEF IInv, JobSane
    <2>4. Store(accepted, CurrentOrigin)
      BY <2>1, <2>2, <2>3 DEF JobOfThisSession
    <2>5. /\ translations' \in [Cue -> Origin \cup {None}]
          /\ cache' \subseteq CacheEntry
          /\ NothingStale'
      BY <2>1, <2>2, <2>3, <2>4, StoreKeepsFresh
    <2>6. /\ job' \in Job /\ job'.phase = job.phase /\ job'.fp = job.fp
          /\ job'.request = job.request /\ job'.attempt = job.attempt
          /\ job'.origin = job.origin /\ job'.identity = job.identity
          /\ job'.remaining \subseteq job.remaining
      BY <2>1, <2>2 DEF Job
    <2>7. TypeOK'
      <3>1. status' \in Status
        BY <2>1, StatusTyped DEF IInv, TypeOK
      <3>2. overlay' \in [Cue -> Origin \cup {None}]
        BY <2>1, <2>5, ShownTyped
      <3>3. call.fp.session \in Nat
        BY <2>2 DEF IInv, TypeOK
      <3>4. QED BY <2>1, <2>5, <2>6, <3>1, <3>2, <3>3 DEF IInv, TypeOK
    <2>8. JobSane'
      BY <2>1, <2>2, <2>3, <2>6
      DEF IInv, JobSane, JobOfThisSession, CurrentOrigin, CacheIdentity, CurrentFingerprint
    <2>9. CallsSane'
      BY <2>1, <2>2, <2>6, NoneIsNoValue DEF IInv, CallsSane
    <2>10. QED BY <2>5, <2>7, <2>8, <2>9 DEF IInv
  <1>2. CASE Progress(call, given) /\ ~(TakesProgress(call) /\ given \cap job.remaining # {})
    <2>1. UNCHANGED vars
      BY <1>2 DEF Progress
    <2>2. QED
      BY <2>1 DEF vars, sessionVars, configVars, resultVars, feedbackVars, jobVars,
         IInv, TypeOK, JobSane, JobOfThisSession, CallsSane, NothingStale, Translated,
         CurrentOrigin, CacheIdentity, CurrentFingerprint
  <1>3. ASSUME NEW e \in Failure \cup {"none"}, NEW g \in SUBSET Cue, Settle(call, e, g)
        PROVE  IInv'
    <2>1. /\ calls' = calls \ {call} /\ requestSequence' = requestSequence
          /\ sessionEpoch' = sessionEpoch /\ windowEpoch' = windowEpoch
          /\ position' = position /\ enabled' = enabled /\ closed' = closed
          /\ source' = source /\ target' = target /\ selection' = selection
          /\ translations' = translations /\ failed' = failed /\ cache' = cache
          /\ runningEpoch' = runningEpoch /\ visibleFailure' = visibleFailure
          /\ status' = status /\ overlay' = overlay
      BY <1>3 DEF Settle, sessionVars, configVars, resultVars, feedbackVars
    <2>2. NothingStale'
      BY <2>1 DEF IInv, NothingStale, Translated, CurrentOrigin, CacheIdentity
    <2>3. CASE call.settled
      <3>1. job' = job
        BY <1>3, <2>3 DEF Settle
      <3>2. TypeOK'
        BY <2>1, <3>1 DEF IInv, TypeOK
      <3>3. JobSane' /\ CallsSane'
        BY <2>1, <3>1 DEF IInv, JobSane, JobOfThisSession, CallsSane, CurrentOrigin,
                          CacheIdentity, CurrentFingerprint
      <3>4. QED BY <2>2, <3>2, <3>3 DEF IInv
    <2>4. CASE ~call.settled
      <3>1. job' = [job EXCEPT !.phase = "answered", !.error = e, !.given = g]
        BY <1>3, <2>4 DEF Settle
      <3>2. /\ job # None /\ job \in Job /\ job.phase = "attempt"
            /\ job.request = call.request /\ job.attempt = call.attempt
        BY <2>4 DEF IInv, TypeOK, CallsSane
      <3>3. job' \in Job
        BY <3>1, <3>2 DEF Job
      <3>4. /\ job'.phase = "answered" /\ job'.fp = job.fp
            /\ job'.origin = job.origin /\ job'.identity = job.identity
            /\ job'.remaining = job.remaining
        BY <3>1, <3>2 DEF Job
      <3>5. TypeOK'
        BY <2>1, <3>3 DEF IInv, TypeOK
      <3>6. JobSane'
        BY <2>1, <3>2, <3>4 DEF IInv, JobSane, JobOfThisSession, CurrentOrigin,
                                CacheIdentity, CurrentFingerprint
      <3>7. \A other \in calls' : other.settled
        BY <2>1, <2>4 DEF IInv, CallsSane
      <3>8. QED BY <2>2, <3>5, <3>6, <3>7 DEF IInv, CallsSane
    <2>5. QED BY <2>3, <2>4
  <1>4. QED BY <1>1, <1>2, <1>3 DEF Succeed, Fail

-----------------------------------------------------------------------------
\* The code after the attempt's await keeps the invariant: it writes texts only
\* under an accepted fingerprint, hence in the session the job was started in.
LEMMA ResumePreserves ==
    ASSUME IInv, RetryLater \/ FinishBatch
    PROVE  IInv'
  <1>1. /\ job # None /\ job \in Job /\ job.phase = "answered"
        /\ Accepts(job.fp) /\ job.fp.session = sessionEpoch
    BY DEF RetryLater, FinishBatch, Live, Accepts, CurrentFingerprint, IInv, TypeOK
  <1>2. JobOfThisSession
    BY <1>1 DEF IInv, JobSane
  <1>3. /\ sessionEpoch' = sessionEpoch /\ windowEpoch' = windowEpoch
        /\ position' = position /\ enabled' = enabled /\ closed' = closed
        /\ source' = source /\ target' = target /\ selection' = selection
        /\ calls' = calls /\ requestSequence' = requestSequence
    BY DEF RetryLater, FinishBatch, sessionVars, configVars
  <1>4. TakeResult /\ Store(Accepted, CurrentOrigin)
    BY <1>2 DEF RetryLater, FinishBatch, TakeResult, JobOfThisSession
  <1>5. Accepted \subseteq job.remaining /\ Left \subseteq job.remaining
    BY DEF Accepted, Left
  <1>6. /\ translations' \in [Cue -> Origin \cup {None}]
        /\ cache' \subseteq CacheEntry
        /\ NothingStale'
    BY <1>1, <1>2, <1>3, <1>4, <1>5, StoreKeepsFresh
  <1>7. overlay' \in [Cue -> Origin \cup {None}]
    BY <1>4, <1>6, ShownTyped DEF TakeResult, IInv, TypeOK
  <1>8. runningEpoch' \in Nat \cup {None}
    BY <1>1, <1>4 DEF TakeResult, IInv, TypeOK
  <1>9. job.remaining \subseteq Cue
    BY <1>1 DEF Job
  <1>10. CASE RetryLater
    <2>1. job' = [job EXCEPT !.remaining = Left, !.phase = "backoff",
                             !.error = "none", !.given = {}]
      BY <1>10 DEF RetryLater
    <2>2. Left \in SUBSET Cue /\ {} \in SUBSET Cue
      BY <1>5, <1>9
    <2>3. /\ job' \in Job /\ job'.phase = "backoff" /\ job'.fp = job.fp
          /\ job'.attempt = job.attempt /\ job'.origin = job.origin
          /\ job'.identity = job.identity /\ job'.remaining \subseteq job.remaining
      BY <1>1, <1>5, <2>1, <2>2 DEF Job
    <2>4. job.attempt < LastAttempt
      BY <1>10 DEF RetryLater, Retries
    <2>5. TypeOK'
      BY <1>3, <1>6, <1>7, <1>8, <1>10, <2>3 DEF RetryLater, IInv, TypeOK
    <2>6. JobSane'
      BY <1>1, <1>2, <1>3, <2>3, <2>4
      DEF IInv, JobSane, JobOfThisSession, Accepts, CurrentOrigin, CacheIdentity,
          CurrentFingerprint
    <2>7. CallsSane'
      BY <1>1, <1>3 DEF IInv, CallsSane
    <2>8. QED BY <1>6, <2>5, <2>6, <2>7 DEF IInv
  <1>11. CASE FinishBatch
    <2>1. job' = [job EXCEPT !.remaining = Left, !.phase = "done"]
      BY <1>11 DEF FinishBatch
    <2>2. Left \in SUBSET Cue
      BY <1>5, <1>9
    <2>3. /\ job' \in Job /\ job'.phase = "done" /\ job'.fp = job.fp
          /\ job'.origin = job.origin
          /\ job'.identity = job.identity /\ job'.remaining \subseteq job.remaining
      BY <1>1, <1>5, <2>1, <2>2 DEF Job
    <2>4. failed' \subseteq Cue
      BY <1>11, <2>2 DEF FinishBatch, IInv, TypeOK
    <2>5. visibleFailure' \in {"none", "retryable", "fatal"}
      <3>1. job.error \in Failure \cup {"none"}
        BY <1>1 DEF Job
      <3>2. GivesUp => AttemptError \in {"retryable", "fatal"}
        BY <3>1 DEF GivesUp, AttemptError, Failure
      <3>3. QED BY <1>11, <3>2 DEF FinishBatch, IInv, TypeOK
    <2>6. status' \in Status
      BY <1>3, <1>11, StatusTyped DEF FinishBatch, IInv, TypeOK
    <2>7. TypeOK'
      BY <1>3, <1>6, <1>7, <1>8, <2>3, <2>4, <2>5, <2>6 DEF IInv, TypeOK
    <2>8. JobSane'
      BY <1>1, <1>2, <1>3, <2>3
      DEF IInv, JobSane, JobOfThisSession, CurrentOrigin, CacheIdentity, CurrentFingerprint
    <2>9. CallsSane'
      BY <1>1, <1>3 DEF IInv, CallsSane
    <2>10. QED BY <1>6, <2>7, <2>8, <2>9 DEF IInv
  <1>12. QED BY <1>10, <1>11

\* The steps of the job that touch only the job keep the invariant.
LEMMA JobStepsPreserve ==
    ASSUME IInv, AbandonBatch \/ RetryTimerFires \/ NextAttempt \/ ReleasePipeline
    PROVE  IInv'
  <1>1. /\ sessionEpoch' = sessionEpoch /\ windowEpoch' = windowEpoch
        /\ position' = position /\ enabled' = enabled /\ closed' = closed
        /\ source' = source /\ target' = target /\ selection' = selection
        /\ translations' = translations /\ failed' = failed /\ cache' = cache
        /\ runningEpoch' = runningEpoch /\ visibleFailure' = visibleFailure
        /\ status' = status /\ overlay' = overlay /\ requestSequence' = requestSequence
    BY DEF AbandonBatch, RetryTimerFires, NextAttempt, ReleasePipeline,
           sessionVars, configVars, resultVars, feedbackVars
  <1>2. job # None /\ job \in Job /\ job.phase # "attempt"
    BY DEF AbandonBatch, Stale, RetryTimerFires, NextAttempt, ReleasePipeline, IInv, TypeOK
  <1>3. \A call \in calls : call.settled
    BY <1>2 DEF IInv, CallsSane
  <1>4. NothingStale'
    BY <1>1 DEF IInv, NothingStale, Translated, CurrentOrigin, CacheIdentity
  <1>5. CASE ReleasePipeline
    BY <1>1, <1>3, <1>4, <1>5 DEF ReleasePipeline, IInv, TypeOK, JobSane, CallsSane
  <1>6. ASSUME NEW ph \in {"woken", "done"}, job' = [job EXCEPT !.phase = ph],
               ph = "woken" => job.attempt < LastAttempt, calls' = calls
        PROVE  IInv'
    <2>1. /\ job' \in Job /\ job'.phase = ph /\ job'.fp = job.fp
          /\ job'.attempt = job.attempt /\ job'.origin = job.origin
          /\ job'.identity = job.identity /\ job'.remaining = job.remaining
      BY <1>2, <1>6 DEF Job
    <2>2. JobSane'
      BY <1>1, <1>2, <1>6, <2>1
      DEF IInv, JobSane, JobOfThisSession, CurrentOrigin, CacheIdentity, CurrentFingerprint
    <2>3. TypeOK' /\ CallsSane'
      BY <1>1, <1>3, <1>6, <2>1 DEF IInv, TypeOK, CallsSane
    <2>4. QED BY <1>4, <2>2, <2>3 DEF IInv
  <1>7. CASE AbandonBatch
    BY <1>6, <1>7 DEF AbandonBatch
  <1>8. CASE RetryTimerFires
    <2>1. job.attempt < LastAttempt
      BY <1>2, <1>8 DEF RetryTimerFires, IInv, JobSane
    <2>2. QED BY <1>6, <1>8, <2>1 DEF RetryTimerFires
  <1>9. CASE NextAttempt
    <2> DEFINE j == [job EXCEPT !.attempt = @ + 1]
               next == [j EXCEPT !.phase = "attempt",
                                 !.origin = [source |-> j.identity.source,
                                             target |-> j.identity.target,
                                             selection |-> selection]]
    <2>1. job.attempt + 1 \in 0..LastAttempt
      BY <1>2, <1>9, ControllerAssumption DEF NextAttempt, IInv, JobSane, Job
    <2>2. j \in Job /\ j.fp = job.fp /\ j.identity = job.identity /\ j.phase = "woken"
          /\ j.remaining = job.remaining /\ j.origin = job.origin
      BY <1>2, <1>9, <2>1 DEF Job, NextAttempt
    <2>3. CASE Accepts(j.fp) /\ source # None
      <3>1. job' = next /\ calls' = calls \cup {CallOf(next)}
        BY <1>9, <2>3 DEF NextAttempt, StartAttempt
      <3>2. job.fp = CurrentFingerprint /\ job.fp.session = sessionEpoch
        BY <2>2, <2>3 DEF Accepts, CurrentFingerprint
      <3>3. JobOfThisSession
        BY <1>2, <3>2 DEF IInv, JobSane
      <3>4. [source |-> j.identity.source, target |-> j.identity.target,
             selection |-> selection] = CurrentOrigin
        BY <2>2, <3>3 DEF JobOfThisSession, CacheIdentity, CurrentOrigin
      <3>5. CurrentOrigin \in Origin
        BY <3>3 DEF JobOfThisSession, CurrentOrigin, Origin, IInv, TypeOK
      <3>6. next = [j EXCEPT !.phase = "attempt", !.origin = CurrentOrigin]
        BY <3>4
      <3>7. /\ next \in Job /\ next.fp = job.fp /\ next.identity = job.identity
            /\ next.phase = "attempt" /\ next.remaining = job.remaining
            /\ next.origin = CurrentOrigin
        BY <2>2, <3>5, <3>6 DEF Job
      <3> HIDE DEF next, j
      <3>8. CallOf(next) \in Call /\ job' # None
        BY <3>1, <3>7, NoneIsNoValue DEF CallOf, Call, Job
      <3>9. TypeOK'
        BY <1>1, <3>1, <3>7, <3>8 DEF IInv, TypeOK
      <3>10. JobSane'
        BY <1>1, <1>2, <3>1, <3>2, <3>3, <3>7
        DEF IInv, JobSane, JobOfThisSession, CurrentOrigin, CacheIdentity,
            CurrentFingerprint
      <3>11. CallsSane'
        <4>1. /\ CallOf(next).request = job'.request
              /\ CallOf(next).attempt = job'.attempt
              /\ CallOf(next).fp = job'.fp /\ CallOf(next).origin = job'.origin
          BY <3>1 DEF CallOf
        <4>2. \A call \in calls' : ~call.settled => call = CallOf(next)
          BY <1>3, <3>1
        <4>3. QED BY <3>1, <3>7, <3>8, <4>1, <4>2 DEF CallsSane
      <3>12. QED BY <1>4, <3>9, <3>10, <3>11 DEF IInv
    <2>4. CASE ~(Accepts(j.fp) /\ source # None)
      <3>1. job' = [j EXCEPT !.phase = "done"] /\ calls' = calls
        BY <1>9, <2>4 DEF NextAttempt, StartAttempt
      <3> HIDE DEF j
      <3>2. /\ job' \in Job /\ job'.phase = "done" /\ job'.fp = job.fp
            /\ job'.origin = job.origin /\ job'.identity = job.identity
            /\ job'.remaining = job.remaining
        BY <2>2, <3>1 DEF Job
      <3>3. JobSane'
        BY <1>1, <1>2, <3>1, <3>2
        DEF IInv, JobSane, JobOfThisSession, CurrentOrigin, CacheIdentity,
            CurrentFingerprint
      <3>4. TypeOK' /\ CallsSane'
        BY <1>1, <1>3, <3>1, <3>2 DEF IInv, TypeOK, CallsSane
      <3>5. QED BY <1>4, <3>3, <3>4 DEF IInv
    <2>5. QED BY <2>3, <2>4
  <1>10. QED BY <1>5, <1>7, <1>8, <1>9

-----------------------------------------------------------------------------
\* The state in which main.ts leaves a new controller satisfies the invariant.
LEMMA InitEstablishes == Init => IInv
  <1> SUFFICES ASSUME Init PROVE IInv
    OBVIOUS
  <1>1. Blank \in [Cue -> Origin \cup {None}]
    BY DEF Blank
  <1>2. TypeOK
    BY <1>1 DEF Init, TypeOK, Status
  <1>3. JobSane /\ CallsSane
    BY DEF Init, JobSane, CallsSane
  <1>4. NothingStale
    BY DEF Init, NothingStale, Translated, Blank
  <1>5. QED BY <1>2, <1>3, <1>4 DEF IInv

\* Every step of the owner, of a provider and of the job keeps the invariant.
LEMMA NextPreserves == IInv /\ [Next]_vars => IInv'
  <1> SUFFICES ASSUME IInv, [Next]_vars PROVE IInv'
    OBVIOUS
  <1>1. CASE Owner
    <2>1. CASE \E p \in Position \cup {None} : Tick(p)
      BY <2>1, QuietTickPreserves, StartingTickPreserves DEF Tick
    <2>2. CASE ~ \E p \in Position \cup {None} : Tick(p)
      BY <1>1, <2>2, OwnerCallsPreserve DEF Owner
    <2>3. QED BY <2>1, <2>2
  <1>2. CASE Provider
    <2>1. PICK call \in calls :
            \/ \E given \in SUBSET Cue : Progress(call, given) \/ Succeed(call, given)
            \/ \E error \in Failure : Fail(call, error)
      BY <1>2 DEF Provider
    <2>2. "fatal" \in Failure /\ {} \in SUBSET Cue
      BY DEF Failure
    <2>3. QED BY <2>1, <2>2, ProviderPreserves
  <1>3. CASE Continue
    BY <1>3, ResumePreserves, JobStepsPreserve DEF Continue
  <1>4. CASE UNCHANGED vars
    BY <1>4 DEF vars, sessionVars, configVars, resultVars, feedbackVars, jobVars,
       IInv, TypeOK, JobSane, JobOfThisSession, CallsSane, NothingStale, Translated,
       CurrentOrigin, CacheIdentity, CurrentFingerprint
  <1>5. QED BY <1>1, <1>2, <1>3, <1>4 DEF Next

\* Every variable keeps its type, in every behaviour and for every constant.
THEOREM TypeCorrect == Spec => []TypeOK
  <1>1. Init => IInv
    BY InitEstablishes
  <1>2. IInv /\ [Next]_vars => IInv'
    BY NextPreserves
  <1>3. IInv => TypeOK
    BY DEF IInv
  <1>4. QED BY <1>1, <1>2, <1>3, PTL DEF Spec

\* No text of an earlier subtitle, language or provider selection is ever
\* stored, in the table or in the cache, however late its answer arrives.
THEOREM NeverStale == Spec => []NothingStale
  <1>1. Init => IInv
    BY InitEstablishes
  <1>2. IInv /\ [Next]_vars => IInv'
    BY NextPreserves
  <1>3. IInv => NothingStale
    BY DEF IInv
  <1>4. QED BY <1>1, <1>2, <1>3, PTL DEF Spec

\* A call the provider still works on is of the current fingerprint and
\* configuration, and it is the one the job waits for.
THEOREM LiveCallsAreCurrent == Spec => []LiveCallIsCurrent
  <1>1. Init => IInv
    BY InitEstablishes
  <1>2. IInv /\ [Next]_vars => IInv'
    BY NextPreserves
  <1>3. IInv => LiveCallIsCurrent
    <2>1. SUFFICES ASSUME IInv, NEW call \in calls, ~call.settled
                   PROVE  /\ Accepts(call.fp) /\ call.origin = CurrentOrigin
                          /\ job # None /\ job.phase = "attempt"
                          /\ job.request = call.request /\ job.attempt = call.attempt
      BY DEF LiveCallIsCurrent
    <2>2. /\ job # None /\ job.phase = "attempt"
          /\ job.request = call.request /\ job.attempt = call.attempt
          /\ job.fp = call.fp /\ job.origin = call.origin
      BY <2>1 DEF IInv, CallsSane
    <2>3. job.fp = CurrentFingerprint /\ job.fp.session = sessionEpoch
      BY <2>1, <2>2 DEF IInv, JobSane, CurrentFingerprint
    <2>4. JobOfThisSession
      BY <2>1, <2>2, <2>3 DEF IInv, JobSane
    <2>5. QED BY <2>2, <2>3, <2>4 DEF JobOfThisSession, Accepts
  <1>4. QED BY <1>1, <1>2, <1>3, PTL DEF Spec
-----------------------------------------------------------------------------
(***************************************************************************)
(* The table of cues: the cache mirrors it, the screen shows a part of it, *)
(* and what a job of this session still has to do is open in it.           *)
(***************************************************************************)
JobIsOpen ==
    job # None /\ job.fp.session = sessionEpoch /\ job.phase # "done" =>
        job.remaining \cap (Translated \cup failed) = {}

Table == CacheMirrorsTranslations /\ OverlayExact /\ JobIsOpen

TInv == IInv /\ Table

\* What each step is shown to keep and to be: the table, a step of the abstract
\* session, and calls for open cues only.
NewCallsAreOpen ==
    \A call \in calls' \ calls :
        ~call.settled => call.items \cap (Translated' \cup failed') = {}
SessionStep == [Session!Next]_(Session!sessionVars)
GoodStep == Table' /\ NewCallsAreOpen /\ SessionStep

\* What is drawn are texts of the table, or nothing, and nothing at all when the
\* controller is off or has no subtitle.
LEMMA ShownIsOfTable ==
    ASSUME NEW p, NEW tr
    PROVE  /\ Shown(tr, p) \in [Cue -> {tr[c] : c \in Cue} \cup {None}]
           /\ \A c \in Cue : Shown(tr, p)[c] \in {tr[c], None}
           /\ (~enabled \/ source = None) => Shown(tr, p) = Blank
  BY DEF Shown, Blank

\* The screen shows texts of the table, or nothing, for each cue.
LEMMA ScreenIsOfTable ==
    ASSUME OverlayExact
    PROVE  \A c \in Cue : overlay[c] \in {translations[c], None}
  BY ShownIsOfTable DEF OverlayExact, Blank

\* A tick recalls nothing: what the cache holds is in the table already.
LEMMA NothingToRecall ==
    ASSUME TInv, source # None, selection # None, NEW p \in Position
    PROVE  Recalled(p) = translations
  <1>1. translations \in [Cue -> Origin \cup {None}]
    BY DEF TInv, IInv, TypeOK
  <1>2. ASSUME NEW c \in Cue PROVE Recalled(p)[c] = translations[c]
    <2>1. CASE \E e \in cache : e.identity = CacheIdentity /\ e.cue = c /\ c \in Window(p)
      <3> DEFINE entry == CHOOSE e \in cache : e.identity = CacheIdentity /\ e.cue = c
      <3>1. entry \in cache /\ entry.cue = c
        BY <2>1
      <3>2. Recalled(p)[c] = entry.text
        BY <2>1 DEF Recalled
      <3>3. entry.text = CurrentOrigin
        BY <3>1 DEF TInv, IInv, NothingStale
      <3>4. c \in Translated
        BY <3>1 DEF TInv, Table, CacheMirrorsTranslations
      <3>5. translations[c] = CurrentOrigin
        BY <3>4 DEF TInv, IInv, NothingStale
      <3> QED BY <3>2, <3>3, <3>5
    <2>2. CASE ~ \E e \in cache : e.identity = CacheIdentity /\ e.cue = c /\ c \in Window(p)
      BY <2>2 DEF Recalled
    <2> QED BY <2>1, <2>2
  <1>3. Recalled(p) = [c \in Cue |-> Recalled(p)[c]]
    BY DEF Recalled
  <1> QED BY <1>1, <1>2, <1>3

-----------------------------------------------------------------------------
\* After an invalidation no job is of this session and no call is unsettled.
LEMMA InvalidatedIsOver ==
    ASSUME IInv, InvalidateSession
    PROVE  JobIsOpen' /\ NewCallsAreOpen
  <1>1. CancelPending /\ sessionEpoch' = sessionEpoch + 1 /\ sessionEpoch \in Nat
    BY DEF InvalidateSession, IInv, TypeOK
  <1>2. \A call \in calls' : call.settled
    BY <1>1, CancelSettles
  <1>3. job' # None => job # None /\ job'.fp = job.fp
    BY <1>1, CancelSettles
  <1>4. job # None => job.fp.session \in Nat /\ job.fp.session <= sessionEpoch
    BY DEF IInv, TypeOK, JobSane, Job, Fingerprint
  <1>5. job' # None => job'.fp.session # sessionEpoch'
    BY <1>1, <1>3, <1>4
  <1> QED BY <1>2, <1>5 DEF JobIsOpen, NewCallsAreOpen

\* What clears everything for a new configuration changes the context.
LEMMA ClearingIsGood ==
    ASSUME TInv, InvalidateSession, ClearResults, source' \in Source \cup {None},
           target' \in Language, selection' \in Selection \cup {None},
           \/ enabled' = enabled
           \/ ~enabled' /\ UNCHANGED <<source, target, selection>>
    PROVE  GoodStep
  <1>1. /\ translations' = Blank /\ failed' = {} /\ cache' = {} /\ overlay' = Blank
    BY DEF ClearResults
  <1>2. Translated' = {}
    BY <1>1 DEF Translated, Blank
  <1>3. CacheMirrorsTranslations' /\ OverlayExact'
    BY <1>1, <1>2 DEF CacheMirrorsTranslations, OverlayExact
  <1>4. JobIsOpen' /\ NewCallsAreOpen
    BY InvalidatedIsOver DEF TInv
  <1>5. SessionStep
    <2>1. CASE enabled' = enabled
      <3>1. CurrentOrigin' \in Session!Context
        BY DEF CurrentOrigin, Session!Context
      <3> QED BY <1>1, <2>1, <3>1 DEF SessionStep, Session!Next, Session!ChangeContext, Session!Empty, Blank
    <2>2. CASE ~enabled' /\ UNCHANGED <<source, target, selection>>
      <3>1. CurrentOrigin' = CurrentOrigin
        BY <2>2 DEF CurrentOrigin
      <3> QED BY <1>1, <2>2, <3>1 DEF SessionStep, Session!Next, Session!Close, Session!Empty, Blank
    <2> QED BY <2>1, <2>2
  <1> QED BY <1>3, <1>4, <1>5 DEF GoodStep, Table

\* A step that leaves the table and the context alone, and at most blanks the
\* screen.
LEMMA BlankingIsSessionStep ==
    ASSUME UNCHANGED <<source, target, selection, enabled, translations, failed>>,
           overlay' \in {overlay, Blank}
    PROVE  SessionStep
  <1>1. CurrentOrigin' = CurrentOrigin
    BY DEF CurrentOrigin
  <1>2. CASE overlay' = overlay
    BY <1>1, <1>2 DEF SessionStep, Session!sessionVars
  <1>3. CASE overlay' # overlay
    <2>1. Session!Redraw
      BY <1>1, <1>3 DEF Session!Redraw, Session!Empty, Blank
    <2> QED BY <2>1 DEF SessionStep, Session!Next
  <1> QED BY <1>2, <1>3

\* The calls of the owner other than the tick.
LEMMA OwnerCallsAreGood ==
    ASSUME TInv,
           \/ \E s \in Source \cup {None} : SetSource(s)
           \/ \E l \in Language : SetTargetLanguage(l)
           \/ \E s \in Selection : SetProviderSelection(s)
           \/ ClearProviderSelection \/ EndFile \/ Close
           \/ Enable \/ Disable \/ SetEnabledUnchanged
           \/ \E p \in Position \cup {None} : OnSeek(p)
    PROVE  GoodStep
  <1> USE DEF TInv, IInv, TypeOK
  <1>1. ASSUME NEW s \in Source \cup {None}, SetSource(s)
        PROVE  GoodStep
    BY <1>1, ClearingIsGood DEF SetSource
  <1>2. ASSUME NEW l \in Language, SetTargetLanguage(l)
        PROVE  GoodStep
    BY <1>2, ClearingIsGood DEF SetTargetLanguage
  <1>3. ASSUME NEW s \in Selection, SetProviderSelection(s)
        PROVE  GoodStep
    BY <1>3, ClearingIsGood DEF SetProviderSelection
  <1>4. CASE ClearProviderSelection
    BY <1>4, ClearingIsGood DEF ClearProviderSelection
  <1>5. CASE EndFile
    BY <1>5, ClearingIsGood DEF EndFile
  <1>6. CASE Close
    BY <1>6, ClearingIsGood DEF Close, configVars
  <1>7. CASE Enable
    <2>1. /\ InvalidateSession /\ ~enabled /\ enabled' /\ failed' = {}
          /\ translations' = translations /\ cache' = cache /\ overlay' = overlay
          /\ source' = source /\ target' = target /\ selection' = selection
      BY <1>7 DEF Enable, configVars
    <2>2. overlay = Blank
      BY <2>1 DEF Table, OverlayExact
    <2>3. CacheMirrorsTranslations' /\ OverlayExact'
      BY <2>1, <2>2 DEF Table, CacheMirrorsTranslations, OverlayExact, Translated, Blank
    <2>4. CurrentOrigin' = CurrentOrigin
      BY <2>1 DEF CurrentOrigin
    <2>5. SessionStep
      BY <2>1, <2>4 DEF SessionStep, Session!Next, Session!SwitchOn
    <2> QED BY <2>1, <2>3, <2>5, InvalidatedIsOver DEF GoodStep, Table
  <1>8. CASE Disable
    <2>1. /\ InvalidateSession /\ enabled /\ ~enabled' /\ overlay' = Blank
          /\ translations' = translations /\ cache' = cache /\ failed' = failed
          /\ source' = source /\ target' = target /\ selection' = selection
      BY <1>8 DEF Disable, configVars, resultVars
    <2>2. CacheMirrorsTranslations' /\ OverlayExact'
      BY <2>1 DEF Table, CacheMirrorsTranslations, OverlayExact, Translated
    <2>3. CurrentOrigin' = CurrentOrigin
      BY <2>1 DEF CurrentOrigin
    <2>4. SessionStep
      BY <2>1, <2>3 DEF SessionStep, Session!Next, Session!SwitchOff, Session!Empty, Blank
    <2> QED BY <2>1, <2>2, <2>4, InvalidatedIsOver DEF GoodStep, Table
  <1>9. CASE SetEnabledUnchanged
    <2>1. UNCHANGED <<source, target, selection, enabled, translations, failed, cache, overlay,
                      sessionEpoch, position, job, calls>>
      BY <1>9 DEF SetEnabledUnchanged, sessionVars, configVars, resultVars, jobVars
    <2>2. Table'
      BY <2>1 DEF Table, CacheMirrorsTranslations, OverlayExact, Translated, JobIsOpen, Shown, Blank
    <2> QED BY <2>1, <2>2, BlankingIsSessionStep DEF GoodStep, NewCallsAreOpen
  <1>10. ASSUME NEW p \in Position \cup {None}, OnSeek(p)
         PROVE  GoodStep
    <2>1. /\ UNCHANGED <<source, target, selection, enabled, translations, failed, cache,
                         sessionEpoch>>
          /\ overlay' = Blank /\ CancelPending
      BY <1>10 DEF OnSeek, configVars, resultVars
    <2>2. \A call \in calls' : call.settled
      BY <2>1, CancelSettles
    <2>3. job' # None => /\ job # None /\ job'.fp = job.fp /\ job'.remaining = job.remaining
                         /\ job'.phase # "done" => job.phase # "done"
      <3>1. job' # None => job # None /\ job'.fp = job.fp /\ job'.remaining = job.remaining
        BY <2>1, CancelSettles
      <3>2. job # None /\ job.phase = "done" => job' = job
        BY <2>1 DEF CancelPending
      <3> QED BY <3>1, <3>2
    <2>4. JobIsOpen'
      BY <2>1, <2>3 DEF Table, JobIsOpen, Translated
    <2>5. CacheMirrorsTranslations' /\ OverlayExact'
      BY <2>1 DEF Table, CacheMirrorsTranslations, OverlayExact, Translated
    <2> QED BY <2>1, <2>2, <2>4, <2>5, BlankingIsSessionStep DEF GoodStep, Table, NewCallsAreOpen
  <1> QED BY <1>1, <1>2, <1>3, <1>4, <1>5, <1>6, <1>7, <1>8, <1>9, <1>10

-----------------------------------------------------------------------------
\* Redrawing the lines of the table at a new position, with nothing else of the
\* table or of the context touched.
LEMMA RedrawingIsGood ==
    ASSUME TInv, overlay' = Shown(translations, position'),
           UNCHANGED <<source, target, selection, enabled, translations, failed, cache>>
    PROVE  CacheMirrorsTranslations' /\ OverlayExact' /\ SessionStep
  <1>1. CacheMirrorsTranslations'
    BY DEF TInv, Table, CacheMirrorsTranslations, Translated
  <1>2. /\ \A c \in Cue : overlay'[c] \in {translations[c], None}
        /\ (~enabled \/ source = None) => overlay' = Blank
    BY ShownIsOfTable
  <1>3. OverlayExact'
    BY <1>2 DEF OverlayExact, Shown, Blank
  <1>4. SessionStep
    <2>1. CurrentOrigin' = CurrentOrigin /\ CurrentOrigin.source = source
      BY DEF CurrentOrigin
    <2>2. CASE overlay' = overlay
      BY <2>1, <2>2 DEF SessionStep, Session!sessionVars
    <2>3. CASE overlay' # overlay
      <3>1. Session!Redraw
        BY <1>2, <2>1, <2>3 DEF Session!Redraw, Session!Empty, Blank
      <3> QED BY <3>1 DEF SessionStep, Session!Next
    <2> QED BY <2>2, <2>3
  <1> QED BY <1>1, <1>3, <1>4

\* A tick that starts no batch redraws.
LEMMA QuietTickIsGood ==
    ASSUME TInv, NEW p \in Position \cup {None},
           TickIdle(p) \/ TickUnconfigured(p) \/ TickNothingPending(p) \/ TickOversized(p)
    PROVE  GoodStep
  <1>1. /\ position' = p /\ overlay' = Shown(translations, p)
        /\ UNCHANGED <<source, target, selection, enabled, sessionEpoch>>
    BY DEF TickIdle, TickUnconfigured, TickNothingPending, TickOversized,
           FollowPosition, configVars
  <1>2. UNCHANGED <<failed, cache, job, calls>>
    BY DEF TickIdle, TickUnconfigured, TickNothingPending, TickOversized,
           resultVars, jobVars
  <1>3. translations' = translations
    <2>1. CASE ~Idle(p) /\ selection # None /\ translations' = Recalled(p)
      BY <2>1, NothingToRecall DEF Idle
    <2> QED
      BY <2>1 DEF TickIdle, TickUnconfigured, TickNothingPending, TickOversized, resultVars
  <1>4. JobIsOpen'
    BY <1>1, <1>2, <1>3 DEF TInv, Table, JobIsOpen, Translated
  <1>5. NewCallsAreOpen
    BY <1>2 DEF NewCallsAreOpen
  <1> QED BY <1>1, <1>2, <1>3, <1>4, <1>5, RedrawingIsGood DEF GoodStep, Table

\* The batch a tick starts, and its call, hold cues that are pending: neither
\* translated nor given up on.
LEMMA StartingTickIsGood ==
    ASSUME TInv, NEW p \in Position \cup {None}, TickStartsBatch(p)
    PROVE  GoodStep
  <1>1. /\ position' = p /\ overlay' = Shown(translations, p)
        /\ UNCHANGED <<source, target, selection, enabled, sessionEpoch>>
        /\ UNCHANGED <<failed, cache>>
    BY DEF TickStartsBatch, FollowPosition, configVars
  <1>2. translations' = translations
    BY NothingToRecall DEF TickStartsBatch, Idle
  <1> DEFINE batch == FirstBatch(Pending(p))
             next == [request |-> requestSequence + 1, fp |-> CurrentFingerprint,
                      identity |-> CacheIdentity, origin |-> CurrentOrigin,
                      remaining |-> batch, attempt |-> 0,
                      phase |-> "attempt", error |-> "none", given |-> {}]
  <1>3. batch \cap (Translated \cup failed) = {}
    <2>1. batch \subseteq Pending(p)
      BY DEF FirstBatch
    <2>2. Recalled(p) = translations
      BY NothingToRecall DEF TickStartsBatch, Idle
    <2> QED BY <2>1, <2>2 DEF Pending, Translated
  <1>4. \/ job'.remaining = batch /\ calls' = calls \cup {CallOf(job')}
        \/ job'.remaining = batch /\ calls' = calls
    <2>1. CASE Accepts(next.fp) /\ source # None
      <3> DEFINE started == [next EXCEPT !.phase = "attempt",
                               !.origin = [source |-> next.identity.source,
                                           target |-> next.identity.target,
                                           selection |-> selection]]
      <3>1. job' = started /\ calls' = calls \cup {CallOf(started)}
        BY <2>1 DEF TickStartsBatch, StartAttempt
      <3>2. started.remaining = batch
        OBVIOUS
      <3> QED BY <3>1, <3>2
    <2>2. CASE ~(Accepts(next.fp) /\ source # None)
      <3>1. job' = [next EXCEPT !.phase = "done"] /\ calls' = calls
        BY <2>2 DEF TickStartsBatch, StartAttempt
      <3> QED BY <3>1
    <2> QED BY <2>1, <2>2
  <1> HIDE DEF batch, next
  <1>5. Translated' = Translated
    BY <1>2 DEF Translated
  <1>6. JobIsOpen'
    BY <1>1, <1>3, <1>4, <1>5 DEF JobIsOpen
  <1>7. NewCallsAreOpen
    BY <1>1, <1>3, <1>4, <1>5 DEF NewCallsAreOpen, CallOf
  <1> QED BY <1>1, <1>2, <1>6, <1>7, RedrawingIsGood DEF GoodStep, Table

-----------------------------------------------------------------------------
\* Storing texts for open cues of the job, and giving up on others, settles
\* them in the abstract session; table, cache and screen stay in step.
LEMMA SettlingIsGood ==
    ASSUME TInv, job # None, JobOfThisSession, job.phase # "done",
           NEW accepted \in SUBSET job.remaining, NEW lost \in SUBSET job.remaining,
           accepted \cap lost = {}, Store(accepted, CurrentOrigin),
           failed' = failed \cup lost,
           \/ overlay' = Shown(translations', position)
           \/ accepted = {} /\ overlay' = overlay,
           job.fp.session = sessionEpoch,
           UNCHANGED <<source, target, selection, enabled, position>>
    PROVE  /\ CacheMirrorsTranslations' /\ OverlayExact' /\ SessionStep
           /\ Translated' = Translated \cup accepted
  <1>1. /\ enabled /\ source # None /\ selection # None /\ source \in Source
        /\ translations \in [Cue -> Origin \cup {None}]
    BY DEF JobOfThisSession, TInv, IInv, TypeOK
  <1>2. CurrentOrigin \in Origin /\ CurrentOrigin # None
    BY <1>1, NoneIsNoValue DEF CurrentOrigin, Origin, TInv, IInv, TypeOK
  <1>3. accepted \cup lost \subseteq CuesOf[source] /\ CuesOf[source] \subseteq Cue
    BY <1>1, ControllerAssumption DEF JobOfThisSession
  <1>4. (accepted \cup lost) \cap (Translated \cup failed) = {}
    BY DEF TInv, Table, JobIsOpen
  <1>5. translations' = [c \in Cue |-> IF c \in accepted THEN CurrentOrigin
                                       ELSE translations[c]]
    BY DEF Store
  <1>6. Translated' = Translated \cup accepted
    BY <1>2, <1>3, <1>5 DEF Translated
  <1>7. CacheMirrorsTranslations'
    <2>1. job.identity = CacheIdentity
      BY DEF JobOfThisSession
    <2>2. \A e \in cache : e.identity = job.identity
      BY <2>1 DEF TInv, IInv, NothingStale
    <2>3. cache' = {e \in cache : ~(e.identity = job.identity /\ e.cue \in accepted)}
                    \cup {[identity |-> job.identity, cue |-> c, text |-> CurrentOrigin]
                           : c \in accepted}
      BY DEF Store
    <2>4. {e.cue : e \in cache} = Translated
      BY DEF TInv, Table, CacheMirrorsTranslations
    <2>5. ASSUME NEW e \in cache' PROVE e.cue \in Translated \cup accepted
      BY <2>3, <2>4
    <2>6. ASSUME NEW c \in Translated \cup accepted PROVE \E e \in cache' : e.cue = c
      <3>1. CASE c \in accepted
        <4> DEFINE e == [identity |-> job.identity, cue |-> c, text |-> CurrentOrigin]
        <4>1. e \in cache' /\ e.cue = c
          BY <2>3, <3>1
        <4> QED BY <4>1
      <3>2. CASE c \notin accepted
        <4>1. PICK e \in cache : e.cue = c
          BY <2>4, <2>6, <3>2
        <4>2. e \in cache'
          BY <2>3, <3>2, <4>1
        <4> QED BY <4>1, <4>2
      <3> QED BY <3>1, <3>2
    <2>7. {e.cue : e \in cache'} = Translated \cup accepted
      BY <2>5, <2>6
    <2> QED BY <1>6, <2>7 DEF CacheMirrorsTranslations
  <1>8. accepted = {} => translations' = translations
    BY <1>1, <1>5
  <1>9. OverlayExact'
    <2>1. CASE overlay' = Shown(translations', position)
      BY <1>1, <2>1 DEF OverlayExact, Shown
    <2>2. CASE accepted = {} /\ overlay' = overlay
      BY <1>1, <1>8, <2>2 DEF OverlayExact, Shown, Blank, TInv, Table
    <2> QED BY <2>1, <2>2
  <1>10. \A c \in Cue : overlay'[c] \in {translations'[c], None}
    <2>1. CASE overlay' = Shown(translations', position)
      BY <2>1, ShownIsOfTable
    <2>2. CASE accepted = {} /\ overlay' = overlay
      BY <1>8, <2>2, ScreenIsOfTable DEF TInv, Table
    <2> QED BY <2>1, <2>2
  <1>11. Session!SettleCues(accepted, lost)
    <2>1. CurrentOrigin' = CurrentOrigin /\ CurrentOrigin.source = source
          /\ CurrentOrigin.selection = selection
      BY DEF CurrentOrigin
    <2>2. \A c \in accepted \cup lost : Session!Open(c)
      BY <1>3, <1>4 DEF Session!Open, Translated
    <2> QED
      BY <1>1, <1>3, <1>5, <1>10, <2>1, <2>2 DEF Session!SettleCues
  <1>12. SessionStep
    <2>1. accepted \in SUBSET Cue /\ lost \in SUBSET Cue
      BY <1>3
    <2> QED BY <1>11, <2>1 DEF SessionStep, Session!Next
  <1> QED BY <1>6, <1>7, <1>9, <1>12

\* Progress settles the cues it brings a text for; a settlement of the promise
\* only wakes the job.
LEMMA ProviderIsGood ==
    ASSUME TInv, NEW call \in calls, NEW given \in SUBSET Cue, NEW error \in Failure,
           Progress(call, given) \/ Succeed(call, given) \/ Fail(call, error)
    PROVE  GoodStep
  <1>1. CASE Progress(call, given) /\ TakesProgress(call) /\ given \cap job.remaining # {}
    <2> DEFINE accepted == given \cap job.remaining
    <2>1. /\ Store(accepted, call.origin)
          /\ job' = [job EXCEPT !.remaining = @ \ accepted]
          /\ overlay' = Shown(translations', position)
          /\ UNCHANGED <<source, target, selection, enabled, sessionEpoch, position,
                         failed, calls>>
      BY <1>1 DEF Progress, sessionVars, configVars
    <2>2. /\ job # None /\ job \in Job /\ job.phase = "attempt" /\ ~call.settled
          /\ job.fp.session = sessionEpoch /\ job.origin = call.origin
      BY <1>1 DEF TakesProgress, TInv, IInv, TypeOK, JobSane, CallsSane, CurrentFingerprint
    <2>3. JobOfThisSession
      BY <2>2 DEF TInv, IInv, JobSane
    <2>4. Store(accepted, CurrentOrigin)
      BY <2>1, <2>2, <2>3 DEF JobOfThisSession
    <2>5. failed' = failed \cup {} /\ {} \in SUBSET job.remaining /\ accepted \cap {} = {}
          /\ accepted \in SUBSET job.remaining
      BY <2>1
    <2> HIDE DEF accepted
    <2>6. /\ CacheMirrorsTranslations' /\ OverlayExact' /\ SessionStep
          /\ Translated' = Translated \cup accepted
      BY <2>1, <2>2, <2>3, <2>4, <2>5, SettlingIsGood
    <2>7. job'.remaining = job.remaining \ accepted
      BY <2>1, <2>2 DEF Job
    <2>8. JobIsOpen'
      BY <2>1, <2>2, <2>6, <2>7 DEF TInv, Table, JobIsOpen
    <2>9. NewCallsAreOpen
      BY <2>1 DEF NewCallsAreOpen
    <2> QED BY <2>6, <2>8, <2>9 DEF GoodStep, Table
  <1>2. CASE Progress(call, given) /\ ~(TakesProgress(call) /\ given \cap job.remaining # {})
    <2>1. UNCHANGED vars
      BY <1>2 DEF Progress
    <2>2. UNCHANGED <<source, target, selection, enabled, translations, failed, cache,
                      overlay, sessionEpoch, position, job, calls>>
      BY <2>1 DEF vars, sessionVars, configVars, resultVars, jobVars
    <2>3. Table'
      BY <2>2 DEF TInv, Table, CacheMirrorsTranslations, OverlayExact, Translated,
                  JobIsOpen, Shown, Blank
    <2> QED BY <2>2, <2>3, BlankingIsSessionStep DEF GoodStep, NewCallsAreOpen
  <1>3. ASSUME NEW e \in Failure \cup {"none"}, NEW g \in SUBSET Cue, Settle(call, e, g)
        PROVE  GoodStep
    <2>1. /\ UNCHANGED <<source, target, selection, enabled, translations, failed, cache,
                         overlay, sessionEpoch, position>>
          /\ calls' = calls \ {call}
      BY <1>3 DEF Settle, sessionVars, configVars, resultVars
    <2>2. CacheMirrorsTranslations' /\ OverlayExact'
      BY <2>1 DEF TInv, Table, CacheMirrorsTranslations, OverlayExact, Translated, Shown, Blank
    <2>3. /\ job' # None => job # None /\ job'.fp = job.fp /\ job'.remaining = job.remaining
          /\ job # None /\ job'.phase # "done" => job.phase # "done"
      <3>1. CASE call.settled
        BY <1>3, <3>1 DEF Settle
      <3>2. CASE ~call.settled
        <4>1. job # None /\ job \in Job /\ job.phase = "attempt"
          BY <3>2 DEF TInv, IInv, TypeOK, CallsSane
        <4>2. job' = [job EXCEPT !.phase = "answered", !.error = e, !.given = g]
          BY <1>3, <3>2 DEF Settle
        <4> QED BY <4>1, <4>2 DEF Job
      <3> QED BY <3>1, <3>2
    <2>4. JobIsOpen'
      BY <2>1, <2>3 DEF TInv, Table, JobIsOpen, Translated
    <2>5. NewCallsAreOpen
      BY <2>1 DEF NewCallsAreOpen
    <2> QED BY <2>1, <2>2, <2>4, <2>5, BlankingIsSessionStep DEF GoodStep, Table
  <1>4. CASE Succeed(call, given)
    BY <1>3, <1>4 DEF Succeed
  <1>5. CASE Fail(call, error)
    <2>1. {} \in SUBSET Cue
      OBVIOUS
    <2> QED BY <1>3, <1>5, <2>1 DEF Fail
  <1> QED BY <1>1, <1>2, <1>4, <1>5

\* The code after the attempt's await settles what was accepted and what is
\* given up on, and keeps the rest of the batch open for a retry.
LEMMA ResumeIsGood ==
    ASSUME TInv, RetryLater \/ FinishBatch
    PROVE  GoodStep
  <1>1. /\ job # None /\ job \in Job /\ job.phase = "answered"
        /\ job.fp.session = sessionEpoch
    BY DEF RetryLater, FinishBatch, Live, Accepts, CurrentFingerprint, TInv, IInv, TypeOK
  <1>2. JobOfThisSession
    BY <1>1 DEF TInv, IInv, JobSane
  <1>3. UNCHANGED <<source, target, selection, enabled, sessionEpoch, position, calls>>
    BY DEF RetryLater, FinishBatch, sessionVars, configVars
  <1>4. /\ Store(Accepted, CurrentOrigin)
        /\ overlay' = IF Accepted # {} THEN Shown(translations', position) ELSE overlay
    BY <1>2 DEF RetryLater, FinishBatch, TakeResult, JobOfThisSession
  <1>5. Accepted \in SUBSET job.remaining /\ Left \in SUBSET job.remaining
        /\ Accepted \cap Left = {}
    BY DEF Accepted, Left
  <1>6. NewCallsAreOpen
    BY <1>3 DEF NewCallsAreOpen
  <1>7. ASSUME NEW lost \in {Left, {}}, failed' = failed \cup lost
        PROVE  /\ CacheMirrorsTranslations' /\ OverlayExact' /\ SessionStep
               /\ Translated' = Translated \cup Accepted
    <2>1. lost \in SUBSET job.remaining /\ Accepted \cap lost = {}
      BY <1>5
    <2> QED BY <1>1, <1>2, <1>3, <1>4, <1>5, <1>7, <2>1, SettlingIsGood
  <1>8. CASE RetryLater
    <2>1. failed' = failed \cup {} /\ failed' = failed
      BY <1>8 DEF RetryLater
    <2>2. job'.remaining = Left /\ job'.fp = job.fp
      BY <1>1, <1>8 DEF RetryLater, Job
    <2>3. JobIsOpen'
      BY <1>1, <1>3, <1>5, <1>7, <2>1, <2>2 DEF TInv, Table, JobIsOpen
    <2> QED BY <1>6, <1>7, <2>1, <2>3 DEF GoodStep, Table
  <1>9. CASE FinishBatch
    <2>1. \E lost \in {Left, {}} : failed' = failed \cup lost
      BY <1>9 DEF FinishBatch
    <2>2. job'.phase = "done"
      BY <1>1, <1>9 DEF FinishBatch, Job
    <2> QED BY <1>6, <1>7, <2>1, <2>2 DEF GoodStep, Table, JobIsOpen
  <1> QED BY <1>8, <1>9

\* The other steps of the job touch neither the table nor the screen; the call
\* of a further attempt is for what the job still has to do.
LEMMA JobStepsAreGood ==
    ASSUME TInv, AbandonBatch \/ RetryTimerFires \/ NextAttempt \/ ReleasePipeline
    PROVE  GoodStep
  <1>1. UNCHANGED <<source, target, selection, enabled, translations, failed, cache,
                    overlay, sessionEpoch, windowEpoch, position, closed>>
    BY DEF AbandonBatch, RetryTimerFires, NextAttempt, ReleasePipeline,
           sessionVars, configVars, resultVars
  <1>2. job # None /\ job \in Job
    BY DEF AbandonBatch, Stale, RetryTimerFires, NextAttempt, ReleasePipeline,
           TInv, IInv, TypeOK
  <1>3. CacheMirrorsTranslations' /\ OverlayExact' /\ SessionStep
        /\ Translated' = Translated
    BY <1>1, BlankingIsSessionStep
    DEF TInv, Table, CacheMirrorsTranslations, OverlayExact, Translated, Shown, Blank
  <1>4. CASE ReleasePipeline
    BY <1>3, <1>4 DEF ReleasePipeline, GoodStep, Table, JobIsOpen, NewCallsAreOpen
  <1>5. ASSUME NEW ph, job' = [job EXCEPT !.phase = ph], calls' = calls,
               job.phase # "done"
        PROVE  GoodStep
    <2>1. job'.fp = job.fp /\ job'.remaining = job.remaining
      BY <1>2, <1>5 DEF Job
    <2>2. JobIsOpen'
      BY <1>1, <1>2, <1>3, <1>5, <2>1 DEF TInv, Table, JobIsOpen
    <2> QED BY <1>3, <1>5, <2>2 DEF GoodStep, Table, NewCallsAreOpen
  <1>6. CASE AbandonBatch
    BY <1>5, <1>6 DEF AbandonBatch, Stale
  <1>7. CASE RetryTimerFires
    BY <1>5, <1>7 DEF RetryTimerFires
  <1>8. CASE NextAttempt
    <2> DEFINE j == [job EXCEPT !.attempt = @ + 1]
               next == [j EXCEPT !.phase = "attempt",
                                 !.origin = [source |-> j.identity.source,
                                             target |-> j.identity.target,
                                             selection |-> selection]]
    <2>1. job.phase = "woken" /\ j.fp = job.fp /\ j.remaining = job.remaining
      BY <1>2, <1>8 DEF NextAttempt, Job
    <2>2. CASE Accepts(j.fp) /\ source # None
      <3>1. job' = next /\ calls' = calls \cup {CallOf(next)}
        BY <1>8, <2>2 DEF NextAttempt, StartAttempt
      <3>2. next.fp = job.fp /\ next.remaining = job.remaining
        BY <1>2 DEF Job
      <3>3. job.fp.session = sessionEpoch
        BY <2>1, <2>2 DEF Accepts, CurrentFingerprint
      <3> HIDE DEF next
      <3>4. job.remaining \cap (Translated \cup failed) = {}
        BY <1>2, <2>1, <3>3 DEF TInv, Table, JobIsOpen
      <3>5. JobIsOpen' /\ NewCallsAreOpen
        BY <1>1, <1>3, <3>1, <3>2, <3>4 DEF JobIsOpen, NewCallsAreOpen, CallOf
      <3> QED BY <1>3, <3>5 DEF GoodStep, Table
    <2>3. CASE ~(Accepts(j.fp) /\ source # None)
      <3>1. job' = [j EXCEPT !.phase = "done"] /\ calls' = calls
        BY <1>8, <2>3 DEF NextAttempt, StartAttempt
      <3>2. job'.phase = "done"
        BY <1>2, <3>1 DEF Job
      <3> QED BY <1>3, <3>1, <3>2 DEF GoodStep, Table, JobIsOpen, NewCallsAreOpen
    <2> QED BY <2>2, <2>3
  <1> QED BY <1>4, <1>6, <1>7, <1>8

-----------------------------------------------------------------------------
\* The table of a new controller is empty, and so is the abstract session's.
LEMMA InitIsGood == Init => TInv /\ Session!Init
  <1> SUFFICES ASSUME Init PROVE TInv /\ Session!Init
    OBVIOUS
  <1>1. /\ translations = Blank /\ cache = {} /\ overlay = Blank /\ failed = {}
        /\ job = None /\ source = None /\ selection = None /\ target \in Language
        /\ enabled \in BOOLEAN
    BY DEF Init
  <1>2. Translated = {}
    BY <1>1 DEF Translated, Blank
  <1>3. Table
    BY <1>1, <1>2 DEF Table, CacheMirrorsTranslations, OverlayExact, JobIsOpen
  <1>4. Session!Init
    BY <1>1 DEF Session!Init, Session!Empty, Blank, CurrentOrigin
  <1> QED BY <1>3, <1>4, InitEstablishes DEF TInv

\* Every step keeps the table and is a step of the abstract session.
LEMMA StepsAreGood == TInv /\ [Next]_vars => TInv' /\ GoodStep
  <1> SUFFICES ASSUME TInv, [Next]_vars PROVE TInv' /\ GoodStep
    OBVIOUS
  <1>1. GoodStep
    <2>1. CASE Owner
      <3>1. CASE \E p \in Position \cup {None} : Tick(p)
        BY <3>1, QuietTickIsGood, StartingTickIsGood DEF Tick
      <3>2. CASE ~ \E p \in Position \cup {None} : Tick(p)
        BY <2>1, <3>2, OwnerCallsAreGood DEF Owner
      <3> QED BY <3>1, <3>2
    <2>2. CASE Provider
      <3>1. PICK call \in calls :
              \/ \E given \in SUBSET Cue : Progress(call, given) \/ Succeed(call, given)
              \/ \E error \in Failure : Fail(call, error)
        BY <2>2 DEF Provider
      <3>2. "fatal" \in Failure /\ {} \in SUBSET Cue
        BY DEF Failure
      <3> QED BY <3>1, <3>2, ProviderIsGood
    <2>3. CASE Continue
      BY <2>3, ResumeIsGood, JobStepsAreGood DEF Continue
    <2>4. CASE UNCHANGED vars
      <3>1. UNCHANGED <<source, target, selection, enabled, translations, failed, cache,
                        overlay, sessionEpoch, position, job, calls>>
        BY <2>4 DEF vars, sessionVars, configVars, resultVars, jobVars
      <3>2. Table'
        BY <3>1 DEF TInv, Table, CacheMirrorsTranslations, OverlayExact, Translated,
                    JobIsOpen, Shown, Blank
      <3> QED BY <3>1, <3>2, BlankingIsSessionStep DEF GoodStep, NewCallsAreOpen
    <2> QED BY <2>1, <2>2, <2>3, <2>4 DEF Next
  <1>2. IInv'
    BY NextPreserves DEF TInv
  <1> QED BY <1>1, <1>2 DEF TInv, GoodStep

\* The screen shows nothing, or exactly the translated lines active at the last
\* position the controller was told.
THEOREM ScreenIsExact == Spec => []OverlayExact
  <1>1. Init => TInv
    BY InitIsGood
  <1>2. TInv /\ [Next]_vars => TInv'
    BY StepsAreGood
  <1>3. TInv => OverlayExact
    BY DEF TInv, Table
  <1> QED BY <1>1, <1>2, <1>3, PTL DEF Spec

\* The session cache holds exactly the cues that have a translation.
THEOREM CacheIsTheTable == Spec => []CacheMirrorsTranslations
  <1>1. Init => TInv
    BY InitIsGood
  <1>2. TInv /\ [Next]_vars => TInv'
    BY StepsAreGood
  <1>3. TInv => CacheMirrorsTranslations
    BY DEF TInv, Table
  <1> QED BY <1>1, <1>2, <1>3, PTL DEF Spec

\* No provider call is ever made for a cue that has a translation or has been
\* given up on: neither by a later batch nor by a retry after partial progress.
THEOREM WorkIsNeverRepeated == Spec => NoRepeatedWork
  <1>1. Init => TInv
    BY InitIsGood
  <1>2. TInv /\ [Next]_vars => TInv'
    BY StepsAreGood
  <1>3. TInv /\ [Next]_vars =>
          [\A call \in calls' \ calls :
             ~call.settled => call.items \cap (Translated' \cup failed') = {}]_vars
    BY StepsAreGood DEF GoodStep, NewCallsAreOpen
  <1> QED BY <1>1, <1>2, <1>3, PTL DEF Spec, NoRepeatedWork

\* The controller, with its epochs, requests, retries and cache, implements the
\* abstract table of TranslationSession.
THEOREM ControllerImplementsSession == Spec => ImplementsSession
  <1>1. Init => TInv /\ Session!Init
    BY InitIsGood
  <1>2. TInv /\ [Next]_vars => TInv' /\ [Session!Next]_(Session!sessionVars)
    BY StepsAreGood DEF GoodStep, SessionStep
  <1> QED BY <1>1, <1>2, PTL DEF Spec, ImplementsSession, Session!Spec
=============================================================================
