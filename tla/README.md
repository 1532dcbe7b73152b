# SubTandem in TLA+

SubTandem is a plugin of the IINA player that shows a second, machine-translated
line under the subtitles.  This directory specifies the parts of it whose
correctness depends on interleavings, failures and restarts, checks small
instances of them with TLC, and proves most of what TLC checks, but liveness, with
TLAPS for every value of the constants.  Paths below are relative to the repository.

## 1. The system and its parts

One *global entry* runs for the whole of IINA and one *main entry* for each
player window.  They are separate JavaScript contexts, each single threaded;
the windows talk to the global entry through a mailbox of files.  Three native
helpers (transport, subtitle extractor, style picker) are separate processes
that are launched on demand and spoken to through files as well.  Two web views
(sidebar, overlay) hang off each window.

| Component | Code | State it keeps | Operations | Talks to | What is hard |
|---|---|---|---|---|---|
| Playback controller | `src/runtime/app/controller.ts` and the session, pipeline, cache, scheduler, request builder it owns | epochs, source, language, provider selection, translations, failed cues, cache, overlay lines, one batch in flight | tick, setSource, setTargetLanguage, setProviderSelection, clearProviderSelection, setEnabled, onSeek, endFile, close | provider client (promise), overlay | answers and progress after every kind of change; retries; cancellation |
| Window wiring | `src/runtime/main.ts` | source generation, mirrored profile authority, gates | event handlers, timers | controller, preparation, mailbox, web views | order of bootstrap, subscription, events, close |
| Subtitle preparation | `src/runtime/app/subtitle-preparation.ts`, `epoch-bootstrap-gate.ts` | generation, active preparation, cancellation barrier, view | prepare, retry, invalidate | extractor client | deadline against late result, cancel that never settles |
| Extractor client and helper | `src/runtime/adapters/iina/subtitle-extractor.ts`, `native/subtitle-extractor` | client connection, table of jobs | start, poll, cancel, cleanup | file RPC | job ends while it is cancelled; helper restarts |
| Global mailbox | `src/runtime/adapters/iina/global-mailbox.ts` | frames on disk, sessions, next sequence numbers | post, poll, broadcast, expire | every window | loss at the depth limit, expiry, re-registration |
| Profile activation authority | `src/runtime/providers/profile-activation.ts` | confirmed activation, commit in flight, reservations, reconciliation | set, reserve, complete, cancel, delete, reconcile, restore | transport helper, windows | two windows at once, unknown outcome of a commit |
| Profile store | `native/transport/.../SecureCredentialStore.swift` | document with revision and last receipt | commit, save, delete, recover, migrate | disk | crash between rename and sync, repeated commit, two helpers |
| Helper supervision | `src/runtime/transport/supervisor.ts`, `client.ts` | live client, launch in flight | start, request, mutate, release, shutdown | file RPC | a timeout leaves the outcome open; retry on a new helper |
| File RPC | `src/runtime/adapters/iina/provider-transport.ts`, `native/transport/.../FileRPCClient.swift` | slots, waiters, files | acquire, post, poll, claim, respond | helper | late response, timeout, capacity |
| Provider requests | `src/runtime/providers/request-lifecycle.ts`, `broker.ts` | requests in flight, tombstones, closed senders | begin, finish, cancel, invalidate, release | authority, helper | cancel before attempt; profile change between two awaits |
| Provider adapters | `src/runtime/providers/openai.ts`, `claude.ts`, `deepseek.ts`, `ollama.ts`, `translation-batches.ts`, `validation.ts` | none between calls | translate a batch | helper | partial and malformed answers |
| Global entry wiring | `src/runtime/global.ts` | pending drafts, tests, catalogues | message handlers | all of the above | state read before an await and used after |
| Credential drafts | `src/ui/credential-editor.ts`, `credential-channel.ts`, `native/transport/.../CredentialChannel.swift` | reservation, channel, draft | open, submit, save, close | authority, helper | a window closes half way; replay |
| Style and position sync | `src/runtime/adapters/iina/subtitle-style-sync.ts`, `overlay-position-sync.ts` | shared value and revision | set, broadcast, bootstrap | windows | two windows write at once |
| Style picker | `src/runtime/adapters/iina/style-picker-client.ts`, `native/style-picker` | one open panel | open, poll, close | file RPC | two openers |
| Overlay, sidebar | `src/ui`, `webview-translation-overlay.ts` | loaded page, last payload, profile list | render, replay | window | message before load |
| Parsing, messages, localization, host adapters | `src/runtime/subtitles`, `domain`, `src/shared`, `src/ui/localization.ts` | none | pure functions | - | - |

`PROJECT.json` lists every file under its component, and the hazards at their
lines.

## 2. The modules

| Module | Models | Composes or implements | Runs |
|---|---|---|---|
| `PlaybackController` | the controller of a window | implements `TranslationSession` | `playback_sources`, `playback_liveness` |
| `ProfileActivation` | the authority of the profiles, over a document that changes atomically | authority, mutation loop of the supervisor, store under its lock | `profile_commits`, `profile_failed_change` |
| `CredentialStore` | how that document is replaced on disk | several helpers, the lock, the disk, the entry that calls | `credential_store` |
| `SubtitlePreparation` | how an embedded track becomes the source | window, coordinator, supervisor, job table of the extractor | `preparation_sources` |
| `ProviderRequests` | translations, tests and model lists at the global entry | windows, three lifecycles, the activation feed | `provider_requests` |
| `HelperRpc` | the entry's side of the transport helper | supervisor, launches, bridges, helpers | `helper_rpc` |
| `HelperJobs` | the helper's side of a provider request | worker, handlers, table of jobs, limiter, drafts | `helper_jobs` |
| `Mailbox` | frames between the windows and the entry | - | those of `SharedStyle` |
| `SharedStyle` | style, position and picker shared by all windows | extends `Mailbox`; windows, two authorities, picker process | `shared_style`, `chosen_font` |
| `ProfileEditor` | the profile editor in a window's sidebar | drawer, key, test, models, save, deletion, switches; the window and the entry that answer | `profile_editor` |
| `...Proofs` | the theorems of section 13 | each extends the module it is named after, `HelperProofs` both `HelperRpc` and `HelperJobs` | - |

The modules meet where one abstracts what another details.
`PlaybackController`'s "the provider answers" is `ProviderRequests`, whose
"a wire is posted, and replied to" is `HelperRpc` on the entry's side and
`HelperJobs` in the helper; `ProfileActivation`'s atomic document is
`CredentialStore`.  `ProfileEditor` is the user's side of the same changes, with
the answers of `ProfileActivation` and `ProviderRequests` taken as choices.
`ProviderRequests` in turn takes the changes of the profile
that `ProfileActivation` allows as actions of its environment.

What could follow, in this order: the calls of `PlaybackController` that post to
the mailbox, composed with `Mailbox`, where a cancellation may throw in the middle
of the owner; the target language of a window (`target-language-session.ts`),
one slot that a newer request replaces.

No module uses a recursive operator (recursion is a recursive function or a
fold), so each can be proved about.

## 3. PlaybackController and TranslationSession

`PlaybackController` is the controller object with everything it owns.  The
class boundaries inside it (session, pipeline, cache, scheduler, request
builder, retry) are folded in: all run on one thread and none is used by
anybody else.

| State | Code |
|---|---|
| `sessionEpoch`, `windowEpoch`, `position`, `enabled`, `closed` | `PlaybackSession`, `TranslationController.closed` |
| `source`, `target`, `selection` | the loaded subtitle, the target language, the provider selection |
| `translations`, `failed`, `cache` | the maps the texts and the given-up cues are kept in, `SessionTranslationCache` |
| `runningEpoch`, `visibleFailure`, `status` | what the sidebar is told |
| `overlay` | the last lines handed to the overlay |
| `job` | the promise in the pipeline; its `phase` is the await it is suspended at |
| `calls` | calls of the provider client not answered yet; `settled` is the wrapper's flag |

The owner's calls are one action each; `Tick` is split by the return statement
it leaves through.  A batch is a chain of actions, `StartAttempt` up to the
await of the provider, `Settle` when the promise settles, `AbandonBatch`,
`RetryLater` or `FinishBatch` for the code that runs after it, `RetryTimerFires`
and `NextAttempt` around the pause, `ReleasePipeline` for the `finally`.  Between
any two of them the owner may do anything.  A provider may report progress any
number of times, with any subset of the cues, also after it was cancelled and
after its batch is over.

Abstractions.  A text is the origin it was made from, so two texts differ
exactly when source, language or selection do.  Times and lengths are small
numbers, the four-attempt limit is `LastAttempt`.  The window always requires a
provider selection and always has a valid language (`main.ts` guarantees both).
Cue ids embed index and times, so two tracks may share an id only with equal
times, as here.  `main.ts` never calls `close`; the action is there because the
controller promises something about it.

| Run | Instance | Shows | Distinct states |
|---|---|---|---|
| `playback_sources` | 2 tracks that share a cue, 2 cues, 2 languages, 2 selections with one cache key, 2 attempts, 2 batches, 4 session epochs, 1 seek; languages and selections are symmetric | nothing stale in the map, the cache, on screen or on the wire (`NothingStale`, `OverlayExact`, `LiveCallIsCurrent`, `CacheMirrorsTranslations`); nothing asked for twice (`NoRepeatedWork`); the controller refines `TranslationSession` (`ImplementsSession`) | 708 352 |
| `playback_liveness` | 3 cues, the first too long for any batch, 4 attempts | a wanted cue is translated or given up on (`WantedCuesSettle`), and so the pipeline comes free | 66 250 |

Bounds.  A stale answer needs one change while a call is open; the runs allow
two changes before the answer, one during the pause and one after it
(`MaxSessionEpoch` 4), and `MaxRequests` 2 so that a late answer meets a newer
batch.  Two cues are enough for a partial answer and for a batch limit of one;
the third of the liveness run lets an oversized cue stand before two others,
and two positions let its user seek between them.
`CHECK_DEADLOCK FALSE`: a closed controller, or exhausted bounds, stops.

Fairness (`FairSpec`).  `WF(TickTimer)` is the 350 ms interval of `main.ts`, which
is never cleared.  It guarantees that ticks run, not that they do anything: a tick
at a blocked pipeline is a tick too, and the timer does not move the position.  So
a step is demanded only while no tick may leave everything as it is, and a
pipeline that never came free would be a counterexample (the mutant of the
property, a call that is cancelled and keeps its job, is found that way).
`WF(Continue)`: a settled promise continues and a timer fires.
`WF(Answer)`: the provider client settles the promise it gave.  The window's
client sets no deadline, so this last one is a statement about the other side:
`WaitingIsInHand` of section 7 is the part of it that can be checked without
time, with the exception found there (a session the mailbox expired while its
window lived).

## 4. ProfileActivation

The authority that every window's translations depend on: which profiles exist
and which is enabled.  The module spans three pieces of code, since none of the
properties can be stated of one alone.

| State | Code |
|---|---|
| `queue`, `current` | the promise tail of the authority; what it awaits |
| `commits` | commits in preparation, reservations, and the outcome each was answered with |
| `storeRevision`, `profiles`, `activation`, `ready`, `reconciling`, `generation`, `stateVersion`, `fallback` | fields of `ProfileActivationAuthority` |
| `inbox` | requests posted to helpers by `localMutation`/`profileStateSave` of the supervisor |
| `doc` | the document `SecureCredentialStore.swift` replaces under its lock |
| `lineage` | history: the pictures `doc` has had, by revision |

A mutation goes `Begin...` (up to the await), `Send`, what a helper does under
the lock (`Confirm` by the receipt, `Store` by the revision, `Clean`, `Refuse`,
`FailToStore`), the supervisor's reading of the answer (`Reply`, `TryAgain`), and
`CommitIsConfirmed`, `CommitFails` or `CommitIsUncertain` after the await.
`AttemptTimesOut`, `LoseRequest` and `NoHelper` may come at any point, so that a
helper given up may still store what it was sent, before, between or after the
second attempt.  An uncertain outcome leaves `reconciling` and a reconciliation
in the queue.

Abstractions.  A profile is its id and revision (names, endpoints and the key
never change within one revision).  Damaged and old documents, and the reads of
the restoration, are not modelled: `Init` is either outcome of it.  The map that
recognises a repeated request id is left out, since the mailbox delivers at most
once, and so is the limit of 64 reservations.  `doc` changes
atomically; `CredentialStore` (section 6) specifies how that is done on disk.

| Run | Instance | Shows | Distinct states |
|---|---|---|---|
| `profile_commits` | 2 windows, 2 profiles, 3 requests, 2 faults, with a migration to clean up | what is believed was stored and what is enabled exists (`BelievesAStoredPicture`); "changed" is stored on the base it was prepared for, a failed save is not stored and never will be (`AnswersAreTrue`); a generation and a version each name one picture (`NumbersNameOnePicture`); with nobody asking again, whatever was begun ends with the authority in service, or with a document that could not be read (`InService`) | 699 531 |
| `profile_failed_change` | 1 window, 3 faults | the finding below | (violation) |

Bounds.  A fault is any of: a lost request, an answer that is lost, unconfirmed
or unavailable, a helper that cannot be started, a deadline that passes although
the helper is alive.  Two faults are needed to defeat both attempts of one
mutation, and three requests let another window's change come between a
reservation and its completion, or follow an uncertain outcome.

Fairness.  `WF` of `Begin`, `Supervise`, `Resume`: promises and deadlines;
`WF(Helpers)`: a live helper scans its directory.  Nothing is assumed of the
windows.  They ask for the profiles when they start, when their sidebar is ready
and after a state they accepted, and nothing polls, so `RequestReconcile` may
never happen.  The code queues a reconciliation itself after an outcome that stayed
uncertain, and that one is what `InService` is about.  A reconciliation that cannot read
the document is not repeated: the authority then waits, unavailable, for the
next request ("unrecovered").

Finding (`profile_failed_change`).  `set` and `delete` report every error of the
mutation as a failure and take the authority back into service.  When the first
attempt was stored but its answer lost, and no helper can be started for the
second, the change the user is told has failed is in the document, and the
authority believes the old picture until a later mutation or restart finds
the new one.  A save distinguishes the two (its half of `AnswersAreTrue` holds).

## 5. SubtitlePreparation

How an embedded text track becomes the source of the controller: the coordinator
of `subtitle-preparation.ts`, the loading in `main.ts` that calls it and accepts
what it returns, the supervisor of `subtitle-extractor.ts` that finds a helper
for it, and the table of jobs in the helper (`ExtractionJobs.swift`).

| State | Code |
|---|---|
| `selected`, `mediaEpoch`, `enabled` | the player's selection, the file, the translation switch |
| `key`, `shown`, `source` | `embeddedPreparationKey`, the preparation state of the sidebar, what `controller.setSource` was given |
| `boot`, `bootEpoch`, `failedEpoch`, `waiting` | the promise of the coordinator, `EpochBootstrapGate`, the loads that await it |
| `attempts[j].status`, `timer`, `overdue` | `PreparationAttempt` with its timer and `deadlineAt` |
| `attempts[j].await` | the await `prepare` is suspended at: barrier, race, release of an accepted or of a discarded result |
| `attempts[j].call`, `replayed` | the supervisor's `prepare` of that job: looking for a helper, posted, running, or how it ended; its one replay |
| `attempts[j].cancel` | the link of the cancellation barrier for that job |
| `client`, `alive`, `results`, `completed` | the supervisor's client, and the helper behind it with its result directories and its memory of completed jobs |

An action is one event with the promises it settles.  `Continue` is the code
behind a promise that several parts wait for (the coordinator, the barrier);
`Settled` lets it run before the next event.

Abstractions.  A selection that is external, unsupported or not yet known is
`None`; the selection's track id is part of the key.  A client that was given up
counts as gone with its results, since no later call goes there.  A `prepare` that a
helper refuses (`INVALID_REQUEST`) is the outcome "refused".  The 25 s of the
RPC may pass at any time for an attempt that was overtaken; the deadlines of
the control calls to a helper that lives, and the second after which the
supervisor stops repeating a cancellation the helper does not know, are faults.
The window's own end is not modelled.

| Run | Instance | Shows | Distinct states |
|---|---|---|---|
| `preparation_sources` | 1 track, 2 files, 2 attempts, 1 fault | only the selected subtitle becomes the source (`SourceIsSelected`), the sidebar is told the truth (`SidebarTellsView`), jobs do not overlap (`NeverRefused`), nothing is left in the helper (`NothingLeft`), and no preparation is suspended for ever (`PreparationReturns`) | 312 842 |

Bounds.  Two attempts give every relation of an attempt and its predecessor; the
barrier relates each attempt to the one before it only.  The second file makes
the key of the first attempt differ from that of the second; a second track would do
it the same way.  One fault is enough to make a deadline pass against a
helper that lives, or to defeat a job whose replay then runs on a new helper.

Fairness.  Timers fire and promises continue (`Clock`, `Continue`,
`Coordinator`); a live helper takes the calls in its directory and ends a task
it has cancelled (`Helper`), as the demuxer polls for cancellation; the supervisor's
calls proceed.  Nothing is assumed of an extraction that was not cancelled.

Noticed on the way (`subtitle-preparation.ts:185`).  A result that is handled
after `deadlineAt` and before the timer fires is dropped, and so is the timer: the
preparation has ended while its view says "preparing".  It is listed as a hazard
without a property: no document promises otherwise.

## 6. CredentialStore

`ProfileActivation` takes the document of the profiles as one value that changes
atomically.  This module says how `SecureCredentialStore.swift` makes it so, and
what several helpers, of which all but one were given up, can do to it.

| State | Code |
|---|---|
| `visible` | the document `credentials.json` names: its format, revision, receipt and the calls it contains |
| `flushed`, `outcomes` | whether that content is on disk; the documents a loss of power may leave, since a rename is durable only once the directory is synchronised |
| `swept` | the files of the legacy version were removed |
| `lock`, `task` | `.credentials.lock`, and the step its holder has reached: syncing, settling, writing, flushed, renamed |
| `alive`, `current`, `inbox` | helpers that run, the one the supervisor uses, what each was sent |
| `log`, `known`, `expired` | calls of the global entry in order, what it last read, recoveries whose deadline passed |
| `spent` | saves whose sealed frame a helper has opened; it opens once |

A call is issued on the document last seen (`Issue`), lost or given up
(`GiveUp`), sent again to a fresh helper when its outcome can be repeated, and
answered.  A helper takes the lock (`Takes`), refuses or confirms by the
receipt, or replaces: `Flush` the temporary file, `Rename`, `SyncDirectory`,
answer.  `StepFails` is an I/O error at any of them, `Die` and `LosePower` come
at any point.  A loss of power leaves any member of `outcomes`, a torn
file among them when one was renamed that was not flushed.

From the code rather than from expectation:

- `recover` is asked for after *any* read that failed (`profile-activation.ts`),
  so it must itself look again before it discards anything.
- In a migration or a cleanup a failure to synchronise is
  `migration-unconfirmed` and is not repeated; elsewhere it is
  `profile-state-unconfirmed`, and is.
- `open` is an operation of the store that takes no revision to compare with, and
  that the runtime has but never issues; the model issues it all the same.
- A document in a newer format counts as unreadable.  Temporary files left by a
  crash are never removed; they are never read either, and are left out.

`credential_store` (3 helpers one after the other, 3 calls, 2 faults, one loss of
power; every state the document may be found in; 3 825 712 states): what was
answered as committed, and what a removal of legacy files relies on, is
durable (`ReliedOnIsDurable`); no readable document is replaced by one that does not
follow from it (`NothingIsLost`).  Three helpers let a second try meet a first
one that is still under way, and a third one both; three calls let one run between a
call that was given up and its late effect.  Nothing here is fair: a call that is
never answered is the supervisor's subject.

## 7. ProviderRequests

Every request made of a provider: translations of a window's batch, connection
tests and model lists of a sidebar, the model list the entry fetches at startup.

| State | Code |
|---|---|
| `session`, `frozen`, `waiting` | the window: its player session, what a request was made for, the promises it still holds |
| `up` | its messages on their way.  They are a set: files are read in wall-clock order, and a clock that is set back reorders them |
| `outer`, `broker`, `adapter` | three `RequestLifecycle`s a translation is in at once (a test is in two, a list in one) |
| `accepted`, `seen`, `closed` | `translationSessions`, tombstones, senders released for good |
| `at` | the await the handler is suspended at |
| `wire`, `again`, `told` | the calls of the helper a request is made of, how often one was sent again, which were cancelled there |
| `answer` | what was posted to the window |
| `ready`, `revision`, `epoch`, `active`, `generation`, `certain`, `clearing` | the authority as `global.ts` and the broker read it |
| `known`, `catalog` | capability an Ollama or OpenAI provider remembers, the cached model list |

`Issue`, `WindowCancels`, `NewSession`, `WindowCloses` are the window's;
`Receive` is the whole handler of a request up to its first await, `Enter` and
`Provided` the code after it, `Post`, `NoHelper` and `Reply` the wires, with the
second try each provider makes (`Replies`, `MayRepeat`: a refused capability, a
probe, further pages of a list).  `ReceiveCancel`, `ReceiveClose`, `Expire` and the
changes of the authority end requests in all lifecycles they are in.

Abstractions.  The frames a closing window posts are one message.  A change of
the authority is one step, with the clearing of the caches after it (`ClearCaches`).
A sidebar accepts the result of a test only while it shows "testing", so its
verdict is left out.  Slots and deadlines of the calls are `HelperRpc`'s.

| Run | Instance | Shows | Distinct states |
|---|---|---|---|
| `provider_requests` | 1 window and the startup, 2 requests in seven pairs of operation and provider, a translation of 2 wires, 2 sessions, 1 change, 1 expiry | what was stopped does nothing more, whatever it was waiting for (`WorkIsWanted`); no lifecycle forgets a job another still runs (`NoOrphanJob`); no stale list stays cached (`CatalogIsCurrent`); no window waits for an attempt that nobody works on (`WaitingIsInHand`) | 4 015 258 |

The pairs are chosen so that each operation meets each other or itself, and
each kind of provider occurs with its second try; two requests with one id
scope are enough for replacement, and one change for a guard that fails between
two awaits.

Nothing here is fair.  `WaitingIsInHand` says what an answer depends on: the
mailbox is polled, the start waits for the profiles at most 15 s, handlers resume, a
call of the helper ends at its deadline, 15 s or 130 s.  It excepts a window
whose session the mailbox expired while it lived (`lapsed`): the entry releases its
requests without an answer, the window's client has no deadline, and the batch
waits until something else replaces it.

## 8. HelperRpc and HelperJobs

The two sides of the transport helper.  `HelperRpc` is the supervisor with the
launches it starts and the bridges it calls through; `HelperJobs` is one helper
from the claim of a request file to its answer.

| State of `HelperRpc` | Code |
|---|---|
| `current`, `starting`, `launched`, `disposed` | `supervisor.ts`: the client, the shared launch, what became of each |
| `check` | the health check callers share, with its second attempt |
| `caller`, `withdrawn` | each operation, the await it is at, whether it is still wanted |
| `rpc`, `active`, `waiters`, `polling` | `provider-transport.ts`: calls, `activeRequests`, the queue of slot waiters, the poll loop, per bridge |

A call goes `Post` (slot or queue), `Execute`, `Answered` or `TimesOut`, and
`Release`, which hands the slot to the first waiter or counts down; a waiter
expires after its second (`WaiterExpires`).  `Retire` closes a bridge with all
its calls.  `Die` and `PollStops` may come at any time.

| State of `HelperJobs` | Code |
|---|---|
| `request`, `preparing` | the handler of a request in `main.swift`, its generation in the actor |
| `transfer`, `entry`, `told` | the job of `HTTPClient.swift`, its entry in the table, transfers that were cancelled |
| `cancel` | the cancellation of each: it hit a request being handled, missed it, or was undone by its end |
| `permits`, `hostQueue` | the limiter of a host |
| `draft`, `draftJobs`, `closing` | the credential draft the job borrows from |
| `changed`, `exiting` | the saved profile is another one; the worker is cancelled |

A request is authorized three times, at the claim, when it is registered and
when it has a permit, because the draft or the profile may go between any two.

Abstractions.  `HelperRpc`: the supervisor's `shutdown` and `health` are never
called by the runtime; the calls of a profile recovery are `CredentialStore`'s.
When all slots are taken for a second, the call counts as `HELPER_UNAVAILABLE`
and retires the client, as `tests/contract/transport-supervisor.test.ts:326`
asks.  `HelperJobs`: the plugin never sends `/v2/shutdown` and never reuses a
job id; there is one host and one draft; a request that is withdrawn before it is
claimed is one that was never made; the guards around the store's read in `authorize`
are one step.  A cancellation that is claimed before its request misses it, and the
job runs to its end: so the code behaves, and `CancelledHasNoResult` speaks of
cancellations that came while the request was handled.

| Run | Instance | Shows | Distinct states |
|---|---|---|---|
| `helper_rpc` | 2 callers of every kind, 2 launches, 1 slot, 1 fault | slots are counted right (`SlotsAccounted`), no client is lost with its poller (`NoClientIsLost`), every caller hears (`OperationsEnd`) | 371 887 |
| `helper_jobs` | 2 requests, one with a draft's credential, 1 permit, 3 claims | a cancelled request has no result (`CancelledHasNoResult`), what is stopped leaves the network (`StoppedLeavesNetwork`), what was claimed is answered (`JobsEnd`) | 492 162 |

Bounds.  One slot and two callers with the shared check are three parties for
it, so that a hand-over meets an expiry and a closing.  One permit and two
requests make one wait; three claims let both cancellations compete with them.

Fairness.  Promises continue and deadlines pass (`HelperRpc`); a launch is given 250
looks at the ready file.  Actors and tasks run and a transfer has a timeout of at
most 120 s (`HelperJobs`); nothing is assumed of the network.

## 9. Mailbox and SharedStyle

`Mailbox` is `global-mailbox.ts`: frames in files, a depth limit per direction
that counts the frames of all windows, a list of windows the entry believes to
be there.  It is not a component to run alone; `SharedStyle` extends it with the
messages of the three things all windows share, text style, overlay position
and the style picker.

| State | Code |
|---|---|
| `players`, `requests`, `responses`, `window` | `Mailbox`: registered sessions, frames each way, windows with the way they closed |
| `style`, `position` | `SubtitleStyleAuthority`, `OverlayPositionAuthority`: committed and shown value, intents, revision |
| `stored` | the preferences |
| `active`, `opening`, `client`, `launching`, `asked`, `batch` | `global.ts` and `style-picker-client.ts`: the session, handlers that wait for the helper, the helper's client, font questions, events read and not handled |
| `helper`, `calls` | the picker process with its panel and its bounded store of events; calls on their way |
| `follower` | what each window's script and sidebar follow: state of the style and of the position, what the window draws (`drawn`, `at`), and whether its user changed that since (`edited`, `moved`) |

A window opens with what its followers are constructed with, no style and the
default position under the numbers 0 and 0, while the authorities begin with
what the preferences hold under the same numbers; it asks for both when it opens
and when its sidebar is ready, and either question, or its answer, may be lost.  What
its user edits or moves it draws at once, before the message is posted, and posts
it even to a full queue that drops it.  The follower of the position
accepts a state with its own numbers, that of the style only a later revision.

A handler of the entry is one action to its first await, and everything it
publishes goes through a copy of the responses: a broadcast that throws at the
depth limit stops between two windows, and what the handler does after it is
skipped.  Faults are frames that are lost (files that cannot be read), saves that
fail, sessions that expire while the window lives, a picker that dies and a poll
that meets the gap in its store.

Abstractions.  A style has one color field and the font.  A depth of 3 stands for
128, a capacity of 1 for the 256 events of the picker.  Users choose a value other
than the one shown.  A window handles all its responses in one tick (16 are read
at once), the entry one frame per step.  A result carries the authority's state
and is the message a broadcast would be; the phases of the protocol and
`changedField` are left out.  Heartbeats of registered windows are left out.  Of the
picker's calls those that change no state are left out, an open task is one step, a
cancellation two.  One color is tried per session.

| Run | Instance | Shows | Distinct states |
|---|---|---|---|
| `shared_style` | 2 symmetric windows, 2 user acts, 1 fault, 4 events in all | windows told of one revision or intent have one style or position, the authority's if these are its numbers, and draw the same but for what a user has changed since; no style is ahead of the authority (`FollowersAgree`); what is stored is what is committed, however the telling of it ended (`SavedIsCommitted`); a picker's session ends with its window (`PickerIsOwned`) | 1 950 345 |
| `chosen_font` | the same without faults | the finding below | (violation) |

Bounds.  Depth 3 is reached by two windows and one act, so that each broadcast
may stop half-way.  Two acts let one window's edit meet the other's.  `MaxEvents`
counts acts, faults and windows that opened: two windows have two acts, or an
act and a fault, and one window has all three.  The theorem of section 13 has no
such bound.  A window that was told nothing is excepted from agreement: its numbers
are those of an authority that has not changed yet, with the default in place of
the restored position, until it is answered or told.  Nothing is
said about liveness: a lost frame leaves a window behind until the next broadcast.

Finding (`chosen_font`).  When a family was confirmed in the picker, it is
committed, stored and broadcast, and the font the windows draw with stays the
one before: `acceptFontPickerFamily` (`global.ts:914`) does not touch the
authority's font resolution, which is set when a client of the picker is
created, when the installed fonts change and when the polling ends, and the
windows draw with that resolution.  After a restart it is the system's font until a
picker is opened.  `docs/releases/v0.1.3.md:5` says that the family updates the
current subtitle immediately.

## 10. ProfileEditor

The editor of profiles in the sidebar of one window: `sidebar.ts` over the
reducer `sidebar-state.ts` and the client of the credential channel
(`credential-editor.ts`), with as much of `main.ts` and `global.ts` as answers it.

| State | Code |
|---|---|
| `stored`, `active`, `version` | the window's mirror of the profiles |
| `host` | requests the global entry works on, with the mark that they were cancelled |
| `queued` | `SidebarMessageBuffer`: messages in order, the answers of the credential relay among them, whose port to the sidebar is `queueSidebarMessage` (`main.ts:656-660`); the snapshot of a poll (`state:update`) overtakes it |
| `list`, `enabled`, `known`, `gone`, `rows` | `snapshot.profiles`, the activation and its version, `deletedProfileIds`, the rows on screen |
| `drawer`, `editing` | `snapshot.drawer` with its test, `editingProfile` |
| `key`, `edits` | the key field, the edits of the fields the user made |
| `channel`, `load`, `reader`, `owner` | the channel of the credential editor, `credentialLoad`, the read, `credentialReadOwner` |
| `refresh`, `auto` | `pendingModelRefresh`, the intent to list models when the key is there or the endpoint left alone |
| `save`, `locked` | `pendingProfileSave`, the disabled fields |
| `dialog`, `switch`, `timers` | the deletion, the pending activation and its timeouts |

An action is one event of the page with the promises it settles at once: a
click, an edit, a timer, the delivery of a message (`Deliver`), a poll
(`HandleUpdate`), the answer of the channel.  What is opened synchronously, like the
channel of a test, is part of the click.  `CloseChannel` is `credentialEditor.close()`
and rejects all that waits for it; four different events reach it.

Abstractions.  A profile is its id and revision.  A key is empty, typed, or the
saved one of a revision.  The host answers each request with success or failure,
or drops one that was cancelled; a change by another window is one step.  The
channel's sequence numbers and seals are ideal.  Left out: the replacement of the
whole authority, invalid endpoints and an empty model (both stop a click with a
message), the expiry of an open channel, focus and labels.

`profile_editor` (1 profile, not enabled at the start, `MCProfileEditor`; 2
changes of it, 2 drawers, 2 requests, 1 edit of a drawer, 2 messages queued, 2
requests and messages under way at a time; 2 019 788 states): a save expects no later revision than the one its drawer was
opened on, an older one being refused by the commit (`SaveExpectsWhatIsShown`); a
test speaks of the draft on screen (`TestTellsTheDraft`); a saved key stands only
in the drawer of its revision and never over a typed one
(`KeyBelongsToTheDrawer`); the entry works for nobody who has gone, and the
test it works on is the one the drawer awaits, so no answer of an older test ends it
(`RequestsAreOwned`); whatever waits still has what ends the wait (`WaitsEnd`).
Two drawers let an answer meet the next one, two changes let a save be stored
and the profile changed or deleted before its answer arrives, two messages let a
snapshot overtake both the change and its answer, and one edit separates a draft
from its predecessor.  The editor holds at most one profile at a time; a second one
adds only drawers that differ in name.

What the model found without a property for it: a save is stored and another
window changes the profile again, and a poll's snapshot overtakes the answer; the
answer then sets the row back to the revision that was saved, and a drawer opened
on that row, before the next update, expects a revision older than the one the
rest of it shows (its save is refused; `sidebar.ts:1752`).  A save that is
forgotten when a message closes its drawer leaves the fields disabled in the next drawer
(`sidebar.ts:913`, hazards); a refresh by hand whose channel a test's timeout
closes while it is being sealed ends in an error, one that was sent shows
"busy" until the next request; a deletion has no timeout of its own.

## 11. Hazards

`PROJECT.json` lists what is hard to test in this code at the line where it
bites, with the properties that would notice it, or why none does.  Three were
met while modelling and are no disagreement with a document, so they have no run:

- `publishProfileAuthority` may throw when the mailbox is full; the epoch is then
  not advanced, the open requests are not cancelled, and the change that was
  stored is reported as failed (`global.ts`, near 1551).
- the attempt of a window whose session was expired waits for ever (section 7).
- the preparation that ends in "preparing" (section 5).

## 12. Mutants

Operators commented "mutant" are deliberate faults in a neighbouring operator of
the code.  No action uses them; each shows, when put in the place of the operator
it is a mutant of, that a property of a run notices.  `PROJECT.json` pairs them.

## 13. Proofs

TLAPS proves the theorems below for every value of the constants: any number of
windows, cues, profiles, helpers, calls, slots and drawers, and every bound of
sections 3 to 10.  The bounds are guards of the actions, so the theorems are about them as
parameters.  Each `...Proofs` module states its inductive invariant in named parts,
has a lemma per action or group of actions, and one temporal step per theorem.

| Module | Theorem | States | Inductive invariant |
|---|---|---|---|
| `PlaybackControllerProofs` | `TypeCorrect`, `NeverStale`, `LiveCallsAreCurrent` | `TypeOK`, `NothingStale`, `LiveCallIsCurrent` | `IInv` |
| | `ScreenIsExact`, `CacheIsTheTable`, `WorkIsNeverRepeated`, `ControllerImplementsSession` | `OverlayExact`, `CacheMirrorsTranslations`, `NoRepeatedWork`, `ImplementsSession` | `TInv` |
| `ProfileActivationProofs` | `TypeCorrect`, `BelievesWhatWasStored`, `AnswersStayTrue`, `NumbersStayUnambiguous` | `TypeOK`, `BelievesAStoredPicture`, `AnswersAreTrue`, `NumbersNameOnePicture` | `AuthorityInv` |
| `CredentialStoreProofs` | `StoreIsTyped`, `ReliedOnStays`, `NothingReadableIsLost` | `TypeOK`, `ReliedOnIsDurable`, `NothingIsLost` | `StoreInv` |
| `ProviderRequestsProofs` | `TypeCorrect`, `NoJobIsOrphaned`, `NoListIsStale`, `NoAttemptIsDropped`, `StoppedDoesNoWork` | `TypeOK`, `NoOrphanJob`, `CatalogIsCurrent`, `WaitingIsInHand`, `WorkIsWanted` | `RequestInv` |
| `HelperProofs` | `TypeCorrect`, `SlotsStayAccounted`, `ClientsAreKept` | `TypeOK`, `SlotsAccounted`, `NoClientIsLost` | `RpcInv` |
| | `CancelledNeverAnswered` | `CancelledHasNoResult` | `CancelInv` |
| | `PermitsAreCounted`, `NothingStoppedStays` | `JobsTypeOK`, `StoppedLeavesNetwork` | `StopInv` |
| `SubtitlePreparationProofs` | `TypeCorrect`, `SidebarTellsTheView`, `JobsNeverMeet`, `NothingStaysBehind`, `SourceStaysSelected` | `TypeOK`, `SidebarTellsView`, `NeverRefused`, `NothingLeft`, `SourceIsSelected` | `PreparationInv` |
| `SharedStyleProofs` | `SharedIsTyped`, `SavedStaysCommitted`, `PickerStaysOwned`, `FollowersKeepAgreeing` | `TypeOK`, `SavedIsCommitted`, `PickerIsOwned`, `FollowersAgree` | `SharedInv` |
| `ProfileEditorProofs` | `TypeCorrect`, `TestTold`, `KeyBelongs`, `RequestsOwned`, `EveryWaitEnds`, `SaveExpects` | `TypeOK`, `TestTellsTheDraft`, `KeyBelongsToTheDrawer`, `RequestsAreOwned`, `WaitsEnd`, `SaveExpectsWhatIsShown` | `EditorInv`, and `HistoryOk` for the last |

Why each property needs more than itself:

- *PlaybackController.*  That a late continuation files nothing stale follows
  from what the job remembers: a job whose fingerprint is accepted has the
  session's identity and its call's origin (`JobSane`), and a call that is not
  settled is the one the job waits for (`CallsSane`).  On top stands the table:
  cache and screen follow the translations, and what a job of this session still
  has to do is neither translated nor given up (`JobIsOpen`); then every step
  is a step of `TranslationSession` or leaves its variables alone, and no new
  call is for a cue that has its text.
- *ProfileActivation.*  The argument follows one commit.  It is prepared from a
  picture in which no absent profile is enabled; while it runs the authority's
  revision stays the one it was prepared from, what a helper answers is a
  document of the lineage (`RunningSound`), and only a commit that no helper has
  executed or still can is refused (`NotSent`, `CommitSound`).  The last one is
  what a failed save needs and a failed `set` does not have: it is where the
  proof and the finding of section 4 part.
- *CredentialStore.*  The document a helper is about to write follows from the
  visible one, because nobody else changes that while it holds the lock
  (`TasksSound`); the visible document is one a loss of power may leave, and a
  document that cannot be read contains no call (`DiskSound`).
- *ProviderRequests.*  A request takes its path once: message, outer lifecycle,
  broker, wires (`Begun`).  A stopped one has left a lifecycle that every later
  step asks, or is remembered before it comes (`StoppedIsOver`).  A window that
  waits does so in its present session, which is the newest the entry accepted
  (`WindowsSound`).
- *HelperRpc.*  A slot is counted once because a call is at one stage of one
  bridge: it is posted only where it is unknown and read before it is posted
  again (`CallersSound`, `CheckSound`), and those who wait are in the queue once
  and have no slot (`BridgesSound`).  The health check is the hard part, as it may
  outlive the operation that began it and is shared.
- *HelperJobs.*  A result is given only to a request whose generation is valid; a
  cancellation takes the generation away and only the claim, which comes once,
  gives one (`CancelInv`).  The limiter counts right because a permit passes only
  to one that waits (`LimiterInv`).  Whoever is past its authorization and in the
  table can still be stopped, and whoever left the table is told or about to be
  (`Stoppable`): between the two no stopped job stays on the network.
- *SubtitlePreparation.*  What the helper keeps of an attempt is known from its
  call (`Kept`): a result is there until it is released, and everything that
  ends an attempt otherwise has removed it.  Jobs do not meet because of the
  barrier: while the helper answers in time, an attempt that works and is not
  wanted any more is being cancelled (`InOrder`), so one that starts when
  nothing is being cancelled comes after attempts that work no more (`Ordered`).
  That the sidebar is right depends on the loads that wait for the coordinator:
  the last of them is the one the window wants, and none of them finds an
  attempt that is over (`LoadsSound`, `KeySound`).
- *SharedStyle.*  First the mailbox: how many frames there are is a sum over the
  windows, and a handler publishes what fits (`Held`).  A handler is a function of a record of the entry's state,
  the responses so far among it, and `Good` says what such a record keeps, so a
  broadcast that throws between two windows is the same function cut short.
  Styles agree among the windows, the frames on their way to them and the
  authority, by revision; positions by intent and revision, but for windows that
  were told nothing (`Unplaced`).  What a window draws is what it follows unless
  its user has edited or moved it since (`Followed`), so windows that agree on what
  they follow agree on what they draw.
- *ProfileEditor.*  The sidebar forgets a request by dropping its id, the window
  by marking it cancelled, and an answer may be on its way between the two.  So
  the invariant relates all three: a request the window works on is known to the
  sidebar and not answered yet, and the ids in the queue are older than the ones a
  request that is not sent yet will take (`ModelsSound`, `TestsSound`).  A drawer
  is told from the ones before it by its number, and what is read for one carries
  that number and the revision it was opened at (`KeyOk`).  A save keeps its
  channel and bars every load, which is why its end always reaches the drawer
  (`SaveOk`).
  What a save expects depends on the past, which no variable holds: the sidebar
  shows the profiles of some earlier version, and the messages in the queue tell
  of others.  So `HistoryOk` says that there are lists of profiles, and sets of
  ids not born yet, one for each version up to the present, such that from one
  version to a later one a profile gets newer or goes for good (`Later`), the
  sidebar shows one of them (`Seen`), and each message tells of one, an
  authority of a stored save only of a revision that is in a list shown or told
  before it (`Told`, `Backed`).  A step that stores adds a version and changes none of the
  earlier ones.

Assumptions.  Each module names what it assumes of its constants, and the runs
evaluate it: bounds are naturals (positive where zero would mean nothing at
all), sets that the code counts are finite (cues, windows, callers, jobs),
parameters have their types, and `None`, which stands for the code's `null`, is
no other value.  Nothing is assumed about the order of events or the number of
faults.

Sums over windows and the queue of waiters are recursive functions or folds.  The
library's induction theorems take an operator as parameter and cannot be used
with these provers; `SharedStyleProofs` and `HelperProofs` prove instead that a set
of naturals with 0 and every successor is all of them (`Induction`, from the
well-foundedness of `<`), and from it that the sum unfolds (`SumUnfolds`), that
a queue without one of its members keeps the others in order (`WithoutKeeps`) and
that a fold over messages keeps what each message keeps (`FoldFollow`).

Only model-checked:

- Liveness: `WantedCuesSettle`, `InService`, `PreparationReturns`, `OperationsEnd`,
  `JobsEnd`.  Leads-to under fairness needs `ENABLED`, which these provers
  do not have.
- The two violations, which are counterexamples.

## 14. Not modelled

- `PlaybackController` takes the cancellation of a call as one that returns.
  `GlobalProviderClient.cancel` posts to the mailbox, and a closed or full mailbox
  throws in the middle of the owner; the runs of section 3 say nothing about that.
- The order of frames is that of the wall clock.  `Mailbox` takes the clock to
  advance; `ProviderRequests` allows any order.
- The end of a window in `SubtitlePreparation`, and the event handlers of
  `main.ts` that neither load a subtitle nor follow the style.
- The target language (`target-language-session.ts`): one slot that a newer
  request replaces; its hazard is listed.
- The overlay web view, and the sidebar outside its profile editor: rendering of
  what they are told; the replay of the last payload is one assignment.
- The cryptography of the credential channel, which is taken as ideal; the draft
  is `HelperJobs`' in the helper, the calls of the channel `HelperRpc`'s, its use
  by the sidebar `ProfileEditor`'s.
- Parsing of subtitles, codecs of messages, errors, logging, localization, host
  adapters: pure functions, tables of text, and calls of the player's API.
