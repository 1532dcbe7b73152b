-------------------------- MODULE ProviderRequests --------------------------
(***************************************************************************)
(* The requests that windows make of providers, as the global entry runs   *)
(* them: translations (a window's batch), connection tests and model lists *)
(* (a sidebar's), and the model list fetched at startup.  A translation is *)
(* registered in three lifecycles at once (global entry, broker, adapter), *)
(* a test in two, a model list in one; its wires are jobs of the transport *)
(* helper.                                                                 *)
(*                                                                         *)
(* There is one profile.  What a request was made for is frozen in it; the *)
(* authority's changes are actions here (they are specified in             *)
(* ProfileActivation).  Messages of a window are a set: files are sorted   *)
(* by wall-clock time, and a clock that is set back reorders them.         *)
(***************************************************************************)
EXTENDS Naturals, FiniteSets

CONSTANTS
    Sender,        \* windows, and the startup of the global entry
    Request,       \* request ids
    WindowOf,      \* [Request -> Sender]
    Setting,       \* kinds of the profile, with what each request is for
    Startup,       \* the sender of what the global entry itself asks for
    Parts,         \* wires of a translation
    MaxSession,    \* bound: sessions of a window
    MaxChanges,    \* bound: changes of the profile or its activation
    MaxExpiries,   \* bound: sessions the mailbox expires
    None

Op == {"translation", "test", "models", "prefetch"}
ProviderKind == {"openai", "claude", "deepseek", "ollama"}
\* What a request is made for: the session, and what is known of the profile.
Basis == [session : 1 .. MaxSession, revision : Nat, generation : Nat, epoch : Nat]

ASSUME RequestAssumption ==
    /\ Startup \in Sender
    /\ WindowOf \in [Request -> Sender \ {Startup}]
    /\ Setting \subseteq [kind : ProviderKind, op : [Request -> Op]]
    /\ {Parts, MaxSession} \subseteq Nat \ {0}
    /\ {MaxChanges, MaxExpiries} \subseteq Nat
    /\ None \notin Basis \cup Nat \cup {"result", "error"}

VARIABLES
    kind, op,      \* the kind of the profile; what each request is for
    \* windows and sidebars
    session,       \* session of the window's player
    frozen,        \* what a request was made for, None before
    waiting,       \* requests whose window still wants the answer
    up,            \* messages on their way to the global entry
    \* the global entry
    ready,         \* profiles and broker are there
    revision, epoch, active, generation,   \* authority, credentials
    certain,       \* no commit of the authority is under way or in doubt
    clearing,      \* caches that a change still has to clear
    known,         \* senders whose cached provider knows its capability
    catalog,       \* [revision, epoch] of the cached model list
    accepted,      \* translationSessions
    seen, closed,  \* tombstones; senders closed for good
    outer, broker, adapter,   \* phase of each request in each lifecycle
    at,            \* where its handler is suspended
    wire, again,   \* its wires, and how often one was sent again
    told,          \* jobs whose cancellation was sent to the helper
    answer,        \* what was posted to the window
    \* history
    ended,         \* requests the global entry was told to stop
    changes, expiries, lapsed

setting == <<kind, op>>
window == <<session, frozen, waiting>>
authority == <<revision, epoch, active, generation, certain, clearing>>
caches == <<known, catalog>>
lifecycles == <<accepted, seen, closed, outer, broker, adapter, told>>
running == <<at, wire, again, answer>>
history == <<ended, changes, expiries, lapsed>>
vars == <<setting, window, up, ready, authority, caches, lifecycles, running,
          history>>

SenderOf(r) == IF op[r] = "prefetch" THEN Startup ELSE WindowOf[r]

Wire == 0 .. (IF Parts > 3 THEN Parts ELSE 3)
InFlight == {"held", "posted"}

(***************************************************************************)
(* Adapters                                                                *)
(***************************************************************************)
\* Wires of a request after its probe, which is wire 0.
OllamaTestSteps == 3
ModelPages == IF kind = "claude" THEN 2 ELSE 1
Steps(r) ==
    CASE op[r] = "translation" -> Parts
      [] op[r] = "test" /\ kind = "ollama" -> OllamaTestSteps
      [] op[r] = "test" -> 1
      [] OTHER -> ModelPages

WiresOf(r) == 1 .. Steps(r)
Concurrency(r) == IF kind = "openai" /\ op[r] = "translation" THEN 2 ELSE 1

\* Only an OpenAI provider looks for a capability before it translates.
MustProbe(r) ==
    /\ kind = "openai"
    /\ op[r] = "translation"
    /\ SenderOf(r) \notin known

\* What a reply of the service means to an adapter: "again" asks for the wire
\* to be repeated without a feature, "skip" gives up one part only.
OpenAIReplies(r, k) ==
    {"ok", "failed"} \cup IF k = 0 \/ op[r] = "test" THEN {"again"} ELSE {}
ClaudeReplies == {"ok", "failed", "again"}
DeepSeekReplies == {"ok", "failed"}
OllamaReplies(r, k) ==
    {"ok", "failed"}
      \cup (IF op[r] = "translation" \/ k = OllamaTestSteps THEN {"again"} ELSE {})
      \cup (IF op[r] = "translation" /\ Parts > 1 THEN {"skip"} ELSE {})

Replies(r, k) ==
    CASE op[r] \in {"models", "prefetch"} -> {"ok", "failed"}
      [] kind = "openai" -> OpenAIReplies(r, k)
      [] kind = "claude" -> ClaudeReplies
      [] kind = "deepseek" -> DeepSeekReplies
      [] kind = "ollama" -> OllamaReplies(r, k)

MaxAgain == IF kind = "ollama" THEN 1 ELSE 2

\* The wires after the ones in w that may start: the probe alone, then as many
\* as may run at once, in order, until one has failed.
Launch(r, w) ==
    LET room == Concurrency(r) - Cardinality({k \in Wire : w[k] \in InFlight})
        rest == {k \in WiresOf(r) : w[k] = "none"}
    IN  IF w[0] \in InFlight \/ \E k \in Wire : w[k] = "failed" THEN w
        ELSE IF w[0] = "none" THEN [w EXCEPT ![0] = "held"]
        ELSE [k \in Wire |-> IF k \in rest /\ Cardinality({j \in rest : j < k}) < room
                             THEN "held" ELSE w[k]]

FirstWires(r) ==
    Launch(r, [k \in Wire |-> IF k = 0 /\ ~MustProbe(r) THEN "ok" ELSE "none"])

Idle(w) == \A k \in Wire : w[k] \notin InFlight

\* A translation of which something came back; every wire of anything else.
Succeeded(r, w) ==
    /\ \A k \in WiresOf(r) : w[k] \in {"ok", "skipped"}
    /\ \E k \in WiresOf(r) : w[k] = "ok"

(***************************************************************************)
(* Who may still act                                                       *)
(***************************************************************************)
Authorized(r) ==
    /\ ready /\ certain /\ active
    /\ frozen[r].generation = generation
    /\ frozen[r].revision = revision

SourceIsCurrent(r) ==
    /\ frozen[r].revision = revision
    /\ frozen[r].epoch = epoch

OuterGuard(r) ==
    /\ outer[r] = "active"
    /\ CASE op[r] = "translation" -> accepted[SenderOf(r)] = frozen[r].session
         [] OTHER -> SourceIsCurrent(r)

BrokerGuard(r) == OuterGuard(r) /\ broker[r] = "active" /\ Authorized(r)

\* The assertion a wire is under, before it is posted and after its reply.
Allowed(r) ==
    CASE op[r] = "translation" -> BrokerGuard(r) /\ adapter[r] = "active"
      [] op[r] = "test" -> OuterGuard(r) /\ adapter[r] = "active"
      [] OTHER -> OuterGuard(r)

JobsActive(r) ==
    IF op[r] \in {"translation", "test"} THEN adapter[r] = "active"
                                           ELSE outer[r] = "active"

Stopped(phase, R) ==
    [r \in Request |-> IF r \in R /\ phase[r] = "active" THEN "ended" ELSE phase[r]]

\* mutant: the adapter's jobs are not cancelled with the request
InvalidateButJobs(phases, O, B) ==
    LET o == {r \in O : outer[r] = "active"}
        b == {r \in B \cup {q \in o : op[q] = "translation"} : broker[r] = "active"}
    IN  /\ outer' = Stopped(phases, o)
        /\ broker' = Stopped(broker, b)
        /\ adapter' = Stopped(adapter, b \cup {r \in o : op[r] = "test"})
        /\ UNCHANGED told

\* Invalidates the requests of O in the lifecycle of the global entry and those
\* of B in the broker's.  Each hands the cancellation on to what it tracks.
InvalidateFrom(phases, O, B) ==
    LET o == {r \in O : outer[r] = "active"}
        b == {r \in B \cup {q \in o : op[q] = "translation"} : broker[r] = "active"}
        a == {r \in b \cup {q \in o : op[q] = "test"} : adapter[r] = "active"}
        jobs == a \cup {r \in o : op[r] \in {"models", "prefetch"}}
    IN  /\ outer' = Stopped(phases, o)
        /\ broker' = Stopped(broker, b)
        /\ adapter' = Stopped(adapter, a)
        /\ told' = told \cup {j \in jobs \X Wire : wire[j[1]][j[2]] \in InFlight}

Invalidate(O, B) == InvalidateFrom(outer, O, B)

Of(s, o) == {r \in Request : SenderOf(r) = s /\ op[r] = o}
Tests == {r \in Request : op[r] = "test"}
Lists == {r \in Request : op[r] \in {"models", "prefetch"}}

-----------------------------------------------------------------------------
Init ==
    /\ \E c \in Setting : kind = c.kind /\ op = c.op
    /\ session = [s \in Sender |-> 1]
    /\ frozen = [r \in Request |-> None]
    /\ waiting = {}
    /\ up = {}
    /\ ready = FALSE
    /\ revision = 1 /\ epoch = 0 /\ active = TRUE /\ generation = 1
    /\ certain = TRUE /\ clearing = FALSE
    /\ known = {} /\ catalog = None
    /\ accepted = [s \in Sender |-> None]
    /\ seen = {} /\ closed = {}
    /\ outer = [r \in Request |-> "new"]
    /\ broker = [r \in Request |-> "new"]
    /\ adapter = [r \in Request |-> "new"]
    /\ told = {}
    /\ at = [r \in Request |-> "new"]
    /\ wire = [r \in Request |-> [k \in Wire |-> "none"]]
    /\ again = [r \in Request |-> 0]
    /\ answer = [r \in Request |-> None]
    /\ ended = {} /\ changes = 0 /\ expiries = 0 /\ lapsed = {}

-----------------------------------------------------------------------------
(***************************************************************************)
(* Windows and sidebars                                                    *)
(***************************************************************************)
IsOpen(s) == session[s] > 0

\* The window asks for r with what it knows of the profile.
Issue(r) ==
    LET s == SenderOf(r)
    IN  /\ frozen[r] = None /\ IsOpen(s) /\ op[r] # "prefetch"
        /\ frozen' = [frozen EXCEPT ![r] = [session |-> session[s], revision |-> revision,
                                            generation |-> generation, epoch |-> epoch]]
        /\ waiting' = waiting \cup {r}
        /\ up' = up \cup {<<"request", r>>}
        /\ UNCHANGED <<setting, session, ready, authority, caches, lifecycles, running, history>>

Withdraw(R) ==
    /\ waiting' = waiting \ R
    /\ up' = up \cup {<<"cancel", r>> : r \in R}

\* A batch is overtaken, a test runs into the sidebar's deadline or its fields
\* change, a model list is not wanted any more.
WindowCancels(r) ==
    /\ r \in waiting
    /\ Withdraw({r})
    /\ UNCHANGED <<setting, session, frozen, ready, authority, caches, lifecycles, running, history>>

\* Another video, source, language or provider: the attempts of the window are
\* cancelled, and the next ones are of another session.
NewSession(s) ==
    /\ IsOpen(s) /\ session[s] < MaxSession
    /\ Withdraw(waiting \cap Of(s, "translation"))
    /\ session' = [session EXCEPT ![s] = @ + 1]
    /\ UNCHANGED <<setting, frozen, ready, authority, caches, lifecycles, running, history>>

\* The listener of window-will-close: the mailbox closes before the controller
\* could cancel its attempts.
WindowCloses(s) ==
    /\ IsOpen(s) /\ s # Startup
    /\ session' = [session EXCEPT ![s] = 0]
    /\ waiting' = {r \in waiting : SenderOf(r) # s}
    /\ up' = up \cup {<<"close", s>>}
    /\ UNCHANGED <<setting, frozen, ready, authority, caches, lifecycles, running, history>>

(***************************************************************************)
(* The end of a request                                                    *)
(***************************************************************************)
\* Every lifecycle finishes r; the window is told, unless r was ended before.
Finish(r, reply) ==
    LET tells == outer[r] = "active" /\ reply # None
    IN  /\ outer' = Stopped(outer, {r})
        /\ broker' = Stopped(broker, {r})
        /\ adapter' = Stopped(adapter, {r})
        /\ at' = [at EXCEPT ![r] = "over"]
        /\ wire' = [wire EXCEPT ![r] = [k \in Wire |-> "none"]]
        /\ again' = [again EXCEPT ![r] = 0]
        /\ answer' = IF tells THEN [answer EXCEPT ![r] = reply] ELSE answer
        /\ waiting' = IF tells THEN waiting \ {r} ELSE waiting
        /\ told' = told \ ({r} \X Wire)

\* mutant: a request that lost its profile is dropped without an answer
RejectSilently(r) == Finish(r, None)

\* A model list that lost its profile is dropped without an answer.
Reject(r) == Finish(r, IF op[r] \in {"models", "prefetch"} THEN None ELSE "error")

(***************************************************************************)
(* Handlers of provider:attempt, provider:test and provider:models         *)
(***************************************************************************)
RestoreProfiles ==
    /\ ~ready
    /\ ready' = TRUE
    /\ UNCHANGED <<setting, window, up, authority, caches, lifecycles, running, history>>

\* mutant: a cancellation that comes first leaves no trace
IsRefusedOnceOnly(r) ==
    \/ SenderOf(r) \in closed
    \/ outer[r] # "new"

IsRefused(r) ==
    \/ SenderOf(r) \in closed
    \/ r \in seen

IsOfOldSession(r) ==
    /\ op[r] = "translation"
    /\ accepted[SenderOf(r)] # None
    /\ frozen[r].session < accepted[SenderOf(r)]

\* The requests of the same window that r replaces.
ReplacedBy(r) ==
    {q \in Of(SenderOf(r), op[r]) :
        outer[q] = "active" /\ (op[r] = "translation" => frozen[q].session # frozen[r].session)}

Refuse(r) ==
    /\ IsOfOldSession(r) \/ IsRefused(r)
    /\ at' = [at EXCEPT ![r] = "over"]
    /\ UNCHANGED <<setting, window, ready, authority, caches, lifecycles, wire, again, answer, history>>

Accept(r) ==
    /\ ~IsOfOldSession(r) /\ ~IsRefused(r)
    /\ InvalidateFrom([outer EXCEPT ![r] = "active"], ReplacedBy(r), {})
    /\ frozen' = [frozen EXCEPT ![r].epoch = epoch]
    /\ LET s == SenderOf(r)
       IN  accepted' = IF op[r] = "translation"
                         THEN [accepted EXCEPT ![s] = frozen[r].session] ELSE accepted
    /\ seen' = seen \cup {r}
    /\ at' = [at EXCEPT ![r] = "ready"]
    /\ ended' = ended \cup ReplacedBy(r)
    /\ UNCHANGED <<setting, session, waiting, ready, authority, caches, closed, wire, again, answer,
                   changes, expiries, lapsed>>

Receive(r) ==
    /\ <<"request", r>> \in up
    /\ up' = up \ {<<"request", r>>}
    /\ \/ Refuse(r)
       \/ Accept(r)

\* prefetchProfileModels, at the start of the global entry.
Prefetch(r) ==
    /\ ready /\ op[r] = "prefetch" /\ at[r] = "new"
    /\ frozen' = [frozen EXCEPT ![r] = [session |-> 1, revision |-> revision,
                                        generation |-> generation, epoch |-> epoch]]
    /\ outer' = [outer EXCEPT ![r] = "active"]
    /\ seen' = seen \cup {r}
    /\ at' = [at EXCEPT ![r] = "wires"]
    /\ wire' = [wire EXCEPT ![r] = FirstWires(r)]
    /\ UNCHANGED <<setting, session, waiting, up, ready, authority, caches, accepted, closed, broker,
                   adapter, told, again, answer, history>>

Unchanged == UNCHANGED <<setting, session, frozen, up, ready, authority, caches, accepted, seen,
                         closed, history>>

Suspend(r, step) ==
    /\ at' = [at EXCEPT ![r] = step]
    /\ UNCHANGED <<waiting, again, answer, outer, told>>

\* After profileReady: a translation enters the broker, a test its adapter.
Enter(r) ==
    /\ at[r] = "ready" /\ ready
    /\ IF ~OuterGuard(r) \/ (op[r] = "translation" /\ ~Authorized(r))
         THEN Reject(r)
         ELSE IF op[r] = "translation"
         THEN /\ broker' = [broker EXCEPT ![r] = "active"]
              /\ Suspend(r, "provider")
              /\ UNCHANGED <<adapter, wire>>
         ELSE /\ adapter' = IF op[r] = "test" THEN [adapter EXCEPT ![r] = "active"] ELSE adapter
              /\ wire' = [wire EXCEPT ![r] = FirstWires(r)]
              /\ Suspend(r, "wires")
              /\ UNCHANGED broker
    /\ Unchanged

\* createProvider has answered; it rejects when the cache was cleared meanwhile.
Provided(r) ==
    /\ at[r] \in {"provider", "rejected"}
    /\ IF at[r] = "rejected" \/ ~BrokerGuard(r)
         THEN Reject(r)
         ELSE /\ adapter' = [adapter EXCEPT ![r] = "active"]
              /\ wire' = [wire EXCEPT ![r] = FirstWires(r)]
              /\ Suspend(r, "wires")
              /\ UNCHANGED broker
    /\ Unchanged

-----------------------------------------------------------------------------
(***************************************************************************)
(* Wires                                                                   *)
(***************************************************************************)
SetWire(r, k, state) == [wire EXCEPT ![r][k] = state]

\* What follows when a wire is settled: more wires, or the end of the request.
Settle(r, w, learns) ==
    LET next == Launch(r, w)
        good == Succeeded(r, next) /\ Allowed(r)
        lists == op[r] \in {"models", "prefetch"}
    IN  /\ known' = IF learns THEN known \cup {SenderOf(r)} ELSE known
        /\ IF ~Idle(next)
             THEN /\ wire' = [wire EXCEPT ![r] = next]
                  /\ UNCHANGED <<waiting, outer, broker, adapter, told, at, again, answer, catalog>>
             ELSE /\ IF good THEN Finish(r, "result")
                     ELSE IF Allowed(r) THEN Finish(r, "error") ELSE Reject(r)
                  /\ catalog' = IF good /\ lists THEN [revision |-> revision, epoch |-> epoch]
                                                 ELSE catalog

\* client.request has a helper and a slot: it asserts once more, and posts.
Post(r, k) ==
    /\ wire[r][k] = "held"
    /\ IF Allowed(r)
         THEN /\ wire' = SetWire(r, k, "posted")
              /\ UNCHANGED <<waiting, outer, broker, adapter, told, at, again, answer, known, catalog>>
         ELSE Settle(r, [wire[r] EXCEPT ![k] = "failed"], FALSE)
    /\ UNCHANGED <<setting, session, frozen, up, ready, authority, accepted, seen, closed, history>>

\* No helper starts, or no slot is free before the deadline.
NoHelper(r, k) ==
    /\ wire[r][k] = "held"
    /\ Settle(r, [wire[r] EXCEPT ![k] = "failed"], FALSE)
    /\ UNCHANGED <<setting, session, frozen, up, ready, authority, accepted, seen, closed, history>>

\* A reply means nothing when the request may not act any more.
Meaning(r, reply) ==
    IF ~Allowed(r) THEN "failed" ELSE IF reply = "skip" THEN "skipped" ELSE reply

MayRepeat(r) == again[r] < MaxAgain

\* The helper answers, or its deadline or the client's passes ("failed").
Reply(r, k) ==
    /\ wire[r][k] = "posted"
    /\ \E reply \in Replies(r, k) :
         LET meaning == Meaning(r, reply)
         IN  IF meaning = "again" /\ MayRepeat(r)
               THEN /\ wire' = SetWire(r, k, "held")
                    /\ again' = [again EXCEPT ![r] = @ + 1]
                    /\ UNCHANGED <<waiting, outer, broker, adapter, told, at, answer, known, catalog>>
               ELSE Settle(r, [wire[r] EXCEPT ![k] = IF meaning = "again" THEN "failed" ELSE meaning],
                           meaning = "ok" /\ k = 0)
    /\ UNCHANGED <<setting, session, frozen, up, ready, authority, accepted, seen, closed, history>>

-----------------------------------------------------------------------------
(***************************************************************************)
(* Handlers that stop requests                                             *)
(***************************************************************************)
\* provider:cancel, provider:test-cancel and provider:models-cancel.  The id is
\* remembered, for its request may come later.
ReceiveCancel(r) ==
    /\ <<"cancel", r>> \in up
    /\ up' = up \ {<<"cancel", r>>}
    /\ Invalidate({r}, {r})
    /\ seen' = IF SenderOf(r) \in closed THEN seen ELSE seen \cup {r}
    /\ ended' = ended \cup {r}
    /\ UNCHANGED <<setting, window, ready, authority, caches, accepted, closed, running, changes,
                   expiries, lapsed>>

From(s) == {r \in Request : SenderOf(r) = s}

Release(s) ==
    /\ Invalidate(From(s), From(s))
    /\ accepted' = [accepted EXCEPT ![s] = None]
    /\ ended' = ended \cup {r \in From(s) : at[r] \notin {"new", "over"}}

\* The empty test-cancel and models-cancel and the CLOSE frame of the mailbox, as
\* one message: releaseSender, for good.
ReceiveClose(s) ==
    /\ <<"close", s>> \in up
    /\ up' = up \ {<<"close", s>>}
    /\ Release(s)
    /\ closed' = closed \cup {s}
    /\ seen' = seen \ From(s)
    /\ UNCHANGED <<setting, window, ready, authority, caches, running, changes, expiries, lapsed>>

\* The mailbox expires the session of a silent window, which lives on.
Expire(s) ==
    /\ expiries < MaxExpiries /\ IsOpen(s) /\ s # Startup
    /\ expiries' = expiries + 1
    /\ lapsed' = lapsed \cup {s}
    /\ Release(s)
    /\ UNCHANGED <<setting, window, up, ready, authority, caches, seen, closed, running, changes>>

-----------------------------------------------------------------------------
(***************************************************************************)
(* The authority                                                           *)
(***************************************************************************)
\* Nothing is authorized while a commit is on its way to the store.
BeginCommit ==
    /\ ready /\ certain /\ changes < MaxChanges
    /\ changes' = changes + 1
    /\ certain' = FALSE
    /\ UNCHANGED <<setting, window, up, ready, revision, epoch, active, generation, clearing, caches,
                   lifecycles, running, ended, expiries, lapsed>>

FailCommit ==
    /\ ~certain
    /\ certain' = TRUE
    /\ UNCHANGED <<setting, window, up, ready, revision, epoch, active, generation, clearing, caches,
                   lifecycles, running, history>>

Activation(on) == /\ active' = on
                  /\ generation' = IF on # active THEN generation + 1 ELSE generation

Commit == ~certain /\ certain' = TRUE

SetActivation ==
    /\ Commit
    /\ Activation(~active)
    /\ Invalidate({}, Request)
    /\ ended' = ended \cup {r \in Request : broker[r] = "active"}
    /\ UNCHANGED <<setting, window, up, ready, revision, epoch, clearing, caches, accepted, seen, closed,
                   running, changes, expiries, lapsed>>

\* Tests whose result would be of another revision are told so.
InvalidateProfile(R) ==
    LET tests == {r \in Tests : outer[r] = "active"}
        lists == {r \in Lists : outer[r] = "active"}
    IN  /\ Invalidate(tests \cup lists, R)
        /\ answer' = [r \in Request |-> IF r \in tests THEN "error" ELSE answer[r]]
        /\ waiting' = waiting \ tests
        /\ ended' = ended \cup tests \cup lists \cup {r \in R : broker[r] = "active"}
        /\ epoch' = epoch + 1

\* profile:save-commit and profile:delete: the caches are cleared when the
\* cancellations have returned.
ChangeProfile ==
    /\ Commit
    /\ revision' = revision + 1
    /\ Activation(FALSE)
    /\ InvalidateProfile(Request)
    /\ clearing' = TRUE
    /\ known' = {}   \* providers are cached by epoch
    /\ UNCHANGED <<setting, session, frozen, up, ready, catalog, accepted, seen, closed, at, wire, again,
                   changes, expiries, lapsed>>

\* reconcileProfileAuthority: what the store holds, and nothing cached.
ReconcileProfiles ==
    /\ Commit
    /\ \/ UNCHANGED <<revision, active, generation>>
       \/ UNCHANGED revision /\ Activation(~active)
       \/ revision' = revision + 1 /\ Activation(FALSE)
    /\ InvalidateProfile(Request)
    /\ known' = {} /\ catalog' = None
    /\ UNCHANGED <<setting, session, frozen, up, ready, clearing, accepted, seen, closed, at, wire, again,
                   changes, expiries, lapsed>>

\* mutant: the model lists are left in their cache
ClearProvidersOnly ==
    /\ clearing
    /\ clearing' = FALSE
    /\ known' = {}
    /\ at' = [r \in Request |-> IF at[r] = "provider" THEN "rejected" ELSE at[r]]
    /\ UNCHANGED <<setting, window, up, ready, revision, epoch, active, generation, certain, catalog,
                   lifecycles, wire, again, answer, history>>

\* The cache is cleared of the profile whatever revision its entries are of.
ClearCaches ==
    /\ clearing
    /\ clearing' = FALSE
    /\ known' = {} /\ catalog' = None
    /\ at' = [r \in Request |-> IF at[r] = "provider" THEN "rejected" ELSE at[r]]
    /\ UNCHANGED <<setting, window, up, ready, revision, epoch, active, generation, certain, lifecycles,
                   wire, again, answer, history>>

-----------------------------------------------------------------------------
Step(r) ==
    \/ Issue(r) \/ WindowCancels(r) \/ Receive(r) \/ Prefetch(r) \/ Enter(r) \/ Provided(r)
    \/ ReceiveCancel(r)
    \/ \E k \in Wire : Post(r, k) \/ NoHelper(r, k) \/ Reply(r, k)

Next ==
    \/ RestoreProfiles
    \/ \E r \in Request : Step(r)
    \/ \E s \in Sender : NewSession(s) \/ WindowCloses(s) \/ ReceiveClose(s) \/ Expire(s)
    \/ BeginCommit \/ FailCommit \/ SetActivation \/ ChangeProfile \/ ReconcileProfiles
    \/ ClearCaches

Spec == Init /\ [][Next]_vars

-----------------------------------------------------------------------------
(***************************************************************************)
(* Properties                                                              *)
(***************************************************************************)
Phase == {"new", "active", "ended"}
Message == ({"request", "cancel"} \X Request) \cup ({"close"} \X Sender)
Stage == {"new", "ready", "provider", "rejected", "wires", "over"}
WireState == {"none", "held", "posted", "ok", "failed", "skipped"}

SettingType == kind \in ProviderKind /\ op \in [Request -> Op]
WindowType ==
    /\ session \in [Sender -> 0 .. MaxSession]
    /\ frozen \in [Request -> Basis \cup {None}]
    /\ waiting \subseteq Request /\ up \subseteq Message
AuthorityType ==
    /\ ready \in BOOLEAN /\ active \in BOOLEAN /\ certain \in BOOLEAN /\ clearing \in BOOLEAN
    /\ revision \in Nat /\ epoch \in Nat /\ generation \in Nat
    /\ known \subseteq Sender /\ catalog \in [revision : Nat, epoch : Nat] \cup {None}
LifecycleType ==
    /\ accepted \in [Sender -> (1 .. MaxSession) \cup {None}]
    /\ seen \subseteq Request /\ closed \subseteq Sender
    /\ outer \in [Request -> Phase] /\ broker \in [Request -> Phase] /\ adapter \in [Request -> Phase]
    /\ told \subseteq Request \X Wire
RunningType ==
    /\ at \in [Request -> Stage] /\ wire \in [Request -> [Wire -> WireState]]
    /\ again \in [Request -> 0 .. 2] /\ answer \in [Request -> {None, "result", "error"}]
HistoryType == ended \subseteq Request /\ changes \in Nat /\ expiries \in Nat /\ lapsed \subseteq Sender

\* Every variable keeps its type.
TypeOK ==
    /\ SettingType /\ WindowType /\ AuthorityType /\ LifecycleType /\ RunningType /\ HistoryType

\* Once the global entry was told to stop a request, by the window, by a newer
\* session, by a change of the profile or by the end of the window, no wire of it
\* is posted, no reply of it is used and no result of it is told, however the
\* stop and the three lifecycles of a request interleave (request-lifecycle.ts,
\* broker.ts, connection-tests.ts).  A request is answered once.
WorkIsWanted ==
    [][\A r \in Request :
         /\ r \in ended => /\ answer'[r] \in {answer[r], "error"}
                           /\ \A k \in Wire : wire'[r][k] \in {"posted", "ok"} => wire'[r][k] = wire[r][k]
         /\ answer[r] # None => answer'[r] = answer[r]]_vars

\* A job of the helper whose request is over was cancelled there: no lifecycle
\* forgets a job the next one still runs (request-lifecycle.ts:84).
NoOrphanJob ==
    \A r \in Request, k \in Wire :
        wire[r][k] = "posted" /\ ~JobsActive(r) => <<r, k>> \in told

\* When the caches are cleared, no model list of an older revision or credential
\* is left in them, although lists were under way (global.ts:1552).
CatalogIsCurrent ==
    catalog # None /\ ~clearing => catalog = [revision |-> revision, epoch |-> epoch]

\* A window is not left waiting for an attempt: its request is on its way, or the
\* global entry works on it and the outermost lifecycle will answer, although each
\* of the three may drop a request without a word (global.ts:1786).  Only a window
\* whose session the mailbox expired while it lived may wait for ever.
InHand(r) ==
    \/ <<"request", r>> \in up
    \/ /\ outer[r] = "active" /\ at[r] \notin {"new", "over"}
       /\ at[r] = "wires" => ~Idle(wire[r])
WaitingIsInHand ==
    \A r \in waiting : op[r] = "translation" => InHand(r) \/ SenderOf(r) \in lapsed
=============================================================================
