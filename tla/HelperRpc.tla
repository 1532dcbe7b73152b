------------------------------ MODULE HelperRpc ------------------------------
(***************************************************************************)
(* The global entry's side of the transport helper: the supervisor, which  *)
(* starts helpers and gives them up, and the bridge to each of them, which *)
(* lets a bounded number of calls be under way and polls for the answers.  *)
(*                                                                         *)
(* Several callers share one client, the check whether it answers and the  *)
(* launch of the next.  What a helper does with a call is the subject of   *)
(* HelperJobs and CredentialStore; here it answers or does not.            *)
(***************************************************************************)
EXTENDS Naturals, Sequences, FiniteSets

CONSTANTS
    Caller,       \* calls of the supervisor by the rest of the global entry
    Check,        \* the call that asks a helper whether it answers
    MaxLaunches,  \* bound: helpers started
    MaxFaults,    \* bound: helpers that die, deadlines of callers that pass
    Slots,        \* maxConcurrentRequests of a bridge
    None

Launch == 1 .. MaxLaunches
Party == Caller \cup {Check}

\* request: of a provider.  open, exchange: the channel of the credential editor.
Operation == {"request", "read", "mutate", "save", "open", "exchange", "cancel"}
Checked == {"request", "read", "mutate", "save"}
Reply == {"ok", "refused", "unconfirmed", "lost"}
Stage == {"none", "queued", "granted", "pending", "settled", "over"}

VARIABLES
    current,    \* the supervisor's client, known by its launch
    starting,   \* the launch callers wait for
    launched,   \* what became of each launch
    disposed,   \* clients whose bridge was closed
    alive,      \* helpers that run
    check,      \* the check under way
    caller,     \* each caller: operation, where it is, with which client
    withdrawn,  \* requests that are no longer wanted
    rpc,        \* each call at each bridge: its stage, and its reply at the end
    active,     \* slots in use, as each bridge counts them
    waiters,    \* calls that wait for a slot
    polling,    \* the poller of each bridge runs
    faults

supervisor == <<current, starting, launched, disposed, check>>
bridges == <<rpc, active, waiters, polling>>
vars == <<supervisor, bridges, alive, caller, withdrawn, faults>>

Idle == [op |-> None, at |-> "idle", client |-> None, try |-> 1]
Checking == [owner : Caller, attempt : 1 .. 2, at : {"start", "starting", "health"},
             client : Launch \cup {None}]

ASSUME RpcAssumption ==
    /\ MaxLaunches \in Nat \ {0} /\ Slots \in Nat \ {0} /\ MaxFaults \in Nat
    /\ IsFiniteSet(Caller) /\ Check \notin Caller
    /\ None \notin Party \cup Launch \cup Checking

NoCall == [at |-> "none", reply |-> None]

SupervisorType ==
    /\ current \in Launch \cup {None} /\ starting \in Launch \cup {None}
    /\ launched \in [Launch -> {"unused", "starting", "up", "refused", "failed"}]
    /\ disposed \subseteq Launch /\ alive \subseteq Launch
    /\ check \in Checking \cup {None}
CallerType ==
    /\ caller \in [Caller -> [op : Operation \cup {None}, client : Launch \cup {None},
                              at : {"idle", "checking", "checked", "starting", "taking",
                                    "calling", "ended"},
                              try : 1 .. 3]]
    /\ \A c \in Caller : caller[c].at = "checking" => check # None
    /\ withdrawn \subseteq Caller
BridgeType ==
    /\ rpc \in [Launch -> [Party -> [at : Stage, reply : Reply \cup {None}]]]
    /\ active \in [Launch -> 0 .. Cardinality(Party)]
    /\ waiters \in [Launch -> Seq(Party)]
    /\ polling \in [Launch -> BOOLEAN]
TypeOK == SupervisorType /\ CallerType /\ BridgeType /\ faults \in 0 .. MaxFaults

Init ==
    /\ current = None /\ starting = None /\ check = None
    /\ launched = [l \in Launch |-> "unused"]
    /\ disposed = {} /\ alive = {} /\ withdrawn = {}
    /\ caller = [c \in Caller |-> Idle]
    /\ rpc = [l \in Launch |-> [p \in Party |-> NoCall]]
    /\ active = [l \in Launch |-> 0]
    /\ waiters = [l \in Launch |-> <<>>]
    /\ polling = [l \in Launch |-> FALSE]
    /\ faults = 0
-----------------------------------------------------------------------------
(***************************************************************************)
(* The bridge                                                              *)
(***************************************************************************)
At(l, stage) == {p \in Party : rpc[l][p].at = stage}
Held(l) == At(l, "granted") \cup At(l, "pending") \cup At(l, "settled")

Turns(calls, l, P, stage, reply) ==
    [calls EXCEPT ![l] = [p \in Party |-> IF p \in P THEN [at |-> stage, reply |-> reply]
                                                      ELSE @[p]]]

\* post: a slot, or a place in the queue.
Post(l, p) ==
    CASE l \in disposed ->
            /\ rpc' = Turns(rpc, l, {p}, "over", "lost")
            /\ UNCHANGED <<active, waiters, polling>>
      [] l \notin disposed /\ active[l] < Slots ->
            /\ rpc' = Turns(rpc, l, {p}, "granted", None)
            /\ active' = [active EXCEPT ![l] = @ + 1]
            /\ UNCHANGED <<waiters, polling>>
      [] OTHER ->
            /\ rpc' = Turns(rpc, l, {p}, "queued", None)
            /\ waiters' = [waiters EXCEPT ![l] = Append(@, p)]
            /\ polling' = [polling EXCEPT ![l] = TRUE]
            /\ UNCHANGED active

\* With its slot a call writes its request, unless the bridge is closed, its
\* time is over, it is not wanted or the file cannot be written.
Execute(l, p) ==
    /\ rpc[l][p].at = "granted"
    /\ \/ /\ l \notin disposed /\ p \notin withdrawn
          /\ rpc' = Turns(rpc, l, {p}, "pending", None)
          /\ polling' = [polling EXCEPT ![l] = TRUE]
          /\ UNCHANGED faults
       \/ /\ l \notin disposed /\ p \notin withdrawn => faults < MaxFaults
          /\ faults' = IF l \notin disposed /\ p \notin withdrawn THEN faults + 1 ELSE faults
          /\ rpc' = Turns(rpc, l, {p}, "settled", "lost")
          /\ UNCHANGED polling
    /\ UNCHANGED <<supervisor, alive, caller, withdrawn, active, waiters>>

\* The helper's answer is found.
Answered(l, p) ==
    /\ rpc[l][p].at = "pending" /\ polling[l] /\ l \in alive
    /\ \E reply \in IF p = Check \/ caller[p].op = "cancel" THEN {"ok"}
                    ELSE IF caller[p].op \in {"mutate", "save"} /\ faults < MaxFaults
                      THEN {"ok", "refused", "unconfirmed"} ELSE {"ok", "refused"} :
          rpc' = Turns(rpc, l, {p}, "settled", reply)
    /\ UNCHANGED <<supervisor, alive, caller, withdrawn, active, waiters, polling, faults>>

\* No answer within the time of the call.
TimesOut(l, p) ==
    /\ rpc[l][p].at = "pending" /\ polling[l]
    /\ l \in alive => faults < MaxFaults
    /\ faults' = IF l \in alive THEN faults + 1 ELSE faults
    /\ rpc' = Turns(rpc, l, {p}, "settled", "lost")
    /\ UNCHANGED <<supervisor, alive, caller, withdrawn, active, waiters, polling>>

\* The queue without the calls of P.
Without(queue, P) ==
    LET left[n \in 0 .. Len(queue)] ==
            IF n = 0 THEN <<>>
            ELSE IF queue[n] \in P THEN left[n - 1] ELSE Append(left[n - 1], queue[n])
    IN  left[Len(queue)]

\* A call that waited for a slot as long as it may is over; it has none to give back.
WaiterExpires(l, p) ==
    /\ rpc[l][p].at = "queued" /\ polling[l]
    /\ rpc' = Turns(rpc, l, {p}, "over", "lost")
    /\ waiters' = [waiters EXCEPT ![l] = Without(@, {p})]
    /\ UNCHANGED <<supervisor, alive, caller, withdrawn, active, polling, faults>>

PollStops(l) ==
    /\ polling[l] /\ At(l, "pending") = {} /\ waiters[l] = <<>>
    /\ polling' = [polling EXCEPT ![l] = FALSE]
    /\ UNCHANGED <<supervisor, alive, caller, withdrawn, rpc, active, waiters, faults>>

\* The slot of a call that ended goes to the first that waits and has time left.
HandOverAndCountDown(l, p, expired) ==  \* mutant
    LET queue == Without(waiters[l], expired)
        over == Turns(Turns(rpc, l, {p}, "over", rpc[l][p].reply), l, expired, "over", "lost")
    IN  /\ waiters' = [waiters EXCEPT ![l] = IF queue = <<>> THEN queue ELSE Tail(queue)]
        /\ rpc' = IF queue = <<>> THEN over ELSE Turns(over, l, {Head(queue)}, "granted", None)
        /\ active' = [active EXCEPT ![l] = @ - 1]
        /\ polling' = polling
HandOver(l, p, expired) ==
    LET queue == Without(waiters[l], expired)
        over == Turns(Turns(rpc, l, {p}, "over", rpc[l][p].reply), l, expired, "over", "lost")
    IN  IF queue = <<>>
          THEN /\ active' = [active EXCEPT ![l] = @ - 1]
               /\ polling' = [polling EXCEPT ![l] = @ /\ active'[l] > 0]
               /\ waiters' = [waiters EXCEPT ![l] = queue]
               /\ rpc' = over
          ELSE /\ waiters' = [waiters EXCEPT ![l] = Tail(queue)]
               /\ rpc' = Turns(over, l, {Head(queue)}, "granted", None)
               /\ UNCHANGED <<active, polling>>

Release(l, p) ==
    /\ rpc[l][p].at = "settled"
    /\ \E expired \in SUBSET At(l, "queued") : HandOver(l, p, expired)
    /\ UNCHANGED <<supervisor, alive, caller, withdrawn, faults>>

\* close: every call under way and every call that waits is told.
ClosedPendingOnly(calls, l) ==  \* mutant
    [calls EXCEPT ![l] = [p \in Party |->
        IF @[p].at = "pending" THEN [at |-> "settled", reply |-> "lost"] ELSE @[p]]]
Closed(calls, l) ==
    [calls EXCEPT ![l] = [p \in Party |->
        CASE @[p].at = "pending" -> [at |-> "settled", reply |-> "lost"]
          [] @[p].at = "queued" -> [at |-> "over", reply |-> "lost"]
          [] OTHER -> @[p]]]

\* retireExpiredClient, on the calls as they are in "calls".
Retire(calls, l) ==
    IF current = l
      THEN /\ current' = None /\ disposed' = disposed \cup {l}
           /\ rpc' = Closed(calls, l)
           /\ waiters' = [waiters EXCEPT ![l] = <<>>]
           /\ polling' = [polling EXCEPT ![l] = FALSE]
      ELSE rpc' = calls /\ UNCHANGED <<current, disposed, waiters, polling>>
-----------------------------------------------------------------------------
(***************************************************************************)
(* Launches                                                                *)
(***************************************************************************)
NextLaunch == CHOOSE l \in Launch : launched[l] = "unused" /\ \A k \in 1 .. (l - 1) : launched[k] # "unused"
MayLaunch == \E l \in Launch : launched[l] = "unused"

\* currentOrStart without a client: the launch under way, or another.
Awaited == IF starting # None THEN starting ELSE NextLaunch

Start ==
    /\ starting # None \/ MayLaunch
    /\ starting' = Awaited
    /\ launched' = [launched EXCEPT ![starting'] = "starting"]

NoLongerAwaited(l) == starting' = IF starting = l THEN None ELSE starting

\* A client that nobody waits for is given up at once, and so is one that was
\* ready when the time of the caller that asked for it was over.
TakesAnyLaunch(l) == TRUE  \* mutant
TakesLaunch(l) == starting = l

\* The helper has its store, its directory and its worker, and tells its port.
Serves(l) == alive' = alive \cup {l}

LaunchSucceeds(l) ==
    /\ launched[l] = "starting"
    /\ Serves(l)
    /\ \E late \in BOOLEAN :
          /\ late => faults < MaxFaults
          /\ faults' = IF late THEN faults + 1 ELSE faults
          /\ IF TakesLaunch(l) /\ ~late
               THEN /\ current' = l
                    /\ launched' = [launched EXCEPT ![l] = "up"]
                    /\ UNCHANGED disposed
               ELSE /\ launched' = [launched EXCEPT ![l] = "refused"]
                    /\ disposed' = disposed \cup {l}
                    /\ UNCHANGED current
    /\ NoLongerAwaited(l)
    /\ UNCHANGED <<check, caller, withdrawn, bridges>>

LaunchFails(l) ==
    /\ launched[l] = "starting" /\ faults < MaxFaults /\ faults' = faults + 1
    /\ launched' = [launched EXCEPT ![l] = "failed"]
    /\ NoLongerAwaited(l)
    /\ UNCHANGED <<current, disposed, check, alive, caller, withdrawn, bridges>>

Die(l) ==
    /\ l \in alive /\ faults < MaxFaults /\ faults' = faults + 1
    /\ alive' = alive \ {l}
    /\ UNCHANGED <<supervisor, bridges, caller, withdrawn>>
-----------------------------------------------------------------------------
(***************************************************************************)
(* The check: one at a time, whoever asks                                  *)
(***************************************************************************)
Waiting == {c \in Caller : caller[c].at = "checking"}
Moved(who, at, l) ==
    [c \in Caller |-> IF c \in who
        THEN [op |-> caller[c].op, at |-> at, client |-> l, try |-> caller[c].try] ELSE caller[c]]
Ended(who) == Moved(who, "ended", None)
Goes(from, c, at, l) == [from EXCEPT ![c].at = at, ![c].client = l]

\* liveClient: joins the check under way or begins one.
Asks(c, from) ==
    /\ caller' = Goes(from, c, "checking", None)
    /\ check' = IF check # None THEN check
                ELSE [owner |-> c, attempt |-> 1, at |-> "start", client |-> None]

CheckFails == check' = None /\ caller' = Ended(Waiting)

CheckLooks ==
    /\ check # None /\ check.at = "start"
    /\ CASE current # None ->
              /\ check' = [check EXCEPT !.at = "health", !.client = current]
              /\ Post(current, Check)
              /\ UNCHANGED <<starting, launched, caller>>
         [] current = None /\ (starting # None \/ MayLaunch) ->
              /\ Start
              /\ check' = [check EXCEPT !.at = "starting", !.client = starting']
              /\ UNCHANGED <<bridges, caller>>
         [] OTHER -> CheckFails /\ UNCHANGED <<starting, launched, bridges>>
    /\ UNCHANGED <<current, disposed, alive, withdrawn, faults>>

CheckStarted ==
    /\ check # None /\ check.at = "starting"
    /\ launched[check.client] # "starting"
    /\ IF launched[check.client] = "up"
         THEN /\ check' = [check EXCEPT !.at = "health"]
              /\ Post(check.client, Check)
              /\ UNCHANGED caller
         ELSE CheckFails /\ UNCHANGED bridges
    /\ UNCHANGED <<current, starting, launched, disposed, alive, withdrawn, faults>>

\* The answer is there.  The first failure is tried again with another helper.
\* Its owner may be too late for a check that succeeded: it gives up a client
\* the others go on with.
CheckHears ==
    /\ check # None /\ check.at = "health"
    /\ LET l == check.client
           read == Turns(rpc, l, {Check}, "none", None)
       IN  /\ rpc[l][Check].at = "over"
           /\ \/ /\ rpc[l][Check].reply = "ok"
                 /\ rpc' = read /\ check' = None
                 /\ caller' = Moved(Waiting, "checked", l)
                 /\ UNCHANGED <<current, disposed, waiters, polling, faults>>
              \/ /\ rpc[l][Check].reply = "ok" /\ caller[check.owner].at = "checking"
                 /\ faults < MaxFaults /\ faults' = faults + 1
                 /\ Retire(read, l) /\ check' = None
                 /\ caller' = Goes(Moved(Waiting, "checked", l), check.owner, "ended", None)
              \/ /\ rpc[l][Check].reply = "lost"
                 /\ Retire(read, l) /\ faults' = faults
                 /\ IF check.attempt = 1
                      THEN /\ check' = [check EXCEPT !.attempt = 2, !.at = "start", !.client = None]
                           /\ UNCHANGED caller
                      ELSE CheckFails
    /\ UNCHANGED <<starting, launched, alive, withdrawn, active>>

\* The time of a caller is over.  If the check is its own it ends for all who
\* wait for it, and with it the client it was asking.
DeadlineOfCheck(c) ==
    /\ caller[c].at = "checking" /\ faults < MaxFaults /\ faults' = faults + 1
    /\ IF check.owner # c
         THEN /\ caller' = Ended({c})
              /\ UNCHANGED <<supervisor, rpc, waiters, polling>>
         ELSE /\ CheckFails
              /\ IF check.at = "health" THEN Retire(rpc, check.client)
                   ELSE UNCHANGED <<current, disposed, rpc, waiters, polling>>
              /\ IF check.at = "starting" THEN NoLongerAwaited(check.client)
                   ELSE UNCHANGED starting
              /\ UNCHANGED launched
    /\ UNCHANGED <<alive, withdrawn, active>>
-----------------------------------------------------------------------------
(***************************************************************************)
(* Callers                                                                 *)
(***************************************************************************)
Begin(c, op) ==
    /\ caller[c].at = "idle" /\ op \in Checked
    /\ Asks(c, [caller EXCEPT ![c].op = op])
    /\ UNCHANGED <<current, starting, launched, disposed, alive, withdrawn, bridges, faults>>

\* channelOperation takes the client there is, or the next.
Takes(c, from) ==
    CASE current # None ->
            /\ caller' = Goes(from, c, "checked", current)
            /\ UNCHANGED <<starting, launched>>
      [] current = None /\ (starting # None \/ MayLaunch) ->
            /\ Start
            /\ caller' = Goes(from, c, "starting", starting')
      [] OTHER ->
            /\ caller' = Goes(from, c, "ended", None)
            /\ UNCHANGED <<starting, launched>>

BeginOnChannel(c, op) ==
    /\ caller[c].at = "idle" /\ op \in {"open", "exchange"}
    /\ Takes(c, [caller EXCEPT ![c].op = op])
    /\ UNCHANGED <<current, disposed, check, alive, withdrawn, bridges, faults>>

\* The request is not wanted from here on; the helper is told if there is one,
\* or one on its way.
BeginCancel(c, r) ==
    /\ caller[c].at = "idle"
    /\ caller[r].op = "request" /\ caller[r].at \notin {"idle", "ended"} /\ r \notin withdrawn
    /\ withdrawn' = withdrawn \cup {r}
    /\ caller' = Goes([caller EXCEPT ![c].op = "cancel"], c,
                      IF current # None THEN "checked" ELSE IF starting # None THEN "starting" ELSE "ended",
                      IF current # None THEN current ELSE starting)
    /\ UNCHANGED <<supervisor, alive, bridges, faults>>

Started(c) ==
    /\ caller[c].at = "starting" /\ launched[caller[c].client] # "starting"
    /\ caller' = IF launched[caller[c].client] = "up"
                   THEN [caller EXCEPT ![c].at = "checked"] ELSE Ended({c})
    /\ UNCHANGED <<supervisor, alive, withdrawn, bridges, faults>>

\* The first whose time is over stops the launch for all who wait for it.
DeadlineOfStart(c) ==
    /\ caller[c].at = "starting" /\ caller[c].op # "cancel"
    /\ faults < MaxFaults /\ faults' = faults + 1
    /\ NoLongerAwaited(caller[c].client)
    /\ caller' = Ended({c})
    /\ UNCHANGED <<current, launched, disposed, check, alive, withdrawn, bridges>>

Calls(c) ==
    /\ caller[c].at = "checked"
    /\ IF c \in withdrawn
         THEN caller' = Ended({c}) /\ UNCHANGED bridges
         ELSE /\ caller' = [caller EXCEPT ![c].at = "calling"]
              /\ Post(caller[c].client, c)
    /\ UNCHANGED <<supervisor, alive, withdrawn, faults>>

\* A loss is put down to the helper, except by a request nobody wants, the last
\* read of all and the read after a save.
GivesUpClient(c) ==
    ~ \/ c \in withdrawn
      \/ caller[c].op = "read" /\ caller[c].try = 2
      \/ caller[c].op \in {"mutate", "save"} /\ caller[c].try = 2
      \/ caller[c].op = "save" /\ caller[c].try = 3

\* What follows a reply: another check, another launch, another call on the
\* same client, or the end.
Follows(c, reply) ==
    LET op == caller[c].op
        try == caller[c].try
    IN  CASE reply = "lost" /\ try = 1 /\ op \in {"read", "mutate", "save"} -> "check"
          [] reply = "lost" /\ try = 1 /\ op = "open" -> "take"
          [] reply = "unconfirmed" /\ try = 1 -> "call"
          [] op \in {"mutate", "save"} /\ try = 2 /\ reply # "ok" -> "call"
          [] OTHER -> "end"

Receives(c) ==
    /\ caller[c].at = "calling"
    /\ LET l == caller[c].client
           reply == rpc[l][c].reply
           read == Turns(rpc, l, {c}, "none", None)
           again == [caller EXCEPT ![c].try = @ + 1, ![c].at = "checked"]
       IN  /\ rpc[l][c].at = "over"
           /\ IF reply = "lost" /\ GivesUpClient(c) THEN Retire(read, l)
                ELSE rpc' = read /\ UNCHANGED <<current, disposed, waiters, polling>>
           /\ CASE Follows(c, reply) = "check" -> Asks(c, again)
                [] Follows(c, reply) = "take" ->
                     /\ caller' = Goes(again, c, "taking", None)
                     /\ UNCHANGED check
                [] Follows(c, reply) = "call" -> caller' = again /\ UNCHANGED check
                [] OTHER -> caller' = Ended({c}) /\ UNCHANGED check
    /\ UNCHANGED <<starting, launched, alive, withdrawn, active, faults>>

TakesAgain(c) ==
    /\ caller[c].at = "taking"
    /\ Takes(c, caller)
    /\ UNCHANGED <<current, disposed, check, alive, withdrawn, bridges, faults>>

CallerStep(c) ==
    \/ \E op \in Operation : Begin(c, op) \/ BeginOnChannel(c, op)
    \/ \E r \in Caller : BeginCancel(c, r)
    \/ Started(c) \/ Calls(c) \/ Receives(c) \/ TakesAgain(c)
    \/ DeadlineOfCheck(c) \/ DeadlineOfStart(c)

BridgeStep(l, p) ==
    Execute(l, p) \/ Answered(l, p) \/ TimesOut(l, p) \/ WaiterExpires(l, p) \/ Release(l, p)

CheckStep == CheckLooks \/ CheckStarted \/ CheckHears

Next ==
    \/ \E c \in Caller : CallerStep(c)
    \/ CheckStep
    \/ \E l \in Launch :
        \/ \E p \in Party : BridgeStep(l, p)
        \/ PollStops(l) \/ LaunchSucceeds(l) \/ LaunchFails(l) \/ Die(l)

\* Continuations run; a launch ends, the ready file is awaited 250 times; what
\* is polled is answered or times out.
Fairness ==
    /\ \A c \in Caller : WF_vars(Started(c) \/ Calls(c) \/ Receives(c) \/ TakesAgain(c))
    /\ WF_vars(CheckStep)
    /\ \A l \in Launch :
        /\ WF_vars(LaunchSucceeds(l) \/ LaunchFails(l))
        /\ \A p \in Party : WF_vars(BridgeStep(l, p))

Spec == Init /\ [][Next]_vars /\ Fairness
-----------------------------------------------------------------------------
(***************************************************************************)
(* Properties                                                              *)
(***************************************************************************)
\* Every slot a bridge counts is held by a call, whatever expired, was handed
\* over or was closed at the same time, and nobody waits while one is free.
SlotsAccounted ==
    \A l \in Launch :
        /\ active[l] = Cardinality(Held(l)) /\ active[l] <= Slots
        /\ waiters[l] # <<>> => active[l] = Slots

\* A helper that was started has a bridge the supervisor knows of, or one that
\* was closed: no client is lost with its calls and its poller.
NoClientIsLost == \A l \in Launch : launched[l] = "up" => l = current \/ l \in disposed

\* Whoever calls the supervisor hears from it.
OperationsEnd ==
    \A c \in Caller : caller[c].at # "idle" ~> caller[c].at = "ended"
=============================================================================
