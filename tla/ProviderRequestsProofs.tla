----------------------- MODULE ProviderRequestsProofs -----------------------
(***************************************************************************)
(* For any windows, requests, kinds of provider and bounds: a request that *)
(* was stopped does nothing more, no lifecycle forgets a job another still *)
(* runs, no stale list stays cached, and no window waits for an attempt    *)
(* that nobody works on.                                                   *)
(*                                                                         *)
(* The argument follows a request along the path it takes once: a message, *)
(* then the outermost lifecycle, then the broker, then its wires (Begun).  *)
(* A stopped request has left one of the lifecycles that every later step  *)
(* looks at, or is remembered before it comes (StoppedIsOver).  A window   *)
(* that waits is open, waits in its present session, and that session is   *)
(* the newest the entry has accepted of it (WindowsSound).                 *)
(***************************************************************************)
EXTENDS ProviderRequests, FiniteSetTheorems, TLAPS

RequestOf(r) == <<"request", r>>
CancelOf(r) == <<"cancel", r>>

\* What is known of a request by the step it has reached.
BegunAt(r) ==
    /\ frozen[r] = None => /\ at[r] = "new" /\ r \notin waiting /\ r \notin seen
                           /\ RequestOf(r) \notin up /\ CancelOf(r) \notin up
    /\ at[r] = "new" => outer[r] = "new"
    /\ at[r] \notin {"new", "over"} => outer[r] # "new"
    /\ at[r] \in {"new", "ready"} => broker[r] = "new"
    /\ RequestOf(r) \in up => at[r] = "new" /\ op[r] # "prefetch"
    /\ CancelOf(r) \in up => op[r] # "prefetch"
    /\ r \in waiting => op[r] # "prefetch"
    /\ broker[r] # "new" => op[r] = "translation"
    /\ at[r] # "wires" => Idle(wire[r])
    /\ answer[r] # None => outer[r] = "ended"
Begun == \A r \in Request : BegunAt(r)

\* A request that was stopped has left a lifecycle it needs, or will be refused.
Over(r) ==
    \/ outer[r] = "ended"
    \/ broker[r] = "ended"
    \/ outer[r] = "new" /\ op[r] # "prefetch" /\ IsRefused(r)
StoppedIsOver == \A r \in ended : Over(r)

\* What is known of a window and of what it waits for.
WindowSound(s) ==
    /\ IsOpen(s) /\ accepted[s] # None => accepted[s] <= session[s]
    /\ <<"close", s>> \in up \/ s \in closed => ~IsOpen(s)
WaitSound(r) ==
    /\ frozen[r] # None /\ IsOpen(SenderOf(r)) => frozen[r].session <= session[SenderOf(r)]
    /\ r \in waiting =>
         /\ IsOpen(SenderOf(r)) /\ CancelOf(r) \notin up
         /\ op[r] = "translation" => frozen[r].session = session[SenderOf(r)]
         /\ RequestOf(r) \in up => r \notin seen
         /\ op[r] = "translation" /\ outer[r] = "active" /\ SenderOf(r) \notin lapsed =>
              accepted[SenderOf(r)] = session[SenderOf(r)]
WindowsSound ==
    /\ \A s \in Sender : WindowSound(s)
    /\ \A r \in Request : WaitSound(r)

\* The invariant, without the types.
Kept == /\ Begun /\ StoppedIsOver /\ WindowsSound
        /\ NoOrphanJob /\ CatalogIsCurrent /\ WaitingIsInHand
RequestInv == TypeOK /\ Kept
-----------------------------------------------------------------------------
(* What the model's operators do. *)

LEMMA SenderOfType ==
    ASSUME SettingType, NEW r \in Request
    PROVE  SenderOf(r) \in Sender
  BY RequestAssumption DEF SenderOf, SettingType

\* Invalidating requests ends them in the lifecycles they are active in.
LEMMA InvalidateOne ==
    ASSUME NEW phases, NEW O \in SUBSET Request, NEW B \in SUBSET Request,
           InvalidateFrom(phases, O, B), NEW q \in Request
    PROVE  /\ outer'[q] = IF q \in O /\ outer[q] = "active" /\ phases[q] = "active"
                          THEN "ended" ELSE phases[q]
           /\ broker'[q] = IF /\ broker[q] = "active"
                              /\ \/ q \in B
                                 \/ q \in O /\ outer[q] = "active" /\ op[q] = "translation"
                           THEN "ended" ELSE broker[q]
  <1> DEFINE o == {r \in O : outer[r] = "active"}
             b == {r \in B \cup {p \in o : op[p] = "translation"} : broker[r] = "active"}
  <1>1. outer' = Stopped(phases, o) /\ broker' = Stopped(broker, b)
    BY DEF InvalidateFrom
  <1>2. /\ outer'[q] = IF q \in o /\ phases[q] = "active" THEN "ended" ELSE phases[q]
        /\ broker'[q] = IF q \in b /\ broker[q] = "active" THEN "ended" ELSE broker[q]
    BY <1>1 DEF Stopped
  <1> QED
    BY <1>2

\* Invalidating requests ends them in the lifecycles they are active in, each
\* handing it on to what it tracks, and cancels the jobs of what has ended.
LEMMA InvalidateEffect ==
    ASSUME LifecycleType, RunningType, NEW phases \in [Request -> Phase], NEW O \in SUBSET Request,
           NEW B \in SUBSET Request,
           InvalidateFrom(phases, O, B)
    PROVE  /\ outer' \in [Request -> Phase] /\ broker' \in [Request -> Phase]
           /\ adapter' \in [Request -> Phase] /\ told' \subseteq Request \X Wire
           /\ told \subseteq told'
           /\ \A r \in Request :
                /\ outer'[r] = IF r \in O /\ outer[r] = "active" /\ phases[r] = "active"
                               THEN "ended" ELSE phases[r]
                /\ broker'[r] = IF /\ broker[r] = "active"
                                   /\ \/ r \in B
                                      \/ r \in O /\ outer[r] = "active" /\ op[r] = "translation"
                                THEN "ended" ELSE broker[r]
                /\ \A k \in Wire :
                     /\ wire[r][k] \in InFlight
                     /\ \/ adapter[r] = "active" /\ adapter'[r] # "active"
                        \/ /\ op[r] \in {"models", "prefetch"}
                           /\ outer[r] = "active" /\ phases[r] = "active" /\ outer'[r] # "active"
                     => <<r, k>> \in told'
  <1> DEFINE o == {r \in O : outer[r] = "active"}
             b == {r \in B \cup {q \in o : op[q] = "translation"} : broker[r] = "active"}
             a == {r \in b \cup {q \in o : op[q] = "test"} : adapter[r] = "active"}
             jobs == a \cup {r \in o : op[r] \in {"models", "prefetch"}}
  <1>1. /\ outer' = Stopped(phases, o) /\ broker' = Stopped(broker, b) /\ adapter' = Stopped(adapter, a)
        /\ told' = told \cup {j \in jobs \X Wire : wire[j[1]][j[2]] \in InFlight}
    BY DEF InvalidateFrom
  <1>2. \A r \in Request :
          /\ outer'[r] = IF r \in o /\ phases[r] = "active" THEN "ended" ELSE phases[r]
          /\ broker'[r] = IF r \in b /\ broker[r] = "active" THEN "ended" ELSE broker[r]
          /\ adapter'[r] = IF r \in a /\ adapter[r] = "active" THEN "ended" ELSE adapter[r]
    BY <1>1 DEF Stopped
  <1>3. /\ outer' \in [Request -> Phase] /\ broker' \in [Request -> Phase]
        /\ adapter' \in [Request -> Phase]
    BY <1>1 DEF Stopped, LifecycleType, Phase
  <1>4. \A r \in Request, k \in Wire :
          r \in jobs /\ wire[r][k] \in InFlight => <<r, k>> \in told'
    BY <1>1
  <1>5. told \subseteq told' /\ told' \subseteq Request \X Wire
    BY <1>1 DEF LifecycleType
  <1>6. ASSUME NEW r \in Request, NEW k \in Wire, wire[r][k] \in InFlight,
               \/ adapter[r] = "active" /\ adapter'[r] # "active"
               \/ /\ op[r] \in {"models", "prefetch"}
                  /\ outer[r] = "active" /\ phases[r] = "active" /\ outer'[r] # "active"
        PROVE  <<r, k>> \in told'
    <2>1. r \in jobs
      BY <1>2, <1>6
    <2> QED
      BY <1>4, <1>6, <2>1
  <1>7. ASSUME NEW r \in Request
        PROVE  /\ outer'[r] = IF r \in O /\ outer[r] = "active" /\ phases[r] = "active"
                               THEN "ended" ELSE phases[r]
               /\ broker'[r] = IF /\ broker[r] = "active"
                                  /\ \/ r \in B
                                     \/ r \in O /\ outer[r] = "active" /\ op[r] = "translation"
                               THEN "ended" ELSE broker[r]
    BY <1>2
  <1> QED
    BY <1>3, <1>5, <1>6, <1>7
\* What is launched was not started before.
LEMMA LaunchEffect ==
    ASSUME NEW r \in Request, NEW w \in [Wire -> WireState]
    PROVE  /\ Launch(r, w) \in [Wire -> WireState]
           /\ \A k \in Wire : Launch(r, w)[k] = w[k] \/ (w[k] = "none" /\ Launch(r, w)[k] = "held")
  <1>1. CASE w[0] \in InFlight \/ \E k \in Wire : w[k] = "failed"
    <2>1. Launch(r, w) = w
      BY <1>1 DEF Launch
    <2> QED
      BY <2>1
  <1>2. CASE w[0] = "none" /\ ~\E k \in Wire : w[k] = "failed"
    <2>1. Launch(r, w) = [w EXCEPT ![0] = "held"]
      BY <1>2 DEF Launch, InFlight
    <2> QED
      BY <1>2, <2>1 DEF WireState
  <1>3. CASE w[0] # "none" /\ w[0] \notin InFlight /\ ~\E k \in Wire : w[k] = "failed"
    <2> DEFINE rest == {k \in WiresOf(r) : w[k] = "none"}
               room == Concurrency(r) - Cardinality({k \in Wire : w[k] \in InFlight})
               next(k) == k \in rest /\ Cardinality({j \in rest : j < k}) < room
    <2>1. Launch(r, w) = [k \in Wire |-> IF next(k) THEN "held" ELSE w[k]]
      BY <1>3 DEF Launch
    <2>2. \A k \in Wire : next(k) => w[k] = "none"
      OBVIOUS
    <2> HIDE DEF next
    <2> QED
      BY <2>1, <2>2 DEF WireState
  <1> QED
    BY <1>1, <1>2, <1>3

\* The first wires of a request are on their way, and those of a translation are
\* not none.
LEMMA FirstWiresEffect ==
    ASSUME SettingType, NEW r \in Request
    PROVE  /\ FirstWires(r) \in [Wire -> WireState]
           /\ \A k \in Wire : FirstWires(r)[k] \in {"none", "held", "ok"}
           /\ op[r] = "translation" => ~Idle(FirstWires(r))
  <1> DEFINE w == [k \in Wire |-> IF k = 0 /\ ~MustProbe(r) THEN "ok" ELSE "none"]
  <1>1. w \in [Wire -> WireState] /\ FirstWires(r) = Launch(r, w)
    BY DEF WireState, FirstWires
  <1>2. \A k \in Wire : w[k] \in {"none", "ok"}
    OBVIOUS
  <1>3. 0 \in Wire /\ 1 \in Wire /\ 1 \in 1 .. Parts
    BY RequestAssumption DEF Wire
  <1>4. ASSUME op[r] = "translation" PROVE ~Idle(FirstWires(r))
    <2>1. CASE w[0] = "none"
      <3>1. Launch(r, w) = [w EXCEPT ![0] = "held"]
        BY <1>2, <2>1 DEF Launch, InFlight
      <3> QED
        BY <1>1, <1>3, <3>1 DEF Idle, InFlight
    <2>2. CASE w[0] = "ok"
      <3> DEFINE rest == {k \in WiresOf(r) : w[k] = "none"}
                 room == Concurrency(r) - Cardinality({k \in Wire : w[k] \in InFlight})
                 started == [k \in Wire |-> IF k \in rest /\ Cardinality({j \in rest : j < k}) < room
                                            THEN "held" ELSE w[k]]
      <3>1. Launch(r, w) = started
        BY <1>2, <2>2 DEF Launch, InFlight
      <3>2. {k \in Wire : w[k] \in InFlight} = {}
        BY <1>2 DEF InFlight
      <3>3. room > 0
        <4>1. Cardinality({k \in Wire : w[k] \in InFlight}) = 0
          BY <3>2, FS_EmptySet
        <4> QED
          BY <4>1 DEF Concurrency
      <3>4. WiresOf(r) = 1 .. Parts
        BY <1>4 DEF WiresOf, Steps
      <3>5. 1 \in rest
        BY <1>3, <3>4
      <3>6. {j \in rest : j < 1} = {}
        BY <3>4
      <3>7. Cardinality({j \in rest : j < 1}) = 0
        BY <3>6, FS_EmptySet
      <3>8. started[1] = "held"
        BY <1>3, <3>3, <3>5, <3>7
      <3> HIDE DEF started
      <3> QED
        BY <1>1, <1>3, <3>1, <3>8 DEF Idle, InFlight
    <2> QED
      BY <1>2, <1>3, <2>1, <2>2
  <1> HIDE DEF w
  <1> QED
    BY <1>1, <1>2, <1>4, LaunchEffect

\* The end of a request changes nothing of another.
LEMMA FinishEffect ==
    ASSUME LifecycleType, RunningType, waiting \subseteq Request, NEW r \in Request,
           NEW reply \in {None, "result", "error"}, Finish(r, reply)
    PROVE  /\ outer' \in [Request -> Phase] /\ broker' \in [Request -> Phase]
           /\ adapter' \in [Request -> Phase] /\ told' \subseteq Request \X Wire
           /\ RunningType' /\ waiting' \subseteq waiting
           /\ \A q \in Request :
                /\ outer'[q] = IF q = r /\ outer[q] = "active" THEN "ended" ELSE outer[q]
                /\ broker'[q] = IF q = r /\ broker[q] = "active" THEN "ended" ELSE broker[q]
                /\ at'[q] = IF q = r THEN "over" ELSE at[q]
                /\ answer'[q] = IF q = r /\ outer[r] = "active" /\ reply # None THEN reply ELSE answer[q]
                /\ q # r => /\ adapter'[q] = adapter[q] /\ wire'[q] = wire[q]
                            /\ q \in waiting => q \in waiting'
                            /\ \A k \in Wire : <<q, k>> \in told => <<q, k>> \in told'
                /\ q = r => /\ \A k \in Wire : wire'[q][k] = "none"
                            /\ outer[r] = "active" /\ reply # None => q \notin waiting'
  <1>1. /\ outer' = Stopped(outer, {r}) /\ broker' = Stopped(broker, {r})
        /\ adapter' = Stopped(adapter, {r}) /\ at' = [at EXCEPT ![r] = "over"]
        /\ wire' = [wire EXCEPT ![r] = [k \in Wire |-> "none"]] /\ again' = [again EXCEPT ![r] = 0]
        /\ told' = told \ ({r} \X Wire)
        /\ answer' = IF outer[r] = "active" /\ reply # None THEN [answer EXCEPT ![r] = reply] ELSE answer
        /\ waiting' = IF outer[r] = "active" /\ reply # None THEN waiting \ {r} ELSE waiting
    BY DEF Finish
  <1>2. \A q \in Request :
          /\ outer'[q] = IF q = r /\ outer[q] = "active" THEN "ended" ELSE outer[q]
          /\ broker'[q] = IF q = r /\ broker[q] = "active" THEN "ended" ELSE broker[q]
          /\ adapter'[q] = IF q = r /\ adapter[q] = "active" THEN "ended" ELSE adapter[q]
    BY <1>1 DEF Stopped
  <1>3. outer' \in [Request -> Phase] /\ broker' \in [Request -> Phase] /\ adapter' \in [Request -> Phase]
    BY <1>1 DEF Stopped, LifecycleType, Phase
  <1>4. /\ told' \subseteq Request \X Wire
        /\ \A q \in Request, k \in Wire : q # r /\ <<q, k>> \in told => <<q, k>> \in told'
    BY <1>1 DEF LifecycleType
  <1>5. at' \in [Request -> Stage] /\ \A q \in Request : at'[q] = IF q = r THEN "over" ELSE at[q]
    BY <1>1 DEF RunningType, Stage
  <1>6. [k \in Wire |-> "none"] \in [Wire -> WireState]
    BY DEF WireState
  <1>7. /\ wire' \in [Request -> [Wire -> WireState]]
        /\ \A q \in Request : IF q = r THEN \A k \in Wire : wire'[q][k] = "none" ELSE wire'[q] = wire[q]
    BY <1>1, <1>6 DEF RunningType
  <1>8. again' \in [Request -> 0 .. 2]
    BY <1>1 DEF RunningType
  <1>9. /\ answer' \in [Request -> {None, "result", "error"}]
        /\ \A q \in Request :
             answer'[q] = IF q = r /\ outer[r] = "active" /\ reply # None THEN reply ELSE answer[q]
    BY <1>1 DEF RunningType
  <1>10. /\ waiting' \subseteq waiting
         /\ \A q \in Request : q # r /\ q \in waiting => q \in waiting'
         /\ outer[r] = "active" /\ reply # None => r \notin waiting'
    BY <1>1
  <1>11. \A q \in Request : q # r => adapter'[q] = adapter[q]
    BY <1>2
  <1> QED
    BY <1>2, <1>3, <1>4, <1>5, <1>7, <1>8, <1>9, <1>10, <1>11 DEF RunningType
-----------------------------------------------------------------------------
(* What the steps of one request do to it: it ends, or a wire goes on. *)

Concludes(r) ==
    \E reply \in {None, "result", "error"} :
        /\ Finish(r, reply)
        /\ reply = "result" => Allowed(r)
        /\ reply = None => op[r] \in {"models", "prefetch"}
        /\ catalog' \in {catalog, [revision |-> revision, epoch |-> epoch]}

GoesOn(r) ==
    /\ UNCHANGED <<waiting, outer, broker, adapter, told, at, answer, catalog>>
    /\ RunningType' /\ ~Idle(wire'[r])
    /\ \A q \in Request : q # r => wire'[q] = wire[q]
    /\ \A k \in Wire : wire'[r][k] \in {"posted", "ok"} => wire'[r][k] = wire[r][k] \/ Allowed(r)

LEMMA RejectConcludes ==
    ASSUME SettingType, NEW r \in Request, Reject(r), catalog' = catalog
    PROVE  Concludes(r)
  <1>1. CASE op[r] \in {"models", "prefetch"}
    <2>1. Finish(r, None)
      BY <1>1 DEF Reject
    <2> QED
      BY <1>1, <2>1, RequestAssumption DEF Concludes
  <1>2. CASE op[r] \notin {"models", "prefetch"}
    <2>1. Finish(r, "error")
      BY <1>2 DEF Reject
    <2> QED
      BY <2>1, RequestAssumption DEF Concludes
  <1> QED
    BY <1>1, <1>2

LEMMA SettleCases ==
    ASSUME SettingType, AuthorityType, RunningType,
           NEW r \in Request, NEW w \in [Wire -> WireState], NEW learns \in BOOLEAN,
           Settle(r, w, learns),
           \A k \in Wire : w[k] \in {"posted", "ok"} => w[k] = wire[r][k] \/ Allowed(r)
    PROVE  /\ known' \subseteq Sender
           /\ GoesOn(r) \/ Concludes(r)
  <1>1. known' \subseteq Sender
    BY SenderOfType DEF Settle, AuthorityType
  <1> DEFINE next == Launch(r, w)
  <1>2. CASE ~Idle(next)
    <2>1. /\ wire' = [wire EXCEPT ![r] = next]
          /\ UNCHANGED <<waiting, outer, broker, adapter, told, at, again, answer, catalog>>
      BY <1>2 DEF Settle
    <2>2. /\ next \in [Wire -> WireState]
          /\ \A k \in Wire : next[k] = w[k] \/ (w[k] = "none" /\ next[k] = "held")
      BY LaunchEffect
    <2> HIDE DEF next
    <2>3. wire' \in [Request -> [Wire -> WireState]] /\ wire'[r] = next
      BY <2>1, <2>2 DEF RunningType
    <2>4. \A q \in Request : q # r => wire'[q] = wire[q]
      BY <2>1 DEF RunningType
    <2>5. \A k \in Wire : wire'[r][k] \in {"posted", "ok"} => wire'[r][k] = wire[r][k] \/ Allowed(r)
      BY <2>2, <2>3
    <2>6. RunningType'
      BY <2>1, <2>3 DEF RunningType
    <2> QED
      BY <1>1, <1>2, <2>1, <2>3, <2>4, <2>5, <2>6 DEF GoesOn
  <1>3. CASE Idle(next)
    <2> DEFINE good == Succeeded(r, next) /\ Allowed(r)
    <2>1. /\ IF good THEN Finish(r, "result") ELSE IF Allowed(r) THEN Finish(r, "error") ELSE Reject(r)
          /\ catalog' = IF good /\ op[r] \in {"models", "prefetch"}
                        THEN [revision |-> revision, epoch |-> epoch] ELSE catalog
      BY <1>3 DEF Settle
    <2>2. CASE good
      BY <1>1, <2>1, <2>2, RequestAssumption DEF Concludes
    <2>3. CASE ~good /\ Allowed(r)
      BY <1>1, <2>1, <2>3, RequestAssumption DEF Concludes
    <2>4. CASE ~Allowed(r)
      <3>1. Reject(r) /\ catalog' = catalog
        BY <2>1, <2>4
      <3> QED
        BY <1>1, <3>1, RejectConcludes
    <2> QED
      BY <2>2, <2>3, <2>4
  <1> QED
    BY <1>2, <1>3

\* What every wire's step leaves alone.
WireFrame == UNCHANGED <<setting, session, frozen, up, ready, authority, accepted, seen, closed, history>>

LEMMA WireStep ==
    ASSUME TypeOK, NEW r \in Request, NEW k \in Wire, Post(r, k) \/ NoHelper(r, k) \/ Reply(r, k)
    PROVE  /\ WireFrame /\ known' \subseteq Sender
           /\ GoesOn(r) \/ Concludes(r)
  <1> USE DEF TypeOK
  <1>0. wire[r] \in [Wire -> WireState]
    BY DEF RunningType
  <1>1. WireFrame
    BY DEF WireFrame, Post, NoHelper, Reply
  <1>2. ASSUME NEW state \in WireState, NEW learns \in BOOLEAN,
               Settle(r, [wire[r] EXCEPT ![k] = state], learns),
               state \in {"posted", "ok"} => Allowed(r)
        PROVE  known' \subseteq Sender /\ (GoesOn(r) \/ Concludes(r))
    <2> DEFINE w == [wire[r] EXCEPT ![k] = state]
    <2>1. w \in [Wire -> WireState]
      BY <1>0
    <2>2. \A j \in Wire : w[j] \in {"posted", "ok"} => w[j] = wire[r][j] \/ Allowed(r)
      BY <1>0, <1>2
    <2>3. Settle(r, w, learns)
      BY <1>2
    <2> HIDE DEF w
    <2> QED
      BY <2>1, <2>2, <2>3, SettleCases
  <1>3. ASSUME NEW state \in {"held", "posted"}, wire' = SetWire(r, k, state),
               state = "posted" => Allowed(r), again' \in [Request -> 0 .. 2],
               UNCHANGED <<waiting, outer, broker, adapter, told, at, answer, known, catalog>>
        PROVE  known' \subseteq Sender /\ GoesOn(r)
    <2>1. wire' = [wire EXCEPT ![r] = [wire[r] EXCEPT ![k] = state]]
      BY <1>3 DEF SetWire
    <2>2. [wire[r] EXCEPT ![k] = state] \in [Wire -> WireState]
      BY <1>0 DEF WireState
    <2>3. /\ wire' \in [Request -> [Wire -> WireState]] /\ wire'[r] = [wire[r] EXCEPT ![k] = state]
          /\ \A q \in Request : q # r => wire'[q] = wire[q]
      BY <2>1, <2>2 DEF RunningType
    <2>4. wire'[r][k] = state /\ \A j \in Wire : j # k => wire'[r][j] = wire[r][j]
      BY <1>0, <2>3
    <2>5. ~Idle(wire'[r])
      BY <2>4 DEF Idle, InFlight
    <2>6. RunningType'
      BY <1>3, <2>3 DEF RunningType
    <2>7. \A j \in Wire : wire'[r][j] \in {"posted", "ok"} => wire'[r][j] = wire[r][j] \/ Allowed(r)
      BY <1>3, <2>4
    <2> QED
      BY <1>3, <2>3, <2>5, <2>6, <2>7 DEF GoesOn, AuthorityType
  <1>4. CASE Post(r, k)
    <2>1. CASE Allowed(r)
      <3>1. /\ wire' = SetWire(r, k, "posted")
            /\ UNCHANGED <<waiting, outer, broker, adapter, told, at, again, answer, known, catalog>>
        BY <1>4, <2>1 DEF Post
      <3> QED
        BY <1>1, <1>3, <2>1, <3>1 DEF RunningType
    <2>2. CASE ~Allowed(r)
      <3>1. Settle(r, [wire[r] EXCEPT ![k] = "failed"], FALSE)
        BY <1>4, <2>2 DEF Post
      <3> QED
        BY <1>1, <1>2, <3>1 DEF WireState
    <2> QED
      BY <2>1, <2>2
  <1>5. CASE NoHelper(r, k)
    <2>1. Settle(r, [wire[r] EXCEPT ![k] = "failed"], FALSE)
      BY <1>5 DEF NoHelper
    <2> QED
      BY <1>1, <1>2, <2>1 DEF WireState
  <1>6. CASE Reply(r, k)
    <2>1. PICK reply \in Replies(r, k) :
            LET meaning == Meaning(r, reply)
            IN  IF meaning = "again" /\ MayRepeat(r)
                THEN /\ wire' = SetWire(r, k, "held")
                     /\ again' = [again EXCEPT ![r] = @ + 1]
                     /\ UNCHANGED <<waiting, outer, broker, adapter, told, at, answer, known, catalog>>
                ELSE Settle(r, [wire[r] EXCEPT ![k] = IF meaning = "again" THEN "failed" ELSE meaning],
                            meaning = "ok" /\ k = 0)
      BY <1>6 DEF Reply
    <2>2. reply \in {"ok", "failed", "again", "skip"}
      <3>1. kind \in ProviderKind /\ op[r] \in Op
        BY DEF SettingType
      <3>2. Replies(r, k) \in {{"ok", "failed"}, OpenAIReplies(r, k), ClaudeReplies, DeepSeekReplies,
                             OllamaReplies(r, k)}
        BY <3>1 DEF Replies, ProviderKind
      <3> QED
        BY <3>2 DEF OpenAIReplies, ClaudeReplies, DeepSeekReplies, OllamaReplies
    <2>3. Meaning(r, reply) \in {"ok", "failed", "again", "skipped"}
      BY <2>2 DEF Meaning
    <2>4. Meaning(r, reply) = "ok" => Allowed(r)
      BY DEF Meaning
    <2>5. CASE Meaning(r, reply) = "again" /\ MayRepeat(r)
      <3>1. again' = [again EXCEPT ![r] = @ + 1] /\ again[r] < MaxAgain
        BY <2>1, <2>5 DEF MayRepeat
      <3>2. again' \in [Request -> 0 .. 2]
        BY <3>1 DEF RunningType, MaxAgain
      <3> QED
        BY <1>1, <1>3, <2>1, <2>5, <3>2
    <2>6. CASE ~(Meaning(r, reply) = "again" /\ MayRepeat(r))
      <3> DEFINE state == IF Meaning(r, reply) = "again" THEN "failed" ELSE Meaning(r, reply)
      <3>1. Settle(r, [wire[r] EXCEPT ![k] = state], Meaning(r, reply) = "ok" /\ k = 0)
        BY <2>1, <2>6
      <3>2. state \in WireState /\ (state \in {"posted", "ok"} => Allowed(r))
        BY <2>3, <2>4 DEF WireState
      <3> HIDE DEF state
      <3> QED
        BY <1>1, <1>2, <3>1, <3>2
    <2> QED
      BY <2>5, <2>6
  <1> QED
    BY <1>4, <1>5, <1>6
\* The steps of a handler before its wires: the end, the broker, or the wires.
Admits(r) ==
    /\ at[r] = "ready" /\ op[r] = "translation"
    /\ broker' = [broker EXCEPT ![r] = "active"] /\ at' = [at EXCEPT ![r] = "provider"]
    /\ UNCHANGED <<waiting, again, answer, outer, told, adapter, wire>>

Opens(r) ==
    /\ at[r] \in {"ready", "provider"} /\ OuterGuard(r)
    /\ op[r] = "translation" => broker[r] = "active"
    /\ adapter' \in {adapter, [adapter EXCEPT ![r] = "active"]}
    /\ at' = [at EXCEPT ![r] = "wires"] /\ wire' = [wire EXCEPT ![r] = FirstWires(r)]
    /\ UNCHANGED <<waiting, again, answer, outer, told, broker>>

LEMMA HandlerStep ==
    ASSUME TypeOK, NEW r \in Request, Enter(r) \/ Provided(r)
    PROVE  Unchanged /\ (Concludes(r) \/ Admits(r) \/ Opens(r))
  <1>0. Unchanged /\ catalog' = catalog
    BY DEF Enter, Provided, Unchanged, caches
  <1>1. ASSUME Reject(r) PROVE Concludes(r)
    BY <1>0, <1>1, RejectConcludes DEF TypeOK
  <1>2. CASE Enter(r)
    <2>1. CASE ~OuterGuard(r)
      <3>1. Reject(r)
        BY <1>2, <2>1 DEF Enter
      <3> QED
        BY <1>0, <1>1, <3>1
    <2>2. CASE OuterGuard(r) /\ op[r] = "translation" /\ ~Authorized(r)
      <3>1. Reject(r)
        BY <1>2, <2>2 DEF Enter
      <3> QED
        BY <1>0, <1>1, <3>1
    <2>3. CASE OuterGuard(r) /\ op[r] = "translation" /\ Authorized(r)
      BY <1>0, <1>2, <2>3 DEF Enter, Admits, Suspend
    <2>4. CASE OuterGuard(r) /\ op[r] # "translation"
      <3>1. /\ at[r] = "ready"
            /\ adapter' = IF op[r] = "test" THEN [adapter EXCEPT ![r] = "active"] ELSE adapter
            /\ wire' = [wire EXCEPT ![r] = FirstWires(r)]
            /\ Suspend(r, "wires") /\ UNCHANGED broker
        BY <1>2, <2>4 DEF Enter
      <3> QED
        BY <1>0, <2>4, <3>1 DEF Opens, Suspend
    <2> QED
      BY <2>1, <2>2, <2>3, <2>4
  <1>3. CASE Provided(r)
    <2>1. CASE at[r] = "rejected" \/ ~BrokerGuard(r)
      <3>1. Reject(r)
        BY <1>3, <2>1 DEF Provided
      <3> QED
        BY <1>0, <1>1, <3>1
    <2>2. CASE at[r] # "rejected" /\ BrokerGuard(r)
      <3>1. /\ at[r] = "provider"
            /\ adapter' = [adapter EXCEPT ![r] = "active"]
            /\ wire' = [wire EXCEPT ![r] = FirstWires(r)]
            /\ Suspend(r, "wires") /\ UNCHANGED broker
        BY <1>3, <2>2 DEF Provided
      <3> QED
        BY <1>0, <2>2, <3>1 DEF Opens, Suspend, BrokerGuard
    <2> QED
      BY <2>1, <2>2
  <1> QED
    BY <1>2, <1>3

-----------------------------------------------------------------------------
(* The types. *)

\* The end of a request keeps the types it touches.
LEMMA ConcludesTypes ==
    ASSUME TypeOK, NEW r \in Request, Concludes(r), UNCHANGED <<accepted, seen, closed>>
    PROVE  /\ LifecycleType' /\ RunningType' /\ waiting' \subseteq Request
           /\ catalog' \in [revision : Nat, epoch : Nat] \cup {None}
  <1>1. PICK reply \in {None, "result", "error"} :
          Finish(r, reply) /\ catalog' \in {catalog, [revision |-> revision, epoch |-> epoch]}
    BY DEF Concludes
  <1>2. /\ outer' \in [Request -> Phase] /\ broker' \in [Request -> Phase]
        /\ adapter' \in [Request -> Phase] /\ told' \subseteq Request \X Wire
        /\ RunningType' /\ waiting' \subseteq waiting
    BY <1>1, FinishEffect DEF TypeOK, WindowType
  <1>3. catalog' \in [revision : Nat, epoch : Nat] \cup {None}
    BY <1>1 DEF TypeOK, AuthorityType
  <1> QED
    BY <1>2, <1>3 DEF TypeOK, LifecycleType, WindowType

LEMMA InvalidateTypes ==
    ASSUME TypeOK, NEW O \in SUBSET Request, NEW B \in SUBSET Request, Invalidate(O, B)
    PROVE  /\ outer' \in [Request -> Phase] /\ broker' \in [Request -> Phase]
           /\ adapter' \in [Request -> Phase] /\ told' \subseteq Request \X Wire
  BY InvalidateEffect DEF Invalidate, TypeOK, LifecycleType

LEMMA WindowStepTypes ==
    ASSUME TypeOK,
           \/ \E r \in Request : Issue(r) \/ WindowCancels(r)
           \/ \E s \in Sender : NewSession(s) \/ WindowCloses(s)
    PROVE  TypeOK'
  <1> USE DEF TypeOK
  <1>1. ASSUME NEW r \in Request, Issue(r) PROVE TypeOK'
    <2>1. SenderOf(r) \in Sender
      BY SenderOfType
    <2>2. session[SenderOf(r)] \in 1 .. MaxSession
      BY <1>1, <2>1, RequestAssumption DEF Issue, IsOpen, WindowType
    <2>3. [session |-> session[SenderOf(r)], revision |-> revision,
           generation |-> generation, epoch |-> epoch] \in Basis
      BY <2>2 DEF Basis, AuthorityType
    <2>4. frozen' \in [Request -> Basis \cup {None}]
      BY <1>1, <2>3 DEF Issue, WindowType
    <2>5. WindowType'
      BY <1>1, <2>4 DEF Issue, WindowType, Message
    <2> QED
      BY <1>1, <2>5 DEF Issue, setting, authority, caches, lifecycles, running, history,
                        SettingType, AuthorityType, LifecycleType, RunningType, HistoryType
  <1>2. ASSUME NEW r \in Request, WindowCancels(r) PROVE TypeOK'
    <2>1. WindowType'
      BY <1>2 DEF WindowCancels, Withdraw, WindowType, Message
    <2> QED
      BY <1>2, <2>1 DEF WindowCancels, setting, authority, caches, lifecycles, running, history,
                        SettingType, AuthorityType, LifecycleType, RunningType, HistoryType
  <1>3. ASSUME NEW s \in Sender, NewSession(s) PROVE TypeOK'
    <2>1. session' \in [Sender -> 0 .. MaxSession]
      BY <1>3, RequestAssumption DEF NewSession, WindowType
    <2>2. up' \subseteq Message /\ waiting' \subseteq Request
      BY <1>3 DEF NewSession, Withdraw, WindowType, Message
    <2>3. WindowType'
      BY <1>3, <2>1, <2>2 DEF NewSession, WindowType
    <2> QED
      BY <1>3, <2>3 DEF NewSession, setting, authority, caches, lifecycles, running, history,
                        SettingType, AuthorityType, LifecycleType, RunningType, HistoryType
  <1>4. ASSUME NEW s \in Sender, WindowCloses(s) PROVE TypeOK'
    <2>1. session' \in [Sender -> 0 .. MaxSession]
      BY <1>4, RequestAssumption DEF WindowCloses, WindowType
    <2>2. up' \subseteq Message /\ waiting' \subseteq Request
      BY <1>4 DEF WindowCloses, WindowType, Message
    <2>3. WindowType'
      BY <1>4, <2>1, <2>2 DEF WindowCloses, WindowType
    <2> QED
      BY <1>4, <2>3 DEF WindowCloses, setting, authority, caches, lifecycles, running, history,
                        SettingType, AuthorityType, LifecycleType, RunningType, HistoryType
  <1> QED
    BY <1>1, <1>2, <1>3, <1>4
LEMMA RequestStepTypes ==
    ASSUME TypeOK, Begun, NEW r \in Request,
           \/ Receive(r) \/ Prefetch(r) \/ Enter(r) \/ Provided(r)
           \/ \E k \in Wire : Post(r, k) \/ NoHelper(r, k) \/ Reply(r, k)
    PROVE  TypeOK'
  <1> USE DEF TypeOK
  <1>1. CASE Receive(r) /\ Refuse(r)
    <2>1. at' \in [Request -> Stage]
      BY <1>1 DEF Refuse, RunningType, Stage
    <2>2. RunningType'
      BY <1>1, <2>1 DEF Refuse, RunningType
    <2>3. WindowType'
      BY <1>1 DEF Receive, Refuse, window, WindowType
    <2> QED
      BY <1>1, <2>2, <2>3 DEF Refuse, setting, authority, caches, lifecycles, history,
                              SettingType, AuthorityType, LifecycleType, HistoryType
  <1>2. CASE Receive(r) /\ Accept(r)
    <2> DEFINE phases == [outer EXCEPT ![r] = "active"]
    <2>1. phases \in [Request -> Phase] /\ ReplacedBy(r) \in SUBSET Request /\ {} \in SUBSET Request
      BY DEF LifecycleType, Phase, ReplacedBy, Of
    <2>2. InvalidateFrom(phases, ReplacedBy(r), {}) /\ LifecycleType /\ RunningType
      BY <1>2 DEF Accept
    <2>3. /\ outer' \in [Request -> Phase] /\ broker' \in [Request -> Phase]
          /\ adapter' \in [Request -> Phase] /\ told' \subseteq Request \X Wire
      <3> HIDE DEF phases, TypeOK
      <3> QED
        BY <2>1, <2>2, InvalidateEffect
    <2>4. SenderOf(r) \in Sender
      BY SenderOfType
    <2>5. frozen[r] \in Basis
      BY <1>2 DEF Receive, Begun, BegunAt, RequestOf, WindowType
    <2>6. [frozen[r] EXCEPT !.epoch = epoch] \in Basis /\ frozen[r].session \in 1 .. MaxSession
      BY <2>5 DEF Basis, AuthorityType
    <2>7. frozen' \in [Request -> Basis \cup {None}]
      BY <1>2, <2>6 DEF Accept, WindowType
    <2>8. accepted' \in [Sender -> (1 .. MaxSession) \cup {None}]
      BY <1>2, <2>4, <2>6 DEF Accept, LifecycleType
    <2>9. LifecycleType'
      BY <1>2, <2>3, <2>8 DEF Accept, LifecycleType
    <2>10. WindowType'
      BY <1>2, <2>7 DEF Receive, Accept, WindowType
    <2>11. RunningType'
      BY <1>2 DEF Accept, RunningType, Stage
    <2>12. HistoryType'
      BY <1>2, <2>1 DEF Accept, HistoryType
    <2> QED
      BY <1>2, <2>9, <2>10, <2>11, <2>12 DEF Accept, setting, authority, caches,
                                             SettingType, AuthorityType
  <1>3. CASE Prefetch(r)
    <2>1. [session |-> 1, revision |-> revision, generation |-> generation, epoch |-> epoch] \in Basis
      BY RequestAssumption DEF Basis, AuthorityType
    <2>2. WindowType'
      BY <1>3, <2>1 DEF Prefetch, WindowType
    <2>3. LifecycleType'
      BY <1>3 DEF Prefetch, LifecycleType, Phase
    <2>4. wire' \in [Request -> [Wire -> WireState]]
      BY <1>3, FirstWiresEffect DEF Prefetch, RunningType
    <2>5. RunningType'
      BY <1>3, <2>4 DEF Prefetch, RunningType, Stage
    <2> QED
      BY <1>3, <2>2, <2>3, <2>5 DEF Prefetch, setting, authority, caches, history,
                                    SettingType, AuthorityType, HistoryType
  <1>4. CASE Enter(r) \/ Provided(r)
    <2>1. Unchanged /\ (Concludes(r) \/ Admits(r) \/ Opens(r))
      BY <1>4, HandlerStep
    <2>2. LifecycleType' /\ RunningType' /\ waiting' \subseteq Request
      <3>1. CASE Concludes(r)
        BY <2>1, <3>1, ConcludesTypes DEF Unchanged
      <3>2. CASE Admits(r)
        BY <2>1, <3>2 DEF Unchanged, Admits, LifecycleType, RunningType, WindowType, Phase, Stage
      <3>3. CASE Opens(r)
        <4>1. wire' \in [Request -> [Wire -> WireState]]
          BY <3>3, FirstWiresEffect DEF Opens, RunningType
        <4>2. RunningType'
          BY <3>3, <4>1 DEF Opens, RunningType, Stage
        <4>3. LifecycleType'
          BY <2>1, <3>3 DEF Unchanged, Opens, LifecycleType, Phase
        <4> QED
          BY <3>3, <4>2, <4>3 DEF Opens, WindowType
      <3> QED
        BY <2>1, <3>1, <3>2, <3>3
    <2> QED
      BY <2>1, <2>2 DEF Unchanged, setting, authority, caches, history,
                        SettingType, WindowType, AuthorityType, HistoryType
  <1>5. ASSUME NEW k \in Wire, Post(r, k) \/ NoHelper(r, k) \/ Reply(r, k) PROVE TypeOK'
    <2>1. WireFrame /\ known' \subseteq Sender /\ (GoesOn(r) \/ Concludes(r))
      BY <1>5, WireStep
    <2>2. /\ LifecycleType' /\ RunningType' /\ waiting' \subseteq Request
          /\ catalog' \in [revision : Nat, epoch : Nat] \cup {None}
      <3>1. CASE Concludes(r)
        BY <2>1, <3>1, ConcludesTypes DEF WireFrame
      <3>2. CASE GoesOn(r)
        BY <2>1, <3>2 DEF WireFrame, GoesOn, LifecycleType, WindowType, AuthorityType
      <3> QED
        BY <2>1, <3>1, <3>2
    <2> QED
      BY <2>1, <2>2 DEF WireFrame, setting, authority, history,
                        SettingType, WindowType, AuthorityType, HistoryType
  <1> QED
    BY <1>1, <1>2, <1>3, <1>4, <1>5 DEF Receive

\* The steps that stop requests, and those of the authority.
LEMMA StopStepTypes ==
    ASSUME TypeOK,
           \/ \E r \in Request : ReceiveCancel(r)
           \/ \E s \in Sender : ReceiveClose(s) \/ Expire(s)
    PROVE  TypeOK'
  <1>1. ASSUME NEW r \in Request, ReceiveCancel(r) PROVE TypeOK'
    <2>1. /\ outer' \in [Request -> Phase] /\ broker' \in [Request -> Phase]
          /\ adapter' \in [Request -> Phase] /\ told' \subseteq Request \X Wire
      BY <1>1, InvalidateTypes DEF ReceiveCancel
    <2>2. LifecycleType'
      BY <1>1, <2>1 DEF ReceiveCancel, TypeOK, LifecycleType
    <2> QED
      BY <1>1, <2>2 DEF ReceiveCancel, setting, window, authority, caches, running, TypeOK,
                        SettingType, WindowType, AuthorityType, RunningType, HistoryType
  <1>2. ASSUME NEW s \in Sender, Release(s)
        PROVE  /\ outer' \in [Request -> Phase] /\ broker' \in [Request -> Phase]
               /\ adapter' \in [Request -> Phase] /\ told' \subseteq Request \X Wire
               /\ accepted' \in [Sender -> (1 .. MaxSession) \cup {None}]
               /\ ended' \subseteq Request
    <2>1. From(s) \in SUBSET Request /\ Invalidate(From(s), From(s))
      BY <1>2 DEF From, Release
    <2>2. /\ accepted' \in [Sender -> (1 .. MaxSession) \cup {None}]
          /\ ended' \subseteq Request
      BY <1>2, <2>1 DEF Release, TypeOK, LifecycleType, HistoryType
    <2> QED
      BY <2>1, <2>2, InvalidateTypes
  <1>3. ASSUME NEW s \in Sender, ReceiveClose(s) PROVE TypeOK'
    <2>1. LifecycleType' /\ HistoryType'
      BY <1>2, <1>3 DEF ReceiveClose, TypeOK, LifecycleType, HistoryType
    <2> QED
      BY <1>3, <2>1 DEF ReceiveClose, setting, window, authority, caches, running, TypeOK,
                        SettingType, WindowType, AuthorityType, RunningType
  <1>4. ASSUME NEW s \in Sender, Expire(s) PROVE TypeOK'
    <2>1. LifecycleType' /\ HistoryType'
      BY <1>2, <1>4 DEF Expire, TypeOK, LifecycleType, HistoryType
    <2> QED
      BY <1>4, <2>1 DEF Expire, setting, window, authority, caches, running, TypeOK,
                        SettingType, WindowType, AuthorityType, RunningType
  <1> QED
    BY <1>1, <1>3, <1>4

LEMMA AuthorityStepTypes ==
    ASSUME TypeOK,
           \/ RestoreProfiles \/ BeginCommit \/ FailCommit \/ SetActivation \/ ChangeProfile
           \/ ReconcileProfiles \/ ClearCaches
    PROVE  TypeOK'
  <1>1. CASE RestoreProfiles
    BY <1>1 DEF RestoreProfiles, setting, window, authority, caches, lifecycles, running, history, TypeOK,
                SettingType, WindowType, AuthorityType, LifecycleType, RunningType, HistoryType
  <1>2. CASE BeginCommit
    <2>1. certain' \in BOOLEAN /\ changes' \in Nat
      <3>1. certain' = FALSE /\ changes' = changes + 1
        BY <1>2, Zenon DEF BeginCommit
      <3>2. changes' \in Nat
        BY <3>1 DEF TypeOK, HistoryType
      <3> QED
        BY <3>1, <3>2, Zenon
    <2>2. AuthorityType' /\ HistoryType'
      BY <1>2, <2>1 DEF BeginCommit, caches, TypeOK, AuthorityType, HistoryType
    <2> QED
      BY <1>2, <2>2 DEF BeginCommit, setting, window, lifecycles, running, TypeOK,
                        SettingType, WindowType, LifecycleType, RunningType
  <1>3. CASE FailCommit
    BY <1>3 DEF FailCommit, setting, window, caches, lifecycles, running, history, TypeOK,
                SettingType, WindowType, AuthorityType, LifecycleType, RunningType, HistoryType
  <1>4. CASE SetActivation
    <2>1. /\ outer' \in [Request -> Phase] /\ broker' \in [Request -> Phase]
          /\ adapter' \in [Request -> Phase] /\ told' \subseteq Request \X Wire
      BY <1>4, InvalidateTypes DEF SetActivation
    <2>2. LifecycleType'
      BY <1>4, <2>1 DEF SetActivation, TypeOK, LifecycleType
    <2>3. AuthorityType'
      BY <1>4 DEF SetActivation, Commit, Activation, caches, TypeOK, AuthorityType
    <2> QED
      BY <1>4, <2>2, <2>3 DEF SetActivation, setting, window, running, TypeOK,
                              SettingType, WindowType, RunningType, HistoryType
  <1>5. ASSUME InvalidateProfile(Request)
        PROVE  /\ outer' \in [Request -> Phase] /\ broker' \in [Request -> Phase]
               /\ adapter' \in [Request -> Phase] /\ told' \subseteq Request \X Wire
               /\ answer' \in [Request -> {None, "result", "error"}]
               /\ waiting' \subseteq Request /\ ended' \subseteq Request /\ epoch' \in Nat
    <2> DEFINE tests == {r \in Tests : outer[r] = "active"}
               lists == {r \in Lists : outer[r] = "active"}
    <2>1. /\ Invalidate(tests \cup lists, Request)
          /\ answer' = [r \in Request |-> IF r \in tests THEN "error" ELSE answer[r]]
          /\ waiting' = waiting \ tests
          /\ ended' = ended \cup tests \cup lists \cup {r \in Request : broker[r] = "active"}
          /\ epoch' = epoch + 1
      BY <1>5 DEF InvalidateProfile
    <2>2. tests \cup lists \in SUBSET Request
      BY DEF Tests, Lists
    <2>3. /\ answer' \in [Request -> {None, "result", "error"}]
          /\ waiting' \subseteq Request /\ ended' \subseteq Request /\ epoch' \in Nat
      BY <2>1, <2>2 DEF TypeOK, RunningType, WindowType, HistoryType, AuthorityType
    <2> HIDE DEF tests, lists
    <2> QED
      BY <2>1, <2>2, <2>3, InvalidateTypes
  <1>6. CASE ChangeProfile
    <2>5. active' \in BOOLEAN /\ certain' \in BOOLEAN /\ clearing' \in BOOLEAN /\ ready' \in BOOLEAN
      BY <1>6, Zenon DEF ChangeProfile, Commit, Activation, TypeOK, AuthorityType
    <2>6. revision' \in Nat /\ generation' \in Nat
      <3>1. revision' = revision + 1 /\ generation' \in {generation, generation + 1}
        BY <1>6 DEF ChangeProfile, Activation
      <3> QED
        BY <3>1 DEF TypeOK, AuthorityType
    <2>1. AuthorityType'
      BY <1>5, <1>6, <2>5, <2>6 DEF ChangeProfile, TypeOK, AuthorityType
    <2>2. LifecycleType'
      BY <1>5, <1>6 DEF ChangeProfile, TypeOK, LifecycleType
    <2>3. RunningType' /\ WindowType' /\ HistoryType'
      BY <1>5, <1>6 DEF ChangeProfile, TypeOK, RunningType, WindowType, HistoryType
    <2> QED
      BY <1>6, <2>1, <2>2, <2>3 DEF ChangeProfile, setting, TypeOK, SettingType
  <1>7. CASE ReconcileProfiles
    <2>5. active' \in BOOLEAN /\ certain' \in BOOLEAN /\ clearing' \in BOOLEAN /\ ready' \in BOOLEAN
      <3>1. ready' = ready /\ certain' = TRUE /\ clearing' = clearing
        BY <1>7, Zenon DEF ReconcileProfiles, Commit
      <3>2. active' \in {active, ~active, FALSE}
        BY <1>7, Zenon DEF ReconcileProfiles, Activation
      <3> QED
        BY <3>1, <3>2, Zenon DEF TypeOK, AuthorityType
    <2>6. revision' \in Nat /\ generation' \in Nat
      <3>1. revision' \in {revision, revision + 1} /\ generation' \in {generation, generation + 1}
        BY <1>7 DEF ReconcileProfiles, Activation
      <3> QED
        BY <3>1 DEF TypeOK, AuthorityType
    <2>7. known' \subseteq Sender /\ catalog' \in [revision : Nat, epoch : Nat] \cup {None}
      BY <1>7 DEF ReconcileProfiles
    <2>1. AuthorityType'
      BY <1>5, <1>7, <2>5, <2>6, <2>7 DEF ReconcileProfiles, TypeOK, AuthorityType
    <2>2. LifecycleType'
      BY <1>5, <1>7 DEF ReconcileProfiles, TypeOK, LifecycleType
    <2>3. RunningType' /\ WindowType' /\ HistoryType'
      BY <1>5, <1>7 DEF ReconcileProfiles, TypeOK, RunningType, WindowType, HistoryType
    <2> QED
      BY <1>7, <2>1, <2>2, <2>3 DEF ReconcileProfiles, setting, TypeOK, SettingType
  <1>8. CASE ClearCaches
    <2>1. at' \in [Request -> Stage]
      BY <1>8 DEF ClearCaches, TypeOK, RunningType, Stage
    <2> QED
      BY <1>8, <2>1 DEF ClearCaches, setting, window, lifecycles, history, TypeOK,
                        SettingType, WindowType, AuthorityType, LifecycleType, RunningType, HistoryType
  <1> QED
    BY <1>1, <1>2, <1>3, <1>4, <1>6, <1>7, <1>8
-----------------------------------------------------------------------------
(* The steps of one request keep the invariant. *)

\* What the steps of a handler and of its wires leave alone.
HandlerFrame ==
    /\ UNCHANGED <<setting, session, frozen, up, accepted, seen, closed, history>>
    /\ UNCHANGED <<revision, epoch, clearing>>

LEMMA ConcludesKeeps ==
    ASSUME TypeOK, Kept, NEW r \in Request, Concludes(r), HandlerFrame, at[r] # "new"
    PROVE  Kept'
  <1>1. PICK reply \in {None, "result", "error"} :
          /\ Finish(r, reply)
          /\ reply = None => op[r] \in {"models", "prefetch"}
          /\ catalog' \in {catalog, [revision |-> revision, epoch |-> epoch]}
    BY DEF Concludes
  <1>2. /\ waiting' \subseteq waiting /\ RunningType'
        /\ \A q \in Request :
             /\ outer'[q] = IF q = r /\ outer[q] = "active" THEN "ended" ELSE outer[q]
             /\ broker'[q] = IF q = r /\ broker[q] = "active" THEN "ended" ELSE broker[q]
             /\ at'[q] = IF q = r THEN "over" ELSE at[q]
             /\ answer'[q] = IF q = r /\ outer[r] = "active" /\ reply # None THEN reply ELSE answer[q]
             /\ q # r => /\ adapter'[q] = adapter[q] /\ wire'[q] = wire[q]
                         /\ \A k \in Wire : <<q, k>> \in told => <<q, k>> \in told'
             /\ q = r => /\ \A k \in Wire : wire'[q][k] = "none"
                         /\ outer[r] = "active" /\ reply # None => q \notin waiting'
    BY <1>1, FinishEffect DEF TypeOK, WindowType
  <1>3. \A q \in Request : SenderOf(q)' = SenderOf(q)
    BY DEF SenderOf, HandlerFrame, setting
  <1>4. ASSUME NEW q \in Request PROVE BegunAt(q)'
    <2>1. CASE q = r
      <3>1. Idle(wire'[r])
        BY <1>2 DEF Idle, InFlight
      <3> QED
        BY <1>2, <2>1, <3>1 DEF Kept, Begun, BegunAt, HandlerFrame, RequestOf, CancelOf, setting
    <2>2. CASE q # r
      BY <1>2, <2>2 DEF Kept, Begun, BegunAt, HandlerFrame, RequestOf, CancelOf, setting
    <2> QED
      BY <2>1, <2>2
  <1>5. ASSUME NEW q \in ended' PROVE Over(q)'
    BY <1>2, <1>3 DEF Kept, StoppedIsOver, Over, IsRefused, HandlerFrame, setting, history, TypeOK, HistoryType
  <1>6. ASSUME NEW q \in Request PROVE WaitSound(q)'
    BY <1>2, <1>3 DEF Kept, WindowsSound, WaitSound, IsOpen, HandlerFrame, RequestOf, CancelOf, setting, history
  <1>7. ASSUME NEW s \in Sender PROVE WindowSound(s)'
    BY DEF Kept, WindowsSound, WindowSound, IsOpen, HandlerFrame
  <1>8. NoOrphanJob'
    <2> SUFFICES ASSUME NEW q \in Request, NEW k \in Wire, wire'[q][k] = "posted", ~JobsActive(q)'
                 PROVE  <<q, k>> \in told'
      BY DEF NoOrphanJob, Wire
    <2>1. q # r
      BY <1>2
    <2>2. ~JobsActive(q) /\ wire[q][k] = "posted"
      BY <1>2, <2>1 DEF JobsActive, HandlerFrame, setting
    <2> QED
      BY <1>2, <2>1, <2>2 DEF Kept, NoOrphanJob
  <1>9. CatalogIsCurrent'
    BY <1>1 DEF Kept, CatalogIsCurrent, HandlerFrame
  <1>10. ASSUME NEW q \in waiting', op'[q] = "translation", SenderOf(q)' \notin lapsed' PROVE InHand(q)'
    <2>1. q \in Request /\ InHand(q)
      BY <1>2, <1>3, <1>10 DEF Kept, WaitingIsInHand, HandlerFrame, setting, history, TypeOK, WindowType
    <2>2. q # r
      BY <1>1, <1>2, <1>10, <2>1 DEF InHand, Kept, Begun, BegunAt, RequestOf, HandlerFrame, setting
    <2> QED
      BY <1>2, <2>1, <2>2 DEF InHand, HandlerFrame, RequestOf
  <1> QED
    BY <1>4, <1>5, <1>6, <1>7, <1>8, <1>9, <1>10 DEF Kept, Begun, StoppedIsOver, WindowsSound, WaitingIsInHand

\* A wire in flight goes on: nothing but the wires of the request changes.
LEMMA GoesOnKeeps ==
    ASSUME TypeOK, Kept, NEW r \in Request, GoesOn(r), HandlerFrame, at[r] = "wires",
           \A k \in Wire : wire'[r][k] = "posted" => wire[r][k] = "posted" \/ JobsActive(r)
    PROVE  Kept'
  <1>1. /\ UNCHANGED <<waiting, outer, broker, adapter, told, at, answer, catalog>> /\ ~Idle(wire'[r])
        /\ \A q \in Request : q # r => wire'[q] = wire[q]
    BY DEF GoesOn
  <1>2. \A q \in Request : SenderOf(q)' = SenderOf(q)
    BY DEF SenderOf, HandlerFrame, setting
  <1>3. ASSUME NEW q \in Request PROVE BegunAt(q)'
    <2>1. at[q] # "wires" => Idle(wire[q])
      BY DEF Kept, Begun, BegunAt
    <2>2. at'[q] # "wires" => Idle(wire'[q])
      BY <1>1, <2>1
    <2> QED
      BY <1>1, <2>2 DEF Kept, Begun, BegunAt, HandlerFrame, RequestOf, CancelOf, setting, Idle
  <1>4. ASSUME NEW q \in ended' PROVE Over(q)'
    BY <1>1, <1>2 DEF Kept, StoppedIsOver, Over, IsRefused, HandlerFrame, setting, history, TypeOK, HistoryType
  <1>5. ASSUME NEW q \in Request PROVE WaitSound(q)'
    BY <1>1, <1>2 DEF Kept, WindowsSound, WaitSound, IsOpen, HandlerFrame, RequestOf, CancelOf, setting, history
  <1>6. ASSUME NEW s \in Sender PROVE WindowSound(s)'
    BY DEF Kept, WindowsSound, WindowSound, IsOpen, HandlerFrame
  <1>7. NoOrphanJob'
    <2> SUFFICES ASSUME NEW q \in Request, NEW k \in Wire, wire'[q][k] = "posted", ~JobsActive(q)'
                 PROVE  <<q, k>> \in told'
      BY DEF NoOrphanJob, Wire
    <2>1. ~JobsActive(q)
      BY <1>1 DEF JobsActive, HandlerFrame, setting
    <2>2. wire[q][k] = "posted"
      BY <1>1, <2>1
    <2> QED
      BY <1>1, <2>1, <2>2 DEF Kept, NoOrphanJob
  <1>8. CatalogIsCurrent'
    BY <1>1 DEF Kept, CatalogIsCurrent, HandlerFrame
  <1>9. ASSUME NEW q \in waiting', op'[q] = "translation", SenderOf(q)' \notin lapsed' PROVE InHand(q)'
    <2>1. q \in Request /\ InHand(q)
      BY <1>1, <1>2, <1>9 DEF Kept, WaitingIsInHand, HandlerFrame, setting, history, TypeOK, WindowType
    <2>2. at'[q] = "wires" => ~Idle(wire'[q])
      BY <1>1, <2>1 DEF InHand, Kept, Begun, BegunAt, RequestOf
    <2> QED
      BY <1>1, <2>1, <2>2 DEF InHand, HandlerFrame, RequestOf, Idle
  <1> QED
    BY <1>3, <1>4, <1>5, <1>6, <1>7, <1>8, <1>9 DEF Kept, Begun, StoppedIsOver, WindowsSound, WaitingIsInHand

\* The handler goes on: into the broker, or to the first wires.
LEMMA AdvanceKeeps ==
    ASSUME TypeOK, Kept, NEW r \in Request, HandlerFrame, catalog' = catalog, Admits(r) \/ Opens(r)
    PROVE  Kept'
  <1>0. SettingType /\ at \in [Request -> Stage] /\ wire \in [Request -> [Wire -> WireState]]
        /\ broker \in [Request -> Phase] /\ adapter \in [Request -> Phase]
    BY DEF TypeOK, RunningType, LifecycleType
  <1>1. /\ UNCHANGED <<waiting, answer, outer, told>> /\ at[r] # "new"
        /\ \A q \in Request : q # r => at'[q] = at[q] /\ wire'[q] = wire[q]
                                       /\ broker'[q] = broker[q] /\ adapter'[q] = adapter[q]
    BY <1>0 DEF Admits, Opens
  <1>2. /\ at'[r] \in {"provider", "wires"}
        /\ at'[r] = "provider" => wire'[r] = wire[r] /\ adapter'[r] = adapter[r] /\ op[r] = "translation"
                                  /\ at[r] = "ready"
        /\ at'[r] = "wires" => wire'[r] = FirstWires(r) /\ outer[r] = "active" /\ broker'[r] = broker[r]
    BY <1>0 DEF Admits, Opens, OuterGuard
  <1>2b. broker'[r] = broker[r] \/ (broker'[r] = "active" /\ broker[r] = "new" /\ op[r] = "translation")
    BY <1>0 DEF Admits, Opens, Kept, Begun, BegunAt
  <1>2c. \A k \in Wire : wire'[r][k] = "posted" => wire[r][k] = "posted" /\ at'[r] = "provider"
    BY <1>0, <1>2, FirstWiresEffect
  <1>3. \A q \in Request : SenderOf(q)' = SenderOf(q)
    BY DEF SenderOf, HandlerFrame, setting
  <1>4. ASSUME NEW q \in Request PROVE BegunAt(q)'
    <2>1. CASE q = r
      <3>1. at'[r] # "wires" => Idle(wire'[r])
        BY <1>2 DEF Kept, Begun, BegunAt
      <3> QED
        BY <1>1, <1>2, <1>2b, <2>1, <3>1 DEF Kept, Begun, BegunAt, HandlerFrame, RequestOf, CancelOf, setting, Idle
    <2>2. CASE q # r
      BY <1>1, <2>2 DEF Kept, Begun, BegunAt, HandlerFrame, RequestOf, CancelOf, setting, Idle
    <2> QED
      BY <2>1, <2>2
  <1>5. ASSUME NEW q \in ended' PROVE Over(q)'
    BY <1>1, <1>2b, <1>3 DEF Kept, StoppedIsOver, Over, IsRefused, HandlerFrame, setting, history, TypeOK, HistoryType
  <1>6. ASSUME NEW q \in Request PROVE WaitSound(q)'
    BY <1>1, <1>3 DEF Kept, WindowsSound, WaitSound, IsOpen, HandlerFrame, RequestOf, CancelOf, setting, history
  <1>7. ASSUME NEW s \in Sender PROVE WindowSound(s)'
    BY DEF Kept, WindowsSound, WindowSound, IsOpen, HandlerFrame
  <1>8. NoOrphanJob'
    <2> SUFFICES ASSUME NEW q \in Request, NEW k \in Wire, wire'[q][k] = "posted", ~JobsActive(q)'
                 PROVE  <<q, k>> \in told'
      BY DEF NoOrphanJob, Wire
    <2>1. wire[q][k] = "posted" /\ adapter'[q] = adapter[q]
      BY <1>1, <1>2, <1>2c
    <2>2. ~JobsActive(q)
      BY <1>1, <2>1 DEF JobsActive, HandlerFrame, setting
    <2> QED
      BY <1>1, <2>1, <2>2 DEF Kept, NoOrphanJob
  <1>9. CatalogIsCurrent'
    BY DEF Kept, CatalogIsCurrent, HandlerFrame
  <1>10. ASSUME NEW q \in waiting', op'[q] = "translation", SenderOf(q)' \notin lapsed' PROVE InHand(q)'
    <2>1. q \in Request /\ InHand(q)
      BY <1>1, <1>3, <1>10 DEF Kept, WaitingIsInHand, HandlerFrame, setting, history, TypeOK, WindowType
    <2>2. CASE q = r
      <3>1. outer[r] = "active"
        BY <1>1, <2>1, <2>2 DEF InHand, Kept, Begun, BegunAt, RequestOf
      <3>2. ~Idle(FirstWires(r))
        BY <1>0, <1>10, <2>2, FirstWiresEffect DEF HandlerFrame, setting
      <3>3. at'[q] = "wires" => ~Idle(wire'[q])
        BY <1>2, <2>2, <3>2
      <3> QED
        BY <1>1, <1>2, <2>2, <3>1, <3>3 DEF InHand, Idle
    <2>3. CASE q # r
      BY <1>1, <2>1, <2>3 DEF InHand, HandlerFrame, RequestOf, Idle
    <2> QED
      BY <2>2, <2>3
  <1> QED
    BY <1>4, <1>5, <1>6, <1>7, <1>8, <1>9, <1>10 DEF Kept, Begun, StoppedIsOver, WindowsSound, WaitingIsInHand

LEMMA RunStepKeeps ==
    ASSUME TypeOK, Kept, NEW r \in Request,
           Enter(r) \/ Provided(r) \/ \E k \in Wire : Post(r, k) \/ NoHelper(r, k) \/ Reply(r, k)
    PROVE  Kept'
  <1>1. CASE Enter(r) \/ Provided(r)
    <2>1. Unchanged /\ (Concludes(r) \/ Admits(r) \/ Opens(r))
      BY <1>1, HandlerStep
    <2>2. HandlerFrame /\ catalog' = catalog
      BY <2>1 DEF Unchanged, HandlerFrame, authority, caches
    <2>3. at[r] # "new"
      BY <1>1 DEF Enter, Provided
    <2> QED
      BY <2>1, <2>2, <2>3, ConcludesKeeps, AdvanceKeeps
  <1>2. ASSUME NEW k \in Wire, Post(r, k) \/ NoHelper(r, k) \/ Reply(r, k) PROVE Kept'
    <2>1. WireFrame /\ (GoesOn(r) \/ Concludes(r))
      BY <1>2, WireStep
    <2>2. HandlerFrame
      BY <2>1 DEF WireFrame, HandlerFrame, authority
    <2>3. wire[r][k] \in InFlight
      BY <1>2 DEF Post, NoHelper, Reply, InFlight
    <2>4. at[r] = "wires"
      BY <2>3 DEF Kept, Begun, BegunAt, Idle
    <2>5. Allowed(r) => JobsActive(r)
      <3>1. op[r] \in Op
        BY DEF TypeOK, SettingType
      <3> QED
        BY <3>1 DEF Allowed, JobsActive, OuterGuard, Op
    <2>6. CASE GoesOn(r)
      <3>1. \A j \in Wire : wire'[r][j] = "posted" => wire[r][j] = "posted" \/ JobsActive(r)
        BY <2>5, <2>6 DEF GoesOn
      <3> QED
        BY <2>2, <2>4, <2>6, <3>1, GoesOnKeeps
    <2>7. CASE Concludes(r)
      BY <2>2, <2>4, <2>7, ConcludesKeeps
    <2> QED
      BY <2>1, <2>6, <2>7
  <1> QED
    BY <1>1, <1>2
-----------------------------------------------------------------------------
(* The steps of the windows keep the invariant. *)

\* What the steps of a window leave alone.
WindowFrame == UNCHANGED <<setting, ready, authority, caches, lifecycles, running, history>>

\* Requests that are not stopped anew, and whose jobs nobody looks at, stay as
\* they are.
LEMMA WindowFrameKeeps ==
    ASSUME TypeOK, Kept, WindowFrame
    PROVE  /\ StoppedIsOver' /\ NoOrphanJob' /\ CatalogIsCurrent'
           /\ \A q \in Request : SenderOf(q)' = SenderOf(q)
  <1>1. \A q \in Request : SenderOf(q)' = SenderOf(q)
    BY DEF SenderOf, WindowFrame, setting
  <1>2. StoppedIsOver'
    BY <1>1 DEF Kept, StoppedIsOver, Over, IsRefused, WindowFrame, setting, lifecycles, history,
                TypeOK, HistoryType
  <1>3. NoOrphanJob'
    BY DEF Kept, NoOrphanJob, JobsActive, Wire, WindowFrame, setting, lifecycles, running
  <1>4. CatalogIsCurrent'
    BY DEF Kept, CatalogIsCurrent, WindowFrame, authority, caches
  <1> QED
    BY <1>1, <1>2, <1>3, <1>4

LEMMA IssueKeeps ==
    ASSUME TypeOK, Kept, NEW r \in Request, Issue(r)
    PROVE  Kept'
  <1> DEFINE s == SenderOf(r)
             basis == [session |-> session[s], revision |-> revision,
                       generation |-> generation, epoch |-> epoch]
  <1>1. /\ frozen[r] = None /\ IsOpen(s) /\ op[r] # "prefetch" /\ WindowFrame
        /\ frozen' = [frozen EXCEPT ![r] = basis] /\ waiting' = waiting \cup {r}
        /\ up' = up \cup {RequestOf(r)} /\ session' = session
    BY DEF Issue, WindowFrame, RequestOf
  <1>2. s \in Sender /\ basis \in Basis /\ basis # None /\ basis.session = session[s]
    <2>1. s \in Sender
      BY SenderOfType DEF TypeOK
    <2>2. session[s] \in 1 .. MaxSession
      BY <1>1, <2>1, RequestAssumption DEF IsOpen, TypeOK, WindowType
    <2>3. basis \in Basis
      BY <2>2 DEF Basis, TypeOK, AuthorityType
    <2> QED
      BY <2>1, <2>3, RequestAssumption
  <1> HIDE DEF basis
  <1>3. /\ frozen'[r] = basis
        /\ \A q \in Request : q # r => frozen'[q] = frozen[q] /\ (RequestOf(q) \in up' => RequestOf(q) \in up)
        /\ \A q \in Request : CancelOf(q) \in up' => CancelOf(q) \in up
        /\ \A t \in Sender : <<"close", t>> \in up' => <<"close", t>> \in up
    BY <1>1 DEF TypeOK, WindowType, RequestOf, CancelOf
  <1>4. \A q \in Request : SenderOf(q)' = SenderOf(q)
    BY <1>1, WindowFrameKeeps
  <1>5. at[r] = "new" /\ r \notin seen /\ CancelOf(r) \notin up /\ outer[r] = "new"
    BY <1>1 DEF Kept, Begun, BegunAt
  <1>6. ASSUME NEW q \in Request PROVE BegunAt(q)'
    <2>1. BegunAt(q)
      BY DEF Kept, Begun
    <2>2. CASE q = r
      BY <1>1, <1>2, <1>3, <1>5, <2>1, <2>2 DEF BegunAt, WindowFrame, setting, lifecycles, running,
                                               RequestOf, CancelOf, Idle
    <2>3. CASE q # r
      BY <1>1, <1>3, <2>1, <2>3 DEF BegunAt, WindowFrame, setting, lifecycles, running,
                                    RequestOf, CancelOf, Idle
    <2> QED
      BY <2>2, <2>3
  <1>7. ASSUME NEW q \in Request PROVE WaitSound(q)'
    <2>1. WaitSound(q)
      BY DEF Kept, WindowsSound
    <2>2. CASE q = r
      <3>1. session[s] \in Nat
        BY <1>2, RequestAssumption DEF TypeOK, WindowType
      <3> QED
        BY <1>1, <1>2, <1>3, <1>4, <1>5, <2>2, <3>1
           DEF WaitSound, IsOpen, WindowFrame, setting, lifecycles, history, RequestOf, CancelOf
    <2>3. CASE q # r
      BY <1>1, <1>3, <1>4, <2>1, <2>3 DEF WaitSound, IsOpen, WindowFrame, setting, lifecycles, history,
                                          RequestOf, CancelOf
    <2> QED
      BY <2>2, <2>3
  <1>8. ASSUME NEW t \in Sender PROVE WindowSound(t)'
    BY <1>1, <1>3 DEF Kept, WindowsSound, WindowSound, IsOpen, WindowFrame, lifecycles
  <1>9. ASSUME NEW q \in waiting', op'[q] = "translation", SenderOf(q)' \notin lapsed' PROVE InHand(q)'
    <2>1. q \in Request
      BY <1>1 DEF TypeOK, WindowType
    <2>2. CASE q = r
      BY <1>1, <2>2 DEF InHand, RequestOf
    <2>3. CASE q # r
      <3>1. InHand(q)
        BY <1>1, <1>4, <1>9, <2>1, <2>3 DEF Kept, WaitingIsInHand, WindowFrame, setting, history
      <3> QED
        BY <1>1, <3>1 DEF InHand, WindowFrame, lifecycles, running, Idle
    <2> QED
      BY <2>2, <2>3
  <1> QED
    BY <1>1, <1>6, <1>7, <1>8, <1>9, WindowFrameKeeps DEF Kept, Begun, WindowsSound, WaitingIsInHand

\* A window that withdraws requests, with a session that is the same, a later one,
\* or over.
LEMMA WithdrawKeeps ==
    ASSUME TypeOK, Kept, WindowFrame, frozen' = frozen, NEW s \in Sender, waiting' \subseteq waiting,
           session' \in [Sender -> 0 .. MaxSession],
           \A q \in Request : RequestOf(q) \in up' => RequestOf(q) \in up,
           \A q \in Request : CancelOf(q) \in up' => CancelOf(q) \in up \/ (q \in waiting /\ q \notin waiting'),
           \A q \in waiting' : RequestOf(q) \in up => RequestOf(q) \in up',
           \A t \in Sender : session'[t] # session[t] => t = s,
           session'[s] = 0 \/ session'[s] >= session[s],
           IsOpen(s)' => IsOpen(s),
           \A t \in Sender : <<"close", t>> \in up' => <<"close", t>> \in up \/ session'[t] = 0,
           \A q \in waiting' : SenderOf(q) = s => IsOpen(s)' /\ (op[q] = "translation" => session'[s] = session[s])
    PROVE  Kept'
  <1>1. \A q \in Request : SenderOf(q)' = SenderOf(q) /\ SenderOf(q) \in Sender
    BY WindowFrameKeeps, SenderOfType DEF TypeOK
  <1>2. session \in [Sender -> Nat] /\ session' \in [Sender -> Nat]
    BY RequestAssumption DEF TypeOK, WindowType
  <1>3. ASSUME NEW q \in Request PROVE BegunAt(q)'
    <2>1. BegunAt(q)
      BY DEF Kept, Begun
    <2> QED
      BY <2>1 DEF BegunAt, WindowFrame, setting, lifecycles, running, RequestOf, CancelOf, Idle
  <1>4. ASSUME NEW q \in Request PROVE WaitSound(q)'
    <2>1. WaitSound(q)
      BY DEF Kept, WindowsSound
    <2>2. frozen[q] # None => frozen[q].session \in Nat
      BY RequestAssumption DEF TypeOK, WindowType, Basis
    <2>3. ASSUME frozen[q] # None, IsOpen(SenderOf(q))' PROVE frozen[q].session <= session'[SenderOf(q)]
      BY <1>1, <1>2, <2>1, <2>2, <2>3 DEF WaitSound, IsOpen
    <2>4. ASSUME q \in waiting'
          PROVE  /\ IsOpen(SenderOf(q))' /\ CancelOf(q) \notin up'
                 /\ op[q] = "translation" => session'[SenderOf(q)] = session[SenderOf(q)]
      <3>1. IsOpen(SenderOf(q)) /\ CancelOf(q) \notin up
        BY <2>1, <2>4 DEF WaitSound
      <3> QED
        BY <1>1, <2>4, <3>1 DEF IsOpen
    <2> QED
      BY <1>1, <2>1, <2>3, <2>4 DEF WaitSound, WindowFrame, setting, lifecycles, history, RequestOf, CancelOf, IsOpen
  <1>5. ASSUME NEW t \in Sender PROVE WindowSound(t)'
    <2>1. WindowSound(t)
      BY DEF Kept, WindowsSound
    <2>2. IsOpen(t)' => IsOpen(t) /\ session'[t] >= session[t]
      BY <1>2 DEF IsOpen
    <2>3. accepted' = accepted /\ closed' = closed
      BY DEF WindowFrame, lifecycles
    <2>4. accepted[t] # None => accepted[t] \in Nat
      BY RequestAssumption DEF TypeOK, LifecycleType
    <2> QED
      BY <1>2, <2>1, <2>2, <2>3, <2>4 DEF WindowSound, IsOpen
  <1>6. ASSUME NEW q \in waiting', op'[q] = "translation", SenderOf(q)' \notin lapsed' PROVE InHand(q)'
    <2>1. q \in Request /\ InHand(q)
      BY <1>1, <1>6 DEF Kept, WaitingIsInHand, WindowFrame, setting, history, TypeOK, WindowType
    <2> QED
      BY <1>6, <2>1 DEF InHand, WindowFrame, lifecycles, running, RequestOf, Idle
  <1> QED
    BY <1>3, <1>4, <1>5, <1>6, WindowFrameKeeps DEF Kept, Begun, WindowsSound, WaitingIsInHand

LEMMA WindowStepKeeps ==
    ASSUME TypeOK, Kept,
           \/ \E r \in Request : Issue(r) \/ WindowCancels(r)
           \/ \E s \in Sender : NewSession(s) \/ WindowCloses(s)
    PROVE  Kept'
  <1>0. session \in [Sender -> Nat] /\ session \in [Sender -> 0 .. MaxSession] /\ waiting \subseteq Request
    BY RequestAssumption DEF TypeOK, WindowType
  <1>1. ASSUME NEW R \in SUBSET Request, R \subseteq waiting, Withdraw(R)
        PROVE  /\ waiting' \subseteq waiting
               /\ \A q \in Request : RequestOf(q) \in up' => RequestOf(q) \in up
               /\ \A q \in Request : CancelOf(q) \in up' => CancelOf(q) \in up \/ (q \in waiting /\ q \notin waiting')
               /\ \A q \in waiting' : RequestOf(q) \in up => RequestOf(q) \in up'
               /\ \A t \in Sender : <<"close", t>> \in up' => <<"close", t>> \in up
    BY <1>1 DEF Withdraw, RequestOf, CancelOf
  <1>2. ASSUME NEW r \in Request, WindowCancels(r) PROVE Kept'
    <2>1. PICK s \in Sender : s = SenderOf(r)
      BY SenderOfType DEF TypeOK
    <2>2. {r} \in SUBSET Request /\ {r} \subseteq waiting /\ Withdraw({r}) /\ WindowFrame
          /\ frozen' = frozen /\ session' = session
      BY <1>2 DEF WindowCancels, WindowFrame
    <2>3. IsOpen(s) /\ IsOpen(s)'
      BY <1>2, <2>1, <2>2 DEF Kept, WindowsSound, WaitSound, IsOpen
    <2> QED
      BY <1>0, <1>1, <2>2, <2>3, WithdrawKeeps
  <1>3. ASSUME NEW s \in Sender, NewSession(s) PROVE Kept'
    <2> DEFINE R == waiting \cap Of(s, "translation")
    <2>1. R \in SUBSET Request /\ R \subseteq waiting /\ Withdraw(R) /\ WindowFrame /\ frozen' = frozen
          /\ session' = [session EXCEPT ![s] = @ + 1] /\ IsOpen(s) /\ session[s] < MaxSession
      BY <1>0, <1>3 DEF NewSession, WindowFrame
    <2>2. /\ session'[s] = session[s] + 1 /\ \A t \in Sender : t # s => session'[t] = session[t]
          /\ session' \in [Sender -> 0 .. MaxSession]
      BY <1>0, <2>1, RequestAssumption
    <2>3. \A q \in waiting' : SenderOf(q) = s => op[q] # "translation"
      BY <1>0, <2>1 DEF Withdraw, Of
    <2>4. IsOpen(s)' /\ session'[s] >= session[s]
      BY <1>0, <2>2 DEF IsOpen
    <2> HIDE DEF R
    <2> QED
      BY <1>0, <1>1, <2>1, <2>2, <2>3, <2>4, WithdrawKeeps
  <1>4. ASSUME NEW s \in Sender, WindowCloses(s) PROVE Kept'
    <2>1. /\ session' = [session EXCEPT ![s] = 0] /\ waiting' = {r \in waiting : SenderOf(r) # s}
          /\ up' = up \cup {<<"close", s>>} /\ WindowFrame /\ frozen' = frozen
      BY <1>4 DEF WindowCloses, WindowFrame
    <2>2. /\ session'[s] = 0 /\ \A t \in Sender : t # s => session'[t] = session[t]
          /\ session' \in [Sender -> 0 .. MaxSession]
      BY <1>0, <2>1, RequestAssumption
    <2>3. /\ \A q \in Request : RequestOf(q) \in up' <=> RequestOf(q) \in up
          /\ \A q \in Request : CancelOf(q) \in up' <=> CancelOf(q) \in up
          /\ \A t \in Sender : <<"close", t>> \in up' => <<"close", t>> \in up \/ t = s
      BY <2>1 DEF RequestOf, CancelOf
    <2>4. ~IsOpen(s)'
      BY <2>2 DEF IsOpen
    <2>5. waiting' \subseteq waiting /\ \A q \in waiting' : SenderOf(q) # s
      BY <2>1
    <2> QED
      BY <1>0, <2>1, <2>2, <2>3, <2>4, <2>5, WithdrawKeeps
  <1>5. ASSUME NEW r \in Request, Issue(r) PROVE Kept'
    BY <1>5, IssueKeeps
  <1> QED
    BY <1>2, <1>3, <1>4, <1>5
-----------------------------------------------------------------------------
(* What stops requests keeps the invariant. *)

\* Who ends a request cancels the jobs it ran.
LEMMA InvalidateKeepsJobs ==
    ASSUME TypeOK, NoOrphanJob, NEW phases \in [Request -> Phase],
           NEW O \in SUBSET Request, NEW B \in SUBSET Request, InvalidateFrom(phases, O, B),
           UNCHANGED <<op, wire>>, \A q \in Request : ~Idle(wire[q]) => phases[q] = outer[q]
    PROVE  NoOrphanJob'
  <1> SUFFICES ASSUME NEW q \in Request, NEW k \in Wire, wire[q][k] = "posted", ~JobsActive(q)'
               PROVE  <<q, k>> \in told'
    BY DEF NoOrphanJob, Wire
  <1>1. /\ told \subseteq told'
        /\ \/ adapter[q] = "active" /\ adapter'[q] # "active"
           \/ op[q] \in {"models", "prefetch"} /\ outer[q] = "active" /\ phases[q] = "active" /\ outer'[q] # "active"
           => <<q, k>> \in told'
    BY InvalidateEffect DEF TypeOK, InFlight
  <1>2. CASE ~JobsActive(q)
    BY <1>1, <1>2 DEF NoOrphanJob
  <1>3. CASE JobsActive(q)
    <2>1. phases[q] = outer[q]
      BY DEF Idle, InFlight
    <2>2. op[q] \in Op
      BY DEF TypeOK, SettingType
    <2> QED
      BY <1>1, <1>3, <2>1, <2>2 DEF JobsActive, Op
  <1> QED
    BY <1>2, <1>3

\* What is active in a lifecycle may end there, and nothing else changes.
LEMMA InvalidatePhases ==
    ASSUME TypeOK, NEW O \in SUBSET Request, NEW B \in SUBSET Request, Invalidate(O, B)
    PROVE  /\ outer \in [Request -> Phase]
           /\ \A q \in Request :
                /\ outer'[q] = IF q \in O /\ outer[q] = "active" THEN "ended" ELSE outer[q]
                /\ broker'[q] = broker[q] \/ (broker[q] = "active" /\ broker'[q] = "ended")
                /\ q \in B /\ broker[q] = "active" => broker'[q] = "ended"
  <1>1. outer \in [Request -> Phase] /\ InvalidateFrom(outer, O, B)
    BY DEF TypeOK, LifecycleType, Invalidate
  <1>2. ASSUME NEW phases \in [Request -> Phase], InvalidateFrom(phases, O, B), NEW q \in Request
        PROVE  /\ outer'[q] = IF q \in O /\ outer[q] = "active" /\ phases[q] = "active"
                              THEN "ended" ELSE phases[q]
               /\ broker'[q] = IF /\ broker[q] = "active"
                                  /\ \/ q \in B
                                     \/ q \in O /\ outer[q] = "active" /\ op[q] = "translation"
                               THEN "ended" ELSE broker[q]
    BY <1>2, InvalidateOne
  <1>3. ASSUME NEW q \in Request
        PROVE  /\ outer'[q] = IF q \in O /\ outer[q] = "active" THEN "ended" ELSE outer[q]
               /\ broker'[q] = broker[q] \/ (broker[q] = "active" /\ broker'[q] = "ended")
               /\ q \in B /\ broker[q] = "active" => broker'[q] = "ended"
    BY <1>1, <1>2
  <1> QED
    BY <1>1, <1>3

LEMMA StopKeeps ==
    ASSUME TypeOK, Kept, NEW O \in SUBSET Request, NEW B \in SUBSET Request, Invalidate(O, B),
           UNCHANGED <<kind, op, session, frozen, at, wire>>,
           waiting' \subseteq waiting, up' \subseteq up,
           \A q \in Request : RequestOf(q) \in up => RequestOf(q) \in up',
           \A q \in seen' : q \in seen \/ CancelOf(q) \in up,
           \A q \in seen : q \in seen' \/ SenderOf(q) \in closed',
           closed \subseteq closed', \A t \in closed' : t \in closed \/ <<"close", t>> \in up,
           \A t \in Sender : accepted'[t] = accepted[t]
                             \/ (accepted'[t] = None /\ (~IsOpen(t) \/ t \in lapsed')),
           lapsed \subseteq lapsed',
           \A q \in O \cap waiting' : op[q] # "translation" \/ SenderOf(q) \in lapsed',
           \A q \in ended' :
               \/ q \in ended
               \/ q \in Request /\ q \in O /\ outer[q] # "new"
               \/ q \in Request /\ q \in B /\ broker[q] = "active"
               \/ q \in Request /\ q \in O /\ op[q] # "prefetch" /\ (q \in seen' \/ SenderOf(q) \in closed'),
           \A q \in Request : answer'[q] # None => answer[q] # None \/ (q \in O /\ outer[q] = "active"),
           CatalogIsCurrent'
    PROVE  Kept'
  <1>1. /\ outer \in [Request -> Phase]
        /\ \A q \in Request :
             /\ outer'[q] = IF q \in O /\ outer[q] = "active" THEN "ended" ELSE outer[q]
             /\ broker'[q] = broker[q] \/ (broker[q] = "active" /\ broker'[q] = "ended")
             /\ q \in B /\ broker[q] = "active" => broker'[q] = "ended"
    BY InvalidatePhases
  <1>2. \A q \in Request : SenderOf(q)' = SenderOf(q)
    BY DEF SenderOf
  <1>3. ASSUME NEW q \in Request PROVE BegunAt(q)'
    <2>1. BegunAt(q)
      BY DEF Kept, Begun
    <2>2. outer'[q] = "new" <=> outer[q] = "new"
      BY <1>1
    <2>3. broker'[q] = "new" <=> broker[q] = "new"
      BY <1>1
    <2>4. answer'[q] # None => outer'[q] = "ended"
      BY <1>1, <2>1 DEF BegunAt
    <2>5. frozen[q] = None => q \notin seen'
      BY <2>1 DEF BegunAt
    <2> QED
      BY <2>1, <2>2, <2>3, <2>4, <2>5 DEF BegunAt, RequestOf, CancelOf, Idle
  <1>4. ASSUME NEW q \in ended' PROVE Over(q)'
    <2>1. CASE q \in ended
      <3>1. q \in Request /\ Over(q)
        BY <2>1 DEF Kept, StoppedIsOver, TypeOK, HistoryType
      <3> QED
        BY <1>1, <1>2, <3>1 DEF Over, IsRefused
    <2>2. CASE q \notin ended
      <3>1. q \in Request /\ outer[q] \in Phase
        BY <1>1, <1>4, <2>2
      <3> QED
        BY <1>1, <1>2, <1>4, <2>2, <3>1 DEF Over, IsRefused, Phase
    <2> QED
      BY <2>1, <2>2
  <1>5. ASSUME NEW q \in Request PROVE WaitSound(q)'
    <2>1. WaitSound(q)
      BY DEF Kept, WindowsSound
    <2>2. SenderOf(q) \in Sender
      BY SenderOfType DEF TypeOK
    <2>3. outer'[q] = "active" => outer[q] = "active"
      BY <1>1
    <2>4. ASSUME q \in waiting'
          PROVE  /\ IsOpen(SenderOf(q)) /\ CancelOf(q) \notin up'
                 /\ op[q] = "translation" => frozen[q].session = session[SenderOf(q)]
                 /\ RequestOf(q) \in up' => q \notin seen'
                 /\ op[q] = "translation" /\ outer'[q] = "active" /\ SenderOf(q) \notin lapsed' =>
                      accepted'[SenderOf(q)] = session[SenderOf(q)]
      BY <2>1, <2>2, <2>3, <2>4 DEF WaitSound
    <2> QED
      BY <1>2, <2>1, <2>4 DEF WaitSound, IsOpen, RequestOf, CancelOf
  <1>6. ASSUME NEW t \in Sender PROVE WindowSound(t)'
    BY DEF Kept, WindowsSound, WindowSound, IsOpen
  <1>7. NoOrphanJob'
    BY InvalidateKeepsJobs DEF Kept, Invalidate, TypeOK, LifecycleType
  <1>8. ASSUME NEW q \in waiting', op'[q] = "translation", SenderOf(q)' \notin lapsed' PROVE InHand(q)'
    <2>1. q \in Request /\ InHand(q) /\ q \notin O
      BY <1>2, <1>8 DEF Kept, WaitingIsInHand, TypeOK, WindowType
    <2> QED
      BY <1>1, <2>1 DEF InHand, RequestOf, Idle
  <1> QED
    BY <1>3, <1>4, <1>5, <1>6, <1>7, <1>8 DEF Kept, Begun, StoppedIsOver, WindowsSound, WaitingIsInHand

LEMMA StopStepKeeps ==
    ASSUME TypeOK, Kept,
           \/ \E r \in Request : ReceiveCancel(r)
           \/ \E s \in Sender : ReceiveClose(s) \/ Expire(s)
    PROVE  Kept'
  <1>0. ended \subseteq Request /\ seen \subseteq Request
    BY DEF TypeOK, HistoryType, LifecycleType
  <1>1. ASSUME NEW r \in Request, ReceiveCancel(r) PROVE Kept'
    <2>1. /\ CancelOf(r) \in up /\ up' = up \ {CancelOf(r)} /\ Invalidate({r}, {r})
          /\ seen' = IF SenderOf(r) \in closed THEN seen ELSE seen \cup {r}
          /\ ended' = ended \cup {r}
          /\ UNCHANGED <<kind, op, session, frozen, at, wire, waiting, accepted, closed, lapsed, answer,
                         catalog, clearing, revision, epoch>>
      BY <1>1 DEF ReceiveCancel, setting, window, authority, caches, running, CancelOf
    <2>2. op[r] # "prefetch" /\ r \notin waiting
      BY <2>1 DEF Kept, Begun, BegunAt, WindowsSound, WaitSound
    <2>3. \A q \in Request : RequestOf(q) \in up => RequestOf(q) \in up'
      BY <2>1 DEF RequestOf, CancelOf
    <2>4. CatalogIsCurrent'
      BY <2>1 DEF Kept, CatalogIsCurrent
    <2>5. {r} \in SUBSET Request /\ (r \in seen' \/ SenderOf(r) \in closed')
      BY <2>1
    <2> QED
      BY <1>0, <2>1, <2>2, <2>3, <2>4, <2>5, StopKeeps
  <1>2. ASSUME NEW s \in Sender, Release(s)
        PROVE  /\ From(s) \in SUBSET Request /\ Invalidate(From(s), From(s))
               /\ \A t \in Sender : accepted'[t] = accepted[t] \/ (accepted'[t] = None /\ t = s)
               /\ \A q \in ended' : q \in ended \/ (q \in Request /\ q \in From(s) /\ outer[q] # "new")
    <2>1. ended' = ended \cup {r \in From(s) : at[r] \notin {"new", "over"}}
      BY <1>2 DEF Release
    <2> QED
      BY <1>2, <2>1 DEF Release, From, Kept, Begun, BegunAt, TypeOK, LifecycleType
  <1>3. ASSUME NEW s \in Sender, ReceiveClose(s) PROVE Kept'
    <2>1. /\ <<"close", s>> \in up /\ up' = up \ {<<"close", s>>} /\ Release(s)
          /\ closed' = closed \cup {s} /\ seen' = seen \ From(s)
          /\ UNCHANGED <<kind, op, session, frozen, at, wire, waiting, lapsed, answer,
                         catalog, clearing, revision, epoch>>
      BY <1>3 DEF ReceiveClose, setting, window, authority, caches, running
    <2>2. ~IsOpen(s) /\ \A q \in waiting : SenderOf(q) # s
      BY <2>1 DEF Kept, WindowsSound, WindowSound, WaitSound, TypeOK, WindowType
    <2>3. \A q \in From(s) : SenderOf(q) = s
      BY DEF From
    <2>4. \A q \in Request : RequestOf(q) \in up => RequestOf(q) \in up'
      BY <2>1 DEF RequestOf
    <2>5. CatalogIsCurrent'
      BY <2>1 DEF Kept, CatalogIsCurrent
    <2> QED
      BY <1>0, <1>2, <2>1, <2>2, <2>3, <2>4, <2>5, StopKeeps
  <1>4. ASSUME NEW s \in Sender, Expire(s) PROVE Kept'
    <2>1. /\ Release(s) /\ lapsed' = lapsed \cup {s}
          /\ UNCHANGED <<kind, op, session, frozen, at, wire, waiting, up, seen, closed, answer,
                         catalog, clearing, revision, epoch>>
      BY <1>4 DEF Expire, setting, window, authority, caches, running
    <2>2. \A q \in From(s) : SenderOf(q) = s
      BY DEF From
    <2>3. CatalogIsCurrent'
      BY <2>1 DEF Kept, CatalogIsCurrent
    <2> QED
      BY <1>0, <1>2, <2>1, <2>2, <2>3, StopKeeps
  <1> QED
    BY <1>1, <1>3, <1>4

\* A change of the profile stops the tests and the lists, and lets the attempts
\* be: their handlers find out.
LEMMA ProfileChangeKeeps ==
    ASSUME TypeOK, Kept, InvalidateProfile(Request),
           UNCHANGED <<kind, op, session, frozen, at, wire, up, seen, closed, accepted, lapsed>>,
           CatalogIsCurrent'
    PROVE  Kept'
  <1> DEFINE tests == {r \in Tests : outer[r] = "active"}
             lists == {r \in Lists : outer[r] = "active"}
             O == tests \cup lists
  <1>1. /\ Invalidate(O, Request)
        /\ answer' = [r \in Request |-> IF r \in tests THEN "error" ELSE answer[r]]
        /\ waiting' = waiting \ tests
        /\ ended' = ended \cup tests \cup lists \cup {r \in Request : broker[r] = "active"}
    BY DEF InvalidateProfile
  <1>2. O \in SUBSET Request /\ Request \in SUBSET Request
    BY DEF Tests, Lists
  <1>3. \A q \in O : op[q] # "translation" /\ outer[q] = "active" /\ outer[q] # "new" /\ q \in Request
    BY DEF Tests, Lists
  <1>4. /\ \A q \in ended' : q \in ended \/ q \in O \/ (q \in Request /\ broker[q] = "active")
        /\ \A q \in Request : answer'[q] # None => answer[q] # None \/ q \in O
        /\ waiting' \subseteq waiting
    BY <1>1, <1>2
  <1> HIDE DEF tests, lists, O
  <1> QED
    BY <1>1, <1>2, <1>3, <1>4, StopKeeps

\* What leaves every request, window and job alone.
LEMMA QuietKeeps ==
    ASSUME TypeOK, Kept, UNCHANGED <<setting, window, up, lifecycles, answer, wire, ended, lapsed>>,
           at' = at \/ at' = [r \in Request |-> IF at[r] = "provider" THEN "rejected" ELSE at[r]],
           CatalogIsCurrent'
    PROVE  Kept'
  <1>1. \A q \in Request : SenderOf(q)' = SenderOf(q)
    BY DEF SenderOf, setting
  <1>2. \A q \in Request : at'[q] = at[q] \/ (at[q] = "provider" /\ at'[q] = "rejected")
    BY DEF TypeOK, RunningType
  <1>3. ASSUME NEW q \in Request PROVE BegunAt(q)'
    <2>1. BegunAt(q)
      BY DEF Kept, Begun
    <2> QED
      BY <1>2, <2>1 DEF BegunAt, setting, window, lifecycles, RequestOf, CancelOf, Idle
  <1>4. ASSUME NEW q \in ended' PROVE Over(q)'
    BY <1>1 DEF Kept, StoppedIsOver, Over, IsRefused, setting, lifecycles, TypeOK, HistoryType
  <1>5. ASSUME NEW q \in Request PROVE WaitSound(q)'
    BY <1>1 DEF Kept, WindowsSound, WaitSound, IsOpen, setting, window, lifecycles, RequestOf, CancelOf
  <1>6. ASSUME NEW t \in Sender PROVE WindowSound(t)'
    BY DEF Kept, WindowsSound, WindowSound, IsOpen, window, lifecycles
  <1>7. NoOrphanJob'
    BY DEF Kept, NoOrphanJob, JobsActive, Wire, setting, lifecycles
  <1>8. ASSUME NEW q \in waiting', op'[q] = "translation", SenderOf(q)' \notin lapsed' PROVE InHand(q)'
    <2>1. q \in Request /\ InHand(q)
      BY <1>1, <1>8 DEF Kept, WaitingIsInHand, setting, window, TypeOK, WindowType
    <2> QED
      BY <1>2, <2>1 DEF InHand, lifecycles, Idle
  <1> QED
    BY <1>3, <1>4, <1>5, <1>6, <1>7, <1>8 DEF Kept, Begun, StoppedIsOver, WindowsSound, WaitingIsInHand

LEMMA AuthorityStepKeeps ==
    ASSUME TypeOK, Kept,
           \/ RestoreProfiles \/ BeginCommit \/ FailCommit \/ SetActivation \/ ChangeProfile
           \/ ReconcileProfiles \/ ClearCaches
    PROVE  Kept'
  <1>1. CASE RestoreProfiles \/ BeginCommit \/ FailCommit
    <2>1. UNCHANGED <<setting, window, up, lifecycles, at, answer, wire, ended, lapsed>>
      BY <1>1 DEF RestoreProfiles, BeginCommit, FailCommit, running, history
    <2>2. CatalogIsCurrent'
      BY <1>1 DEF RestoreProfiles, BeginCommit, FailCommit, authority, caches, Kept, CatalogIsCurrent
    <2> QED
      BY <2>1, <2>2, QuietKeeps
  <1>2. CASE SetActivation
    <2>1. /\ Invalidate({}, Request) /\ ended' = ended \cup {r \in Request : broker[r] = "active"}
          /\ UNCHANGED <<kind, op, session, frozen, at, wire, waiting, up, seen, closed, accepted, lapsed, answer,
                         catalog, clearing, revision, epoch>>
      BY <1>2 DEF SetActivation, setting, window, caches, running
    <2>2. {} \in SUBSET Request /\ Request \in SUBSET Request
      OBVIOUS
    <2>3. CatalogIsCurrent'
      BY <2>1 DEF Kept, CatalogIsCurrent
    <2> QED
      BY <2>1, <2>2, <2>3, StopKeeps
  <1>3. CASE ChangeProfile
    <2>1. /\ InvalidateProfile(Request) /\ clearing' = TRUE
          /\ UNCHANGED <<kind, op, session, frozen, at, wire, up, seen, closed, accepted, lapsed>>
      BY <1>3 DEF ChangeProfile, setting
    <2> QED
      BY <2>1, ProfileChangeKeeps DEF CatalogIsCurrent
  <1>4. CASE ReconcileProfiles
    <2>1. /\ InvalidateProfile(Request) /\ catalog' = None
          /\ UNCHANGED <<kind, op, session, frozen, at, wire, up, seen, closed, accepted, lapsed>>
      BY <1>4 DEF ReconcileProfiles, setting
    <2> QED
      BY <2>1, ProfileChangeKeeps DEF CatalogIsCurrent
  <1>5. CASE ClearCaches
    <2>1. UNCHANGED <<setting, window, up, lifecycles, answer, wire, ended, lapsed>> /\ catalog' = None
          /\ at' = [r \in Request |-> IF at[r] = "provider" THEN "rejected" ELSE at[r]]
      BY <1>5 DEF ClearCaches, history
    <2> QED
      BY <2>1, QuietKeeps DEF CatalogIsCurrent
  <1> QED
    BY <1>1, <1>2, <1>3, <1>4, <1>5
-----------------------------------------------------------------------------
(* A request that comes keeps the invariant. *)

LEMMA RefuseKeeps ==
    ASSUME TypeOK, Kept, NEW r \in Request, Receive(r), Refuse(r)
    PROVE  Kept'
  <1>1. /\ RequestOf(r) \in up /\ up' = up \ {RequestOf(r)}
        /\ IsOfOldSession(r) \/ IsRefused(r)
        /\ at' = [at EXCEPT ![r] = "over"]
        /\ UNCHANGED <<setting, window, authority, caches, lifecycles, wire, again, answer, history>>
    BY DEF Receive, Refuse, RequestOf
  <1>2. \A q \in Request : SenderOf(q)' = SenderOf(q) /\ SenderOf(q) \in Sender
    BY <1>1, SenderOfType DEF SenderOf, setting, TypeOK
  <1>3. /\ \A q \in Request : at'[q] = IF q = r THEN "over" ELSE at[q]
        /\ \A q \in Request : CancelOf(q) \in up' <=> CancelOf(q) \in up
        /\ \A q \in Request : RequestOf(q) \in up' <=> RequestOf(q) \in up /\ q # r
        /\ \A t \in Sender : <<"close", t>> \in up' <=> <<"close", t>> \in up
    BY <1>1 DEF TypeOK, RunningType, RequestOf, CancelOf
  <1>4. at[r] = "new" /\ op[r] # "prefetch"
    BY <1>1 DEF Kept, Begun, BegunAt
  <1>5. ASSUME NEW q \in Request PROVE BegunAt(q)'
    <2>1. BegunAt(q)
      BY DEF Kept, Begun
    <2>2. CASE q = r
      <3>1. outer[r] = "new" /\ Idle(wire[r]) /\ frozen[r] # None /\ broker[r] = "new"
        BY <1>1, <1>4, <2>1, <2>2 DEF BegunAt
      <3> QED
        BY <1>1, <1>3, <1>4, <2>1, <2>2, <3>1 DEF BegunAt, setting, window, lifecycles, RequestOf, CancelOf, Idle
    <2>3. CASE q # r
      BY <1>1, <1>3, <2>1, <2>3 DEF BegunAt, setting, window, lifecycles, RequestOf, CancelOf, Idle
    <2> QED
      BY <2>2, <2>3
  <1>6. ASSUME NEW q \in ended' PROVE Over(q)'
    BY <1>1, <1>2 DEF Kept, StoppedIsOver, Over, IsRefused, setting, lifecycles, history, TypeOK, HistoryType
  <1>7. ASSUME NEW q \in Request PROVE WaitSound(q)'
    BY <1>1, <1>2, <1>3 DEF Kept, WindowsSound, WaitSound, IsOpen, setting, window, lifecycles, history,
                            RequestOf, CancelOf
  <1>8. ASSUME NEW t \in Sender PROVE WindowSound(t)'
    BY <1>1, <1>3 DEF Kept, WindowsSound, WindowSound, IsOpen, window, lifecycles
  <1>9. NoOrphanJob' /\ CatalogIsCurrent'
    BY <1>1 DEF Kept, NoOrphanJob, JobsActive, Wire, CatalogIsCurrent, setting, authority, caches, lifecycles
  <1>10. ASSUME NEW q \in waiting', op'[q] = "translation", SenderOf(q)' \notin lapsed' PROVE InHand(q)'
    <2>1. q \in Request /\ q \in waiting /\ op[q] = "translation" /\ InHand(q)
      BY <1>1, <1>2, <1>10 DEF Kept, WaitingIsInHand, setting, window, history, TypeOK, WindowType
    <2>2. q # r
      <3>1. SUFFICES ASSUME q = r PROVE FALSE
        OBVIOUS
      <3>2. WaitSound(r) /\ WindowSound(SenderOf(r))
        BY <1>2 DEF Kept, WindowsSound
      <3>3. IsOpen(SenderOf(r)) /\ frozen[r].session = session[SenderOf(r)] /\ r \notin seen
        BY <1>1, <2>1, <3>1, <3>2 DEF WaitSound
      <3>4. ~IsRefused(r)
        BY <3>2, <3>3 DEF WindowSound, IsRefused
      <3>5. ~IsOfOldSession(r)
        <4>1. session[SenderOf(r)] \in Nat
          BY <1>2, RequestAssumption DEF TypeOK, WindowType
        <4>2. accepted[SenderOf(r)] # None => accepted[SenderOf(r)] \in Nat
          BY <1>2, RequestAssumption DEF TypeOK, LifecycleType
        <4> QED
          BY <3>2, <3>3, <4>1, <4>2 DEF WindowSound, IsOfOldSession
      <3> QED
        BY <1>1, <3>4, <3>5
    <2> QED
      BY <1>1, <1>3, <2>1, <2>2 DEF InHand, lifecycles, RequestOf, Idle
  <1> QED
    BY <1>5, <1>6, <1>7, <1>8, <1>9, <1>10 DEF Kept, Begun, StoppedIsOver, WindowsSound, WaitingIsInHand

LEMMA PrefetchKeeps ==
    ASSUME TypeOK, Kept, NEW r \in Request, Prefetch(r)
    PROVE  Kept'
  <1> DEFINE basis == [session |-> 1, revision |-> revision, generation |-> generation, epoch |-> epoch]
  <1>1. /\ op[r] = "prefetch" /\ at[r] = "new" /\ frozen' = [frozen EXCEPT ![r] = basis]
        /\ outer' = [outer EXCEPT ![r] = "active"] /\ seen' = seen \cup {r}
        /\ at' = [at EXCEPT ![r] = "wires"] /\ wire' = [wire EXCEPT ![r] = FirstWires(r)]
        /\ UNCHANGED <<setting, session, waiting, up, authority, caches, accepted, closed, broker,
                       adapter, told, answer, history>>
    BY DEF Prefetch
  <1>2. basis \in Basis /\ basis # None /\ basis.session = 1
    <2>1. basis \in Basis
      BY RequestAssumption DEF Basis, TypeOK, AuthorityType
    <2> QED
      BY <2>1, RequestAssumption
  <1> HIDE DEF basis
  <1>3. /\ frozen'[r] = basis /\ outer'[r] = "active" /\ at'[r] = "wires" /\ wire'[r] = FirstWires(r)
        /\ \A q \in Request : q # r => frozen'[q] = frozen[q] /\ outer'[q] = outer[q]
                                       /\ at'[q] = at[q] /\ wire'[q] = wire[q]
    BY <1>1 DEF TypeOK, WindowType, LifecycleType, RunningType
  <1>4. \A q \in Request : SenderOf(q)' = SenderOf(q) /\ SenderOf(q) \in Sender
    BY <1>1, SenderOfType DEF SenderOf, setting, TypeOK
  <1>5. /\ outer[r] = "new" /\ broker[r] = "new" /\ RequestOf(r) \notin up /\ CancelOf(r) \notin up
        /\ r \notin waiting /\ answer[r] = None
    BY <1>1 DEF Kept, Begun, BegunAt
  <1>6. r \notin ended
    BY <1>1, <1>5 DEF Kept, StoppedIsOver, Over
  <1>7. ASSUME NEW q \in Request PROVE BegunAt(q)'
    <2>1. BegunAt(q)
      BY DEF Kept, Begun
    <2>2. CASE q = r
      BY <1>1, <1>2, <1>3, <1>5, <2>2 DEF BegunAt, setting, RequestOf, CancelOf
    <2>3. CASE q # r
      BY <1>1, <1>3, <2>1, <2>3 DEF BegunAt, setting, RequestOf, CancelOf, Idle
    <2> QED
      BY <2>2, <2>3
  <1>8. ASSUME NEW q \in ended' PROVE Over(q)'
    <2>1. q \in Request /\ q # r /\ Over(q)
      BY <1>1, <1>6 DEF Kept, StoppedIsOver, TypeOK, HistoryType, history
    <2> QED
      BY <1>1, <1>3, <1>4, <2>1 DEF Over, IsRefused, setting
  <1>9. ASSUME NEW q \in Request PROVE WaitSound(q)'
    <2>1. WaitSound(q)
      BY DEF Kept, WindowsSound
    <2>2. session[SenderOf(q)] \in Nat
      BY <1>4, RequestAssumption DEF TypeOK, WindowType
    <2>3. CASE q = r
      BY <1>1, <1>2, <1>3, <1>4, <1>5, <2>2, <2>3 DEF WaitSound, IsOpen
    <2>4. CASE q # r
      BY <1>1, <1>3, <1>4, <2>1, <2>4 DEF WaitSound, IsOpen, setting, history, RequestOf, CancelOf
    <2> QED
      BY <2>3, <2>4
  <1>10. ASSUME NEW t \in Sender PROVE WindowSound(t)'
    BY <1>1 DEF Kept, WindowsSound, WindowSound, IsOpen
  <1>11. NoOrphanJob'
    <2> SUFFICES ASSUME NEW q \in Request, NEW k \in Wire, wire'[q][k] = "posted", ~JobsActive(q)'
                 PROVE  <<q, k>> \in told'
      BY DEF NoOrphanJob, Wire
    <2>1. q # r
      BY <1>3, FirstWiresEffect DEF TypeOK
    <2>2. wire[q][k] = "posted" /\ ~JobsActive(q)
      BY <1>1, <1>3, <2>1 DEF JobsActive, setting
    <2> QED
      BY <1>1, <2>2 DEF Kept, NoOrphanJob
  <1>12. CatalogIsCurrent'
    BY <1>1 DEF Kept, CatalogIsCurrent, authority, caches
  <1>13. ASSUME NEW q \in waiting', op'[q] = "translation", SenderOf(q)' \notin lapsed' PROVE InHand(q)'
    <2>1. q \in Request /\ q # r /\ InHand(q)
      BY <1>1, <1>4, <1>5, <1>13 DEF Kept, WaitingIsInHand, setting, history, TypeOK, WindowType
    <2> QED
      BY <1>1, <1>3, <2>1 DEF InHand, RequestOf, Idle
  <1> QED
    BY <1>7, <1>8, <1>9, <1>10, <1>11, <1>12, <1>13
       DEF Kept, Begun, StoppedIsOver, WindowsSound, WaitingIsInHand

\* What an accepted request changes: it is active, and those it replaces end.
LEMMA AcceptEffect ==
    ASSUME TypeOK, Kept, NEW r \in Request, Accept(r), at[r] = "new"
    PROVE  /\ r \notin ReplacedBy(r) /\ ReplacedBy(r) \subseteq Request /\ NoOrphanJob'
           /\ outer'[r] = "active" /\ broker'[r] = broker[r]
           /\ \A q \in Request : q # r =>
                /\ outer'[q] = IF q \in ReplacedBy(r) THEN "ended" ELSE outer[q]
                /\ broker'[q] = broker[q] \/ (broker[q] = "active" /\ broker'[q] = "ended")
  <1> DEFINE ph == [outer EXCEPT ![r] = "active"]
             R == ReplacedBy(r)
  <1>1. InvalidateFrom(ph, R, {}) /\ UNCHANGED <<op, wire>>
    BY DEF Accept, setting
  <1>2. /\ ph \in [Request -> Phase] /\ ph[r] = "active"
        /\ \A q \in Request : q # r => ph[q] = outer[q]
    BY DEF TypeOK, LifecycleType, Phase
  <1>3. outer[r] = "new" /\ broker[r] = "new" /\ Idle(wire[r])
    BY DEF Kept, Begun, BegunAt
  <1>4. R \in SUBSET Request /\ r \notin R /\ \A q \in R : outer[q] = "active"
    BY <1>3 DEF ReplacedBy, Of
  <1>5. {} \in SUBSET Request
    OBVIOUS
  <1> HIDE DEF ph, R
  <1>6. ASSUME NEW phases \in [Request -> Phase], NEW O \in SUBSET Request, NEW B \in SUBSET Request,
               InvalidateFrom(phases, O, B), NEW q \in Request
        PROVE  /\ outer'[q] = IF q \in O /\ outer[q] = "active" /\ phases[q] = "active"
                              THEN "ended" ELSE phases[q]
               /\ broker'[q] = IF /\ broker[q] = "active"
                                  /\ \/ q \in B
                                     \/ q \in O /\ outer[q] = "active" /\ op[q] = "translation"
                               THEN "ended" ELSE broker[q]
    BY <1>6, InvalidateOne
  <1>7. NoOrphanJob'
    <2>1. \A q \in Request : ~Idle(wire[q]) => ph[q] = outer[q]
      BY <1>2, <1>3
    <2> QED
      BY <1>1, <1>2, <1>4, <1>5, <2>1, InvalidateKeepsJobs DEF Kept
  <1>8. outer'[r] = "active" /\ broker'[r] = broker[r]
    BY <1>1, <1>2, <1>3, <1>4, <1>5, <1>6
  <1>9. ASSUME NEW q \in Request, q # r
        PROVE  /\ outer'[q] = IF q \in R THEN "ended" ELSE outer[q]
               /\ broker'[q] = broker[q] \/ (broker[q] = "active" /\ broker'[q] = "ended")
    BY <1>1, <1>2, <1>4, <1>5, <1>6, <1>9
  <1> QED
    BY <1>4, <1>7, <1>8, <1>9 DEF R

\* A window is never made to wait for what a newer request of it has replaced.
LEMMA ReplacedIsOld ==
    ASSUME TypeOK, Kept, NEW r \in Request, Accept(r), RequestOf(r) \in up,
           NEW q \in waiting, op[q] = "translation", op[r] = "translation",
           SenderOf(q) = SenderOf(r), SenderOf(q) \notin lapsed, outer[q] = "active"
    PROVE  frozen[r].session = session[SenderOf(r)] /\ q \notin ReplacedBy(r)
  <1>1. q \in Request /\ SenderOf(r) \in Sender
    BY SenderOfType DEF TypeOK, WindowType
  <1>2. /\ accepted[SenderOf(r)] = session[SenderOf(r)] /\ frozen[q].session = session[SenderOf(r)]
        /\ IsOpen(SenderOf(r))
    BY <1>1 DEF Kept, WindowsSound, WaitSound
  <1>3. session[SenderOf(r)] \in Nat
    BY <1>1, RequestAssumption DEF TypeOK, WindowType
  <1>4. accepted[SenderOf(r)] # None
    BY <1>2, <1>3, RequestAssumption
  <1>5. frozen[r] # None
    BY DEF Kept, Begun, BegunAt
  <1>6. frozen[r].session \in Nat /\ frozen[r].session <= session[SenderOf(r)]
    BY <1>1, <1>2, <1>5, RequestAssumption DEF Kept, WindowsSound, WaitSound, TypeOK, WindowType, Basis
  <1>7. ~(frozen[r].session < accepted[SenderOf(r)])
    BY <1>4 DEF Accept, IsOfOldSession
  <1>8. frozen[r].session = session[SenderOf(r)]
    BY <1>2, <1>3, <1>6, <1>7
  <1> QED
    BY <1>2, <1>8 DEF ReplacedBy

LEMMA AcceptKeeps ==
    ASSUME TypeOK, Kept, NEW r \in Request, Receive(r), Accept(r)
    PROVE  Kept'
  <1> DEFINE s == SenderOf(r)
             R == ReplacedBy(r)
  <1>1. /\ RequestOf(r) \in up /\ up' = up \ {RequestOf(r)}
        /\ ~IsRefused(r) /\ ~IsOfOldSession(r)
        /\ frozen' = [frozen EXCEPT ![r].epoch = epoch]
        /\ accepted' = IF op[r] = "translation" THEN [accepted EXCEPT ![s] = frozen[r].session] ELSE accepted
        /\ seen' = seen \cup {r} /\ at' = [at EXCEPT ![r] = "ready"] /\ ended' = ended \cup R
        /\ UNCHANGED <<setting, session, waiting, authority, caches, closed, wire, answer, lapsed>>
    BY DEF Receive, Accept, RequestOf
  <1>2. at[r] = "new" /\ op[r] # "prefetch" /\ frozen[r] # None /\ outer[r] = "new" /\ broker[r] = "new"
        /\ Idle(wire[r]) /\ answer[r] = None
    BY <1>1 DEF Kept, Begun, BegunAt
  <1>3. /\ r \notin R /\ R \subseteq Request /\ NoOrphanJob'
        /\ outer'[r] = "active" /\ broker'[r] = broker[r]
        /\ \A q \in Request : q # r =>
             /\ outer'[q] = IF q \in R THEN "ended" ELSE outer[q]
             /\ broker'[q] = broker[q] \/ (broker[q] = "active" /\ broker'[q] = "ended")
    BY <1>2, AcceptEffect
  <1>4. \A q \in Request : SenderOf(q)' = SenderOf(q) /\ SenderOf(q) \in Sender
    BY <1>1, SenderOfType DEF SenderOf, setting, TypeOK
  <1>5. /\ \A q \in Request : at'[q] = IF q = r THEN "ready" ELSE at[q]
        /\ \A q \in Request : CancelOf(q) \in up' <=> CancelOf(q) \in up
        /\ \A q \in Request : RequestOf(q) \in up' <=> RequestOf(q) \in up /\ q # r
        /\ \A t \in Sender : <<"close", t>> \in up' <=> <<"close", t>> \in up
    BY <1>1 DEF TypeOK, RunningType, RequestOf, CancelOf
  <1>6. /\ \A q \in Request : q # r => frozen'[q] = frozen[q]
        /\ frozen'[r] # None /\ frozen'[r].session = frozen[r].session
    <2>1. frozen[r] \in Basis
      BY <1>2 DEF TypeOK, WindowType
    <2>2. frozen'[r] = [frozen[r] EXCEPT !.epoch = epoch]
      BY <1>1 DEF TypeOK, WindowType
    <2>3. frozen'[r] \in Basis /\ frozen'[r].session = frozen[r].session
      BY <2>1, <2>2 DEF Basis, TypeOK, AuthorityType
    <2>4. frozen'[r] # None
      BY <2>3, RequestAssumption
    <2>5. \A q \in Request : q # r => frozen'[q] = frozen[q]
      BY <1>1 DEF TypeOK, WindowType
    <2> QED
      BY <2>3, <2>4, <2>5
  <1>7. /\ op[r] = "translation" => accepted'[s] = frozen[r].session
        /\ \A t \in Sender : t # s \/ op[r] # "translation" => accepted'[t] = accepted[t]
    BY <1>1, <1>4 DEF TypeOK, LifecycleType
  <1> HIDE DEF R
  <1>8. ASSUME NEW q \in Request PROVE BegunAt(q)'
    <2>1. BegunAt(q)
      BY DEF Kept, Begun
    <2>2. CASE q = r
      BY <1>1, <1>2, <1>3, <1>5, <1>6, <2>1, <2>2 DEF BegunAt, setting, RequestOf, CancelOf, Idle
    <2>3. CASE q # r
      <3>1. /\ outer'[q] = outer[q] \/ (outer[q] # "new" /\ outer'[q] = "ended")
            /\ broker'[q] = "new" <=> broker[q] = "new"
        <4>1. \A p \in R : outer[p] = "active"
          BY DEF R, ReplacedBy
        <4> QED
          BY <1>3, <2>3, <4>1
      <3> QED
        BY <1>1, <1>5, <1>6, <2>1, <2>3, <3>1 DEF BegunAt, setting, RequestOf, CancelOf, Idle
    <2> QED
      BY <2>2, <2>3
  <1>9. ASSUME NEW q \in ended' PROVE Over(q)'
    <2>1. CASE q \in R
      BY <1>3, <2>1 DEF Over
    <2>2. CASE q \notin R
      <3>1. q \in Request /\ Over(q)
        BY <1>1, <1>9, <2>2 DEF Kept, StoppedIsOver, TypeOK, HistoryType
      <3>2. q # r
        BY <1>1, <1>2, <3>1 DEF Over
      <3> QED
        BY <1>1, <1>3, <1>4, <2>2, <3>1, <3>2 DEF Over, IsRefused, setting
    <2> QED
      BY <2>1, <2>2
  <1>10. ASSUME NEW t \in Sender PROVE WindowSound(t)'
    <2>1. WindowSound(t) /\ WaitSound(r)
      BY DEF Kept, WindowsSound
    <2>2. IsOpen(t)' <=> IsOpen(t)
      BY <1>1 DEF IsOpen
    <2>3. ASSUME IsOpen(t), accepted'[t] # None PROVE accepted'[t] <= session[t]
      BY <1>2, <1>7, <2>1, <2>3 DEF WindowSound, WaitSound
    <2> QED
      BY <1>1, <1>5, <2>1, <2>2, <2>3 DEF WindowSound
  <1>11. ASSUME NEW q \in Request PROVE WaitSound(q)'
    <2>1. WaitSound(q)
      BY DEF Kept, WindowsSound
    <2>2. frozen'[q].session = frozen[q].session /\ (frozen'[q] = None <=> frozen[q] = None)
      BY <1>2, <1>6
    <2>3. ASSUME q \in waiting, op[q] = "translation", outer'[q] = "active", SenderOf(q) \notin lapsed
          PROVE  accepted'[SenderOf(q)] = session[SenderOf(q)]
      <3>1. CASE q = r
        BY <1>7, <2>1, <2>3, <3>1 DEF WaitSound
      <3>2. CASE q # r
        <4>1. outer[q] = "active"
          BY <1>3, <2>3, <3>2
        <4>2. CASE op[r] = "translation" /\ SenderOf(q) = s
          <5>1. frozen[r].session = session[s]
            BY <1>1, <2>3, <4>1, <4>2, ReplacedIsOld
          <5> QED
            BY <1>7, <4>2, <5>1
        <4>3. CASE ~(op[r] = "translation" /\ SenderOf(q) = s)
          BY <1>4, <1>7, <2>1, <2>3, <4>1, <4>3 DEF WaitSound
        <4> QED
          BY <4>2, <4>3
      <3> QED
        BY <3>1, <3>2
    <2> QED
      BY <1>1, <1>4, <1>5, <2>1, <2>2, <2>3 DEF WaitSound, IsOpen, setting
  <1>12. CatalogIsCurrent'
    BY <1>1 DEF Kept, CatalogIsCurrent, authority, caches
  <1>13. ASSUME NEW q \in waiting', op'[q] = "translation", SenderOf(q)' \notin lapsed' PROVE InHand(q)'
    <2>1. q \in Request /\ q \in waiting /\ op[q] = "translation" /\ SenderOf(q) \notin lapsed /\ InHand(q)
      BY <1>1, <1>4, <1>13 DEF Kept, WaitingIsInHand, setting, TypeOK, WindowType
    <2>2. CASE q = r
      BY <1>3, <1>5, <2>2 DEF InHand
    <2>3. CASE q # r
      <3>1. ASSUME outer[q] = "active" PROVE q \notin R
        <4>1. CASE op[r] = "translation" /\ SenderOf(q) = SenderOf(r)
          BY <1>1, <2>1, <3>1, <4>1, ReplacedIsOld DEF R
        <4>2. CASE ~(op[r] = "translation" /\ SenderOf(q) = SenderOf(r))
          BY <2>1, <4>2 DEF R, ReplacedBy, Of
        <4> QED
          BY <4>1, <4>2
      <3>2. outer[q] = "active" => outer'[q] = "active"
        BY <1>3, <2>1, <2>3, <3>1
      <3> QED
        BY <1>1, <1>5, <2>1, <2>3, <3>2 DEF InHand, RequestOf, Idle
    <2> QED
      BY <2>2, <2>3
  <1> QED
    BY <1>3, <1>8, <1>9, <1>10, <1>11, <1>12, <1>13
       DEF Kept, Begun, StoppedIsOver, WindowsSound, WaitingIsInHand
-----------------------------------------------------------------------------
(* The invariant. *)

LEMMA InitInv == Init => RequestInv
  <1> SUFFICES ASSUME Init PROVE RequestInv
    OBVIOUS
  <1>1. SettingType
    BY RequestAssumption DEF Init, SettingType
  <1>2. WindowType
    BY RequestAssumption DEF Init, WindowType
  <1>3. AuthorityType
    BY DEF Init, AuthorityType
  <1>4. LifecycleType
    BY DEF Init, LifecycleType, Phase
  <1>5. RunningType
    BY DEF Init, RunningType, Stage, WireState
  <1>6. HistoryType
    BY DEF Init, HistoryType
  <1>7. Begun
    BY DEF Init, Begun, BegunAt, Idle, InFlight
  <1>8. WindowsSound
    BY DEF Init, WindowsSound, WindowSound, WaitSound
  <1>9. StoppedIsOver /\ NoOrphanJob /\ CatalogIsCurrent /\ WaitingIsInHand
    BY DEF Init, StoppedIsOver, NoOrphanJob, CatalogIsCurrent, WaitingIsInHand
  <1> QED
    BY <1>1, <1>2, <1>3, <1>4, <1>5, <1>6, <1>7, <1>8, <1>9 DEF RequestInv, TypeOK, Kept

LEMMA NextInv == RequestInv /\ [Next]_vars => RequestInv'
  <1> SUFFICES ASSUME TypeOK, Kept, [Next]_vars PROVE TypeOK' /\ Kept'
    BY DEF RequestInv
  <1>0. Begun
    BY DEF Kept
  <1>1. CASE UNCHANGED vars
    <2>1. UNCHANGED <<setting, window, up, lifecycles, at, answer, wire, ended, lapsed>>
      BY <1>1 DEF vars, running, history
    <2>2. CatalogIsCurrent'
      BY <1>1 DEF vars, authority, caches, Kept, CatalogIsCurrent
    <2>3. TypeOK'
      BY <1>1 DEF vars, setting, window, authority, caches, lifecycles, running, history, TypeOK,
                  SettingType, WindowType, AuthorityType, LifecycleType, RunningType, HistoryType
    <2> QED
      BY <2>1, <2>2, <2>3, QuietKeeps
  <1>2. CASE \/ \E r \in Request : Issue(r) \/ WindowCancels(r)
             \/ \E s \in Sender : NewSession(s) \/ WindowCloses(s)
    BY <1>2, WindowStepTypes, WindowStepKeeps
  <1>3. ASSUME NEW r \in Request, Receive(r) PROVE TypeOK' /\ Kept'
    BY <1>0, <1>3, RequestStepTypes, RefuseKeeps, AcceptKeeps DEF Receive
  <1>4. ASSUME NEW r \in Request, Prefetch(r) PROVE TypeOK' /\ Kept'
    BY <1>0, <1>4, RequestStepTypes, PrefetchKeeps
  <1>5. ASSUME NEW r \in Request,
               Enter(r) \/ Provided(r) \/ \E k \in Wire : Post(r, k) \/ NoHelper(r, k) \/ Reply(r, k)
        PROVE  TypeOK' /\ Kept'
    BY <1>0, <1>5, RequestStepTypes, RunStepKeeps
  <1>6. CASE \/ \E r \in Request : ReceiveCancel(r)
             \/ \E s \in Sender : ReceiveClose(s) \/ Expire(s)
    BY <1>6, StopStepTypes, StopStepKeeps
  <1>7. CASE \/ RestoreProfiles \/ BeginCommit \/ FailCommit \/ SetActivation \/ ChangeProfile
             \/ ReconcileProfiles \/ ClearCaches
    BY <1>7, AuthorityStepTypes, AuthorityStepKeeps
  <1> QED
    BY <1>1, <1>2, <1>3, <1>4, <1>5, <1>6, <1>7 DEF Next, Step

THEOREM RequestInvariant == Spec => []RequestInv
  BY InitInv, NextInv, PTL DEF Spec

\* Every variable of the windows, the lifecycles and the authority keeps its type.
THEOREM TypeCorrect == Spec => []TypeOK
  <1>1. RequestInv => TypeOK
    BY DEF RequestInv
  <1> QED
    BY <1>1, RequestInvariant, PTL

\* A job of the helper whose request is over was cancelled there.
THEOREM NoJobIsOrphaned == Spec => []NoOrphanJob
  <1>1. RequestInv => NoOrphanJob
    BY DEF RequestInv, Kept
  <1> QED
    BY <1>1, RequestInvariant, PTL

\* No model list of an older revision or credential outlives the clearing of the
\* caches.
THEOREM NoListIsStale == Spec => []CatalogIsCurrent
  <1>1. RequestInv => CatalogIsCurrent
    BY DEF RequestInv, Kept
  <1> QED
    BY <1>1, RequestInvariant, PTL

\* No window that the mailbox has not expired waits for an attempt that is neither
\* on its way nor in the hands of a lifecycle that will answer.
THEOREM NoAttemptIsDropped == Spec => []WaitingIsInHand
  <1>1. RequestInv => WaitingIsInHand
    BY DEF RequestInv, Kept
  <1> QED
    BY <1>1, RequestInvariant, PTL
-----------------------------------------------------------------------------
(* What a step may do for a request. *)

Wanted(r) ==
    /\ r \in ended => /\ answer'[r] \in {answer[r], "error"}
                      /\ \A k \in Wire : wire'[r][k] \in {"posted", "ok"} => wire'[r][k] = wire[r][k]
    /\ answer[r] # None => answer'[r] = answer[r]

\* A stopped request may not act: it has left a lifecycle that is asked.
LEMMA OverMayNotAct ==
    ASSUME TypeOK, Kept, NEW r \in ended
    PROVE  ~Allowed(r) /\ r \in Request /\ ~(outer[r] = "active" /\ (op[r] = "translation" => broker[r] = "active"))
  <1>1. r \in Request /\ Over(r) /\ BegunAt(r) /\ op[r] \in Op
    BY DEF Kept, StoppedIsOver, Begun, TypeOK, HistoryType, SettingType
  <1>2. ~(outer[r] = "active" /\ (op[r] = "translation" => broker[r] = "active"))
    BY <1>1 DEF Over, BegunAt
  <1> QED
    BY <1>1, <1>2 DEF Allowed, BrokerGuard, OuterGuard, Op

LEMMA RunStepWanted ==
    ASSUME TypeOK, Kept, NEW q \in Request, NEW r \in Request,
           Enter(q) \/ Provided(q) \/ \E k \in Wire : Post(q, k) \/ NoHelper(q, k) \/ Reply(q, k)
    PROVE  Wanted(r)
  <1>1. GoesOn(q) \/ Concludes(q) \/ Admits(q) \/ Opens(q)
    BY HandlerStep, WireStep
  <1>2. r \in ended => ~Allowed(r) /\ ~(outer[r] = "active" /\ (op[r] = "translation" => broker[r] = "active"))
    BY OverMayNotAct
  <1>3. answer[r] # None => outer[r] = "ended"
    BY DEF Kept, Begun, BegunAt
  <1>4. CASE GoesOn(q)
    BY <1>2, <1>4 DEF GoesOn, Wanted
  <1>5. CASE Concludes(q)
    <2>1. PICK reply \in {None, "result", "error"} :
            Finish(q, reply) /\ (reply = "result" => Allowed(q))
      BY <1>5 DEF Concludes
    <2>2. /\ answer'[r] = IF r = q /\ outer[q] = "active" /\ reply # None THEN reply ELSE answer[r]
          /\ r # q => wire'[r] = wire[r]
          /\ r = q => \A k \in Wire : wire'[r][k] = "none"
      BY <2>1, FinishEffect DEF TypeOK, WindowType
    <2> QED
      BY <1>2, <1>3, <2>1, <2>2 DEF Wanted
  <1>6. CASE Admits(q)
    BY <1>6 DEF Admits, Wanted
  <1>7. CASE Opens(q)
    <2>1. answer' = answer /\ wire' = [wire EXCEPT ![q] = FirstWires(q)]
          /\ outer[q] = "active" /\ (op[q] = "translation" => broker[q] = "active")
      BY <1>7 DEF Opens, OuterGuard
    <2>2. r # q => wire'[r] = wire[r]
      BY <2>1 DEF TypeOK, RunningType
    <2> QED
      BY <1>2, <2>1, <2>2 DEF Wanted
  <1> QED
    BY <1>1, <1>4, <1>5, <1>6, <1>7

LEMMA StepWanted ==
    ASSUME RequestInv, [Next]_vars, NEW r \in Request
    PROVE  Wanted(r)
  <1>0. TypeOK /\ Kept
    BY DEF RequestInv
  <1>1. CASE UNCHANGED <<wire, answer>>
    BY <1>1 DEF Wanted
  <1>2. ASSUME NEW q \in Request, Prefetch(q) PROVE Wanted(r)
    <2>1. answer' = answer /\ wire' = [wire EXCEPT ![q] = FirstWires(q)] /\ op[q] = "prefetch" /\ at[q] = "new"
      BY <1>2 DEF Prefetch
    <2>2. q \notin ended
      BY <1>0, <2>1 DEF Kept, StoppedIsOver, Over, Begun, BegunAt
    <2>3. r # q => wire'[r] = wire[r]
      BY <1>0, <2>1 DEF TypeOK, RunningType
    <2> QED
      BY <2>1, <2>2, <2>3 DEF Wanted
  <1>3. CASE ChangeProfile \/ ReconcileProfiles
    <2>1. wire' = wire /\ InvalidateProfile(Request)
      BY <1>3 DEF ChangeProfile, ReconcileProfiles
    <2>2. answer'[r] = IF r \in Tests /\ outer[r] = "active" THEN "error" ELSE answer[r]
      BY <2>1 DEF InvalidateProfile, Tests
    <2>3. answer[r] # None => outer[r] = "ended"
      BY <1>0 DEF Kept, Begun, BegunAt
    <2> QED
      BY <2>1, <2>2, <2>3 DEF Wanted
  <1>4. ASSUME NEW q \in Request,
               Enter(q) \/ Provided(q) \/ \E k \in Wire : Post(q, k) \/ NoHelper(q, k) \/ Reply(q, k)
        PROVE  Wanted(r)
    BY <1>0, <1>4, RunStepWanted
  <1>5. ASSUME NEW q \in Request, Issue(q) \/ WindowCancels(q) \/ Receive(q) \/ ReceiveCancel(q)
        PROVE  UNCHANGED <<wire, answer>>
    BY <1>5 DEF Issue, WindowCancels, Receive, Refuse, Accept, ReceiveCancel, running
  <1>6. ASSUME NEW s \in Sender, NewSession(s) \/ WindowCloses(s) \/ ReceiveClose(s) \/ Expire(s)
        PROVE  UNCHANGED <<wire, answer>>
    BY <1>6 DEF NewSession, WindowCloses, ReceiveClose, Expire, running
  <1>7. CASE RestoreProfiles \/ BeginCommit \/ FailCommit \/ SetActivation \/ ClearCaches
    <2>1. UNCHANGED <<wire, answer>>
      BY <1>7 DEF RestoreProfiles, BeginCommit, FailCommit, SetActivation, ClearCaches, running
    <2> QED
      BY <1>1, <2>1
  <1>8. CASE UNCHANGED vars
    <2>1. UNCHANGED <<wire, answer>>
      BY <1>8 DEF vars, running
    <2> QED
      BY <1>1, <2>1
  <1> QED
    BY <1>1, <1>2, <1>3, <1>4, <1>5, <1>6, <1>7, <1>8 DEF Next, Step

\* Once the global entry was told to stop a request, no wire of it is posted, no
\* reply of it is used and no result of it is told; a request is answered once.
THEOREM StoppedDoesNoWork == Spec => WorkIsWanted
  <1>1. RequestInv /\ [Next]_vars =>
          [\A r \in Request :
             /\ r \in ended => /\ answer'[r] \in {answer[r], "error"}
                               /\ \A k \in Wire : wire'[r][k] \in {"posted", "ok"} => wire'[r][k] = wire[r][k]
             /\ answer[r] # None => answer'[r] = answer[r]]_vars
    BY StepWanted DEF Wanted
  <1> QED
    BY <1>1, RequestInvariant, PTL DEF Spec, WorkIsWanted
=============================================================================
