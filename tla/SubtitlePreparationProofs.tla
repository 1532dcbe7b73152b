---------------------- MODULE SubtitlePreparationProofs ----------------------
(***************************************************************************)
(* For any tracks, files, attempts and faults: only the selected subtitle  *)
(* becomes the source, the sidebar is told the state of the coordinator,   *)
(* and while the helper answers in time its jobs do not overlap and leave  *)
(* nothing behind.                                                         *)
(*                                                                         *)
(* What an attempt has in the helper is known from its call (Kept).  That  *)
(* a job never meets another one follows from the barrier: an attempt that *)
(* is not wanted any more and works is being cancelled (InOrder), so one   *)
(* that starts when nothing is cancelled comes after those that work no    *)
(* more (Ordered).  The sidebar needs what is known of the loads that wait *)
(* for the coordinator: the last of them is the window's key (LoadsSound). *)
(***************************************************************************)
EXTENDS SubtitlePreparation, SequenceTheorems, TLAPS

Working == InHelper \cup {"reaching"}

\* How far an attempt is, and its call.
AttemptSound(a) ==
    /\ a.await = "barrier" => a.call = "none"
    /\ a.await = "race" => a.call \notin {"none", "over"}
    /\ a.release => a.call = "over"
Sound(as, n) == \A j \in 1 .. n : AttemptSound(as[j])

\* Results are those of calls that are not over, or are being released.
Kept(as, n, kept, done) ==
    /\ kept \subseteq 1 .. n /\ done \subseteq 1 .. n
    /\ \A j \in kept : as[j].call \in {"running", "stopping", "result"} \/ as[j].release
    /\ \A j \in done : as[j].call = "result" \/ as[j].release

\* While the helper answers in time: who works is wanted or being cancelled, and
\* nobody works when a later attempt has started.
InOrder(a, j, n) ==
    /\ ~a.replayed /\ a.call # "refused"
    /\ a.call = "unavailable" => ~(j = n /\ a.status = "preparing")
    /\ a.call \in Working /\ a.cancel = "none" => j = n /\ a.status = "preparing"
    /\ a.cancel \in {"posted", "stopping"} => a.call # "reaching"
Ordered(as, n) ==
    /\ \A j \in 1 .. n : InOrder(as[j], j, n)
    /\ \A i, j \in 1 .. n : i < j /\ as[j].call # "none" => as[i].call \notin Working
Unserved(as, n) == \A j \in 1 .. n : as[j].call \notin InHelper

Jobs(as, kept, done, held, lives, f) ==
    /\ as \in Seq(Attempt) /\ Sound(as, Len(as)) /\ Kept(as, Len(as), kept, done)
    /\ f = 0 => /\ held = lives
                /\ Ordered(as, Len(as))
                /\ held \/ Unserved(as, Len(as))

HelperInv ==
    /\ client \in BOOLEAN /\ alive \in BOOLEAN /\ faults \in 0 .. MaxFaults
    /\ Jobs(attempts, results, completed, client, alive, faults)

OwnerTypes ==
    /\ selected \in Track \cup {None} /\ mediaEpoch \in 0 .. MaxEpoch /\ enabled \in BOOLEAN
    /\ key \in Key \cup {None} /\ source \in Key \cup {None} /\ shown \in State \cup {None}
    /\ boot \in {"none", "starting", "there"}
    /\ bootEpoch \in 0 .. MaxEpoch /\ failedEpoch \in 0 .. MaxEpoch \cup {None}
    /\ waiting \in Seq(Key)

\* Before the coordinator is there nothing is attempted; the loads that wait for it
\* end with the one the window wants, and what they attempt is in preparation.
LoadsSound ==
    /\ boot # "there" => attempts = <<>>
    /\ boot = "none" => waiting = <<>>
    /\ boot = "starting" => waiting # <<>>
    /\ waiting # <<>> /\ key # None => waiting[Len(waiting)] = key /\ shown = "preparing"
    /\ waiting # <<>> /\ attempts # <<>> => View(attempts) = "preparing"

\* The window's key is that of the last attempt.
KeySound ==
    /\ key # None => enabled
    /\ key # None /\ boot = "there" /\ waiting = <<>> =>
         attempts # <<>> /\ attempts[Len(attempts)].key = key

OwnerInv == OwnerTypes /\ LoadsSound /\ KeySound /\ SidebarTellsView

PreparationInv == HelperInv /\ OwnerInv
-----------------------------------------------------------------------------
(* Sequences of attempts. *)

LEMMA SeqFacts ==
    ASSUME NEW as \in Seq(Attempt)
    PROVE  /\ Len(as) \in Nat
           /\ DOMAIN as = 1 .. Len(as)
           /\ as # <<>> <=> Len(as) # 0
           /\ \A j \in 1 .. Len(as) : as[j] \in Attempt
  <1>1. Len(as) \in Nat /\ DOMAIN as = 1 .. Len(as)
    BY LenProperties
  <1>2. as # <<>> <=> Len(as) # 0
    BY EmptySeq
  <1>3. \A j \in 1 .. Len(as) : as[j] \in Attempt
    BY ElementOfSeq
  <1> QED BY <1>1, <1>2, <1>3

LEMMA LastFacts ==
    ASSUME NEW as \in Seq(Attempt), as # <<>>
    PROVE  Len(as) \in 1 .. Len(as) /\ as[Len(as)] \in Attempt /\ View(as) = as[Len(as)].status
  <1>1. Len(as) \in Nat /\ Len(as) # 0
    BY SeqFacts
  <1>2. Len(as) \in 1 .. Len(as)
    <2>1. ASSUME NEW m \in Nat, m # 0 PROVE m \in 1 .. m
      BY <2>1
    <2> QED BY <1>1, <2>1
  <1>3. as[Len(as)] \in Attempt
    BY <1>2, SeqFacts
  <1> QED BY <1>2, <1>3 DEF View

\* One attempt changes.
Changed(as, bs, n, j, a) == \A i \in 1 .. n : bs[i] = IF i = j THEN a ELSE as[i]

LEMMA OneChanges ==
    ASSUME NEW as \in Seq(Attempt), NEW j \in 1 .. Len(as), NEW a \in Attempt
    PROVE  /\ [as EXCEPT ![j] = a] \in Seq(Attempt)
           /\ Len([as EXCEPT ![j] = a]) = Len(as)
           /\ Changed(as, [as EXCEPT ![j] = a], Len(as), j, a)
  <1>1. /\ [as EXCEPT ![j] = a] \in Seq(Attempt)
        /\ Len([as EXCEPT ![j] = a]) = Len(as)
    BY ExceptSeq, Zenon
  <1>2. \A i \in 1 .. Len(as) : [as EXCEPT ![j] = a][i] = IF i = j THEN a ELSE as[i]
    BY SeqFacts
  <1> QED BY <1>1, <1>2 DEF Changed

LEMMA OneSound ==
    ASSUME NEW n \in Nat, NEW as, NEW bs, NEW j \in 1 .. n, NEW a, Changed(as, bs, n, j, a),
           Sound(as, n), AttemptSound(a)
    PROVE  Sound(bs, n)
  BY DEF Changed, Sound

LEMMA OneUnserved ==
    ASSUME NEW n \in Nat, NEW as, NEW bs, NEW j \in 1 .. n, NEW a, Changed(as, bs, n, j, a),
           Unserved(as, n), a.call \notin InHelper
    PROVE  Unserved(bs, n)
  BY DEF Changed, Unserved

LEMMA OneOrdered ==
    ASSUME NEW n \in Nat, NEW as, NEW bs, NEW j \in 1 .. n, NEW a, Changed(as, bs, n, j, a),
           Ordered(as, n), InOrder(a, j, n),
           a.call = "none" \/ \A i \in 1 .. n : i < j => as[i].call \notin Working,
           a.call \notin Working \/ \A i \in 1 .. n : j < i => as[i].call = "none"
    PROVE  Ordered(bs, n)
  <1>1. ASSUME NEW i \in 1 .. n
        PROVE  InOrder(bs[i], i, n)
    <2>1. CASE i = j
      BY <2>1 DEF Changed
    <2>2. CASE i # j
      BY <2>2 DEF Changed, Ordered
    <2> QED BY <2>1, <2>2
  <1>2. ASSUME NEW h \in 1 .. n, NEW i \in 1 .. n, h < i, bs[i].call # "none"
        PROVE  bs[h].call \notin Working
    <2>0. h # i
      BY <1>2
    <2>1. CASE h = j
      <3>1. bs[h] = a
        BY <2>1 DEF Changed
      <3>2. bs[i] = as[i]
        BY <2>0, <2>1 DEF Changed
      <3> QED BY <1>2, <2>1, <3>1, <3>2
    <2>2. CASE i = j
      <3>1. bs[i] = a
        BY <2>2 DEF Changed
      <3>2. bs[h] = as[h]
        BY <2>0, <2>2 DEF Changed
      <3> QED BY <1>2, <2>2, <3>1, <3>2
    <2>3. CASE h # j /\ i # j
      <3>1. bs[i] = as[i] /\ bs[h] = as[h]
        BY <2>3 DEF Changed
      <3> QED BY <1>2, <3>1 DEF Ordered
    <2> QED BY <2>1, <2>2, <2>3
  <1> QED BY <1>1, <1>2 DEF Ordered

\* A call that goes on, without a new start.
LEMMA OneGoesOn ==
    ASSUME NEW n \in Nat, NEW as, NEW bs, NEW j \in 1 .. n, NEW a, Changed(as, bs, n, j, a),
           Ordered(as, n), InOrder(a, j, n),
           a.call = "none" \/ as[j].call # "none", a.call \notin Working \/ as[j].call \in Working
    PROVE  Ordered(bs, n)
  <1>1. a.call = "none" \/ \A i \in 1 .. n : i < j => as[i].call \notin Working
    BY DEF Ordered
  <1>2. a.call \notin Working \/ \A i \in 1 .. n : j < i => as[i].call = "none"
    BY DEF Ordered
  <1> QED BY <1>1, <1>2, OneOrdered

\* The last attempt is overtaken: the others are not touched.
LEMMA OvertakenIs ==
    ASSUME NEW a \in Attempt
    PROVE  /\ Overtaken(a) \in Attempt
           /\ Overtaken(a).status = "invalidated"
           /\ Overtaken(a).call = a.call /\ Overtaken(a).release = a.release
           /\ Overtaken(a).key = a.key /\ Overtaken(a).replayed = a.replayed
           /\ Overtaken(a).await = a.await
           /\ a.call # "none" => Overtaken(a).cancel # "none"
           /\ Overtaken(a).cancel = a.cancel \/ (a.cancel = "none" /\ Overtaken(a).cancel = "waiting")
  BY DEF Overtaken, QueueCancellation, Attempt, State

LEMMA InvalidatedIs ==
    ASSUME NEW as \in Seq(Attempt), as # <<>>
    PROVE  /\ Invalidated(as) \in Seq(Attempt)
           /\ Len(Invalidated(as)) = Len(as)
           /\ Changed(as, Invalidated(as), Len(as), Len(as), Overtaken(as[Len(as)]))
  <1>1. Len(as) \in 1 .. Len(as) /\ as[Len(as)] \in Attempt
    BY LastFacts
  <1>2. Invalidated(as) = [as EXCEPT ![Len(as)] = Overtaken(as[Len(as)])]
    BY DEF Invalidated
  <1>3. ASSUME NEW j \in 1 .. Len(as)
        PROVE  /\ [as EXCEPT ![j] = Overtaken(as[j])] \in Seq(Attempt)
               /\ Len([as EXCEPT ![j] = Overtaken(as[j])]) = Len(as)
               /\ Changed(as, [as EXCEPT ![j] = Overtaken(as[j])], Len(as), j, Overtaken(as[j]))
    <2>1. Overtaken(as[j]) \in Attempt
      BY SeqFacts, OvertakenIs
    <2> QED BY <2>1, OneChanges
  <1>4. /\ [as EXCEPT ![Len(as)] = Overtaken(as[Len(as)])] \in Seq(Attempt)
        /\ Len([as EXCEPT ![Len(as)] = Overtaken(as[Len(as)])]) = Len(as)
        /\ Changed(as, [as EXCEPT ![Len(as)] = Overtaken(as[Len(as)])], Len(as), Len(as),
                   Overtaken(as[Len(as)]))
    BY <1>1, <1>3
  <1> QED BY <1>2, <1>4

LEMMA InvalidatedSeq ==
    ASSUME NEW as \in Seq(Attempt)
    PROVE  /\ Invalidated(as) \in Seq(Attempt)
           /\ Len(Invalidated(as)) = Len(as)
           /\ (Invalidated(as) = <<>>) <=> (as = <<>>)
           /\ as # <<>> => View(Invalidated(as)) = "invalidated"
  <1>1. CASE as = <<>>
    BY <1>1 DEF Invalidated
  <1>2. CASE as # <<>>
    <2>1. /\ Invalidated(as) \in Seq(Attempt)
          /\ Len(Invalidated(as)) = Len(as)
          /\ Changed(as, Invalidated(as), Len(as), Len(as), Overtaken(as[Len(as)]))
      BY <1>2, InvalidatedIs
    <2>2. Invalidated(as) # <<>>
      BY <1>2, <2>1, SeqFacts
    <2>3. Len(as) \in 1 .. Len(as) /\ as[Len(as)] \in Attempt
      BY <1>2, LastFacts
    <2>4. Overtaken(as[Len(as)]).status = "invalidated"
      BY <2>3, OvertakenIs
    <2>5. Invalidated(as)[Len(as)] = Overtaken(as[Len(as)])
      BY <2>1, <2>3 DEF Changed
    <2> QED BY <1>2, <2>1, <2>2, <2>4, <2>5 DEF View
  <1> QED BY <1>1, <1>2

\* What is known of the attempts is known of them when the last one is overtaken.
Size(as, n) == Len(as) = n

LEMMA InvalidatedKeeps ==
    ASSUME NEW as \in Seq(Attempt), NEW n \in Nat, Size(as, n), Sound(as, n)
    PROVE  /\ Sound(Invalidated(as), n)
           /\ \A kept, done : Kept(as, n, kept, done) => Kept(Invalidated(as), n, kept, done)
           /\ Ordered(as, n) => Ordered(Invalidated(as), n)
           /\ Unserved(as, n) => Unserved(Invalidated(as), n)
           /\ \A j \in 1 .. n : Invalidated(as)[j].cancel = "none" => j # n \/ Invalidated(as)[j].call = "none"
  <1>1. CASE as = <<>>
    <2>1. Invalidated(as) = as
      BY <1>1 DEF Invalidated
    <2>2. n = 0
      BY <1>1 DEF Size
    <2>3. 1 .. n = {}
      BY <2>2
    <2> QED BY <2>1, <2>3
  <1>2. CASE as # <<>>
    <2>1. n \in 1 .. n /\ as[n] \in Attempt
      BY <1>2, LastFacts DEF Size
    <2>2. PICK bs : bs = Invalidated(as)
      OBVIOUS
    <2>3. PICK a : a = Overtaken(as[n])
      OBVIOUS
    <2>4. Changed(as, bs, n, n, a)
      BY <1>2, <2>2, <2>3, InvalidatedIs DEF Size
    <2>5. /\ a.status = "invalidated" /\ a.call = as[n].call /\ a.release = as[n].release
          /\ a.replayed = as[n].replayed /\ a.await = as[n].await
          /\ a.call # "none" => a.cancel # "none"
          /\ a.cancel = as[n].cancel \/ (as[n].cancel = "none" /\ a.cancel = "waiting")
      <3>1. /\ Overtaken(as[n]).status = "invalidated"
            /\ Overtaken(as[n]).call = as[n].call /\ Overtaken(as[n]).release = as[n].release
            /\ Overtaken(as[n]).replayed = as[n].replayed /\ Overtaken(as[n]).await = as[n].await
            /\ as[n].call # "none" => Overtaken(as[n]).cancel # "none"
            /\ \/ Overtaken(as[n]).cancel = as[n].cancel
               \/ as[n].cancel = "none" /\ Overtaken(as[n]).cancel = "waiting"
        BY <2>1, OvertakenIs
      <3> QED BY <2>3, <3>1
    <2>6. Sound(bs, n)
      <3>1. AttemptSound(a)
        BY <2>1, <2>4, <2>5 DEF Sound, AttemptSound
      <3> QED BY <2>1, <2>4, <2>5, <3>1, OneSound
    <2>7. ASSUME NEW kept, NEW done, Kept(as, n, kept, done)
          PROVE  Kept(bs, n, kept, done)
      BY <2>1, <2>4, <2>5, <2>7 DEF Kept, Changed
    <2>8. ASSUME Ordered(as, n)
          PROVE  Ordered(bs, n)
      <3>1. InOrder(as[n], n, n)
        BY <2>1, <2>8 DEF Ordered
      <3>2. InOrder(a, n, n)
        BY <2>4, <2>5, <3>1 DEF InOrder, Working, InHelper
      <3> QED BY <2>1, <2>4, <2>5, <2>8, <3>2, OneGoesOn
    <2>9. \A i \in 1 .. n : bs[i].cancel = "none" => i # n \/ bs[i].call = "none"
      BY <2>4, <2>5 DEF Changed
    <2>10. Unserved(as, n) => Unserved(bs, n)
      BY <2>1, <2>4, <2>5 DEF Unserved, Changed
    <2> QED BY <2>2, <2>6, <2>7, <2>8, <2>9, <2>10
  <1> QED BY <1>1, <1>2

\* A new attempt comes after those that work no more, or waits for them.
Begun(a, k, n, old) ==
    /\ AttemptSound(a)
    /\ a.key = k /\ a.status = "preparing" /\ a.cancel = "none" /\ ~a.replayed
    /\ \/ a.call = "none"
       \/ a.call = "reaching" /\ \A j \in 1 .. n : old[j].cancel = "none"
Longer(bs, n, old, a) ==
    /\ bs \in Seq(Attempt)
    /\ Len(bs) = n + 1
    /\ bs[n + 1] = a
    /\ \A j \in 1 .. n : bs[j] = old[j]

LEMMA NewIs ==
    ASSUME NEW as \in Seq(Attempt), NEW k \in Key, NEW n \in Nat, Size(as, n)
    PROVE  \E a \in Attempt :
             Begun(a, k, n, Invalidated(as)) /\ Longer(WithNewAttempt(as, k), n, Invalidated(as), a)
  <1>1. PICK old : old = Invalidated(as)
    OBVIOUS
  <1>2. old \in Seq(Attempt) /\ Len(old) = n /\ DOMAIN old = 1 .. n
    BY <1>1, InvalidatedSeq, SeqFacts DEF Size
  <1>3. ASSUME NEW a \in Attempt
        PROVE  Longer(Append(old, a), n, old, a)
    <2>1. /\ Append(old, a) \in Seq(Attempt)
          /\ Len(Append(old, a)) = Len(old) + 1
          /\ Append(old, a)[Len(old) + 1] = a
          /\ \A j \in 1 .. Len(old) : Append(old, a)[j] = old[j]
      BY <1>2, AppendProperties
    <2> QED BY <1>2, <2>1 DEF Longer
  <1>4. CASE \A j \in 1 .. n : old[j].cancel = "none"
    <2>1. WithNewAttempt(as, k) = Append(old, Started(NewAttempt(k)))
      BY <1>1, <1>2, <1>4 DEF WithNewAttempt
    <2>2. PICK a : a = Started(NewAttempt(k))
      OBVIOUS
    <2>3. a \in Attempt /\ Begun(a, k, n, old)
      BY <1>4, <2>2 DEF Begun, Attempt, State, AttemptSound, Started, NewAttempt
    <2> QED BY <1>1, <1>3, <2>1, <2>2, <2>3
  <1>5. CASE ~\A j \in 1 .. n : old[j].cancel = "none"
    <2>1. WithNewAttempt(as, k) = Append(old, NewAttempt(k))
      BY <1>1, <1>2, <1>5 DEF WithNewAttempt
    <2>2. PICK a : a = NewAttempt(k)
      OBVIOUS
    <2>3. a \in Attempt /\ Begun(a, k, n, old)
      BY <2>2 DEF Begun, Attempt, State, AttemptSound, NewAttempt
    <2> QED BY <1>1, <1>3, <2>1, <2>2, <2>3
  <1> QED BY <1>4, <1>5

LEMMA NewSeq ==
    ASSUME NEW as \in Seq(Attempt), NEW k \in Key
    PROVE  /\ WithNewAttempt(as, k) \in Seq(Attempt)
           /\ Len(WithNewAttempt(as, k)) = Len(as) + 1
           /\ WithNewAttempt(as, k) # <<>>
           /\ WithNewAttempt(as, k)[Len(WithNewAttempt(as, k))].key = k
           /\ View(WithNewAttempt(as, k)) = "preparing"
  <1>1. PICK n \in Nat : Size(as, n)
    BY SeqFacts DEF Size
  <1>2. PICK a \in Attempt :
             Begun(a, k, n, Invalidated(as)) /\ Longer(WithNewAttempt(as, k), n, Invalidated(as), a)
    BY <1>1, NewIs
  <1>3. a.key = k /\ a.status = "preparing"
    BY <1>2 DEF Begun
  <1>4. /\ WithNewAttempt(as, k) \in Seq(Attempt)
        /\ Len(WithNewAttempt(as, k)) = n + 1
        /\ WithNewAttempt(as, k)[n + 1] = a
    BY <1>2 DEF Longer
  <1>5. n + 1 # 0
    OBVIOUS
  <1>6. WithNewAttempt(as, k) # <<>>
    BY <1>4, <1>5, SeqFacts
  <1>7. View(WithNewAttempt(as, k)) = "preparing"
    BY <1>3, <1>4, <1>6 DEF View
  <1> QED BY <1>1, <1>3, <1>4, <1>6, <1>7 DEF Size

LEMMA NewKeeps ==
    ASSUME NEW as \in Seq(Attempt), NEW k \in Key, NEW n \in Nat, Size(as, n), Sound(as, n)
    PROVE  /\ Sound(WithNewAttempt(as, k), n + 1)
           /\ \A kept, done : Kept(as, n, kept, done) => Kept(WithNewAttempt(as, k), n + 1, kept, done)
           /\ Ordered(as, n) => Ordered(WithNewAttempt(as, k), n + 1)
           /\ Unserved(as, n) => Unserved(WithNewAttempt(as, k), n + 1)
  <1>1. PICK bs : bs = WithNewAttempt(as, k)
    OBVIOUS
  <1>2. PICK old : old = Invalidated(as)
    OBVIOUS
  <1>3. PICK a \in Attempt : Begun(a, k, n, old) /\ Longer(bs, n, old, a)
    BY <1>1, <1>2, NewIs
  <1>3a. /\ AttemptSound(a)
         /\ a.status = "preparing" /\ a.cancel = "none" /\ ~a.replayed
         /\ \/ a.call = "none"
            \/ a.call = "reaching" /\ \A j \in 1 .. n : old[j].cancel = "none"
         /\ bs[n + 1] = a
         /\ \A j \in 1 .. n : bs[j] = old[j]
    BY <1>3 DEF Begun, Longer
  <1>4. /\ Sound(old, n)
        /\ \A kept, done : Kept(as, n, kept, done) => Kept(old, n, kept, done)
        /\ Ordered(as, n) => Ordered(old, n)
        /\ Unserved(as, n) => Unserved(old, n)
        /\ \A j \in 1 .. n : old[j].cancel = "none" => j # n \/ old[j].call = "none"
    BY <1>2, InvalidatedKeeps
  <1>5. /\ n + 1 \in 1 .. n + 1
        /\ \A j \in 1 .. n + 1 : j \in 1 .. n \/ j = n + 1
        /\ \A j \in 1 .. n : j \in 1 .. n + 1 /\ j # n + 1
    OBVIOUS
  <1>6. Sound(bs, n + 1)
    BY <1>3a, <1>4, <1>5 DEF Sound
  <1>7. ASSUME NEW kept, NEW done, Kept(as, n, kept, done)
        PROVE  Kept(bs, n + 1, kept, done)
    <2>1. Kept(old, n, kept, done)
      BY <1>4, <1>7
    <2> QED BY <1>3a, <1>5, <2>1 DEF Kept
  <1>8. ASSUME Ordered(as, n)
        PROVE  Ordered(bs, n + 1)
    <2>1. Ordered(old, n)
      BY <1>4, <1>8
    <2>2. ASSUME NEW j \in 1 .. n
          PROVE  /\ InOrder(bs[j], j, n + 1)
                 /\ a.call = "none" \/ bs[j].call \notin Working
      <3>1. InOrder(old[j], j, n)
        BY <2>1 DEF Ordered
      <3>2. old[j].call \in Working => old[j].cancel # "none"
        BY <1>4, <3>1 DEF InOrder, Working, InHelper
      <3>3. InOrder(old[j], j, n + 1)
        BY <1>5, <3>1, <3>2 DEF InOrder
      <3> QED BY <1>3a, <1>5, <3>2, <3>3
    <2>3. InOrder(a, n + 1, n + 1)
      BY <1>3a DEF InOrder
    <2>4. ASSUME NEW i \in 1 .. n + 1, NEW j \in 1 .. n + 1, i < j, bs[j].call # "none"
          PROVE  bs[i].call \notin Working
      <3>1. i \in 1 .. n
        BY <2>4
      <3>2. CASE j = n + 1
        BY <1>3a, <2>2, <2>4, <3>1, <3>2
      <3>3. CASE j \in 1 .. n
        BY <1>3a, <2>1, <2>4, <3>1, <3>3 DEF Ordered
      <3> QED BY <1>5, <3>2, <3>3
    <2>5. \A j \in 1 .. n + 1 : InOrder(bs[j], j, n + 1)
      BY <1>3a, <1>5, <2>2, <2>3
    <2> QED BY <2>4, <2>5 DEF Ordered
  <1>9. Unserved(as, n) => Unserved(bs, n + 1)
    BY <1>3a, <1>4, <1>5 DEF Unserved, InHelper
  <1> QED BY <1>1, <1>6, <1>7, <1>8, <1>9

\* The helper's part, when the last attempt is overtaken or a new one begins.
LEMMA JobsInvalidated ==
    ASSUME NEW as, NEW kept, NEW done, NEW held, NEW lives, NEW f,
           Jobs(as, kept, done, held, lives, f)
    PROVE  Jobs(Invalidated(as), kept, done, held, lives, f)
  <1>1. as \in Seq(Attempt) /\ Sound(as, Len(as)) /\ Kept(as, Len(as), kept, done)
    BY DEF Jobs
  <1>2. PICK n \in Nat : Size(as, n)
    BY <1>1, SeqFacts DEF Size
  <1>3. /\ Sound(Invalidated(as), n)
        /\ Kept(Invalidated(as), n, kept, done)
        /\ Ordered(as, n) => Ordered(Invalidated(as), n)
        /\ Unserved(as, n) => Unserved(Invalidated(as), n)
    BY <1>1, <1>2, InvalidatedKeeps DEF Size
  <1>4. Invalidated(as) \in Seq(Attempt) /\ Len(Invalidated(as)) = n
    BY <1>1, <1>2, InvalidatedSeq DEF Size
  <1> QED BY <1>2, <1>3, <1>4 DEF Jobs, Size

LEMMA JobsNew ==
    ASSUME NEW as, NEW kept, NEW done, NEW held, NEW lives, NEW f, NEW k \in Key,
           Jobs(as, kept, done, held, lives, f)
    PROVE  Jobs(WithNewAttempt(as, k), kept, done, held, lives, f)
  <1>1. as \in Seq(Attempt) /\ Sound(as, Len(as)) /\ Kept(as, Len(as), kept, done)
    BY DEF Jobs
  <1>2. PICK n \in Nat : Size(as, n)
    BY <1>1, SeqFacts DEF Size
  <1>3. /\ Sound(WithNewAttempt(as, k), n + 1)
        /\ Kept(WithNewAttempt(as, k), n + 1, kept, done)
        /\ Ordered(as, n) => Ordered(WithNewAttempt(as, k), n + 1)
        /\ Unserved(as, n) => Unserved(WithNewAttempt(as, k), n + 1)
    BY <1>1, <1>2, NewKeeps DEF Size
  <1>4. WithNewAttempt(as, k) \in Seq(Attempt) /\ Len(WithNewAttempt(as, k)) = n + 1
    BY <1>1, <1>2, NewSeq DEF Size
  <1> QED BY <1>2, <1>3, <1>4 DEF Jobs, Size

\* One attempt changes, and its call goes on.
GoesOn(b, a) ==
    (a.call = "none" \/ b.call # "none") /\ (a.call \notin Working \/ b.call \in Working)

LEMMA JobsOne ==
    ASSUME NEW as, NEW kept, NEW done, NEW held, NEW lives, NEW f,
           Jobs(as, kept, done, held, lives, f),
           NEW j \in 1 .. Len(as), NEW a \in Attempt, AttemptSound(a),
           NEW kept2, NEW done2, NEW held2, NEW lives2, NEW f2,
           kept2 \subseteq kept \cup {j}, done2 \subseteq done \cup {j},
           j \in kept2 => a.call \in {"running", "stopping", "result"} \/ a.release,
           j \in done2 => a.call = "result" \/ a.release,
           f2 = 0 => /\ f = 0
                     /\ held2 = lives2
                     /\ InOrder(a, j, Len(as)) /\ GoesOn(as[j], a)
                     /\ held2 \/ (~held /\ a.call \notin InHelper)
    PROVE  Jobs([as EXCEPT ![j] = a], kept2, done2, held2, lives2, f2)
  <1>1. as \in Seq(Attempt) /\ Sound(as, Len(as)) /\ Kept(as, Len(as), kept, done)
    BY DEF Jobs
  <1>2. PICK n \in Nat : Size(as, n)
    BY <1>1, SeqFacts DEF Size
  <1>3. PICK bs : bs = [as EXCEPT ![j] = a]
    OBVIOUS
  <1>4. bs \in Seq(Attempt) /\ Len(bs) = n /\ Changed(as, bs, n, j, a) /\ j \in 1 .. n
    BY <1>1, <1>2, <1>3, OneChanges DEF Size
  <1>5. Sound(as, n) /\ Kept(as, n, kept, done)
    BY <1>1, <1>2 DEF Size
  <1>6. Sound(bs, n)
    BY <1>4, <1>5, OneSound
  <1>7. Kept(bs, n, kept2, done2)
    BY <1>4, <1>5 DEF Kept, Changed
  <1>8. ASSUME f2 = 0
        PROVE  held2 = lives2 /\ Ordered(bs, n) /\ (held2 \/ Unserved(bs, n))
    <2>1. Ordered(as, n) /\ (held \/ Unserved(as, n))
      BY <1>2, <1>8 DEF Jobs, Size
    <2>2. InOrder(a, j, n)
      BY <1>2, <1>8 DEF Size
    <2>3. Ordered(bs, n)
      BY <1>4, <1>8, <2>1, <2>2, OneGoesOn DEF GoesOn
    <2>4. held2 \/ Unserved(bs, n)
      BY <1>4, <1>8, <2>1, OneUnserved
    <2> QED BY <1>8, <2>3, <2>4
  <1> QED BY <1>3, <1>4, <1>6, <1>7, <1>8 DEF Jobs
-----------------------------------------------------------------------------
(* The helper's part, action by action. *)

\* What is known of an attempt that takes a step.
LEMMA AttemptFacts ==
    ASSUME HelperInv, NEW j \in DOMAIN attempts
    PROVE  /\ attempts \in Seq(Attempt) /\ j \in 1 .. Len(attempts)
           /\ attempts[j] \in Attempt /\ AttemptSound(attempts[j])
           /\ j \in results => attempts[j].call \in {"running", "stopping", "result"} \/ attempts[j].release
           /\ j \in completed => attempts[j].call = "result" \/ attempts[j].release
           /\ faults \in Nat
           /\ faults = 0 => /\ client = alive
                            /\ InOrder(attempts[j], j, Len(attempts))
                            /\ client \/ attempts[j].call \notin InHelper
  <1>1. /\ attempts \in Seq(Attempt) /\ Sound(attempts, Len(attempts))
        /\ Kept(attempts, Len(attempts), results, completed)
        /\ faults = 0 => /\ client = alive
                         /\ Ordered(attempts, Len(attempts))
                         /\ client \/ Unserved(attempts, Len(attempts))
    BY DEF HelperInv, Jobs
  <1>2. j \in 1 .. Len(attempts) /\ attempts[j] \in Attempt
    BY <1>1, SeqFacts
  <1>3. AttemptSound(attempts[j])
    BY <1>1, <1>2 DEF Sound
  <1>4. /\ j \in results => attempts[j].call \in {"running", "stopping", "result"} \/ attempts[j].release
        /\ j \in completed => attempts[j].call = "result" \/ attempts[j].release
    BY <1>1 DEF Kept
  <1>5. faults = 0 => InOrder(attempts[j], j, Len(attempts)) /\ (client \/ attempts[j].call \notin InHelper)
    BY <1>1, <1>2 DEF Ordered, Unserved
  <1>6. faults \in Nat
    BY PreparationAssumption DEF HelperInv
  <1> QED BY <1>1, <1>2, <1>3, <1>4, <1>5, <1>6

\* An action after which one attempt has changed.
LEMMA HelperOne ==
    ASSUME HelperInv, NEW j \in DOMAIN attempts, NEW a \in Attempt, AttemptSound(a),
           attempts' = [attempts EXCEPT ![j] = a],
           client' \in BOOLEAN, alive' \in BOOLEAN, faults' \in 0 .. MaxFaults,
           results' \subseteq results \cup {j}, completed' \subseteq completed \cup {j},
           j \in results' => a.call \in {"running", "stopping", "result"} \/ a.release,
           j \in completed' => a.call = "result" \/ a.release,
           faults' = 0 => /\ faults = 0
                          /\ client' = alive'
                          /\ InOrder(a, j, Len(attempts)) /\ GoesOn(attempts[j], a)
                          /\ client' \/ (~client /\ a.call \notin InHelper)
    PROVE  HelperInv'
  <1>1. Jobs(attempts, results, completed, client, alive, faults) /\ j \in 1 .. Len(attempts)
    BY AttemptFacts DEF HelperInv
  <1>2. Jobs([attempts EXCEPT ![j] = a], results', completed', client', alive', faults')
    BY <1>1, JobsOne
  <1> QED BY <1>2 DEF HelperInv

LEMMA FaultStep ==
    ASSUME HelperInv, Fault
    PROVE  faults' \in 0 .. MaxFaults /\ faults' # 0
  BY PreparationAssumption DEF HelperInv, Fault

\* An action of the player: the attempts are the same, or the last one is overtaken.
LEMMA HelperPlayer ==
    ASSUME HelperInv, UNCHANGED helperVars, faults' = faults,
           \/ attempts' = attempts
           \/ attempts' = Invalidated(attempts)
           \/ \E k \in Key : attempts' = WithNewAttempt(attempts, k)
    PROVE  HelperInv'
  <1>1. Jobs(attempts, results, completed, client, alive, faults)
    BY DEF HelperInv
  <1>2. Jobs(attempts', results, completed, client, alive, faults)
    BY <1>1, JobsInvalidated, JobsNew
  <1> QED BY <1>2 DEF HelperInv, helperVars

LEMMA HelperReach ==
    ASSUME HelperInv, NEW j \in DOMAIN attempts, Reach(j)
    PROVE  HelperInv'
  <1>1. PICK a : a = [attempts[j] EXCEPT !.call =
                        IF attempts[j].replayed /\ ~InTime(j) THEN "cancelled" ELSE "posted"]
    OBVIOUS
  <1>2. attempts' = [attempts EXCEPT ![j] = a]
    BY <1>1 DEF Reach
  <1>3. attempts[j].call = "reaching" /\ attempts[j] \in Attempt /\ AttemptSound(attempts[j])
    BY AttemptFacts DEF Reach
  <1>4. /\ a \in Attempt
        /\ a.status = attempts[j].status /\ a.await = attempts[j].await /\ a.release = attempts[j].release
        /\ a.replayed = attempts[j].replayed /\ a.cancel = attempts[j].cancel
        /\ a.call \in {"cancelled", "posted"}
    BY <1>1, <1>3 DEF Attempt, Outcome
  <1>5. AttemptSound(a)
    BY <1>3, <1>4 DEF AttemptSound
  <1>6. j \notin results /\ j \notin completed
    BY <1>3, AttemptFacts DEF AttemptSound
  <1>7. client' = TRUE /\ alive' = TRUE /\ faults' = faults /\ results' = results /\ completed' = completed
    BY DEF Reach, HelperServes
  <1>8. faults = 0 => InOrder(a, j, Len(attempts))
    <2>1. faults = 0 => InOrder(attempts[j], j, Len(attempts))
      BY AttemptFacts
    <2> QED BY <1>3, <1>4, <2>1 DEF InOrder, Working, InHelper
  <1>9. GoesOn(attempts[j], a)
    BY <1>3, <1>4 DEF GoesOn, Working
  <1>10. faults' \in 0 .. MaxFaults
    BY <1>7 DEF HelperInv
  <1> QED BY <1>2, <1>4, <1>5, <1>6, <1>7, <1>8, <1>9, <1>10, HelperOne

LEMMA HelperCannotReach ==
    ASSUME HelperInv, NEW j \in DOMAIN attempts, CannotReach(j)
    PROVE  HelperInv'
  <1>1. PICK a : a = [attempts[j] EXCEPT !.call = "failed"]
    OBVIOUS
  <1>2. attempts' = [attempts EXCEPT ![j] = a]
    BY <1>1 DEF CannotReach
  <1>3. attempts[j].call = "reaching" /\ attempts[j] \in Attempt /\ AttemptSound(attempts[j])
    BY AttemptFacts DEF CannotReach
  <1>4. /\ a \in Attempt
        /\ a.await = attempts[j].await /\ a.release = attempts[j].release /\ a.call = "failed"
    BY <1>1, <1>3 DEF Attempt, Outcome
  <1>5. AttemptSound(a)
    BY <1>3, <1>4 DEF AttemptSound
  <1>6. j \notin results /\ j \notin completed
    BY <1>3, AttemptFacts DEF AttemptSound
  <1>7. UNCHANGED helperVars /\ Fault
    BY DEF CannotReach
  <1>8. client' \in BOOLEAN /\ alive' \in BOOLEAN /\ results' = results /\ completed' = completed
    BY <1>7 DEF HelperInv, helperVars
  <1> QED BY <1>2, <1>4, <1>5, <1>6, <1>7, <1>8, FaultStep, HelperOne

LEMMA HelperDeadlinePasses ==
    ASSUME HelperInv, NEW j \in DOMAIN attempts, DeadlinePasses(j)
    PROVE  HelperInv'
  <1>1. PICK a : a = [attempts[j] EXCEPT !.overdue = TRUE]
    OBVIOUS
  <1>2. attempts' = [attempts EXCEPT ![j] = a]
    BY <1>1 DEF DeadlinePasses
  <1>3. attempts[j] \in Attempt /\ AttemptSound(attempts[j])
    BY AttemptFacts
  <1>4. /\ a \in Attempt
        /\ a.status = attempts[j].status /\ a.await = attempts[j].await /\ a.release = attempts[j].release
        /\ a.replayed = attempts[j].replayed /\ a.cancel = attempts[j].cancel /\ a.call = attempts[j].call
    BY <1>1, <1>3 DEF Attempt
  <1>5. AttemptSound(a)
    BY <1>3, <1>4 DEF AttemptSound
  <1>6. UNCHANGED helperVars /\ faults' = faults
    BY DEF DeadlinePasses, OnlyAttempts
  <1>7. /\ client' \in BOOLEAN /\ alive' \in BOOLEAN /\ client' = client /\ alive' = alive
        /\ results' = results /\ completed' = completed /\ faults' \in 0 .. MaxFaults
    BY <1>6 DEF HelperInv, helperVars
  <1>8. /\ j \in results => a.call \in {"running", "stopping", "result"} \/ a.release
        /\ j \in completed => a.call = "result" \/ a.release
    BY <1>4, AttemptFacts
  <1>9. faults = 0 => /\ client = alive
                      /\ InOrder(a, j, Len(attempts))
                      /\ client \/ a.call \notin InHelper
    <2>1. faults = 0 => /\ client = alive
                        /\ InOrder(attempts[j], j, Len(attempts))
                        /\ client \/ attempts[j].call \notin InHelper
      BY AttemptFacts
    <2> QED BY <1>4, <2>1 DEF InOrder
  <1>10. GoesOn(attempts[j], a)
    BY <1>4 DEF GoesOn
  <1> QED BY <1>2, <1>4, <1>5, <1>6, <1>7, <1>8, <1>9, <1>10, HelperOne

LEMMA Returned ==
    ASSUME NEW as, NEW k, AcceptPrepared(as, k, FALSE)
    PROVE  attempts' = as
  <1>1. CASE Owns(k)
    BY <1>1, Zenon DEF AcceptPrepared
  <1>2. CASE ~Owns(k)
    BY <1>2, Zenon DEF AcceptPrepared
  <1> QED BY <1>1, <1>2, Zenon

LEMMA HelperTimerFires ==
    ASSUME HelperInv, NEW j \in DOMAIN attempts, TimerFires(j)
    PROVE  HelperInv'
  <1>1. PICK a : a = QueueCancellation([attempts[j] EXCEPT !.status = "timedOut",
                                          !.timer = FALSE, !.await = "none"])
    OBVIOUS
  <1>2. attempts' = [attempts EXCEPT ![j] = a]
    BY <1>1, Returned DEF TimerFires, Returns, Update
  <1>3. attempts[j] \in Attempt /\ AttemptSound(attempts[j])
    BY AttemptFacts
  <1>4. /\ a \in Attempt
        /\ a.status = "timedOut" /\ a.await = "none" /\ a.release = attempts[j].release
        /\ a.replayed = attempts[j].replayed /\ a.call = attempts[j].call /\ a.cancel # "none"
        /\ a.cancel = attempts[j].cancel \/ a.cancel = "waiting"
    BY <1>1, <1>3 DEF Attempt, State, QueueCancellation
  <1>5. AttemptSound(a)
    BY <1>3, <1>4 DEF AttemptSound
  <1>6. UNCHANGED helperVars /\ faults' = faults
    BY DEF TimerFires
  <1>7. /\ client' \in BOOLEAN /\ alive' \in BOOLEAN /\ client' = client /\ alive' = alive
        /\ results' = results /\ completed' = completed /\ faults' \in 0 .. MaxFaults
    BY <1>6 DEF HelperInv, helperVars
  <1>8. /\ j \in results => a.call \in {"running", "stopping", "result"} \/ a.release
        /\ j \in completed => a.call = "result" \/ a.release
    BY <1>4, AttemptFacts
  <1>9. faults = 0 => /\ client = alive
                      /\ InOrder(a, j, Len(attempts))
                      /\ client \/ a.call \notin InHelper
    <2>1. faults = 0 => /\ client = alive
                        /\ InOrder(attempts[j], j, Len(attempts))
                        /\ client \/ attempts[j].call \notin InHelper
      BY AttemptFacts
    <2> QED BY <1>4, <2>1 DEF InOrder
  <1>10. GoesOn(attempts[j], a)
    BY <1>4 DEF GoesOn
  <1> QED BY <1>2, <1>4, <1>5, <1>6, <1>7, <1>8, <1>9, <1>10, HelperOne

\* An attempt whose call is over, or was never made, is in order.
LEMMA Done ==
    ASSUME NEW b, NEW a, NEW j, NEW n, InOrder(b, j, n), a.replayed = b.replayed,
           a.call \notin Working, a.call # "refused", a.call # "unavailable"
    PROVE  InOrder(a, j, n)
  BY DEF InOrder, Working

\* An action of the window at one attempt, of which the helper keeps nothing
\* but what is given.
LEMMA HelperWindowOne ==
    ASSUME HelperInv, NEW j \in DOMAIN attempts, NEW a \in Attempt, AttemptSound(a),
           attempts' = [attempts EXCEPT ![j] = a], UNCHANGED helperVars, faults' = faults,
           j \in results => a.call \in {"running", "stopping", "result"} \/ a.release,
           j \in completed => a.call = "result" \/ a.release,
           faults = 0 => InOrder(a, j, Len(attempts)), GoesOn(attempts[j], a), a.call \notin InHelper
    PROVE  HelperInv'
  <1>1. /\ client' \in BOOLEAN /\ alive' \in BOOLEAN /\ client' = client /\ alive' = alive
        /\ results' = results /\ completed' = completed /\ faults' \in 0 .. MaxFaults
    BY DEF HelperInv, helperVars
  <1>2. faults = 0 => client = alive
    BY AttemptFacts
  <1> QED BY <1>1, <1>2, HelperOne

LEMMA HelperCallEnds ==
    ASSUME HelperInv, NEW j \in DOMAIN attempts, CallEnds(j)
    PROVE  HelperInv'
  <1> DEFINE b == attempts[j]
             over == [b EXCEPT !.call = "over", !.timer = FALSE]
  <1>1. /\ b \in Attempt /\ AttemptSound(b) /\ b.call \in Outcome
        /\ j \in results => b.call = "result"
        /\ j \in completed => b.call = "result"
        /\ faults = 0 => InOrder(b, j, Len(attempts))
        /\ ~b.release
    BY AttemptFacts DEF CallEnds, Outcome, AttemptSound
  <1>2. UNCHANGED helperVars /\ faults' = faults
    BY DEF CallEnds
  <1>3. \/ b.call = "unavailable" /\ InTime(j)
           /\ attempts' = [attempts EXCEPT ![j] = [b EXCEPT !.call = "reaching", !.replayed = TRUE]]
        \/ b.await # "race" /\ attempts' = [attempts EXCEPT ![j] = LateOutcome(over, b.call)]
        \/ b.call = "result" /\
           \E what \in {"discard", "release"} :
             attempts' = [attempts EXCEPT ![j] = [over EXCEPT !.await = what, !.release = TRUE]]
        \/ b.call # "result" /\ \E status \in State :
             attempts' = [attempts EXCEPT ![j] = [over EXCEPT !.await = "none", !.status = status]]
    <2>1. StateAfter(b.call) \in State /\ b.status \in State
      BY <1>1 DEF StateAfter, State, Attempt
    <2>2. CASE b.call = "unavailable" /\ ~b.replayed /\ InTime(j)
      BY <2>2, Zenon DEF CallEnds, Update
    <2>3. CASE ~(b.call = "unavailable" /\ ~b.replayed /\ InTime(j)) /\ b.await # "race"
      BY <2>3, Zenon DEF CallEnds, Update
    <2>4. CASE b.await = "race" /\ b.call = "result"
      BY <2>4 DEF CallEnds, Update
    <2>5. CASE ~(b.call = "unavailable" /\ ~b.replayed /\ InTime(j)) /\ b.await = "race" /\ b.call # "result"
      <3>1. Returns(j, [over EXCEPT !.await = "none",
                          !.status = IF Accepts(j) THEN StateAfter(b.call) ELSE @])
        BY <2>5 DEF CallEnds
      <3>2. PICK status \in State : status = IF Accepts(j) THEN StateAfter(b.call) ELSE b.status
        BY <2>1
      <3>3. Returns(j, [over EXCEPT !.await = "none", !.status = status])
        BY <3>1, <3>2
      <3>4. attempts' = [attempts EXCEPT ![j] = [over EXCEPT !.await = "none", !.status = status]]
        BY <3>3, Returned, Zenon DEF Returns, Update
      <3> QED BY <2>5, <3>4, Zenon
    <2> QED BY <2>2, <2>3, <2>4, <2>5, Zenon
  <1>4. ASSUME NEW a \in Attempt, a.call = "over", a.await # "race", a.await # "barrier",
               a.replayed = b.replayed, b.call = "result" => a.release,
               attempts' = [attempts EXCEPT ![j] = a]
        PROVE  HelperInv'
    <2>1. AttemptSound(a)
      BY <1>4 DEF AttemptSound
    <2>2. faults = 0 => InOrder(a, j, Len(attempts))
      BY <1>1, <1>4, Done DEF Working, InHelper
    <2>3. GoesOn(b, a) /\ a.call \notin InHelper
      BY <1>1, <1>4 DEF GoesOn, Working, InHelper, Outcome
    <2> HIDE DEF b, over
    <2>4. /\ j \in results => a.call \in {"running", "stopping", "result"} \/ a.release
          /\ j \in completed => a.call = "result" \/ a.release
      BY <1>1, <1>4
    <2> QED BY <1>2, <1>4, <2>1, <2>2, <2>3, <2>4, HelperWindowOne DEF b
  <1>5. CASE b.call = "unavailable" /\ InTime(j)
             /\ attempts' = [attempts EXCEPT ![j] = [b EXCEPT !.call = "reaching", !.replayed = TRUE]]
    <2>1. PICK a : a = [b EXCEPT !.call = "reaching", !.replayed = TRUE]
      OBVIOUS
    <2>2. a \in Attempt /\ a.call = "reaching" /\ a.await = b.await /\ a.release = b.release
      BY <1>1, <2>1 DEF Attempt
    <2>3. AttemptSound(a)
      BY <1>1, <1>5, <2>2 DEF AttemptSound
    <2>4. faults # 0
      BY <1>1, <1>5 DEF InOrder, InTime, Accepts
    <2>5. /\ client' \in BOOLEAN /\ alive' \in BOOLEAN /\ faults' \in 0 .. MaxFaults
          /\ results' = results /\ completed' = completed
      BY <1>2 DEF HelperInv, helperVars
    <2>6. j \notin results /\ j \notin completed
      BY <1>1, <1>5
    <2>7. attempts' = [attempts EXCEPT ![j] = a]
      BY <1>5, <2>1
    <2> QED BY <1>2, <2>2, <2>3, <2>4, <2>5, <2>6, <2>7, HelperOne
  <1>6. CASE b.await # "race" /\ attempts' = [attempts EXCEPT ![j] = LateOutcome(over, b.call)]
    <2>1. PICK a : a = LateOutcome(over, b.call)
      OBVIOUS
    <2>2. /\ a \in Attempt /\ a.call = "over" /\ a.await = b.await /\ a.replayed = b.replayed
          /\ b.call = "result" => a.release
      BY <1>1, <2>1 DEF Attempt, LateOutcome
    <2>3. b.await # "barrier"
      BY <1>1 DEF AttemptSound, Outcome
    <2>4. attempts' = [attempts EXCEPT ![j] = a]
      BY <1>6, <2>1
    <2> QED BY <1>4, <1>6, <2>2, <2>3, <2>4
  <1>7. CASE b.call = "result" /\ \E what \in {"discard", "release"} :
             attempts' = [attempts EXCEPT ![j] = [over EXCEPT !.await = what, !.release = TRUE]]
    <2>1. PICK what \in {"discard", "release"} :
             attempts' = [attempts EXCEPT ![j] = [over EXCEPT !.await = what, !.release = TRUE]]
      BY <1>7
    <2>2. PICK a : a = [over EXCEPT !.await = what, !.release = TRUE]
      OBVIOUS
    <2>3. /\ a \in Attempt /\ a.call = "over" /\ a.await # "race" /\ a.await # "barrier"
          /\ a.replayed = b.replayed /\ a.release
      BY <1>1, <2>2 DEF Attempt
    <2>4. attempts' = [attempts EXCEPT ![j] = a]
      BY <2>1, <2>2
    <2> QED BY <1>4, <2>3, <2>4
  <1>8. CASE b.call # "result" /\ \E status \in State :
             attempts' = [attempts EXCEPT ![j] = [over EXCEPT !.await = "none", !.status = status]]
    <2>1. PICK status \in State :
             attempts' = [attempts EXCEPT ![j] = [over EXCEPT !.await = "none", !.status = status]]
      BY <1>8, Zenon
    <2>2. PICK a : a = [over EXCEPT !.await = "none", !.status = status]
      OBVIOUS
    <2>3. a \in Attempt /\ a.call = "over" /\ a.await = "none" /\ a.replayed = b.replayed
      BY <1>1, <2>2 DEF Attempt
    <2>4. attempts' = [attempts EXCEPT ![j] = a]
      BY <2>1, <2>2
    <2> QED BY <1>4, <1>8, <2>3, <2>4
  <1> HIDE DEF b, over
  <1> QED BY <1>3, <1>5, <1>6, <1>7, <1>8, Zenon

LEMMA HelperReleased ==
    ASSUME HelperInv, NEW j \in DOMAIN attempts, NEW readable \in BOOLEAN, Released(j, readable)
    PROVE  HelperInv'
  <1> DEFINE b == attempts[j]
             done == [b EXCEPT !.release = FALSE, !.await = "none"]
             state == IF readable THEN "ready" ELSE "emptyOrUnreadable"
  <1>1. /\ b \in Attempt /\ AttemptSound(b) /\ b.release
        /\ faults = 0 => InOrder(b, j, Len(attempts))
    BY AttemptFacts DEF Released
  <1>2. b.call = "over" /\ b.status \in State /\ state \in State
    BY <1>1 DEF AttemptSound, State, Attempt
  <1>3. /\ client' = client /\ alive' = alive /\ faults' = faults
        /\ results' = results \ {j} /\ completed' = completed \ {j}
    BY DEF Released
  <1>4. \E status \in State :
           \/ attempts' = [attempts EXCEPT ![j] = [done EXCEPT !.status = status]]
           \/ attempts' = Invalidated([attempts EXCEPT ![j] = [done EXCEPT !.status = status]])
    <2>1. CASE b.await = "release" /\ Accepts(j)
      <3>1. AcceptPrepared(Update(j, [done EXCEPT !.status = state]), b.key, readable)
        BY <2>1, Zenon DEF Released
      <3>2. \/ attempts' = Update(j, [done EXCEPT !.status = state])
            \/ attempts' = Invalidated(Update(j, [done EXCEPT !.status = state]))
        BY <3>1, Zenon DEF AcceptPrepared
      <3> QED BY <1>2, <3>2, Zenon DEF Update
    <2>2. CASE b.await = "discard" \/ (b.await = "release" /\ ~Accepts(j))
      <3>1. Returns(j, done)
        BY <2>2, Zenon DEF Released
      <3>2. attempts' = [attempts EXCEPT ![j] = done]
        BY <3>1, Returned, Zenon DEF Returns, Update
      <3>3. done = [done EXCEPT !.status = b.status]
        BY <1>1 DEF Attempt
      <3> QED BY <1>2, <3>2, <3>3, Zenon
    <2>3. CASE b.await = "none"
      <3>1. attempts' = [attempts EXCEPT ![j] = done]
        BY <2>3, Zenon DEF Released, Update
      <3>2. done = [done EXCEPT !.status = b.status]
        BY <1>1 DEF Attempt
      <3> QED BY <1>2, <3>1, <3>2, Zenon
    <2>4. b.await \in {"release", "discard", "none"}
      BY <1>1, <1>2 DEF AttemptSound, Attempt
    <2> QED BY <2>1, <2>2, <2>3, <2>4, Zenon
  <1>5. PICK status \in State :
           \/ attempts' = [attempts EXCEPT ![j] = [done EXCEPT !.status = status]]
           \/ attempts' = Invalidated([attempts EXCEPT ![j] = [done EXCEPT !.status = status]])
    BY <1>4, Zenon
  <1>6. PICK a : a = [done EXCEPT !.status = status]
    OBVIOUS
  <1>7. a \in Attempt /\ a.call = "over" /\ a.await = "none" /\ a.replayed = b.replayed /\ ~a.release
    BY <1>1, <1>2, <1>6 DEF Attempt
  <1>8. AttemptSound(a)
    BY <1>7 DEF AttemptSound
  <1>9. faults = 0 => InOrder(a, j, Len(attempts))
    BY <1>1, <1>7, Done DEF Working, InHelper
  <1>10. GoesOn(b, a) /\ a.call \notin InHelper
    BY <1>2, <1>7 DEF GoesOn, Working, InHelper
  <1>11. faults = 0 => client = alive
    BY AttemptFacts
  <1>12. /\ results' \subseteq results \cup {j} /\ completed' \subseteq completed \cup {j}
         /\ j \notin results' /\ j \notin completed'
    BY <1>3
  <1>13. Jobs(attempts, results, completed, client, alive, faults) /\ j \in 1 .. Len(attempts)
    BY AttemptFacts DEF HelperInv
  <1>14. client \in BOOLEAN
    BY DEF HelperInv
  <1>15. Jobs([attempts EXCEPT ![j] = a], results', completed', client, alive, faults)
    <2> HIDE DEF b, done, state
    <2>1. faults = 0 => /\ faults = 0
                        /\ client = alive
                        /\ InOrder(a, j, Len(attempts)) /\ GoesOn(attempts[j], a)
                        /\ client \/ (~client /\ a.call \notin InHelper)
      BY <1>9, <1>10, <1>11, <1>14 DEF b
    <2> QED BY <1>7, <1>8, <1>12, <1>13, <2>1, JobsOne
  <1>16. attempts' = [attempts EXCEPT ![j] = a] \/ attempts' = Invalidated([attempts EXCEPT ![j] = a])
    BY <1>5, <1>6
  <1>17. Jobs(attempts', results', completed', client, alive, faults)
    BY <1>15, <1>16, JobsInvalidated
  <1> QED BY <1>3, <1>17 DEF HelperInv

LEMMA HelperPostCancel ==
    ASSUME HelperInv, NEW j \in DOMAIN attempts, PostCancel(j)
    PROVE  HelperInv'
  <1>1. PICK a : a = [attempts[j] EXCEPT !.cancel = IF client THEN "posted" ELSE "none"]
    OBVIOUS
  <1>2. attempts' = [attempts EXCEPT ![j] = a]
    BY <1>1 DEF PostCancel
  <1>3. /\ attempts[j] \in Attempt /\ AttemptSound(attempts[j])
        /\ attempts[j].call # "reaching" \/ attempts[j].replayed
        /\ client \/ attempts[j].call # "reaching"
    BY AttemptFacts DEF PostCancel, Submitted
  <1>4. /\ a \in Attempt
        /\ a.status = attempts[j].status /\ a.await = attempts[j].await /\ a.release = attempts[j].release
        /\ a.replayed = attempts[j].replayed /\ a.call = attempts[j].call
        /\ a.cancel = IF client THEN "posted" ELSE "none"
    BY <1>1, <1>3 DEF Attempt
  <1>5. AttemptSound(a)
    BY <1>3, <1>4 DEF AttemptSound
  <1>6. UNCHANGED helperVars /\ faults' = faults
    BY DEF PostCancel, OnlyAttempts
  <1>7. /\ client' \in BOOLEAN /\ alive' \in BOOLEAN /\ client' = client /\ alive' = alive
        /\ results' = results /\ completed' = completed /\ faults' \in 0 .. MaxFaults
    BY <1>6 DEF HelperInv, helperVars
  <1>8. /\ j \in results => a.call \in {"running", "stopping", "result"} \/ a.release
        /\ j \in completed => a.call = "result" \/ a.release
    BY <1>4, AttemptFacts
  <1>9. faults = 0 => /\ client = alive
                      /\ InOrder(a, j, Len(attempts))
                      /\ client \/ a.call \notin InHelper
    <2>1. faults = 0 => /\ client = alive
                        /\ InOrder(attempts[j], j, Len(attempts))
                        /\ client \/ attempts[j].call \notin InHelper
      BY AttemptFacts
    <2> QED BY <1>3, <1>4, <2>1 DEF InOrder, Working
  <1>10. GoesOn(attempts[j], a)
    BY <1>4 DEF GoesOn
  <1> QED BY <1>2, <1>4, <1>5, <1>6, <1>7, <1>8, <1>9, <1>10, HelperOne

LEMMA HelperTakeJob ==
    ASSUME HelperInv, NEW j \in DOMAIN attempts, TakeJob(j)
    PROVE  HelperInv'
  <1>1. /\ attempts[j].call = "posted" /\ attempts[j] \in Attempt /\ AttemptSound(attempts[j])
        /\ j \notin completed /\ j \notin results
        /\ faults = 0 => InOrder(attempts[j], j, Len(attempts)) /\ client = alive
    BY AttemptFacts DEF TakeJob, Claims, AttemptSound
  <1>2. /\ client' = client /\ alive' = alive /\ completed' = completed /\ faults' = faults
        /\ client \in BOOLEAN /\ alive \in BOOLEAN /\ faults \in 0 .. MaxFaults /\ alive
    BY DEF TakeJob, HelperInv, Claims
  <1>3. CASE Active = {}
    <2>1. PICK a : a = [attempts[j] EXCEPT !.call = "running"]
      OBVIOUS
    <2>2. attempts' = [attempts EXCEPT ![j] = a] /\ results' = results \cup {j}
      BY <1>3, <2>1 DEF TakeJob
    <2>3. /\ a \in Attempt
          /\ a.status = attempts[j].status /\ a.await = attempts[j].await /\ a.release = attempts[j].release
          /\ a.replayed = attempts[j].replayed /\ a.cancel = attempts[j].cancel /\ a.call = "running"
      BY <1>1, <2>1 DEF Attempt
    <2>4. AttemptSound(a)
      BY <1>1, <2>3 DEF AttemptSound
    <2>5. faults = 0 => InOrder(a, j, Len(attempts)) /\ client
      BY <1>1, <1>2, <2>3 DEF InOrder, Working, InHelper
    <2>6. GoesOn(attempts[j], a)
      BY <1>1, <2>3 DEF GoesOn, Working, InHelper
    <2> QED BY <1>1, <1>2, <2>2, <2>3, <2>4, <2>5, <2>6, HelperOne
  <1>4. CASE Active # {}
    <2>1. PICK a : a = [attempts[j] EXCEPT !.call = "refused"]
      OBVIOUS
    <2>2. attempts' = [attempts EXCEPT ![j] = a] /\ results' = results
      BY <1>4, <2>1 DEF TakeJob
    <2>3. /\ a \in Attempt
          /\ a.await = attempts[j].await /\ a.release = attempts[j].release /\ a.call = "refused"
      BY <1>1, <2>1 DEF Attempt, Outcome
    <2>4. AttemptSound(a)
      BY <1>1, <2>3 DEF AttemptSound
    <2>5. faults # 0
      <3>1. PICK i \in DOMAIN attempts : attempts[i].call \in {"running", "stopping"}
        BY <1>4 DEF Active
      <3>2. PICK n \in Nat : n = Len(attempts) /\ i \in 1 .. n /\ j \in 1 .. n
        BY AttemptFacts, SeqFacts
      <3>3. faults = 0 => Ordered(attempts, n)
        BY <3>2 DEF HelperInv, Jobs
      <3>4. attempts[i].call \in Working /\ attempts[j].call \in Working
        BY <1>1, <3>1 DEF Working, InHelper
      <3>5. "none" \notin Working /\ i # j
        BY <1>1, <3>1 DEF Working, InHelper
      <3>6. i < j \/ j < i
        BY <3>2, <3>5
      <3> QED BY <3>2, <3>3, <3>4, <3>5, <3>6 DEF Ordered
    <2> QED BY <1>1, <1>2, <2>2, <2>3, <2>4, <2>5, HelperOne
  <1> QED BY <1>3, <1>4

LEMMA HelperEndJob ==
    ASSUME HelperInv, NEW j \in DOMAIN attempts, NEW outcome \in {"result", "empty", "failed"},
           EndJob(j, outcome)
    PROVE  HelperInv'
  <1>1. PICK a : a = [attempts[j] EXCEPT !.call = outcome]
    OBVIOUS
  <1>2. attempts' = [attempts EXCEPT ![j] = a]
    BY <1>1 DEF EndJob
  <1>3. /\ attempts[j].call = "running" /\ attempts[j] \in Attempt /\ AttemptSound(attempts[j])
        /\ j \notin completed
        /\ faults = 0 => InOrder(attempts[j], j, Len(attempts)) /\ client = alive
    BY AttemptFacts DEF EndJob, AttemptSound
  <1>4. /\ a \in Attempt
        /\ a.await = attempts[j].await /\ a.release = attempts[j].release
        /\ a.replayed = attempts[j].replayed /\ a.call = outcome
    BY <1>1, <1>3 DEF Attempt, Outcome
  <1>5. AttemptSound(a)
    BY <1>3, <1>4 DEF AttemptSound
  <1>6. /\ client' = client /\ alive' = alive /\ faults' = faults
        /\ client \in BOOLEAN /\ alive \in BOOLEAN /\ faults \in 0 .. MaxFaults /\ alive
    BY DEF EndJob, HelperInv
  <1>7. /\ results' \subseteq results \cup {j} /\ completed' \subseteq completed \cup {j}
        /\ outcome # "result" => j \notin results' /\ j \notin completed'
    BY <1>3 DEF EndJob
  <1>8. faults = 0 => InOrder(a, j, Len(attempts)) /\ client
    BY <1>3, <1>4, <1>6, Done DEF Working, InHelper
  <1>9. GoesOn(attempts[j], a)
    BY <1>3, <1>4 DEF GoesOn, Working, InHelper
  <1> QED BY <1>2, <1>3, <1>4, <1>5, <1>6, <1>7, <1>8, <1>9, HelperOne

LEMMA HelperStopJob ==
    ASSUME HelperInv, NEW j \in DOMAIN attempts, NEW outcome \in {"result", "cancelled"},
           StopJob(j, outcome)
    PROVE  HelperInv'
  <1>1. PICK a : a = [attempts[j] EXCEPT !.call = outcome, !.cancel = "none"]
    OBVIOUS
  <1>2. attempts[j].call = "stopping" /\ attempts[j] \in Attempt /\ AttemptSound(attempts[j])
    BY AttemptFacts DEF StopJob
  <1>3. attempts' = [attempts EXCEPT ![j] = a]
    <2>1. attempts' = [attempts EXCEPT ![j] = [attempts[j] EXCEPT !.call = outcome, !.cancel = "none"]]
      BY DEF StopJob
    <2> QED BY <1>1, <2>1
  <1>4. /\ a \in Attempt
        /\ a.await = attempts[j].await /\ a.release = attempts[j].release
        /\ a.replayed = attempts[j].replayed /\ a.call = outcome
    BY <1>1, <1>2 DEF Attempt, Outcome
  <1>5. AttemptSound(a)
    BY <1>2, <1>4 DEF AttemptSound
  <1>6. /\ client' = client /\ alive' = alive /\ faults' = faults
        /\ client \in BOOLEAN /\ alive \in BOOLEAN /\ faults \in 0 .. MaxFaults /\ alive
    BY DEF StopJob, HelperInv
  <1>7. j \notin completed /\ (faults = 0 => InOrder(attempts[j], j, Len(attempts)) /\ client = alive)
    BY <1>2, AttemptFacts DEF AttemptSound
  <1>8. /\ results' \subseteq results \cup {j} /\ completed' \subseteq completed \cup {j}
        /\ j \notin results' /\ (outcome # "result" => j \notin completed')
    BY <1>7 DEF StopJob
  <1>9. faults = 0 => InOrder(a, j, Len(attempts)) /\ client
    BY <1>4, <1>6, <1>7, Done DEF Working, InHelper
  <1>10. GoesOn(attempts[j], a)
    BY <1>2, <1>4 DEF GoesOn, Working, InHelper
  <1> QED BY <1>3, <1>4, <1>5, <1>6, <1>7, <1>8, <1>9, <1>10, HelperOne

LEMMA HelperAnswerCancel ==
    ASSUME HelperInv, NEW j \in DOMAIN attempts, AnswerCancel(j)
    PROVE  HelperInv'
  <1>1. /\ attempts[j].cancel = "posted" /\ attempts[j] \in Attempt /\ AttemptSound(attempts[j])
        /\ faults = 0 => InOrder(attempts[j], j, Len(attempts)) /\ client = alive
    BY AttemptFacts DEF AnswerCancel, Claims
  <1>2. /\ client' = client /\ alive' = alive /\ results' = results /\ completed' = completed
        /\ client \in BOOLEAN /\ alive \in BOOLEAN /\ alive
    BY DEF AnswerCancel, Claims, HelperInv, helperVars
  <1>3. CASE attempts[j].call = "running"
    <2>1. PICK a : a = [attempts[j] EXCEPT !.call = "stopping", !.cancel = "stopping"]
      OBVIOUS
    <2>2. attempts' = [attempts EXCEPT ![j] = a]
      <3>1. attempts' = [attempts EXCEPT ![j].call = "stopping", ![j].cancel = "stopping"]
        BY <1>3, Zenon DEF AnswerCancel
      <3>2. attempts' = [attempts EXCEPT ![j] = [attempts[j] EXCEPT !.call = "stopping", !.cancel = "stopping"]]
        BY <3>1
      <3> QED BY <2>1, <3>2
    <2>3. /\ a \in Attempt
          /\ a.await = attempts[j].await /\ a.release = attempts[j].release
          /\ a.status = attempts[j].status /\ a.cancel = "stopping"
          /\ a.replayed = attempts[j].replayed /\ a.call = "stopping"
      BY <1>1, <2>1 DEF Attempt
    <2>4. AttemptSound(a)
      BY <1>1, <1>3, <2>3 DEF AttemptSound
    <2>5. faults = 0 => InOrder(a, j, Len(attempts)) /\ client
      BY <1>1, <1>2, <2>3 DEF InOrder
    <2>6. GoesOn(attempts[j], a)
      BY <1>3, <2>3 DEF GoesOn, Working, InHelper
    <2>7. faults' = faults /\ faults \in 0 .. MaxFaults
      BY <1>3 DEF AnswerCancel, HelperInv
    <2>8. j \notin completed
      BY <1>1, <1>3, AttemptFacts DEF AttemptSound
    <2> QED BY <1>1, <1>2, <2>2, <2>3, <2>4, <2>5, <2>6, <2>7, <2>8, HelperOne
  <1>4. CASE attempts[j].call # "running"
    <2>1. PICK a : a = [attempts[j] EXCEPT !.cancel = "none"]
      OBVIOUS
    <2>2. attempts' = [attempts EXCEPT ![j] = a]
      BY <1>4, <2>1 DEF AnswerCancel
    <2>3. /\ a \in Attempt
          /\ a.await = attempts[j].await /\ a.release = attempts[j].release
          /\ a.replayed = attempts[j].replayed /\ a.call = attempts[j].call
          /\ a.status = attempts[j].status /\ a.cancel = "none"
      BY <1>1, <2>1 DEF Attempt
    <2>4. AttemptSound(a)
      BY <1>1, <2>3 DEF AttemptSound
    <2>5. /\ faults' \in 0 .. MaxFaults
          /\ faults' = 0 => faults = 0 /\ (j \in completed \/ ~Pending(j))
      <3>1. CASE j \in completed \/ ~Pending(j)
        <4>1. faults' = faults
          BY <1>4, <3>1 DEF AnswerCancel
        <4> QED BY <3>1, <4>1 DEF HelperInv
      <3>2. CASE ~(j \in completed \/ ~Pending(j))
        <4>1. Fault
          BY <1>4, <3>2 DEF AnswerCancel
        <4> QED BY <4>1, FaultStep
      <3> QED BY <3>1, <3>2
    <2>6. j \in completed \/ ~Pending(j) => a.call \in {"result", "over"}
      BY <1>1, <2>3, AttemptFacts DEF AttemptSound, Pending
    <2>7. faults' = 0 => faults = 0 /\ InOrder(a, j, Len(attempts)) /\ client
      <3>1. a.call \in {"result", "over"} =>
              a.call \notin Working /\ a.call # "refused" /\ a.call # "unavailable"
        BY DEF Working, InHelper
      <3> QED BY <1>1, <1>2, <2>3, <2>5, <2>6, <3>1, Done
    <2>8. GoesOn(attempts[j], a)
      BY <2>3 DEF GoesOn
    <2>9. /\ j \in results => a.call \in {"running", "stopping", "result"} \/ a.release
          /\ j \in completed => a.call = "result" \/ a.release
      BY <2>3, AttemptFacts
    <2>10. faults' = 0 => client' = alive'
      BY <1>1, <1>2, <2>5
    <2> QED BY <1>2, <2>2, <2>3, <2>4, <2>5, <2>7, <2>8, <2>9, <2>10, HelperOne
  <1> QED BY <1>3, <1>4

\* A step that leaves the attempts alone, and fails, or serves.
LEMMA HelperOnly ==
    ASSUME HelperInv, UNCHANGED <<attempts, results, completed>>,
           client' \in BOOLEAN, alive' \in BOOLEAN, faults' \in 0 .. MaxFaults,
           faults' = 0 => faults = 0 /\ client' /\ alive'
    PROVE  HelperInv'
  BY DEF HelperInv, Jobs

LEMMA HelperExitsStep ==
    ASSUME HelperInv, HelperExits
    PROVE  HelperInv'
  <1>1. faults' \in 0 .. MaxFaults /\ faults' # 0
    BY FaultStep DEF HelperExits
  <1>2. UNCHANGED <<attempts, results, completed>> /\ client' = client /\ alive' = FALSE /\ client \in BOOLEAN
    BY DEF HelperExits, HelperInv
  <1> QED BY <1>1, <1>2, HelperOnly

LEMMA HelperBootstrap ==
    ASSUME HelperInv, BootstrapSucceeds \/ BootstrapFails
    PROVE  HelperInv'
  <1>1. CASE BootstrapSucceeds
    <2>1. /\ UNCHANGED <<attempts, results, completed>> /\ faults' = faults /\ faults \in 0 .. MaxFaults
          /\ client' = TRUE /\ alive' = TRUE
      BY <1>1 DEF BootstrapSucceeds, HelperServes, HelperInv
    <2> QED BY <2>1, HelperOnly
  <1>2. CASE BootstrapFails
    <2>1. faults' \in 0 .. MaxFaults /\ faults' # 0
      BY <1>2, FaultStep DEF BootstrapFails
    <2>2. UNCHANGED <<attempts, results, completed>> /\ client' \in BOOLEAN /\ alive' \in BOOLEAN
      BY <1>2 DEF BootstrapFails, HelperInv, helperVars
    <2> QED BY <2>1, <2>2, HelperOnly
  <1> QED BY <1>1, <1>2

\* An attempt that waited starts: nothing is cancelled, so the ones before it
\* do not work any more.
LEMMA HelperBarrierOpens ==
    ASSUME HelperInv, NEW j \in DOMAIN attempts, BarrierOpens(j)
    PROVE  HelperInv'
  <1>1. /\ attempts[j].await = "barrier" /\ attempts[j] \in Attempt /\ attempts[j].call = "none"
        /\ attempts \in Seq(Attempt) /\ DOMAIN attempts = 1 .. Len(attempts)
        /\ \A i \in DOMAIN attempts : attempts[i].cancel = "none"
    BY AttemptFacts, SeqFacts DEF BarrierOpens, AttemptSound, Cancelling
  <1>2. UNCHANGED helperVars /\ faults' = faults
    BY DEF BarrierOpens
  <1>3. ~attempts[j].release /\ j \notin results /\ j \notin completed
    BY <1>1, AttemptFacts DEF AttemptSound
  <1>4. CASE Accepts(j)
    <2>1. PICK a : a = Started(attempts[j])
      OBVIOUS
    <2>2. attempts' = [attempts EXCEPT ![j] = a]
      BY <1>4, <2>1, Zenon DEF BarrierOpens, Update
    <2>3. /\ a \in Attempt
          /\ a.await = "race" /\ a.call = "reaching" /\ a.release = attempts[j].release
          /\ a.status = "preparing" /\ a.cancel = "none" /\ a.replayed = attempts[j].replayed
      BY <1>1, <1>4, <2>1 DEF Attempt, Started, Accepts
    <2>4. AttemptSound(a)
      BY <1>3, <2>3 DEF AttemptSound
    <2>5. PICK n \in Nat : Size(attempts, n) /\ j = n /\ j \in 1 .. n
      <3>0. attempts \in Seq(Attempt)
        BY <1>1
      <3>1. PICK n \in Nat : Size(attempts, n)
        BY <3>0, SeqFacts DEF Size
      <3>2. j = n /\ j \in 1 .. n
        BY <1>1, <1>4, <3>1 DEF Size, Accepts
      <3> QED BY <3>1, <3>2
    <2>6. /\ Sound(attempts, n) /\ Kept(attempts, n, results, completed)
          /\ faults = 0 => /\ client = alive /\ Ordered(attempts, n)
                           /\ client \/ Unserved(attempts, n)
      BY <2>5 DEF HelperInv, Jobs, Size
    <2>7. attempts' \in Seq(Attempt) /\ Len(attempts') = n /\ Changed(attempts, attempts', n, j, a)
      BY <1>1, <2>2, <2>3, <2>5, OneChanges DEF Size
    <2>8. Sound(attempts', n)
      BY <2>4, <2>5, <2>6, <2>7, OneSound
    <2>9. Kept(attempts', n, results', completed')
      <3>1. results' = results /\ completed' = completed
        BY <1>2 DEF helperVars
      <3> QED BY <1>3, <2>6, <2>7, <3>1 DEF Kept, Changed
    <2>10. ASSUME faults = 0
           PROVE  client = alive /\ Ordered(attempts', n) /\ (client \/ Unserved(attempts', n))
      <3>1. InOrder(a, j, n)
        <4>1. InOrder(attempts[j], j, n)
          BY <2>5, <2>6, <2>10 DEF Ordered
        <4> QED BY <2>3, <2>5, <4>1 DEF InOrder
      <3>2. \A i \in 1 .. n : i < j => attempts[i].call \notin Working
        <4>1. ASSUME NEW i \in 1 .. n, i < j
              PROVE  attempts[i].call \notin Working
          <5>1. i # n /\ i \in DOMAIN attempts
            BY <1>1, <2>5, <4>1 DEF Size
          <5>2. InOrder(attempts[i], i, n) /\ attempts[i].cancel = "none"
            BY <1>1, <2>6, <2>10, <5>1 DEF Ordered
          <5> QED BY <5>1, <5>2 DEF InOrder
        <4> QED BY <4>1
      <3>3. \A i \in 1 .. n : j < i => attempts[i].call = "none"
        BY <2>5
      <3>4. Ordered(attempts', n)
        BY <2>5, <2>6, <2>7, <2>10, <3>1, <3>2, <3>3, OneOrdered
      <3>5. client \/ Unserved(attempts', n)
        BY <2>3, <2>5, <2>6, <2>7, <2>10, OneUnserved DEF InHelper
      <3> QED BY <2>6, <2>10, <3>4, <3>5
    <2>11. Jobs(attempts', results', completed', client, alive, faults)
      BY <2>7, <2>8, <2>9, <2>10 DEF Jobs
    <2> QED BY <1>2, <2>11 DEF HelperInv, helperVars
  <1>5. CASE ~Accepts(j)
    <2>1. PICK a : a = [attempts[j] EXCEPT !.await = "none"]
      OBVIOUS
    <2>2. attempts' = [attempts EXCEPT ![j] = a]
      <3>1. Returns(j, [attempts[j] EXCEPT !.await = "none"])
        BY <1>5, Zenon DEF BarrierOpens
      <3>2. attempts' = [attempts EXCEPT ![j] = [attempts[j] EXCEPT !.await = "none"]]
        BY <3>1, Returned, Zenon DEF Returns, Update
      <3> QED BY <2>1, <3>2
    <2>3. /\ a \in Attempt
          /\ a.await = "none" /\ a.call = "none" /\ a.release = attempts[j].release
          /\ a.replayed = attempts[j].replayed
      BY <1>1, <2>1 DEF Attempt
    <2>4. AttemptSound(a)
      BY <1>3, <2>3 DEF AttemptSound
    <2>5. faults = 0 => InOrder(a, j, Len(attempts))
      <3>1. faults = 0 => InOrder(attempts[j], j, Len(attempts))
        BY AttemptFacts
      <3> QED BY <2>3, <3>1, Done DEF Working, InHelper
    <2>6. GoesOn(attempts[j], a) /\ a.call \notin InHelper
      BY <2>3 DEF GoesOn, Working, InHelper
    <2> QED BY <1>2, <1>3, <2>2, <2>3, <2>4, <2>5, <2>6, HelperWindowOne
  <1> QED BY <1>4, <1>5

GivenUp(b) ==
    [b EXCEPT !.call = IF @ \in InHelper THEN "unavailable" ELSE @,
              !.cancel = IF @ \in {"posted", "stopping"} THEN "none" ELSE @]

\* The client is given up: without a fault only because an overtaken job lasts.
LEMMA HelperCallTimesOut ==
    ASSUME HelperInv, CallTimesOut
    PROVE  HelperInv'
  <1>a. attempts' = [j \in DOMAIN attempts |-> GivenUp(attempts[j])]
    BY Zenon DEF CallTimesOut, GivenUp
  <1>b. client /\ client' = FALSE /\ alive' = FALSE /\ results' = {} /\ completed' = {}
    BY Zenon DEF CallTimesOut
  <1>c. \/ /\ alive /\ \A i \in DOMAIN attempts : Accepts(i) \/ attempts[i].call \notin InHelper
           /\ Fault
        \/ /\ ~(alive /\ \A i \in DOMAIN attempts : Accepts(i) \/ attempts[i].call \notin InHelper)
           /\ faults' = faults
    BY Zenon DEF CallTimesOut
  <1>1. PICK n \in Nat : n = Len(attempts) /\ DOMAIN attempts = 1 .. n
    BY SeqFacts DEF HelperInv, Jobs
  <1>2. /\ attempts \in Seq(Attempt) /\ Sound(attempts, n)
        /\ faults = 0 => client = alive /\ Ordered(attempts, n)
    BY <1>1 DEF HelperInv, Jobs
  <1>3. \A j \in 1 .. n : attempts[j] \in Attempt
    BY <1>1, <1>2, SeqFacts
  <1>4. \A j \in 1 .. n :
          /\ attempts'[j] \in Attempt
          /\ attempts'[j].call = IF attempts[j].call \in InHelper THEN "unavailable" ELSE attempts[j].call
          /\ attempts'[j].cancel = IF attempts[j].cancel \in {"posted", "stopping"} THEN "none"
                                                                             ELSE attempts[j].cancel
          /\ attempts'[j].status = attempts[j].status /\ attempts'[j].await = attempts[j].await
          /\ attempts'[j].release = attempts[j].release /\ attempts'[j].replayed = attempts[j].replayed
    <2>1. ASSUME NEW b \in Attempt, NEW a, a = GivenUp(b)
          PROVE  /\ a \in Attempt
                 /\ a.call = IF b.call \in InHelper THEN "unavailable" ELSE b.call
                 /\ a.cancel = IF b.cancel \in {"posted", "stopping"} THEN "none" ELSE b.cancel
                 /\ a.status = b.status /\ a.await = b.await
                 /\ a.release = b.release /\ a.replayed = b.replayed
      BY <2>1 DEF Attempt, Outcome, GivenUp
    <2>2. \A j \in 1 .. n : attempts'[j] = GivenUp(attempts[j])
      BY <1>1, <1>a
    <2> QED BY <1>3, <2>1, <2>2
  <1>5. attempts' \in Seq(Attempt) /\ Len(attempts') = n
    <2>1. attempts' \in [1 .. n -> Attempt]
      <3>1. attempts' = [j \in 1 .. n |-> GivenUp(attempts[j])]
        BY <1>1, <1>a
      <3>2. attempts' = [j \in 1 .. n |-> attempts'[j]]
        BY <3>1
      <3> QED BY <1>4, <3>2
    <2>2. attempts' \in Seq(Attempt)
      BY <2>1, SeqDef
    <2>3. DOMAIN attempts' = 1 .. n
      BY <2>1
    <2>4. Len(attempts') = n
      BY <2>2, <2>3, LenProperties
    <2> QED BY <2>2, <2>4
  <1>6. Sound(attempts', n)
    BY <1>2, <1>4 DEF Sound, AttemptSound, InHelper
  <1>7. client' = FALSE /\ alive' = FALSE /\ Kept(attempts', n, results', completed')
    BY <1>b DEF Kept
  <1>8. Unserved(attempts', n)
    BY <1>4 DEF Unserved, InHelper
  <1>9. ASSUME faults' = 0
        PROVE  Ordered(attempts', n)
    <2>1. ~(alive /\ \A i \in DOMAIN attempts : Accepts(i) \/ attempts[i].call \notin InHelper)
      BY <1>9, <1>c, FaultStep
    <2>2. faults = 0
      BY <1>9, <1>c, <2>1
    <2>3. alive
      BY <1>2, <1>b, <2>2
    <2>4. PICK i \in 1 .. n : attempts[i].call \in InHelper /\ ~Accepts(i)
      BY <1>1, <2>1, <2>3
    <2>5. Ordered(attempts, n)
      BY <1>2, <2>2
    <2>6. ASSUME NEW j \in 1 .. n
          PROVE  InOrder(attempts'[j], j, n)
      <3>1. InOrder(attempts[j], j, n)
        BY <2>5 DEF Ordered
      <3>2. CASE attempts[j].call \in InHelper
        <4>1. ~(j = n /\ attempts[j].status = "preparing")
          <5>1. SUFFICES ASSUME j = n, attempts[j].status = "preparing" PROVE FALSE
            OBVIOUS
          <5>2. i # n
            BY <1>1, <2>4, <5>1 DEF Accepts
          <5>3. i < j /\ attempts[j].call # "none" /\ attempts[i].call \in Working
            BY <2>4, <3>2, <5>1, <5>2 DEF InHelper, Working
          <5> QED BY <2>5, <5>3 DEF Ordered
        <4> QED BY <1>4, <3>1, <3>2, <4>1 DEF InOrder, Working, InHelper
      <3>3. CASE attempts[j].call \notin InHelper
        BY <1>4, <3>1, <3>3 DEF InOrder, Working
      <3> QED BY <3>2, <3>3
    <2>7. ASSUME NEW h \in 1 .. n, NEW j \in 1 .. n, h < j, attempts'[j].call # "none"
          PROVE  attempts'[h].call \notin Working
      <3>1. attempts[j].call # "none"
        BY <1>4, <2>7 DEF InHelper
      <3>2. attempts[h].call \notin Working
        BY <2>5, <2>7, <3>1 DEF Ordered
      <3> QED BY <1>4, <3>2 DEF Working, InHelper
    <2> QED BY <2>6, <2>7 DEF Ordered
  <1>10. faults' \in 0 .. MaxFaults
    BY <1>c, FaultStep DEF HelperInv
  <1>11. Jobs(attempts', results', completed', client', alive', faults')
    BY <1>5, <1>6, <1>7, <1>8, <1>9 DEF Jobs
  <1> QED BY <1>7, <1>10, <1>11 DEF HelperInv
-----------------------------------------------------------------------------
(* The owner's part. *)

LEMMA KeyFacts ==
    /\ None \notin Track /\ None \notin State
    /\ \A k \in Key : k.epoch \in 0 .. MaxEpoch
  BY PreparationAssumption DEF Key

LEMMA KeyNowFacts ==
    ASSUME OwnerTypes
    PROVE  KeyNow \in Key \cup {None}
  BY DEF OwnerTypes, KeyNow, Key

\* The attempts are as long, and the last one is as it was for the sidebar.
SameLast(as, bs) ==
    /\ as = <<>> <=> bs = <<>>
    /\ as # <<>> => View(bs) = View(as) /\ bs[Len(bs)].key = as[Len(as)].key

LEMMA OwnerQuiet ==
    ASSUME OwnerInv, SameLast(attempts, attempts'), UNCHANGED <<windowVars, ownerVars, bootVars>>
    PROVE  OwnerInv'
  <1>1. /\ selected' = selected /\ mediaEpoch' = mediaEpoch /\ enabled' = enabled
        /\ key' = key /\ shown' = shown /\ source' = source
        /\ boot' = boot /\ bootEpoch' = bootEpoch /\ failedEpoch' = failedEpoch /\ waiting' = waiting
    BY DEF windowVars, ownerVars, bootVars
  <1>2. OwnerTypes'
    BY <1>1 DEF OwnerInv, OwnerTypes
  <1>3. LoadsSound'
    BY <1>1 DEF OwnerInv, LoadsSound, SameLast
  <1>4. KeySound'
    BY <1>1 DEF OwnerInv, KeySound, SameLast
  <1>5. SidebarTellsView'
    <2>1. attempts' # <<>> => View(attempts') = View(attempts)
      BY DEF SameLast
    <2> QED BY <1>1, <2>1 DEF OwnerInv, SidebarTellsView, KeySound, SameLast
  <1> QED BY <1>2, <1>3, <1>4, <1>5 DEF OwnerInv

\* One attempt changes.
LEMMA OneLast ==
    ASSUME NEW as \in Seq(Attempt), NEW j \in 1 .. Len(as), NEW a \in Attempt,
           a.key = as[j].key
    PROVE  /\ as # <<>> /\ [as EXCEPT ![j] = a] # <<>>
           /\ [as EXCEPT ![j] = a][Len([as EXCEPT ![j] = a])].key = as[Len(as)].key
           /\ View([as EXCEPT ![j] = a]) = IF j = Len(as) THEN a.status ELSE View(as)
  <1>1. PICK n \in Nat : Size(as, n)
    BY SeqFacts DEF Size
  <1>2. PICK bs : bs = [as EXCEPT ![j] = a]
    OBVIOUS
  <1>3. /\ bs \in Seq(Attempt) /\ Len(bs) = n /\ Changed(as, bs, n, j, a)
        /\ j \in 1 .. n
    BY <1>1, <1>2, OneChanges DEF Size
  <1>4. n # 0 /\ n \in 1 .. n
    BY <1>3
  <1>5. as # <<>> /\ bs # <<>>
    BY <1>1, <1>3, <1>4, SeqFacts DEF Size
  <1>6. bs[n] = IF n = j THEN a ELSE as[n]
    BY <1>3, <1>4 DEF Changed
  <1>7. View(bs) = bs[n].status /\ View(as) = as[n].status
    BY <1>1, <1>3, <1>5 DEF View, Size
  <1>8. bs[n].key = as[n].key
    BY <1>6
  <1>9. View(bs) = IF j = n THEN a.status ELSE View(as)
    BY <1>6, <1>7
  <1> QED BY <1>1, <1>2, <1>3, <1>5, <1>8, <1>9 DEF Size

LEMMA OneSameLast ==
    ASSUME NEW as \in Seq(Attempt), NEW j \in 1 .. Len(as), NEW a \in Attempt,
           a.key = as[j].key, a.status = as[j].status
    PROVE  SameLast(as, [as EXCEPT ![j] = a])
  <1>1. /\ as # <<>> /\ [as EXCEPT ![j] = a] # <<>>
        /\ [as EXCEPT ![j] = a][Len([as EXCEPT ![j] = a])].key = as[Len(as)].key
        /\ View([as EXCEPT ![j] = a]) = IF j = Len(as) THEN a.status ELSE View(as)
    BY OneLast
  <1>2. j = Len(as) => View(as) = a.status
    BY <1>1, LastFacts
  <1> QED BY <1>1, <1>2 DEF SameLast

\* Nothing waits for the coordinator, and the last attempt is the one the window
\* wants, when something else than the continuation of promises happens.
LEMMA SettledFacts ==
    ASSUME OwnerInv, Settled
    PROVE  /\ attempts # <<>> => boot = "there"
           /\ boot # "starting" => waiting = <<>>
           /\ boot = "starting" => waiting # <<>> /\ attempts = <<>>
  BY DEF OwnerInv, OwnerTypes, LoadsSound, Settled

\* The window is told of an attempt's state.
LEMMA OwnerTold ==
    ASSUME OwnerInv, HelperInv, NEW j \in DOMAIN attempts, NEW a \in Attempt,
           a.key = attempts[j].key, attempts' = [attempts EXCEPT ![j] = a],
           waiting = <<>> \/ a.status = attempts[j].status,
           shown' = IF Owns(a.key) THEN View(attempts') ELSE shown,
           key' = key, source' \in Key \cup {None}, UNCHANGED <<windowVars, bootVars>>
    PROVE  OwnerInv'
  <1>1. /\ selected' = selected /\ mediaEpoch' = mediaEpoch /\ enabled' = enabled
        /\ boot' = boot /\ bootEpoch' = bootEpoch /\ failedEpoch' = failedEpoch /\ waiting' = waiting
    BY DEF windowVars, bootVars
  <1>2. attempts \in Seq(Attempt) /\ j \in 1 .. Len(attempts)
    BY AttemptFacts
  <1>3. PICK as : as = attempts'
    OBVIOUS
  <1>4. /\ attempts # <<>> /\ as # <<>>
        /\ as[Len(as)].key = attempts[Len(attempts)].key
        /\ View(as) = IF j = Len(attempts) THEN a.status ELSE View(attempts)
    <2>1. as = [attempts EXCEPT ![j] = a]
      BY <1>3
    <2>2. /\ attempts # <<>> /\ [attempts EXCEPT ![j] = a] # <<>>
          /\ [attempts EXCEPT ![j] = a][Len([attempts EXCEPT ![j] = a])].key = attempts[Len(attempts)].key
          /\ View([attempts EXCEPT ![j] = a]) = IF j = Len(attempts) THEN a.status ELSE View(attempts)
      BY <1>2, OneLast
    <2> QED BY <2>1, <2>2
  <1>5. View(attempts) = attempts[Len(attempts)].status /\ Len(attempts) \in 1 .. Len(attempts)
    BY <1>2, <1>4, LastFacts
  <1>6. View(as) \in State
    <2>1. a.status \in State /\ attempts[Len(attempts)] \in Attempt
      BY <1>2, <1>4, LastFacts DEF Attempt
    <2>2. View(attempts) \in State
      BY <1>5, <2>1 DEF Attempt
    <2> QED BY <1>4, <2>1, <2>2
  <1>7. boot = "there"
    BY <1>4 DEF OwnerInv, LoadsSound
  <1>8. waiting # <<>> => View(as) = View(attempts)
    BY <1>4, <1>5
  <1>9. OwnerTypes'
    BY <1>1, <1>3, <1>6 DEF OwnerInv, OwnerTypes
  <1>10. waiting # <<>> => View(as) = "preparing"
    BY <1>4, <1>8 DEF OwnerInv, LoadsSound
  <1>11. LoadsSound'
    <2>1. waiting # <<>> /\ key # None => shown' = "preparing"
      BY <1>3, <1>10 DEF OwnerInv, LoadsSound
    <2> QED BY <1>1, <1>3, <1>4, <1>7, <1>10, <2>1 DEF OwnerInv, LoadsSound
  <1>12. KeySound'
    BY <1>1, <1>3, <1>4, <1>7 DEF OwnerInv, KeySound
  <1>13. SidebarTellsView'
    <2>1. SUFFICES ASSUME key # None, waiting = <<>>
                   PROVE  shown' = View(as)
      BY <1>1, <1>3, <1>7 DEF SidebarTellsView
    <2>2. enabled /\ attempts[Len(attempts)].key = key /\ shown = View(attempts)
      BY <1>7, <2>1 DEF OwnerInv, KeySound, SidebarTellsView
    <2>3. CASE Owns(a.key)
      BY <1>3, <2>3
    <2>4. CASE ~Owns(a.key)
      <3>1. j # Len(attempts)
        BY <2>2, <2>4 DEF Owns
      <3> QED BY <1>4, <2>2, <2>4, <3>1
    <2> QED BY <2>3, <2>4
  <1> QED BY <1>9, <1>11, <1>12, <1>13 DEF OwnerInv

\* The window forgets what it has: then nothing waits, or nothing is attempted.
LEMMA OwnerForgets ==
    ASSUME OwnerInv, NEW as \in Seq(Attempt), attempts' = Invalidated(as),
           attempts = <<>> <=> as = <<>>, waiting = <<>> \/ attempts = <<>>,
           key' = None, shown' = None, source' \in Key \cup {None},
           selected' \in Track \cup {None}, mediaEpoch' \in 0 .. MaxEpoch, enabled' \in BOOLEAN,
           UNCHANGED bootVars
    PROVE  OwnerInv'
  <1>1. boot' = boot /\ bootEpoch' = bootEpoch /\ failedEpoch' = failedEpoch /\ waiting' = waiting
    BY DEF bootVars
  <1>2. attempts = <<>> <=> attempts' = <<>>
    BY InvalidatedSeq
  <1>3. OwnerTypes'
    BY <1>1 DEF OwnerInv, OwnerTypes
  <1>4. LoadsSound'
    BY <1>1, <1>2 DEF OwnerInv, LoadsSound
  <1> QED BY <1>3, <1>4 DEF OwnerInv, KeySound, SidebarTellsView

LEMMA OwnerLoads ==
    ASSUME OwnerInv, HelperInv, Settled, NEW k \in Key, Load(k), enabled' = TRUE,
           selected' \in Track \cup {None}, mediaEpoch' \in 0 .. MaxEpoch
    PROVE  OwnerInv'
  <1>1. attempts \in Seq(Attempt)
    BY DEF HelperInv, Jobs
  <1>2. k.epoch \in 0 .. MaxEpoch
    BY KeyFacts
  <1>3. key' = k /\ source' = None
    BY DEF Load
  <1>4. CASE boot = "there"
    <2>1. attempts' = WithNewAttempt(attempts, k) /\ shown' = "preparing" /\ UNCHANGED bootVars
      BY <1>4 DEF Load
    <2>2. boot' = boot /\ bootEpoch' = bootEpoch /\ failedEpoch' = failedEpoch /\ waiting' = waiting
      BY <2>1 DEF bootVars
    <2>3. attempts' # <<>> /\ attempts'[Len(attempts')].key = k /\ View(attempts') = "preparing"
      BY <1>1, <2>1, NewSeq
    <2>4. waiting = <<>>
      BY <1>4, SettledFacts
    <2>5. OwnerTypes'
      BY <1>3, <2>1, <2>2 DEF OwnerInv, OwnerTypes, State
    <2>6. LoadsSound'
      BY <1>4, <2>2, <2>4 DEF LoadsSound
    <2>7. KeySound' /\ SidebarTellsView'
      BY <1>3, <2>1, <2>3 DEF KeySound, SidebarTellsView
    <2> QED BY <2>5, <2>6, <2>7 DEF OwnerInv
  <1>5. CASE boot = "none" /\ failedEpoch = k.epoch
    <2>1. /\ attempts' = attempts /\ shown' = "failed"
          /\ boot' = boot /\ bootEpoch' = bootEpoch /\ failedEpoch' = failedEpoch /\ waiting' = waiting
      BY <1>5 DEF Load
    <2>2. OwnerTypes'
      BY <1>3, <2>1 DEF OwnerInv, OwnerTypes, State
    <2>3. LoadsSound'
      BY <1>5, <2>1 DEF OwnerInv, LoadsSound
    <2> QED BY <1>5, <2>1, <2>2, <2>3 DEF OwnerInv, KeySound, SidebarTellsView
  <1>6. CASE boot # "there" /\ ~(boot = "none" /\ failedEpoch = k.epoch)
    <2>1. /\ attempts' = attempts /\ failedEpoch' = failedEpoch /\ shown' = "preparing"
          /\ waiting' = Append(waiting, k) /\ boot' = "starting"
          /\ bootEpoch' = IF boot = "none" THEN k.epoch ELSE bootEpoch
      BY <1>6 DEF Load
    <2>2. attempts = <<>> /\ waiting \in Seq(Key)
      BY <1>6 DEF OwnerInv, OwnerTypes, LoadsSound
    <2>3. /\ waiting' \in Seq(Key) /\ waiting' # <<>>
          /\ waiting'[Len(waiting')] = k
      BY <2>1, <2>2, AppendProperties
    <2>4. OwnerTypes'
      BY <1>2, <1>3, <2>1, <2>3 DEF OwnerInv, OwnerTypes, State
    <2>5. LoadsSound'
      BY <1>3, <2>1, <2>2, <2>3 DEF LoadsSound
    <2> QED BY <2>1, <2>4, <2>5 DEF OwnerInv, KeySound, SidebarTellsView
  <1> QED BY <1>4, <1>5, <1>6

LEMMA SelectionFacts ==
    ASSUME PreparationInv
    PROVE  /\ attempts \in Seq(Attempt)
           /\ selected \in Track \cup {None} /\ mediaEpoch \in 0 .. MaxEpoch /\ enabled \in BOOLEAN
           /\ source \in Key \cup {None} /\ key \in Key \cup {None}
           /\ KeyNow \in Key \cup {None}
           /\ MaxEpoch \in Nat
  <1>1. KeyNow \in Key \cup {None}
    BY KeyNowFacts DEF PreparationInv, OwnerInv
  <1> QED BY <1>1, PreparationAssumption DEF PreparationInv, HelperInv, Jobs, OwnerInv, OwnerTypes

LEMMA ForgetStep ==
    ASSUME PreparationInv, Settled, Forget, UNCHANGED <<bootVars, helperVars>>, faults' = faults,
           selected' \in Track \cup {None}, mediaEpoch' \in 0 .. MaxEpoch, enabled' \in BOOLEAN
    PROVE  PreparationInv'
  <1>1. attempts \in Seq(Attempt)
    BY SelectionFacts
  <1>2. /\ attempts' = Invalidated(attempts)
        /\ key' = None /\ shown' = None /\ source' \in Key \cup {None}
    BY DEF Forget
  <1>3. waiting = <<>> \/ attempts = <<>>
    BY SettledFacts DEF PreparationInv
  <1>4. OwnerInv'
    BY <1>1, <1>2, <1>3, OwnerForgets DEF PreparationInv
  <1>5. HelperInv'
    BY <1>2, HelperPlayer DEF PreparationInv
  <1> QED BY <1>4, <1>5 DEF PreparationInv

LEMMA LoadStep ==
    ASSUME PreparationInv, Settled, NEW k \in Key, Load(k), enabled' = TRUE,
           selected' \in Track \cup {None}, mediaEpoch' \in 0 .. MaxEpoch,
           UNCHANGED helperVars, faults' = faults
    PROVE  PreparationInv'
  <1>1. OwnerInv'
    BY OwnerLoads DEF PreparationInv
  <1>2. attempts' = attempts \/ attempts' = WithNewAttempt(attempts, k)
    BY DEF Load
  <1>3. HelperInv'
    BY <1>2, HelperPlayer DEF PreparationInv
  <1> QED BY <1>1, <1>3 DEF PreparationInv

\* Nothing changes but what the player has selected, or whether the window is on.
LEMMA OwnerWindow ==
    ASSUME PreparationInv, UNCHANGED <<ownerVars, bootVars, attempts, helperVars>>, faults' = faults,
           selected' \in Track \cup {None}, mediaEpoch' = mediaEpoch,
           enabled' = enabled \/ enabled' = TRUE
    PROVE  PreparationInv'
  <1>1. /\ key' = key /\ shown' = shown /\ source' = source /\ attempts' = attempts
        /\ boot' = boot /\ bootEpoch' = bootEpoch /\ failedEpoch' = failedEpoch /\ waiting' = waiting
    BY DEF ownerVars, bootVars
  <1>2. HelperInv'
    BY HelperPlayer DEF PreparationInv
  <1>3. OwnerTypes'
    BY <1>1 DEF PreparationInv, OwnerInv, OwnerTypes
  <1>4. LoadsSound' /\ KeySound' /\ SidebarTellsView'
    BY <1>1 DEF PreparationInv, OwnerInv, LoadsSound, KeySound, SidebarTellsView
  <1> QED BY <1>2, <1>3, <1>4 DEF PreparationInv, OwnerInv

LEMMA ReloadStep ==
    ASSUME PreparationInv, Settled, Reload(KeyNow), enabled' = TRUE,
           UNCHANGED <<selected, mediaEpoch, helperVars>>, faults' = faults
    PROVE  PreparationInv'
  <1>1. selected' \in Track \cup {None} /\ mediaEpoch' \in 0 .. MaxEpoch /\ mediaEpoch' = mediaEpoch
    BY SelectionFacts
  <1>2. CASE KeyNow = None
    <2>1. Forget /\ UNCHANGED bootVars
      BY <1>2, Zenon DEF Reload
    <2> QED BY <1>1, <2>1, ForgetStep
  <1>3. CASE KeyNow # None /\ key = KeyNow /\ View(attempts) \in {"preparing", "ready"}
    <2>1. UNCHANGED <<attempts, ownerVars, bootVars>>
      BY <1>3, Zenon DEF Reload
    <2> QED BY <1>1, <2>1, OwnerWindow
  <1>4. CASE KeyNow # None /\ ~(key = KeyNow /\ View(attempts) \in {"preparing", "ready"})
    <2>1. Load(KeyNow)
      BY <1>4, Zenon DEF Reload
    <2>2. KeyNow \in Key
      BY <1>4, SelectionFacts
    <2> QED BY <1>1, <2>1, <2>2, LoadStep
  <1> QED BY <1>2, <1>3, <1>4, Zenon

LEMMA PlayerStep ==
    ASSUME PreparationInv, Settled, Player
    PROVE  PreparationInv'
  <1>0. /\ selected \in Track \cup {None} /\ mediaEpoch \in 0 .. MaxEpoch /\ enabled \in BOOLEAN
        /\ MaxEpoch \in Nat
    BY SelectionFacts
  <1>1. ASSUME NEW t \in Track \cup {None}, SelectTrack(t)
        PROVE  PreparationInv'
    BY <1>0, <1>1, OwnerWindow DEF SelectTrack
  <1>2. ASSUME NEW t \in Track \cup {None}, FileLoaded(t)
        PROVE  PreparationInv'
    <2>1. /\ selected' = t /\ mediaEpoch' \in 0 .. MaxEpoch /\ enabled' = enabled
          /\ UNCHANGED helperVars /\ faults' = faults
      BY <1>0, <1>2 DEF FileLoaded
    <2>2. CASE enabled /\ t # None
      <3>1. Load(KeyNow')
        BY <1>2, <2>2, Zenon DEF FileLoaded
      <3>2. KeyNow' \in Key
        BY <2>1, <2>2 DEF KeyNow, Key
      <3> QED BY <1>0, <2>1, <2>2, <3>1, <3>2, LoadStep
    <2>3. CASE ~(enabled /\ t # None)
      <3>1. Forget /\ UNCHANGED bootVars
        BY <1>2, <2>3, Zenon DEF FileLoaded
      <3> QED BY <1>0, <2>1, <3>1, ForgetStep
    <2> QED BY <2>2, <2>3
  <1>3. CASE SelectionEvent
    BY <1>0, <1>3, ReloadStep DEF SelectionEvent, windowVars
  <1>4. CASE EndFile
    <2>1. mediaEpoch' \in 0 .. MaxEpoch
      BY <1>0, <1>4 DEF EndFile
    <2> QED BY <1>0, <1>4, <2>1, ForgetStep DEF EndFile
  <1>5. CASE SwitchOff
    BY <1>0, <1>5, ForgetStep DEF SwitchOff
  <1>6. CASE SwitchOn
    BY <1>6, ReloadStep DEF SwitchOn
  <1>7. CASE Retry
    <2>1. /\ key # None /\ View(attempts) \in Retryable
          /\ attempts' = WithNewAttempt(attempts, attempts[Len(attempts)].key)
          /\ shown' = "preparing"
          /\ key' = key /\ source' = source /\ faults' = faults
          /\ UNCHANGED <<windowVars, bootVars, helperVars>>
      BY <1>7 DEF Retry
    <2>2. attempts \in Seq(Attempt) /\ attempts # <<>>
      <3>1. None \notin Retryable
        BY KeyFacts DEF State, Retryable
      <3> QED BY <2>1, <3>1, SelectionFacts DEF View
    <2>3. PICK k \in Key : k = attempts[Len(attempts)].key
      BY <2>2, LastFacts DEF Attempt
    <2>4. boot = "there" /\ waiting = <<>>
      BY <2>2, SettledFacts DEF PreparationInv
    <2>5. attempts' = WithNewAttempt(attempts, k) /\ key = k
      BY <2>1, <2>3, <2>4 DEF PreparationInv, OwnerInv, KeySound
    <2>6. attempts' # <<>> /\ attempts'[Len(attempts')].key = k /\ View(attempts') = "preparing"
      BY <2>2, <2>5, NewSeq
    <2>7. HelperInv'
      BY <2>1, <2>5, HelperPlayer DEF PreparationInv
    <2>8. /\ selected' = selected /\ mediaEpoch' = mediaEpoch /\ enabled' = enabled
          /\ boot' = boot /\ bootEpoch' = bootEpoch /\ failedEpoch' = failedEpoch /\ waiting' = waiting
      BY <2>1 DEF windowVars, bootVars
    <2>9. OwnerTypes'
      BY <2>1, <2>8 DEF PreparationInv, OwnerInv, OwnerTypes, State
    <2>10. LoadsSound' /\ KeySound' /\ SidebarTellsView'
      BY <2>1, <2>4, <2>5, <2>6, <2>8
         DEF PreparationInv, OwnerInv, LoadsSound, KeySound, SidebarTellsView
    <2> QED BY <2>7, <2>9, <2>10 DEF PreparationInv, OwnerInv
  <1> QED BY <1>1, <1>2, <1>3, <1>4, <1>5, <1>6, <1>7 DEF Player

LEMMA BootstrapStep ==
    ASSUME PreparationInv, BootstrapSucceeds \/ BootstrapFails
    PROVE  PreparationInv'
  <1>1. HelperInv'
    BY HelperBootstrap DEF PreparationInv
  <1>2. attempts' = attempts /\ attempts = <<>> /\ boot = "starting" /\ waiting # <<>>
    BY DEF BootstrapSucceeds, BootstrapFails, PreparationInv, OwnerInv, LoadsSound
  <1>3. CASE BootstrapSucceeds
    <2>1. /\ boot' = "there" /\ key' = key /\ shown' = shown /\ source' = source /\ enabled' = enabled
          /\ selected' = selected /\ mediaEpoch' = mediaEpoch
          /\ bootEpoch' = bootEpoch /\ failedEpoch' = failedEpoch /\ waiting' = waiting
      BY <1>3 DEF BootstrapSucceeds, windowVars, ownerVars
    <2>2. OwnerTypes'
      BY <2>1 DEF PreparationInv, OwnerInv, OwnerTypes
    <2>3. LoadsSound' /\ KeySound' /\ SidebarTellsView'
      BY <1>2, <2>1 DEF PreparationInv, OwnerInv, LoadsSound, KeySound, SidebarTellsView
    <2> QED BY <1>1, <2>2, <2>3 DEF PreparationInv, OwnerInv
  <1>4. CASE BootstrapFails
    <2>1. /\ boot' = "none" /\ key' = key /\ source' = source /\ enabled' = enabled
          /\ selected' = selected /\ mediaEpoch' = mediaEpoch
          /\ bootEpoch' = bootEpoch /\ failedEpoch' = bootEpoch /\ waiting' = <<>>
          /\ shown' = "failed" \/ shown' = shown
      BY <1>4 DEF BootstrapFails, windowVars
    <2>2. OwnerTypes'
      <3>1. <<>> \in Seq(Key)
        BY EmptySeq
      <3> QED BY <2>1, <3>1 DEF PreparationInv, OwnerInv, OwnerTypes, State
    <2>3. LoadsSound' /\ KeySound' /\ SidebarTellsView'
      BY <1>2, <2>1 DEF PreparationInv, OwnerInv, LoadsSound, KeySound, SidebarTellsView
    <2> QED BY <1>1, <2>2, <2>3 DEF PreparationInv, OwnerInv
  <1> QED BY <1>3, <1>4

\* A load that waited goes on: the last of them is the one the window wants.
LEMMA LoadWaitingStep ==
    ASSUME PreparationInv, LoadWaiting
    PROVE  PreparationInv'
  <1>1. PICK k : k = Head(waiting)
    OBVIOUS
  <1>2. /\ boot = "there" /\ waiting # <<>> /\ waiting' = Tail(waiting)
        /\ attempts' = IF Owns(k) THEN WithNewAttempt(attempts, k) ELSE attempts
        /\ key' = key /\ shown' = shown /\ source' = source /\ boot' = boot
        /\ selected' = selected /\ mediaEpoch' = mediaEpoch /\ enabled' = enabled
        /\ bootEpoch' = bootEpoch /\ failedEpoch' = failedEpoch
        /\ UNCHANGED helperVars /\ faults' = faults
    BY <1>1 DEF LoadWaiting, windowVars, ownerVars
  <1>3. attempts \in Seq(Attempt) /\ waiting \in Seq(Key)
    BY SelectionFacts DEF PreparationInv, OwnerInv, OwnerTypes
  <1>4. k \in Key /\ Tail(waiting) \in Seq(Key) /\ Len(Tail(waiting)) = Len(waiting) - 1
    BY <1>1, <1>2, <1>3, HeadTailProperties
  <1>5. /\ Tail(waiting) = <<>> => k = waiting[Len(waiting)]
        /\ Tail(waiting) # <<>> => Tail(waiting)[Len(Tail(waiting))] = waiting[Len(waiting)]
    <2>1. Len(waiting) \in Nat /\ Len(waiting) # 0 /\ k = waiting[1]
      BY <1>1, <1>2, <1>3, EmptySeq, HeadTailProperties
    <2>2. CASE Tail(waiting) = <<>>
      <3>1. Len(Tail(waiting)) = 0
        BY <2>2, EmptySeq
      <3>2. Len(waiting) = 1
        <4>1. PICK n \in Nat : n = Len(waiting)
          BY <2>1
        <4>2. Len(waiting) - 1 = 0
          BY <1>4, <3>1
        <4>3. n - 1 = 0
          BY <4>1, <4>2
        <4>4. n = 1
          BY <4>3
        <4> QED BY <4>1, <4>4
      <3> QED BY <2>1, <2>2, <3>2
    <2>3. CASE Tail(waiting) # <<>>
      <3>1. Len(Tail(waiting)) \in Nat /\ Len(Tail(waiting)) # 0
        BY <1>4, <2>3, EmptySeq
      <3>2. \A i \in 1 .. Len(Tail(waiting)) : Tail(waiting)[i] = waiting[i + 1]
        BY <1>2, <1>3, HeadTailProperties
      <3>3. PICK m \in Nat : m = Len(Tail(waiting)) /\ m # 0
        BY <3>1
      <3>4. m \in 1 .. m
        BY <3>3
      <3>5. Tail(waiting)[m] = waiting[m + 1]
        BY <3>2, <3>3, <3>4
      <3>6. m + 1 = Len(waiting)
        BY <1>4, <2>1, <3>3
      <3> QED BY <2>3, <3>3, <3>5, <3>6
    <2> QED BY <2>2, <2>3
  <1>6. HelperInv'
    BY <1>2, <1>4, HelperPlayer DEF PreparationInv
  <1>7. OwnerTypes'
    BY <1>2, <1>4 DEF PreparationInv, OwnerInv, OwnerTypes
  <1>8. /\ Owns(k) => /\ attempts' # <<>> /\ attempts'[Len(attempts')].key = k
                      /\ View(attempts') = "preparing"
        /\ attempts' # <<>> => View(attempts') = "preparing"
    <2>1. Owns(k) => /\ attempts' # <<>> /\ attempts'[Len(attempts')].key = k
                     /\ View(attempts') = "preparing"
      BY <1>2, <1>3, <1>4, NewSeq
    <2>2. ~Owns(k) => attempts' = attempts
      BY <1>2
    <2>3. attempts # <<>> => View(attempts) = "preparing"
      BY <1>2 DEF PreparationInv, OwnerInv, LoadsSound
    <2> QED BY <2>1, <2>2, <2>3
  <1>9. key # None => /\ waiting[Len(waiting)] = key /\ shown = "preparing" /\ enabled
                      /\ waiting' = <<>> => k = key /\ Owns(k)
    <2>1. key # None => waiting[Len(waiting)] = key /\ shown = "preparing" /\ enabled
      BY <1>2 DEF PreparationInv, OwnerInv, LoadsSound, KeySound
    <2> QED BY <1>2, <1>5, <2>1 DEF Owns
  <1>10. LoadsSound'
    BY <1>2, <1>5, <1>8, <1>9 DEF LoadsSound
  <1>11. KeySound' /\ SidebarTellsView'
    BY <1>2, <1>8, <1>9 DEF KeySound, SidebarTellsView
  <1> QED BY <1>6, <1>7, <1>10, <1>11 DEF PreparationInv, OwnerInv

\* What prepare() or retry() returns to its caller, without a subtitle.
LEMMA ReturnedOwner ==
    ASSUME NEW as, NEW k, AcceptPrepared(as, k, FALSE)
    PROVE  key' = key /\ source' = source /\ shown' = IF Owns(k) THEN View(as) ELSE shown
  <1>1. CASE Owns(k)
    BY <1>1, Zenon DEF AcceptPrepared
  <1>2. CASE ~Owns(k)
    BY <1>2, Zenon DEF AcceptPrepared, ownerVars
  <1> QED BY <1>1, <1>2, Zenon

LEMMA OwnerReturns ==
    ASSUME PreparationInv, NEW j \in DOMAIN attempts, NEW a \in Attempt, a.key = attempts[j].key,
           Returns(j, a), waiting = <<>> \/ a.status = attempts[j].status,
           UNCHANGED <<windowVars, bootVars>>
    PROVE  OwnerInv'
  <1>1. AcceptPrepared([attempts EXCEPT ![j] = a], a.key, FALSE)
    BY DEF Returns, Update
  <1>2. attempts' = [attempts EXCEPT ![j] = a]
    BY <1>1, Returned
  <1>3. key' = key /\ source' = source /\ shown' = IF Owns(a.key) THEN View(attempts') ELSE shown
    <2>1. /\ key' = key /\ source' = source
          /\ shown' = IF Owns(a.key) THEN View([attempts EXCEPT ![j] = a]) ELSE shown
      BY <1>1, ReturnedOwner
    <2> QED BY <1>2, <2>1
  <1>4. source' \in Key \cup {None}
    BY <1>3, SelectionFacts
  <1> QED BY <1>2, <1>3, <1>4, OwnerTold DEF PreparationInv

\* An attempt changes that the window is not told of.
LEMMA OwnerUntold ==
    ASSUME PreparationInv, NEW j \in DOMAIN attempts, NEW a \in Attempt, a.key = attempts[j].key,
           a.status = attempts[j].status, attempts' = [attempts EXCEPT ![j] = a],
           UNCHANGED <<windowVars, ownerVars, bootVars>>
    PROVE  OwnerInv'
  <1>1. attempts \in Seq(Attempt) /\ j \in 1 .. Len(attempts)
    BY AttemptFacts DEF PreparationInv
  <1>2. SameLast(attempts, [attempts EXCEPT ![j] = a])
    BY <1>1, OneSameLast
  <1>3. SameLast(attempts, attempts')
    BY <1>2
  <1> QED BY <1>3, OwnerQuiet DEF PreparationInv

LEMMA BarrierStep ==
    ASSUME PreparationInv, NEW j \in DOMAIN attempts, BarrierOpens(j)
    PROVE  PreparationInv'
  <1>1. HelperInv'
    BY HelperBarrierOpens DEF PreparationInv
  <1>2. attempts[j] \in Attempt /\ UNCHANGED <<windowVars, bootVars>>
    BY AttemptFacts DEF PreparationInv, BarrierOpens
  <1>3. CASE Accepts(j)
    <2>1. PICK a : a = Started(attempts[j])
      OBVIOUS
    <2>2. attempts' = [attempts EXCEPT ![j] = a] /\ UNCHANGED ownerVars
      BY <1>3, <2>1, Zenon DEF BarrierOpens, Update
    <2>3. a \in Attempt /\ a.key = attempts[j].key /\ a.status = attempts[j].status
      BY <1>2, <2>1 DEF Attempt, Started
    <2>4. OwnerInv'
      BY <1>2, <2>2, <2>3, OwnerUntold
    <2> QED BY <1>1, <2>4 DEF PreparationInv
  <1>4. CASE ~Accepts(j)
    <2>1. PICK a : a = [attempts[j] EXCEPT !.await = "none"]
      OBVIOUS
    <2>2. Returns(j, a)
      BY <1>4, <2>1, Zenon DEF BarrierOpens
    <2>3. a \in Attempt /\ a.key = attempts[j].key /\ a.status = attempts[j].status
      BY <1>2, <2>1 DEF Attempt
    <2>4. OwnerInv'
      BY <1>2, <2>2, <2>3, OwnerReturns
    <2> QED BY <1>1, <2>4 DEF PreparationInv
  <1> QED BY <1>3, <1>4

LEMMA CallEndsStep ==
    ASSUME PreparationInv, Settled, NEW j \in DOMAIN attempts, CallEnds(j)
    PROVE  PreparationInv'
  <1> DEFINE b == attempts[j]
             over == [b EXCEPT !.call = "over", !.timer = FALSE]
  <1>1. HelperInv'
    BY HelperCallEnds DEF PreparationInv
  <1>0. SUFFICES OwnerInv'
    BY <1>1 DEF PreparationInv
  <1>2. b \in Attempt /\ b.call \in Outcome /\ UNCHANGED <<windowVars, bootVars>>
    BY AttemptFacts DEF PreparationInv, CallEnds
  <1>3. attempts # <<>>
    BY AttemptFacts, SeqFacts DEF PreparationInv
  <1>4. waiting = <<>>
    BY <1>3, SettledFacts DEF PreparationInv
  <1>5. ASSUME NEW a, a.key = b.key, a.status = b.status, a \in Attempt,
               attempts' = [attempts EXCEPT ![j] = a], UNCHANGED ownerVars
        PROVE  OwnerInv'
    BY <1>2, <1>5, OwnerUntold
  <1>6. CASE b.call = "unavailable" /\ ~b.replayed /\ InTime(j)
    <2>1. PICK a : a = [b EXCEPT !.call = "reaching", !.replayed = TRUE]
      OBVIOUS
    <2>2. attempts' = [attempts EXCEPT ![j] = a] /\ UNCHANGED ownerVars
      <3>1. /\ attempts' = [attempts EXCEPT ![j] = [b EXCEPT !.call = "reaching", !.replayed = TRUE]]
            /\ UNCHANGED ownerVars
        BY <1>6, Zenon DEF CallEnds, Update
      <3> QED BY <2>1, <3>1, Zenon
    <2>3. a \in Attempt /\ a.key = b.key /\ a.status = b.status
      BY <1>2, <2>1 DEF Attempt
    <2> QED BY <1>5, <2>2, <2>3
  <1>7. CASE ~(b.call = "unavailable" /\ ~b.replayed /\ InTime(j)) /\ b.await # "race"
    <2>1. PICK a : a = LateOutcome(over, b.call)
      OBVIOUS
    <2>2. attempts' = [attempts EXCEPT ![j] = a] /\ UNCHANGED ownerVars
      BY <1>7, <2>1, Zenon DEF CallEnds, Update
    <2>3. a \in Attempt /\ a.key = b.key /\ a.status = b.status
      BY <1>2, <2>1 DEF Attempt, LateOutcome
    <2> QED BY <1>5, <2>2, <2>3
  <1>8. CASE b.await = "race" /\ b.call = "result"
    <2>1. PICK what \in {"discard", "release"} : what = IF ~InTime(j) THEN "discard" ELSE "release"
      OBVIOUS
    <2>2. PICK a : a = [over EXCEPT !.await = what, !.release = TRUE]
      OBVIOUS
    <2>3. attempts' = [attempts EXCEPT ![j] = a] /\ UNCHANGED ownerVars
      <3>1. b.call # "unavailable"
        BY <1>8
      <3>2. /\ ~InTime(j) => /\ attempts' = Update(j, [over EXCEPT !.await = "discard", !.release = TRUE])
                             /\ UNCHANGED ownerVars
            /\ InTime(j) => /\ attempts' = Update(j, [over EXCEPT !.await = "release", !.release = TRUE])
                            /\ UNCHANGED ownerVars
        BY <1>8, <3>1 DEF CallEnds
      <3> QED BY <2>1, <2>2, <3>2 DEF Update
    <2>4. a \in Attempt /\ a.key = b.key /\ a.status = b.status
      BY <1>2, <2>2 DEF Attempt
    <2> QED BY <1>5, <2>3, <2>4
  <1>9. CASE ~(b.call = "unavailable" /\ ~b.replayed /\ InTime(j)) /\ b.await = "race" /\ b.call # "result"
    <2>1. PICK status \in State : status = IF Accepts(j) THEN StateAfter(b.call) ELSE b.status
      BY <1>2 DEF StateAfter, State, Attempt
    <2>2. PICK a : a = [over EXCEPT !.await = "none", !.status = status]
      OBVIOUS
    <2>3. Returns(j, a)
      <3>1. Returns(j, [over EXCEPT !.await = "none",
                          !.status = IF Accepts(j) THEN StateAfter(b.call) ELSE @])
        BY <1>9 DEF CallEnds
      <3> QED BY <2>1, <2>2, <3>1
    <2>4. a \in Attempt /\ a.key = b.key
      BY <1>2, <2>1, <2>2 DEF Attempt
    <2> HIDE DEF over
    <2> QED BY <1>2, <1>4, <2>3, <2>4, OwnerReturns
  <1> HIDE DEF b, over
  <1> QED BY <1>6, <1>7, <1>8, <1>9, Zenon

LEMMA ReleasedStep ==
    ASSUME PreparationInv, Settled, NEW j \in DOMAIN attempts, NEW readable \in BOOLEAN,
           Released(j, readable)
    PROVE  PreparationInv'
  <1> DEFINE b == attempts[j]
             done == [b EXCEPT !.release = FALSE, !.await = "none"]
             state == IF readable THEN "ready" ELSE "emptyOrUnreadable"
  <1>1. HelperInv'
    BY HelperReleased DEF PreparationInv
  <1>0. SUFFICES OwnerInv'
    BY <1>1 DEF PreparationInv
  <1>2. /\ b \in Attempt /\ b.release /\ AttemptSound(b) /\ UNCHANGED <<windowVars, bootVars>>
        /\ attempts \in Seq(Attempt) /\ j \in 1 .. Len(attempts)
    BY AttemptFacts DEF PreparationInv, Released
  <1>3. attempts # <<>>
    BY AttemptFacts, SeqFacts DEF PreparationInv
  <1>4. waiting = <<>>
    BY <1>3, SettledFacts DEF PreparationInv
  <1>5. done \in Attempt /\ done.key = b.key /\ done.status = b.status
    BY <1>2 DEF Attempt
  <1>6. CASE b.await = "release" /\ Accepts(j)
    <2>1. PICK a : a = [done EXCEPT !.status = state]
      OBVIOUS
    <2>2. a \in Attempt /\ a.key = b.key
      BY <1>2, <2>1 DEF Attempt, State
    <2>3. AcceptPrepared([attempts EXCEPT ![j] = a], b.key, readable)
      BY <1>6, <2>1, Zenon DEF Released, Update
    <2>4. b.key \in Key
      BY <1>2 DEF Attempt
    <2>5. CASE Owns(b.key) /\ readable /\ KeyNow # b.key
      <3>1. /\ attempts' = Invalidated([attempts EXCEPT ![j] = a])
            /\ key' = None /\ shown' = None /\ source' = source
        BY <2>3, <2>5, Zenon DEF AcceptPrepared
      <3>2. [attempts EXCEPT ![j] = a] \in Seq(Attempt) /\ [attempts EXCEPT ![j] = a] # <<>>
        BY <1>2, <2>2, OneChanges, OneLast
      <3>3. /\ selected' \in Track \cup {None} /\ mediaEpoch' \in 0 .. MaxEpoch /\ enabled' \in BOOLEAN
            /\ source' \in Key \cup {None}
        BY <1>2, <3>1, SelectionFacts DEF windowVars
      <3> QED BY <1>2, <1>3, <1>4, <3>1, <3>2, <3>3, OwnerForgets DEF PreparationInv
    <2>6. CASE ~(Owns(b.key) /\ readable /\ KeyNow # b.key)
      <3>1. /\ attempts' = [attempts EXCEPT ![j] = a] /\ key' = key
            /\ shown' = IF Owns(b.key) THEN View([attempts EXCEPT ![j] = a]) ELSE shown
            /\ source' = b.key \/ source' = source
        <4>1. CASE Owns(b.key)
          BY <2>3, <2>6, <4>1, Zenon DEF AcceptPrepared
        <4>2. CASE ~Owns(b.key)
          BY <2>3, <4>2, Zenon DEF AcceptPrepared, ownerVars
        <4> QED BY <4>1, <4>2, Zenon
      <3>2. source' \in Key \cup {None}
        BY <2>4, <3>1, SelectionFacts
      <3>3. shown' = IF Owns(a.key) THEN View(attempts') ELSE shown
        BY <2>2, <3>1
      <3> QED BY <1>2, <1>4, <2>2, <3>1, <3>2, <3>3, OwnerTold DEF PreparationInv
    <2> QED BY <2>5, <2>6, Zenon
  <1>7. CASE b.await = "discard" \/ (b.await = "release" /\ ~Accepts(j))
    <2>1. Returns(j, done)
      BY <1>7, Zenon DEF Released
    <2> HIDE DEF done
    <2> QED BY <1>2, <1>4, <1>5, <2>1, OwnerReturns
  <1>8. CASE b.await = "none"
    <2>1. attempts' = [attempts EXCEPT ![j] = done] /\ UNCHANGED ownerVars
      BY <1>8, Zenon DEF Released, Update
    <2> HIDE DEF done
    <2> QED BY <1>2, <1>5, <2>1, OwnerUntold
  <1>9. b.await \in {"release", "discard", "none"}
    BY <1>2 DEF AttemptSound, Attempt
  <1> QED BY <1>6, <1>7, <1>8, <1>9, Zenon

\* The other actions do not concern what the sidebar tells of an attempt.
Told(as, bs) ==
    /\ DOMAIN bs = DOMAIN as
    /\ \A i \in DOMAIN as : bs[i].key = as[i].key /\ bs[i].status = as[i].status

LEMMA ToldStep ==
    ASSUME PreparationInv, HelperInv', Told(attempts, attempts'),
           UNCHANGED <<windowVars, ownerVars, bootVars>>
    PROVE  PreparationInv'
  <1>1. attempts \in Seq(Attempt) /\ attempts' \in Seq(Attempt)
    BY DEF PreparationInv, HelperInv, Jobs
  <1>2. PICK n \in Nat, m \in Nat : n = Len(attempts) /\ m = Len(attempts')
    BY <1>1, SeqFacts
  <1>3. DOMAIN attempts = 1 .. n /\ DOMAIN attempts' = 1 .. m
    BY <1>1, <1>2, SeqFacts
  <1>4. n = m
    BY <1>3 DEF Told
  <1>5. attempts = <<>> <=> attempts' = <<>>
    BY <1>1, <1>2, <1>4, SeqFacts
  <1>6. ASSUME attempts # <<>>
        PROVE  /\ View(attempts') = View(attempts)
               /\ attempts'[Len(attempts')].key = attempts[Len(attempts)].key
    <2>1. n \in DOMAIN attempts
      BY <1>1, <1>2, <1>3, <1>6, LastFacts
    <2>2. attempts'[n].key = attempts[n].key /\ attempts'[n].status = attempts[n].status
      BY <2>1 DEF Told
    <2>3. View(attempts) = attempts[n].status /\ View(attempts') = attempts'[n].status
      BY <1>2, <1>4, <1>5, <1>6 DEF View
    <2> QED BY <1>2, <1>4, <2>2, <2>3
  <1>7. SameLast(attempts, attempts')
    BY <1>5, <1>6 DEF SameLast
  <1>8. OwnerInv'
    BY <1>7, OwnerQuiet DEF PreparationInv
  <1> QED BY <1>8 DEF PreparationInv

LEMMA OneTold ==
    ASSUME PreparationInv, NEW j \in DOMAIN attempts
    PROVE  /\ \A call : Told(attempts, [attempts EXCEPT ![j].call = call])
           /\ \A cancel : Told(attempts, [attempts EXCEPT ![j].cancel = cancel])
           /\ Told(attempts, [attempts EXCEPT ![j].overdue = TRUE])
  <1>1. \A i \in DOMAIN attempts : attempts[i] \in Attempt
    BY SeqFacts DEF PreparationInv, HelperInv, Jobs
  <1>2. ASSUME NEW call PROVE Told(attempts, [attempts EXCEPT ![j].call = call])
    BY <1>1 DEF Told, Attempt
  <1>3. ASSUME NEW cancel PROVE Told(attempts, [attempts EXCEPT ![j].cancel = cancel])
    BY <1>1 DEF Told, Attempt
  <1>4. Told(attempts, [attempts EXCEPT ![j].overdue = TRUE])
    BY <1>1 DEF Told, Attempt
  <1> QED BY <1>2, <1>3, <1>4, Zenon

LEMMA TwoTold ==
    ASSUME PreparationInv, NEW j \in DOMAIN attempts, NEW call, NEW cancel
    PROVE  Told(attempts, [attempts EXCEPT ![j].call = call, ![j].cancel = cancel])
  <1>1. \A i \in DOMAIN attempts : attempts[i] \in Attempt
    BY SeqFacts DEF PreparationInv, HelperInv, Jobs
  <1> QED BY <1>1 DEF Told, Attempt

LEMMA UntoldStep ==
    ASSUME PreparationInv, NEW j \in DOMAIN attempts,
           \/ DeadlinePasses(j) \/ Reach(j) \/ CannotReach(j) \/ PostCancel(j)
           \/ TakeJob(j) \/ AnswerCancel(j)
           \/ \E outcome \in {"result", "cancelled"} : StopJob(j, outcome)
           \/ \E outcome \in {"result", "empty", "failed"} : EndJob(j, outcome)
    PROVE  PreparationInv'
  <1>1. HelperInv'
    BY HelperDeadlinePasses, HelperReach, HelperCannotReach, HelperPostCancel, HelperTakeJob,
       HelperAnswerCancel, HelperStopJob, HelperEndJob DEF PreparationInv
  <1>2. UNCHANGED <<windowVars, ownerVars, bootVars>>
    BY DEF DeadlinePasses, Reach, CannotReach, PostCancel, TakeJob, AnswerCancel, StopJob, EndJob,
       OnlyAttempts
  <1>3. \/ \E call : attempts' = [attempts EXCEPT ![j].call = call]
        \/ \E cancel : attempts' = [attempts EXCEPT ![j].cancel = cancel]
        \/ \E call, cancel : attempts' = [attempts EXCEPT ![j].call = call, ![j].cancel = cancel]
        \/ attempts' = [attempts EXCEPT ![j].overdue = TRUE]
    BY Zenon DEF DeadlinePasses, Reach, CannotReach, PostCancel, TakeJob, AnswerCancel, StopJob, EndJob
  <1>4. Told(attempts, attempts')
    <2>1. ASSUME NEW call, attempts' = [attempts EXCEPT ![j].call = call]
          PROVE  Told(attempts, attempts')
      <3>1. Told(attempts, [attempts EXCEPT ![j].call = call])
        BY OneTold
      <3> QED BY <2>1, <3>1, Zenon
    <2>2. ASSUME NEW cancel, attempts' = [attempts EXCEPT ![j].cancel = cancel]
          PROVE  Told(attempts, attempts')
      <3>1. Told(attempts, [attempts EXCEPT ![j].cancel = cancel])
        BY OneTold
      <3> QED BY <2>2, <3>1, Zenon
    <2>3. ASSUME NEW call, NEW cancel,
                 attempts' = [attempts EXCEPT ![j].call = call, ![j].cancel = cancel]
          PROVE  Told(attempts, attempts')
      <3>1. Told(attempts, [attempts EXCEPT ![j].call = call, ![j].cancel = cancel])
        BY TwoTold, Zenon
      <3> QED BY <2>3, <3>1, Zenon
    <2>4. CASE attempts' = [attempts EXCEPT ![j].overdue = TRUE]
      <3>1. Told(attempts, [attempts EXCEPT ![j].overdue = TRUE])
        BY OneTold
      <3> QED BY <2>4, <3>1, Zenon
    <2> QED BY <1>3, <2>1, <2>2, <2>3, <2>4, Zenon
  <1> QED BY <1>1, <1>2, <1>4, ToldStep

LEMMA TimesOutStep ==
    ASSUME PreparationInv, CallTimesOut
    PROVE  PreparationInv'
  <1>1. HelperInv'
    BY HelperCallTimesOut DEF PreparationInv
  <1>2. attempts' = [j \in DOMAIN attempts |-> GivenUp(attempts[j])]
    BY Zenon DEF CallTimesOut, GivenUp
  <1>3. UNCHANGED <<windowVars, ownerVars, bootVars>>
    BY Zenon DEF CallTimesOut
  <1>4. \A i \in DOMAIN attempts : attempts[i] \in Attempt
    BY SeqFacts DEF PreparationInv, HelperInv, Jobs
  <1>5. \A a \in Attempt : GivenUp(a).key = a.key /\ GivenUp(a).status = a.status
    BY DEF GivenUp, Attempt
  <1>6. Told(attempts, attempts')
    BY <1>2, <1>4, <1>5 DEF Told
  <1> QED BY <1>1, <1>3, <1>6, ToldStep

LEMMA TimerStep ==
    ASSUME PreparationInv, Settled, NEW j \in DOMAIN attempts, TimerFires(j)
    PROVE  PreparationInv'
  <1>1. HelperInv'
    BY HelperTimerFires DEF PreparationInv
  <1>2. attempts[j] \in Attempt /\ UNCHANGED <<windowVars, bootVars>>
    BY AttemptFacts DEF PreparationInv, TimerFires
  <1>3. attempts # <<>>
    BY AttemptFacts, SeqFacts DEF PreparationInv
  <1>4. waiting = <<>>
    BY <1>3, SettledFacts DEF PreparationInv
  <1>5. PICK a : a = QueueCancellation([attempts[j] EXCEPT !.status = "timedOut",
                                          !.timer = FALSE, !.await = "none"])
    OBVIOUS
  <1>6. a \in Attempt /\ a.key = attempts[j].key
    BY <1>2, <1>5 DEF Attempt, State, QueueCancellation
  <1>7. Returns(j, a)
    BY <1>5, Zenon DEF TimerFires
  <1>8. OwnerInv'
    BY <1>2, <1>4, <1>6, <1>7, OwnerReturns
  <1> QED BY <1>1, <1>8 DEF PreparationInv
-----------------------------------------------------------------------------
LEMMA PreparationInit == Init => PreparationInv
  <1> SUFFICES ASSUME Init
               PROVE  PreparationInv
    OBVIOUS
  <1>1. <<>> \in Seq(Attempt) /\ Len(<<>>) = 0 /\ 1 .. 0 = {} /\ <<>> \in Seq(Key)
    BY EmptySeq
  <1>2. HelperInv
    <2>1. /\ Sound(<<>>, 0) /\ Kept(<<>>, 0, {}, {})
          /\ Ordered(<<>>, 0) /\ Unserved(<<>>, 0)
      BY <1>1 DEF Sound, Kept, Ordered, Unserved
    <2>2. Jobs(<<>>, {}, {}, FALSE, FALSE, 0)
      BY <1>1, <2>1 DEF Jobs
    <2>3. Jobs(attempts, results, completed, client, alive, faults)
      BY <2>2 DEF Init
    <2>4. client \in BOOLEAN /\ alive \in BOOLEAN
      BY DEF Init
    <2>5. faults \in 0 .. MaxFaults
      BY PreparationAssumption DEF Init
    <2> QED BY <2>3, <2>4, <2>5 DEF HelperInv
  <1>3. OwnerInv
    BY <1>1, PreparationAssumption
       DEF Init, OwnerInv, OwnerTypes, LoadsSound, KeySound, SidebarTellsView, Key
  <1> QED BY <1>2, <1>3 DEF PreparationInv

LEMMA PreparationNext == PreparationInv /\ [Next]_vars => PreparationInv'
  <1> SUFFICES ASSUME PreparationInv, [Next]_vars
               PROVE  PreparationInv'
    OBVIOUS
  <1>1. CASE Continue
    BY <1>1, LoadWaitingStep, BarrierStep DEF Continue
  <1>2. CASE Settled /\ Player
    BY <1>2, PlayerStep
  <1>3. CASE Settled /\ Coordinator
    BY <1>3, BootstrapStep, CallEndsStep, ReleasedStep DEF Coordinator
  <1>4. CASE Settled /\ Clock
    BY <1>4, TimesOutStep, UntoldStep, TimerStep DEF Clock
  <1>5. CASE Settled /\ Supervisor
    BY <1>5, UntoldStep DEF Supervisor
  <1>6. CASE Settled /\ Helper
    BY <1>6, UntoldStep DEF Helper
  <1>7. CASE Settled /\ Extraction
    BY <1>7, UntoldStep DEF Extraction
  <1>8. CASE Settled /\ HelperExits
    <2>1. UNCHANGED <<windowVars, ownerVars, bootVars, attempts>>
      BY <1>8 DEF HelperExits
    <2>2. HelperInv'
      BY <1>8, HelperExitsStep DEF PreparationInv
    <2>3. Told(attempts, attempts')
      BY <2>1 DEF Told
    <2> QED BY <2>1, <2>2, <2>3, ToldStep
  <1>9. CASE UNCHANGED vars
    <2>1. /\ UNCHANGED <<windowVars, ownerVars, bootVars>> /\ attempts' = attempts
          /\ UNCHANGED helperVars /\ faults' = faults
      BY <1>9 DEF vars
    <2>2. HelperInv'
      BY <2>1, HelperPlayer DEF PreparationInv
    <2>3. Told(attempts, attempts')
      BY <2>1 DEF Told
    <2> QED BY <2>1, <2>2, <2>3, ToldStep
  <1> QED BY <1>1, <1>2, <1>3, <1>4, <1>5, <1>6, <1>7, <1>8, <1>9 DEF Next

-----------------------------------------------------------------------------
(* What the runs check, for any tracks, files, attempts and faults. *)

THEOREM Preserved == Spec => []PreparationInv
  <1> QED BY PreparationInit, PreparationNext, PTL DEF Spec

\* Every variable has its type; the helper keeps only what attempts of the
\* coordinator left (ExtractionJobs.swift).
THEOREM TypeCorrect == Spec => []TypeOK
  <1>1. PreparationInv => TypeOK
    <2> SUFFICES ASSUME PreparationInv
                 PROVE  TypeOK
      OBVIOUS
    <2>1. /\ client \in BOOLEAN /\ alive \in BOOLEAN /\ faults \in 0 .. MaxFaults
          /\ attempts \in Seq(Attempt) /\ Kept(attempts, Len(attempts), results, completed)
      BY DEF PreparationInv, HelperInv, Jobs
    <2>2. results \subseteq DOMAIN attempts /\ completed \subseteq DOMAIN attempts
      BY <2>1, SeqFacts DEF Kept
    <2>3. OwnerTypes
      BY DEF PreparationInv, OwnerInv
    <2> QED BY <2>1, <2>2, <2>3, Zenon DEF OwnerTypes, TypeOK
  <1> QED BY <1>1, Preserved, PTL

\* While a subtitle is wanted and no load waits for the coordinator, the sidebar
\* shows the state the coordinator is in (main.ts: preparationView), however
\* loads, retries, timers and late answers interleave.
THEOREM SidebarTellsTheView == Spec => []SidebarTellsView
  <1>1. PreparationInv => SidebarTellsView
    BY DEF PreparationInv, OwnerInv
  <1> QED BY <1>1, Preserved, PTL

\* While the helper answers in time it is never asked for a job before the last
\* one has ended: the barrier of subtitle-preparation.ts keeps the jobs of
\* ExtractionJobs.swift apart.
THEOREM JobsNeverMeet == Spec => []NeverRefused
  <1>1. PreparationInv => NeverRefused
    <2> SUFFICES ASSUME PreparationInv, faults = 0, NEW j \in DOMAIN attempts
                 PROVE  attempts[j].call # "refused"
      BY DEF NeverRefused
    <2>1. attempts \in Seq(Attempt) /\ Ordered(attempts, Len(attempts))
      BY DEF PreparationInv, HelperInv, Jobs
    <2>2. j \in 1 .. Len(attempts)
      BY <2>1, SeqFacts
    <2> QED BY <2>1, <2>2 DEF Ordered, InOrder
  <1> QED BY <1>1, Preserved, PTL

\* When nothing is under way the helper keeps no extracted text and remembers no
\* job, whether attempts were parsed, cancelled, late or failed.
THEOREM NothingStaysBehind == Spec => []NothingLeft
  <1>1. PreparationInv => NothingLeft
    <2> SUFFICES ASSUME PreparationInv, Quiet
                 PROVE  results = {} /\ completed = {}
      BY DEF NothingLeft
    <2>1. attempts \in Seq(Attempt) /\ Kept(attempts, Len(attempts), results, completed)
      BY DEF PreparationInv, HelperInv, Jobs
    <2>2. \A j \in 1 .. Len(attempts) : attempts[j].call \in {"none", "over"} /\ ~attempts[j].release
      BY <2>1, SeqFacts DEF Quiet
    <2> QED BY <2>1, <2>2 DEF Kept
  <1> QED BY <1>1, Preserved, PTL

\* Only acceptPrepared makes a subtitle the source, and only with the key the
\* player has just confirmed.
LEMMA AcceptedSource ==
    ASSUME NEW as, NEW k, NEW prepared \in BOOLEAN, AcceptPrepared(as, k, prepared)
    PROVE  source' = source \/ source' = KeyNow
  <1>1. CASE ~Owns(k)
    BY <1>1, Zenon DEF AcceptPrepared, ownerVars
  <1>2. CASE Owns(k) /\ prepared /\ KeyNow # k
    BY <1>2, Zenon DEF AcceptPrepared
  <1>3. CASE Owns(k) /\ ~(prepared /\ KeyNow # k)
    BY <1>3, Zenon DEF AcceptPrepared
  <1> QED BY <1>1, <1>2, <1>3, Zenon

LEMMA ReturnedSource ==
    ASSUME NEW j, NEW a, Returns(j, a)
    PROVE  source' = source
  BY ReturnedOwner DEF Returns

\* A step leaves the source, or drops it.
SourceKept == source' = source \/ source' = None
\* It becomes what the player has selected.
Confirmed == source' = KeyNow /\ KeyNow' = KeyNow

\* The source is not touched by a call that ends...
LEMMA CallEndsSource ==
    ASSUME NEW j, CallEnds(j)
    PROVE  SourceKept
  <1> DEFINE a == attempts[j]
             over == [a EXCEPT !.call = "over", !.timer = FALSE]
             outcome == a.call
             replays == outcome = "unavailable" /\ ~a.replayed /\ InTime(j)
  <1>1. CASE replays
    BY <1>1, Zenon DEF CallEnds, SourceKept, ownerVars
  <1>2. CASE ~replays /\ a.await # "race"
    BY <1>2, Zenon DEF CallEnds, SourceKept, ownerVars
  <1>3. CASE ~replays /\ a.await = "race" /\ outcome = "result"
    BY <1>3, Zenon DEF CallEnds, SourceKept, ownerVars
  <1>4. CASE ~replays /\ a.await = "race" /\ outcome # "result"
    BY <1>4, ReturnedSource, Zenon DEF CallEnds, SourceKept, ownerVars
  <1> QED BY <1>1, <1>2, <1>3, <1>4, Zenon

\* ...and a released result is what acceptPrepared makes of it.
LEMMA ReleasedSource ==
    ASSUME HelperInv, NEW j \in DOMAIN attempts, NEW readable \in BOOLEAN, Released(j, readable)
    PROVE  SourceKept \/ Confirmed
  <1> DEFINE a == attempts[j]
             done == [a EXCEPT !.release = FALSE, !.await = "none"]
             state == IF readable THEN "ready" ELSE "emptyOrUnreadable"
  <1>1. KeyNow' = KeyNow
    <2>1. selected' = selected /\ mediaEpoch' = mediaEpoch
      BY Zenon DEF Released, windowVars
    <2> QED BY <2>1, Zenon DEF KeyNow
  <1>2. a.await \in {"release", "discard", "none"}
    <2>1. a \in Attempt /\ AttemptSound(a) /\ a.release
      BY AttemptFacts DEF Released
    <2> QED BY <2>1 DEF Attempt, AttemptSound
  <1>3. CASE a.await = "release" /\ Accepts(j)
    <2>1. AcceptPrepared(Update(j, [done EXCEPT !.status = state]), a.key, readable)
      BY <1>3, Zenon DEF Released
    <2> QED BY <1>1, <2>1, AcceptedSource, Zenon DEF SourceKept, Confirmed
  <1>4. CASE a.await = "discard" \/ (a.await = "release" /\ ~Accepts(j))
    <2>1. Returns(j, done)
      BY <1>4, Zenon DEF Released
    <2> QED BY <2>1, ReturnedSource, Zenon DEF SourceKept
  <1>5. CASE a.await = "none"
    BY <1>5, Zenon DEF Released, SourceKept, ownerVars
  <1> QED BY <1>2, <1>3, <1>4, <1>5, Zenon

\* What is made the source is what the player has selected at that moment, for
\* every step of the window, the coordinator, the supervisor and the helper.
LEMMA SourceStep == PreparationInv /\ [Next]_vars => SourceKept \/ Confirmed
  <1> SUFFICES ASSUME PreparationInv, [Next]_vars
               PROVE  SourceKept \/ Confirmed
    OBVIOUS
  <1>1. ASSUME NEW k, Load(k) PROVE SourceKept
    BY <1>1, Zenon DEF Load, SourceKept
  <1>2. ASSUME Forget PROVE SourceKept
    BY <1>2, Zenon DEF Forget, SourceKept
  <1>3. ASSUME NEW k, Reload(k) PROVE SourceKept
    BY <1>1, <1>2, <1>3, Zenon DEF Reload, SourceKept, ownerVars
  <1>4. CASE Continue
    <2>1. CASE LoadWaiting
      BY <2>1, Zenon DEF LoadWaiting, SourceKept, ownerVars
    <2>2. ASSUME NEW j, BarrierOpens(j) PROVE SourceKept
      BY <2>2, ReturnedSource, Zenon DEF BarrierOpens, SourceKept, ownerVars
    <2> QED BY <1>4, <2>1, <2>2, Zenon DEF Continue
  <1>5. CASE Player
    <2>1. ASSUME NEW t, SelectTrack(t) PROVE SourceKept
      BY <2>1, Zenon DEF SelectTrack, SourceKept, ownerVars
    <2>2. ASSUME NEW t, FileLoaded(t) PROVE SourceKept
      BY <1>1, <1>2, <2>2, Zenon DEF FileLoaded
    <2>3. CASE SelectionEvent \/ SwitchOn
      BY <1>3, <2>3, Zenon DEF SelectionEvent, SwitchOn
    <2>4. CASE EndFile \/ SwitchOff
      BY <1>2, <2>4, Zenon DEF EndFile, SwitchOff
    <2>5. CASE Retry
      BY <2>5, Zenon DEF Retry, SourceKept
    <2> QED BY <1>5, <2>1, <2>2, <2>3, <2>4, <2>5, Zenon DEF Player
  <1>6. CASE Coordinator
    <2>1. CASE BootstrapSucceeds \/ BootstrapFails
      BY <2>1, Zenon DEF BootstrapSucceeds, BootstrapFails, SourceKept, ownerVars
    <2>2. ASSUME NEW j, CallEnds(j) PROVE SourceKept
      BY <2>2, CallEndsSource
    <2>3. ASSUME NEW j \in DOMAIN attempts, NEW readable \in BOOLEAN, Released(j, readable)
          PROVE  SourceKept \/ Confirmed
      BY <2>3, ReleasedSource DEF PreparationInv
    <2> QED BY <1>6, <2>1, <2>2, <2>3, Zenon DEF Coordinator
  <1>7. CASE Clock
    <2>1. CASE CallTimesOut
      BY <2>1, Zenon DEF CallTimesOut, SourceKept, ownerVars
    <2>2. ASSUME NEW j, DeadlinePasses(j) PROVE SourceKept
      BY <2>2, Zenon DEF DeadlinePasses, OnlyAttempts, SourceKept, ownerVars
    <2>3. ASSUME NEW j, TimerFires(j) PROVE SourceKept
      BY <2>3, ReturnedSource, Zenon DEF TimerFires, SourceKept
    <2> QED BY <1>7, <2>1, <2>2, <2>3, Zenon DEF Clock
  <1>8. CASE Supervisor \/ Helper \/ Extraction \/ HelperExits
    BY <1>8, Zenon
       DEF Supervisor, Reach, CannotReach, PostCancel, OnlyAttempts, Helper, TakeJob, AnswerCancel,
           StopJob, Extraction, EndJob, HelperExits, SourceKept, ownerVars
  <1>9. CASE UNCHANGED vars
    BY <1>9, Zenon DEF vars, SourceKept, ownerVars
  <1> QED BY <1>4, <1>5, <1>6, <1>7, <1>8, <1>9, Zenon DEF Next

\* A subtitle becomes the source only while it is the one selected in the player,
\* even if the window has not been told of a change (main.ts: acceptPrepared).
THEOREM SourceStaysSelected == Spec => SourceIsSelected
  <1>1. PreparationInv /\ [Next]_vars =>
          [source' # source /\ source' # None => source' = KeyNow']_vars
    BY SourceStep DEF SourceKept, Confirmed
  <1> QED BY <1>1, Preserved, PTL DEF Spec, SourceIsSelected
=============================================================================
