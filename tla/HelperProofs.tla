--------------------------- MODULE HelperProofs ---------------------------
(***************************************************************************)
(* The two sides of the transport helper.                                  *)
(*                                                                         *)
(* For any callers, slots, launches and faults: a bridge counts the slots  *)
(* its calls hold, nobody waits while one is free, and no client is lost.  *)
(* A slot is counted once because a call is at one stage of one bridge     *)
(* (CallersSound, CheckSound): it is posted only where it is unknown, and  *)
(* read before it is posted again.  The queue holds calls that wait, each  *)
(* once (BridgeSound), so that a slot is handed to a call without one.     *)
(*                                                                         *)
(* For any number of requests, permits and claims in the helper: a request *)
(* that was cancelled while it was handled has no result (CancelInv), the  *)
(* limiter counts the transfers that have a permit (LimiterInv), and what  *)
(* was stopped leaves the network (StopInv, which holds both).             *)
(*                                                                         *)
(* The modules share no variable; a theorem is about one of them.          *)
(***************************************************************************)
EXTENDS HelperRpc, HelperJobs, SequenceTheorems, FiniteSetTheorems, NaturalsInduction,
        WellFoundedInduction, TLAPS

Call == [at : Stage, reply : Reply \cup {None}]
Holding == {"granted", "pending", "settled"}
Holders(calls) == {p \in Party : calls[p].at \in Holding}

\* Those who wait, each once, have no slot.
QueueSound(calls, queue) ==
    /\ queue \in Seq(Party)
    /\ \A i \in DOMAIN queue : calls[queue[i]].at = "queued"
    /\ \A i, j \in DOMAIN queue : queue[i] = queue[j] => i = j

BridgeSound(calls, count, queue) ==
    /\ count = Cardinality(Holders(calls)) /\ count <= Slots
    /\ queue # <<>> => count = Slots
    /\ QueueSound(calls, queue)
BridgesSound == \A l \in Launch : BridgeSound(rpc[l], active[l], waiters[l])

ClientsSound ==
    /\ current # None => launched[current] = "up" /\ current \notin disposed
    /\ starting # None => launched[starting] = "starting" /\ current = None
    /\ \A l \in disposed : launched[l] \in {"up", "refused"}
    /\ NoClientIsLost

IsUp(l) == l \in Launch /\ launched[l] = "up"

CallersSound ==
    \A c \in Caller :
        /\ caller[c].at \in {"checked", "calling"} => IsUp(caller[c].client)
        /\ caller[c].at = "starting" => caller[c].client \in Launch
        /\ \A l \in Launch : rpc[l][c].at # "none" => caller[c].at = "calling" /\ caller[c].client = l

\* The check's own call is known to the bridge it asks, or to one that is closed.
CheckSound ==
    /\ check # None =>
        /\ check.at = "health" => IsUp(check.client)
        /\ check.at = "starting" => check.client \in Launch /\ rpc[check.client][Check].at = "none"
    /\ \A l \in Launch : rpc[l][Check].at # "none" =>
         l \in disposed \/ (check # None /\ check.at = "health" /\ check.client = l)

CallsSound == \A l \in Launch, p \in Party : rpc[l][p].at # "none" => launched[l] = "up"

Sound == BridgesSound /\ ClientsSound /\ CallersSound /\ CheckSound /\ CallsSound
RpcInv == TypeOK /\ Sound
-----------------------------------------------------------------------------
(* What is left of a queue. *)

LEMMA Induction ==
    ASSUME NEW P \in SUBSET Nat, 0 \in P, \A n \in P : n + 1 \in P
    PROVE  P = Nat
  <1> DEFINE T == Nat \ P
             R == {ss \in Nat \X Nat : ss[1] < ss[2]}
  <1> SUFFICES ASSUME T # {} PROVE FALSE
    OBVIOUS
  <1>1. IsWellFoundedOn(R, Nat)
    BY NatLessThanWellFounded DEF OpToRel
  <1>2. PICK x \in T : \A y \in T : ~ (<<y, x>> \in R)
    BY <1>1, WFMin
  <1>3. x # 0 /\ x - 1 \in Nat
    OBVIOUS
  <1>4. <<x - 1, x>> \in R
    BY <1>3
  <1>5. x - 1 \in P
    BY <1>2, <1>3, <1>4
  <1> QED
    BY <1>5

\* The computation of Without, on the first n of the queue.
Keeps(queue, P, g, n) ==
    IF n = 0 THEN <<>> ELSE IF queue[n] \in P THEN g[n - 1] ELSE Append(g[n - 1], queue[n])
IsLeft(queue, P, g, N) == g = [n \in 0 .. N |-> Keeps(queue, P, g, n)]

LEMMA LeftExists ==
    ASSUME NEW queue, NEW P, NEW N \in Nat
    PROVE  \E g : IsLeft(queue, P, g, N)
  <1> DEFINE T == {n \in Nat : \E g : IsLeft(queue, P, g, n)}
  <1>1. 0 \in T
    <2> DEFINE g == [n \in 0 .. 0 |-> <<>>]
    <2>1. g = [n \in 0 .. 0 |-> Keeps(queue, P, g, n)]
      BY DEF Keeps
    <2> QED
      BY <2>1 DEF IsLeft
  <1>2. ASSUME NEW n \in T PROVE n + 1 \in T
    <2>1. PICK g : IsLeft(queue, P, g, n)
      OBVIOUS
    <2> DEFINE h == [m \in 0 .. n + 1 |-> IF m = n + 1 THEN Keeps(queue, P, g, n + 1) ELSE g[m]]
    <2>2. ASSUME NEW m \in 0 .. n + 1 PROVE h[m] = Keeps(queue, P, h, m)
      <3>1. CASE m = n + 1
        <4>1. h[m] = Keeps(queue, P, g, m) /\ h[m - 1] = g[m - 1] /\ m # 0
          BY <3>1
        <4> HIDE DEF h
        <4> QED
          BY <4>1 DEF Keeps
      <3>2. CASE m \in 0 .. n
        <4>1. h[m] = g[m] /\ g[m] = Keeps(queue, P, g, m)
          BY <2>1, <3>2 DEF IsLeft
        <4>2. m # 0 => h[m - 1] = g[m - 1]
          BY <3>2
        <4> HIDE DEF h
        <4> QED
          BY <4>1, <4>2 DEF Keeps
      <3> QED
        BY <3>1, <3>2
    <2>3. h = [m \in 0 .. n + 1 |-> h[m]]
      OBVIOUS
    <2> HIDE DEF h
    <2>4. h = [m \in 0 .. n + 1 |-> Keeps(queue, P, h, m)]
      BY <2>2, <2>3
    <2> QED
      BY <2>4 DEF IsLeft
  <1> HIDE DEF T
  <1>3. T = Nat
    <2>1. T \in SUBSET Nat
      BY DEF T
    <2> QED
      BY <1>1, <1>2, <2>1, Induction
  <1> QED
    BY <1>3 DEF T

\* What is left are calls of the queue, each once, and none of P.
LEMMA WithoutKeeps ==
    ASSUME NEW queue \in Seq(Party), NEW P, \A i, j \in DOMAIN queue : queue[i] = queue[j] => i = j,
           NEW s, s = Without(queue, P)
    PROVE  /\ s \in Seq(Party)
           /\ \A i \in DOMAIN s : \E k \in DOMAIN queue : s[i] = queue[k] /\ queue[k] \notin P
           /\ \A i, j \in DOMAIN s : s[i] = s[j] => i = j
  <1>1. PICK g : IsLeft(queue, P, g, Len(queue)) /\ s = g[Len(queue)]
    <2> DEFINE left == CHOOSE g : IsLeft(queue, P, g, Len(queue))
    <2>1. IsLeft(queue, P, left, Len(queue))
      BY LeftExists, LenProperties
    <2>2. s = left[Len(queue)]
      BY DEF Without, IsLeft, Keeps
    <2> QED
      BY <2>1, <2>2
  <1> DEFINE Good(n) ==
        /\ g[n] \in Seq(Party)
        /\ \A i \in DOMAIN g[n] : \E k \in 1 .. n : g[n][i] = queue[k] /\ queue[k] \notin P
        /\ \A i, j \in DOMAIN g[n] : g[n][i] = g[n][j] => i = j
  <1> DEFINE T == {n \in Nat : n \in 0 .. Len(queue) => Good(n)}
  <1>2. Len(queue) \in Nat /\ DOMAIN queue = 1 .. Len(queue)
    BY LenProperties
  <1>3. \A n \in 0 .. Len(queue) : g[n] = Keeps(queue, P, g, n)
    BY <1>1, <1>2 DEF IsLeft
  <1>4. 0 \in T
    <2>1. g[0] = <<>>
      BY <1>2, <1>3 DEF Keeps
    <2>2. <<>> \in Seq(Party) /\ DOMAIN <<>> = {}
      BY EmptySeq
    <2> QED
      BY <2>1, <2>2
  <1>5. ASSUME NEW n \in T PROVE n + 1 \in T
    <2> SUFFICES ASSUME n + 1 \in 0 .. Len(queue) PROVE Good(n + 1)
      OBVIOUS
    <2>1. Good(n)
      BY <1>2
    <2>2. g[n + 1] = IF queue[n + 1] \in P THEN g[n] ELSE Append(g[n], queue[n + 1])
      BY <1>3 DEF Keeps
    <2>3. CASE queue[n + 1] \in P
      <3>1. g[n + 1] = g[n] /\ \A k \in 1 .. n : k \in 1 .. n + 1
        BY <2>2, <2>3
      <3> QED
        BY <2>1, <3>1
    <2>4. CASE queue[n + 1] \notin P
      <3>1. PICK e : e = g[n]
        OBVIOUS
      <3>2. PICK x \in Party : x = queue[n + 1] /\ g[n + 1] = Append(e, x)
        BY <1>2, <2>2, <2>4, <3>1, ElementOfSeq
      <3>3. e \in Seq(Party) /\ Len(e) \in Nat /\ DOMAIN e = 1 .. Len(e)
        BY <2>1, <3>1, LenProperties
      <3>4. /\ Append(e, x) \in Seq(Party) /\ DOMAIN Append(e, x) = 1 .. Len(e) + 1
            /\ \A i \in 1 .. Len(e) : Append(e, x)[i] = e[i]
            /\ Append(e, x)[Len(e) + 1] = x
        BY <3>3, AppendProperties, LenProperties
      <3>5. \A i \in 1 .. Len(e) : \E k \in 1 .. n : e[i] = queue[k] /\ queue[k] \notin P
        BY <2>1, <3>1, <3>3
      <3>6. \A i \in 1 .. Len(e) : e[i] # x
        <4>1. \A k \in 1 .. n : queue[k] # x
          BY <1>2, <3>2
        <4> QED
          BY <3>5, <4>1
      <3>7. \A i \in DOMAIN g[n + 1] : \E k \in 1 .. n + 1 : g[n + 1][i] = queue[k] /\ queue[k] \notin P
        <4>1. ASSUME NEW i \in 1 .. Len(e) + 1
              PROVE  \E k \in 1 .. n + 1 : Append(e, x)[i] = queue[k] /\ queue[k] \notin P
          <5>1. CASE i = Len(e) + 1
            BY <2>4, <3>2, <3>4, <5>1
          <5>2. CASE i \in 1 .. Len(e)
            BY <3>4, <3>5, <5>2
          <5> QED
            BY <3>3, <5>1, <5>2
        <4> QED
          BY <3>2, <3>4, <4>1
      <3>8. \A i, j \in DOMAIN g[n + 1] : g[n + 1][i] = g[n + 1][j] => i = j
        <4>1. \A i, j \in 1 .. Len(e) : e[i] = e[j] => i = j
          BY <2>1, <3>1, <3>3
        <4>2. \A i, j \in 1 .. Len(e) + 1 : Append(e, x)[i] = Append(e, x)[j] => i = j
          <5> TAKE i, j \in 1 .. Len(e) + 1
          <5>1. (i \in 1 .. Len(e) \/ i = Len(e) + 1) /\ (j \in 1 .. Len(e) \/ j = Len(e) + 1)
            BY <3>3
          <5>2. CASE i \in 1 .. Len(e) /\ j \in 1 .. Len(e)
            BY <3>4, <4>1, <5>2
          <5>3. CASE i \in 1 .. Len(e) /\ j = Len(e) + 1
            BY <3>4, <3>6, <5>3
          <5>4. CASE i = Len(e) + 1 /\ j \in 1 .. Len(e)
            BY <3>4, <3>6, <5>4
          <5> QED
            BY <5>1, <5>2, <5>3, <5>4
        <4> QED
          BY <3>2, <3>4, <4>2
      <3> QED
        BY <3>2, <3>4, <3>7, <3>8
    <2> QED
      BY <2>3, <2>4
  <1> HIDE DEF T
  <1>6. T = Nat
    <2>1. T \in SUBSET Nat
      BY DEF T
    <2> QED
      BY <1>4, <1>5, <2>1, Induction
  <1>7. Good(Len(queue))
    BY <1>2, <1>6 DEF T
  <1> QED
    BY <1>1, <1>2, <1>7

\* The first of the queue goes, the others still wait.
LEMMA QueueMoves ==
    ASSUME NEW queue \in Seq(Party), \A i, j \in DOMAIN queue : queue[i] = queue[j] => i = j
    PROVE  /\ \A p \in Party : (\A i \in DOMAIN queue : queue[i] # p) =>
                /\ Append(queue, p) \in Seq(Party)
                /\ \A i \in DOMAIN Append(queue, p) : Append(queue, p)[i] = p \/ \E k \in DOMAIN queue : Append(queue, p)[i] = queue[k]
                /\ \A i, j \in DOMAIN Append(queue, p) : Append(queue, p)[i] = Append(queue, p)[j] => i = j
           /\ queue # <<>> =>
                /\ Head(queue) \in Party /\ Head(queue) = queue[1] /\ 1 \in DOMAIN queue
                /\ Tail(queue) \in Seq(Party)
                /\ \A i \in DOMAIN Tail(queue) : i + 1 \in DOMAIN queue /\ Tail(queue)[i] = queue[i + 1]
                                                 /\ Tail(queue)[i] # Head(queue)
                /\ \A i, j \in DOMAIN Tail(queue) : Tail(queue)[i] = Tail(queue)[j] => i = j
  <1>1. Len(queue) \in Nat /\ DOMAIN queue = 1 .. Len(queue)
    BY LenProperties
  <1>2. ASSUME NEW p \in Party, \A i \in DOMAIN queue : queue[i] # p, NEW s, s = Append(queue, p)
        PROVE  /\ s \in Seq(Party)
               /\ \A i \in DOMAIN s : s[i] = p \/ \E k \in DOMAIN queue : s[i] = queue[k]
               /\ \A i, j \in DOMAIN s : s[i] = s[j] => i = j
    <2>1. s \in Seq(Party) /\ s[Len(queue) + 1] = p /\ \A i \in 1 .. Len(queue) : s[i] = queue[i]
      BY <1>2, AppendProperties
    <2>2. DOMAIN s = 1 .. Len(queue) + 1
      BY <1>1, <1>2, AppendProperties, LenProperties
    <2>3. \A i \in DOMAIN s : i \in 1 .. Len(queue) \/ i = Len(queue) + 1
      BY <1>1, <2>2
    <2>4. ASSUME NEW i \in DOMAIN s, NEW j \in DOMAIN s, s[i] = s[j] PROVE i = j
      <3>1. CASE i \in 1 .. Len(queue) /\ j \in 1 .. Len(queue)
        BY <1>1, <2>1, <2>4, <3>1
      <3>2. CASE i = Len(queue) + 1 \/ j = Len(queue) + 1
        BY <1>1, <1>2, <2>1, <2>3, <2>4, <3>2
      <3> QED
        BY <2>3, <3>1, <3>2
    <2>5. \A i \in DOMAIN s : s[i] = p \/ \E k \in DOMAIN queue : s[i] = queue[k]
      BY <1>1, <2>1, <2>3
    <2> QED
      BY <2>1, <2>4, <2>5
  <1>3. ASSUME queue # <<>>, NEW s, s = Tail(queue)
        PROVE  /\ Head(queue) \in Party /\ Head(queue) = queue[1] /\ 1 \in DOMAIN queue
               /\ s \in Seq(Party)
               /\ \A i \in DOMAIN s : i + 1 \in DOMAIN queue /\ s[i] = queue[i + 1] /\ s[i] # Head(queue)
               /\ \A i, j \in DOMAIN s : s[i] = s[j] => i = j
    <2>1. Head(queue) \in Party /\ Head(queue) = queue[1] /\ s \in Seq(Party) /\ Len(s) = Len(queue) - 1
          /\ \A i \in 1 .. Len(s) : s[i] = queue[i + 1]
      BY <1>3, HeadTailProperties
    <2>2. Len(queue) # 0
      BY <1>3, EmptySeq
    <2>3. DOMAIN s = 1 .. Len(s) /\ Len(s) \in Nat /\ 1 \in DOMAIN queue
      BY <1>1, <2>1, <2>2, LenProperties
    <2>4. \A i \in DOMAIN s : i + 1 \in DOMAIN queue /\ s[i] = queue[i + 1] /\ i + 1 # 1
      BY <1>1, <2>1, <2>3
    <2>5. \A i, j \in DOMAIN s : i + 1 = j + 1 => i = j
      BY <2>3
    <2> QED
      BY <2>1, <2>3, <2>4, <2>5
  <1> QED
    BY <1>2, <1>3
-----------------------------------------------------------------------------
(* What happens at one bridge. *)

\* The calls of P turn to a stage.
Turned(calls, P, stage, reply) ==
    [p \in Party |-> IF p \in P THEN [at |-> stage, reply |-> reply] ELSE calls[p]]

LEMMA PartyFinite == RpcAssumption => IsFiniteSet(Party) /\ Check \in Party
  BY FS_Union, FS_Singleton DEF RpcAssumption, Party

LEMMA HoldersFinite ==
    ASSUME RpcAssumption, NEW calls
    PROVE  IsFiniteSet(Holders(calls)) /\ Cardinality(Holders(calls)) \in Nat
           /\ Cardinality(Holders(calls)) <= Cardinality(Party) /\ Cardinality(Party) \in Nat
  <1>1. Holders(calls) \subseteq Party
    BY DEF Holders
  <1> QED
    BY <1>1, PartyFinite, FS_Subset, FS_CardinalityType

\* Nobody gains or loses a slot, and who waits goes on waiting.
LEMMA SameHolders ==
    ASSUME RpcAssumption, NEW calls, NEW calls1, NEW count, NEW queue, BridgeSound(calls, count, queue),
           \A p \in Party : calls1[p].at \in Holding <=> calls[p].at \in Holding,
           \A p \in Party : calls[p].at = "queued" /\ (\E i \in DOMAIN queue : queue[i] = p) => calls1[p].at = "queued"
    PROVE  BridgeSound(calls1, count, queue)
  <1>1. Holders(calls1) = Holders(calls)
    BY DEF Holders
  <1>2. QueueSound(calls1, queue)
    <2>1. \A i \in DOMAIN queue : queue[i] \in Party
      BY ElementOfSeq, LenProperties DEF BridgeSound, QueueSound
    <2> QED
      BY <2>1 DEF BridgeSound, QueueSound
  <1> QED
    BY <1>1, <1>2 DEF BridgeSound

LEMMA SlotIsTaken ==
    ASSUME RpcAssumption, NEW calls, NEW count \in Nat, NEW queue, BridgeSound(calls, count, queue),
           NEW p \in Party, calls[p].at = "none", count < Slots
    PROVE  BridgeSound(Turned(calls, {p}, "granted", None), count + 1, queue)
  <1>0. PICK c : c = Turned(calls, {p}, "granted", None)
    OBVIOUS
  <1>1. Holders(c) = Holders(calls) \cup {p} /\ p \notin Holders(calls)
    BY <1>0 DEF Holders, Turned, Holding
  <1>2. Cardinality(Holders(c)) = count + 1
    BY <1>1, HoldersFinite, FS_AddElement DEF BridgeSound
  <1>3. queue = <<>> /\ Slots \in Nat
    BY DEF BridgeSound, RpcAssumption
  <1>4. QueueSound(c, queue)
    <2>1. <<>> \in Seq(Party) /\ DOMAIN <<>> = {}
      BY EmptySeq
    <2> QED
      BY <1>3, <2>1 DEF QueueSound
  <1> QED
    BY <1>0, <1>2, <1>3, <1>4 DEF BridgeSound

LEMMA CallWaits ==
    ASSUME RpcAssumption, NEW calls, NEW count \in Nat, NEW queue, BridgeSound(calls, count, queue),
           NEW p \in Party, calls[p].at = "none", ~(count < Slots)
    PROVE  BridgeSound(Turned(calls, {p}, "queued", None), count, Append(queue, p))
  <1>0. PICK c : c = Turned(calls, {p}, "queued", None)
    OBVIOUS
  <1>1. PICK q : q = Append(queue, p)
    OBVIOUS
  <1>2. Holders(c) = Holders(calls)
    BY <1>0 DEF Holders, Turned, Holding
  <1>3. count = Slots
    BY DEF BridgeSound, RpcAssumption
  <1>4. \A r \in Party : c[r].at = IF r = p THEN "queued" ELSE calls[r].at
    BY <1>0 DEF Turned
  <1>5. queue \in Seq(Party) /\ (\A i \in DOMAIN queue : calls[queue[i]].at = "queued" /\ queue[i] \in Party)
        /\ \A i, j \in DOMAIN queue : queue[i] = queue[j] => i = j
    BY ElementOfSeq, LenProperties DEF BridgeSound, QueueSound
  <1>6. QueueSound(c, q)
    <2>1. \A i \in DOMAIN queue : queue[i] # p
      BY <1>5
    <2>2. /\ q \in Seq(Party)
          /\ \A i \in DOMAIN q : q[i] = p \/ \E k \in DOMAIN queue : q[i] = queue[k]
          /\ \A i, j \in DOMAIN q : q[i] = q[j] => i = j
      BY <1>1, <1>5, <2>1, QueueMoves
    <2>3. \A i \in DOMAIN q : c[q[i]].at = "queued"
      BY <1>4, <1>5, <2>2
    <2> QED
      BY <2>2, <2>3 DEF QueueSound
  <1> QED
    BY <1>0, <1>1, <1>2, <1>3, <1>6 DEF BridgeSound

\* Some that waited are told that they waited too long.
LEMMA WaitersGo ==
    ASSUME NEW calls, NEW calls1, NEW queue, QueueSound(calls, queue), NEW P,
           \A p \in Party : p \notin P /\ calls[p].at = "queued" => calls1[p].at = "queued"
    PROVE  /\ QueueSound(calls1, Without(queue, P))
           /\ Without(queue, P) # <<>> => queue # <<>>
  <1>1. PICK s : s = Without(queue, P)
    OBVIOUS
  <1>2. queue \in Seq(Party) /\ (\A i \in DOMAIN queue : calls[queue[i]].at = "queued" /\ queue[i] \in Party)
        /\ \A i, j \in DOMAIN queue : queue[i] = queue[j] => i = j
    BY ElementOfSeq, LenProperties DEF QueueSound
  <1>3. /\ s \in Seq(Party)
        /\ \A i \in DOMAIN s : \E k \in DOMAIN queue : s[i] = queue[k] /\ queue[k] \notin P
        /\ \A i, j \in DOMAIN s : s[i] = s[j] => i = j
    BY <1>1, <1>2, WithoutKeeps
  <1>4. s # <<>> => queue # <<>>
    <2>1. s # <<>> => 1 \in DOMAIN s
      BY <1>3, EmptySeq, LenProperties
    <2>2. queue = <<>> => DOMAIN queue = {}
      BY EmptySeq
    <2> QED
      BY <1>3, <2>1, <2>2
  <1> QED
    BY <1>1, <1>2, <1>3, <1>4 DEF QueueSound

LEMMA WaiterGoes ==
    ASSUME RpcAssumption, NEW calls, NEW count \in Nat, NEW queue, BridgeSound(calls, count, queue),
           NEW p \in Party, calls[p].at = "queued"
    PROVE  BridgeSound(Turned(calls, {p}, "over", "lost"), count, Without(queue, {p}))
  <1>0. PICK c : c = Turned(calls, {p}, "over", "lost")
    OBVIOUS
  <1>1. Holders(c) = Holders(calls)
    BY <1>0 DEF Holders, Turned, Holding
  <1>2. \A r \in Party : r \notin {p} /\ calls[r].at = "queued" => c[r].at = "queued"
    BY <1>0 DEF Turned
  <1>3. QueueSound(c, Without(queue, {p})) /\ (Without(queue, {p}) # <<>> => queue # <<>>)
    BY <1>2, WaitersGo DEF BridgeSound
  <1> QED
    BY <1>0, <1>1, <1>3 DEF BridgeSound

\* A call that ended gives its slot back, or to the first that waits.
LEMMA SlotIsGivenBack ==
    ASSUME RpcAssumption, NEW calls, NEW count \in Nat, NEW queue, BridgeSound(calls, count, queue),
           NEW p \in Party, calls[p].at = "settled", NEW expired,
           \A r \in expired : r \in Party /\ calls[r].at = "queued",
           NEW over, \A r \in Party : over[r].at = IF r \in expired \/ r = p THEN "over" ELSE calls[r].at,
           NEW q, q = Without(queue, expired)
    PROVE  /\ q = <<>> => BridgeSound(over, count - 1, q) /\ count - 1 \in Nat
           /\ q # <<>> => BridgeSound(Turned(over, {Head(q)}, "granted", None), count, Tail(q))
  <1>1. \A r \in Party : over[r].at = IF r \in expired \/ r = p THEN "over" ELSE calls[r].at
    OBVIOUS
  <1>2. QueueSound(over, q) /\ (q # <<>> => queue # <<>>)
    <2>1. \A r \in Party : r \notin expired /\ calls[r].at = "queued" => over[r].at = "queued"
      BY <1>1
    <2>2. QueueSound(calls, queue)
      BY DEF BridgeSound
    <2>3. QueueSound(over, Without(queue, expired)) /\ (Without(queue, expired) # <<>> => queue # <<>>)
      BY <2>1, <2>2, WaitersGo
    <2> QED
      BY <2>3
  <1>3. Holders(over) = Holders(calls) \ {p} /\ p \in Holders(calls)
    BY <1>1 DEF Holders, Holding
  <1>4. Cardinality(Holders(over)) = count - 1 /\ count # 0 /\ count <= Slots /\ Slots \in Nat
    <2>1. Cardinality(Holders(calls)) = count /\ IsFiniteSet(Holders(calls))
      BY HoldersFinite DEF BridgeSound
    <2>2. Cardinality(Holders(over)) = count - 1
      <3>1. Cardinality(Holders(calls) \ {p}) = Cardinality(Holders(calls)) - 1
        BY <1>3, <2>1, FS_RemoveElement
      <3> QED
        BY <1>3, <2>1, <3>1
    <2>3. count # 0
      BY <1>3, <2>1, FS_EmptySet
    <2> QED
      BY <2>2, <2>3 DEF BridgeSound, RpcAssumption
  <1>5. CASE q = <<>>
    <2>1. count - 1 \in Nat /\ count - 1 <= Slots
      BY <1>4
    <2> QED
      BY <1>2, <1>4, <1>5, <2>1 DEF BridgeSound
  <1>6. CASE q # <<>>
    <2>1. PICK h : h = Head(q)
      OBVIOUS
    <2>2. PICK t : t = Tail(q)
      OBVIOUS
    <2>3. /\ q \in Seq(Party)
          /\ \A i \in DOMAIN q : over[q[i]].at = "queued"
          /\ \A i, j \in DOMAIN q : q[i] = q[j] => i = j
      BY <1>2 DEF QueueSound
    <2>4. /\ h \in Party /\ over[h].at = "queued" /\ t \in Seq(Party)
          /\ \A i \in DOMAIN t : over[t[i]].at = "queued" /\ t[i] \in Party /\ t[i] # h
          /\ \A i, j \in DOMAIN t : t[i] = t[j] => i = j
      <3>1. /\ h \in Party /\ h = q[1] /\ 1 \in DOMAIN q /\ t \in Seq(Party)
            /\ \A i \in DOMAIN t : i + 1 \in DOMAIN q /\ t[i] = q[i + 1] /\ t[i] # h
            /\ \A i, j \in DOMAIN t : t[i] = t[j] => i = j
        BY <1>6, <2>1, <2>2, <2>3, QueueMoves
      <3>2. \A i \in DOMAIN t : t[i] \in Party
        BY <3>1, ElementOfSeq, LenProperties
      <3>3. \A i \in DOMAIN t : over[t[i]].at = "queued"
        <4> TAKE i \in DOMAIN t
        <4>1. i + 1 \in DOMAIN q /\ t[i] = q[i + 1]
          BY <3>1
        <4> QED
          BY <2>3, <4>1
      <3>4. over[h].at = "queued"
        BY <2>3, <3>1
      <3> QED
        BY <3>1, <3>2, <3>3, <3>4
    <2>5. PICK c : c = Turned(over, {h}, "granted", None)
      OBVIOUS
    <2>6. \A r \in Party : c[r].at = IF r = h THEN "granted" ELSE over[r].at
      BY <2>5 DEF Turned
    <2>7. Holders(c) = Holders(over) \cup {h} /\ h \notin Holders(over)
      BY <2>4, <2>6 DEF Holders, Holding
    <2>8. Cardinality(Holders(c)) = count
      <3>1. Cardinality(Holders(c)) = Cardinality(Holders(over)) + 1
        BY <2>7, HoldersFinite, FS_AddElement
      <3> QED
        BY <1>4, <3>1
    <2>9. QueueSound(c, t)
      BY <2>4, <2>6 DEF QueueSound
    <2>10. count = Slots
      BY <1>2, <1>6 DEF BridgeSound
    <2> QED
      BY <1>4, <1>6, <2>1, <2>2, <2>5, <2>8, <2>9, <2>10 DEF BridgeSound
  <1> QED
    BY <1>5, <1>6

\* Calls under way when the bridge is closed end, those that wait have no slot.
ClosedCalls(calls) ==
    [p \in Party |->
        CASE calls[p].at = "pending" -> [at |-> "settled", reply |-> "lost"]
          [] calls[p].at = "queued" -> [at |-> "over", reply |-> "lost"]
          [] OTHER -> calls[p]]

LEMMA CallsAreClosed ==
    ASSUME NEW calls, NEW p \in Party
    PROVE  /\ calls[p].at = "pending" => ClosedCalls(calls)[p] = [at |-> "settled", reply |-> "lost"]
           /\ calls[p].at = "queued" => ClosedCalls(calls)[p] = [at |-> "over", reply |-> "lost"]
           /\ calls[p].at \notin {"pending", "queued"} => ClosedCalls(calls)[p] = calls[p]
  BY DEF ClosedCalls

LEMMA BridgeCloses ==
    ASSUME RpcAssumption, NEW calls, NEW count \in Nat, NEW queue, BridgeSound(calls, count, queue)
    PROVE  BridgeSound(ClosedCalls(calls), count, <<>>)
  <1>1. Holders(ClosedCalls(calls)) = Holders(calls)
    <2>1. \A p \in Party : ClosedCalls(calls)[p].at \in Holding <=> calls[p].at \in Holding
      <3> TAKE p \in Party
      <3>1. CASE calls[p].at = "pending"
        BY <3>1, CallsAreClosed DEF Holding
      <3>2. CASE calls[p].at = "queued"
        BY <3>2, CallsAreClosed DEF Holding
      <3>3. CASE calls[p].at \notin {"pending", "queued"}
        BY <3>3, CallsAreClosed
      <3> QED
        BY <3>1, <3>2, <3>3
    <2> QED
      BY <2>1 DEF Holders
  <1>2. QueueSound(ClosedCalls(calls), <<>>)
    <2>1. <<>> \in Seq(Party) /\ DOMAIN <<>> = {}
      BY EmptySeq
    <2> QED
      BY <2>1 DEF QueueSound
  <1> QED
    BY <1>1, <1>2 DEF BridgeSound
-----------------------------------------------------------------------------
(* The bridges. *)

Calls0 == [Launch -> [Party -> Call]]

LEMMA TurnsTyped ==
    ASSUME NEW calls \in Calls0, NEW l \in Launch, NEW P, NEW stage \in Stage, NEW reply \in Reply \cup {None}
    PROVE  Turns(calls, l, P, stage, reply) \in Calls0
  <1>1. [at |-> stage, reply |-> reply] \in Call
    BY DEF Call
  <1>2. Turned(calls[l], P, stage, reply) \in [Party -> Call]
    BY <1>1 DEF Turned, Calls0
  <1>3. Turns(calls, l, P, stage, reply) = [calls EXCEPT ![l] = Turned(calls[l], P, stage, reply)]
    BY DEF Turns, Turned
  <1> QED
    BY <1>2, <1>3 DEF Calls0

LEMMA TurnsHere ==
    ASSUME NEW calls \in Calls0, NEW l \in Launch, NEW P, NEW stage, NEW reply, NEW p \in Party
    PROVE  Turns(calls, l, P, stage, reply)[l][p] =
             IF p \in P THEN [at |-> stage, reply |-> reply] ELSE calls[l][p]
  BY DEF Turns, Calls0

LEMMA TurnsBridge ==
    ASSUME NEW calls \in Calls0, NEW l \in Launch, NEW P, NEW stage, NEW reply
    PROVE  Turns(calls, l, P, stage, reply)[l] = Turned(calls[l], P, stage, reply)
  BY DEF Turns, Turned, Calls0

LEMMA TurnsElsewhere ==
    ASSUME NEW calls \in Calls0, NEW l \in Launch, NEW P, NEW stage, NEW reply, NEW k \in Launch, k # l
    PROVE  Turns(calls, l, P, stage, reply)[k] = calls[k]
  BY DEF Turns, Calls0

\* At which bridges a call is known.
SameKnown == \A l \in Launch, p \in Party : rpc'[l][p].at # "none" <=> rpc[l][p].at # "none"

\* A step that keeps the bridges sound keeps their types.
BridgeShape ==
    /\ rpc \in Calls0 /\ active \in [Launch -> Nat] /\ polling \in [Launch -> BOOLEAN]
    /\ waiters \in [Launch -> Seq(Party)]

LEMMA BridgeTypes ==
    ASSUME RpcAssumption, BridgeShape', BridgesSound'
    PROVE  BridgeType'
  <1>1. rpc' \in [Launch -> [Party -> [at : Stage, reply : Reply \cup {None}]]]
    BY DEF BridgeShape, Calls0, Call
  <1>2. \A l \in Launch : active'[l] \in 0 .. Cardinality(Party)
    <2> TAKE l \in Launch
    <2>1. active'[l] = Cardinality(Holders(rpc'[l]))
      BY DEF BridgesSound, BridgeSound
    <2> QED
      BY <2>1, HoldersFinite
  <1>3. active' \in [Launch -> 0 .. Cardinality(Party)]
    BY <1>2 DEF BridgeShape
  <1>4. polling' \in [Launch -> BOOLEAN] /\ waiters' \in [Launch -> Seq(Party)]
    BY DEF BridgeShape
  <1> QED
    BY <1>1, <1>3, <1>4 DEF BridgeType

LEMMA BridgeTyped ==
    ASSUME RpcAssumption, TypeOK
    PROVE  /\ BridgeShape /\ rpc \in Calls0 /\ active \in [Launch -> Nat]
           /\ polling \in [Launch -> BOOLEAN] /\ waiters \in [Launch -> Seq(Party)]
           /\ faults \in 0 .. MaxFaults /\ MaxFaults \in Nat
  <1>1. Cardinality(Party) \in Nat
    BY HoldersFinite
  <1> QED
    BY <1>1 DEF TypeOK, BridgeType, BridgeShape, Calls0, Call, RpcAssumption

\* One bridge changes, and stays sound.
LEMMA OneBridgeChanges ==
    ASSUME BridgesSound, NEW l \in Launch, BridgeSound(rpc'[l], active'[l], waiters'[l]),
           \A k \in Launch : k # l => rpc'[k] = rpc[k] /\ active'[k] = active[k] /\ waiters'[k] = waiters[k]
    PROVE  BridgesSound'
  <1>1. ASSUME NEW k \in Launch PROVE BridgeSound(rpc'[k], active'[k], waiters'[k])
    BY DEF BridgesSound
  <1> QED
    BY <1>1 DEF BridgesSound

\* A call turns to another stage with the slot it had, or without one as before.
LEMMA CallTurns ==
    ASSUME RpcAssumption, RpcInv, NEW l \in Launch, NEW p \in Party, NEW stage \in Stage, NEW reply \in Reply \cup {None},
           rpc' = Turns(rpc, l, {p}, stage, reply), rpc[l][p].at # "queued",
           stage \in Holding <=> rpc[l][p].at \in Holding, UNCHANGED <<active, waiters>>
    PROVE  rpc' \in Calls0 /\ BridgesSound'
  <1>1. rpc \in Calls0 /\ BridgesSound
    BY BridgeTyped DEF RpcInv, Sound
  <1>2. PICK r : r = Turns(rpc, l, {p}, stage, reply)
    OBVIOUS
  <1>3. /\ r \in Calls0 /\ \A k \in Launch : k # l => r[k] = rpc[k]
        /\ \A q \in Party : r[l][q] = IF q = p THEN [at |-> stage, reply |-> reply] ELSE rpc[l][q]
    BY <1>1, <1>2, TurnsTyped, TurnsElsewhere, TurnsHere
  <1>4. BridgeSound(r[l], active[l], waiters[l])
    <2>1. BridgeSound(rpc[l], active[l], waiters[l])
      BY <1>1 DEF BridgesSound
    <2>2. \A q \in Party : r[l][q].at \in Holding <=> rpc[l][q].at \in Holding
      BY <1>3
    <2>3. \A q \in Party : rpc[l][q].at = "queued" => r[l][q].at = "queued"
      BY <1>3
    <2> QED
      BY <2>1, <2>2, <2>3, SameHolders
  <1>5. BridgesSound'
    BY <1>1, <1>2, <1>3, <1>4, OneBridgeChanges
  <1> QED
    BY <1>2, <1>3, <1>5

LEMMA TurnKeepsKnown ==
    ASSUME rpc \in Calls0, NEW l \in Launch, NEW p \in Party, NEW stage \in Stage, stage # "none",
           NEW reply \in Reply \cup {None}, rpc[l][p].at # "none",
           rpc' = Turns(rpc, l, {p}, stage, reply)
    PROVE  SameKnown
  <1>1. PICK r : r = Turns(rpc, l, {p}, stage, reply)
    OBVIOUS
  <1>2. /\ \A k \in Launch : k # l => r[k] = rpc[k]
        /\ \A q \in Party : r[l][q] = IF q = p THEN [at |-> stage, reply |-> reply] ELSE rpc[l][q]
    BY <1>1, TurnsElsewhere, TurnsHere
  <1>3. \A q \in Party : r[l][q].at # "none" <=> rpc[l][q].at # "none"
    BY <1>2
  <1> QED
    BY <1>1, <1>2, <1>3 DEF SameKnown

\* A step at one bridge, of calls it knows.
LEMMA BridgeStepSound ==
    ASSUME RpcAssumption, RpcInv, BridgeShape', BridgesSound', SameKnown,
           UNCHANGED <<supervisor, alive, caller, withdrawn>>, faults' \in 0 .. MaxFaults
    PROVE  RpcInv'
  <1>1. UNCHANGED <<current, starting, launched, disposed, check, alive, caller, withdrawn>>
    BY DEF supervisor
  <1>2. TypeOK'
    <2>1. SupervisorType' /\ CallerType'
      BY <1>1 DEF RpcInv, TypeOK, SupervisorType, CallerType
    <2>2. BridgeType'
      BY BridgeTypes
    <2> QED
      BY <2>1, <2>2 DEF TypeOK
  <1>3. ClientsSound'
    BY <1>1 DEF RpcInv, Sound, ClientsSound, NoClientIsLost
  <1>4. Check \in Party /\ \A c \in Caller : c \in Party
    BY DEF Party
  <1>5. CallersSound'
    <2>1. CallersSound
      BY DEF RpcInv, Sound
    <2>2. ASSUME NEW c \in Caller, NEW l \in Launch, rpc'[l][c].at # "none"
          PROVE  caller'[c].at = "calling" /\ caller'[c].client = l
      <3>1. rpc[l][c].at # "none"
        BY <1>4, <2>2 DEF SameKnown
      <3> QED
        BY <1>1, <2>1, <3>1 DEF CallersSound
    <2> QED
      BY <1>1, <2>1, <2>2 DEF CallersSound, IsUp
  <1>6. CheckSound'
    <2>1. CheckSound
      BY DEF RpcInv, Sound
    <2>2. \A l \in Launch : rpc'[l][Check].at # "none" <=> rpc[l][Check].at # "none"
      BY <1>4 DEF SameKnown
    <2> QED
      BY <1>1, <2>1, <2>2 DEF CheckSound, IsUp
  <1>7. CallsSound'
    BY <1>1 DEF RpcInv, Sound, CallsSound, SameKnown
  <1> QED
    BY <1>2, <1>3, <1>5, <1>6, <1>7 DEF RpcInv, Sound

LEMMA ExecuteSound ==
    ASSUME RpcAssumption, RpcInv, NEW l \in Launch, NEW p \in Party, Execute(l, p)
    PROVE  RpcInv'
  <1>1. PICK stage \in {"pending", "settled"}, reply \in {"lost", None} :
          rpc' = Turns(rpc, l, {p}, stage, reply)
    BY DEF Execute
  <1>2. stage \in Stage /\ stage # "none" /\ reply \in Reply \cup {None} /\ stage \in Holding
    BY DEF Stage, Reply, Holding
  <1>3. UNCHANGED <<supervisor, alive, caller, withdrawn, active, waiters>> /\ rpc[l][p].at = "granted"
    BY DEF Execute
  <1>4. RpcInv => BridgeShape /\ faults \in 0 .. MaxFaults /\ MaxFaults \in Nat
    BY BridgeTyped DEF RpcInv
  <1>5. faults' \in 0 .. MaxFaults
    BY <1>4 DEF Execute
  <1>6. rpc' \in Calls0 /\ BridgesSound'
    BY <1>1, <1>2, <1>3, CallTurns DEF Holding
  <1>7. SameKnown
    <2>1. rpc \in Calls0 /\ rpc[l][p].at # "none"
      BY <1>3, <1>4 DEF BridgeShape
    <2> QED
      BY <1>1, <1>2, <2>1, TurnKeepsKnown
  <1>8. polling' \in [Launch -> BOOLEAN]
    BY <1>4 DEF Execute, BridgeShape
  <1>9. BridgeShape'
    BY <1>3, <1>4, <1>6, <1>8 DEF BridgeShape
  <1> QED
    BY <1>3, <1>5, <1>6, <1>7, <1>9, BridgeStepSound

LEMMA EndOfCallSound ==
    ASSUME RpcAssumption, RpcInv, NEW l \in Launch, NEW p \in Party, Answered(l, p) \/ TimesOut(l, p)
    PROVE  RpcInv'
  <1>1. PICK reply \in Reply \cup {None} : rpc' = Turns(rpc, l, {p}, "settled", reply)
    <2>1. CASE Answered(l, p)
      BY <2>1 DEF Answered, Reply
    <2>2. CASE TimesOut(l, p)
      BY <2>2 DEF TimesOut, Reply
    <2> QED
      BY <2>1, <2>2
  <1>2. "settled" \in Stage /\ "settled" # "none" /\ "settled" \in Holding /\ "pending" \in Holding
    BY DEF Stage, Holding
  <1>3. UNCHANGED <<supervisor, alive, caller, withdrawn, active, waiters, polling>> /\ rpc[l][p].at = "pending"
    BY DEF Answered, TimesOut
  <1>4. RpcInv => BridgeShape /\ faults \in 0 .. MaxFaults /\ MaxFaults \in Nat
    BY BridgeTyped DEF RpcInv
  <1>5. faults' \in 0 .. MaxFaults
    BY <1>4 DEF Answered, TimesOut
  <1>6. rpc' \in Calls0 /\ BridgesSound'
    BY <1>1, <1>2, <1>3, CallTurns
  <1>7. SameKnown
    <2>1. rpc \in Calls0 /\ rpc[l][p].at # "none"
      BY <1>3, <1>4 DEF BridgeShape
    <2> QED
      BY <1>1, <1>2, <2>1, TurnKeepsKnown
  <1>8. BridgeShape'
    BY <1>3, <1>4, <1>6 DEF BridgeShape
  <1> QED
    BY <1>3, <1>5, <1>6, <1>7, <1>8, BridgeStepSound

LEMMA WaiterExpiresSound ==
    ASSUME RpcAssumption, RpcInv, NEW l \in Launch, NEW p \in Party, WaiterExpires(l, p)
    PROVE  RpcInv'
  <1>1. /\ rpc' = Turns(rpc, l, {p}, "over", "lost") /\ rpc[l][p].at = "queued"
        /\ waiters' = [waiters EXCEPT ![l] = Without(@, {p})]
        /\ UNCHANGED <<supervisor, alive, caller, withdrawn, active, polling, faults>>
    BY DEF WaiterExpires
  <1>2. BridgeShape /\ faults \in 0 .. MaxFaults /\ BridgesSound
    BY BridgeTyped DEF RpcInv, Sound
  <1>3. "over" \in Stage /\ "over" # "none" /\ "lost" \in Reply \cup {None}
    BY DEF Stage, Reply
  <1>4. SameKnown
    BY <1>1, <1>2, <1>3, TurnKeepsKnown DEF BridgeShape
  <1>5. PICK r : r = Turns(rpc, l, {p}, "over", "lost")
    OBVIOUS
  <1>6. PICK q : q = Without(waiters[l], {p})
    OBVIOUS
  <1>7. r \in Calls0 /\ r[l] = Turned(rpc[l], {p}, "over", "lost") /\ \A k \in Launch : k # l => r[k] = rpc[k]
    BY <1>2, <1>3, <1>5, TurnsTyped, TurnsBridge, TurnsElsewhere DEF BridgeShape
  <1>8. BridgeSound(r[l], active[l], q)
    <2>1. BridgeSound(rpc[l], active[l], waiters[l]) /\ active[l] \in Nat
      BY <1>2 DEF BridgesSound, BridgeShape
    <2> QED
      BY <1>1, <1>6, <1>7, <2>1, WaiterGoes
  <1>9. q \in Seq(Party)
    BY <1>8 DEF BridgeSound, QueueSound
  <1>10. waiters' = [waiters EXCEPT ![l] = q]
    BY <1>1, <1>6
  <1>11. BridgesSound'
    <2>1. \A k \in Launch : waiters'[k] = IF k = l THEN q ELSE waiters[k]
      BY <1>2, <1>10 DEF BridgeShape
    <2>2. rpc'[l] = r[l] /\ active'[l] = active[l] /\ \A k \in Launch : k # l => rpc'[k] = rpc[k] /\ active'[k] = active[k]
      BY <1>1, <1>5, <1>7
    <2> QED
      BY <1>2, <1>8, <2>1, <2>2, OneBridgeChanges
  <1>12. BridgeShape'
    <2>1. waiters' \in [Launch -> Seq(Party)]
      BY <1>2, <1>9, <1>10 DEF BridgeShape
    <2> QED
      BY <1>1, <1>2, <1>5, <1>7, <2>1 DEF BridgeShape
  <1> QED
    BY <1>1, <1>2, <1>4, <1>11, <1>12, BridgeStepSound

\* What a slot handed over does to the bridge.
LEMMA SlotMoves ==
    ASSUME RpcAssumption, BridgeShape, BridgesSound, NEW l \in Launch, NEW p \in Party, rpc[l][p].at = "settled",
           NEW expired \in SUBSET At(l, "queued"), HandOver(l, p, expired)
    PROVE  BridgeShape' /\ BridgesSound' /\ SameKnown
  <1>0. rpc \in Calls0 /\ active \in [Launch -> Nat] /\ polling \in [Launch -> BOOLEAN]
        /\ waiters \in [Launch -> Seq(Party)]
    BY DEF BridgeShape
  <1>1. PICK reply \in Reply \cup {None} : reply = rpc[l][p].reply
    BY <1>0 DEF Calls0, Call
  <1>2. PICK first : first = Turns(rpc, l, {p}, "over", reply)
    OBVIOUS
  <1>3. PICK over : over = Turns(first, l, expired, "over", "lost")
    OBVIOUS
  <1>4. PICK queue : queue = Without(waiters[l], expired)
    OBVIOUS
  <1>5. "over" \in Stage /\ "granted" \in Stage /\ "lost" \in Reply \cup {None} /\ None \in Reply \cup {None}
    BY DEF Stage, Reply
  <1>6. /\ first \in Calls0 /\ \A k \in Launch : k # l => first[k] = rpc[k]
        /\ \A q \in Party : first[l][q] = IF q = p THEN [at |-> "over", reply |-> reply] ELSE rpc[l][q]
    BY <1>0, <1>2, <1>5, TurnsTyped, TurnsElsewhere, TurnsHere
  <1>7. /\ over \in Calls0 /\ \A k \in Launch : k # l => over[k] = first[k]
        /\ \A q \in Party : over[l][q] = IF q \in expired THEN [at |-> "over", reply |-> "lost"] ELSE first[l][q]
    BY <1>3, <1>5, <1>6, TurnsTyped, TurnsElsewhere, TurnsHere
  <1>8. \A q \in expired : q \in Party /\ rpc[l][q].at = "queued"
    BY DEF At
  <1>9. \A q \in Party : over[l][q].at = IF q \in expired \/ q = p THEN "over" ELSE rpc[l][q].at
    BY <1>6, <1>7
  <1>10. BridgeSound(rpc[l], active[l], waiters[l]) /\ active[l] \in Nat
    BY <1>0 DEF BridgesSound
  <1>11. /\ queue = <<>> => BridgeSound(over[l], active[l] - 1, queue) /\ active[l] - 1 \in Nat
         /\ queue # <<>> => BridgeSound(Turned(over[l], {Head(queue)}, "granted", None), active[l], Tail(queue))
    <2>1. PICK calls : calls = rpc[l]
      OBVIOUS
    <2>2. PICK count \in Nat : count = active[l]
      BY <1>10
    <2>3. PICK waiting : waiting = waiters[l]
      OBVIOUS
    <2>4. PICK o : o = over[l]
      OBVIOUS
    <2>5. BridgeSound(calls, count, waiting) /\ calls[p].at = "settled" /\ queue = Without(waiting, expired)
      BY <1>4, <1>10, <2>1, <2>2, <2>3
    <2>6. \A r \in expired : r \in Party /\ calls[r].at = "queued"
      BY <1>8, <2>1
    <2>7. \A r \in Party : o[r].at = IF r \in expired \/ r = p THEN "over" ELSE calls[r].at
      BY <1>9, <2>1, <2>4
    <2>8. /\ queue = <<>> => BridgeSound(o, count - 1, queue) /\ count - 1 \in Nat
          /\ queue # <<>> => BridgeSound(Turned(o, {Head(queue)}, "granted", None), count, Tail(queue))
      BY <2>5, <2>6, <2>7, SlotIsGivenBack
    <2> QED
      BY <2>2, <2>4, <2>8
  <1>12. CASE queue = <<>>
    <2>1. /\ active' = [active EXCEPT ![l] = @ - 1]
          /\ polling' = [polling EXCEPT ![l] = @ /\ active'[l] > 0]
          /\ waiters' = [waiters EXCEPT ![l] = queue]
          /\ rpc' = over
      BY <1>1, <1>2, <1>3, <1>4, <1>12 DEF HandOver
    <2>2. active' \in [Launch -> Nat] /\ active'[l] = active[l] - 1 /\ \A k \in Launch : k # l => active'[k] = active[k]
      BY <1>0, <1>11, <1>12, <2>1
    <2>3. queue \in Seq(Party)
      BY <1>12, EmptySeq
    <2>4. waiters' \in [Launch -> Seq(Party)] /\ waiters'[l] = queue /\ \A k \in Launch : k # l => waiters'[k] = waiters[k]
      BY <1>0, <2>1, <2>3
    <2>5. polling' \in [Launch -> BOOLEAN]
      <3>1. PICK b \in BOOLEAN : b = (polling[l] /\ active'[l] > 0)
        OBVIOUS
      <3>2. polling' = [polling EXCEPT ![l] = b]
        BY <2>1, <3>1
      <3> QED
        BY <1>0, <3>2
    <2>6. BridgesSound'
      BY <1>6, <1>7, <1>11, <1>12, <2>1, <2>2, <2>4, OneBridgeChanges
    <2>7. SameKnown
      BY <1>6, <1>7, <1>8, <1>9, <2>1 DEF SameKnown
    <2> QED
      BY <1>7, <2>1, <2>2, <2>4, <2>5, <2>6, <2>7 DEF BridgeShape
  <1>13. CASE queue # <<>>
    <2>1. PICK h : h = Head(queue)
      OBVIOUS
    <2>2. PICK tail : tail = Tail(queue)
      OBVIOUS
    <2>3. PICK last : last = Turns(over, l, {h}, "granted", None)
      OBVIOUS
    <2>4. waiters' = [waiters EXCEPT ![l] = tail] /\ rpc' = last /\ UNCHANGED <<active, polling>>
      BY <1>1, <1>2, <1>3, <1>4, <1>13, <2>1, <2>2, <2>3 DEF HandOver
    <2>5. /\ last \in Calls0 /\ last[l] = Turned(over[l], {h}, "granted", None)
          /\ \A k \in Launch : k # l => last[k] = over[k]
          /\ \A q \in Party : last[l][q] = IF q = h THEN [at |-> "granted", reply |-> None] ELSE over[l][q]
      BY <1>5, <1>7, <2>3, TurnsTyped, TurnsBridge, TurnsElsewhere, TurnsHere
    <2>6. BridgeSound(last[l], active[l], tail)
      BY <1>11, <1>13, <2>1, <2>2, <2>5
    <2>7. tail \in Seq(Party)
      BY <2>6 DEF BridgeSound, QueueSound
    <2>8. waiters' \in [Launch -> Seq(Party)] /\ waiters'[l] = tail /\ \A k \in Launch : k # l => waiters'[k] = waiters[k]
      BY <1>0, <2>4, <2>7
    <2>9. BridgesSound'
      BY <1>6, <1>7, <2>4, <2>5, <2>6, <2>8, OneBridgeChanges
    <2>10. rpc[l][h].at = "queued" /\ h \in Party
      <3>1. QueueSound(rpc[l], waiters[l])
        BY <1>10 DEF BridgeSound
      <3>2. /\ waiters[l] \in Seq(Party)
            /\ \A i, j \in DOMAIN waiters[l] : waiters[l][i] = waiters[l][j] => i = j
            /\ \A i \in DOMAIN waiters[l] : rpc[l][waiters[l][i]].at = "queued"
        BY <3>1 DEF QueueSound
      <3>3. /\ queue \in Seq(Party)
            /\ \A i \in DOMAIN queue : \E k \in DOMAIN waiters[l] : queue[i] = waiters[l][k]
            /\ \A i, j \in DOMAIN queue : queue[i] = queue[j] => i = j
        BY <1>4, <3>2, WithoutKeeps
      <3>4. h \in Party /\ h = queue[1] /\ 1 \in DOMAIN queue
        BY <1>13, <2>1, <3>3, QueueMoves
      <3> QED
        BY <3>2, <3>3, <3>4
    <2>11. SameKnown
      BY <1>6, <1>7, <1>8, <1>9, <2>4, <2>5, <2>10 DEF SameKnown
    <2> QED
      BY <1>0, <2>4, <2>5, <2>8, <2>9, <2>11 DEF BridgeShape
  <1> QED
    BY <1>12, <1>13

LEMMA ReleaseSound ==
    ASSUME RpcAssumption, RpcInv, NEW l \in Launch, NEW p \in Party, Release(l, p)
    PROVE  RpcInv'
  <1>1. PICK expired \in SUBSET At(l, "queued") : HandOver(l, p, expired)
    BY DEF Release
  <1>2. rpc[l][p].at = "settled" /\ UNCHANGED <<supervisor, alive, caller, withdrawn, faults>>
    BY DEF Release
  <1>3. BridgeShape /\ BridgesSound /\ faults \in 0 .. MaxFaults
    BY BridgeTyped DEF RpcInv, Sound
  <1>4. BridgeShape' /\ BridgesSound' /\ SameKnown
    BY <1>1, <1>2, <1>3, SlotMoves
  <1> QED
    BY <1>2, <1>3, <1>4, BridgeStepSound

LEMMA PollStopsSound ==
    ASSUME RpcAssumption, RpcInv, NEW l \in Launch, PollStops(l)
    PROVE  RpcInv'
  <1>1. polling' = [polling EXCEPT ![l] = FALSE]
        /\ UNCHANGED <<supervisor, alive, caller, withdrawn, rpc, active, waiters, faults>>
    BY DEF PollStops
  <1>2. BridgeShape /\ BridgesSound /\ faults \in 0 .. MaxFaults
    BY BridgeTyped DEF RpcInv, Sound
  <1>3. BridgeShape' /\ BridgesSound' /\ SameKnown
    BY <1>1, <1>2 DEF BridgeShape, BridgesSound, SameKnown
  <1> QED
    BY <1>1, <1>2, <1>3, BridgeStepSound

\* A call is posted where it is not known.
LEMMA PostEffect ==
    ASSUME RpcAssumption, RpcInv, NEW l \in Launch, NEW p \in Party, rpc[l][p].at = "none", Post(l, p)
    PROVE  /\ BridgeShape' /\ BridgesSound'
           /\ \A k \in Launch, q \in Party : k # l \/ q # p => rpc'[k][q] = rpc[k][q]
  <1>1. BridgeShape /\ BridgesSound
    BY BridgeTyped DEF RpcInv, Sound
  <1>2. rpc \in Calls0 /\ active \in [Launch -> Nat] /\ polling \in [Launch -> BOOLEAN]
        /\ waiters \in [Launch -> Seq(Party)]
    BY <1>1 DEF BridgeShape
  <1>3. {"over", "granted", "queued"} \subseteq Stage /\ "lost" \in Reply \cup {None}
    BY DEF Stage, Reply
  <1>4. BridgeSound(rpc[l], active[l], waiters[l])
    BY <1>1 DEF BridgesSound
  <1>5. CASE l \in disposed
    <2>1. rpc' = Turns(rpc, l, {p}, "over", "lost") /\ UNCHANGED <<active, waiters, polling>>
      BY <1>5 DEF Post
    <2>2. rpc' \in Calls0 /\ BridgesSound'
      <3>1. "over" \in Stage /\ "lost" \in Reply \cup {None} /\ ("over" \in Holding <=> rpc[l][p].at \in Holding)
        BY <1>3 DEF Holding
      <3> QED
        BY <2>1, <3>1, CallTurns
    <2>3. \A k \in Launch, q \in Party : k # l \/ q # p => rpc'[k][q] = rpc[k][q]
      <3>1. PICK r : r = Turns(rpc, l, {p}, "over", "lost")
        OBVIOUS
      <3>2. /\ \A k \in Launch : k # l => r[k] = rpc[k]
            /\ \A q \in Party : r[l][q] = IF q = p THEN [at |-> "over", reply |-> "lost"] ELSE rpc[l][q]
        BY <1>2, <3>1, TurnsElsewhere, TurnsHere
      <3> QED
        BY <2>1, <3>1, <3>2
    <2> QED
      BY <1>2, <2>1, <2>2, <2>3 DEF BridgeShape
  <1>6. CASE l \notin disposed /\ active[l] < Slots
    <2>1. rpc' = Turns(rpc, l, {p}, "granted", None) /\ active' = [active EXCEPT ![l] = @ + 1]
          /\ UNCHANGED <<waiters, polling>>
      BY <1>6 DEF Post
    <2>2. PICK r : r = Turns(rpc, l, {p}, "granted", None)
      OBVIOUS
    <2>3. /\ r \in Calls0 /\ r[l] = Turned(rpc[l], {p}, "granted", None)
          /\ \A k \in Launch : k # l => r[k] = rpc[k]
          /\ \A q \in Party : r[l][q] = IF q = p THEN [at |-> "granted", reply |-> None] ELSE rpc[l][q]
      BY <1>2, <1>3, <2>2, TurnsTyped, TurnsBridge, TurnsElsewhere, TurnsHere
    <2>4. PICK count \in Nat : count = active[l]
      BY <1>2
    <2>5. BridgeSound(r[l], count + 1, waiters[l])
      BY <1>4, <1>6, <2>3, <2>4, SlotIsTaken
    <2>6. active' \in [Launch -> Nat] /\ active'[l] = count + 1 /\ \A k \in Launch : k # l => active'[k] = active[k]
      BY <1>2, <2>1, <2>4
    <2>7. BridgesSound'
      BY <1>1, <2>1, <2>2, <2>3, <2>5, <2>6, OneBridgeChanges
    <2> QED
      BY <1>2, <2>1, <2>2, <2>3, <2>6, <2>7 DEF BridgeShape
  <1>7. CASE l \notin disposed /\ ~(active[l] < Slots)
    <2>1. /\ rpc' = Turns(rpc, l, {p}, "queued", None)
          /\ waiters' = [waiters EXCEPT ![l] = Append(@, p)]
          /\ polling' = [polling EXCEPT ![l] = TRUE] /\ UNCHANGED active
      BY <1>7 DEF Post
    <2>2. PICK r : r = Turns(rpc, l, {p}, "queued", None)
      OBVIOUS
    <2>3. /\ r \in Calls0 /\ r[l] = Turned(rpc[l], {p}, "queued", None)
          /\ \A k \in Launch : k # l => r[k] = rpc[k]
          /\ \A q \in Party : r[l][q] = IF q = p THEN [at |-> "queued", reply |-> None] ELSE rpc[l][q]
      BY <1>2, <1>3, <2>2, TurnsTyped, TurnsBridge, TurnsElsewhere, TurnsHere
    <2>4. PICK queue : queue = Append(waiters[l], p)
      OBVIOUS
    <2>5. BridgeSound(r[l], active[l], queue)
      <3>1. PICK calls : calls = rpc[l]
        OBVIOUS
      <3>2. PICK count \in Nat : count = active[l]
        BY <1>2
      <3>3. PICK waiting : waiting = waiters[l]
        OBVIOUS
      <3>4. BridgeSound(calls, count, waiting) /\ calls[p].at = "none" /\ ~(count < Slots)
        BY <1>4, <1>7, <3>1, <3>2, <3>3
      <3>5. BridgeSound(Turned(calls, {p}, "queued", None), count, Append(waiting, p))
        BY <3>4, CallWaits
      <3> QED
        BY <2>3, <2>4, <3>1, <3>2, <3>3, <3>5
    <2>6. queue \in Seq(Party)
      BY <2>5 DEF BridgeSound, QueueSound
    <2>7. waiters' \in [Launch -> Seq(Party)] /\ waiters'[l] = queue /\ \A k \in Launch : k # l => waiters'[k] = waiters[k]
      BY <1>2, <2>1, <2>4, <2>6
    <2>8. BridgesSound'
      BY <1>1, <2>1, <2>2, <2>3, <2>5, <2>7, OneBridgeChanges
    <2>9. polling' \in [Launch -> BOOLEAN]
      BY <1>2, <2>1
    <2> QED
      BY <1>2, <2>1, <2>2, <2>3, <2>7, <2>8, <2>9 DEF BridgeShape
  <1> QED
    BY <1>5, <1>6, <1>7

\* A call whose end was read is forgotten.
LEMMA ReadEffect ==
    ASSUME RpcAssumption, RpcInv, NEW l \in Launch, NEW p \in Party, rpc[l][p].at = "over"
    PROVE  /\ Turns(rpc, l, {p}, "none", None) \in Calls0
           /\ \A k \in Launch : BridgeSound(Turns(rpc, l, {p}, "none", None)[k], active[k], waiters[k])
           /\ Turns(rpc, l, {p}, "none", None)[l][p].at = "none"
           /\ \A k \in Launch, q \in Party : k # l \/ q # p => Turns(rpc, l, {p}, "none", None)[k][q] = rpc[k][q]
  <1>1. rpc \in Calls0 /\ BridgesSound
    BY BridgeTyped DEF RpcInv, Sound
  <1>2. PICK r : r = Turns(rpc, l, {p}, "none", None)
    OBVIOUS
  <1>3. "none" \in Stage /\ None \in Reply \cup {None}
    BY DEF Stage
  <1>4. /\ r \in Calls0 /\ \A k \in Launch : k # l => r[k] = rpc[k]
        /\ \A q \in Party : r[l][q] = IF q = p THEN [at |-> "none", reply |-> None] ELSE rpc[l][q]
    BY <1>1, <1>2, <1>3, TurnsTyped, TurnsElsewhere, TurnsHere
  <1>5. BridgeSound(r[l], active[l], waiters[l])
    <2>1. BridgeSound(rpc[l], active[l], waiters[l])
      BY <1>1 DEF BridgesSound
    <2>2. \A q \in Party : r[l][q].at \in Holding <=> rpc[l][q].at \in Holding
      BY <1>4 DEF Holding
    <2>3. \A q \in Party : rpc[l][q].at = "queued" => r[l][q].at = "queued"
      BY <1>4
    <2> QED
      BY <2>1, <2>2, <2>3, SameHolders
  <1>6. \A k \in Launch : BridgeSound(r[k], active[k], waiters[k])
    BY <1>1, <1>4, <1>5 DEF BridgesSound
  <1> QED
    BY <1>2, <1>4, <1>6

\* A client given up is disposed; its bridge is closed, and no call known that was not.
LEMMA RetireEffect ==
    ASSUME RpcAssumption, BridgeShape, NEW calls \in Calls0,
           \A k \in Launch : BridgeSound(calls[k], active[k], waiters[k]),
           NEW l \in Launch, Retire(calls, l), active' = active
    PROVE  /\ BridgeShape' /\ BridgesSound'
           /\ \A k \in Launch, q \in Party : rpc'[k][q].at # "none" <=> calls[k][q].at # "none"
           /\ IF current = l THEN current' = None /\ disposed' = disposed \cup {l} ELSE UNCHANGED <<current, disposed>>
  <1>1. active \in [Launch -> Nat] /\ polling \in [Launch -> BOOLEAN] /\ waiters \in [Launch -> Seq(Party)]
    BY DEF BridgeShape
  <1>2. CASE current # l
    <2>1. rpc' = calls /\ UNCHANGED <<current, disposed, waiters, polling>>
      BY <1>2 DEF Retire
    <2>2. BridgesSound'
      BY <2>1 DEF BridgesSound
    <2> QED
      BY <1>1, <1>2, <2>1, <2>2 DEF BridgeShape
  <1>3. CASE current = l
    <2>1. /\ current' = None /\ disposed' = disposed \cup {l}
          /\ rpc' = Closed(calls, l) /\ waiters' = [waiters EXCEPT ![l] = <<>>]
          /\ polling' = [polling EXCEPT ![l] = FALSE]
      BY <1>3 DEF Retire
    <2>2. PICK closed : closed = ClosedCalls(calls[l])
      OBVIOUS
    <2>3. rpc' = [calls EXCEPT ![l] = closed]
      BY <2>1, <2>2 DEF Closed, ClosedCalls
    <2>4. \A q \in Party :
            /\ calls[l][q].at = "pending" => closed[q] = [at |-> "settled", reply |-> "lost"]
            /\ calls[l][q].at = "queued" => closed[q] = [at |-> "over", reply |-> "lost"]
            /\ calls[l][q].at \notin {"pending", "queued"} => closed[q] = calls[l][q]
      BY <2>2, CallsAreClosed
    <2>5. closed \in [Party -> Call]
      <3>1. closed = [q \in Party |-> closed[q]]
        BY <2>2 DEF ClosedCalls
      <3>2. [at |-> "settled", reply |-> "lost"] \in Call /\ [at |-> "over", reply |-> "lost"] \in Call
        BY DEF Call, Stage, Reply
      <3>3. \A q \in Party : closed[q] \in Call
        BY <2>4, <3>2 DEF Calls0
      <3> QED
        BY <3>1, <3>3
    <2>6. rpc' \in Calls0 /\ rpc'[l] = closed /\ \A k \in Launch : k # l => rpc'[k] = calls[k]
      BY <2>3, <2>5 DEF Calls0
    <2>7. <<>> \in Seq(Party)
      BY EmptySeq
    <2>8. waiters' \in [Launch -> Seq(Party)] /\ waiters'[l] = <<>> /\ \A k \in Launch : k # l => waiters'[k] = waiters[k]
      BY <1>1, <2>1, <2>7
    <2>9. BridgeSound(closed, active[l], <<>>)
      <3>1. PICK count \in Nat : count = active[l]
        BY <1>1
      <3>2. BridgeSound(calls[l], count, waiters[l])
        BY <3>1
      <3> QED
        BY <2>2, <3>1, <3>2, BridgeCloses
    <2>10. BridgesSound'
      <3>1. ASSUME NEW k \in Launch PROVE BridgeSound(rpc'[k], active'[k], waiters'[k])
        <4>1. CASE k = l
          BY <2>6, <2>8, <2>9, <4>1
        <4>2. CASE k # l
          BY <2>6, <2>8, <4>2
        <4> QED
          BY <4>1, <4>2
      <3> QED
        BY <3>1 DEF BridgesSound
    <2>11. \A k \in Launch, q \in Party : rpc'[k][q].at # "none" <=> calls[k][q].at # "none"
      <3>1. \A q \in Party : closed[q].at # "none" <=> calls[l][q].at # "none"
        BY <2>4
      <3> QED
        BY <2>6, <3>1
    <2>12. polling' \in [Launch -> BOOLEAN]
      BY <1>1, <2>1
    <2> QED
      BY <1>1, <1>3, <2>1, <2>6, <2>8, <2>10, <2>11, <2>12 DEF BridgeShape
  <1> QED
    BY <1>2, <1>3
-----------------------------------------------------------------------------
(* Clients, callers and the check. *)

States == {"unused", "starting", "up", "refused", "failed"}
Places == {"idle", "checking", "checked", "starting", "taking", "calling", "ended"}
CallerState == [op : Operation \cup {None}, client : Launch \cup {None}, at : Places, try : 1 .. 3]

LEMMA SupervisorTyped ==
    ASSUME RpcAssumption, TypeOK
    PROVE  /\ current \in Launch \cup {None} /\ starting \in Launch \cup {None}
           /\ launched \in [Launch -> States] /\ disposed \subseteq Launch /\ alive \subseteq Launch
           /\ check \in Checking \cup {None}
           /\ caller \in [Caller -> CallerState]
           /\ \A c \in Caller : caller[c].at = "checking" => check # None
           /\ withdrawn \subseteq Caller
  BY DEF TypeOK, SupervisorType, CallerType, States, Places, CallerState

\* The next launch is the first that was not used.
LEMMA NextLaunchIsUnused ==
    ASSUME RpcAssumption, MayLaunch
    PROVE  NextLaunch \in Launch /\ launched[NextLaunch] = "unused"
  <1> DEFINE T == {l \in Launch : launched[l] = "unused"}
             R == {ss \in Nat \X Nat : ss[1] < ss[2]}
  <1>1. T # {} /\ T \subseteq Nat
    BY DEF MayLaunch, Launch
  <1>2. IsWellFoundedOn(R, Nat)
    BY NatLessThanWellFounded DEF OpToRel
  <1>3. PICK x \in T : \A y \in T : ~ (<<y, x>> \in R)
    BY <1>1, <1>2, WFMin
  <1>4. x \in Launch /\ launched[x] = "unused"
    OBVIOUS
  <1>5. ASSUME NEW k \in 1 .. (x - 1) PROVE launched[k] # "unused"
    <2>1. MaxLaunches \in Nat /\ x \in 1 .. MaxLaunches
      BY <1>4 DEF RpcAssumption, Launch
    <2>2. k \in Launch /\ k \in Nat /\ x \in Nat /\ k < x
      BY <2>1, <1>5 DEF Launch
    <2>3. <<k, x>> \in R
      BY <2>2
    <2>4. k \notin T
      BY <1>3, <2>3
    <2> QED
      BY <2>2, <2>4
  <1> HIDE DEF T, R
  <1> QED
    BY <1>4, <1>5 DEF NextLaunch

LEMMA StartEffect ==
    ASSUME RpcAssumption, RpcInv, Start
    PROVE  /\ starting' \in Launch /\ launched' \in [Launch -> States]
           /\ launched'[starting'] = "starting" /\ launched[starting'] \in {"unused", "starting"}
           /\ \A k \in Launch : k # starting' => launched'[k] = launched[k]
  <1>1. starting \in Launch \cup {None} /\ launched \in [Launch -> States]
        /\ (starting # None => launched[starting] = "starting")
    BY SupervisorTyped DEF RpcInv, Sound, ClientsSound
  <1>2. Awaited \in Launch /\ launched[Awaited] \in {"unused", "starting"}
    <2>1. CASE starting # None
      BY <1>1, <2>1 DEF Awaited
    <2>2. CASE starting = None
      <3>1. MayLaunch
        BY <2>2 DEF Start
      <3>2. Awaited = NextLaunch
        BY <2>2 DEF Awaited
      <3> QED
        BY <3>1, <3>2, NextLaunchIsUnused
    <2> QED
      BY <2>1, <2>2
  <1>3. PICK a \in Launch : a = Awaited
    BY <1>2
  <1>4. starting' = a /\ launched' = [launched EXCEPT ![a] = "starting"]
    BY <1>3 DEF Start
  <1>5. "starting" \in States
    BY DEF States
  <1> QED
    BY <1>1, <1>2, <1>3, <1>4, <1>5

\* A launch begun takes no client away.
LEMMA StartKeepsClients ==
    ASSUME RpcAssumption, RpcInv, Start, current = None, UNCHANGED <<current, disposed>>
    PROVE  ClientsSound' /\ \A l \in Launch : launched'[l] = "up" <=> launched[l] = "up"
  <1>1. /\ starting' \in Launch /\ launched' \in [Launch -> States]
        /\ launched'[starting'] = "starting" /\ launched[starting'] \in {"unused", "starting"}
        /\ \A k \in Launch : k # starting' => launched'[k] = launched[k]
    BY StartEffect
  <1>2. \A l \in Launch : launched'[l] = "up" <=> launched[l] = "up"
    BY <1>1
  <1>3. ClientsSound /\ current \in Launch \cup {None} /\ disposed \subseteq Launch
    BY SupervisorTyped DEF RpcInv, Sound
  <1>4. \A l \in disposed : launched'[l] \in {"up", "refused"}
    <2> TAKE l \in disposed
    <2>1. launched[l] \in {"up", "refused"} /\ l \in Launch
      BY <1>3 DEF ClientsSound
    <2> QED
      BY <1>1, <2>1
  <1>5. NoClientIsLost'
    BY <1>2, <1>3 DEF ClientsSound, NoClientIsLost
  <1>6. current' # None => launched'[current'] = "up" /\ current' \notin disposed'
    BY <1>2, <1>3 DEF ClientsSound
  <1> QED
    BY <1>1, <1>2, <1>4, <1>5, <1>6 DEF ClientsSound

LEMMA MovedEffect ==
    ASSUME RpcAssumption, RpcInv, NEW who, NEW at \in Places, NEW l \in Launch \cup {None}
    PROVE  /\ Moved(who, at, l) \in [Caller -> CallerState]
           /\ \A c \in Caller : c \in who => Moved(who, at, l)[c].at = at /\ Moved(who, at, l)[c].client = l
           /\ \A c \in Caller : c \notin who => Moved(who, at, l)[c] = caller[c]
  <1>1. caller \in [Caller -> CallerState]
    BY SupervisorTyped DEF RpcInv
  <1>2. PICK m : m = Moved(who, at, l)
    OBVIOUS
  <1>3. \A c \in Caller : c \in who => m[c] = [op |-> caller[c].op, at |-> at, client |-> l, try |-> caller[c].try]
    BY <1>2 DEF Moved
  <1>4. \A c \in Caller : c \notin who => m[c] = caller[c]
    BY <1>2 DEF Moved
  <1>5. \A c \in Caller : m[c] \in CallerState
    <2> TAKE c \in Caller
    <2>1. [op |-> caller[c].op, at |-> at, client |-> l, try |-> caller[c].try] \in CallerState
      BY <1>1 DEF CallerState
    <2> QED
      BY <1>1, <1>3, <1>4, <2>1
  <1>6. m = [c \in Caller |-> m[c]]
    BY <1>2 DEF Moved
  <1>7. m \in [Caller -> CallerState]
    BY <1>5, <1>6
  <1>8. ASSUME NEW c \in Caller, c \in who PROVE m[c].at = at /\ m[c].client = l
    <2>1. m[c] = [op |-> caller[c].op, at |-> at, client |-> l, try |-> caller[c].try]
      BY <1>3, <1>8
    <2> QED
      BY <2>1
  <1> QED
    BY <1>2, <1>4, <1>7, <1>8

LEMMA GoesEffect ==
    ASSUME NEW from \in [Caller -> CallerState], NEW c \in Caller, NEW at \in Places, NEW l \in Launch \cup {None}
    PROVE  /\ Goes(from, c, at, l) \in [Caller -> CallerState]
           /\ Goes(from, c, at, l)[c].at = at /\ Goes(from, c, at, l)[c].client = l
           /\ \A d \in Caller : d # c => Goes(from, c, at, l)[d] = from[d]
  <1>1. PICK o, k, a, t : from[c] = [op |-> o, client |-> k, at |-> a, try |-> t]
    BY DEF CallerState
  <1>2. PICK f : f = [from EXCEPT ![c].at = at]
    OBVIOUS
  <1>3. PICK g : g = [f EXCEPT ![c].client = l]
    OBVIOUS
  <1>4. f[c] = [op |-> o, client |-> k, at |-> at, try |-> t] /\ f = [from EXCEPT ![c] = f[c]]
    BY <1>1, <1>2
  <1>5. g[c] = [op |-> o, client |-> l, at |-> at, try |-> t]
    BY <1>3, <1>4
  <1>6. o \in Operation \cup {None} /\ t \in 1 .. 3
    <2>1. PICK s \in CallerState : s = [op |-> o, client |-> k, at |-> a, try |-> t]
      BY <1>1
    <2> QED
      BY <2>1 DEF CallerState
  <1>7. g[c] \in CallerState
    BY <1>5, <1>6 DEF CallerState
  <1>8. \A d \in Caller : d # c => g[d] = from[d]
    BY <1>2, <1>3
  <1>9. g \in [Caller -> CallerState]
    <2>1. g = [d \in Caller |-> g[d]]
      BY <1>2, <1>3
    <2> QED
      BY <1>7, <1>8, <2>1
  <1>10. Goes(from, c, at, l) = g
    BY <1>2, <1>3 DEF Goes
  <1> QED
    BY <1>5, <1>8, <1>9, <1>10

\* The check goes on, or one begins or ends that had not yet asked a helper.
LEMMA CheckGoesOn ==
    ASSUME RpcAssumption, RpcInv, disposed \subseteq disposed',
           \A l \in Launch : rpc'[l][Check].at # "none" => rpc[l][Check].at # "none",
           \A l \in Launch : launched[l] = "up" => launched'[l] = "up",
           \/ check' = check
           \/ (check = None \/ check.at # "health") /\ (check' = None \/ check'.at = "start")
    PROVE  CheckSound'
  <1>1. CheckSound
    BY DEF RpcInv, Sound
  <1>2. CASE check' = check
    <2>1. ASSUME check # None, check.at = "starting" PROVE check.client \in Launch /\ rpc'[check.client][Check].at = "none"
      BY <1>1, <2>1 DEF CheckSound
    <2>2. ASSUME check # None, check.at = "health" PROVE check.client \in Launch /\ launched'[check.client] = "up"
      BY <1>1, <2>2 DEF CheckSound, IsUp
    <2>3. \A l \in Launch : rpc'[l][Check].at # "none" =>
            l \in disposed' \/ (check # None /\ check.at = "health" /\ check.client = l)
      BY <1>1 DEF CheckSound
    <2> QED
      BY <1>2, <2>1, <2>2, <2>3 DEF CheckSound, IsUp
  <1>3. CASE (check = None \/ check.at # "health") /\ (check' = None \/ check'.at = "start")
    <2>1. \A l \in Launch : rpc'[l][Check].at # "none" => l \in disposed'
      BY <1>1, <1>3 DEF CheckSound
    <2> QED
      BY <1>3, <2>1 DEF CheckSound
  <1> QED
    BY <1>2, <1>3

\* A step of the supervisor or of callers that leaves the bridges alone.
LEMMA SupervisorStepSound ==
    ASSUME RpcAssumption, RpcInv, UNCHANGED bridges, ClientsSound', CheckSound', SupervisorType',
           caller' \in [Caller -> CallerState], \A c \in Caller : caller'[c].at = "checking" => check' # None,
           withdrawn' \subseteq Caller, faults' \in 0 .. MaxFaults,
           \A l \in Launch : launched[l] = "up" => launched'[l] = "up",
           \A c \in Caller : caller'[c].at \in {"checked", "calling"} =>
                               caller'[c].client \in Launch /\ launched'[caller'[c].client] = "up",
           \A c \in Caller : caller'[c].at = "starting" => caller'[c].client \in Launch,
           \A c \in Caller : caller[c].at = "calling" => caller'[c].at = "calling" /\ caller'[c].client = caller[c].client
    PROVE  RpcInv'
  <1>1. UNCHANGED <<rpc, active, waiters, polling>>
    BY DEF bridges
  <1>2. CallersSound /\ BridgesSound /\ CallsSound /\ BridgeType
    BY DEF RpcInv, Sound, TypeOK
  <1>3. BridgesSound' /\ BridgeType'
    BY <1>1, <1>2 DEF BridgesSound, BridgeType
  <1>4. CallsSound'
    BY <1>1, <1>2 DEF CallsSound
  <1>5. CallersSound'
    <2>1. ASSUME NEW c \in Caller, NEW l \in Launch, rpc'[l][c].at # "none"
          PROVE  caller'[c].at = "calling" /\ caller'[c].client = l
      BY <1>1, <1>2, <2>1 DEF CallersSound
    <2> QED
      BY <2>1 DEF CallersSound, IsUp
  <1>6. CallerType'
    BY DEF CallerType, CallerState, Places
  <1>7. TypeOK'
    BY <1>3, <1>6 DEF TypeOK
  <1> QED
    BY <1>3, <1>4, <1>5, <1>7 DEF RpcInv, Sound

\* The same for a step of one caller that has no call under way.
LEMMA CallerStepSound ==
    ASSUME RpcAssumption, RpcInv, UNCHANGED bridges, ClientsSound', CheckSound', SupervisorType',
           caller' \in [Caller -> CallerState], check # None => check' # None,
           withdrawn' \subseteq Caller, faults' \in 0 .. MaxFaults,
           \A l \in Launch : launched[l] = "up" => launched'[l] = "up",
           NEW c \in Caller, \A d \in Caller : d # c => caller'[d] = caller[d],
           caller[c].at # "calling", caller'[c].at # "calling",
           caller'[c].at = "checking" => check' # None,
           caller'[c].at = "checked" => caller'[c].client \in Launch /\ launched'[caller'[c].client] = "up",
           caller'[c].at = "starting" => caller'[c].client \in Launch
    PROVE  RpcInv'
  <1>1. CallersSound /\ (\A d \in Caller : caller[d].at = "checking" => check # None)
    BY SupervisorTyped DEF RpcInv, Sound
  <1>2. ASSUME NEW d \in Caller
        PROVE  /\ caller'[d].at = "checking" => check' # None
               /\ caller'[d].at \in {"checked", "calling"} =>
                    caller'[d].client \in Launch /\ launched'[caller'[d].client] = "up"
               /\ caller'[d].at = "starting" => caller'[d].client \in Launch
               /\ caller[d].at = "calling" => caller'[d].at = "calling" /\ caller'[d].client = caller[d].client
    <2>1. CASE d = c
      BY <2>1
    <2>2. CASE d # c
      BY <1>1, <2>2 DEF CallersSound, IsUp
    <2> QED
      BY <2>1, <2>2
  <1> QED
    BY <1>2, SupervisorStepSound

LEMMA OpIsChosen ==
    ASSUME RpcAssumption, RpcInv, NEW c \in Caller, NEW op \in Operation
    PROVE  /\ [caller EXCEPT ![c].op = op] \in [Caller -> CallerState]
           /\ \A d \in Caller : d # c => [caller EXCEPT ![c].op = op][d] = caller[d]
  <1>1. caller \in [Caller -> CallerState]
    BY SupervisorTyped DEF RpcInv
  <1>2. PICK f : f = [caller EXCEPT ![c].op = op]
    OBVIOUS
  <1>3. PICK o, k, a, t : caller[c] = [op |-> o, client |-> k, at |-> a, try |-> t]
    BY <1>1 DEF CallerState
  <1>4. f[c] = [op |-> op, client |-> k, at |-> a, try |-> t]
    BY <1>1, <1>2, <1>3
  <1>5. k \in Launch \cup {None} /\ a \in Places /\ t \in 1 .. 3
    <2>1. PICK s \in CallerState : s = [op |-> o, client |-> k, at |-> a, try |-> t]
      BY <1>1, <1>3
    <2> QED
      BY <2>1 DEF CallerState
  <1>6. f[c] \in CallerState
    BY <1>4, <1>5 DEF CallerState
  <1>7. \A d \in Caller : d # c => f[d] = caller[d]
    BY <1>1, <1>2
  <1>8. f \in [Caller -> CallerState]
    <2>1. f = [d \in Caller |-> f[d]]
      BY <1>1, <1>2
    <2> QED
      BY <1>1, <1>6, <1>7, <2>1
  <1> QED
    BY <1>2, <1>7, <1>8

LEMMA AsksEffect ==
    ASSUME RpcAssumption, RpcInv, NEW c \in Caller, NEW from \in [Caller -> CallerState], Asks(c, from)
    PROVE  /\ caller' \in [Caller -> CallerState] /\ caller'[c].at = "checking"
           /\ \A d \in Caller : d # c => caller'[d] = from[d]
           /\ check' \in Checking /\ check' # None
           /\ check' = check \/ (check = None /\ check'.at = "start")
  <1>1. caller' = Goes(from, c, "checking", None)
    BY DEF Asks
  <1>2. "checking" \in Places /\ None \in Launch \cup {None}
    BY DEF Places
  <1>3. /\ caller' \in [Caller -> CallerState] /\ caller'[c].at = "checking"
        /\ \A d \in Caller : d # c => caller'[d] = from[d]
    BY <1>1, <1>2, GoesEffect
  <1>4. check' = IF check # None THEN check
                 ELSE [owner |-> c, attempt |-> 1, at |-> "start", client |-> None]
    BY DEF Asks
  <1>5. [owner |-> c, attempt |-> 1, at |-> "start", client |-> None] \in Checking
    BY DEF Checking
  <1>6. check \in Checking \cup {None} /\ None \notin Checking
    BY SupervisorTyped DEF RpcInv, RpcAssumption
  <1> QED
    BY <1>3, <1>4, <1>5, <1>6

LEMMA TakesEffect ==
    ASSUME RpcAssumption, RpcInv, NEW c \in Caller, NEW from \in [Caller -> CallerState], Takes(c, from),
           UNCHANGED <<current, disposed>>
    PROVE  /\ caller' \in [Caller -> CallerState] /\ caller'[c].at \in {"checked", "starting", "ended"}
           /\ \A d \in Caller : d # c => caller'[d] = from[d]
           /\ caller'[c].at = "checked" => caller'[c].client \in Launch /\ launched'[caller'[c].client] = "up"
           /\ caller'[c].at = "starting" => caller'[c].client \in Launch
           /\ starting' \in Launch \cup {None} /\ launched' \in [Launch -> States] /\ ClientsSound'
           /\ \A l \in Launch : launched[l] = "up" => launched'[l] = "up"
  <1>0. {"checked", "starting", "ended"} \subseteq Places /\ None \in Launch \cup {None}
    BY DEF Places
  <1>1. ClientsSound /\ current \in Launch \cup {None} /\ starting \in Launch \cup {None} /\ launched \in [Launch -> States]
    BY SupervisorTyped DEF RpcInv, Sound
  <1>2. CASE current # None
    <2>1. caller' = Goes(from, c, "checked", current) /\ UNCHANGED <<starting, launched>>
      BY <1>2 DEF Takes
    <2>2. current \in Launch /\ launched[current] = "up"
      BY <1>1, <1>2 DEF ClientsSound
    <2>3. /\ caller' \in [Caller -> CallerState] /\ caller'[c].at = "checked" /\ caller'[c].client = current
          /\ \A d \in Caller : d # c => caller'[d] = from[d]
      BY <1>0, <2>1, <2>2, GoesEffect
    <2>4. ClientsSound'
      BY <1>1, <2>1 DEF ClientsSound, NoClientIsLost
    <2> QED
      BY <1>1, <2>1, <2>2, <2>3, <2>4
  <1>3. CASE current = None /\ (starting # None \/ MayLaunch)
    <2>1. Start /\ caller' = Goes(from, c, "starting", starting')
      BY <1>3 DEF Takes
    <2>2. starting' \in Launch /\ launched' \in [Launch -> States]
      BY <2>1, StartEffect
    <2>3. PICK k \in Launch : k = starting'
      BY <2>2
    <2>4. /\ caller' \in [Caller -> CallerState] /\ caller'[c].at = "starting" /\ caller'[c].client = k
          /\ \A d \in Caller : d # c => caller'[d] = from[d]
      BY <1>0, <2>1, <2>3, GoesEffect
    <2>5. ClientsSound' /\ \A l \in Launch : launched'[l] = "up" <=> launched[l] = "up"
      BY <1>3, <2>1, StartKeepsClients
    <2> QED
      BY <2>2, <2>4, <2>5
  <1>4. CASE current = None /\ ~(starting # None \/ MayLaunch)
    <2>1. caller' = Goes(from, c, "ended", None) /\ UNCHANGED <<starting, launched>>
      BY <1>4 DEF Takes
    <2>2. /\ caller' \in [Caller -> CallerState] /\ caller'[c].at = "ended"
          /\ \A d \in Caller : d # c => caller'[d] = from[d]
      BY <1>0, <2>1, GoesEffect
    <2>3. ClientsSound'
      BY <1>1, <2>1 DEF ClientsSound, NoClientIsLost
    <2> QED
      BY <1>1, <2>1, <2>2, <2>3
  <1> QED
    BY <1>2, <1>3, <1>4

LEMMA SameBridges ==
    ASSUME UNCHANGED bridges
    PROVE  rpc' = rpc /\ active' = active /\ waiters' = waiters /\ polling' = polling
  BY DEF bridges

LEMMA BeginSound ==
    ASSUME RpcAssumption, RpcInv, NEW c \in Caller, NEW op \in Operation, Begin(c, op)
    PROVE  RpcInv'
  <1>1. /\ caller[c].at = "idle" /\ UNCHANGED <<current, starting, launched, disposed, alive, withdrawn, faults>>
        /\ UNCHANGED bridges
    BY DEF Begin
  <1>2. PICK from : from = [caller EXCEPT ![c].op = op]
    OBVIOUS
  <1>3. from \in [Caller -> CallerState] /\ \A d \in Caller : d # c => from[d] = caller[d]
    BY <1>2, OpIsChosen
  <1>4. /\ caller' \in [Caller -> CallerState] /\ caller'[c].at = "checking"
        /\ \A d \in Caller : d # c => caller'[d] = from[d]
        /\ check' \in Checking /\ check' # None
        /\ check' = check \/ (check = None /\ check'.at = "start")
    BY <1>2, <1>3, AsksEffect DEF Begin
  <1>5. ClientsSound' /\ SupervisorType' /\ withdrawn' \subseteq Caller /\ faults' \in 0 .. MaxFaults
    BY <1>1, <1>4 DEF RpcInv, Sound, TypeOK, ClientsSound, NoClientIsLost, SupervisorType, CallerType
  <1>6. CheckSound'
    BY <1>1, <1>4, SameBridges, CheckGoesOn
  <1> QED
    BY <1>1, <1>3, <1>4, <1>5, <1>6, CallerStepSound

LEMMA TakesSound ==
    ASSUME RpcAssumption, RpcInv, NEW c \in Caller, NEW from \in [Caller -> CallerState],
           \A d \in Caller : d # c => from[d] = caller[d], caller[c].at # "calling", Takes(c, from),
           UNCHANGED <<current, disposed, check, alive, withdrawn, bridges, faults>>
    PROVE  RpcInv'
  <1>1. /\ caller' \in [Caller -> CallerState] /\ caller'[c].at \in {"checked", "starting", "ended"}
        /\ \A d \in Caller : d # c => caller'[d] = from[d]
        /\ caller'[c].at = "checked" => caller'[c].client \in Launch /\ launched'[caller'[c].client] = "up"
        /\ caller'[c].at = "starting" => caller'[c].client \in Launch
        /\ starting' \in Launch \cup {None} /\ launched' \in [Launch -> States] /\ ClientsSound'
        /\ \A l \in Launch : launched[l] = "up" => launched'[l] = "up"
    BY TakesEffect
  <1>2. SupervisorType' /\ withdrawn' \subseteq Caller /\ faults' \in 0 .. MaxFaults
    BY <1>1 DEF RpcInv, TypeOK, SupervisorType, CallerType, States
  <1>3. CheckSound'
    BY <1>1, SameBridges, CheckGoesOn
  <1> QED
    BY <1>1, <1>2, <1>3, CallerStepSound

LEMMA BeginOnChannelSound ==
    ASSUME RpcAssumption, RpcInv, NEW c \in Caller, NEW op \in Operation, BeginOnChannel(c, op)
    PROVE  RpcInv'
  <1>1. PICK from : from = [caller EXCEPT ![c].op = op]
    OBVIOUS
  <1>2. from \in [Caller -> CallerState] /\ \A d \in Caller : d # c => from[d] = caller[d]
    BY <1>1, OpIsChosen
  <1>3. Takes(c, from) /\ caller[c].at # "calling" /\ UNCHANGED <<current, disposed, check, alive, withdrawn, bridges, faults>>
    BY <1>1 DEF BeginOnChannel
  <1> QED
    BY <1>2, <1>3, TakesSound

LEMMA TakesAgainSound ==
    ASSUME RpcAssumption, RpcInv, NEW c \in Caller, TakesAgain(c)
    PROVE  RpcInv'
  <1>1. PICK from : from = caller
    OBVIOUS
  <1>2. from \in [Caller -> CallerState] /\ \A d \in Caller : d # c => from[d] = caller[d]
    BY <1>1, SupervisorTyped DEF RpcInv
  <1>3. Takes(c, from) /\ caller[c].at # "calling" /\ UNCHANGED <<current, disposed, check, alive, withdrawn, bridges, faults>>
    BY <1>1 DEF TakesAgain
  <1> QED
    BY <1>2, <1>3, TakesSound

LEMMA BeginCancelSound ==
    ASSUME RpcAssumption, RpcInv, NEW c \in Caller, NEW r \in Caller, BeginCancel(c, r)
    PROVE  RpcInv'
  <1>1. caller[c].at = "idle" /\ withdrawn' = withdrawn \cup {r} /\ UNCHANGED <<supervisor, alive, bridges, faults>>
    BY DEF BeginCancel
  <1>2. UNCHANGED <<current, starting, launched, disposed, check>>
    BY <1>1 DEF supervisor
  <1>3. PICK from : from = [caller EXCEPT ![c].op = "cancel"]
    OBVIOUS
  <1>4. PICK at : at = IF current # None THEN "checked" ELSE IF starting # None THEN "starting" ELSE "ended"
    OBVIOUS
  <1>5. PICK k : k = IF current # None THEN current ELSE starting
    OBVIOUS
  <1>6. from \in [Caller -> CallerState] /\ \A d \in Caller : d # c => from[d] = caller[d]
    <2>1. "cancel" \in Operation
      BY DEF Operation
    <2> QED
      BY <1>3, <2>1, OpIsChosen
  <1>7. ClientsSound /\ current \in Launch \cup {None} /\ starting \in Launch \cup {None} /\ withdrawn \subseteq Caller
    BY SupervisorTyped DEF RpcInv, Sound
  <1>8. at \in Places /\ k \in Launch \cup {None}
    BY <1>4, <1>5, <1>7 DEF Places
  <1>9. caller' = Goes(from, c, at, k)
    BY <1>3, <1>4, <1>5 DEF BeginCancel
  <1>10. /\ caller' \in [Caller -> CallerState] /\ caller'[c].at = at /\ caller'[c].client = k
         /\ \A d \in Caller : d # c => caller'[d] = from[d]
    BY <1>6, <1>8, <1>9, GoesEffect
  <1>11. /\ at = "checked" => k \in Launch /\ launched[k] = "up"
         /\ at = "starting" => k \in Launch
         /\ at \notin {"checking", "calling"}
    BY <1>4, <1>5, <1>7 DEF ClientsSound
  <1>12. ClientsSound' /\ SupervisorType' /\ withdrawn' \subseteq Caller /\ faults' \in 0 .. MaxFaults
    BY <1>1, <1>2, <1>7 DEF RpcInv, TypeOK, ClientsSound, NoClientIsLost, SupervisorType
  <1>13. CheckSound'
    BY <1>1, <1>2, SameBridges, CheckGoesOn
  <1> QED
    BY <1>1, <1>2, <1>6, <1>10, <1>11, <1>12, <1>13, CallerStepSound

LEMMA AtIsChanged ==
    ASSUME NEW from \in [Caller -> CallerState], NEW c \in Caller, NEW at \in Places
    PROVE  /\ [from EXCEPT ![c].at = at] \in [Caller -> CallerState]
           /\ [from EXCEPT ![c].at = at][c].at = at
           /\ [from EXCEPT ![c].at = at][c].client = from[c].client
           /\ \A d \in Caller : d # c => [from EXCEPT ![c].at = at][d] = from[d]
  <1>1. PICK o, k, a, t : from[c] = [op |-> o, client |-> k, at |-> a, try |-> t]
    BY DEF CallerState
  <1>2. PICK f : f = [from EXCEPT ![c].at = at]
    OBVIOUS
  <1>3. f[c] = [op |-> o, client |-> k, at |-> at, try |-> t]
    BY <1>1, <1>2
  <1>4. o \in Operation \cup {None} /\ k \in Launch \cup {None} /\ t \in 1 .. 3
    <2>1. PICK s \in CallerState : s = [op |-> o, client |-> k, at |-> a, try |-> t]
      BY <1>1
    <2> QED
      BY <2>1 DEF CallerState
  <1>5. f[c] \in CallerState
    BY <1>3, <1>4 DEF CallerState
  <1>6. \A d \in Caller : d # c => f[d] = from[d]
    BY <1>2
  <1>7. f \in [Caller -> CallerState]
    <2>1. f = [d \in Caller |-> f[d]]
      BY <1>2
    <2> QED
      BY <1>5, <1>6, <2>1
  <1>8. f[c].at = at /\ f[c].client = from[c].client
    BY <1>1, <1>3
  <1> QED
    BY <1>2, <1>6, <1>7, <1>8

LEMMA StartedSound ==
    ASSUME RpcAssumption, RpcInv, NEW c \in Caller, Started(c)
    PROVE  RpcInv'
  <1>1. caller[c].at = "starting" /\ UNCHANGED <<supervisor, alive, withdrawn, bridges, faults>>
    BY DEF Started
  <1>2. UNCHANGED <<current, starting, launched, disposed, check>>
    BY <1>1 DEF supervisor
  <1>3. caller \in [Caller -> CallerState] /\ caller[c].client \in Launch
    BY <1>1, SupervisorTyped DEF RpcInv, Sound, CallersSound
  <1>4. /\ caller' \in [Caller -> CallerState] /\ caller'[c].at \in {"checked", "ended"}
        /\ caller'[c].at = "checked" => caller'[c].client \in Launch /\ launched[caller'[c].client] = "up"
        /\ \A d \in Caller : d # c => caller'[d] = caller[d]
    <2>0. "checked" \in Places /\ "ended" \in Places /\ None \in Launch \cup {None}
      BY DEF Places
    <2>1. CASE launched[caller[c].client] = "up"
      <3>1. PICK f : f = [caller EXCEPT ![c].at = "checked"]
        OBVIOUS
      <3>2. f \in [Caller -> CallerState] /\ f[c].at = "checked" /\ f[c].client = caller[c].client
            /\ \A d \in Caller : d # c => f[d] = caller[d]
        <4>1. PICK from \in [Caller -> CallerState] : from = caller
          BY <1>3
        <4>2. f = [from EXCEPT ![c].at = "checked"]
          BY <3>1, <4>1
        <4> QED
          BY <2>0, <4>1, <4>2, AtIsChanged
      <3>3. caller' = f
        BY <2>1, <3>1 DEF Started
      <3> QED
        BY <1>3, <2>1, <3>2, <3>3
    <2>2. CASE launched[caller[c].client] # "up"
      <3>1. caller' = Moved({c}, "ended", None)
        BY <2>2 DEF Started, Ended
      <3>2. c \in {c} /\ \A d \in Caller : d # c => d \notin {c}
        OBVIOUS
      <3> QED
        BY <2>0, <3>1, <3>2, MovedEffect
    <2> QED
      BY <2>1, <2>2
  <1>5. ClientsSound' /\ SupervisorType' /\ withdrawn' \subseteq Caller /\ faults' \in 0 .. MaxFaults
    BY <1>1, <1>2 DEF RpcInv, Sound, TypeOK, ClientsSound, NoClientIsLost, SupervisorType, CallerType
  <1>6. CheckSound'
    BY <1>1, <1>2, SameBridges, CheckGoesOn
  <1> QED
    BY <1>1, <1>2, <1>4, <1>5, <1>6, CallerStepSound

\* A launch that nobody waits for any more.
LEMMA NoLongerAwaitedEffect ==
    ASSUME RpcAssumption, RpcInv, NEW l, NoLongerAwaited(l)
    PROVE  starting' \in Launch \cup {None} /\ (starting' # None => starting' = starting /\ starting' # l)
  BY SupervisorTyped DEF RpcInv, NoLongerAwaited

LEMMA DeadlineOfStartSound ==
    ASSUME RpcAssumption, RpcInv, NEW c \in Caller, DeadlineOfStart(c)
    PROVE  RpcInv'
  <1>1. /\ caller[c].at = "starting" /\ faults < MaxFaults /\ faults' = faults + 1
        /\ UNCHANGED <<current, launched, disposed, check, alive, withdrawn, bridges>>
        /\ NoLongerAwaited(caller[c].client)
    BY DEF DeadlineOfStart
  <1>2. starting' \in Launch \cup {None} /\ (starting' # None => starting' = starting)
    BY <1>1, NoLongerAwaitedEffect
  <1>3. /\ caller' \in [Caller -> CallerState] /\ caller'[c].at = "ended"
        /\ \A d \in Caller : d # c => caller'[d] = caller[d]
    <2>1. "ended" \in Places /\ None \in Launch \cup {None}
      BY DEF Places
    <2>2. caller' = Moved({c}, "ended", None)
      BY DEF DeadlineOfStart, Ended
    <2>3. PICK who : who = {c}
      OBVIOUS
    <2>4. /\ Moved(who, "ended", None) \in [Caller -> CallerState]
          /\ Moved(who, "ended", None)[c].at = "ended"
          /\ \A d \in Caller : d # c => Moved(who, "ended", None)[d] = caller[d]
      BY <2>1, <2>3, MovedEffect
    <2> QED
      BY <2>2, <2>3, <2>4
  <1>4. ClientsSound' /\ SupervisorType' /\ withdrawn' \subseteq Caller
    BY <1>1, <1>2 DEF RpcInv, Sound, TypeOK, ClientsSound, NoClientIsLost, SupervisorType, CallerType
  <1>5. faults' \in 0 .. MaxFaults
    BY <1>1, BridgeTyped DEF RpcInv
  <1>6. CheckSound'
    BY <1>1, SameBridges, CheckGoesOn
  <1> QED
    BY <1>1, <1>3, <1>4, <1>5, <1>6, CallerStepSound

LEMMA LaunchSound ==
    ASSUME RpcAssumption, RpcInv, NEW l \in Launch, LaunchSucceeds(l) \/ LaunchFails(l)
    PROVE  RpcInv'
  <1>1. /\ launched[l] = "starting" /\ NoLongerAwaited(l) /\ UNCHANGED <<check, caller, withdrawn, bridges>>
    BY DEF LaunchSucceeds, LaunchFails
  <1>2. /\ current \in Launch \cup {None} /\ starting \in Launch \cup {None}
        /\ launched \in [Launch -> States] /\ disposed \subseteq Launch /\ alive \subseteq Launch
        /\ check \in Checking \cup {None} /\ caller \in [Caller -> CallerState] /\ withdrawn \subseteq Caller
        /\ \A c \in Caller : caller[c].at = "checking" => check # None
    BY SupervisorTyped DEF RpcInv
  <1>3. ClientsSound /\ CallersSound
    BY DEF RpcInv, Sound
  <1>4. starting' \in Launch \cup {None} /\ (starting' # None => starting' = starting /\ starting' # l)
    BY <1>1, NoLongerAwaitedEffect
  <1>5. faults' \in 0 .. MaxFaults /\ alive' \subseteq Launch
    BY <1>2, BridgeTyped DEF RpcInv, LaunchSucceeds, LaunchFails, Serves
  <1>6. PICK state \in {"up", "refused", "failed"} :
          /\ launched' = [launched EXCEPT ![l] = state]
          /\ state = "up" => current' = l /\ disposed' = disposed /\ starting = l
          /\ state = "refused" => current' = current /\ disposed' = disposed \cup {l}
          /\ state = "failed" => current' = current /\ disposed' = disposed
    <2>1. CASE LaunchSucceeds(l)
      BY <2>1 DEF LaunchSucceeds, TakesLaunch
    <2>2. CASE LaunchFails(l)
      BY <2>2 DEF LaunchFails
    <2> QED
      BY <2>1, <2>2
  <1>7. /\ launched' \in [Launch -> States] /\ launched'[l] = state
        /\ \A k \in Launch : k # l => launched'[k] = launched[k]
    BY <1>2, <1>6 DEF States
  <1>8. \A k \in Launch : launched[k] = "up" => launched'[k] = "up"
    BY <1>1, <1>7
  <1>9. l \notin disposed
    BY <1>1, <1>3 DEF ClientsSound
  <1>10. state = "up" => current = None /\ l # None
    BY <1>3, <1>6 DEF ClientsSound, RpcAssumption
  <1>11. ClientsSound'
    <2>1. current' # None => launched'[current'] = "up" /\ current' \notin disposed'
      <3>1. CASE state = "up"
        BY <1>6, <1>7, <1>9, <3>1
      <3>2. CASE state # "up"
        <4>1. current # None => current \in Launch /\ launched[current] = "up" /\ current \notin disposed /\ current # l
          BY <1>1, <1>2, <1>3 DEF ClientsSound
        <4>2. current' = current /\ disposed' \subseteq disposed \cup {l}
          BY <1>6, <3>2
        <4> QED
          BY <1>7, <4>1, <4>2
      <3> QED
        BY <3>1, <3>2
    <2>2. starting' # None => launched'[starting'] = "starting" /\ current' = None
      <3>1. starting' # None => starting \in Launch /\ launched[starting] = "starting" /\ current = None /\ starting # l
        BY <1>2, <1>3, <1>4 DEF ClientsSound
      <3>2. starting' # None => state # "up"
        BY <1>6, <3>1
      <3> QED
        BY <1>4, <1>6, <1>7, <3>1, <3>2
    <2>3. \A k \in disposed' : launched'[k] \in {"up", "refused"}
      BY <1>2, <1>3, <1>6, <1>7, <1>9 DEF ClientsSound
    <2>4. NoClientIsLost'
      <3> SUFFICES ASSUME NEW k \in Launch, launched'[k] = "up" PROVE k = current' \/ k \in disposed'
        BY DEF NoClientIsLost
      <3>1. CASE k = l
        BY <1>6, <1>7, <3>1
      <3>2. CASE k # l
        <4>1. k = current \/ k \in disposed
          BY <1>3, <1>7, <3>2 DEF ClientsSound, NoClientIsLost
        <4> QED
          BY <1>6, <1>10, <4>1 DEF RpcAssumption
      <3> QED
        BY <3>1, <3>2
    <2> QED
      BY <2>1, <2>2, <2>3, <2>4 DEF ClientsSound
  <1>12. CheckSound'
    BY <1>1, <1>6, <1>8, SameBridges, CheckGoesOn
  <1>13. SupervisorType'
    <2>1. current' \in Launch \cup {None} /\ disposed' \subseteq Launch
      BY <1>2, <1>6
    <2> QED
      BY <1>1, <1>2, <1>4, <1>5, <1>7, <2>1 DEF SupervisorType, States
  <1>14. \A c \in Caller :
          /\ caller'[c].at = "checking" => check' # None
          /\ caller'[c].at \in {"checked", "calling"} => caller'[c].client \in Launch /\ launched'[caller'[c].client] = "up"
          /\ caller'[c].at = "starting" => caller'[c].client \in Launch
          /\ caller[c].at = "calling" => caller'[c].at = "calling" /\ caller'[c].client = caller[c].client
    BY <1>1, <1>2, <1>3, <1>8 DEF CallersSound, IsUp
  <1>15. caller' \in [Caller -> CallerState] /\ withdrawn' \subseteq Caller
    BY <1>1, <1>2
  <1> QED
    BY <1>1, <1>5, <1>8, <1>11, <1>12, <1>13, <1>14, <1>15, SupervisorStepSound

LEMMA DieSound ==
    ASSUME RpcAssumption, RpcInv, NEW l \in Launch, Die(l)
    PROVE  RpcInv'
  <1>1. /\ faults < MaxFaults /\ faults' = faults + 1 /\ alive' = alive \ {l}
        /\ UNCHANGED <<supervisor, bridges, caller, withdrawn>>
    BY DEF Die
  <1>2. UNCHANGED <<current, starting, launched, disposed, check>>
    BY <1>1 DEF supervisor
  <1>3. faults' \in 0 .. MaxFaults
    BY <1>1, BridgeTyped DEF RpcInv
  <1>4. ClientsSound' /\ SupervisorType' /\ withdrawn' \subseteq Caller
    BY <1>1, <1>2 DEF RpcInv, Sound, TypeOK, ClientsSound, NoClientIsLost, SupervisorType, CallerType
  <1>5. CheckSound'
    BY <1>1, <1>2, SameBridges, CheckGoesOn
  <1>6. caller \in [Caller -> CallerState] /\ (\A c \in Caller : caller[c].at = "checking" => check # None)
    BY SupervisorTyped DEF RpcInv
  <1>7. \A c \in Caller :
          /\ caller'[c].at = "checking" => check' # None
          /\ caller'[c].at \in {"checked", "calling"} => caller'[c].client \in Launch /\ launched'[caller'[c].client] = "up"
          /\ caller'[c].at = "starting" => caller'[c].client \in Launch
          /\ caller[c].at = "calling" => caller'[c].at = "calling" /\ caller'[c].client = caller[c].client
    BY <1>1, <1>2, <1>6 DEF RpcInv, Sound, CallersSound, IsUp
  <1>8. caller' \in [Caller -> CallerState] /\ \A k \in Launch : launched[k] = "up" => launched'[k] = "up"
    BY <1>1, <1>2, <1>6
  <1> QED
    BY <1>1, <1>3, <1>4, <1>5, <1>7, <1>8, SupervisorStepSound
-----------------------------------------------------------------------------
(* Calls that are posted and calls that end. *)

LEMMA AllSound ==
    ASSUME RpcAssumption, BridgeShape', BridgesSound', ClientsSound', CheckSound', CallersSound', CallsSound',
           SupervisorType', caller' \in [Caller -> CallerState],
           \A c \in Caller : caller'[c].at = "checking" => check' # None,
           withdrawn' \subseteq Caller, faults' \in 0 .. MaxFaults
    PROVE  RpcInv'
  <1>1. CallerType'
    BY DEF CallerType, CallerState, Places
  <1>2. TypeOK'
    BY <1>1, BridgeTypes DEF TypeOK
  <1> QED
    BY <1>2 DEF RpcInv, Sound

\* Calls of one that waits for a helper are known nowhere, those of one that
\* calls only where it calls.
LEMMA WhereKnown ==
    ASSUME RpcAssumption, RpcInv, NEW c \in Caller, NEW l \in Launch
    PROVE  /\ caller[c].at # "calling" => rpc[l][c].at = "none"
           /\ caller[c].client # l => rpc[l][c].at = "none"
  BY DEF RpcInv, Sound, CallersSound

LEMMA CallIsPosted ==
    ASSUME RpcAssumption, RpcInv, NEW c \in Caller, Calls(c), c \notin withdrawn
    PROVE  RpcInv'
  <1>1. caller[c].at = "checked" /\ UNCHANGED <<supervisor, alive, withdrawn, faults>>
        /\ caller' = [caller EXCEPT ![c].at = "calling"] /\ Post(caller[c].client, c)
    BY DEF Calls
  <1>2. UNCHANGED <<current, starting, launched, disposed, check>>
    BY <1>1 DEF supervisor
  <1>3. PICK l \in Launch : l = caller[c].client /\ launched[l] = "up"
    BY <1>1 DEF RpcInv, Sound, CallersSound, IsUp
  <1>4. c \in Party /\ c # Check /\ Check \in Party /\ \A d \in Caller : d \in Party
    BY DEF Party, RpcAssumption
  <1>5. /\ BridgeShape' /\ BridgesSound'
        /\ \A k \in Launch, q \in Party : k # l \/ q # c => rpc'[k][q] = rpc[k][q]
    <2>1. rpc[l][c].at = "none" /\ Post(l, c)
      BY <1>1, <1>3, WhereKnown
    <2> QED
      BY <1>4, <2>1, PostEffect
  <1>6. /\ caller' \in [Caller -> CallerState] /\ caller'[c].at = "calling" /\ caller'[c].client = l
        /\ \A d \in Caller : d # c => caller'[d] = caller[d]
    <2>0. "calling" \in Places
      BY DEF Places
    <2>1. PICK from \in [Caller -> CallerState] : from = caller
      BY SupervisorTyped DEF RpcInv
    <2>2. PICK f : f = [from EXCEPT ![c].at = "calling"]
      OBVIOUS
    <2>3. /\ f \in [Caller -> CallerState] /\ f[c].at = "calling" /\ f[c].client = from[c].client
          /\ \A d \in Caller : d # c => f[d] = from[d]
      BY <2>0, <2>2, AtIsChanged
    <2>4. caller' = f
      BY <1>1, <2>1, <2>2
    <2> QED
      BY <1>3, <2>1, <2>3, <2>4
  <1>7. CallersSound'
    <2>1. ASSUME NEW d \in Caller
          PROVE  /\ caller'[d].at \in {"checked", "calling"} => caller'[d].client \in Launch /\ launched[caller'[d].client] = "up"
                 /\ caller'[d].at = "starting" => caller'[d].client \in Launch
                 /\ \A k \in Launch : rpc'[k][d].at # "none" => caller'[d].at = "calling" /\ caller'[d].client = k
      <3>1. CASE d = c
        <4>1. ASSUME NEW k \in Launch, k # l PROVE rpc'[k][c].at = "none"
          BY <1>1, <1>4, <1>5, <4>1, WhereKnown
        <4> QED
          BY <1>3, <1>6, <3>1, <4>1
      <3>2. CASE d # c
        <4>1. CallersSound
          BY DEF RpcInv, Sound
        <4>2. \A k \in Launch : rpc'[k][d] = rpc[k][d]
          BY <1>4, <1>5, <3>2
        <4> QED
          BY <1>6, <3>2, <4>1, <4>2 DEF CallersSound, IsUp
      <3> QED
        BY <3>1, <3>2
    <2> QED
      BY <1>2, <2>1 DEF CallersSound, IsUp
  <1>8. CallsSound'
    <2>1. CallsSound
      BY DEF RpcInv, Sound
    <2>2. ASSUME NEW k \in Launch, NEW q \in Party, rpc'[k][q].at # "none" PROVE launched[k] = "up"
      <3>1. CASE k = l
        BY <1>3, <3>1
      <3>2. CASE k # l
        BY <1>5, <2>1, <2>2, <3>2 DEF CallsSound
      <3> QED
        BY <3>1, <3>2
    <2> QED
      BY <1>2, <2>2 DEF CallsSound
  <1>9. CheckSound'
    <2>1. \A k \in Launch : rpc'[k][Check] = rpc[k][Check]
      BY <1>4, <1>5
    <2> QED
      BY <1>2, <2>1, CheckGoesOn
  <1>10. ClientsSound' /\ SupervisorType' /\ withdrawn' \subseteq Caller /\ faults' \in 0 .. MaxFaults
    BY <1>1, <1>2 DEF RpcInv, Sound, TypeOK, ClientsSound, NoClientIsLost, SupervisorType, CallerType
  <1>11. \A d \in Caller : caller'[d].at = "checking" => check' # None
    BY <1>2, <1>6, SupervisorTyped DEF RpcInv
  <1> QED
    BY <1>5, <1>6, <1>7, <1>8, <1>9, <1>10, <1>11, AllSound

LEMMA CallIsNotWanted ==
    ASSUME RpcAssumption, RpcInv, NEW c \in Caller, Calls(c), c \in withdrawn
    PROVE  RpcInv'
  <1>1. caller[c].at = "checked" /\ UNCHANGED <<supervisor, alive, withdrawn, bridges, faults>>
        /\ caller' = Moved({c}, "ended", None)
    BY DEF Calls, Ended
  <1>2. UNCHANGED <<current, starting, launched, disposed, check>>
    BY <1>1 DEF supervisor
  <1>3. /\ caller' \in [Caller -> CallerState] /\ caller'[c].at = "ended"
        /\ \A d \in Caller : d # c => caller'[d] = caller[d]
    <2>1. "ended" \in Places /\ None \in Launch \cup {None}
      BY DEF Places
    <2>2. PICK who : who = {c}
      OBVIOUS
    <2>3. /\ Moved(who, "ended", None) \in [Caller -> CallerState]
          /\ Moved(who, "ended", None)[c].at = "ended"
          /\ \A d \in Caller : d # c => Moved(who, "ended", None)[d] = caller[d]
      BY <2>1, <2>2, MovedEffect
    <2> QED
      BY <1>1, <2>2, <2>3
  <1>4. ClientsSound' /\ SupervisorType' /\ withdrawn' \subseteq Caller /\ faults' \in 0 .. MaxFaults
    BY <1>1, <1>2 DEF RpcInv, Sound, TypeOK, ClientsSound, NoClientIsLost, SupervisorType, CallerType
  <1>5. CheckSound'
    BY <1>1, <1>2, SameBridges, CheckGoesOn
  <1> QED
    BY <1>1, <1>2, <1>3, <1>4, <1>5, CallerStepSound

\* Who waits for the check goes on.
LEMMA WaitingGo ==
    ASSUME RpcAssumption, RpcInv, NEW at \in Places, NEW l \in Launch \cup {None}
    PROVE  /\ Moved(Waiting, at, l) \in [Caller -> CallerState]
           /\ \A c \in Caller : IF caller[c].at = "checking" THEN Moved(Waiting, at, l)[c].at = at /\ Moved(Waiting, at, l)[c].client = l
                                ELSE Moved(Waiting, at, l)[c] = caller[c]
  <1>1. PICK who : who = Waiting
    OBVIOUS
  <1>2. \A c \in Caller : c \in who <=> caller[c].at = "checking"
    BY <1>1 DEF Waiting
  <1>3. /\ Moved(who, at, l) \in [Caller -> CallerState]
        /\ \A c \in Caller : c \in who => Moved(who, at, l)[c].at = at /\ Moved(who, at, l)[c].client = l
        /\ \A c \in Caller : c \notin who => Moved(who, at, l)[c] = caller[c]
    BY MovedEffect
  <1> QED
    BY <1>1, <1>2, <1>3

LEMMA CheckFailsEffect ==
    ASSUME RpcAssumption, RpcInv, CheckFails
    PROVE  /\ check' = None /\ caller' \in [Caller -> CallerState]
           /\ \A c \in Caller : IF caller[c].at = "checking" THEN caller'[c].at = "ended" ELSE caller'[c] = caller[c]
  <1>1. check' = None /\ caller' = Moved(Waiting, "ended", None)
    BY DEF CheckFails, Ended
  <1>2. "ended" \in Places /\ None \in Launch \cup {None}
    BY DEF Places
  <1> QED
    BY <1>1, <1>2, WaitingGo

CheckAt(at, l) == [check EXCEPT !.at = at, !.client = l]

LEMMA CheckIsChanged ==
    ASSUME RpcAssumption, RpcInv, check # None, NEW at \in {"start", "starting", "health"}, NEW l \in Launch \cup {None}
    PROVE  CheckAt(at, l) \in Checking /\ CheckAt(at, l).at = at /\ CheckAt(at, l).client = l /\ CheckAt(at, l) # None
  <1>1. check \in Checking /\ None \notin Checking
    BY SupervisorTyped DEF RpcInv, RpcAssumption
  <1>2. PICK s \in Checking : s = check
    BY <1>1
  <1>3. PICK o \in Caller, n \in 1 .. 2, a \in {"start", "starting", "health"}, k \in Launch \cup {None} :
          s = [owner |-> o, attempt |-> n, at |-> a, client |-> k]
    BY DEF Checking
  <1>4. PICK e : e = [s EXCEPT !.at = at]
    OBVIOUS
  <1>5. e = [owner |-> o, attempt |-> n, at |-> at, client |-> k]
    BY <1>3, <1>4
  <1>6. PICK f : f = [e EXCEPT !.client = l]
    OBVIOUS
  <1>7. f = [owner |-> o, attempt |-> n, at |-> at, client |-> l]
    BY <1>5, <1>6
  <1>8. CheckAt(at, l) = f
    BY <1>2, <1>4, <1>6 DEF CheckAt
  <1>9. f \in Checking /\ f.at = at /\ f.client = l
    BY <1>7 DEF Checking
  <1> QED
    BY <1>1, <1>8, <1>9

LEMMA CheckPosts ==
    ASSUME RpcAssumption, RpcInv, check = None \/ check.at # "health",
           NEW l \in Launch, launched[l] = "up", rpc[l][Check].at = "none", Post(l, Check),
           check' \in Checking, check' # None, check'.at = "health", check'.client = l,
           UNCHANGED <<current, starting, launched, disposed, alive, withdrawn, faults, caller>>
    PROVE  RpcInv'
  <1>1. Check \in Party /\ \A d \in Caller : d \in Party /\ d # Check
    BY DEF Party, RpcAssumption
  <1>2. /\ BridgeShape' /\ BridgesSound'
        /\ \A k \in Launch, q \in Party : k # l \/ q # Check => rpc'[k][q] = rpc[k][q]
    BY <1>1, PostEffect
  <1>3. CallersSound'
    <2>1. \A d \in Caller, k \in Launch : rpc'[k][d] = rpc[k][d]
      BY <1>1, <1>2
    <2>2. CallersSound
      BY DEF RpcInv, Sound
    <2> QED
      BY <2>1, <2>2 DEF CallersSound, IsUp
  <1>4. CheckSound'
    <2>1. CheckSound
      BY DEF RpcInv, Sound
    <2>2. \A k \in Launch : k # l /\ rpc'[k][Check].at # "none" => k \in disposed
      BY <1>1, <1>2, <2>1 DEF CheckSound
    <2> QED
      BY <2>2 DEF CheckSound, IsUp
  <1>5. CallsSound'
    <2>1. CallsSound
      BY DEF RpcInv, Sound
    <2>2. ASSUME NEW k \in Launch, NEW q \in Party, rpc'[k][q].at # "none" PROVE launched[k] = "up"
      <3>1. CASE k = l
        BY <3>1
      <3>2. CASE k # l
        BY <1>2, <2>1, <2>2, <3>2 DEF CallsSound
      <3> QED
        BY <3>1, <3>2
    <2> QED
      BY <2>2 DEF CallsSound
  <1>6. ClientsSound' /\ SupervisorType' /\ withdrawn' \subseteq Caller /\ faults' \in 0 .. MaxFaults
    BY DEF RpcInv, Sound, TypeOK, ClientsSound, NoClientIsLost, SupervisorType, CallerType
  <1>7. caller' \in [Caller -> CallerState]
    BY SupervisorTyped DEF RpcInv
  <1> QED
    BY <1>2, <1>3, <1>4, <1>5, <1>6, <1>7, AllSound

\* A check that fails before it has asked a helper.
LEMMA CheckEndsEarly ==
    ASSUME RpcAssumption, RpcInv, check # None, check.at # "health", CheckFails,
           starting' = starting \/ starting' = None, faults' \in 0 .. MaxFaults,
           UNCHANGED <<current, launched, disposed, alive, withdrawn, bridges>>
    PROVE  RpcInv'
  <1>1. /\ check' = None /\ caller' \in [Caller -> CallerState]
        /\ \A c \in Caller : IF caller[c].at = "checking" THEN caller'[c].at = "ended" ELSE caller'[c] = caller[c]
    BY CheckFailsEffect
  <1>2. CheckSound'
    BY <1>1, SameBridges, CheckGoesOn
  <1>3. CallersSound
    BY DEF RpcInv, Sound
  <1>4. ASSUME NEW c \in Caller
        PROVE  /\ caller'[c].at # "checking"
               /\ caller'[c].at \in {"checked", "calling"} => caller'[c].client \in Launch /\ launched'[caller'[c].client] = "up"
               /\ caller'[c].at = "starting" => caller'[c].client \in Launch
               /\ caller[c].at = "calling" => caller'[c].at = "calling" /\ caller'[c].client = caller[c].client
    <2>1. CASE caller[c].at = "checking"
      BY <1>1, <2>1
    <2>2. CASE caller[c].at # "checking"
      BY <1>1, <1>3, <2>2 DEF CallersSound, IsUp
    <2> QED
      BY <2>1, <2>2
  <1>5. ClientsSound' /\ SupervisorType' /\ withdrawn' \subseteq Caller
    BY <1>1 DEF RpcInv, Sound, TypeOK, ClientsSound, NoClientIsLost, SupervisorType, CallerType
  <1> QED
    BY <1>1, <1>2, <1>4, <1>5, SupervisorStepSound

LEMMA CheckLooksSound ==
    ASSUME RpcAssumption, RpcInv, CheckLooks
    PROVE  RpcInv'
  <1>1. check # None /\ check.at = "start" /\ UNCHANGED <<current, disposed, alive, withdrawn, faults>>
    BY DEF CheckLooks
  <1>2. ClientsSound /\ CheckSound /\ CallsSound /\ current \in Launch \cup {None}
    BY SupervisorTyped DEF RpcInv, Sound
  <1>3. CASE current # None
    <2>1. check' = [check EXCEPT !.at = "health", !.client = current] /\ Post(current, Check)
          /\ UNCHANGED <<starting, launched, caller>>
      BY <1>3 DEF CheckLooks
    <2>2. PICK l \in Launch : l = current /\ launched[l] = "up" /\ l \notin disposed
      BY <1>2, <1>3 DEF ClientsSound
    <2>3. check' \in Checking /\ check' # None /\ check'.at = "health" /\ check'.client = l
      <3>1. check' = CheckAt("health", l)
        BY <2>1, <2>2 DEF CheckAt
      <3> QED
        BY <1>1, <3>1, CheckIsChanged
    <2>4. rpc[l][Check].at = "none"
      BY <1>1, <1>2, <2>2 DEF CheckSound
    <2>5. Post(l, Check)
      BY <2>1, <2>2
    <2> QED
      BY <1>1, <2>1, <2>2, <2>3, <2>4, <2>5, CheckPosts
  <1>4. CASE current = None /\ (starting # None \/ MayLaunch)
    <2>1. Start /\ check' = [check EXCEPT !.at = "starting", !.client = starting'] /\ UNCHANGED <<bridges, caller>>
      BY <1>4 DEF CheckLooks
    <2>2. starting' \in Launch /\ launched' \in [Launch -> States] /\ launched[starting'] \in {"unused", "starting"}
      BY <2>1, StartEffect
    <2>3. PICK l \in Launch : l = starting'
      BY <2>2
    <2>4. check' \in Checking /\ check' # None /\ check'.at = "starting" /\ check'.client = l
      <3>1. check' = CheckAt("starting", l)
        BY <2>1, <2>3 DEF CheckAt
      <3> QED
        BY <1>1, <3>1, CheckIsChanged
    <2>5. ClientsSound' /\ \A k \in Launch : launched'[k] = "up" <=> launched[k] = "up"
      BY <1>1, <1>4, <2>1, StartKeepsClients
    <2>6. CheckSound'
      <3>1. rpc' = rpc
        BY <2>1 DEF bridges
      <3>2. Check \in Party /\ launched[l] # "up"
        BY <2>2, <2>3 DEF Party
      <3>3. rpc[l][Check].at = "none"
        BY <1>2, <3>2 DEF CallsSound
      <3>4. \A k \in Launch : rpc[k][Check].at # "none" => k \in disposed
        BY <1>1, <1>2 DEF CheckSound
      <3> QED
        BY <1>1, <2>4, <3>1, <3>3, <3>4 DEF CheckSound
    <2>7. SupervisorType' /\ withdrawn' \subseteq Caller /\ faults' \in 0 .. MaxFaults
      BY <1>1, <2>2, <2>4 DEF RpcInv, TypeOK, SupervisorType, CallerType, States
    <2>8. caller' = caller /\ caller \in [Caller -> CallerState] /\ CallersSound
      BY <2>1, SupervisorTyped DEF RpcInv, Sound
    <2>9. \A c \in Caller :
            /\ caller'[c].at = "checking" => check' # None
            /\ caller'[c].at \in {"checked", "calling"} => caller'[c].client \in Launch /\ launched'[caller'[c].client] = "up"
            /\ caller'[c].at = "starting" => caller'[c].client \in Launch
            /\ caller[c].at = "calling" => caller'[c].at = "calling" /\ caller'[c].client = caller[c].client
      BY <2>4, <2>5, <2>8 DEF CallersSound, IsUp
    <2> QED
      BY <2>1, <2>5, <2>6, <2>7, <2>8, <2>9, SupervisorStepSound
  <1>5. CASE current = None /\ ~(starting # None \/ MayLaunch)
    <2>1. CheckFails /\ UNCHANGED <<starting, launched, bridges>>
      BY <1>5 DEF CheckLooks
    <2> QED
      BY <1>1, <2>1, CheckEndsEarly DEF RpcInv, TypeOK
  <1> QED
    BY <1>3, <1>4, <1>5

LEMMA CheckStartedSound ==
    ASSUME RpcAssumption, RpcInv, CheckStarted
    PROVE  RpcInv'
  <1>1. check # None /\ check.at = "starting"
        /\ UNCHANGED <<current, starting, launched, disposed, alive, withdrawn, faults>>
    BY DEF CheckStarted
  <1>2. PICK l \in Launch : l = check.client /\ rpc[l][Check].at = "none"
    BY <1>1 DEF RpcInv, Sound, CheckSound
  <1>3. CASE launched[l] = "up"
    <2>1. check' = [check EXCEPT !.at = "health"] /\ Post(l, Check) /\ UNCHANGED caller
      BY <1>2, <1>3 DEF CheckStarted
    <2>2. check' \in Checking /\ check' # None /\ check'.at = "health" /\ check'.client = l
      <3>1. check \in Checking /\ None \notin Checking
        BY <1>1, SupervisorTyped DEF RpcInv, RpcAssumption
      <3>2. PICK s \in Checking : s = check
        BY <3>1
      <3>3. PICK o \in Caller, n \in 1 .. 2, a \in {"start", "starting", "health"}, k \in Launch \cup {None} :
          s = [owner |-> o, attempt |-> n, at |-> a, client |-> k]
        BY DEF Checking
      <3>4. check' = [owner |-> o, attempt |-> n, at |-> "health", client |-> l]
        BY <1>2, <2>1, <3>2, <3>3
      <3> QED
        BY <3>1, <3>4 DEF Checking
    <2> QED
      BY <1>1, <1>2, <1>3, <2>1, <2>2, CheckPosts
  <1>4. CASE launched[l] # "up"
    <2>1. CheckFails /\ UNCHANGED bridges
      BY <1>2, <1>4 DEF CheckStarted
    <2> QED
      BY <1>1, <2>1, CheckEndsEarly DEF RpcInv, TypeOK
  <1> QED
    BY <1>3, <1>4

\* Bridges know no more calls than before, and who waited for the check went on.
LEMMA WaitingHear ==
    ASSUME RpcAssumption, RpcInv, BridgeShape', BridgesSound', ClientsSound', CheckSound', SupervisorType',
           \A k \in Launch, q \in Party : rpc'[k][q].at # "none" => rpc[k][q].at # "none",
           UNCHANGED <<launched, withdrawn>>, faults' \in 0 .. MaxFaults,
           caller' \in [Caller -> CallerState],
           \A c \in Caller : IF caller[c].at = "checking"
               THEN \/ caller'[c].at = "checked" /\ caller'[c].client \in Launch /\ launched[caller'[c].client] = "up"
                    \/ caller'[c].at = "ended"
                    \/ caller'[c] = caller[c] /\ check' # None
               ELSE caller'[c] = caller[c]
    PROVE  RpcInv'
  <1>1. CallersSound /\ CallsSound /\ withdrawn \subseteq Caller
    BY SupervisorTyped DEF RpcInv, Sound
  <1>2. CallsSound'
    BY <1>1 DEF CallsSound
  <1>3. ASSUME NEW c \in Caller
        PROVE  /\ caller'[c].at = "checking" => check' # None
               /\ caller'[c].at \in {"checked", "calling"} => caller'[c].client \in Launch /\ launched[caller'[c].client] = "up"
               /\ caller'[c].at = "starting" => caller'[c].client \in Launch
               /\ \A k \in Launch : rpc'[k][c].at # "none" => caller'[c].at = "calling" /\ caller'[c].client = k
    <2>1. c \in Party
      BY DEF Party
    <2>2. CASE caller[c].at = "checking"
      <3>1. \A k \in Launch : rpc'[k][c].at = "none"
        BY <1>1, <2>1, <2>2 DEF CallersSound
      <3> QED
        BY <2>2, <3>1
    <2>3. CASE caller[c].at # "checking"
      <3>1. caller'[c] = caller[c]
        BY <2>3
      <3> QED
        BY <1>1, <2>1, <2>3, <3>1 DEF CallersSound, IsUp
    <2> QED
      BY <2>2, <2>3
  <1>4. CallersSound'
    BY <1>3 DEF CallersSound, IsUp
  <1>5. \A c \in Caller : caller'[c].at = "checking" => check' # None
    BY <1>3
  <1> QED
    BY <1>1, <1>2, <1>4, <1>5, AllSound

\* A client that is up and given up is disposed; no other is lost.
LEMMA ClientGoes ==
    ASSUME RpcAssumption, RpcInv, NEW l \in Launch, launched[l] = "up",
           IF current = l THEN current' = None /\ disposed' = disposed \cup {l} ELSE UNCHANGED <<current, disposed>>,
           launched' = launched, starting' = starting \/ starting' = None
    PROVE  /\ ClientsSound' /\ disposed \subseteq disposed' /\ l \in disposed'
           /\ disposed' \subseteq Launch /\ current' \in Launch \cup {None}
  <1>1. ClientsSound /\ current \in Launch \cup {None} /\ disposed \subseteq Launch /\ None \notin Launch
    BY SupervisorTyped DEF RpcInv, Sound, RpcAssumption
  <1>2. CASE current = l
    <2>1. current' = None /\ disposed' = disposed \cup {l}
      BY <1>2
    <2> QED
      BY <1>1, <1>2, <2>1 DEF ClientsSound, NoClientIsLost
  <1>3. CASE current # l
    <2>1. current' = current /\ disposed' = disposed
      BY <1>3
    <2> QED
      BY <1>1, <1>3, <2>1 DEF ClientsSound, NoClientIsLost
  <1> QED
    BY <1>2, <1>3

\* The end of a call is read, and the helper kept or given up.
LEMMA EndIsRead ==
    ASSUME RpcAssumption, RpcInv, NEW l \in Launch, launched[l] = "up",
           NEW p \in Party, rpc[l][p].at = "over", NEW read, read = Turns(rpc, l, {p}, "none", None),
           \/ rpc' = read /\ UNCHANGED <<current, disposed, waiters, polling>>
           \/ Retire(read, l),
           UNCHANGED <<starting, launched, active>>
    PROVE  /\ BridgeShape' /\ BridgesSound' /\ ClientsSound' /\ disposed \subseteq disposed'
           /\ \A k \in Launch, q \in Party : rpc'[k][q].at # "none" => rpc[k][q].at # "none" /\ (k # l \/ q # p)
           /\ disposed' \subseteq Launch /\ current' \in Launch \cup {None}
  <1>1. BridgeShape /\ ClientsSound /\ current \in Launch \cup {None} /\ disposed \subseteq Launch
    BY BridgeTyped, SupervisorTyped DEF RpcInv, Sound
  <1>2. /\ read \in Calls0 /\ \A k \in Launch : BridgeSound(read[k], active[k], waiters[k])
        /\ read[l][p].at = "none"
        /\ \A k \in Launch, q \in Party : k # l \/ q # p => read[k][q] = rpc[k][q]
    <2>1. Turns(rpc, l, {p}, "none", None) \in Calls0
      BY ReadEffect
    <2>2. \A k \in Launch : BridgeSound(Turns(rpc, l, {p}, "none", None)[k], active[k], waiters[k])
      BY ReadEffect
    <2>3. \A k \in Launch : BridgeSound(read[k], active[k], waiters[k])
      BY <2>2
    <2>4. Turns(rpc, l, {p}, "none", None)[l][p].at = "none"
      BY ReadEffect
    <2>5. \A k \in Launch, q \in Party : k # l \/ q # p => Turns(rpc, l, {p}, "none", None)[k][q] = rpc[k][q]
      BY ReadEffect
    <2>6. ASSUME NEW k \in Launch, NEW q \in Party, k # l \/ q # p PROVE read[k][q] = rpc[k][q]
      <3>1. Turns(rpc, l, {p}, "none", None)[k][q] = rpc[k][q]
        BY <2>5, <2>6
      <3> QED
        BY <3>1
    <2> QED
      BY <2>1, <2>3, <2>4, <2>6
  <1>3. /\ BridgeShape' /\ BridgesSound' /\ ClientsSound' /\ disposed \subseteq disposed'
        /\ disposed' \subseteq Launch /\ current' \in Launch \cup {None}
        /\ \A k \in Launch, q \in Party : rpc'[k][q].at # "none" <=> read[k][q].at # "none"
    <2>1. CASE rpc' = read /\ UNCHANGED <<current, disposed, waiters, polling>>
      <3>1. BridgesSound' /\ BridgeShape'
        BY <1>1, <1>2, <2>1 DEF BridgesSound, BridgeShape
      <3>2. ClientsSound'
        BY <1>1, <2>1 DEF ClientsSound, NoClientIsLost
      <3> QED
        BY <1>1, <2>1, <3>1, <3>2
    <2>2. CASE Retire(read, l)
      <3>1. /\ BridgeShape' /\ BridgesSound'
            /\ \A k \in Launch, q \in Party : rpc'[k][q].at # "none" <=> read[k][q].at # "none"
            /\ IF current = l THEN current' = None /\ disposed' = disposed \cup {l} ELSE UNCHANGED <<current, disposed>>
        BY <1>1, <1>2, <2>2, RetireEffect
      <3>2. ClientsSound' /\ disposed \subseteq disposed' /\ disposed' \subseteq Launch /\ current' \in Launch \cup {None}
        BY <3>1, ClientGoes
      <3> QED
        BY <3>1, <3>2
    <2> QED
      BY <2>1, <2>2
  <1>4. \A k \in Launch, q \in Party : rpc'[k][q].at # "none" => rpc[k][q].at # "none" /\ (k # l \/ q # p)
    <2> TAKE k \in Launch, q \in Party
    <2>1. CASE k # l \/ q # p
      <3>1. read[k][q] = rpc[k][q]
        BY <1>2, <2>1
      <3>2. rpc'[k][q].at # "none" <=> read[k][q].at # "none"
        BY <1>3
      <3> QED
        BY <2>1, <3>1, <3>2
    <2>2. CASE k = l /\ q = p
      BY <1>2, <1>3, <2>2
    <2> QED
      BY <2>1, <2>2
  <1> QED
    BY <1>3, <1>4

\* The answer of the check is read.
LEMMA CheckIsRead ==
    ASSUME RpcAssumption, RpcInv, check # None, check.at = "health", NEW l \in Launch, l = check.client, launched[l] = "up",
           rpc[l][Check].at = "over", NEW read, read = Turns(rpc, l, {Check}, "none", None),
           \/ rpc' = read /\ UNCHANGED <<current, disposed, waiters, polling>>
           \/ Retire(read, l),
           UNCHANGED <<starting, launched, active>>, check' = None \/ check'.at = "start"
    PROVE  /\ BridgeShape' /\ BridgesSound' /\ ClientsSound' /\ CheckSound'
           /\ \A k \in Launch, q \in Party : rpc'[k][q].at # "none" => rpc[k][q].at # "none"
           /\ disposed' \subseteq Launch /\ current' \in Launch \cup {None}
  <1>1. PICK p \in Party : p = Check
    BY DEF Party
  <1>2. rpc[l][p].at = "over" /\ read = Turns(rpc, l, {p}, "none", None)
    BY <1>1
  <1>3. /\ BridgeShape' /\ BridgesSound' /\ ClientsSound' /\ disposed \subseteq disposed'
        /\ \A k \in Launch, q \in Party : rpc'[k][q].at # "none" => rpc[k][q].at # "none" /\ (k # l \/ q # p)
        /\ disposed' \subseteq Launch /\ current' \in Launch \cup {None}
    BY <1>2, EndIsRead
  <1>4. CheckSound
    BY DEF RpcInv, Sound
  <1>5. CheckSound'
    <2>1. \A k \in Launch : rpc'[k][Check].at # "none" => k \in disposed'
      BY <1>1, <1>3, <1>4 DEF CheckSound
    <2> QED
      BY <2>1 DEF CheckSound
  <1> QED
    BY <1>3, <1>5

LEMMA CheckHearsSound ==
    ASSUME RpcAssumption, RpcInv, CheckHears
    PROVE  RpcInv'
  <1>1. check # None /\ check.at = "health" /\ UNCHANGED <<starting, launched, alive, withdrawn, active>>
    BY DEF CheckHears
  <1>2. PICK l \in Launch : l = check.client /\ launched[l] = "up"
    BY <1>1 DEF RpcInv, Sound, CheckSound, IsUp
  <1>3. PICK read : read = Turns(rpc, l, {Check}, "none", None)
    OBVIOUS
  <1>4. rpc[l][Check].at = "over"
    BY <1>2 DEF CheckHears
  <1>5. caller \in [Caller -> CallerState] /\ check \in Checking /\ None \notin Checking /\ starting \in Launch \cup {None}
        /\ launched \in [Launch -> States] /\ alive \subseteq Launch
        /\ (\A c \in Caller : caller[c].at = "checking" => check # None)
    BY <1>1, SupervisorTyped DEF RpcInv, RpcAssumption
  <1>6. faults \in 0 .. MaxFaults /\ MaxFaults \in Nat
    BY BridgeTyped DEF RpcInv
  <1>7. PICK reached : reached = Moved(Waiting, "checked", l)
    OBVIOUS
  <1>8. /\ reached \in [Caller -> CallerState]
        /\ \A c \in Caller : IF caller[c].at = "checking" THEN reached[c].at = "checked" /\ reached[c].client = l
                             ELSE reached[c] = caller[c]
    <2>1. "checked" \in Places /\ l \in Launch \cup {None}
      BY DEF Places
    <2> QED
      BY <1>7, <2>1, WaitingGo
  <1>9. \/ /\ rpc' = read /\ UNCHANGED <<current, disposed, waiters, polling>> /\ faults' = faults
           /\ check' = None /\ caller' = reached
        \/ /\ Retire(read, l) /\ faults < MaxFaults /\ faults' = faults + 1 /\ check' = None
           /\ caller[check.owner].at = "checking" /\ caller' = Goes(reached, check.owner, "ended", None)
        \/ /\ Retire(read, l) /\ faults' = faults
           /\ \/ check' = [check EXCEPT !.attempt = 2, !.at = "start", !.client = None] /\ UNCHANGED caller
              \/ CheckFails
    BY <1>2, <1>3, <1>7 DEF CheckHears
  <1>10. faults' \in 0 .. MaxFaults
    BY <1>6, <1>9
  <1> DEFINE Again == [check EXCEPT !.attempt = 2, !.at = "start", !.client = None]
  <1>11. Again \in Checking /\ Again.at = "start"
    <2>1. PICK s \in Checking : s = check
      BY <1>5
    <2>2. PICK o \in Caller, n \in 1 .. 2, a \in {"start", "starting", "health"}, k \in Launch \cup {None} :
          s = [owner |-> o, attempt |-> n, at |-> a, client |-> k]
      BY DEF Checking
    <2>3. PICK d : d = [s EXCEPT !.attempt = 2]
      OBVIOUS
    <2>4. d = [owner |-> o, attempt |-> 2, at |-> a, client |-> k]
      BY <2>2, <2>3
    <2>5. PICK e : e = [d EXCEPT !.at = "start"]
      OBVIOUS
    <2>6. e = [owner |-> o, attempt |-> 2, at |-> "start", client |-> k]
      BY <2>4, <2>5
    <2>7. PICK f : f = [e EXCEPT !.client = None]
      OBVIOUS
    <2>8. f = [owner |-> o, attempt |-> 2, at |-> "start", client |-> None]
      BY <2>6, <2>7
    <2>9. Again = f
      BY <2>1, <2>3, <2>5, <2>7
    <2>10. f \in Checking /\ f.at = "start"
      BY <2>8 DEF Checking
    <2> HIDE DEF Again
    <2> QED
      BY <2>9, <2>10
  <1>12. CheckFails => check' = None
    BY DEF CheckFails
  <1>13. \/ rpc' = read /\ UNCHANGED <<current, disposed, waiters, polling>> /\ check' = None /\ caller' = reached
         \/ /\ Retire(read, l) /\ check' = None
            /\ caller[check.owner].at = "checking" /\ caller' = Goes(reached, check.owner, "ended", None)
         \/ Retire(read, l) /\ check' = Again /\ UNCHANGED caller
         \/ Retire(read, l) /\ CheckFails
    BY <1>9
  <1> HIDE DEF Again
  <1>14. check' = None \/ (check' \in Checking /\ check'.at = "start")
    BY <1>11, <1>12, <1>13
  <1>15. /\ BridgeShape' /\ BridgesSound' /\ ClientsSound' /\ CheckSound'
         /\ \A k \in Launch, q \in Party : rpc'[k][q].at # "none" => rpc[k][q].at # "none"
         /\ disposed' \subseteq Launch /\ current' \in Launch \cup {None}
    <2>1. \/ rpc' = read /\ UNCHANGED <<current, disposed, waiters, polling>>
          \/ Retire(read, l)
      BY <1>13
    <2>2. check' = None \/ check'.at = "start"
      BY <1>14
    <2> QED
      BY <1>1, <1>2, <1>3, <1>4, <2>1, <2>2, CheckIsRead
  <1>16. SupervisorType'
    BY <1>1, <1>5, <1>14, <1>15 DEF SupervisorType, States
  <1>17. /\ caller' \in [Caller -> CallerState]
         /\ \A c \in Caller : IF caller[c].at = "checking"
               THEN \/ caller'[c].at = "checked" /\ caller'[c].client \in Launch /\ launched[caller'[c].client] = "up"
                    \/ caller'[c].at = "ended"
                    \/ caller'[c] = caller[c] /\ check' # None
               ELSE caller'[c] = caller[c]
    <2>1. CASE caller' = reached
      BY <1>2, <1>8, <2>1
    <2>2. CASE caller[check.owner].at = "checking" /\ caller' = Goes(reached, check.owner, "ended", None)
      <3>1. PICK o \in Caller : o = check.owner
        BY <1>5 DEF Checking
      <3>2. "ended" \in Places /\ None \in Launch \cup {None}
        BY DEF Places
      <3>3. /\ Goes(reached, o, "ended", None) \in [Caller -> CallerState]
            /\ Goes(reached, o, "ended", None)[o].at = "ended"
            /\ \A d \in Caller : d # o => Goes(reached, o, "ended", None)[d] = reached[d]
        BY <1>8, <3>2, GoesEffect
      <3>4. caller' = Goes(reached, o, "ended", None) /\ caller[o].at = "checking"
        BY <2>2, <3>1
      <3>5. caller' \in [Caller -> CallerState] /\ caller'[o].at = "ended" /\ \A d \in Caller : d # o => caller'[d] = reached[d]
        BY <3>3, <3>4
      <3> QED
        BY <1>2, <1>8, <3>4, <3>5
    <2>3. CASE CheckFails
      <3>1. /\ caller' \in [Caller -> CallerState]
            /\ \A c \in Caller : IF caller[c].at = "checking" THEN caller'[c].at = "ended" ELSE caller'[c] = caller[c]
        BY <2>3, CheckFailsEffect
      <3> QED
        BY <3>1
    <2>4. CASE check' = Again /\ UNCHANGED caller
      BY <1>5, <1>11, <2>4
    <2> QED
      BY <1>13, <2>1, <2>2, <2>3, <2>4
  <1> QED
    BY <1>1, <1>10, <1>15, <1>16, <1>17, WaitingHear

LEMMA DeadlineOfOwnCheck ==
    ASSUME RpcAssumption, RpcInv, check # None, check.at = "health", CheckFails, Retire(rpc, check.client),
           faults' \in 0 .. MaxFaults, UNCHANGED <<starting, launched, alive, withdrawn, active>>
    PROVE  RpcInv'
  <1>1. PICK l \in Launch : l = check.client /\ launched[l] = "up"
    BY DEF RpcInv, Sound, CheckSound, IsUp
  <1>2. PICK calls : calls = rpc
    OBVIOUS
  <1>3. BridgeShape /\ BridgesSound /\ CheckSound /\ calls \in Calls0
    BY <1>2, BridgeTyped DEF RpcInv, Sound
  <1>4. \A k \in Launch : BridgeSound(calls[k], active[k], waiters[k])
    BY <1>2, <1>3 DEF BridgesSound
  <1>5. /\ BridgeShape' /\ BridgesSound'
        /\ \A k \in Launch, q \in Party : rpc'[k][q].at # "none" <=> calls[k][q].at # "none"
        /\ IF current = l THEN current' = None /\ disposed' = disposed \cup {l} ELSE UNCHANGED <<current, disposed>>
    <2>1. Retire(calls, l)
      BY <1>1, <1>2
    <2> QED
      BY <1>3, <1>4, <2>1, RetireEffect
  <1>6. ClientsSound' /\ disposed \subseteq disposed' /\ l \in disposed' /\ disposed' \subseteq Launch
        /\ current' \in Launch \cup {None}
    BY <1>1, <1>5, ClientGoes
  <1>7. /\ check' = None /\ caller' \in [Caller -> CallerState]
        /\ \A c \in Caller : IF caller[c].at = "checking" THEN caller'[c].at = "ended" ELSE caller'[c] = caller[c]
    BY CheckFailsEffect
  <1>8. \A k \in Launch, q \in Party : rpc'[k][q].at # "none" => rpc[k][q].at # "none"
    BY <1>2, <1>5
  <1>9. CheckSound'
    <2>1. Check \in Party
      BY DEF Party
    <2>2. \A k \in Launch : rpc'[k][Check].at # "none" => k \in disposed'
      BY <1>1, <1>3, <1>6, <1>8, <2>1 DEF CheckSound
    <2> QED
      BY <1>7, <2>2 DEF CheckSound
  <1>10. SupervisorType'
    BY <1>6, <1>7, SupervisorTyped DEF RpcInv, SupervisorType, States
  <1> QED
    BY <1>5, <1>6, <1>7, <1>8, <1>9, <1>10, WaitingHear

LEMMA DeadlineOfCheckSound ==
    ASSUME RpcAssumption, RpcInv, NEW c \in Caller, DeadlineOfCheck(c)
    PROVE  RpcInv'
  <1>1. caller[c].at = "checking" /\ faults < MaxFaults /\ faults' = faults + 1 /\ UNCHANGED <<alive, withdrawn, active>>
    BY DEF DeadlineOfCheck
  <1>2. check # None /\ check \in Checking /\ faults' \in 0 .. MaxFaults
    BY <1>1, BridgeTyped, SupervisorTyped DEF RpcInv
  <1>3. CASE check.owner # c
    <2>1. caller' = Moved({c}, "ended", None) /\ UNCHANGED <<supervisor, rpc, waiters, polling>>
      BY <1>3 DEF DeadlineOfCheck, Ended
    <2>2. UNCHANGED <<current, starting, launched, disposed, check>> /\ UNCHANGED bridges
      BY <1>1, <2>1 DEF supervisor, bridges
    <2>3. /\ caller' \in [Caller -> CallerState] /\ caller'[c].at = "ended"
          /\ \A d \in Caller : d # c => caller'[d] = caller[d]
      <3>1. "ended" \in Places /\ None \in Launch \cup {None}
        BY DEF Places
      <3>2. PICK who : who = {c}
        OBVIOUS
      <3>3. /\ Moved(who, "ended", None) \in [Caller -> CallerState]
            /\ Moved(who, "ended", None)[c].at = "ended"
            /\ \A d \in Caller : d # c => Moved(who, "ended", None)[d] = caller[d]
        BY <3>1, <3>2, MovedEffect
      <3> QED
        BY <2>1, <3>2, <3>3
    <2>4. ClientsSound' /\ SupervisorType' /\ withdrawn' \subseteq Caller
      BY <1>1, <2>2 DEF RpcInv, Sound, TypeOK, ClientsSound, NoClientIsLost, SupervisorType, CallerType
    <2>5. CheckSound'
      BY <2>2, SameBridges, CheckGoesOn
    <2> QED
      BY <1>1, <1>2, <2>2, <2>3, <2>4, <2>5, CallerStepSound
  <1>4. CASE check.owner = c /\ check.at = "health"
    <2>1. CheckFails /\ Retire(rpc, check.client) /\ UNCHANGED <<starting, launched>>
      BY <1>4 DEF DeadlineOfCheck
    <2> QED
      BY <1>1, <1>2, <1>4, <2>1, DeadlineOfOwnCheck
  <1>5. CASE check.owner = c /\ check.at # "health"
    <2>1. /\ CheckFails /\ UNCHANGED <<current, disposed, rpc, waiters, polling, launched>>
          /\ starting' = starting \/ starting' = None
      BY <1>5 DEF DeadlineOfCheck, NoLongerAwaited
    <2>2. UNCHANGED bridges
      BY <1>1, <2>1 DEF bridges
    <2> QED
      BY <1>1, <1>2, <1>5, <2>1, <2>2, CheckEndsEarly
  <1> QED
    BY <1>3, <1>4, <1>5

\* What a caller makes of a reply: it asks for another check, takes another
\* launch, calls again or ends.
LEMMA AgainEffect ==
    ASSUME RpcAssumption, RpcInv, NEW c \in Caller, caller[c].try \in 1 .. 2
    PROVE  /\ [caller EXCEPT ![c].try = @ + 1, ![c].at = "checked"] \in [Caller -> CallerState]
           /\ [caller EXCEPT ![c].try = @ + 1, ![c].at = "checked"][c].at = "checked"
           /\ [caller EXCEPT ![c].try = @ + 1, ![c].at = "checked"][c].client = caller[c].client
           /\ \A d \in Caller : d # c => [caller EXCEPT ![c].try = @ + 1, ![c].at = "checked"][d] = caller[d]
  <1>1. caller \in [Caller -> CallerState]
    BY SupervisorTyped DEF RpcInv
  <1>2. PICK o, k, a, t : caller[c] = [op |-> o, client |-> k, at |-> a, try |-> t]
    BY <1>1 DEF CallerState
  <1>3. PICK f : f = [caller EXCEPT ![c].try = @ + 1]
    OBVIOUS
  <1>4. f[c] = [op |-> o, client |-> k, at |-> a, try |-> t + 1]
    BY <1>1, <1>2, <1>3
  <1>5. PICK g : g = [f EXCEPT ![c].at = "checked"]
    OBVIOUS
  <1>6. g[c] = [op |-> o, client |-> k, at |-> "checked", try |-> t + 1]
    BY <1>1, <1>3, <1>4, <1>5
  <1>7. o \in Operation \cup {None} /\ k \in Launch \cup {None} /\ t + 1 \in 1 .. 3
    <2>1. PICK s \in CallerState : s = [op |-> o, client |-> k, at |-> a, try |-> t]
      BY <1>1, <1>2
    <2>2. o \in Operation \cup {None} /\ k \in Launch \cup {None}
      BY <2>1 DEF CallerState
    <2>3. t = caller[c].try
      BY <1>2
    <2>4. t + 1 \in 1 .. 3
      BY <2>3
    <2> QED
      BY <2>2, <2>4
  <1>8. g[c] \in CallerState
    BY <1>6, <1>7 DEF CallerState, Places
  <1>9. \A d \in Caller : d # c => g[d] = caller[d]
    BY <1>1, <1>3, <1>5
  <1>10. g \in [Caller -> CallerState]
    <2>1. g = [d \in Caller |-> g[d]]
      BY <1>1, <1>3, <1>5
    <2> QED
      BY <1>1, <1>8, <1>9, <2>1
  <1>11. g[c].at = "checked" /\ g[c].client = caller[c].client
    BY <1>2, <1>6
  <1>12. [caller EXCEPT ![c].try = @ + 1, ![c].at = "checked"] = g
    BY <1>3, <1>5
  <1> QED
    BY <1>9, <1>10, <1>11, <1>12

LEMMA ReceivesSound ==
    ASSUME RpcAssumption, RpcInv, NEW c \in Caller, Receives(c)
    PROVE  RpcInv'
  <1>1. caller[c].at = "calling" /\ UNCHANGED <<starting, launched, alive, withdrawn, active, faults>>
    BY DEF Receives
  <1>2. PICK l \in Launch : l = caller[c].client /\ launched[l] = "up"
    BY <1>1 DEF RpcInv, Sound, CallersSound, IsUp
  <1>3. PICK read : read = Turns(rpc, l, {c}, "none", None)
    OBVIOUS
  <1>4. PICK again : again = [caller EXCEPT ![c].try = @ + 1, ![c].at = "checked"]
    OBVIOUS
  <1>5. PICK reply : reply = rpc[l][c].reply
    OBVIOUS
  <1>6. PICK next : next = Follows(c, reply)
    OBVIOUS
  <1>7. rpc[l][c].at = "over"
    BY <1>2 DEF Receives
  <1>8. \/ rpc' = read /\ UNCHANGED <<current, disposed, waiters, polling>>
        \/ Retire(read, l)
    BY <1>2, <1>3 DEF Receives
  <1>9. /\ next = "check" => Asks(c, again)
        /\ next = "take" => caller' = Goes(again, c, "taking", None) /\ UNCHANGED check
        /\ next = "call" => caller' = again /\ UNCHANGED check
        /\ next = "end" => caller' = Ended({c}) /\ UNCHANGED check
    BY <1>2, <1>4, <1>5, <1>6 DEF Receives
  <1>10. next \in {"check", "take", "call"} => caller[c].try \in 1 .. 2
    BY <1>6 DEF Follows
  <1>11. next \in {"check", "take", "call", "end"}
    BY <1>6 DEF Follows
  <1>12. c \in Party /\ Check \in Party /\ c # Check /\ \A d \in Caller : d \in Party
    BY DEF Party, RpcAssumption
  <1>13. /\ BridgeShape' /\ BridgesSound' /\ ClientsSound' /\ disposed \subseteq disposed'
         /\ \A k \in Launch, q \in Party : rpc'[k][q].at # "none" => rpc[k][q].at # "none" /\ (k # l \/ q # c)
         /\ disposed' \subseteq Launch /\ current' \in Launch \cup {None}
    BY <1>1, <1>2, <1>3, <1>7, <1>8, <1>12, EndIsRead
  <1>14. /\ caller \in [Caller -> CallerState] /\ check \in Checking \cup {None}
         /\ starting \in Launch \cup {None} /\ launched \in [Launch -> States] /\ alive \subseteq Launch
         /\ withdrawn \subseteq Caller /\ \A d \in Caller : caller[d].at = "checking" => check # None
    BY SupervisorTyped DEF RpcInv
  <1>15. next # "end" => /\ again \in [Caller -> CallerState] /\ again[c].at = "checked" /\ again[c].client = l
                         /\ \A d \in Caller : d # c => again[d] = caller[d]
    <2> HAVE next # "end"
    <2>1. caller[c].try \in 1 .. 2
      BY <1>10, <1>11
    <2> QED
      BY <1>2, <1>4, <2>1, AgainEffect
  <1>16. /\ caller' \in [Caller -> CallerState]
         /\ \A d \in Caller : d # c => caller'[d] = caller[d]
         /\ caller'[c].at \in {"checking", "taking", "checked", "ended"}
         /\ caller'[c].at = "checked" => caller'[c].client = l
         /\ caller'[c].at = "checking" => check' # None
         /\ check # None => check' # None
         /\ check' \in Checking \cup {None}
         /\ check' = check \/ (check = None /\ check'.at = "start")
    <2>0. {"taking", "ended"} \subseteq Places /\ None \in Launch \cup {None}
      BY DEF Places
    <2>1. CASE next = "check"
      <3>1. Asks(c, again) /\ again \in [Caller -> CallerState] /\ \A d \in Caller : d # c => again[d] = caller[d]
        BY <1>9, <1>15, <2>1
      <3>2. /\ caller' \in [Caller -> CallerState] /\ caller'[c].at = "checking"
            /\ \A d \in Caller : d # c => caller'[d] = again[d]
            /\ check' \in Checking /\ check' # None
            /\ check' = check \/ (check = None /\ check'.at = "start")
        BY <3>1, AsksEffect
      <3> QED
        BY <3>1, <3>2
    <2>2. CASE next = "take"
      <3>1. caller' = Goes(again, c, "taking", None) /\ UNCHANGED check
            /\ again \in [Caller -> CallerState] /\ \A d \in Caller : d # c => again[d] = caller[d]
        BY <1>9, <1>15, <2>2
      <3>2. /\ caller' \in [Caller -> CallerState] /\ caller'[c].at = "taking"
            /\ \A d \in Caller : d # c => caller'[d] = again[d]
        BY <2>0, <3>1, GoesEffect
      <3> QED
        BY <1>14, <3>1, <3>2
    <2>3. CASE next = "call"
      BY <1>9, <1>14, <1>15, <2>3
    <2>4. CASE next = "end"
      <3>1. caller' = Moved({c}, "ended", None) /\ UNCHANGED check
        BY <1>9, <2>4 DEF Ended
      <3>2. PICK who : who = {c}
        OBVIOUS
      <3>3. /\ Moved(who, "ended", None) \in [Caller -> CallerState]
            /\ Moved(who, "ended", None)[c].at = "ended"
            /\ \A d \in Caller : d # c => Moved(who, "ended", None)[d] = caller[d]
        <4>1. c \in who /\ \A d \in Caller : d # c => d \notin who
          BY <3>2
        <4>2. "ended" \in Places
          BY DEF Places
        <4> QED
          BY <4>1, <4>2, MovedEffect
      <3>4. caller' = Moved(who, "ended", None)
        BY <3>1, <3>2
      <3> QED
        BY <1>14, <3>1, <3>3, <3>4
    <2> QED
      BY <1>11, <2>1, <2>2, <2>3, <2>4
  <1>17. CheckSound'
    <2>1. \A k \in Launch : rpc'[k][Check].at # "none" => rpc[k][Check].at # "none"
      BY <1>12, <1>13
    <2> QED
      BY <1>1, <1>13, <1>16, <2>1, CheckGoesOn
  <1>18. CallersSound'
    <2>1. CallersSound
      BY DEF RpcInv, Sound
    <2>2. ASSUME NEW d \in Caller
          PROVE  /\ caller'[d].at \in {"checked", "calling"} => caller'[d].client \in Launch /\ launched[caller'[d].client] = "up"
                 /\ caller'[d].at = "starting" => caller'[d].client \in Launch
                 /\ \A k \in Launch : rpc'[k][d].at # "none" => caller'[d].at = "calling" /\ caller'[d].client = k
      <3>1. CASE d = c
        <4>1. \A k \in Launch : rpc'[k][c].at # "none" => rpc[k][c].at # "none" /\ k # l
          BY <1>12, <1>13
        <4>2. \A k \in Launch : rpc'[k][c].at = "none"
          BY <1>2, <2>1, <4>1 DEF CallersSound
        <4> QED
          BY <1>2, <1>16, <3>1, <4>2
      <3>2. CASE d # c
        <4>1. caller'[d] = caller[d]
          BY <1>16, <3>2
        <4>2. \A k \in Launch : rpc'[k][d].at # "none" => rpc[k][d].at # "none"
          BY <1>12, <1>13
        <4> QED
          BY <2>1, <4>1, <4>2 DEF CallersSound, IsUp
      <3> QED
        BY <3>1, <3>2
    <2> QED
      BY <1>1, <2>2 DEF CallersSound, IsUp
  <1>19. CallsSound'
    <2>1. CallsSound
      BY DEF RpcInv, Sound
    <2> QED
      BY <1>1, <1>13, <2>1 DEF CallsSound
  <1>20. SupervisorType'
    BY <1>1, <1>13, <1>14, <1>16 DEF SupervisorType, States
  <1>21. \A d \in Caller : caller'[d].at = "checking" => check' # None
    <2> TAKE d \in Caller
    <2>1. CASE d = c
      BY <1>16, <2>1
    <2>2. CASE d # c
      BY <1>14, <1>16, <2>2
    <2> QED
      BY <2>1, <2>2
  <1>22. withdrawn' \subseteq Caller /\ faults' \in 0 .. MaxFaults
    BY <1>1, <1>14, BridgeTyped DEF RpcInv
  <1> QED
    BY <1>13, <1>16, <1>17, <1>18, <1>19, <1>20, <1>21, <1>22, AllSound
-----------------------------------------------------------------------------
LEMMA InitSound == RpcAssumption /\ Init => RpcInv
  <1> SUFFICES ASSUME RpcAssumption, Init PROVE RpcInv
    OBVIOUS
  <1>1. \A l \in Launch : rpc[l] = [p \in Party |-> NoCall] /\ active[l] = 0 /\ waiters[l] = <<>> /\ launched[l] = "unused"
    BY DEF Init
  <1>2. \A l \in Launch, p \in Party : rpc[l][p].at = "none"
    BY <1>1 DEF NoCall
  <1>3. BridgesSound
    <2> SUFFICES ASSUME NEW l \in Launch PROVE BridgeSound(rpc[l], active[l], waiters[l])
      BY DEF BridgesSound
    <2>1. Holders(rpc[l]) = {}
      BY <1>2 DEF Holders, Holding
    <2>2. Cardinality(Holders(rpc[l])) = 0
      BY <2>1, FS_EmptySet
    <2>3. QueueSound(rpc[l], <<>>)
      <3>1. <<>> \in Seq(Party) /\ DOMAIN <<>> = {}
        BY EmptySeq
      <3> QED
        BY <3>1 DEF QueueSound
    <2>4. 0 <= Slots
      BY DEF RpcAssumption
    <2> QED
      BY <1>1, <2>2, <2>3, <2>4 DEF BridgeSound
  <1>4. ClientsSound
    BY <1>1 DEF Init, ClientsSound, NoClientIsLost
  <1>5. \A c \in Caller : caller[c] = Idle /\ c \in Party
    BY DEF Init, Party
  <1>6. CallersSound
    BY <1>2, <1>5 DEF CallersSound, Idle
  <1>7. Check \in Party
    BY DEF Party
  <1>8. CheckSound
    BY <1>2, <1>7 DEF Init, CheckSound
  <1>9. CallsSound
    BY <1>2 DEF CallsSound
  <1>10. SupervisorType
    <2>1. launched \in [Launch -> {"unused", "starting", "up", "refused", "failed"}]
      BY DEF Init
    <2>2. {} \subseteq Launch
      OBVIOUS
    <2> QED
      BY <2>1, <2>2 DEF Init, SupervisorType
  <1>11. CallerType
    <2>1. Idle \in [op : Operation \cup {None}, client : Launch \cup {None},
                    at : {"idle", "checking", "checked", "starting", "taking", "calling", "ended"}, try : 1 .. 3]
      BY DEF Idle
    <2>2. caller = [c \in Caller |-> Idle] /\ withdrawn = {}
      BY DEF Init
    <2>3. \A c \in Caller : caller[c].at # "checking"
      BY <1>5 DEF Idle
    <2> QED
      BY <2>1, <2>2, <2>3 DEF CallerType
  <1>12. BridgeType
    <2>1. NoCall \in [at : Stage, reply : Reply \cup {None}]
      BY DEF NoCall, Stage
    <2>2. rpc \in [Launch -> [Party -> [at : Stage, reply : Reply \cup {None}]]]
      BY <2>1 DEF Init
    <2>3. 0 \in 0 .. Cardinality(Party) /\ <<>> \in Seq(Party)
      BY HoldersFinite, EmptySeq
    <2> QED
      BY <2>2, <2>3 DEF Init, BridgeType
  <1>13. faults \in 0 .. MaxFaults
    BY DEF Init, RpcAssumption
  <1> QED
    BY <1>3, <1>4, <1>6, <1>8, <1>9, <1>10, <1>11, <1>12, <1>13 DEF RpcInv, TypeOK, Sound

LEMMA StepSound == RpcAssumption /\ RpcInv /\ [Next]_vars => RpcInv'
  <1> SUFFICES ASSUME RpcAssumption, RpcInv, [Next]_vars PROVE RpcInv'
    OBVIOUS
  <1>1. ASSUME NEW c \in Caller, CallerStep(c) PROVE RpcInv'
    <2>1. ASSUME NEW op \in Operation, Begin(c, op) PROVE RpcInv'
      BY <2>1, BeginSound
    <2>2. ASSUME NEW op \in Operation, BeginOnChannel(c, op) PROVE RpcInv'
      BY <2>2, BeginOnChannelSound
    <2>3. ASSUME NEW r \in Caller, BeginCancel(c, r) PROVE RpcInv'
      BY <2>3, BeginCancelSound
    <2>4. CASE Started(c)
      BY <2>4, StartedSound
    <2>5. CASE Calls(c)
      BY <2>5, CallIsPosted, CallIsNotWanted
    <2>6. CASE Receives(c)
      BY <2>6, ReceivesSound
    <2>7. CASE TakesAgain(c)
      BY <2>7, TakesAgainSound
    <2>8. CASE DeadlineOfCheck(c)
      BY <2>8, DeadlineOfCheckSound
    <2>9. CASE DeadlineOfStart(c)
      BY <2>9, DeadlineOfStartSound
    <2> QED
      BY <1>1, <2>1, <2>2, <2>3, <2>4, <2>5, <2>6, <2>7, <2>8, <2>9 DEF CallerStep
  <1>2. ASSUME CheckStep PROVE RpcInv'
    BY <1>2, CheckLooksSound, CheckStartedSound, CheckHearsSound DEF CheckStep
  <1>3. ASSUME NEW l \in Launch, NEW p \in Party, BridgeStep(l, p) PROVE RpcInv'
    BY <1>3, ExecuteSound, EndOfCallSound, WaiterExpiresSound, ReleaseSound DEF BridgeStep
  <1>4. ASSUME NEW l \in Launch, PollStops(l) \/ LaunchSucceeds(l) \/ LaunchFails(l) \/ Die(l) PROVE RpcInv'
    BY <1>4, PollStopsSound, LaunchSound, DieSound
  <1>5. CASE UNCHANGED vars
    <2>1. UNCHANGED <<supervisor, bridges, alive, caller, withdrawn, faults>>
      BY <1>5 DEF vars
    <2>2. UNCHANGED <<current, starting, launched, disposed, check, rpc, active, waiters, polling>>
      BY <2>1 DEF supervisor, bridges
    <2>3. TypeOK'
      BY <2>1, <2>2 DEF RpcInv, TypeOK, SupervisorType, CallerType, BridgeType
    <2>4. BridgesSound' /\ ClientsSound' /\ CallersSound' /\ CheckSound' /\ CallsSound'
      BY <2>1, <2>2 DEF RpcInv, Sound, BridgesSound, ClientsSound, NoClientIsLost, CallersSound, CheckSound,
                        CallsSound, IsUp
    <2> QED
      BY <2>3, <2>4 DEF RpcInv, Sound
  <1> QED
    BY <1>1, <1>2, <1>3, <1>4, <1>5 DEF Next

\* The invariant the others follow from.
THEOREM RpcInvariant == Spec => []RpcInv
  <1>1. RpcAssumption
    BY RpcAssumption
  <1>2. Init => RpcInv
    BY <1>1, InitSound
  <1>3. RpcInv /\ [Next]_vars => RpcInv'
    BY <1>1, StepSound
  <1> QED
    BY <1>2, <1>3, PTL DEF Spec

\* The state of supervisor, callers and bridges has the types it is declared with.
THEOREM TypeCorrect == Spec => []TypeOK
  <1>1. RpcInv => TypeOK
    BY DEF RpcInv
  <1> QED
    BY <1>1, RpcInvariant, PTL

\* Every slot a bridge counts is held by a call, whatever expired, was handed
\* over or was closed at the same time, and nobody waits while one is free.
THEOREM SlotsStayAccounted == Spec => []SlotsAccounted
  <1>1. RpcInv => SlotsAccounted
    <2> SUFFICES ASSUME RpcInv, NEW l \in Launch
                 PROVE  active[l] = Cardinality(Held(l)) /\ active[l] <= Slots /\ (waiters[l] # <<>> => active[l] = Slots)
      BY DEF SlotsAccounted
    <2>1. BridgeSound(rpc[l], active[l], waiters[l])
      BY DEF RpcInv, Sound, BridgesSound
    <2>2. Held(l) = Holders(rpc[l])
      BY DEF Held, At, Holders, Holding
    <2> QED
      BY <2>1, <2>2 DEF BridgeSound
  <1> QED
    BY <1>1, RpcInvariant, PTL

\* A helper that came up is the supervisor's client or its bridge was closed:
\* no client is lost with its calls and its poller.
THEOREM ClientsAreKept == Spec => []NoClientIsLost
  <1>1. RpcInv => NoClientIsLost
    BY DEF RpcInv, Sound, ClientsSound
  <1> QED
    BY <1>1, RpcInvariant, PTL
-----------------------------------------------------------------------------
(***************************************************************************)
(* The requests inside the helper.  A result is given only to a request    *)
(* whose generation is valid; the cancellation takes the generation away,  *)
(* and nothing but the claim of a request, which comes once, gives it one. *)
(***************************************************************************)
Cancelled(j) == cancel[j] \in {"hit", "stopped"}

\* The parts of the types that the argument needs.
Tables ==
    /\ request \in [Job -> {"none"} \cup Handled \cup Outcome]
    /\ cancel \in [Job -> {"none", "hit", "missed", "stopped", "over"}]

\* A valid generation is that of a request being handled.
GenerationIsHandled == \A j \in Job : j \in preparing => request[j] \in Handled

\* Cancelled while it was handled: its generation is gone for good.
CancelledIsOver ==
    \A j \in Job : Cancelled(j) =>
        j \notin preparing /\ request[j] \notin {"none", "result"}

CancelInv == Tables /\ GenerationIsHandled /\ CancelledIsOver

\* At the start nothing is handled and nothing cancelled.
LEMMA InitCancel == JobsInit => CancelInv
  BY DEF JobsInit, CancelInv, Tables, GenerationIsHandled, CancelledIsOver, Cancelled, Handled, Outcome

\* A handler that goes on, without an answer.
LEMMA GoesOn ==
    ASSUME CancelInv, NEW j \in Job, request[j] \in Handled,
           NEW next \in Handled, request' = [request EXCEPT ![j] = next],
           preparing' = preparing, cancel' = cancel
    PROVE  CancelInv'
  BY DEF CancelInv, Tables, GenerationIsHandled, CancelledIsOver, Cancelled, Handled, Outcome

\* A handler that answers: with a result only while its generation is valid.
LEMMA AnswersKeep ==
    ASSUME CancelInv, NEW j \in Job, NEW answer \in Outcome, Answers(j, answer),
           request[j] \in Handled, cancel' = cancel,
           answer = "result" => j \in preparing
    PROVE  CancelInv'
  <1>1. request' = [request EXCEPT ![j] = answer] /\ preparing' = preparing \ {j}
    BY DEF Answers
  <1>2. Tables'
    BY <1>1 DEF CancelInv, Tables
  <1>3. GenerationIsHandled'
    BY <1>1 DEF CancelInv, Tables, GenerationIsHandled
  <1>4. CancelledIsOver'
    BY <1>1 DEF CancelInv, Tables, CancelledIsOver, Cancelled, Outcome
  <1> QED BY <1>2, <1>3, <1>4 DEF CancelInv

\* Every step of a handler is one that goes on or one that answers.
LEMMA HandlerKeeps ==
    ASSUME CancelInv, NEW j \in Job, Handler(j)
    PROVE  CancelInv'
  <1>1. CASE Authorize(j)
    <2>1. CASE Authorized(j)
      BY <1>1, <2>1, GoesOn DEF Authorize, Handled
    <2>2. CASE ~Authorized(j)
      BY <1>1, <2>2, AnswersKeep DEF Authorize, Handled, Outcome
    <2> QED BY <2>1, <2>2
  <1>2. CASE Register(j)
    BY <1>2, GoesOn DEF Register, Handled
  <1>3. CASE Install(j)
    BY <1>3, GoesOn DEF Install, Handled
  <1>4. CASE Finish(j)
    <2>1. CASE entry[j] = "active" /\ transfer[j] = "answered"
      BY <1>4, <2>1, GoesOn DEF Finish, Handled
    <2>2. CASE ~(entry[j] = "active" /\ transfer[j] = "answered")
      BY <1>4, <2>2, AnswersKeep DEF Finish, Handled, Outcome
    <2> QED BY <2>1, <2>2
  <1>5. CASE Respond(j)
    <2>1. CASE Authorized(j) /\ Answers(j, "result")
      BY <1>5, <2>1, AnswersKeep DEF Respond, Authorized, Handled, Outcome
    <2>2. CASE Answers(j, "refused")
      BY <1>5, <2>2, AnswersKeep DEF Respond, Handled, Outcome
    <2> QED BY <1>5, <2>1, <2>2 DEF Respond, Reflects
  <1> QED BY <1>1, <1>2, <1>3, <1>4, <1>5 DEF Handler

\* A step that touches neither requests, generations nor cancellations.
LEMMA Elsewhere ==
    ASSUME CancelInv, UNCHANGED <<request, preparing, cancel>>
    PROVE  CancelInv'
  BY DEF CancelInv, Tables, GenerationIsHandled, CancelledIsOver, Cancelled

\* The transfer, with its limiter, decides nothing of this.
LEMMA TransferKeeps ==
    ASSUME CancelInv, NEW j \in Job, Transfer(j)
    PROVE  CancelInv'
  BY Elsewhere DEF Transfer, Acquire, CheckCancelled, AuthorizeTransfer, Transferred, handlers

\* A cancellation that hits takes the generation away; its end changes its name.
LEMMA CancellationKeeps ==
    ASSUME CancelInv, NEW j \in Job, ClaimCancel(j) \/ EndCancel(j)
    PROVE  CancelInv'
  <1>1. CASE ClaimCancel(j)
    <2>1. /\ request' = request /\ preparing' = preparing \ {j}
          /\ cancel' = [cancel EXCEPT ![j] = IF j \in preparing THEN "hit" ELSE "missed"]
      BY <1>1 DEF ClaimCancel
    <2>2. j \in preparing => request[j] \notin {"none", "result"}
      BY DEF CancelInv, GenerationIsHandled, Handled
    <2> QED BY <2>1, <2>2 DEF CancelInv, Tables, GenerationIsHandled, CancelledIsOver, Cancelled
  <1>2. CASE EndCancel(j)
    <2>1. /\ request' = request /\ preparing' = preparing
          /\ cancel[j] \in {"hit", "missed"}
          /\ cancel' = [cancel EXCEPT ![j] = IF @ = "hit" THEN "stopped" ELSE "over"]
      BY <1>2 DEF EndCancel, handlers
    <2> QED BY <2>1 DEF CancelInv, Tables, GenerationIsHandled, CancelledIsOver, Cancelled
  <1> QED BY <1>1, <1>2

\* The claim gives a generation to a request that has none and is not cancelled
\* as one being handled.
LEMMA BeginKeeps ==
    ASSUME CancelInv, NEW j \in Job, Claim(j)
    PROVE  CancelInv'
  <1>1. /\ request[j] = "none" /\ cancel' = cancel
        /\ request' = [request EXCEPT ![j] = "admitted"]
        /\ preparing' = preparing \cup {j}
    BY DEF Claim
  <1>2. ~Cancelled(j)
    BY <1>1 DEF CancelInv, CancelledIsOver
  <1> QED BY <1>1, <1>2
          DEF CancelInv, Tables, GenerationIsHandled, CancelledIsOver, Cancelled, Handled

\* The invariant is inductive: one case per group of actions.
LEMMA StepKeeps == CancelInv /\ [JobsNext]_jobVars => CancelInv'
  <1> SUFFICES ASSUME CancelInv, [JobsNext]_jobVars PROVE CancelInv'
    OBVIOUS
  <1>1. CASE UNCHANGED jobVars
    BY <1>1, Elsewhere DEF jobVars, handlers
  <1>2. CASE \E j \in Job : Claim(j)
    BY <1>2, BeginKeeps
  <1>3. CASE \E j \in Job : Handler(j)
    BY <1>3, HandlerKeeps
  <1>4. CASE \E j \in Job : Transfer(j)
    BY <1>4, TransferKeeps
  <1>5. CASE \E j \in Job : ClaimCancel(j) \/ EndCancel(j)
    BY <1>5, CancellationKeeps
  <1>6. CASE \E j \in Job : CancelJob(j) \/ LeavesQueue(j) \/ CancelDraftJob(j) \/ CancelHandler(j)
    BY <1>6, Elsewhere DEF CancelJob, LeavesQueue, CancelDraftJob, CancelHandler, handlers
  <1>7. CASE BeginDraft \/ CloseDraft \/ ProfileChanges \/ Exit
    BY <1>7, Elsewhere DEF BeginDraft, CloseDraft, ProfileChanges, Exit, handlers
  <1> QED BY <1>1, <1>2, <1>3, <1>4, <1>5, <1>6, <1>7 DEF JobsNext, Stop

\* No request that was cancelled while the helper handled it is answered with a
\* result, for any requests, drafts, permits and claims (HTTPClient.swift,
\* main.swift: cancelPreparing before the job, authorize after it).
THEOREM CancelledNeverAnswered == JobsSpec => []CancelledHasNoResult
  <1>1. CancelInv => CancelledHasNoResult
    BY DEF CancelInv, CancelledIsOver, Cancelled, CancelledHasNoResult
  <1> QED BY <1>1, InitCancel, StepKeeps, PTL DEF JobsSpec
-----------------------------------------------------------------------------
(***************************************************************************)
(* The limiter of the host.  Its count is the number of transfers with a   *)
(* permit because a permit passes only to one that waits: the queue holds  *)
(* waiting transfers, each once.                                           *)
(***************************************************************************)
PermitHolders == {j \in Job : transfer[j] \in WithPermit}

TransferState == {"none", "new", "queued", "answered", "failed"} \cup WithPermit

QueueWaits ==
    /\ hostQueue \in Seq(Job)
    /\ \A i \in 1..Len(hostQueue) : transfer[hostQueue[i]] = "queued"
    /\ \A i, k \in 1..Len(hostQueue) : hostQueue[i] = hostQueue[k] => i = k

LimiterInv ==
    /\ transfer \in [Job -> TransferState]
    /\ permits = Cardinality(PermitHolders) /\ permits <= MaxPerHost
    /\ QueueWaits

\* One more or one less transfer with a permit is one more or one less permit.
LEMMA HoldersCounted ==
    /\ IsFiniteSet(PermitHolders) /\ Cardinality(PermitHolders) \in Nat
    /\ \A j \in Job : j \notin PermitHolders => Cardinality(PermitHolders \cup {j}) = Cardinality(PermitHolders) + 1
    /\ \A j \in PermitHolders : Cardinality(PermitHolders \ {j}) = Cardinality(PermitHolders) - 1
  <1>1. IsFiniteSet(PermitHolders)
    BY FS_Subset, JobsAssumption DEF PermitHolders
  <1> QED BY <1>1, FS_AddElement, FS_RemoveElement, FS_CardinalityType

\* A transfer that neither gets nor loses a permit and does not wait.
LEMMA GoesOnTransfer ==
    ASSUME LimiterInv, NEW j \in Job, NEW next \in TransferState,
           transfer' = [transfer EXCEPT ![j] = next], UNCHANGED limiter,
           transfer[j] # "queued",
           (transfer[j] \in WithPermit) <=> (next \in WithPermit)
    PROVE  LimiterInv'
  <1>1. PermitHolders' = PermitHolders
    BY DEF LimiterInv, PermitHolders
  <1>2. transfer' \in [Job -> TransferState]
    BY DEF LimiterInv
  <1>3. QueueWaits'
    BY DEF LimiterInv, QueueWaits, limiter
  <1> QED BY <1>1, <1>2, <1>3 DEF LimiterInv, limiter

\* The waiter at the head of the queue has no permit and is nowhere else in it.
LEMMA HeadWaits ==
    ASSUME LimiterInv, hostQueue # <<>>
    PROVE  /\ Head(hostQueue) \in Job /\ transfer[Head(hostQueue)] = "queued"
           /\ Tail(hostQueue) \in Seq(Job) /\ Len(Tail(hostQueue)) = Len(hostQueue) - 1
           /\ \A i \in 1..Len(Tail(hostQueue)) :
                Tail(hostQueue)[i] = hostQueue[i + 1] /\ Tail(hostQueue)[i] # Head(hostQueue)
  <1>1. hostQueue \in Seq(Job) /\ Len(hostQueue) \in Nat /\ Len(hostQueue) >= 1 /\ Head(hostQueue) = hostQueue[1]
    BY DEF LimiterInv, QueueWaits
  <1>2. /\ Tail(hostQueue) \in Seq(Job) /\ Len(Tail(hostQueue)) = Len(hostQueue) - 1
        /\ \A i \in 1..Len(Tail(hostQueue)) : Tail(hostQueue)[i] = hostQueue[i + 1]
    BY <1>1
  <1> QED BY <1>1, <1>2 DEF LimiterInv, QueueWaits

\* A released permit is given back or passes to the first that waits.
LEMMA ReleaseKeeps ==
    ASSUME LimiterInv, NEW j \in Job, transfer[j] \in WithPermit,
           NEW how \in {"answered", "failed"}, ReleasePermit(j, how)
    PROVE  /\ LimiterInv'
           /\ transfer'[j] = how
           /\ \A i \in Job \ {j} : \/ transfer'[i] = transfer[i]
                                   \/ transfer[i] = "queued" /\ transfer'[i] = "holding"
  <1> USE DEF LimiterInv
  <1>1. j \in PermitHolders /\ how \in TransferState /\ how \notin WithPermit
        /\ transfer[j] # "queued" /\ "holding" \in WithPermit
    BY DEF PermitHolders, WithPermit, TransferState
  <1>2. CASE hostQueue = <<>>
    <2>1. /\ transfer' = [transfer EXCEPT ![j] = how]
          /\ permits' = permits - 1 /\ hostQueue' = hostQueue
      BY <1>2 DEF ReleasePermit
    <2>2. PermitHolders' = PermitHolders \ {j}
      BY <1>1, <2>1 DEF PermitHolders
    <2>3. permits' = Cardinality(PermitHolders') /\ permits' <= MaxPerHost
      BY <1>1, <2>1, <2>2, HoldersCounted, JobsAssumption
    <2>4. QueueWaits'
      BY <1>2, <2>1 DEF QueueWaits
    <2> QED BY <1>1, <2>1, <2>3, <2>4
  <1>3. CASE hostQueue # <<>>
    <2> DEFINE head == Head(hostQueue)
    <2>1. /\ transfer' = [transfer EXCEPT ![j] = how, ![head] = "holding"]
          /\ hostQueue' = Tail(hostQueue) /\ permits' = permits
      BY <1>3 DEF ReleasePermit
    <2>2. /\ head \in Job /\ transfer[head] = "queued" /\ head # j
          /\ Tail(hostQueue) \in Seq(Job) /\ Len(Tail(hostQueue)) = Len(hostQueue) - 1
          /\ \A i \in 1..Len(Tail(hostQueue)) :
               Tail(hostQueue)[i] = hostQueue[i + 1] /\ Tail(hostQueue)[i] # head
      BY <1>1, <1>3, HeadWaits
    <2> HIDE DEF head
    <2>3. transfer'[j] = how /\ transfer'[head] = "holding"
          /\ \A i \in Job \ {j, head} : transfer'[i] = transfer[i]
      BY <2>1, <2>2
    <2>4. transfer' \in [Job -> TransferState]
      BY <1>1, <2>1, <2>2 DEF TransferState
    <2>5. head \notin PermitHolders
      BY <2>2 DEF PermitHolders, WithPermit
    <2>6. PermitHolders' = (PermitHolders \ {j}) \cup {head}
      BY <1>1, <2>2, <2>3 DEF PermitHolders
    <2>7. Cardinality(PermitHolders') = Cardinality(PermitHolders)
      <3>1. IsFiniteSet(PermitHolders \ {j})
        BY HoldersCounted, FS_RemoveElement
      <3>2. Cardinality((PermitHolders \ {j}) \cup {head}) = Cardinality(PermitHolders \ {j}) + 1
        BY <2>5, <3>1, FS_AddElement
      <3> QED BY <1>1, <2>6, <3>2, HoldersCounted
    <2>8. QueueWaits'
      <3>1. Len(hostQueue) \in Nat
        BY DEF QueueWaits
      <3>2. \A i \in 1..Len(Tail(hostQueue)) : i + 1 \in 1..Len(hostQueue)
        BY <2>2, <3>1
      <3>3. \A i \in 1..Len(hostQueue') : transfer'[hostQueue'[i]] = "queued"
        <4>1. SUFFICES ASSUME NEW i \in 1..Len(Tail(hostQueue))
                       PROVE  transfer'[Tail(hostQueue)[i]] = "queued"
          BY <2>1
        <4>2. /\ Tail(hostQueue)[i] = hostQueue[i + 1] /\ i + 1 \in 1..Len(hostQueue)
              /\ Tail(hostQueue)[i] # head
          BY <2>2, <3>2
        <4>3. transfer[hostQueue[i + 1]] = "queued" /\ hostQueue[i + 1] \in Job
          BY <4>2 DEF QueueWaits
        <4> QED BY <1>1, <2>3, <4>2, <4>3
      <3>4. \A i, k \in 1..Len(hostQueue') : hostQueue'[i] = hostQueue'[k] => i = k
        <4>1. SUFFICES ASSUME NEW i \in 1..Len(Tail(hostQueue)), NEW k \in 1..Len(Tail(hostQueue)),
                              Tail(hostQueue)[i] = Tail(hostQueue)[k]
                       PROVE  i = k
          BY <2>1
        <4>2. hostQueue[i + 1] = hostQueue[k + 1] /\ i + 1 \in 1..Len(hostQueue) /\ k + 1 \in 1..Len(hostQueue)
          BY <2>2, <3>2, <4>1
        <4>3. i + 1 = k + 1
          BY <4>2 DEF QueueWaits
        <4> QED BY <4>3
      <3> QED BY <2>1, <2>2, <3>3, <3>4 DEF QueueWaits
    <2> QED BY <2>1, <2>2, <2>3, <2>4, <2>7, <2>8
  <1> QED BY <1>2, <1>3

\* A transfer asks for its permit: it is refused, admitted below the limit, or
\* it waits behind the others.
LEMMA AcquireKeeps ==
    ASSUME LimiterInv, NEW j \in Job, Acquire(j)
    PROVE  LimiterInv'
  <1> USE DEF LimiterInv
  <1>1. transfer[j] = "new" /\ j \notin PermitHolders
    BY DEF Acquire, PermitHolders, WithPermit
  <1>2. CASE j \in told
    BY <1>1, <1>2, GoesOnTransfer DEF Acquire, TransferState, WithPermit
  <1>3. CASE j \notin told /\ permits < MaxPerHost
    <2>1. /\ transfer' = [transfer EXCEPT ![j] = "holding"]
          /\ permits' = permits + 1 /\ hostQueue' = hostQueue
      BY <1>3 DEF Acquire
    <2>2. PermitHolders' = PermitHolders \cup {j}
      BY <1>1, <2>1 DEF PermitHolders, WithPermit
    <2>3. permits' = Cardinality(PermitHolders') /\ permits' <= MaxPerHost
      BY <1>1, <1>3, <2>1, <2>2, HoldersCounted, JobsAssumption
    <2>4. QueueWaits'
      BY <1>1, <2>1 DEF QueueWaits
    <2> QED BY <2>1, <2>3, <2>4 DEF TransferState, WithPermit
  <1>4. CASE j \notin told /\ ~(permits < MaxPerHost)
    <2>1. /\ transfer' = [transfer EXCEPT ![j] = "queued"]
          /\ permits' = permits /\ hostQueue' = Append(hostQueue, j)
      BY <1>4 DEF Acquire
    <2>2. PermitHolders' = PermitHolders
      BY <1>1, <2>1 DEF PermitHolders, WithPermit
    <2>3. /\ hostQueue' \in Seq(Job) /\ Len(hostQueue') = Len(hostQueue) + 1 /\ Len(hostQueue) \in Nat
          /\ hostQueue'[Len(hostQueue) + 1] = j
          /\ \A i \in 1..Len(hostQueue) : hostQueue'[i] = hostQueue[i] /\ hostQueue[i] \in Job
      BY <2>1 DEF QueueWaits
    <2>4. \A i \in 1..Len(hostQueue) : hostQueue[i] # j
      BY <1>1 DEF QueueWaits
    <2>5. QueueWaits'
      BY <2>1, <2>3, <2>4 DEF QueueWaits
    <2> QED BY <2>1, <2>2, <2>5 DEF TransferState
  <1> QED BY <1>2, <1>3, <1>4

\* A waiter that is cancelled leaves its one place in the queue.
LEMMA LeavesQueueKeeps ==
    ASSUME LimiterInv, NEW j \in Job, LeavesQueue(j)
    PROVE  LimiterInv'
  <1> USE DEF LimiterInv
  <1>1. /\ transfer[j] = "queued" /\ permits' = permits
        /\ transfer' = [transfer EXCEPT ![j] = "failed"]
    BY DEF LeavesQueue
  <1>2. PICK n \in 1..Len(hostQueue) : hostQueue[n] = j /\ hostQueue' = RemoveAt(hostQueue, n)
    BY DEF LeavesQueue
  <1>3. PermitHolders' = PermitHolders
    BY <1>1 DEF PermitHolders, WithPermit
  <1>4. hostQueue \in Seq(Job) /\ Len(hostQueue) \in Nat /\ n \in Nat /\ n >= 1 /\ n <= Len(hostQueue)
    BY <1>2 DEF QueueWaits
  <1> DEFINE front == SubSeq(hostQueue, 1, n - 1)
             back == SubSeq(hostQueue, n + 1, Len(hostQueue))
  <1>5. /\ front \in Seq(Job) /\ Len(front) = n - 1
        /\ \A i \in 1..n - 1 : front[i] = hostQueue[i]
    BY <1>4
  <1>6. /\ back \in Seq(Job) /\ Len(back) = Len(hostQueue) - n
        /\ \A i \in 1..Len(hostQueue) - n : back[i] = hostQueue[n + i]
    BY <1>4
  <1>7. hostQueue' = front \o back
    BY <1>2 DEF RemoveAt
  <1> HIDE DEF front, back
  <1>8. /\ hostQueue' \in Seq(Job) /\ Len(hostQueue') = Len(hostQueue) - 1
        /\ \A i \in 1..Len(hostQueue) - 1 : hostQueue'[i] = IF i < n THEN hostQueue[i] ELSE hostQueue[i + 1]
    <2>1. /\ hostQueue' \in Seq(Job) /\ Len(hostQueue') = Len(front) + Len(back)
          /\ \A i \in 1..Len(front) + Len(back) :
               hostQueue'[i] = IF i <= Len(front) THEN front[i] ELSE back[i - Len(front)]
      BY <1>5, <1>6, <1>7, ConcatProperties
    <2>2. ASSUME NEW i \in 1..Len(hostQueue) - 1
          PROVE  hostQueue'[i] = IF i < n THEN hostQueue[i] ELSE hostQueue[i + 1]
      <3>1. CASE i < n
        <4>1. i \in 1..n - 1 /\ i \in 1..Len(front) + Len(back) /\ i <= Len(front)
          BY <1>4, <1>5, <1>6, <2>2, <3>1
        <4>2. hostQueue'[i] = front[i]
          BY <2>1, <4>1
        <4>3. front[i] = hostQueue[i]
          BY <1>5, <4>1
        <4> QED BY <3>1, <4>2, <4>3
      <3>2. CASE i >= n
        <4>1. hostQueue'[i] = back[i - (n - 1)] /\ i - (n - 1) \in 1..Len(hostQueue) - n
          <5>1. i \in 1..Len(front) + Len(back) /\ ~(i <= Len(front)) /\ Len(front) = n - 1
            BY <1>4, <1>5, <1>6, <2>2, <3>2
          <5>2. hostQueue'[i] = back[i - Len(front)]
            BY <2>1, <5>1
          <5> QED BY <1>4, <2>2, <3>2, <5>1, <5>2
        <4>2. back[i - (n - 1)] = hostQueue[n + (i - (n - 1))] /\ n + (i - (n - 1)) = i + 1
          BY <1>4, <1>6, <2>2, <4>1
        <4> QED BY <1>4, <3>2, <4>1, <4>2
      <3> QED BY <1>4, <2>2, <3>1, <3>2
    <2>3. Len(front) + Len(back) = Len(hostQueue) - 1
      BY <1>4, <1>5, <1>6
    <2>4. hostQueue' \in Seq(Job) /\ Len(hostQueue') = Len(hostQueue) - 1
      BY <2>1, <2>3
    <2> QED BY <2>2, <2>4
  <1>9. \A i \in 1..Len(hostQueue') : transfer'[hostQueue'[i]] = "queued"
    BY <1>1, <1>2, <1>4, <1>8 DEF QueueWaits
  <1>10. \A i, k \in 1..Len(hostQueue') : hostQueue'[i] = hostQueue'[k] => i = k
    BY <1>4, <1>8 DEF QueueWaits
  <1>11. transfer' \in [Job -> TransferState]
    BY <1>1 DEF TransferState
  <1> QED BY <1>1, <1>3, <1>8, <1>9, <1>10, <1>11 DEF QueueWaits

\* The other steps of a transfer go on, or release a permit.
LEMMA TransferKeepsLimiter ==
    ASSUME LimiterInv, NEW j \in Job, Transfer(j)
    PROVE  LimiterInv'
  <1>1. CASE Acquire(j)
    BY <1>1, AcquireKeeps
  <1>2. CASE CheckCancelled(j)
    BY <1>2, ReleaseKeeps, GoesOnTransfer
    DEF CheckCancelled, Proceeds, TransferState, WithPermit
  <1>3. CASE AuthorizeTransfer(j)
    BY <1>3, ReleaseKeeps, GoesOnTransfer
    DEF AuthorizeTransfer, Proceeds, TransferState, WithPermit
  <1>4. CASE Transferred(j)
    BY <1>4, ReleaseKeeps DEF Transferred, WithPermit
  <1> QED BY <1>1, <1>2, <1>3, <1>4 DEF Transfer

\* A step that touches neither transfers nor the limiter.
LEMMA NotTheLimiter ==
    ASSUME LimiterInv, UNCHANGED <<transfer, permits, hostQueue>>
    PROVE  LimiterInv'
  BY DEF LimiterInv, PermitHolders, QueueWaits
-----------------------------------------------------------------------------
(***************************************************************************)
(* What was stopped leaves the network.  A transfer that is still to be    *)
(* authorized fails there, because its generation or its draft is gone;    *)
(* one that is past it has an entry in the table, which the stop takes,    *)
(* and, if it is of the draft, a place among the draft's jobs.             *)
(***************************************************************************)
Over == {"answered", "failed"}
Granted == {"authorized", "network"}

OtherTypes ==
    /\ entry \in [Job -> {"none", "active", "taken", "cancelled", "finished"}]
    /\ told \subseteq Job /\ preparing \subseteq Job
    /\ draft \in {"none", "preparing", "live", "closed"}
    /\ draftJobs \subseteq DraftJob /\ closing \subseteq DraftJob
    /\ changed \in BOOLEAN /\ exiting \in BOOLEAN

\* How far the two threads of a job are, and its entry.
ThreadsAgree(j) ==
    /\ entry[j] = "none" <=> transfer[j] = "none"
    /\ request[j] \in {"none", "admitted", "ready"} => transfer[j] = "none"
    /\ request[j] \in {"finished"} \cup Outcome => transfer[j] \in {"none"} \cup Over

\* Who left the table is over, told, or about to be told by install.
LeftIsTold(j) ==
    /\ entry[j] = "finished" => transfer[j] \in Over
    /\ entry[j] = "cancelled" =>
         j \in told \/ request[j] = "registered" \/ transfer[j] \in Over

\* Who is past its authorization and in the table can still be stopped.
GrantedCanBeStopped(j) ==
    entry[j] = "active" /\ transfer[j] \in Granted =>
        /\ cancel[j] # "stopped"
        /\ j \in DraftJob => IF draft = "closed" THEN j \in closing ELSE j \in draftJobs

Stoppable(j) == ThreadsAgree(j) /\ LeftIsTold(j) /\ GrantedCanBeStopped(j)

StopInv == CancelInv /\ LimiterInv /\ OtherTypes /\ \A j \in Job : Stoppable(j)

\* What a stopped job does on the network follows.
LEMMA StopInvSuffices == StopInv => JobsTypeOK /\ StoppedLeavesNetwork
  <1> SUFFICES ASSUME StopInv PROVE JobsTypeOK /\ StoppedLeavesNetwork
    OBVIOUS
  <1>1. JobsTypeOK
    BY DEF StopInv, CancelInv, Tables, LimiterInv, TransferState, PermitHolders, QueueWaits,
           OtherTypes, JobsTypeOK
  <1>2. ASSUME NEW j \in Job, transfer[j] = "network", Stopped(j)
        PROVE  j \in told \/ OnItsWay(j)
    <2>1. entry[j] \in {"active", "taken", "cancelled"}
      BY <1>2 DEF StopInv, OtherTypes, Stoppable, ThreadsAgree, LeftIsTold, Over
    <2>2. entry[j] # "active"
      BY <1>2 DEF StopInv, Stoppable, GrantedCanBeStopped, Granted, Stopped
    <2> QED
      BY <1>2, <2>1, <2>2 DEF StopInv, Stoppable, LeftIsTold, Over, OnItsWay
  <1> QED BY <1>1, <1>2 DEF StoppedLeavesNetwork

\* At the start no job is in the table.
LEMMA InitStop == JobsInit => StopInv
  <1> SUFFICES ASSUME JobsInit PROVE StopInv
    OBVIOUS
  <1>1. LimiterInv
    <2>1. PermitHolders = {}
      BY DEF JobsInit, PermitHolders, WithPermit
    <2>2. Cardinality({}) = 0
      BY FS_EmptySet
    <2> QED
      BY <2>1, <2>2, JobsAssumption DEF JobsInit, LimiterInv, QueueWaits, TransferState
  <1>2. OtherTypes /\ \A j \in Job : Stoppable(j)
    BY DEF JobsInit, OtherTypes, Stoppable, ThreadsAgree, LeftIsTold, GrantedCanBeStopped,
           Granted, Outcome, Over
  <1> QED BY <1>1, <1>2, InitCancel DEF StopInv

\* A handler's answer ends a job whose transfer is over or was never made.
LEMMA HandlerStops ==
    ASSUME StopInv, NEW j \in Job, Handler(j)
    PROVE  OtherTypes' /\ \A i \in Job : Stoppable(i)'
  <1> USE DEF StopInv, CancelInv, Tables, LimiterInv, OtherTypes, Stoppable
  <1>1. ASSUME NEW answer \in Outcome, Answers(j, answer), transfer[j] \in {"none"} \cup Over,
               transfer' = transfer, told' = told, draft' = draft, closing' = closing,
               cancel' = cancel, changed' = changed, exiting' = exiting,
               \/ entry' = entry
               \/ transfer[j] # "none"
                  /\ entry' = [entry EXCEPT ![j] = IF @ = "active" THEN "finished" ELSE @]
        PROVE  OtherTypes' /\ \A i \in Job : Stoppable(i)'
    <2>1. /\ request' = [request EXCEPT ![j] = answer]
          /\ preparing' = preparing \ {j} /\ draftJobs' = draftJobs \ {j}
      BY <1>1 DEF Answers
    <2>2. OtherTypes'
      BY <1>1, <2>1
    <2>3. ASSUME NEW i \in Job PROVE Stoppable(i)'
      BY <1>1, <2>1, <2>3
      DEF ThreadsAgree, LeftIsTold, GrantedCanBeStopped, Over, Granted, Outcome
    <2> QED BY <2>2, <2>3
  <1>2. CASE Authorize(j)
    <2>1. CASE Authorized(j)
      <3>1. /\ request' = [request EXCEPT ![j] = "ready"] /\ request[j] = "admitted"
            /\ draftJobs' = IF j \in DraftJob /\ draft = "live"
                            THEN draftJobs \cup {j} ELSE draftJobs
            /\ UNCHANGED <<preparing, transfer, entry, told, draft, closing, cancel,
                           changed, exiting>>
        BY <1>2, <2>1 DEF Authorize, Enters, jobs
      <3>2. ASSUME NEW i \in Job PROVE Stoppable(i)'
        BY <3>1, <3>2
        DEF ThreadsAgree, LeftIsTold, GrantedCanBeStopped, Over, Granted, Outcome
      <3> QED BY <3>1, <3>2
    <2>2. CASE ~Authorized(j)
      <3>1. transfer[j] = "none"
        BY <1>2 DEF Authorize, ThreadsAgree
      <3> QED BY <1>1, <1>2, <2>2, <3>1 DEF Authorize, jobs, Outcome
    <2> QED BY <2>1, <2>2
  <1>3. CASE Register(j)
    <2>1. /\ entry' = [entry EXCEPT ![j] = "active"]
          /\ transfer' = [transfer EXCEPT ![j] = "new"]
          /\ request' = [request EXCEPT ![j] = "registered"]
          /\ UNCHANGED <<preparing, told, draft, draftJobs, closing, cancel, changed, exiting>>
      BY <1>3 DEF Register, drafts
    <2>2. ASSUME NEW i \in Job PROVE Stoppable(i)'
      BY <2>1, <2>2
      DEF ThreadsAgree, LeftIsTold, GrantedCanBeStopped, Over, Granted, Outcome
    <2> QED BY <2>1, <2>2
  <1>4. CASE Install(j)
    <2>1. /\ request' = [request EXCEPT ![j] = "installed"]
          /\ told' = IF entry[j] = "cancelled" THEN told \cup {j} ELSE told
          /\ UNCHANGED <<preparing, transfer, entry, draft, draftJobs, closing, cancel,
                         changed, exiting>>
      BY <1>4 DEF Install, drafts
    <2>2. ASSUME NEW i \in Job PROVE Stoppable(i)'
      BY <2>1, <2>2
      DEF ThreadsAgree, LeftIsTold, GrantedCanBeStopped, Over, Granted, Outcome
    <2> QED BY <2>1, <2>2
  <1>5. CASE Finish(j)
    <2>1. /\ transfer[j] \in Over
          /\ entry' = [entry EXCEPT ![j] = IF @ = "active" THEN "finished" ELSE @]
          /\ UNCHANGED <<transfer, told, draft, closing, cancel, changed, exiting>>
      BY <1>5 DEF Finish, Over
    <2>2. CASE entry[j] = "active" /\ transfer[j] = "answered"
      <3>1. request' = [request EXCEPT ![j] = "finished"]
            /\ UNCHANGED <<preparing, draftJobs>>
        BY <1>5, <2>2 DEF Finish
      <3>2. ASSUME NEW i \in Job PROVE Stoppable(i)'
        BY <2>1, <3>1, <3>2
        DEF ThreadsAgree, LeftIsTold, GrantedCanBeStopped, Over, Granted, Outcome
      <3> QED BY <2>1, <3>1, <3>2
    <2>3. CASE ~(entry[j] = "active" /\ transfer[j] = "answered")
      BY <1>1, <1>5, <2>1, <2>3 DEF Finish, Outcome, Over
    <2> QED BY <2>2, <2>3
  <1>6. CASE Respond(j)
    <2>1. transfer[j] \in {"none"} \cup Over
      BY <1>6 DEF Respond, ThreadsAgree
    <2>2. \E answer \in Outcome : Answers(j, answer)
      BY <1>6 DEF Respond, Reflects, Outcome
    <2> QED BY <1>1, <1>6, <2>1, <2>2 DEF Respond, jobs
  <1> QED BY <1>2, <1>3, <1>4, <1>5, <1>6 DEF Handler

\* The steps of a transfer, and the waiter that leaves the queue: a transfer is
\* granted only with a valid generation and with a place in its live draft.
LEMMA TransferStops ==
    ASSUME StopInv, NEW j \in Job, Transfer(j) \/ LeavesQueue(j)
    PROVE  OtherTypes' /\ \A i \in Job : Stoppable(i)'
  <1> USE DEF StopInv, CancelInv, Tables, LimiterInv, OtherTypes, Stoppable
  <1>1. /\ UNCHANGED <<request, preparing, entry, told, draft, closing, cancel,
                       changed, exiting>>
        /\ draftJobs' \subseteq DraftJob /\ draftJobs \subseteq draftJobs'
    BY JobsAssumption
    DEF Transfer, Acquire, CheckCancelled, AuthorizeTransfer, Transferred, LeavesQueue,
        Enters, handlers, drafts
  <1>2. transfer[j] \notin {"none"} \cup Over
    BY DEF Transfer, Acquire, CheckCancelled, AuthorizeTransfer, Transferred, LeavesQueue, Over
  <1>3. ASSUME NEW i \in Job
        PROVE  \/ transfer'[i] = transfer[i]
               \/ /\ transfer[i] \notin {"none"} \cup Over
                  /\ transfer'[i] \notin {"none"} \cup Granted
               \/ transfer[i] = "authorized" /\ transfer'[i] = "network"
               \/ /\ transfer[i] = "checked" /\ transfer'[i] = "authorized"
                  /\ i \in preparing
                  /\ i \in DraftJob => draft = "live" /\ i \in draftJobs'
    <2>1. CASE Acquire(j)
      BY <2>1, <1>2 DEF Acquire, Granted, Over
    <2>2. ASSUME NEW how \in Over, transfer[j] \in WithPermit, ReleasePermit(j, how)
          PROVE  \/ transfer'[i] = transfer[i]
                 \/ /\ transfer[i] \notin {"none"} \cup Over
                    /\ transfer'[i] \notin {"none"} \cup Granted
      <3>1. /\ transfer'[j] = how
            /\ i # j => \/ transfer'[i] = transfer[i]
                        \/ transfer[i] = "queued" /\ transfer'[i] = "holding"
        BY <2>2, ReleaseKeeps DEF Over
      <3> QED BY <1>2, <2>2, <3>1 DEF Over, Granted
    <2>3. CASE CheckCancelled(j)
      BY <2>2, <2>3, <1>2 DEF CheckCancelled, Proceeds, WithPermit, Over, Granted
    <2>4. CASE AuthorizeTransfer(j)
      BY <2>2, <2>4, <1>2
      DEF AuthorizeTransfer, Proceeds, Authorized, CredentialIsValid, Enters,
          WithPermit, Over, Granted
    <2>5. CASE Transferred(j)
      BY <2>2, <2>5 DEF Transferred, WithPermit, Over
    <2>6. CASE LeavesQueue(j)
      BY <2>6, <1>2 DEF LeavesQueue, Over, Granted
    <2> QED BY <2>1, <2>3, <2>4, <2>5, <2>6 DEF Transfer
  <1>4. \A i \in Job : i \in preparing => cancel[i] # "stopped"
    BY DEF CancelledIsOver, Cancelled
  <1>5. ASSUME NEW i \in Job PROVE Stoppable(i)'
    BY <1>1, <1>3, <1>4, <1>5
    DEF ThreadsAgree, LeftIsTold, GrantedCanBeStopped, Over, Granted, Outcome
  <1> QED BY <1>1, <1>5

\* Who takes a job out of the table is about to tell its transfer.
LEMMA TakenIsOnItsWay ==
    ASSUME StopInv, NEW j \in Job, CancelSync(j),
           NEW c, c \subseteq closing, closing \ c \subseteq {j}, closing' = c,
           \A i \in Job \ {j} : cancel'[i] = cancel[i],
           UNCHANGED <<request, transfer, told, preparing, draft, draftJobs, changed, exiting>>
    PROVE  OtherTypes' /\ \A i \in Job : Stoppable(i)'
  <1> USE DEF StopInv, CancelInv, Tables, LimiterInv, OtherTypes, Stoppable
  <1>1. entry' = [entry EXCEPT ![j] = IF @ = "active" THEN "taken" ELSE @]
    BY DEF CancelSync
  <1>2. ASSUME NEW i \in Job PROVE Stoppable(i)'
    BY <1>1, <1>2 DEF ThreadsAgree, LeftIsTold, GrantedCanBeStopped, Over, Granted, Outcome
  <1> QED BY <1>1, <1>2

\* The stops: by a cancellation, with the draft, with the worker.
LEMMA StopStops ==
    ASSUME StopInv, NEW j \in Job,
           \/ ClaimCancel(j) \/ EndCancel(j) \/ CancelJob(j)
           \/ CancelDraftJob(j) \/ CancelHandler(j) \/ CloseDraft
    PROVE  OtherTypes' /\ \A i \in Job : Stoppable(i)'
  <1> USE DEF StopInv, CancelInv, Tables, LimiterInv, OtherTypes, Stoppable
  <1>1. CASE ClaimCancel(j)
    <2>1. /\ cancel' = [cancel EXCEPT ![j] = IF j \in preparing THEN "hit" ELSE "missed"]
          /\ preparing' = preparing \ {j}
          /\ UNCHANGED <<request, transfer, entry, told, draft, draftJobs, closing,
                         changed, exiting>>
      BY <1>1 DEF ClaimCancel, jobs, drafts
    <2>2. ASSUME NEW i \in Job PROVE Stoppable(i)'
      BY <2>1, <2>2 DEF ThreadsAgree, LeftIsTold, GrantedCanBeStopped, Over, Granted, Outcome
    <2> QED BY <2>1, <2>2
  <1>2. CASE EndCancel(j)
    <2>1. /\ CancelSync(j) /\ closing \subseteq closing /\ closing \ closing \subseteq {j}
          /\ \A i \in Job \ {j} : cancel'[i] = cancel[i]
          /\ UNCHANGED <<request, transfer, told, preparing, draft, draftJobs, closing,
                         changed, exiting>>
      BY <1>2 DEF EndCancel, handlers, drafts
    <2> QED BY <2>1, TakenIsOnItsWay
  <1>3. CASE CancelDraftJob(j)
    <2>1. /\ CancelSync(j) /\ closing \ {j} \subseteq closing
          /\ closing \ (closing \ {j}) \subseteq {j} /\ closing' = closing \ {j}
          /\ \A i \in Job \ {j} : cancel'[i] = cancel[i]
          /\ UNCHANGED <<request, transfer, told, preparing, draft, draftJobs, changed, exiting>>
      BY <1>3 DEF CancelDraftJob, handlers
    <2> QED BY <2>1, TakenIsOnItsWay
  <1>4. CASE CancelHandler(j)
    <2>1. /\ CancelSync(j) /\ closing \subseteq closing /\ closing \ closing \subseteq {j}
          /\ \A i \in Job \ {j} : cancel'[i] = cancel[i]
          /\ UNCHANGED <<request, transfer, told, preparing, draft, draftJobs, closing,
                         changed, exiting>>
      BY <1>4 DEF CancelHandler, handlers, drafts
    <2> QED BY <2>1, TakenIsOnItsWay
  <1>5. CASE CancelJob(j)
    <2>1. /\ entry[j] = "taken" /\ entry' = [entry EXCEPT ![j] = "cancelled"]
          /\ told' = IF request[j] = "installed" THEN told \cup {j} ELSE told
          /\ UNCHANGED <<request, transfer, preparing, draft, draftJobs, closing, cancel,
                         changed, exiting>>
      BY <1>5 DEF CancelJob, handlers, drafts
    <2>2. request[j] \in {"registered", "installed"} \/ transfer[j] \in Over
      BY <2>1 DEF ThreadsAgree, Handled, Outcome, Over
    <2>3. ASSUME NEW i \in Job PROVE Stoppable(i)'
      BY <2>1, <2>2, <2>3
      DEF ThreadsAgree, LeftIsTold, GrantedCanBeStopped, Over, Granted, Outcome
    <2> QED BY <2>1, <2>3
  <1>6. CASE CloseDraft
    <2>1. /\ draft # "closed" /\ draft' = "closed"
          /\ closing' = closing \cup draftJobs /\ draftJobs' = {}
          /\ UNCHANGED <<request, transfer, entry, told, preparing, cancel, changed, exiting>>
      BY <1>6 DEF CloseDraft, DraftClosed, handlers, jobs
    <2>2. ASSUME NEW i \in Job PROVE Stoppable(i)'
      BY <2>1, <2>2 DEF ThreadsAgree, LeftIsTold, GrantedCanBeStopped, Over, Granted, Outcome
    <2> QED BY <2>1, <2>2
  <1> QED BY <1>1, <1>2, <1>3, <1>4, <1>5, <1>6

\* What begins: a claimed request, the draft, a change of the profile, the exit.
LEMMA BeginningsStop ==
    ASSUME StopInv, NEW j \in Job,
           Claim(j) \/ BeginDraft \/ ProfileChanges \/ Exit \/ UNCHANGED jobVars
    PROVE  OtherTypes' /\ \A i \in Job : Stoppable(i)'
  <1> USE DEF StopInv, CancelInv, Tables, LimiterInv, OtherTypes, Stoppable
  <1>1. CASE Claim(j)
    <2>1. /\ request[j] = "none" /\ request' = [request EXCEPT ![j] = "admitted"]
          /\ preparing' = preparing \cup {j}
          /\ UNCHANGED <<transfer, entry, told, draft, draftJobs, closing, cancel,
                         changed, exiting>>
      BY <1>1 DEF Claim, jobs, drafts
    <2>2. ASSUME NEW i \in Job PROVE Stoppable(i)'
      BY <2>1, <2>2 DEF ThreadsAgree, LeftIsTold, GrantedCanBeStopped, Over, Granted, Outcome
    <2> QED BY <2>1, <2>2
  <1>2. CASE BeginDraft \/ ProfileChanges \/ Exit \/ UNCHANGED jobVars
    <2>1. /\ UNCHANGED <<request, transfer, entry, told, preparing, draftJobs, closing, cancel>>
          /\ draft' \in {"none", "preparing", "live", "closed"}
          /\ draft' = "closed" <=> draft = "closed"
          /\ changed' \in BOOLEAN /\ exiting' \in BOOLEAN
      BY <1>2 DEF BeginDraft, ProfileChanges, Exit, jobVars, handlers, jobs, drafts
    <2>2. ASSUME NEW i \in Job PROVE Stoppable(i)'
      BY <2>1, <2>2 DEF ThreadsAgree, LeftIsTold, GrantedCanBeStopped, Over, Granted, Outcome
    <2> QED BY <2>1, <2>2
  <1> QED BY <1>1, <1>2

\* The whole invariant is inductive.
LEMMA StepStops == StopInv /\ [JobsNext]_jobVars => StopInv'
  <1> SUFFICES ASSUME StopInv, [JobsNext]_jobVars PROVE StopInv'
    OBVIOUS
  <1>1. CancelInv'
    BY StepKeeps DEF StopInv
  <1>2. LimiterInv'
    <2>1. CASE \E j \in Job : Transfer(j)
      BY <2>1, TransferKeepsLimiter DEF StopInv
    <2>2. CASE \E j \in Job : LeavesQueue(j)
      BY <2>2, LeavesQueueKeeps DEF StopInv
    <2>3. CASE \E j \in Job : Register(j)
      <3>1. PICK j \in Job : Register(j)
        BY <2>3
      <3>2. transfer[j] = "none" /\ transfer' = [transfer EXCEPT ![j] = "new"]
        BY <3>1 DEF Register, StopInv, Stoppable, ThreadsAgree
      <3> QED
        BY <3>1, <3>2, GoesOnTransfer DEF StopInv, Register, TransferState, WithPermit
    <2>4. CASE UNCHANGED <<transfer, permits, hostQueue>>
      BY <2>4, NotTheLimiter DEF StopInv
    <2> QED
      BY <2>1, <2>2, <2>3, <2>4
      DEF JobsNext, Handler, Stop, Claim, Authorize, Install, Finish, Respond, ClaimCancel,
          EndCancel, CancelJob, CancelDraftJob, CancelHandler, BeginDraft, CloseDraft,
          ProfileChanges, Exit, jobVars, jobs, limiter
  <1>3. OtherTypes' /\ \A i \in Job : Stoppable(i)'
    <2>1. CASE \E j \in Job : Handler(j)
      BY <2>1, HandlerStops
    <2>2. CASE \E j \in Job : Transfer(j) \/ LeavesQueue(j)
      BY <2>2, TransferStops
    <2>3. CASE \E j \in Job : ClaimCancel(j) \/ EndCancel(j) \/ CancelJob(j)
                              \/ CancelDraftJob(j) \/ CancelHandler(j)
      BY <2>3, StopStops
    <2>4. CASE \E j \in Job : Claim(j)
      BY <2>4, BeginningsStop
    <2>5. CASE CloseDraft \/ BeginDraft \/ ProfileChanges \/ Exit \/ UNCHANGED jobVars
      <3>1. CASE Job = {}
        BY <2>5, <3>1
        DEF StopInv, OtherTypes, CloseDraft, DraftClosed, BeginDraft, ProfileChanges, Exit,
            jobVars, handlers, jobs, drafts
      <3>2. CASE Job # {}
        BY <2>5, <3>2, StopStops, BeginningsStop
      <3> QED BY <3>1, <3>2
    <2> QED BY <2>1, <2>2, <2>3, <2>4, <2>5 DEF JobsNext, Stop
  <1> QED BY <1>1, <1>2, <1>3 DEF StopInv

\* The permits the limiter counts are those of the transfers that have one, and
\* never more than a host is allowed; every variable has its type.
THEOREM PermitsAreCounted == JobsSpec => []JobsTypeOK
  <1>1. StopInv => JobsTypeOK
    BY StopInvSuffices
  <1> QED BY <1>1, InitStop, StepStops, PTL DEF JobsSpec

\* A transfer on the network whose request was cancelled, or whose draft was
\* closed, was told to end, or somebody is on the way to tell it.
THEOREM NothingStoppedStays == JobsSpec => []StoppedLeavesNetwork
  <1>1. StopInv => StoppedLeavesNetwork
    BY StopInvSuffices
  <1> QED BY <1>1, InitStop, StepStops, PTL DEF JobsSpec
=============================================================================
