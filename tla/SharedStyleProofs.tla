-------------------------- MODULE SharedStyleProofs --------------------------
(***************************************************************************)
(* What is stored is what is committed, windows at one revision have one   *)
(* style, and the picker belongs to a window that is there.                *)
(*                                                                         *)
(* A handler is a function of a record of the entry's state, the responses *)
(* so far among it; Good says what such a record keeps, so that what a     *)
(* handler does is proved function by function.  The styles and positions  *)
(* that agree are those the windows follow and those on their way to them. *)
(*                                                                         *)
(* First, lemmas about the mailbox that SharedStyle extends: how many      *)
(* frames there are, and what a handler that publishes leaves.  A sum over *)
(* the windows is a fold, which is a recursive function; what holds of it  *)
(* is proved by induction over the number of windows.  The induction is    *)
(* that a set of numbers that contains 0 and with every number the next    *)
(* one is Nat, from the well-foundedness of <.                             *)
(***************************************************************************)
EXTENDS SharedStyle, FiniteSetTheorems, SequenceTheorems, WellFoundedInduction, TLAPS

\* Induction over the natural numbers, for a property given as a set.
LEMMA Induction ==
    ASSUME NEW P \in SUBSET Nat, 0 \in P, \A n \in P : n + 1 \in P
    PROVE  P = Nat
  <1> DEFINE T == Nat \ P
             R == {ss \in Nat \X Nat : ss[1] < ss[2]}
  <1> SUFFICES ASSUME T # {} PROVE FALSE
    OBVIOUS
  <1>1. IsWellFoundedOn(R, Nat)
    BY NatLessThanWellFounded DEF OpToRel
  <1>2. PICK x \in T : \A y \in T : ~ (<<y, x>> \in R)
    BY <1>1, WFMin
  <1>3. x # 0 /\ x - 1 \in Nat
    OBVIOUS
  <1>4. <<x - 1, x>> \in R
    BY <1>3
  <1>5. x - 1 \in P
    BY <1>2, <1>3, <1>4
  <1> QED BY <1>5

\* A sum is computed element by element, in an order that depends on the set of
\* elements only.
AnyOf(s) == CHOOSE x \in s : TRUE
Adds(g, f, S) ==
    /\ g \in [SUBSET S -> Nat]
    /\ g[{}] = 0
    /\ \A s \in SUBSET S : s # {} => g[s] = f[AnyOf(s)] + g[s \ {AnyOf(s)}]

\* The sum of a function over a finite set is such a computation.
LEMMA SumUnfolds ==
    ASSUME NEW S, IsFiniteSet(S), NEW f \in [S -> Nat]
    PROVE  \E g : Adds(g, f, S) /\ SumFunction(f) = g[S]
  <1> DEFINE value(g, s) == IF s = {} THEN 0 ELSE f[AnyOf(s)] + g[s \ {AnyOf(s)}]
             Iter(g) == g = [s \in SUBSET S |-> value(g, s)]
             G == CHOOSE g : Iter(g)
             Upto(k) == {s \in SUBSET S : Cardinality(s) <= k}
             Sol(k) == \E g \in [Upto(k) -> Nat] : \A s \in Upto(k) : g[s] = value(g, s)
  <1>1. SumFunction(f) = G[S]
    BY DEF SumFunction, SumFunctionOnSet, FoldFunctionOnSet, MapThenFoldSet, AnyOf
  <1>2. ASSUME NEW s \in SUBSET S
        PROVE  /\ IsFiniteSet(s) /\ Cardinality(s) \in Nat
               /\ Cardinality(s) = 0 <=> s = {}
               /\ s # {} => /\ AnyOf(s) \in s /\ f[AnyOf(s)] \in Nat
                            /\ s \ {AnyOf(s)} \in SUBSET S
                            /\ Cardinality(s \ {AnyOf(s)}) = Cardinality(s) - 1
    <2>1. IsFiniteSet(s) /\ Cardinality(s) \in Nat /\ (Cardinality(s) = 0 <=> s = {})
      BY FS_Subset, FS_CardinalityType, FS_EmptySet
    <2>2. s # {} => AnyOf(s) \in s
      BY DEF AnyOf
    <2> QED BY <2>1, <2>2, FS_RemoveElement
  <1> HIDE DEF G
  <1>17. {} \in SUBSET S /\ Cardinality({}) = 0
    BY FS_EmptySet
  <1>19. \A s \in SUBSET S : Cardinality(s) \in Nat
    BY <1>2
  <1>3. Sol(0)
    <2> DEFINE g == [s \in Upto(0) |-> 0]
    <2>1. ASSUME NEW s \in Upto(0) PROVE s = {} /\ g[s] = 0
      <3>1. s \in SUBSET S /\ Cardinality(s) <= 0 /\ g[s] = 0
        OBVIOUS
      <3>2. Cardinality(s) = 0
        BY <1>19, <3>1
      <3> QED BY <1>2, <3>1, <3>2
    <2>2. g \in [Upto(0) -> Nat]
      OBVIOUS
    <2> HIDE DEF g
    <2>3. \A s \in Upto(0) : g[s] = value(g, s)
      BY <2>1
    <2> QED BY <2>2, <2>3
  <1>4. ASSUME NEW k \in Nat, Sol(k) PROVE Sol(k + 1)
    <2>1. PICK g \in [Upto(k) -> Nat] : \A s \in Upto(k) : g[s] = value(g, s)
      BY <1>4
    <2> DEFINE h == [s \in Upto(k + 1) |-> IF s \in Upto(k) THEN g[s] ELSE value(g, s)]
    <2>2. \A s \in Upto(k + 1) : s # {} => s \ {AnyOf(s)} \in Upto(k)
      BY <1>2
    <2>3. Upto(k) \subseteq Upto(k + 1) /\ {} \in Upto(k)
      <3>1. ASSUME NEW s \in Upto(k) PROVE s \in Upto(k + 1)
        <4>1. s \in SUBSET S /\ Cardinality(s) <= k
          OBVIOUS
        <4> QED BY <1>19, <4>1
      <3>2. {} \in Upto(k)
        BY <1>17
      <3> HIDE DEF Upto
      <3> QED BY <3>1, <3>2
    <2> HIDE DEF Upto
    <2>4. \A s \in Upto(k + 1) : h[s] = value(g, s)
      BY <2>1
    <2>5. \A s \in Upto(k) : h[s] = g[s]
      BY <2>3
    <2>6. h = [s \in Upto(k + 1) |-> h[s]]
      OBVIOUS
    <2> HIDE DEF h
    <2>7. ASSUME NEW s \in Upto(k + 1) PROVE h[s] = value(h, s) /\ h[s] \in Nat
      <3>1. s \in SUBSET S
        BY DEF Upto
      <3>2. CASE s = {}
        BY <2>4, <3>2
      <3>3. CASE s # {}
        <4>1. s \ {AnyOf(s)} \in Upto(k)
          BY <2>2, <3>3
        <4>2. h[s \ {AnyOf(s)}] = g[s \ {AnyOf(s)}] /\ g[s \ {AnyOf(s)}] \in Nat
          BY <2>5, <4>1
        <4>3. h[s] = f[AnyOf(s)] + g[s \ {AnyOf(s)}]
          BY <2>4, <3>3
        <4> QED BY <1>2, <3>1, <3>3, <4>2, <4>3
      <3> QED BY <3>2, <3>3
    <2>8. h \in [Upto(k + 1) -> Nat]
      BY <2>6, <2>7
    <2> QED BY <2>7, <2>8
  <1>5. \A k \in Nat : Sol(k)
    <2> DEFINE P == {k \in Nat : Sol(k)}
    <2> HIDE DEF Sol
    <2>1. P \in SUBSET Nat /\ 0 \in P /\ \A k \in P : k + 1 \in P
      BY <1>3, <1>4
    <2>2. P = Nat
      <3> HIDE DEF P
      <3> QED BY <2>1, Induction
    <2> QED BY <2>2
  <1>6. Upto(Cardinality(S)) = SUBSET S /\ Cardinality(S) \in Nat
    <2>1. \A s \in SUBSET S : Cardinality(s) <= Cardinality(S)
      BY FS_Subset
    <2> QED BY <2>1, FS_CardinalityType
  <1>7. Sol(Cardinality(S))
    BY <1>5, <1>6
  <1>8. PICK g \in [SUBSET S -> Nat] : \A s \in SUBSET S : g[s] = value(g, s)
    BY <1>6, <1>7
  <1>9. Iter(G)
    <2>1. g = [s \in SUBSET S |-> g[s]]
      OBVIOUS
    <2>2. Iter(g)
      BY <1>8, <2>1
    <2> QED BY <2>2, Zenon DEF G
  <1>10. \A s \in SUBSET S : G[s] = value(G, s)
    BY <1>9
  <1> DEFINE Q == {k \in Nat : \A s \in SUBSET S : Cardinality(s) <= k => G[s] \in Nat}
  <1>18. G[{}] = 0
    BY <1>10, <1>17
  <1>11. 0 \in Q
    <2>1. ASSUME NEW s \in SUBSET S, Cardinality(s) <= 0 PROVE G[s] \in Nat
      <3>1. Cardinality(s) = 0
        BY <1>19, <2>1
      <3> QED BY <1>2, <1>18, <3>1
    <2> QED BY <2>1
  <1>12. ASSUME NEW k \in Q PROVE k + 1 \in Q
    <2>1. k \in Nat /\ \A s \in SUBSET S : Cardinality(s) <= k => G[s] \in Nat
      OBVIOUS
    <2>2. ASSUME NEW s \in SUBSET S, Cardinality(s) <= k + 1 PROVE G[s] \in Nat
      <3>1. CASE s = {}
        BY <1>18, <3>1
      <3>2. CASE s # {}
        <4>1. s \ {AnyOf(s)} \in SUBSET S /\ Cardinality(s \ {AnyOf(s)}) <= k
          BY <1>2, <2>1, <2>2, <3>2
        <4>2. G[s] = f[AnyOf(s)] + G[s \ {AnyOf(s)}]
          BY <1>10, <3>2
        <4> QED BY <1>2, <2>1, <3>2, <4>1, <4>2
      <3> QED BY <3>1, <3>2
    <2> QED BY <2>1, <2>2
  <1>13. Q = Nat
    <2>1. Q \in SUBSET Nat
      OBVIOUS
    <2> HIDE DEF Q
    <2> QED BY <1>11, <1>12, <2>1, Induction
  <1>14. \A s \in SUBSET S : G[s] \in Nat
    BY <1>6, <1>13
  <1>15. G \in [SUBSET S -> Nat]
    BY <1>9, <1>14
  <1>16. Adds(G, f, S)
    BY <1>10, <1>15, <1>18 DEF Adds
  <1> QED BY <1>1, <1>16

\* A set that is not empty has an element to take, and is one less without it.
LEMMA OneLess ==
    ASSUME NEW S, IsFiniteSet(S), NEW s \in SUBSET S, NEW n \in Nat, Cardinality(s) = n + 1
    PROVE  /\ s # {} /\ AnyOf(s) \in s /\ AnyOf(s) \in S
           /\ s \ {AnyOf(s)} \in SUBSET S /\ Cardinality(s \ {AnyOf(s)}) = n
  <1>1. IsFiniteSet(s)
    BY FS_Subset
  <1>2. s # {}
    <2>1. Cardinality(s) # 0
      OBVIOUS
    <2> QED BY <2>1, FS_EmptySet
  <1>3. AnyOf(s) \in s
    BY <1>2 DEF AnyOf
  <1>4. Cardinality(s \ {AnyOf(s)}) = Cardinality(s) - 1
    BY <1>1, <1>3, FS_RemoveElement
  <1> QED BY <1>2, <1>3, <1>4

\* Where some elements count one more, the sum grows by their number.
LEMMA SumOfMarked ==
    ASSUME NEW S, IsFiniteSet(S), NEW f \in [S -> Nat], NEW T \in SUBSET S
    PROVE  SumFunction([x \in S |-> f[x] + IF x \in T THEN 1 ELSE 0])
             = SumFunction(f) + Cardinality(T)
  <1> DEFINE h == [x \in S |-> f[x] + IF x \in T THEN 1 ELSE 0]
  <1>1. PICK g : Adds(g, f, S) /\ SumFunction(f) = g[S]
    BY SumUnfolds
  <1>2. h \in [S -> Nat] /\ \A x \in S : h[x] = f[x] + IF x \in T THEN 1 ELSE 0
    OBVIOUS
  <1> HIDE DEF h
  <1>3. PICK k : Adds(k, h, S) /\ SumFunction(h) = k[S]
    BY <1>2, SumUnfolds
  <1> DEFINE P == {n \in Nat : \A s \in SUBSET S :
                     Cardinality(s) = n => k[s] = g[s] + Cardinality(s \cap T)}
  <1>4. ASSUME NEW s \in SUBSET S
        PROVE  /\ IsFiniteSet(s) /\ Cardinality(s) \in Nat
               /\ IsFiniteSet(s \cap T) /\ Cardinality(s \cap T) \in Nat
               /\ g[s] \in Nat /\ k[s] \in Nat
    <2>1. IsFiniteSet(s) /\ IsFiniteSet(s \cap T)
      BY FS_Subset
    <2> QED BY <1>1, <1>3, <2>1, FS_CardinalityType DEF Adds
  <1>5. 0 \in P
    <2>1. ASSUME NEW s \in SUBSET S, Cardinality(s) = 0
          PROVE  k[s] = g[s] + Cardinality(s \cap T)
      <3>1. s = {} /\ s \cap T = {} /\ Cardinality(s \cap T) = 0
        BY <1>4, <2>1, FS_EmptySet
      <3>2. k[s] = 0 /\ g[s] = 0
        BY <1>1, <1>3, <3>1 DEF Adds
      <3> QED BY <3>1, <3>2
    <2> QED BY <2>1
  <1>6. ASSUME NEW n \in P PROVE n + 1 \in P
    <2>1. n \in Nat /\ \A s \in SUBSET S : Cardinality(s) = n => k[s] = g[s] + Cardinality(s \cap T)
      OBVIOUS
    <2> HIDE DEF P
    <2>2. ASSUME NEW s \in SUBSET S, Cardinality(s) = n + 1
          PROVE  k[s] = g[s] + Cardinality(s \cap T)
      <3> DEFINE x == AnyOf(s)
                 r == s \ {x}
      <3>1. s # {}
        BY <2>1, <2>2, OneLess
      <3>2. x \in s /\ x \in S
        BY <2>1, <2>2, OneLess
      <3>3. r \in SUBSET S /\ Cardinality(r) = n
        BY <2>1, <2>2, OneLess
      <3>4. k[s] = h[x] + k[r] /\ g[s] = f[x] + g[r]
        BY <1>1, <1>3, <3>1 DEF Adds
      <3>5. k[r] = g[r] + Cardinality(r \cap T)
        BY <2>1, <3>3
      <3>6. Cardinality(s \cap T) = Cardinality(r \cap T) + IF x \in T THEN 1 ELSE 0
        <4>1. CASE x \in T
          <5>1. s \cap T = (r \cap T) \cup {x} /\ x \notin r \cap T
            BY <3>2, <4>1
          <5> QED BY <1>4, <3>3, <4>1, <5>1, FS_AddElement
        <4>2. CASE x \notin T
          <5>1. s \cap T = r \cap T
            BY <4>2
          <5>2. Cardinality(r \cap T) \in Nat
            BY <1>4, <3>3
          <5> HIDE DEF x, r
          <5> QED BY <4>2, <5>1, <5>2
        <4> QED BY <4>1, <4>2
      <3>7. /\ f[x] \in Nat /\ h[x] = f[x] + (IF x \in T THEN 1 ELSE 0)
            /\ g[r] \in Nat /\ Cardinality(r \cap T) \in Nat
        BY <1>2, <1>4, <3>2, <3>3
      <3> HIDE DEF x, r
      <3>8. CASE x \in T
        BY <3>4, <3>5, <3>6, <3>7, <3>8
      <3>9. CASE x \notin T
        BY <3>4, <3>5, <3>6, <3>7, <3>9
      <3> QED BY <3>8, <3>9
    <2> QED BY <2>1, <2>2 DEF P
  <1>7. P = Nat
    <2>1. P \in SUBSET Nat
      OBVIOUS
    <2> HIDE DEF P
    <2> QED BY <1>5, <1>6, <2>1, Induction
  <1>8. S \in SUBSET S /\ S \cap T = T
    OBVIOUS
  <1>9. k[S] = g[S] + Cardinality(T)
    <2>1. Cardinality(S) \in P
      BY <1>4, <1>7, <1>8
    <2>2. k[S] = g[S] + Cardinality(S \cap T)
      BY <1>8, <2>1
    <2> QED BY <1>8, <2>2
  <1> QED BY <1>1, <1>3, <1>9 DEF h

\* Where no element counts more, the sum is not greater.
LEMMA SumNotGreater ==
    ASSUME NEW S, IsFiniteSet(S), NEW f \in [S -> Nat], NEW h \in [S -> Nat],
           \A x \in S : h[x] <= f[x]
    PROVE  /\ SumFunction(h) \in Nat /\ SumFunction(f) \in Nat
           /\ SumFunction(h) <= SumFunction(f)
  <1>1. PICK g : Adds(g, f, S) /\ SumFunction(f) = g[S]
    BY SumUnfolds
  <1>2. PICK k : Adds(k, h, S) /\ SumFunction(h) = k[S]
    BY SumUnfolds
  <1> DEFINE P == {n \in Nat : \A s \in SUBSET S : Cardinality(s) = n => k[s] <= g[s]}
  <1>3. ASSUME NEW s \in SUBSET S
        PROVE  IsFiniteSet(s) /\ Cardinality(s) \in Nat /\ g[s] \in Nat /\ k[s] \in Nat
    <2>1. IsFiniteSet(s)
      BY FS_Subset
    <2> QED BY <1>1, <1>2, <2>1, FS_CardinalityType DEF Adds
  <1>4. 0 \in P
    <2>1. ASSUME NEW s \in SUBSET S, Cardinality(s) = 0 PROVE k[s] <= g[s]
      <3>1. s = {}
        BY <1>3, <2>1, FS_EmptySet
      <3>2. k[s] = 0 /\ g[s] = 0
        BY <1>1, <1>2, <3>1 DEF Adds
      <3> QED BY <3>2
    <2> QED BY <2>1
  <1>5. ASSUME NEW n \in P PROVE n + 1 \in P
    <2>1. n \in Nat /\ \A s \in SUBSET S : Cardinality(s) = n => k[s] <= g[s]
      OBVIOUS
    <2> HIDE DEF P
    <2>2. ASSUME NEW s \in SUBSET S, Cardinality(s) = n + 1 PROVE k[s] <= g[s]
      <3> DEFINE x == AnyOf(s)
                 r == s \ {x}
      <3>1. s # {}
        BY <2>1, <2>2, OneLess
      <3>2. x \in s /\ x \in S
        BY <2>1, <2>2, OneLess
      <3>3. r \in SUBSET S /\ Cardinality(r) = n
        BY <2>1, <2>2, OneLess
      <3>4. k[s] = h[x] + k[r] /\ g[s] = f[x] + g[r]
        BY <1>1, <1>2, <3>1 DEF Adds
      <3>5. k[r] <= g[r] /\ k[r] \in Nat /\ g[r] \in Nat
        BY <1>3, <2>1, <3>3
      <3>6. h[x] <= f[x] /\ h[x] \in Nat /\ f[x] \in Nat
        BY <3>2
      <3> HIDE DEF x, r
      <3> QED BY <3>4, <3>5, <3>6
    <2> QED BY <2>1, <2>2 DEF P
  <1>6. P = Nat
    <2>1. P \in SUBSET Nat
      OBVIOUS
    <2> HIDE DEF P
    <2> QED BY <1>4, <1>5, <2>1, Induction
  <1>7. S \in SUBSET S
    OBVIOUS
  <1>8. Cardinality(S) \in P
    BY <1>3, <1>6, <1>7
  <1> QED BY <1>1, <1>2, <1>3, <1>7, <1>8
-----------------------------------------------------------------------------
(***************************************************************************)
(* What a handler publishes.                                               *)
(***************************************************************************)
Depth(out) == SumFunction([w \in Window |-> Len(out[w])])

\* The frames to the windows, each a sequence of messages, find room.
Fits(out, M) == out \in [Window -> Seq(M)] /\ Depth(out) <= MaxDepth

\* The room that is left is a number.
LEMMA RoomIsLeft ==
    ASSUME NEW M, NEW out, Fits(out, M)
    PROVE  /\ [w \in Window |-> Len(out[w])] \in [Window -> Nat]
           /\ Depth(out) \in Nat /\ Room(out) \in Nat
  <1> DEFINE f == [w \in Window |-> Len(out[w])]
  <1>1. f \in [Window -> Nat]
    BY DEF Fits
  <1> HIDE DEF f
  <1>2. SumFunction(f) \in Nat
    BY <1>1, MailboxAssumption, SumNotGreater
  <1> QED BY <1>1, <1>2, MailboxAssumption DEF f, Depth, Room, Fits

\* One more message for some windows.
Given(out, T, m) == [w \in Window |-> IF w \in T THEN Append(out[w], m) ELSE out[w]]

\* It fits where there is room for as many.
LEMMA GivenFits ==
    ASSUME NEW M, NEW m \in M, NEW out, Fits(out, M),
           NEW T \in SUBSET Window, Cardinality(T) <= Room(out)
    PROVE  Fits(Given(out, T, m), M)
  <1> DEFINE f == [w \in Window |-> Len(out[w])]
             o == Given(out, T, m)
             h == [w \in Window |-> Len(o[w])]
             k == [w \in Window |-> f[w] + IF w \in T THEN 1 ELSE 0]
  <1>1. f \in [Window -> Nat] /\ Depth(out) \in Nat /\ Depth(out) = SumFunction(f)
    BY RoomIsLeft DEF Depth
  <1>2. \A w \in Window : out[w] \in Seq(M)
    BY DEF Fits
  <1>3. o \in [Window -> Seq(M)]
    BY <1>2 DEF Given
  <1>4. ASSUME NEW w \in Window PROVE Len(o[w]) = f[w] + IF w \in T THEN 1 ELSE 0
    <2>1. out[w] \in Seq(M) /\ f[w] = Len(out[w]) /\ f[w] \in Nat
      BY <1>2
    <2>2. CASE w \in T
      <3>1. o[w] = Append(out[w], m)
        BY <2>2 DEF Given
      <3> HIDE DEF f, o
      <3> QED BY <2>1, <2>2, <3>1
    <2>3. CASE w \notin T
      <3>1. o[w] = out[w]
        BY <2>3 DEF Given
      <3> HIDE DEF f, o
      <3> QED BY <2>1, <2>3, <3>1
    <2> QED BY <2>2, <2>3
  <1> HIDE DEF f, o
  <1>5. h = k
    BY <1>4
  <1>6. SumFunction(k) = SumFunction(f) + Cardinality(T)
    BY <1>1, MailboxAssumption, SumOfMarked
  <1>7. Cardinality(T) \in Nat
    BY MailboxAssumption, FS_Subset, FS_CardinalityType
  <1>8. Cardinality(T) <= MaxDepth - Depth(out)
    BY DEF Room, Depth
  <1>9. Depth(o) = Depth(out) + Cardinality(T)
    BY <1>1, <1>5, <1>6 DEF Depth
  <1> HIDE DEF h, k
  <1>10. Depth(o) <= MaxDepth
    BY <1>1, <1>7, <1>8, <1>9, MailboxAssumption
  <1> QED BY <1>3, <1>10 DEF Fits, o

\* A handler's record after it published: it goes on with at most one more
\* message for each window, or it threw.
Published(e, r, m, M) ==
    \/ r = e
    \/ r = [e EXCEPT !.ok = FALSE]
    \/ \E T \in SUBSET Window, ok \in BOOLEAN :
          /\ r = [e EXCEPT !.out = Given(e.out, T, m), !.ok = ok]
          /\ Fits(Given(e.out, T, m), M)

\* A broadcast reaches as many windows as there is room for.
LEMMA BroadcastPublishes ==
    ASSUME NEW M, NEW m \in M, NEW e, Fits(e.out, M), e.to \in Seq(Window)
    PROVE  Published(e, Broadcast(e, m), m, M)
  <1> DEFINE J == {j \in DOMAIN e.to : j <= Room(e.out)}
             told == {e.to[i] : i \in J}
             ok == Len(e.to) <= Room(e.out)
  <1>1. Room(e.out) \in Nat /\ Len(e.to) \in Nat /\ DOMAIN e.to = 1 .. Len(e.to)
    BY RoomIsLeft
  <1>2. told \in SUBSET Window
    BY <1>1, ElementOfSeq
  <1>3. Cardinality(told) <= Room(e.out)
    <2> DEFINE s == [i \in J |-> e.to[i]]
    <2>1. J \in SUBSET (1 .. Room(e.out))
      BY <1>1
    <2>2. IsFiniteSet(1 .. Room(e.out)) /\ Cardinality(1 .. Room(e.out)) = Room(e.out)
      BY <1>1, FS_Interval
    <2>3. IsFiniteSet(J) /\ Cardinality(J) <= Room(e.out)
      BY <2>1, <2>2, FS_Subset
    <2>4. s \in Surjection(J, told)
      BY DEF Surjection
    <2>5. IsFiniteSet(told) /\ Cardinality(told) <= Cardinality(J)
      <3> HIDE DEF s, J, told
      <3> QED BY <2>3, <2>4, FS_Surjection
    <2>6. Cardinality(told) \in Nat /\ Cardinality(J) \in Nat
      BY <2>3, <2>5, FS_CardinalityType
    <2> HIDE DEF J, told
    <2> QED BY <1>1, <2>3, <2>5, <2>6
  <1>4. Fits(Given(e.out, told, m), M)
    <2> HIDE DEF told
    <2> QED BY <1>2, <1>3, GivenFits
  <1>5. CASE ~e.ok
    BY <1>5 DEF Broadcast, Published
  <1>6. CASE e.ok
    <2>1. Broadcast(e, m) = [e EXCEPT !.out = Given(e.out, told, m), !.ok = ok]
      BY <1>6 DEF Broadcast, Given
    <2>2. ok \in BOOLEAN
      OBVIOUS
    <2> HIDE DEF told, ok
    <2> QED BY <1>2, <1>4, <2>1, <2>2, Zenon DEF Published
  <1> QED BY <1>5, <1>6

\* A message for one window is published, dropped, or throws.
LEMMA SendPublishes ==
    ASSUME NEW M, NEW m \in M, NEW e, Fits(e.out, M), NEW w \in Window, e.ok \in BOOLEAN
    PROVE  /\ Send(e, w, m) = e \/ Send(e, w, m) = [e EXCEPT !.ok = FALSE]
              \/ /\ Send(e, w, m) = [e EXCEPT !.out = Given(e.out, {w}, m)]
                 /\ Fits(Given(e.out, {w}, m), M)
  <1>1. Room(e.out) \in Nat
    BY RoomIsLeft
  <1>2. CASE ~e.ok \/ ~Contains(e.to, w)
    BY <1>2 DEF Send
  <1>3. CASE e.ok /\ Contains(e.to, w) /\ Room(e.out) = 0
    BY <1>3 DEF Send
  <1>4. CASE e.ok /\ Contains(e.to, w) /\ Room(e.out) # 0
    <2>1. Send(e, w, m) = [e EXCEPT !.out[w] = Append(@, m)]
      BY <1>4 DEF Send
    <2>2. [e.out EXCEPT ![w] = Append(e.out[w], m)] = Given(e.out, {w}, m)
      BY DEF Given, Fits
    <2>3. Send(e, w, m) = [e EXCEPT !.out = Given(e.out, {w}, m)]
      BY <2>1, <2>2
    <2>6. Cardinality({w}) = 1
      BY FS_Singleton, Zenon
    <2>4. Cardinality({w}) <= Room(e.out)
      BY <1>1, <1>4, <2>6
    <2>5. Fits(Given(e.out, {w}, m), M)
      BY <2>4, GivenFits
    <2> QED BY <2>3, <2>5
  <1> QED BY <1>2, <1>3, <1>4
-----------------------------------------------------------------------------
(***************************************************************************)
(* The mailbox with requests F and messages M.                             *)
(***************************************************************************)
PlayersOK == players \in Seq(Window) /\ IsInjective(players)
RequestsOK(F) == requests \in Seq(F) /\ Len(requests) <= MaxDepth
WindowsOK == window \in [Window -> {"new", "open", "aborted", "closed"}]
Held(F, M) == PlayersOK /\ RequestsOK(F) /\ WindowsOK /\ Fits(responses, M)

\* It is what the type invariant of the mailbox says, and the frames.
LEMMA HeldIsTyped ==
    ASSUME NEW F, NEW M, Held(F, M)
    PROVE  MailboxTypeOK
  BY DEF Held, MailboxTypeOK, PlayersOK, RequestsOK, WindowsOK, Fits, Depth

\* At the start there is no frame, and no window is registered.
LEMMA InitHeld ==
    ASSUME NEW F, NEW M, MailboxInit
    PROVE  Held(F, M)
  <1>1. PlayersOK
    BY DEF MailboxInit, PlayersOK, IsInjective
  <1>2. RequestsOK(F) /\ WindowsOK
    BY MailboxAssumption DEF MailboxInit, RequestsOK, WindowsOK
  <1>3. Fits(responses, M)
    <2> DEFINE f == [w \in Window |-> 0]
               h == [w \in Window |-> f[w] + IF w \in Window THEN 1 ELSE 0]
    <2>1. responses = [w \in Window |-> <<>>] /\ responses \in [Window -> Seq(M)]
      BY DEF MailboxInit
    <2>2. [w \in Window |-> Len(responses[w])] = f
      <3>1. \A w \in Window : Len(responses[w]) = 0
        BY <2>1
      <3> QED BY <3>1
    <2>3. SumFunction(f) = 0
      <3>1. f \in [Window -> Nat]
        OBVIOUS
      <3>2. PICK g : Adds(g, f, Window) /\ SumFunction(f) = g[Window]
        BY <3>1, MailboxAssumption, SumUnfolds
      <3> DEFINE P == {n \in Nat : \A s \in SUBSET Window : Cardinality(s) = n => g[s] = 0}
      <3>3. ASSUME NEW s \in SUBSET Window PROVE IsFiniteSet(s) /\ Cardinality(s) \in Nat
        BY MailboxAssumption, FS_Subset, FS_CardinalityType
      <3>4. 0 \in P
        <4>1. ASSUME NEW s \in SUBSET Window, Cardinality(s) = 0 PROVE g[s] = 0
          <5>1. s = {}
            BY <3>3, <4>1, FS_EmptySet
          <5> QED BY <3>2, <5>1 DEF Adds
        <4> QED BY <4>1
      <3>5. ASSUME NEW n \in P PROVE n + 1 \in P
        <4>1. n \in Nat /\ \A s \in SUBSET Window : Cardinality(s) = n => g[s] = 0
          OBVIOUS
        <4> HIDE DEF P
        <4>2. ASSUME NEW s \in SUBSET Window, Cardinality(s) = n + 1 PROVE g[s] = 0
          <5>1. /\ s # {} /\ AnyOf(s) \in Window
                /\ s \ {AnyOf(s)} \in SUBSET Window /\ Cardinality(s \ {AnyOf(s)}) = n
            BY <4>1, <4>2, MailboxAssumption, OneLess
          <5>2. g[s] = f[AnyOf(s)] + g[s \ {AnyOf(s)}]
            BY <3>2, <5>1 DEF Adds
          <5>3. f[AnyOf(s)] = 0 /\ g[s \ {AnyOf(s)}] = 0
            BY <4>1, <5>1
          <5> QED BY <5>2, <5>3
        <4> QED BY <4>1, <4>2 DEF P
      <3>6. P = Nat
        <4>1. P \in SUBSET Nat
          OBVIOUS
        <4> HIDE DEF P
        <4> QED BY <3>4, <3>5, <4>1, Induction
      <3>7. Window \in SUBSET Window /\ Cardinality(Window) \in P
        BY <3>3, <3>6
      <3> QED BY <3>2, <3>7
    <2> QED BY <2>1, <2>2, <2>3, MailboxAssumption DEF Fits, Depth
  <1> QED BY <1>1, <1>2, <1>3 DEF Held

\* Frames are posted where they find room.
LEMMA PostingKeeps ==
    ASSUME NEW F, RequestsOK(F), NEW frames \in Seq(F)
    PROVE  /\ requests \o Fitting(frames) \in Seq(F)
           /\ Len(requests \o Fitting(frames)) <= MaxDepth
  <1>1. requests \in Seq(F) /\ Len(requests) \in Nat /\ Len(frames) \in Nat /\ MaxDepth \in Nat
    BY MailboxAssumption DEF RequestsOK
  <1>2. CASE CanPost(Len(frames))
    <2>1. Fitting(frames) = frames /\ Len(requests) + Len(frames) <= MaxDepth
      BY <1>2 DEF Fitting, CanPost
    <2> QED BY <1>1, <2>1, ConcatProperties
  <1>3. CASE ~CanPost(Len(frames))
    <2> DEFINE n == MaxDepth - Len(requests)
    <2>1. n \in Nat /\ n < Len(frames)
      BY <1>1, <1>3 DEF CanPost, RequestsOK
    <2>2. \A i \in 1 .. n : frames[i] \in F
      BY <1>1, <2>1, ElementOfSeq
    <2>3. SubSeq(frames, 1, n) \in Seq(F) /\ Len(SubSeq(frames, 1, n)) = n
      <3> HIDE DEF n
      <3> QED BY <2>1, <2>2, SubSeqProperties
    <2>4. Fitting(frames) = SubSeq(frames, 1, n)
      BY <1>3 DEF Fitting
    <2> QED BY <1>1, <2>3, <2>4, ConcatProperties
  <1> QED BY <1>2, <1>3

\* A frame is posted where it finds room.
LEMMA PostingIfRoomKeeps ==
    ASSUME NEW F, NEW rs \in Seq(F), Len(rs) <= MaxDepth, NEW frame \in F
    PROVE  PostedIfRoom(rs, frame) \in Seq(F) /\ Len(PostedIfRoom(rs, frame)) <= MaxDepth
  <1>1. CASE Len(rs) < MaxDepth
    BY <1>1, MailboxAssumption DEF PostedIfRoom
  <1>2. CASE ~(Len(rs) < MaxDepth)
    BY <1>2 DEF PostedIfRoom
  <1> QED BY <1>1, <1>2

\* Responses that are read, dropped or removed make room.
LEMMA DroppingKeeps ==
    ASSUME NEW M, Fits(responses, M), NEW w \in Window, NEW s \in Seq(M),
           Len(s) <= Len(responses[w])
    PROVE  Fits([responses EXCEPT ![w] = s], M)
  <1> DEFINE o == [responses EXCEPT ![w] = s]
             f == [v \in Window |-> Len(responses[v])]
             h == [v \in Window |-> Len(o[v])]
  <1>1. o \in [Window -> Seq(M)]
    BY DEF Fits
  <1>2. \A v \in Window : o[v] = IF v = w THEN s ELSE responses[v]
    BY DEF Fits
  <1> HIDE DEF o
  <1>3. f \in [Window -> Nat] /\ h \in [Window -> Nat] /\ \A v \in Window : h[v] <= f[v]
    <2>1. \A v \in Window : /\ responses[v] \in Seq(M) /\ Len(responses[v]) \in Nat
                              /\ o[v] \in Seq(M) /\ Len(o[v]) \in Nat
      BY <1>1 DEF Fits
    <2>2. \A v \in Window : Len(o[v]) <= Len(responses[v])
      BY <1>2, <2>1
    <2>3. \A v \in Window : f[v] = Len(responses[v]) /\ h[v] = Len(o[v])
      OBVIOUS
    <2>4. f = [v \in Window |-> f[v]] /\ h = [v \in Window |-> h[v]]
      OBVIOUS
    <2> HIDE DEF f, h
    <2> QED BY <2>1, <2>2, <2>3, <2>4
  <1> HIDE DEF f, h
  <1>4. SumFunction(h) \in Nat /\ SumFunction(f) \in Nat /\ SumFunction(h) <= SumFunction(f)
    BY <1>3, MailboxAssumption, SumNotGreater
  <1>5. Depth(o) = SumFunction(h) /\ SumFunction(f) <= MaxDepth
    BY DEF Depth, Fits, f, h
  <1>6. Depth(o) <= MaxDepth
    BY <1>4, <1>5, MailboxAssumption
  <1> QED BY <1>1, <1>6 DEF Fits, o

\* What windows do, what is removed and what is lost.
LEMMA WindowsKeepHeld ==
    ASSUME NEW F, NEW M, Held(F, M), NEW w \in Window, NEW frames \in Seq(F),
           \A name \in {"heartbeat", "close"} : [from |-> w, name |-> name] \in F,
           \/ Open(w, frames) \/ Heartbeat(w) \/ Received(w)
           \/ Close(w, frames) \/ CloseAborts(w, frames)
           \/ CleanupExpired(w) \/ LoseRequest \/ LoseResponse(w)
    PROVE  Held(F, M)' /\ UNCHANGED players
  <1>1. /\ requests \in Seq(F) /\ Len(requests) \in Nat /\ Len(requests) <= MaxDepth
        /\ responses \in [Window -> Seq(M)] /\ responses[w] \in Seq(M) /\ <<>> \in Seq(M)
        /\ Len(<<>>) = 0 /\ Len(responses[w]) \in Nat
    BY DEF Held, RequestsOK, Fits
  <1>2. Fits([responses EXCEPT ![w] = <<>>], M)
    <2>1. Fits(responses, M)
      BY DEF Held
    <2>2. Len(<<>>) <= Len(responses[w])
      BY <1>1
    <2>3. \A s \in Seq(M) : Len(s) <= Len(responses[w]) => Fits([responses EXCEPT ![w] = s], M)
      BY <2>1, DroppingKeeps
    <2> QED BY <1>1, <2>2, <2>3
  <1>3. responses[w] # <<>> => Fits([responses EXCEPT ![w] = Tail(@)], M)
    <2>1. responses[w] # <<>> =>
            Tail(responses[w]) \in Seq(M) /\ Len(Tail(responses[w])) <= Len(responses[w])
      BY <1>1, HeadTailProperties
    <2> QED BY <2>1, DroppingKeeps DEF Held
  <1>4. requests # <<>> => Tail(requests) \in Seq(F) /\ Len(Tail(requests)) <= MaxDepth
    BY <1>1, HeadTailProperties, MailboxAssumption
  <1>5. CASE Heartbeat(w)
    BY <1>1, <1>5, PostingIfRoomKeeps DEF Heartbeat, Held, PlayersOK, RequestsOK, WindowsOK
  <1>6. CASE Received(w)
    BY <1>2, <1>6 DEF Received, Held, PlayersOK, RequestsOK, WindowsOK
  <1>7. CASE Close(w, frames)
    <2>1. requests \o frames \in Seq(F) /\ Len(requests \o frames) <= MaxDepth
      BY <1>1, <1>7, ConcatProperties DEF Close, CanPost
    <2>2. RequestsOK(F)'
      BY <1>7, <2>1, PostingIfRoomKeeps DEF Close, RequestsOK
    <2>3. WindowsOK'
      BY <1>7 DEF Close, Held, WindowsOK
    <2>4. Fits(responses', M) /\ PlayersOK' /\ UNCHANGED players
      BY <1>2, <1>7 DEF Close, Held, PlayersOK
    <2> QED BY <2>2, <2>3, <2>4 DEF Held
  <1>8. CASE CloseAborts(w, frames)
    <2>1. RequestsOK(F)'
      BY <1>8, PostingKeeps DEF CloseAborts, Held, RequestsOK
    <2>2. WindowsOK'
      BY <1>8 DEF CloseAborts, Held, WindowsOK
    <2> QED BY <1>8, <2>1, <2>2 DEF CloseAborts, Held, PlayersOK
  <1>9. CASE CleanupExpired(w)
    BY <1>3, <1>9 DEF CleanupExpired, Held, PlayersOK, RequestsOK, WindowsOK
  <1>10. CASE LoseRequest
    BY <1>4, <1>10 DEF LoseRequest, Held, PlayersOK, RequestsOK, WindowsOK
  <1>11. CASE LoseResponse(w)
    BY <1>3, <1>11 DEF LoseResponse, Held, PlayersOK, RequestsOK, WindowsOK
  <1>12. CASE Open(w, frames)
    <2> DEFINE one == [from |-> w, name |-> "heartbeat"]
    <2>1. <<one>> \in Seq(F)
      OBVIOUS
    <2>2. <<one>> \o frames \in Seq(F)
      BY <2>1, ConcatProperties
    <2>3. RequestsOK(F)'
      BY <1>12, <2>2, PostingKeeps DEF Open, Held, RequestsOK
    <2>4. WindowsOK'
      BY <1>12 DEF Open, Held, WindowsOK
    <2> QED BY <1>12, <2>3, <2>4 DEF Open, Held, PlayersOK
  <1> QED BY <1>5, <1>6, <1>7, <1>8, <1>9, <1>10, <1>11, <1>12

\* The entry takes a request: its window is registered, and who was still is.
LEMMA TakingKeeps ==
    ASSUME NEW F, RequestsOK(F), PlayersOK, WindowsOK, requests # <<>>,
           Head(requests).from \in Window, Took(Head(requests))
    PROVE  /\ RequestsOK(F)' /\ PlayersOK' /\ WindowsOK'
           /\ Contains(players', Head(requests).from)
           /\ \A v : Registered(v) => Contains(players', v)
  <1> DEFINE w == Head(requests).from
  <1>1. RequestsOK(F)' /\ WindowsOK'
    BY HeadTailProperties, MailboxAssumption DEF Took, RequestsOK, WindowsOK
  <1>2. players \in Seq(Window) /\ Len(players) \in Nat /\ DOMAIN players = 1 .. Len(players)
    BY DEF PlayersOK
  <1>3. CASE Registered(w)
    BY <1>1, <1>3 DEF Took, Seen, PlayersOK, Registered
  <1>4. CASE ~Registered(w)
    <2> DEFINE p == Append(players, w)
    <2>1. /\ p \in Seq(Window) /\ Len(p) = Len(players) + 1 /\ DOMAIN p = 1 .. Len(players) + 1
          /\ \A i \in 1 .. Len(players) : p[i] = players[i]
          /\ p[Len(players) + 1] = w
      BY <1>2
    <2>2. players' = p
      BY <1>4 DEF Took, Seen
    <2>3. \A i \in 1 .. Len(players) : players[i] # w
      BY <1>4 DEF Registered, Contains
    <2> HIDE DEF p, w
    <2>4. IsInjective(p)
      BY <1>2, <2>1, <2>3 DEF IsInjective, PlayersOK
    <2>5. Contains(p, w)
      <3>1. Len(players) + 1 \in 1 .. Len(p)
        BY <1>2, <2>1
      <3> QED BY <2>1, <3>1 DEF Contains
    <2>6. \A v : Registered(v) => Contains(p, v)
      <3>1. \A i \in 1 .. Len(players) : i \in 1 .. Len(p)
        BY <1>2, <2>1
      <3> QED BY <2>1, <3>1 DEF Contains, Registered
    <2> QED BY <1>1, <2>1, <2>2, <2>4, <2>5, <2>6 DEF PlayersOK, w
  <1> QED BY <1>3, <1>4

\* A window is removed from the list; every other that was there still is.
LEMMA WithoutKeeps ==
    ASSUME PlayersOK, NEW w, players' = Without(w)
    PROVE  PlayersOK' /\ \A v : v # w /\ Registered(v) => Contains(players', v)
  <1>1. /\ players \in Seq(Window) /\ Len(players) \in Nat /\ DOMAIN players = 1 .. Len(players)
        /\ \A i \in 1 .. Len(players) : players[i] \in Window
    BY ElementOfSeq DEF PlayersOK
  <1>2. CASE ~Registered(w)
    BY <1>2 DEF Without, PlayersOK, Registered
  <1>3. CASE Registered(w)
    <2> DEFINE i == CHOOSE i \in DOMAIN players : players[i] = w
               a == SubSeq(players, 1, i - 1)
               b == SubSeq(players, i + 1, Len(players))
    <2>1. i \in 1 .. Len(players) /\ players[i] = w
      BY <1>1, <1>3 DEF Registered, Contains
    <2>2. players' = a \o b
      BY <1>3 DEF Without, RemoveAt
    <2> HIDE DEF i
    <2>3. /\ a \in Seq(Window) /\ Len(a) = i - 1 /\ \A j \in 1 .. i - 1 : a[j] = players[j]
      BY <1>1, <2>1, SubSeqProperties
    <2>4. /\ b \in Seq(Window) /\ Len(b) = Len(players) - i
          /\ \A j \in 1 .. Len(players) - i : b[j] = players[i + j]
      <3> DEFINE n == Len(players)
                 m == i + 1
      <3>1. m \in Int /\ n \in Int /\ \A k \in m .. n : players[k] \in Window
        BY <1>1, <2>1
      <3>6. \A x, y \in Int :
              x <= y => /\ y - (x + 1) + 1 = y - x
                        /\ (IF x + 1 <= y THEN y - (x + 1) + 1 ELSE 0) = y - x
        OBVIOUS
      <3>7. i \in Int /\ n \in Int /\ i <= n
        BY <1>1, <2>1
      <3>2. n - m + 1 = n - i /\ (IF m <= n THEN n - m + 1 ELSE 0) = n - i
        BY <3>6, <3>7
      <3>3. \A j \in 1 .. n - i : m + j - 1 = i + j
        BY <1>1, <2>1
      <3> HIDE DEF m, n
      <3>4. /\ SubSeq(players, m, n) \in Seq(Window)
            /\ Len(SubSeq(players, m, n)) = IF m <= n THEN n - m + 1 ELSE 0
            /\ \A j \in 1 .. n - m + 1 : SubSeq(players, m, n)[j] = players[m + j - 1]
        BY <3>1, SubSeqProperties
      <3>5. b = SubSeq(players, m, n)
        BY DEF m, n
      <3> HIDE DEF b
      <3> QED BY <3>2, <3>3, <3>4, <3>5 DEF n
    <2> HIDE DEF a, b
    <2>5. /\ a \o b \in Seq(Window) /\ Len(a \o b) = Len(players) - 1
          /\ \A j \in 1 .. Len(players) - 1 :
                (a \o b)[j] = IF j < i THEN players[j] ELSE players[j + 1]
      <3>1. /\ a \o b \in Seq(Window) /\ Len(a \o b) = Len(a) + Len(b)
            /\ \A j \in 1 .. Len(a) + Len(b) :
                  (a \o b)[j] = IF j <= Len(a) THEN a[j] ELSE b[j - Len(a)]
        BY <2>3, <2>4, ConcatProperties
      <3>2. ASSUME NEW j \in 1 .. Len(players) - 1
            PROVE  (a \o b)[j] = IF j < i THEN players[j] ELSE players[j + 1]
        <4>1. CASE j < i
          BY <1>1, <2>1, <2>3, <2>4, <3>1, <4>1
        <4>2. CASE ~(j < i)
          <5>1. j - (i - 1) \in 1 .. Len(players) - i /\ i + (j - (i - 1)) = j + 1
            BY <1>1, <2>1, <4>2
          <5>2. (a \o b)[j] = b[j - (i - 1)]
            BY <1>1, <2>1, <2>3, <2>4, <3>1, <4>2
          <5>3. b[j - (i - 1)] = players[j + 1]
            BY <2>4, <5>1
          <5> QED BY <4>2, <5>2, <5>3
        <4> QED BY <4>1, <4>2
      <3> QED BY <1>1, <2>1, <2>3, <2>4, <3>1, <3>2
    <2>6. IsInjective(a \o b)
      <3>1. DOMAIN (a \o b) = 1 .. Len(players) - 1
        BY <2>5
      <3>2. \A j, k \in 1 .. Len(players) : players[j] = players[k] => j = k
        BY <1>1 DEF PlayersOK, IsInjective
      <3>3. ASSUME NEW j \in 1 .. Len(players) - 1, NEW k \in 1 .. Len(players) - 1,
                   (a \o b)[j] = (a \o b)[k]
            PROVE  j = k
        <4>1. /\ (a \o b)[j] = players[IF j < i THEN j ELSE j + 1]
              /\ (a \o b)[k] = players[IF k < i THEN k ELSE k + 1]
          BY <2>5
        <4> DEFINE p == IF j < i THEN j ELSE j + 1
                   q == IF k < i THEN k ELSE k + 1
        <4>3. p \in 1 .. Len(players) /\ q \in 1 .. Len(players)
          BY <1>1
        <4>4. players[p] = players[q]
          BY <3>3, <4>1
        <4>5. p = q
          <5> HIDE DEF p, q
          <5> QED BY <3>2, <4>3, <4>4
        <4>2. (IF j < i THEN j ELSE j + 1) = (IF k < i THEN k ELSE k + 1)
          BY <4>5
        <4> QED BY <1>1, <2>1, <4>2
      <3> QED BY <3>1, <3>3 DEF IsInjective
    <2>7. ASSUME NEW v, v # w, Registered(v) PROVE Contains(a \o b, v)
      <3>1. PICK j \in 1 .. Len(players) : players[j] = v
        BY <2>7 DEF Registered, Contains
      <3>2. j # i
        BY <2>1, <2>7, <3>1
      <3>3. CASE j < i
        <4>1. j \in 1 .. Len(players) - 1 /\ (a \o b)[j] = v
          BY <1>1, <2>1, <2>5, <3>1, <3>3
        <4> QED BY <2>5, <4>1 DEF Contains
      <3>4. CASE j > i
        <4>1. j - 1 \in 1 .. Len(players) - 1 /\ ~(j - 1 < i) /\ (j - 1) + 1 = j
          BY <1>1, <2>1, <3>4
        <4>2. (a \o b)[j - 1] = v
          BY <2>5, <3>1, <4>1
        <4> QED BY <2>5, <4>1, <4>2 DEF Contains
      <3> QED BY <1>1, <2>1, <3>2, <3>3, <3>4
    <2> QED BY <2>2, <2>5, <2>6, <2>7 DEF PlayersOK
  <1> QED BY <1>2, <1>3

\* The entry hears that a window closed, or nothing for too long.
LEMMA LeavingKeeps ==
    ASSUME NEW F, RequestsOK(F), PlayersOK, WindowsOK, NEW w, TookClose(w) \/ Expired(w)
    PROVE  /\ RequestsOK(F)' /\ PlayersOK' /\ WindowsOK'
           /\ \A v : v # w /\ Registered(v) => Contains(players', v)
  <1>1. players' = Without(w) /\ WindowsOK'
    BY DEF TookClose, Expired, WindowsOK
  <1>2. RequestsOK(F)'
    <2>1. CASE TookClose(w)
      BY <2>1, HeadTailProperties, MailboxAssumption DEF TookClose, IsRequest, RequestsOK
    <2>2. CASE Expired(w)
      BY <2>2 DEF Expired, RequestsOK
    <2> QED BY <2>1, <2>2
  <1> QED BY <1>1, <1>2, WithoutKeeps
-----------------------------------------------------------------------------
(***************************************************************************)
(* The inductive invariant.                                                *)
(***************************************************************************)
Value(f) == IF f = "fontColor" THEN Color ELSE Families
Intent == {i \in [id : Id, field : Field, value : Color \cup Families, seq : Nat] :
             i.value \in Value(i.field)}
StyleState ==
    [live : Style, committed : Style, rev : Nat, intent : Nat, font : Font,
     interactions : SUBSET Intent, invalid : SUBSET Id, latest : [Field -> Nat]]
Distinct(a) == \A i, j \in a.interactions : i.id = j.id => i = j
PositionState == [live : Position, committed : Position, intent : Nat, revision : Nat]
Picture == [live : Style, committed : Style, font : Font, rev : Nat]
Message == [name : {"style"}, state : Picture] \cup [name : {"position"}, state : PositionState]

Request ==
    [from : Window, name : {"heartbeat", "close", "test-cancel", "picker-cancel",
                            "style-get", "position-get"}]
      \cup [from : Window, name : {"position-preview", "position-save"}, value : Position]
      \cup [from : Window, name : {"edit-preview", "edit-commit"}, id : Id, value : Color]
      \cup [from : Window, name : {"picker-open"}, id : Id, value : {"font", "color"}]

Session == [id : Id, owner : Window, kind : {"font", "color"}, previewed : Color \cup {None}]
Opening == [id : Id, owner : Window, kind : {"font", "color"},
            step : {"start", "ready", "failed", "call"}]
Closed == {v \in [id : Id, type : {"color-closed"}, changed : BOOLEAN, value : Color \cup {None}] :
             v.changed => v.value \in Color}
Event ==
    [id : {None}, type : {"font-catalog-changed"}]
      \cup [id : Id, type : {"color-preview"}, value : Color] \cup Closed
      \cup [id : Id, type : {"font-confirmed"}, value : Families]
      \cup [id : Id, type : {"font-cancelled"}]
PanelState == [id : Id, kind : {"font", "color"}, color : Color \cup {None}]
Process == [alive : BOOLEAN, active : Id \cup {None}, panel : PanelState \cup {None},
            cancelling : SUBSET Id, events : Seq(Event), lost : BOOLEAN]

\* What a window draws is what it follows, unless its user has changed it since.
Followed ==
    {x \in [style : Picture \cup {None}, drawn : Style, edited : BOOLEAN,
            position : PositionState, at : Position, moved : BOOLEAN] :
       (~x.edited => x.drawn = Effective(x.style)) /\ (~x.moved => x.at = x.position.live)}

PickerTyped ==
    /\ opening \subseteq Opening /\ client \in BOOLEAN /\ launching \in BOOLEAN
    /\ asked \in [{"start", "poll"} -> Families \cup {"idle"}]
    /\ batch \in Seq(Event)
NativeTyped ==
    /\ helper \in Process /\ Len(helper.events) <= EventCapacity
    /\ calls \subseteq [id : Id, tells : BOOLEAN]
CountersTyped == acts \in 0 .. MaxActs /\ faults \in 0 .. MaxFaults

\* What a handler works on.
Work == [style : StyleState, position : PositionState,
         stored : [style : Style, position : Position], active : Session \cup {None},
         out : [Window -> Seq(Message)], to : Seq(Window), ok : BOOLEAN]

\* The styles and the positions that windows follow or are about to receive.
StyleIsOut(out, p) ==
    \/ p # None /\ \E w \in Window : p = follower[w].style
    \/ \E w \in Window : \E i \in 1 .. Len(out[w]) : out[w][i] = [name |-> "style", state |-> p]
PositionIsOut(out, p) ==
    \/ p # Unplaced /\ \E w \in Window : p = follower[w].position
    \/ \E w \in Window : \E i \in 1 .. Len(out[w]) : out[w][i] = [name |-> "position", state |-> p]

Agree(one, other) == one.rev = other.rev => one = other
AgreePosition(one, other) ==
    one.intent = other.intent /\ one.revision = other.revision => one.live = other.live

StylesAgree(out, a) ==
    /\ \A p \in Picture : StyleIsOut(out, p) => p.rev <= a.rev /\ Agree(p, Snapshot(a))
    /\ \A p, q \in Picture : StyleIsOut(out, p) /\ StyleIsOut(out, q) => Agree(p, q)
PositionsAgree(out, s) ==
    /\ \A p \in PositionState : PositionIsOut(out, p) =>
          p.intent <= s.intent /\ p.revision <= s.revision /\ AgreePosition(p, s)
    /\ \A p, q \in PositionState :
          PositionIsOut(out, p) /\ PositionIsOut(out, q) => AgreePosition(p, q)

Good(e) ==
    /\ e \in Work /\ Distinct(e.style) /\ Fits(e.out, Message)
    /\ e.stored = [style |-> e.style.committed, position |-> e.position.committed]
    /\ e.active # None => Contains(e.to, e.active.owner)
    /\ StylesAgree(e.out, e.style) /\ PositionsAgree(e.out, e.position)

SharedInv ==
    /\ PlayersOK /\ RequestsOK(Request) /\ WindowsOK
    /\ Good(Entry(players)) /\ follower \in [Window -> Followed]
    /\ PickerTyped /\ NativeTyped /\ CountersTyped
-----------------------------------------------------------------------------
(***************************************************************************)
(* A window follows one message after the other.                           *)
(***************************************************************************)
\* What holds at first, and after every message if it held before, holds at the
\* end.
LEMMA FoldFollow ==
    ASSUME NEW n \in Nat, NEW ms, DOMAIN ms = 1 .. n, NEW own, NEW redraws, NEW X, own \in X,
           \A x \in X, i \in 1 .. n : Follow(x, ms[i], redraws) \in X
    PROVE  FollowAll(own, ms, redraws) \in X
  <1> DEFINE value(g, s) == IF s = {} THEN own ELSE Follow(g[s \ {Max(s)}], ms[Max(s)], redraws)
             Iter(g) == g = [s \in SUBSET (1 .. n) |-> value(g, s)]
             G == CHOOSE g : Iter(g)
  <1>1. FollowAll(own, ms, redraws) = G[1 .. n]
    BY DEF FollowAll, FoldLeft, MapThenFoldSet
  <1>2. ASSUME NEW k \in Nat, NEW s \in SUBSET (1 .. k + 1), k + 1 \in s
        PROVE  Max(s) = k + 1
    <2>1. \A y \in s : y \in Nat /\ k + 1 >= y
      OBVIOUS
    <2>2. \A x \in s : (\A y \in s : x >= y) => x = k + 1
      BY <1>2, <2>1
    <2> QED BY <1>2, <2>1, <2>2 DEF Max
  <1> HIDE DEF G
  <1>3. \E g : Iter(g)
    <2> DEFINE Sol(k) == \E g \in [SUBSET (1 .. k) -> X] : \A s \in SUBSET (1 .. k) : g[s] = value(g, s)
               P == {k \in Nat : k <= n => Sol(k)}
    <2>1. 0 \in P
      <3>1. Sol(0)
        <4> DEFINE g == [s \in SUBSET (1 .. 0) |-> own]
        <4>1. 1 .. 0 = {}
          OBVIOUS
        <4>2. g \in [SUBSET (1 .. 0) -> X] /\ \A s \in SUBSET (1 .. 0) : s = {} /\ g[s] = own
          BY <4>1
        <4> QED BY <4>2
      <3> QED BY <3>1
    <2> HIDE DEF Sol
    <2>2. ASSUME NEW k \in P PROVE k + 1 \in P
      <3> SUFFICES ASSUME k + 1 <= n PROVE Sol(k + 1)
        OBVIOUS
      <3>1. k \in Nat /\ k + 1 \in 1 .. n /\ Sol(k)
        OBVIOUS
      <3> HIDE DEF P
      <3>4. PICK g \in [SUBSET (1 .. k) -> X] : \A s \in SUBSET (1 .. k) : g[s] = value(g, s)
        BY <3>1 DEF Sol
      <3> DEFINE h == [s \in SUBSET (1 .. k + 1) |->
                         IF k + 1 \in s THEN Follow(g[s \ {k + 1}], ms[k + 1], redraws) ELSE g[s]]
      <3>2. ASSUME NEW s \in SUBSET (1 .. k + 1)
            PROVE  h[s] \in X /\ h[s] = value(h, s)
        <4> USE <3>1
        <4>1. CASE k + 1 \in s
          <5>1. s \ {k + 1} \in SUBSET (1 .. k) /\ s \ {k + 1} \in SUBSET (1 .. k + 1)
            OBVIOUS
          <5>2. Max(s) = k + 1 /\ s # {}
            BY <1>2, <3>1, <4>1
          <5>3. h[s] = Follow(g[s \ {k + 1}], ms[k + 1], redraws) /\ h[s \ {k + 1}] = g[s \ {k + 1}]
            BY <4>1, <5>1
          <5>4. g[s \ {k + 1}] \in X
            BY <5>1
          <5> HIDE DEF h
          <5> QED BY <5>2, <5>3, <5>4
        <4>2. CASE k + 1 \notin s
          <5>1. s \in SUBSET (1 .. k)
            BY <4>2
          <5>2. h[s] = g[s] /\ g[s] \in X /\ g[s] = value(g, s)
            BY <3>4, <4>2, <5>1
          <5>3. \A t \in SUBSET s : h[t] = g[t]
            BY <4>2, <5>1
          <5>4. s \ {Max(s)} \in SUBSET s
            OBVIOUS
          <5>5. h[s \ {Max(s)}] = g[s \ {Max(s)}]
            BY <5>3, <5>4
          <5> HIDE DEF h
          <5> QED BY <5>2, <5>5
        <4> QED BY <4>1, <4>2
      <3>3. h \in [SUBSET (1 .. k + 1) -> X]
        <4>1. h = [s \in SUBSET (1 .. k + 1) |-> h[s]]
          OBVIOUS
        <4> HIDE DEF h
        <4> QED BY <3>2, <4>1
      <3> HIDE DEF h
      <3> QED BY <3>2, <3>3 DEF Sol
    <2>3. P = Nat
      <3>1. P \in SUBSET Nat
        OBVIOUS
      <3> HIDE DEF P
      <3> QED BY <2>1, <2>2, <3>1, Induction
    <2>4. Sol(n)
      BY <2>3
    <2>5. PICK g \in [SUBSET (1 .. n) -> X] : \A s \in SUBSET (1 .. n) : g[s] = value(g, s)
      BY <2>4 DEF Sol
    <2>6. g = [s \in SUBSET (1 .. n) |-> g[s]]
      OBVIOUS
    <2>7. Iter(g)
      BY <2>5, <2>6
    <2> QED BY <2>7
  <1>4. Iter(G)
    BY <1>3, Zenon DEF G
  <1>5. \A s \in SUBSET (1 .. n) : G[s] = value(G, s)
    BY <1>4
  <1> DEFINE P == {k \in Nat : k <= n => G[1 .. k] \in X}
  <1>6. 0 \in P
    <2>1. 1 .. 0 = {} /\ {} \in SUBSET (1 .. n)
      OBVIOUS
    <2>2. G[{}] = own
      BY <1>5, <2>1
    <2> QED BY <2>1, <2>2
  <1>7. \A k \in P : k + 1 \in P
    <2> SUFFICES ASSUME NEW k \in P, k + 1 <= n PROVE G[1 .. k + 1] \in X
      OBVIOUS
    <2>4. k \in Nat /\ G[1 .. k] \in X
      OBVIOUS
    <2> HIDE DEF P
    <2>5. k + 1 \in 1 .. k + 1 /\ k + 1 \in 1 .. n
      BY <2>4
    <2>6. (1 .. k + 1) \ {k + 1} = 1 .. k
      BY <2>4
    <2>7. 1 .. k + 1 \in SUBSET (1 .. n)
      BY <2>4
    <2>8. 1 .. k + 1 # {}
      BY <2>5
    <2>1. /\ 1 .. k + 1 \in SUBSET (1 .. n) /\ 1 .. k + 1 # {} /\ k + 1 \in 1 .. n
          /\ (1 .. k + 1) \ {k + 1} = 1 .. k
      BY <2>5, <2>6, <2>7, <2>8
    <2>2. Max(1 .. k + 1) = k + 1
      BY <1>2, <2>1, <2>4
    <2>3. G[1 .. k + 1] = Follow(G[1 .. k], ms[k + 1], redraws)
      BY <1>5, <2>1, <2>2
    <2> QED BY <2>1, <2>3, <2>4
  <1>8. P = Nat
    <2>1. P \in SUBSET Nat
      OBVIOUS
    <2> HIDE DEF P
    <2> QED BY <1>6, <1>7, <2>1, Induction
  <1> QED BY <1>1, <1>8
-----------------------------------------------------------------------------
(***************************************************************************)
(* The authority of the style.                                             *)
(***************************************************************************)
\* A later state of the authority: what it tells has changed only if its
\* revision has.
Later(a, b) ==
    /\ b \in StyleState /\ Distinct(b)
    /\ b.rev > a.rev \/ Snapshot(b) = Snapshot(a)

\* A state of the authority is its eight fields.
Whole(l, c, r, i, f, s, n, t) ==
    [live |-> l, committed |-> c, rev |-> r, intent |-> i, font |-> f,
     interactions |-> s, invalid |-> n, latest |-> t]

\* A state of the authority has these fields, of these types.
LEMMA StyleFields ==
    ASSUME NEW a \in StyleState
    PROVE  /\ a = Whole(a.live, a.committed, a.rev, a.intent, a.font,
                        a.interactions, a.invalid, a.latest)
           /\ a.live \in Style /\ a.committed \in Style /\ a.rev \in Nat /\ a.intent \in Nat
           /\ a.font \in Font /\ a.interactions \in SUBSET Intent
           /\ a.invalid \in SUBSET Id /\ a.latest \in [Field -> Nat]
  BY DEF StyleState, Whole

\* Eight fields of the right types are a state of the authority.
LEMMA WholeIsState ==
    ASSUME NEW l \in Style, NEW c \in Style, NEW r \in Nat, NEW i \in Nat, NEW f \in Font,
           NEW s \in SUBSET Intent, NEW n \in SUBSET Id, NEW t \in [Field -> Nat]
    PROVE  LET a == Whole(l, c, r, i, f, s, n, t)
           IN  /\ a \in StyleState /\ a.live = l /\ a.committed = c /\ a.rev = r /\ a.intent = i
               /\ a.font = f /\ a.interactions = s /\ a.invalid = n /\ a.latest = t
  BY DEF StyleState, Whole

\* A style with another value in a field is a style.
LEMMA StyleExcept ==
    ASSUME NEW s \in Style, NEW f \in Field, NEW v \in Value(f)
    PROVE  [s EXCEPT ![f] = v] \in Style
  BY DEF Style, Field, Value

\* preview: a new intent, or the one there is already.
LEMMA PreviewIsLater ==
    ASSUME NEW a \in StyleState, Distinct(a), NEW id \in Id, NEW f \in Field, NEW v \in Value(f)
    PROVE  LET b == Preview(a, id, f, v)
           IN  /\ Later(a, b) /\ b.committed = a.committed
               /\ \E i \in b.interactions : i.id = id
  <1> DEFINE seq == a.intent + 1
             i == [id |-> id, field |-> f, value |-> v, seq |-> seq]
             b1 == [a EXCEPT !.invalid = @ \ {id}]
             b2 == [b1 EXCEPT !.intent = seq]
             b3 == [b2 EXCEPT !.latest[f] = seq]
             b4 == [b3 EXCEPT !.live[f] = v]
             b5 == [b4 EXCEPT !.rev = @ + 1]
             b6 == [b5 EXCEPT !.interactions = {j \in @ : j.id # id} \cup {i}]
             rest == {j \in a.interactions : j.id # id}
             latest == [a.latest EXCEPT ![f] = seq]
             live == [a.live EXCEPT ![f] = v]
  <1>0. /\ a.live \in Style /\ a.committed \in Style /\ a.rev \in Nat /\ a.intent \in Nat
        /\ a.font \in Font /\ a.interactions \in SUBSET Intent
        /\ a.invalid \in SUBSET Id /\ a.latest \in [Field -> Nat]
    BY StyleFields
  <1>1. b1 = Whole(a.live, a.committed, a.rev, a.intent, a.font, a.interactions,
                   a.invalid \ {id}, a.latest)
    BY DEF Whole, StyleState
  <1>2. /\ i \in Intent /\ rest \in SUBSET Intent /\ latest \in [Field -> Nat] /\ live \in Style
        /\ a.invalid \ {id} \in SUBSET Id /\ seq \in Nat /\ a.rev + 1 \in Nat
        /\ rest \cup {i} \in SUBSET Intent
    <2>1. i \in Intent
      BY <1>0 DEF Intent, Value
    <2> HIDE DEF i
    <2> QED BY <1>0, <2>1, StyleExcept
  <1>3. CASE Existing(a, id, f, v) # {}
    <2>1. Preview(a, id, f, v) = b1
      BY <1>3 DEF Preview
    <2>2. b1 \in StyleState /\ Distinct(b1) /\ Snapshot(b1) = Snapshot(a)
      BY <1>0, <1>1, <1>2, WholeIsState DEF Distinct, Snapshot
    <2>3. b1.interactions = a.interactions /\ b1.committed = a.committed
      BY <1>1 DEF Whole
    <2>4. \E j \in a.interactions : j.id = id
      BY <1>3 DEF Existing
    <2> HIDE DEF b1
    <2> QED BY <2>1, <2>2, <2>3, <2>4 DEF Later
  <1>4. CASE Existing(a, id, f, v) = {}
    <2>1. Preview(a, id, f, v)
            = [b1 EXCEPT !.intent = i.seq, !.latest[f] = i.seq, !.live[f] = v, !.rev = @ + 1,
                         !.interactions = {j \in @ : j.id # i.id} \cup {i}]
      BY <1>4 DEF Preview
    <2>2. Preview(a, id, f, v) = b6
      BY <2>1
    <2> HIDE DEF i, b1, seq, rest
    <2>3. b2 = Whole(a.live, a.committed, a.rev, seq, a.font, a.interactions,
                     a.invalid \ {id}, a.latest)
      BY <1>1 DEF Whole
    <2> HIDE DEF b2
    <2>4. b3 = Whole(a.live, a.committed, a.rev, seq, a.font, a.interactions,
                     a.invalid \ {id}, latest)
      BY <2>3 DEF Whole
    <2> HIDE DEF b3, latest
    <2>5. b4 = Whole(live, a.committed, a.rev, seq, a.font, a.interactions,
                     a.invalid \ {id}, latest)
      BY <2>4 DEF Whole
    <2> HIDE DEF b4, live
    <2>6. b5 = Whole(live, a.committed, a.rev + 1, seq, a.font, a.interactions,
                     a.invalid \ {id}, latest)
      BY <2>5 DEF Whole
    <2> HIDE DEF b5
    <2>7. b6 = Whole(live, a.committed, a.rev + 1, seq, a.font, rest \cup {i},
                     a.invalid \ {id}, latest)
      <3>1. b5.interactions = a.interactions
        BY <2>6 DEF Whole
      <3>2. b6 = [b5 EXCEPT !.interactions = rest \cup {i}]
        BY <3>1 DEF rest
      <3> HIDE DEF b6
      <3> QED BY <2>6, <3>2 DEF Whole
    <2> HIDE DEF b6
    <2>8. /\ b6 \in StyleState /\ b6.committed = a.committed /\ b6.rev = a.rev + 1
          /\ b6.interactions = rest \cup {i}
      BY <1>0, <1>2, <2>7, WholeIsState
    <2>9. Distinct(b6) /\ \E j \in b6.interactions : j.id = id
      <3>1. i.id = id /\ i \in rest \cup {i} /\ \A j \in rest : j \in a.interactions /\ j.id # id
        BY DEF i, rest
      <3> QED BY <2>8, <3>1 DEF Distinct
    <2> QED BY <1>0, <2>2, <2>8, <2>9 DEF Later
  <1> QED BY <1>3, <1>4

\* beginCommit: an edit that is not invalid has an intent.
LEMMA BegunIsLater ==
    ASSUME NEW a \in StyleState, Distinct(a), NEW id \in Id, NEW f \in Field, NEW v \in Value(f)
    PROVE  LET b == Begun(a, id, f, v)
           IN  /\ Later(a, b) /\ b.committed = a.committed
               /\ ~Superseded(b, id, f) => IntentOf(b, id) \in b.interactions
  <1> DEFINE b == Begun(a, id, f, v)
  <1>1. CASE id \in a.invalid
    BY <1>1 DEF Begun, Superseded, Later
  <1>2. CASE id \notin a.invalid /\ Existing(a, id, f, v) # {}
    <2>1. b = a /\ \E i \in a.interactions : i.id = id
      BY <1>2 DEF Begun, Existing
    <2> QED BY <2>1 DEF Later, IntentOf
  <1>3. CASE id \notin a.invalid /\ Existing(a, id, f, v) = {}
    <2>1. b = Preview(a, id, f, v)
      BY <1>3 DEF Begun
    <2> HIDE DEF b
    <2> QED BY <2>1, PreviewIsLater DEF IntentOf, b
  <1> QED BY <1>1, <1>2, <1>3

\* commit: what is committed changes in one field.
LEMMA CommitIsLater ==
    ASSUME NEW a \in StyleState, Distinct(a), NEW i \in Intent
    PROVE  /\ Later(a, Commit(a, i))
           /\ Commit(a, i).committed = [a.committed EXCEPT ![i.field] = i.value]
           /\ [a.committed EXCEPT ![i.field] = i.value] \in Style
  <1> DEFINE b1 == [a EXCEPT !.committed[i.field] = i.value]
             b2 == [b1 EXCEPT !.live[i.field] = i.value]
             b3 == [b2 EXCEPT !.rev = @ + 1]
             b4 == [b3 EXCEPT !.interactions = {j \in @ : j.id # i.id}]
             rest == {j \in a.interactions : j.id # i.id}
             c == [a.committed EXCEPT ![i.field] = i.value]
             live == [a.live EXCEPT ![i.field] = i.value]
  <1>0. /\ a.live \in Style /\ a.committed \in Style /\ a.rev \in Nat /\ a.intent \in Nat
        /\ a.font \in Font /\ a.interactions \in SUBSET Intent
        /\ a.invalid \in SUBSET Id /\ a.latest \in [Field -> Nat]
    BY StyleFields
  <1>1. b1 = Whole(a.live, c, a.rev, a.intent, a.font, a.interactions, a.invalid, a.latest)
    BY DEF Whole, StyleState
  <1>2. live \in Style /\ c \in Style /\ rest \in SUBSET Intent /\ a.rev + 1 \in Nat
    <2>1. i.field \in Field /\ i.value \in Value(i.field)
      BY DEF Intent
    <2> QED BY <1>0, <2>1, StyleExcept
  <1>3. Commit(a, i) = b4
    BY DEF Commit
  <1> HIDE DEF b1, c
  <1>4. b2 = Whole(live, c, a.rev, a.intent, a.font, a.interactions, a.invalid, a.latest)
    BY <1>1 DEF Whole
  <1> HIDE DEF b2, live
  <1>5. b3 = Whole(live, c, a.rev + 1, a.intent, a.font, a.interactions, a.invalid, a.latest)
    BY <1>4 DEF Whole
  <1> HIDE DEF b3
  <1>6. b4 = Whole(live, c, a.rev + 1, a.intent, a.font, rest, a.invalid, a.latest)
    <2>1. b3.interactions = a.interactions
      BY <1>5 DEF Whole
    <2>2. b4 = [b3 EXCEPT !.interactions = rest]
      BY <2>1
    <2> HIDE DEF b4, rest
    <2> QED BY <1>5, <2>2 DEF Whole
  <1> HIDE DEF b4, rest
  <1>7. /\ b4 \in StyleState /\ b4.committed = c /\ b4.rev = a.rev + 1 /\ b4.interactions = rest
    BY <1>0, <1>2, <1>6, WholeIsState
  <1>8. Distinct(b4)
    BY <1>7 DEF Distinct, rest
  <1> QED BY <1>0, <1>2, <1>3, <1>7, <1>8 DEF Later, c

\* fail: what is committed stays.
LEMMA FailIsLater ==
    ASSUME NEW a \in StyleState, Distinct(a), NEW i \in Intent
    PROVE  Later(a, Fail(a, i)) /\ Fail(a, i).committed = a.committed
  <1>0. /\ a.live \in Style /\ a.committed \in Style /\ a.rev \in Nat /\ a.intent \in Nat
        /\ a.font \in Font /\ a.interactions \in SUBSET Intent
        /\ a.invalid \in SUBSET Id /\ a.latest \in [Field -> Nat]
    BY StyleFields
  <1>1. CASE a.latest[i.field] # i.seq
    BY <1>1 DEF Fail, Later
  <1>2. CASE a.latest[i.field] = i.seq
    <2> DEFINE invalid == a.invalid \cup {j.id : j \in a.interactions}
               latest == [f \in Field |-> 0]
               font == [a.font EXCEPT !.preferred = a.committed.fontFamily]
               b1 == [a EXCEPT !.invalid = @ \cup {j.id : j \in a.interactions}]
               b2 == [b1 EXCEPT !.interactions = {}]
               b3 == [b2 EXCEPT !.latest = latest]
               b4 == [b3 EXCEPT !.live = a.committed]
               b5 == [b4 EXCEPT !.rev = @ + 1]
               b6 == [b5 EXCEPT !.font.preferred = a.committed.fontFamily]
    <2>1. Fail(a, i) = b6
      BY <1>2 DEF Fail
    <2>2. invalid \in SUBSET Id /\ latest \in [Field -> Nat] /\ a.rev + 1 \in Nat
      BY <1>0 DEF Intent
    <2>3. font \in Font
      <3>1. a.committed.fontFamily \in Families
        BY <1>0 DEF Style
      <3> QED BY <1>0, <3>1 DEF Font
    <2>4. b1 = Whole(a.live, a.committed, a.rev, a.intent, a.font, a.interactions, invalid, a.latest)
      <3>1. b1 = [a EXCEPT !.invalid = invalid]
        OBVIOUS
      <3> HIDE DEF b1, invalid
      <3> QED BY <3>1 DEF Whole, StyleState
    <2> HIDE DEF b1, invalid
    <2>5. b2 = Whole(a.live, a.committed, a.rev, a.intent, a.font, {}, invalid, a.latest)
      BY <2>4 DEF Whole
    <2> HIDE DEF b2
    <2>6. b3 = Whole(a.live, a.committed, a.rev, a.intent, a.font, {}, invalid, latest)
      <3> HIDE DEF latest
      <3> QED BY <2>5 DEF Whole
    <2> HIDE DEF b3, latest
    <2>7. b4 = Whole(a.committed, a.committed, a.rev, a.intent, a.font, {}, invalid, latest)
      BY <2>6 DEF Whole
    <2> HIDE DEF b4
    <2>8. b5 = Whole(a.committed, a.committed, a.rev + 1, a.intent, a.font, {}, invalid, latest)
      BY <2>7 DEF Whole
    <2> HIDE DEF b5
    <2>9. b6 = Whole(a.committed, a.committed, a.rev + 1, a.intent, font, {}, invalid, latest)
      BY <2>8 DEF Whole
    <2> HIDE DEF b6, font
    <2>10. b6 \in StyleState /\ b6.committed = a.committed /\ b6.rev = a.rev + 1 /\ b6.interactions = {}
      BY <1>0, <2>2, <2>3, <2>9, WholeIsState
    <2> QED BY <1>0, <2>1, <2>10 DEF Later, Distinct
  <1> QED BY <1>1, <1>2

\* updateFontAvailability.
LEMMA UpdateFontIsLater ==
    ASSUME NEW a \in StyleState, Distinct(a), NEW family \in Families,
           NEW availability \in {"available", "unavailable", "unknown"}
    PROVE  /\ Later(a, UpdateFont(a, family, availability))
           /\ UpdateFont(a, family, availability).committed = a.committed
  <1> DEFINE font == [preferred |-> family, availability |-> availability]
             b1 == [a EXCEPT !.font = font]
             b2 == [b1 EXCEPT !.rev = @ + 1]
  <1>0. /\ a.live \in Style /\ a.committed \in Style /\ a.rev \in Nat /\ a.intent \in Nat
        /\ a.font \in Font /\ a.interactions \in SUBSET Intent
        /\ a.invalid \in SUBSET Id /\ a.latest \in [Field -> Nat]
    BY StyleFields
  <1>1. UpdateFont(a, family, availability) = b2
    BY DEF UpdateFont
  <1>2. font \in Font
    BY DEF Font
  <1> HIDE DEF font
  <1>3. b1 = Whole(a.live, a.committed, a.rev, a.intent, font, a.interactions, a.invalid, a.latest)
    BY DEF Whole, StyleState
  <1> HIDE DEF b1
  <1>4. b2 = Whole(a.live, a.committed, a.rev + 1, a.intent, font, a.interactions, a.invalid, a.latest)
    BY <1>3 DEF Whole
  <1> HIDE DEF b2
  <1>5. a.rev + 1 \in Nat
    BY <1>0
  <1>6. /\ b2 \in StyleState /\ b2.committed = a.committed /\ b2.rev = a.rev + 1
        /\ b2.interactions = a.interactions
    BY <1>0, <1>2, <1>4, <1>5, WholeIsState
  <1> QED BY <1>0, <1>1, <1>6 DEF Later, Distinct
-----------------------------------------------------------------------------
(***************************************************************************)
(* A handler's record.                                                     *)
(***************************************************************************)
Sheet(st, po, so, ac, ou, to, ok) ==
    [style |-> st, position |-> po, stored |-> so, active |-> ac, out |-> ou, to |-> to, ok |-> ok]

\* What both authorities have committed is what is stored.
Committing(a, s) == [style |-> a.committed, position |-> s.committed]

\* It is its seven fields.
LEMMA GoodFields ==
    ASSUME NEW e, Good(e)
    PROVE  /\ e = Sheet(e.style, e.position, e.stored, e.active, e.out, e.to, e.ok)
           /\ e.style \in StyleState /\ Distinct(e.style) /\ e.position \in PositionState
           /\ e.stored = Committing(e.style, e.position)
           /\ e.active \in Session \cup {None}
           /\ e.active # None => Contains(e.to, e.active.owner)
           /\ e.to \in Seq(Window) /\ e.ok \in BOOLEAN
           /\ Fits(e.out, Message) /\ StylesAgree(e.out, e.style) /\ PositionsAgree(e.out, e.position)
  BY DEF Good, Work, Sheet, Committing

\* Seven fields that go together are a good record.
LEMMA SheetIsGood ==
    ASSUME NEW st \in StyleState, Distinct(st), NEW po \in PositionState,
           NEW so, so = Committing(st, po),
           NEW ac \in Session \cup {None}, NEW to \in Seq(Window), ac # None => Contains(to, ac.owner),
           NEW ou, Fits(ou, Message), StylesAgree(ou, st), PositionsAgree(ou, po),
           NEW ok, ok \in BOOLEAN
    PROVE  LET r == Sheet(st, po, so, ac, ou, to, ok)
           IN  /\ Good(r) /\ r.style = st /\ r.position = po /\ r.stored = so /\ r.active = ac
               /\ r.out = ou /\ r.to = to /\ r.ok = ok
  <1> DEFINE r == Sheet(st, po, so, ac, ou, to, ok)
  <1>1. /\ r.style = st /\ r.position = po /\ r.stored = so /\ r.active = ac
        /\ r.out = ou /\ r.to = to /\ r.ok = ok
    BY DEF Sheet
  <1>2. so \in [style : Style, position : Position]
    BY DEF Committing, StyleState, PositionState
  <1>3. r \in Work
    BY <1>2 DEF Sheet, Work, Fits
  <1> HIDE DEF r
  <1>4. r.stored = [style |-> r.style.committed, position |-> r.position.committed]
    BY <1>1 DEF Committing
  <1>5. Good(r)
    BY <1>1, <1>3, <1>4, Zenon DEF Good
  <1> QED BY <1>1, <1>5, Zenon DEF r

\* What windows know agrees with every later state of the authority.
LEMMA LaterAgrees ==
    ASSUME NEW out, NEW a \in StyleState, StylesAgree(out, a), NEW b, Later(a, b)
    PROVE  StylesAgree(out, b)
  <1>1. a.rev \in Nat /\ b.rev \in Nat
    BY DEF Later, StyleState
  <1>2. CASE b.rev > a.rev
    <2>1. \A p \in Picture : p.rev \in Nat
      BY DEF Picture
    <2>2. Snapshot(b).rev = b.rev
      BY DEF Snapshot
    <2> QED BY <1>1, <1>2, <2>1, <2>2 DEF StylesAgree, Agree
  <1>3. CASE Snapshot(b) = Snapshot(a)
    <2>1. b.rev = a.rev
      BY <1>3 DEF Snapshot
    <2> QED BY <1>3, <2>1 DEF StylesAgree
  <1> QED BY <1>2, <1>3 DEF Later

\* The numbers of the position grow, or it stays where it is.
PositionLater(s, q) ==
    /\ q \in PositionState /\ q.intent >= s.intent /\ q.revision >= s.revision
    /\ AgreePosition(s, q)

\* What windows know agrees with every later position.
LEMMA PositionLaterAgrees ==
    ASSUME NEW out, NEW s \in PositionState, PositionsAgree(out, s), NEW q, PositionLater(s, q)
    PROVE  PositionsAgree(out, q)
  <1>1. \A p \in PositionState : p.intent \in Nat /\ p.revision \in Nat
    BY DEF PositionState
  <1> QED BY <1>1 DEF PositionLater, PositionsAgree, AgreePosition

\* The authorities and the session change, and what is stored with them.
LEMMA GoodMoves ==
    ASSUME NEW e, Good(e), NEW b, Later(e.style, b), NEW q, PositionLater(e.position, q),
           NEW so, so = Committing(b, q),
           NEW ac \in Session \cup {None}, ac # None => Contains(e.to, ac.owner), NEW ok, ok \in BOOLEAN
    PROVE  LET r == Sheet(b, q, so, ac, e.out, e.to, ok)
           IN  /\ Good(r) /\ r.style = b /\ r.position = q /\ r.stored = so /\ r.active = ac
               /\ r.out = e.out /\ r.to = e.to /\ r.ok = ok
  <1>1. b \in StyleState /\ Distinct(b) /\ q \in PositionState
    BY DEF Later, PositionLater
  <1>2. StylesAgree(e.out, b) /\ PositionsAgree(e.out, q)
    BY GoodFields, LaterAgrees, PositionLaterAgrees
  <1>3. e.to \in Seq(Window) /\ Fits(e.out, Message)
    BY GoodFields
  <1> QED BY <1>1, <1>2, <1>3, SheetIsGood

\* Nothing is later than itself, and as late.
LEMMA StaysLater ==
    ASSUME NEW e, Good(e)
    PROVE  Later(e.style, e.style) /\ PositionLater(e.position, e.position)
  <1>1. e.position.intent \in Nat /\ e.position.revision \in Nat
    BY GoodFields DEF PositionState
  <1> QED BY <1>1, GoodFields DEF Later, PositionLater, AgreePosition

\* The authority of the style moves on; what is committed stays.
LEMMA StyleMoves ==
    ASSUME NEW e, Good(e), NEW b, Later(e.style, b), b.committed = e.style.committed
    PROVE  LET r == [e EXCEPT !.style = b]
           IN  /\ Good(r) /\ r.to = e.to /\ r.style = b
               /\ r.position = e.position /\ r.active = e.active
  <1> DEFINE r == [e EXCEPT !.style = b]
  <1>1. r = Sheet(b, e.position, e.stored, e.active, e.out, e.to, e.ok)
    <2>1. e = Sheet(e.style, e.position, e.stored, e.active, e.out, e.to, e.ok)
      BY GoodFields
    <2> QED BY <2>1 DEF Sheet
  <1>2. /\ PositionLater(e.position, e.position) /\ e.stored = Committing(b, e.position)
        /\ e.active \in Session \cup {None} /\ e.ok \in BOOLEAN
        /\ e.active # None => Contains(e.to, e.active.owner)
    BY GoodFields, StaysLater DEF Committing
  <1> HIDE DEF r
  <1> QED BY <1>1, <1>2, GoodMoves DEF r

\* A session begins for a window that is there, or ends.
LEMMA ActiveMoves ==
    ASSUME NEW e, Good(e), NEW ac \in Session \cup {None}, ac # None => Contains(e.to, ac.owner)
    PROVE  LET r == [e EXCEPT !.active = ac]
           IN  /\ Good(r) /\ r.to = e.to /\ r.style = e.style
               /\ r.position = e.position /\ r.active = ac
  <1> DEFINE r == [e EXCEPT !.active = ac]
  <1>1. r = Sheet(e.style, e.position, e.stored, ac, e.out, e.to, e.ok)
    <2>1. e = Sheet(e.style, e.position, e.stored, e.active, e.out, e.to, e.ok)
      BY GoodFields
    <2> QED BY <2>1 DEF Sheet
  <1>2. /\ Later(e.style, e.style) /\ PositionLater(e.position, e.position)
        /\ e.stored = Committing(e.style, e.position) /\ e.ok \in BOOLEAN
    BY GoodFields, StaysLater
  <1> HIDE DEF r
  <1> QED BY <1>1, <1>2, GoodMoves DEF r

\* A throw that was caught changes nothing else.
LEMMA CaughtIsGood ==
    ASSUME NEW e, Good(e)
    PROVE  LET r == Caught(e)
           IN  /\ Good(r) /\ r.to = e.to /\ r.style = e.style
               /\ r.position = e.position /\ r.active = e.active
  <1> DEFINE r == Caught(e)
  <1>1. r = Sheet(e.style, e.position, e.stored, e.active, e.out, e.to, TRUE)
    <2>1. e = Sheet(e.style, e.position, e.stored, e.active, e.out, e.to, e.ok)
      BY GoodFields
    <2>2. r = [e EXCEPT !.ok = TRUE]
      BY DEF Caught
    <2> HIDE DEF r
    <2> QED BY <2>1, <2>2 DEF Sheet
  <1>2. /\ Later(e.style, e.style) /\ PositionLater(e.position, e.position)
        /\ e.stored = Committing(e.style, e.position)
        /\ e.active \in Session \cup {None}
        /\ e.active # None => Contains(e.to, e.active.owner)
    BY GoodFields, StaysLater
  <1> HIDE DEF r
  <1>3. /\ Good(r) /\ r.to = e.to /\ r.style = e.style
        /\ r.position = e.position /\ r.active = e.active
    <2>1. Good(Sheet(e.style, e.position, e.stored, e.active, e.out, e.to, TRUE))
      BY <1>2, GoodMoves
    <2> QED BY <1>1, <2>1 DEF Sheet
  <1> QED BY <1>3 DEF r

\* What a handler says of the state it is in reaches some windows, or throws.
Told(e, r) ==
    /\ Good(r) /\ r.to = e.to /\ r.style = e.style /\ r.position = e.position /\ r.active = e.active
Current(e) == {[name |-> "style", state |-> Snapshot(e.style)], [name |-> "position", state |-> e.position]}

\* What the entry tells is a message, and tells what is current.
LEMMA CurrentIsMessage ==
    ASSUME NEW e, Good(e), NEW m \in Current(e)
    PROVE  /\ m \in Message
           /\ \A p \in Picture : m = [name |-> "style", state |-> p] => p = Snapshot(e.style)
           /\ \A p \in PositionState : m = [name |-> "position", state |-> p] => p = e.position
  <1>1. Snapshot(e.style) \in Picture
    BY GoodFields DEF Snapshot, Picture, StyleState
  <1>2. e.position \in PositionState
    BY GoodFields
  <1>3. CASE m = [name |-> "style", state |-> Snapshot(e.style)]
    <2>1. m.name = "style" /\ m.state = Snapshot(e.style)
      BY <1>3
    <2> QED BY <1>1, <1>3, <2>1 DEF Message
  <1>4. CASE m = [name |-> "position", state |-> e.position]
    <2>1. m.name = "position" /\ m.state = e.position
      BY <1>4
    <2> QED BY <1>2, <1>4, <2>1 DEF Message
  <1> QED BY <1>3, <1>4 DEF Current

\* Windows that are given what is current agree with the authorities.
LEMMA GivenAgrees ==
    ASSUME NEW e, Good(e), NEW m \in Current(e), NEW T \in SUBSET Window
    PROVE  /\ StylesAgree(Given(e.out, T, m), e.style)
           /\ PositionsAgree(Given(e.out, T, m), e.position)
  <1> DEFINE o == Given(e.out, T, m)
  <1>1. /\ e.style \in StyleState /\ e.position \in PositionState /\ Fits(e.out, Message)
        /\ StylesAgree(e.out, e.style) /\ PositionsAgree(e.out, e.position)
    BY GoodFields
  <1>2. ASSUME NEW w \in Window, NEW i \in 1 .. Len(o[w])
        PROVE  o[w][i] = m \/ (i \in 1 .. Len(e.out[w]) /\ o[w][i] = e.out[w][i])
    <2>1. e.out[w] \in Seq(Message)
      BY <1>1 DEF Fits
    <2>2. o[w] = IF w \in T THEN Append(e.out[w], m) ELSE e.out[w]
      BY DEF Given
    <2>3. CASE w \in T
      <3>1. o[w] = Append(e.out[w], m)
        BY <2>2, <2>3
      <3> HIDE DEF o
      <3>2. Len(o[w]) = Len(e.out[w]) + 1
        BY <2>1, <3>1
      <3> QED BY <2>1, <3>1, <3>2
    <2>4. CASE w \notin T
      BY <2>2, <2>4
    <2> QED BY <2>3, <2>4
  <1> HIDE DEF o
  <1>3. ASSUME NEW p \in Picture, StyleIsOut(o, p)
        PROVE  StyleIsOut(e.out, p) \/ p = Snapshot(e.style)
    <2>1. CASE p # None /\ \E w \in Window : p = follower[w].style
      BY <2>1 DEF StyleIsOut
    <2>2. ASSUME NEW w \in Window, NEW i \in 1 .. Len(o[w]), o[w][i] = [name |-> "style", state |-> p]
          PROVE  StyleIsOut(e.out, p) \/ p = Snapshot(e.style)
      <3>1. CASE o[w][i] = m
        BY <2>2, <3>1, CurrentIsMessage
      <3>2. CASE i \in 1 .. Len(e.out[w]) /\ o[w][i] = e.out[w][i]
        BY <2>2, <3>2 DEF StyleIsOut
      <3> QED BY <1>2, <3>1, <3>2
    <2> QED BY <1>3, <2>1, <2>2 DEF StyleIsOut
  <1>4. ASSUME NEW p \in PositionState, PositionIsOut(o, p)
        PROVE  PositionIsOut(e.out, p) \/ p = e.position
    <2>1. CASE p # Unplaced /\ \E w \in Window : p = follower[w].position
      BY <2>1 DEF PositionIsOut
    <2>2. ASSUME NEW w \in Window, NEW i \in 1 .. Len(o[w]), o[w][i] = [name |-> "position", state |-> p]
          PROVE  PositionIsOut(e.out, p) \/ p = e.position
      <3>1. CASE o[w][i] = m
        BY <2>2, <3>1, CurrentIsMessage
      <3>2. CASE i \in 1 .. Len(e.out[w]) /\ o[w][i] = e.out[w][i]
        BY <2>2, <3>2 DEF PositionIsOut
      <3> QED BY <1>2, <3>1, <3>2
    <2> QED BY <1>4, <2>1, <2>2 DEF PositionIsOut
  <1>5. StylesAgree(o, e.style)
    <2>1. Snapshot(e.style).rev = e.style.rev /\ e.style.rev \in Nat
      BY <1>1 DEF Snapshot, StyleState
    <2>2. ASSUME NEW p \in Picture, StyleIsOut(o, p)
          PROVE  p.rev <= e.style.rev /\ Agree(p, Snapshot(e.style))
      BY <1>1, <1>3, <2>1, <2>2 DEF StylesAgree, Agree
    <2>3. ASSUME NEW p \in Picture, NEW q \in Picture, StyleIsOut(o, p), StyleIsOut(o, q)
          PROVE  Agree(p, q)
      <3>1. StyleIsOut(e.out, p) \/ p = Snapshot(e.style)
        BY <1>3, <2>3
      <3>2. StyleIsOut(e.out, q) \/ q = Snapshot(e.style)
        BY <1>3, <2>3
      <3>3. Agree(p, Snapshot(e.style)) /\ Agree(q, Snapshot(e.style))
        BY <2>2, <2>3
      <3> QED BY <1>1, <3>1, <3>2, <3>3 DEF StylesAgree, Agree
    <2> QED BY <2>2, <2>3 DEF StylesAgree
  <1>6. PositionsAgree(o, e.position)
    <2>1. e.position.intent \in Nat /\ e.position.revision \in Nat
      BY <1>1 DEF PositionState
    <2>2. ASSUME NEW p \in PositionState, PositionIsOut(o, p)
          PROVE  /\ p.intent <= e.position.intent /\ p.revision <= e.position.revision
                 /\ AgreePosition(p, e.position)
      BY <1>1, <1>4, <2>1, <2>2 DEF PositionsAgree, AgreePosition
    <2>3. ASSUME NEW p \in PositionState, NEW q \in PositionState,
                 PositionIsOut(o, p), PositionIsOut(o, q)
          PROVE  AgreePosition(p, q)
      <3>1. PositionIsOut(e.out, p) \/ p = e.position
        BY <1>4, <2>3
      <3>2. PositionIsOut(e.out, q) \/ q = e.position
        BY <1>4, <2>3
      <3>3. AgreePosition(p, e.position) /\ AgreePosition(q, e.position)
        BY <2>2, <2>3
      <3> QED BY <1>1, <3>1, <3>2, <3>3 DEF PositionsAgree, AgreePosition
    <2> QED BY <2>2, <2>3 DEF PositionsAgree
  <1> QED BY <1>5, <1>6 DEF o

\* A message of the current state leaves windows and authorities in agreement.
LEMMA PublishingTells ==
    ASSUME NEW e, Good(e), NEW m \in Current(e), NEW r, Published(e, r, m, Message)
    PROVE  Told(e, r)
  <1>0. e = Sheet(e.style, e.position, e.stored, e.active, e.out, e.to, e.ok)
    BY GoodFields
  <1>1. /\ e.style \in StyleState /\ Distinct(e.style) /\ e.position \in PositionState
        /\ e.stored = Committing(e.style, e.position)
        /\ e.active \in Session \cup {None}
        /\ e.active # None => Contains(e.to, e.active.owner)
        /\ e.to \in Seq(Window) /\ e.ok \in BOOLEAN
        /\ Fits(e.out, Message) /\ StylesAgree(e.out, e.style) /\ PositionsAgree(e.out, e.position)
    BY GoodFields
  <1>2. CASE r = e
    BY <1>2 DEF Told
  <1>3. CASE r = [e EXCEPT !.ok = FALSE]
    <2>1. r = Sheet(e.style, e.position, e.stored, e.active, e.out, e.to, FALSE)
      BY <1>0, <1>3 DEF Sheet
    <2>2. /\ Good(r) /\ r.to = e.to /\ r.style = e.style
          /\ r.position = e.position /\ r.active = e.active
      <3>1. Good(Sheet(e.style, e.position, e.stored, e.active, e.out, e.to, FALSE))
        BY <1>1, SheetIsGood
      <3> QED BY <2>1, <3>1 DEF Sheet
    <2> QED BY <2>2 DEF Told
  <1>4. ASSUME NEW T \in SUBSET Window, NEW ok, ok \in BOOLEAN, Fits(Given(e.out, T, m), Message),
               r = [e EXCEPT !.out = Given(e.out, T, m), !.ok = ok]
        PROVE  Told(e, r)
    <2> DEFINE o == Given(e.out, T, m)
    <2>1. StylesAgree(o, e.style) /\ PositionsAgree(o, e.position)
      BY GivenAgrees
    <2>2. r = Sheet(e.style, e.position, e.stored, e.active, o, e.to, ok)
      <3> HIDE DEF o
      <3> DEFINE a == [e EXCEPT !.out = o]
                 b == [a EXCEPT !.ok = ok]
      <3>1. r = b
        BY <1>4 DEF o
      <3>2. a = Sheet(e.style, e.position, e.stored, e.active, o, e.to, e.ok)
        BY <1>0 DEF Sheet
      <3> HIDE DEF a
      <3> QED BY <3>1, <3>2 DEF Sheet
    <2>3. Fits(o, Message)
      BY <1>4
    <2> HIDE DEF o
    <2>4. /\ Good(r) /\ r.to = e.to /\ r.style = e.style
          /\ r.position = e.position /\ r.active = e.active
      <3>1. Good(Sheet(e.style, e.position, e.stored, e.active, o, e.to, ok))
        BY <1>1, <1>4, <2>1, <2>3, SheetIsGood
      <3> QED BY <2>2, <3>1 DEF Sheet
    <2> QED BY <2>4 DEF Told
  <1> QED BY <1>2, <1>3, <1>4, Zenon DEF Published

\* A broadcast of what is current.
LEMMA AnnouncingIsTold ==
    ASSUME NEW e, Good(e)
    PROVE  Told(e, Announce(e)) /\ Told(e, AnnouncePosition(e))
  <1>1. ASSUME NEW m \in Current(e) PROVE Told(e, Broadcast(e, m))
    <2>1. m \in Message /\ Fits(e.out, Message) /\ e.to \in Seq(Window)
      BY CurrentIsMessage, GoodFields
    <2>2. Published(e, Broadcast(e, m), m, Message)
      BY <2>1, BroadcastPublishes
    <2> QED BY <2>2, PublishingTells
  <1> QED BY <1>1 DEF Current, Announce, AnnouncePosition

\* A result for one window.
LEMMA ResultIsTold ==
    ASSUME NEW e, Good(e), NEW w \in Window
    PROVE  Told(e, Result(e, w)) /\ Told(e, PositionResult(e, w))
  <1>1. ASSUME NEW m \in Current(e) PROVE Told(e, Send(e, w, m))
    <2>1. m \in Message /\ Fits(e.out, Message) /\ e.ok \in BOOLEAN
      BY CurrentIsMessage, GoodFields
    <2>2. e = Sheet(e.style, e.position, e.stored, e.active, e.out, e.to, e.ok)
      BY GoodFields
    <2>3. [e EXCEPT !.out = Given(e.out, {w}, m)] = [e EXCEPT !.out = Given(e.out, {w}, m), !.ok = e.ok]
      BY <2>2 DEF Sheet
    <2>4. \/ Send(e, w, m) = e
          \/ Send(e, w, m) = [e EXCEPT !.ok = FALSE]
          \/ /\ Send(e, w, m) = [e EXCEPT !.out = Given(e.out, {w}, m), !.ok = e.ok]
             /\ Fits(Given(e.out, {w}, m), Message)
      BY <2>1, <2>3, SendPublishes
    <2>5. {w} \in SUBSET Window
      OBVIOUS
    <2>6. Published(e, Send(e, w, m), m, Message)
      BY <2>1, <2>4, <2>5, Zenon DEF Published
    <2> QED BY <2>6, PublishingTells
  <1> QED BY <1>1 DEF Current, Result, PositionResult
-----------------------------------------------------------------------------
(***************************************************************************)
(* What the handlers do.                                                   *)
(***************************************************************************)
Kept(e, r) == Good(r) /\ r.to = e.to

\* An intent that fails.
LEMMA UndoKeeps ==
    ASSUME NEW e, Good(e), NEW w \in Window, NEW i \in Intent
    PROVE  Kept(e, Undo(e, w, i))
  <1> DEFINE c == Caught(e)
             f == [c EXCEPT !.style = Fail(c.style, i)]
             a == Announce(f)
             r == Result(a, w)
  <1>1. Good(c) /\ c.to = e.to
    BY CaughtIsGood
  <1>2. Undo(e, w, i) = r
    BY DEF Undo
  <1> HIDE DEF c
  <1>3. Later(c.style, Fail(c.style, i)) /\ Fail(c.style, i).committed = c.style.committed
    BY <1>1, GoodFields, FailIsLater
  <1>4. Good(f) /\ f.to = c.to
    BY <1>1, <1>3, StyleMoves
  <1> HIDE DEF f
  <1>5. Good(a) /\ a.to = f.to
    BY <1>4, AnnouncingIsTold, ResultIsTold DEF Told
  <1> HIDE DEF a
  <1>6. Good(r) /\ r.to = a.to
    BY <1>5, AnnouncingIsTold, ResultIsTold DEF Told
  <1> QED BY <1>1, <1>2, <1>4, <1>5, <1>6 DEF Kept

\* What is stored is committed with it.
LEMMA CommitAndTellKeeps ==
    ASSUME NEW e, Good(e), NEW w \in Window, NEW i \in Intent
    PROVE  Kept(e, CommitAndTell(Saved(e, i), w, i))
  <1> DEFINE c == [e.style.committed EXCEPT ![i.field] = i.value]
             s == Saved(e, i)
             b == Commit(e.style, i)
             f == [s EXCEPT !.style = b]
             so == [style |-> c, position |-> e.position.committed]
             a == Announce(f)
             r == Result(a, w)
  <1>1. e = Sheet(e.style, e.position, e.stored, e.active, e.out, e.to, e.ok)
    BY GoodFields
  <1>2. s = Sheet(e.style, e.position, so, e.active, e.out, e.to, e.ok)
    <2>1. s = [e EXCEPT !.stored.style = c]
      BY DEF Saved
    <2>2. e.stored = [style |-> e.style.committed, position |-> e.position.committed]
      BY GoodFields DEF Committing
    <2>3. [e.stored EXCEPT !.style = c] = so
      BY <2>2
    <2> HIDE DEF s, c, so
    <2>4. s = [e EXCEPT !.stored = [e.stored EXCEPT !.style = c]]
      BY <2>1
    <2>5. s = [e EXCEPT !.stored = so]
      BY <2>3, <2>4
    <2> QED BY <1>1, <2>5 DEF Sheet
  <1>3. CommitAndTell(s, w, i) = r
    <2>1. s.style = e.style
      BY <1>2 DEF Sheet
    <2> HIDE DEF s
    <2>2. CommitAndTell(s, w, i) = Result(Announce([s EXCEPT !.style = Commit(s.style, i)]), w)
      BY DEF CommitAndTell
    <2> QED BY <2>1, <2>2
  <1> HIDE DEF s
  <1>4. f = Sheet(b, e.position, so, e.active, e.out, e.to, e.ok)
    <2> HIDE DEF b, so
    <2> QED BY <1>2 DEF Sheet
  <1>5. Later(e.style, b) /\ b.committed = c
    BY GoodFields, CommitIsLater
  <1>6. so = Committing(b, e.position)
    BY <1>5 DEF Committing
  <1> HIDE DEF b, c, so, f
  <1>7. /\ PositionLater(e.position, e.position) /\ e.active \in Session \cup {None}
        /\ e.active # None => Contains(e.to, e.active.owner)
        /\ e.ok \in BOOLEAN
    BY GoodFields, StaysLater
  <1>8. Good(f) /\ f.to = e.to
    <2>1. Good(Sheet(b, e.position, so, e.active, e.out, e.to, e.ok))
      BY <1>5, <1>6, <1>7, GoodMoves
    <2> QED BY <1>4, <2>1 DEF Sheet
  <1>9. Good(a) /\ a.to = f.to
    BY <1>8, AnnouncingIsTold, ResultIsTold DEF Told
  <1> HIDE DEF a
  <1>10. Good(r) /\ r.to = a.to
    BY <1>9, AnnouncingIsTold, ResultIsTold DEF Told
  <1> QED BY <1>3, <1>8, <1>9, <1>10 DEF Kept, s

\* Save, commit, broadcast, answer; and what is done when one of these throws.
LEMMA CompleteKeeps ==
    ASSUME NEW e, Good(e), NEW w \in Window, NEW i \in Intent, NEW saves
    PROVE  Kept(e, Complete(e, w, i, saves))
  <1> DEFINE done == CommitAndTell(Saved(e, i), w, i)
  <1>1. Complete(e, w, i, saves) = Undo(e, w, i) \/ Complete(e, w, i, saves) = done
        \/ Complete(e, w, i, saves) = Undo(done, w, i)
    BY DEF Complete
  <1>2. Kept(e, done)
    BY CommitAndTellKeeps
  <1> HIDE DEF done
  <1>3. Kept(done, Undo(done, w, i))
    BY <1>2, UndoKeeps DEF Kept
  <1>4. Kept(e, Undo(e, w, i))
    BY UndoKeeps
  <1> QED BY <1>1, <1>2, <1>3, <1>4 DEF Kept

\* An edit is committed, fails, or was overtaken.
LEMMA CommitEditKeeps ==
    ASSUME NEW e, Good(e), NEW w \in Window, NEW id \in Id, NEW f \in Field, NEW v \in Value(f),
           NEW saves
    PROVE  Kept(e, CommitEdit(e, w, id, f, v, saves))
  <1> DEFINE a == Begun(e.style, id, f, v)
             p == [e EXCEPT !.style = a]
  <1>1. /\ Later(e.style, a) /\ a.committed = e.style.committed
        /\ ~Superseded(a, id, f) => IntentOf(a, id) \in a.interactions
    BY GoodFields, BegunIsLater
  <1>2. \/ CommitEdit(e, w, id, f, v, saves) = e
        \/ CommitEdit(e, w, id, f, v, saves) = Result(p, w)
        \/ /\ ~Superseded(a, id, f)
           /\ CommitEdit(e, w, id, f, v, saves) = Complete(p, w, IntentOf(a, id), saves)
    BY DEF CommitEdit
  <1> HIDE DEF a
  <1>3. Good(p) /\ p.to = e.to /\ p.style = a
    BY <1>1, StyleMoves
  <1> HIDE DEF p
  <1>4. CASE CommitEdit(e, w, id, f, v, saves) = e
    BY <1>4 DEF Kept
  <1>5. CASE CommitEdit(e, w, id, f, v, saves) = Result(p, w)
    BY <1>3, <1>5, AnnouncingIsTold, ResultIsTold DEF Kept, Told
  <1>6. CASE /\ ~Superseded(a, id, f)
             /\ CommitEdit(e, w, id, f, v, saves) = Complete(p, w, IntentOf(a, id), saves)
    <2>1. IntentOf(a, id) \in Intent
      BY <1>1, <1>6 DEF Later, StyleState
    <2> QED BY <1>3, <1>6, <2>1, CompleteKeeps DEF Kept
  <1> QED BY <1>2, <1>4, <1>5, <1>6

\* A preview is an intent, told to every window.
LEMMA PreviewEditKeeps ==
    ASSUME NEW e, Good(e), NEW id \in Id, NEW f \in Field, NEW v \in Value(f)
    PROVE  Kept(e, PreviewEdit(e, id, f, v)) /\ PreviewEdit(e, id, f, v).active = e.active
  <1> DEFINE a == Preview(e.style, id, f, v)
             p == [e EXCEPT !.style = a]
  <1>1. Later(e.style, a) /\ a.committed = e.style.committed
    BY GoodFields, PreviewIsLater
  <1>2. PreviewEdit(e, id, f, v) = Announce(p)
    BY DEF PreviewEdit
  <1> HIDE DEF a
  <1>3. Good(p) /\ p.to = e.to /\ p.active = e.active
    BY <1>1, StyleMoves
  <1> HIDE DEF p
  <1>4. Told(p, Announce(p))
    BY <1>3, AnnouncingIsTold
  <1> QED BY <1>2, <1>3, <1>4 DEF Kept, Told

\* A session ends: its color is taken back.
LEMMA RevertKeeps ==
    ASSUME NEW e, Good(e), NEW s \in Session
    PROVE  Kept(e, Revert(e, s))
  <1> DEFINE a == Begun(e.style, s.id, "fontColor", s.previewed)
             i == IntentOf(a, s.id)
             p == [e EXCEPT !.style = a]
             b == Fail(a, i)
             q == [e EXCEPT !.style = b]
  <1>1. CASE s.previewed = None
    BY <1>1 DEF Revert, Kept
  <1>2. CASE s.previewed # None
    <2>1. s.id \in Id /\ "fontColor" \in Field /\ s.previewed \in Value("fontColor")
      BY <1>2 DEF Session, Field, Value
    <2>2. /\ Later(e.style, a) /\ a.committed = e.style.committed
          /\ ~Superseded(a, s.id, "fontColor") => i \in a.interactions
      BY <2>1, GoodFields, BegunIsLater
    <2>3. CASE Superseded(a, s.id, "fontColor")
      <3>1. Revert(e, s) = p
        BY <1>2, <2>3 DEF Revert
      <3> HIDE DEF a
      <3>2. Good(p) /\ p.to = e.to
        BY <2>2, StyleMoves
      <3> QED BY <3>1, <3>2 DEF Kept
    <2>4. CASE ~Superseded(a, s.id, "fontColor")
      <3>1. Revert(e, s) = Announce(q)
        BY <1>2, <2>4 DEF Revert
      <3> HIDE DEF a, i
      <3>2. i \in Intent /\ a \in StyleState /\ Distinct(a)
        BY <2>2, <2>4 DEF Later, StyleState
      <3>3. Later(a, b) /\ b.committed = a.committed
        BY <3>2, FailIsLater
      <3> HIDE DEF b
      <3>4. Later(e.style, b)
        <4>1. e.style.rev \in Nat /\ a.rev \in Nat /\ b.rev \in Nat
          BY <3>2, <3>3, GoodFields DEF StyleState, Later
        <4> HIDE DEF b
        <4>2. b.rev > a.rev \/ (b.rev = a.rev /\ Snapshot(b) = Snapshot(a))
          <5>1. Snapshot(b).rev = b.rev /\ Snapshot(a).rev = a.rev
            BY DEF Snapshot
          <5> QED BY <3>3, <5>1 DEF Later
        <4>3. a.rev > e.style.rev \/ (a.rev = e.style.rev /\ Snapshot(a) = Snapshot(e.style))
          <5>1. Snapshot(a).rev = a.rev /\ Snapshot(e.style).rev = e.style.rev
            BY DEF Snapshot
          <5> QED BY <2>2, <5>1 DEF Later
        <4> QED BY <3>3, <4>1, <4>2, <4>3 DEF Later
      <3>5. Good(q) /\ q.to = e.to
        BY <2>2, <3>3, <3>4, StyleMoves
      <3> HIDE DEF q
      <3> QED BY <3>1, <3>5, AnnouncingIsTold DEF Kept, Told
    <2> QED BY <2>3, <2>4
  <1> QED BY <1>1, <1>2

\* failActiveStylePicker, even if the window of the session is gone.
LEMMA FailActiveKeeps ==
    ASSUME NEW e, e.active \in Session \cup {None}, Good([e EXCEPT !.active = None]),
           e.active = None => Good(e)
    PROVE  Good(FailActive(e)) /\ FailActive(e).to = [e EXCEPT !.active = None].to
  <1> DEFINE over == [e EXCEPT !.active = None]
             r == Revert(over, e.active)
  <1>1. CASE e.active = None
    <2>1. FailActive(e) = e
      BY <1>1 DEF FailActive
    <2>2. e = Sheet(e.style, e.position, e.stored, e.active, e.out, e.to, e.ok)
      BY <1>1, GoodFields
    <2>3. over.to = e.to
      BY <2>2 DEF Sheet
    <2> QED BY <1>1, <2>1, <2>3
  <1>2. CASE e.active # None
    <2>1. FailActive(e) = Result(r, e.active.owner)
      BY <1>2 DEF FailActive
    <2>2. e.active \in Session /\ e.active.owner \in Window
      BY <1>2 DEF Session
    <2> HIDE DEF over
    <2>3. Good(over)
      BY DEF over
    <2>4. Good(r) /\ r.to = over.to
      BY <2>2, <2>3, RevertKeeps DEF Kept
    <2> HIDE DEF r
    <2>5. Told(r, Result(r, e.active.owner))
      BY <2>2, <2>4, ResultIsTold
    <2> QED BY <2>1, <2>4, <2>5 DEF Told, over
  <1> QED BY <1>1, <1>2

\* acceptColorPickerClose.
LEMMA ColorClosedKeeps ==
    ASSUME NEW e, Good(e), NEW s \in Session, NEW changed, NEW c, changed => c \in Color, NEW saves
    PROVE  Kept(e, ColorClosed(e, s, changed, c, saves))
  <1>1. s.id \in Id /\ s.owner \in Window /\ "fontColor" \in Field
    BY DEF Session, Field
  <1>2. CASE ~changed
    <2> DEFINE r == Revert(e, s)
    <2>1. ColorClosed(e, s, changed, c, saves) = Result(r, s.owner)
      BY <1>2 DEF ColorClosed
    <2>2. Good(r) /\ r.to = e.to
      BY RevertKeeps DEF Kept
    <2> HIDE DEF r
    <2> QED BY <1>1, <2>1, <2>2, ResultIsTold DEF Kept, Told
  <1>3. CASE changed
    <2> DEFINE p == IF s.previewed = c THEN e ELSE PreviewEdit(e, s.id, "fontColor", c)
    <2>1. ColorClosed(e, s, changed, c, saves)
            = CommitEdit(p, s.owner, s.id, "fontColor", c, saves)
      BY <1>3 DEF ColorClosed
    <2>2. c \in Value("fontColor")
      BY <1>3 DEF Value
    <2>3. Good(p) /\ p.to = e.to
      BY <1>1, <2>2, PreviewEditKeeps DEF Kept
    <2> HIDE DEF p
    <2>4. Kept(p, CommitEdit(p, s.owner, s.id, "fontColor", c, saves))
      BY <1>1, <2>2, <2>3, CommitEditKeeps
    <2> QED BY <2>1, <2>3, <2>4 DEF Kept
  <1> QED BY <1>2, <1>3

\* What an event says depends on its type.
LEMMA EventFields ==
    ASSUME NEW v \in Event
    PROVE  /\ v.id \in Id \cup {None}
           /\ v.type = "color-preview" => v.value \in Color
           /\ v.type = "color-closed" => v.changed \in BOOLEAN /\ (v.changed => v.value \in Color)
           /\ v.type = "font-confirmed" => v.value \in Families
  BY DEF Event, Closed

\* handleStylePickerEvent.
LEMMA HandledKeeps ==
    ASSUME NEW e, Good(e), e.active # None, NEW v \in Event, NEW saves
    PROVE  Kept(e, Handled(e, v, saves))
  <1> DEFINE s == e.active
             over == [e EXCEPT !.active = None]
  <1>1. s \in Session /\ s.id \in Id /\ s.owner \in Window /\ Contains(e.to, s.owner)
    BY GoodFields DEF Session
  <1>2. Good(over) /\ over.to = e.to
    BY ActiveMoves
  <1>3. "fontColor" \in Field /\ "fontFamily" \in Field
    BY DEF Field
  <1>4. CASE v.type = "color-preview" /\ s.kind = "color"
    <2> DEFINE t == [s EXCEPT !.previewed = v.value]
               p == [e EXCEPT !.active = t]
    <2>1. v.value \in Color
      BY <1>4, EventFields
    <2>2. t \in Session /\ t.owner = s.owner
      BY <1>1, <2>1 DEF Session
    <2>3. Handled(e, v, saves) = PreviewEdit(p, s.id, "fontColor", v.value)
      BY <1>4 DEF Handled
    <2> HIDE DEF t
    <2>4. Good(p) /\ p.to = e.to
      BY <1>1, <2>2, ActiveMoves
    <2> HIDE DEF p
    <2>5. v.value \in Value("fontColor")
      BY <2>1 DEF Value
    <2> QED BY <1>1, <1>3, <2>3, <2>4, <2>5, PreviewEditKeeps DEF Kept
  <1>5. CASE v.type = "color-closed" /\ s.kind = "color"
    <2>1. Handled(e, v, saves) = ColorClosed(over, s, v.changed, v.value, saves)
      BY <1>5 DEF Handled
    <2>2. v.changed => v.value \in Color
      BY <1>5, EventFields
    <2> HIDE DEF over, s
    <2>3. Kept(over, ColorClosed(over, s, v.changed, v.value, saves))
      BY <1>1, <1>2, <2>2, ColorClosedKeeps
    <2> QED BY <1>2, <2>1, <2>3 DEF Kept
  <1>6. CASE v.type = "font-confirmed" /\ s.kind = "font"
    <2>1. Handled(e, v, saves) = CommitEdit(over, s.owner, s.id, "fontFamily", v.value, saves)
      BY <1>6 DEF Handled
    <2>2. v.value \in Value("fontFamily")
      BY <1>6, EventFields DEF Value
    <2> HIDE DEF over, s
    <2> QED BY <1>1, <1>2, <1>3, <2>1, <2>2, CommitEditKeeps DEF Kept
  <1>7. CASE v.type = "font-cancelled" /\ s.kind = "font"
    <2>1. Handled(e, v, saves) = Result(over, s.owner)
      BY <1>7 DEF Handled
    <2> HIDE DEF over, s
    <2> QED BY <1>1, <1>2, <2>1, ResultIsTold DEF Kept, Told
  <1>8. CASE /\ ~(v.type = "color-preview" /\ s.kind = "color")
             /\ ~(v.type = "color-closed" /\ s.kind = "color")
             /\ ~(v.type = "font-confirmed" /\ s.kind = "font")
             /\ ~(v.type = "font-cancelled" /\ s.kind = "font")
    BY <1>8 DEF Handled, Kept
  <1> QED BY <1>4, <1>5, <1>6, <1>7, <1>8
-----------------------------------------------------------------------------
(***************************************************************************)
(* The position.                                                           *)
(***************************************************************************)
Spot(l, c, i, r) == [live |-> l, committed |-> c, intent |-> i, revision |-> r]

\* The position of a record has its four fields.
LEMMA SpotFields ==
    ASSUME NEW e, Good(e)
    PROVE  /\ e.position.live \in Position /\ e.position.committed \in Position
           /\ e.position.intent \in Nat /\ e.position.revision \in Nat
           /\ e.position = Spot(e.position.live, e.position.committed,
                                e.position.intent, e.position.revision)
           /\ e = Sheet(e.style, e.position, e.stored, e.active, e.out, e.to, e.ok)
  BY GoodFields DEF PositionState, Spot

\* A position with the next intent, at the same revision or the next one.
LEMMA SpotIsLater ==
    ASSUME NEW e, Good(e), NEW p \in Position, NEW c \in Position,
           NEW r \in {e.position.revision, e.position.revision + 1}
    PROVE  PositionLater(e.position, Spot(p, c, e.position.intent + 1, r))
  <1> DEFINE q == Spot(p, c, e.position.intent + 1, r)
  <1>1. e.position.intent \in Nat /\ e.position.revision \in Nat /\ r \in Nat
    BY SpotFields
  <1>2. q \in PositionState /\ q.intent = e.position.intent + 1 /\ q.revision = r
    BY <1>1 DEF Spot, PositionState
  <1> HIDE DEF q
  <1>3. r >= e.position.revision /\ q.intent > e.position.intent
    BY <1>1, <1>2
  <1> QED BY <1>1, <1>2, <1>3 DEF PositionLater, AgreePosition, q

\* The authority of the position moves on; what is committed stays.
LEMMA PositionMoves ==
    ASSUME NEW e, Good(e), NEW q, PositionLater(e.position, q), q.committed = e.position.committed,
           NEW r, \E ok \in BOOLEAN : r = Sheet(e.style, q, e.stored, e.active, e.out, e.to, ok)
    PROVE  Kept(e, r) /\ r.position = q
  <1>1. PICK ok : ok \in BOOLEAN /\ r = Sheet(e.style, q, e.stored, e.active, e.out, e.to, ok)
    OBVIOUS
  <1>2. /\ Later(e.style, e.style) /\ e.stored = Committing(e.style, q)
        /\ e.active \in Session \cup {None}
        /\ e.active # None => Contains(e.to, e.active.owner)
    BY GoodFields, StaysLater DEF Committing
  <1>3. Good(Sheet(e.style, q, e.stored, e.active, e.out, e.to, ok))
    <2>1. ok \in BOOLEAN
      BY <1>1
    <2>2. q \in PositionState /\ PositionsAgree(e.out, q)
      BY  GoodFields, PositionLaterAgrees DEF PositionLater
    <2>3. /\ e.style \in StyleState /\ Distinct(e.style) /\ StylesAgree(e.out, e.style)
          /\ e.to \in Seq(Window) /\ Fits(e.out, Message)
      BY GoodFields
    <2> QED BY <1>2, <2>1, <2>2, <2>3, SheetIsGood
  <1> QED BY <1>1, <1>3 DEF Kept, Sheet

\* A preview is the next intent.
LEMMA PreviewPositionKeeps ==
    ASSUME NEW e, Good(e), NEW p \in Position
    PROVE  Kept(e, PreviewPosition(e, p))
  <1> DEFINE a == [e EXCEPT !.position.intent = @ + 1]
             b == [a EXCEPT !.position.live = p]
             s == e.position
             q == Spot(p, s.committed, s.intent + 1, s.revision)
  <1>1. s = Spot(s.live, s.committed, s.intent, s.revision) /\ s.committed \in Position
    BY SpotFields
  <1>2. e = Sheet(e.style, s, e.stored, e.active, e.out, e.to, e.ok) /\ e.ok \in BOOLEAN
    BY SpotFields, GoodFields
  <1>3. PreviewPosition(e, p) = AnnouncePosition(b)
    BY DEF PreviewPosition
  <1>4. a = Sheet(e.style, Spot(s.live, s.committed, s.intent + 1, s.revision), e.stored, e.active, e.out, e.to, e.ok)
    <2>1. [s EXCEPT !.intent = s.intent + 1] = Spot(s.live, s.committed, s.intent + 1, s.revision)
      BY <1>1 DEF Spot
    <2>2. a = [e EXCEPT !.position = [s EXCEPT !.intent = s.intent + 1]]
      OBVIOUS
    <2> HIDE DEF a
    <2> QED BY <1>2, <2>1, <2>2 DEF Sheet
  <1> HIDE DEF a
  <1>5. b = Sheet(e.style, q, e.stored, e.active, e.out, e.to, e.ok)
    <2>1. a.position = Spot(s.live, s.committed, s.intent + 1, s.revision)
      BY <1>4 DEF Sheet
    <2>2. [a.position EXCEPT !.live = p] = q
      BY <2>1 DEF Spot
    <2>3. b = [a EXCEPT !.position = [a.position EXCEPT !.live = p]]
      OBVIOUS
    <2> HIDE DEF b, q
    <2> QED BY <1>4, <2>2, <2>3 DEF Sheet
  <1>6. PositionLater(s, q) /\ q.committed = s.committed
    BY <1>1, SpotIsLater DEF Spot
  <1> HIDE DEF b, q
  <1>7. Kept(e, b)
    BY <1>2, <1>5, <1>6, PositionMoves
  <1> QED BY <1>3, <1>7, AnnouncingIsTold DEF Kept, Told

\* Where a save fails the position is what is committed, which no window was told
\* otherwise.
LEMMA RevertPositionKeeps ==
    ASSUME NEW e, Good(e), NEW w \in Window, NEW c, NEW l \in Position, NEW i,
           c = Sheet(e.style, Spot(l, e.position.committed, i, e.position.revision),
                     e.stored, e.active, e.out, e.to, e.ok),
           \/ i = e.position.intent + 1
           \/ (i = e.position.intent /\ e.position.live = e.position.committed)
    PROVE  Kept(e, RevertPosition(c, w))
  <1> DEFINE s == e.position
             t == Spot(l, s.committed, i, s.revision)
             q == Spot(s.committed, s.committed, i, s.revision)
             d == Caught(c)
             b == [d EXCEPT !.position.live = s.committed]
             a == AnnouncePosition(b)
             r == PositionResult(a, w)
  <1>1. /\ s.live \in Position /\ s.committed \in Position /\ s.intent \in Nat /\ s.revision \in Nat
        /\ s = Spot(s.live, s.committed, s.intent, s.revision)
    BY SpotFields
  <1>2. RevertPosition(c, w) = r
    <2>1. c.position.committed = s.committed
      BY DEF Sheet, Spot
    <2> QED BY <2>1 DEF RevertPosition
  <1>3. d = Sheet(e.style, t, e.stored, e.active, e.out, e.to, TRUE)
    <2>1. d = [c EXCEPT !.ok = TRUE]
      BY DEF Caught
    <2> HIDE DEF d, t
    <2> QED BY <2>1 DEF Sheet, t
  <1> HIDE DEF d
  <1>4. b = Sheet(e.style, q, e.stored, e.active, e.out, e.to, TRUE)
    <2>1. d.position = t
      BY <1>3 DEF Sheet
    <2>2. [t EXCEPT !.live = s.committed] = q
      BY DEF Spot
    <2>3. b = [d EXCEPT !.position = [d.position EXCEPT !.live = s.committed]]
      OBVIOUS
    <2> HIDE DEF b, t, q
    <2>4. b = [d EXCEPT !.position = q]
      BY <2>1, <2>2, <2>3
    <2> QED BY <1>3, <2>4 DEF Sheet
  <1>5. PositionLater(s, q) /\ q.committed = s.committed
    <2>1. CASE i = s.intent + 1
      BY <1>1, <2>1, SpotIsLater DEF Spot
    <2>2. CASE i = s.intent /\ s.live = s.committed
      <3>1. q = s
        BY <1>1, <2>2
      <3> QED BY <3>1, StaysLater
    <2> QED BY <2>1, <2>2
  <1> HIDE DEF b, q
  <1>6. Kept(e, b)
    BY <1>4, <1>5, PositionMoves
  <1>7. Good(a) /\ a.to = b.to
    BY <1>6, AnnouncingIsTold DEF Kept, Told
  <1> HIDE DEF a
  <1>8. Good(r) /\ r.to = a.to
    BY <1>7, ResultIsTold DEF Told
  <1> QED BY <1>2, <1>6, <1>7, <1>8 DEF Kept

\* A position is saved, with the next intent and the next revision.
LEMMA SavePositionKeeps ==
    ASSUME NEW e, Good(e), NEW w \in Window, NEW p \in Position, NEW saves
    PROVE  Kept(e, SavePosition(e, w, p, saves))
  <1> DEFINE s == e.position
             a == [e EXCEPT !.position.intent = @ + 1]
             b == [a EXCEPT !.position.live = p]
             so == [style |-> e.style.committed, position |-> p]
             c1 == [b EXCEPT !.stored.position = p]
             c2 == [c1 EXCEPT !.position.committed = p]
             c3 == [c2 EXCEPT !.position.revision = @ + 1]
             n == AnnouncePosition(c3)
             done == PositionResult(n, w)
             begun == Spot(p, s.committed, s.intent + 1, s.revision)
             q == Spot(p, p, s.intent + 1, s.revision + 1)
  <1>1. /\ s = Spot(s.live, s.committed, s.intent, s.revision) /\ s.committed \in Position
        /\ s.intent \in Nat /\ s.revision \in Nat
    BY SpotFields
  <1>2. e = Sheet(e.style, s, e.stored, e.active, e.out, e.to, e.ok) /\ e.ok \in BOOLEAN
    BY SpotFields, GoodFields
  <1>3. \/ SavePosition(e, w, p, saves) = RevertPosition(b, w)
        \/ SavePosition(e, w, p, saves) = done
        \/ SavePosition(e, w, p, saves) = RevertPosition(done, w)
    BY DEF SavePosition
  <1>4. a = Sheet(e.style, Spot(s.live, s.committed, s.intent + 1, s.revision), e.stored, e.active, e.out, e.to, e.ok)
    <2>1. [s EXCEPT !.intent = s.intent + 1] = Spot(s.live, s.committed, s.intent + 1, s.revision)
      BY <1>1 DEF Spot
    <2>2. a = [e EXCEPT !.position = [s EXCEPT !.intent = s.intent + 1]]
      OBVIOUS
    <2> HIDE DEF a
    <2> QED BY <1>2, <2>1, <2>2 DEF Sheet
  <1> HIDE DEF a
  <1>5. b = Sheet(e.style, begun, e.stored, e.active, e.out, e.to, e.ok)
    <2>1. a.position = Spot(s.live, s.committed, s.intent + 1, s.revision)
      BY <1>4 DEF Sheet
    <2>2. [a.position EXCEPT !.live = p] = begun
      BY <2>1 DEF Spot
    <2>3. b = [a EXCEPT !.position = [a.position EXCEPT !.live = p]]
      OBVIOUS
    <2> HIDE DEF b, begun
    <2> QED BY <1>4, <2>2, <2>3 DEF Sheet
  <1> HIDE DEF b
  <1>6. Kept(e, RevertPosition(b, w))
    BY <1>5, RevertPositionKeeps
  <1>7. c1 = Sheet(e.style, begun, so, e.active, e.out, e.to, e.ok)
    <2>1. e.stored = [style |-> e.style.committed, position |-> s.committed]
      BY GoodFields DEF Committing
    <2>2. [e.stored EXCEPT !.position = p] = so
      BY <2>1
    <2>3. b.stored = e.stored
      BY <1>5 DEF Sheet
    <2>4. c1 = [b EXCEPT !.stored = [b.stored EXCEPT !.position = p]]
      OBVIOUS
    <2> HIDE DEF c1, so, begun
    <2>5. c1 = [b EXCEPT !.stored = so]
      BY <2>2, <2>3, <2>4
    <2> QED BY <1>5, <2>5 DEF Sheet
  <1> HIDE DEF c1
  <1>8. c2 = Sheet(e.style, Spot(p, p, s.intent + 1, s.revision), so, e.active, e.out, e.to, e.ok)
    <2>1. c1.position = begun
      BY <1>7 DEF Sheet
    <2>2. [begun EXCEPT !.committed = p] = Spot(p, p, s.intent + 1, s.revision)
      BY DEF Spot
    <2>3. c2 = [c1 EXCEPT !.position = [c1.position EXCEPT !.committed = p]]
      OBVIOUS
    <2> HIDE DEF c2, begun, so
    <2>4. c2 = [c1 EXCEPT !.position = Spot(p, p, s.intent + 1, s.revision)]
      BY <2>1, <2>2, <2>3
    <2> QED BY <1>7, <2>4 DEF Sheet
  <1> HIDE DEF c2
  <1>9. c3 = Sheet(e.style, q, so, e.active, e.out, e.to, e.ok)
    <2> DEFINE t == Spot(p, p, s.intent + 1, s.revision)
    <2>1. c2.position = t /\ t.revision = s.revision
      BY <1>8 DEF Sheet, Spot
    <2>2. [t EXCEPT !.revision = s.revision + 1] = q
      BY DEF Spot
    <2>3. c3 = [c2 EXCEPT !.position = [c2.position EXCEPT !.revision = c2.position.revision + 1]]
      OBVIOUS
    <2> HIDE DEF c3, t, q, so
    <2>4. c3 = [c2 EXCEPT !.position = q]
      BY <2>1, <2>2, <2>3
    <2> QED BY <1>8, <2>4 DEF Sheet
  <1> HIDE DEF c3
  <1>10. PositionLater(s, q)
    BY SpotIsLater
  <1>11. q.committed = p /\ q.live = p
    BY DEF Spot
  <1>12. /\ Later(e.style, e.style) /\ so = Committing(e.style, q)
         /\ e.active \in Session \cup {None}
         /\ e.active # None => Contains(e.to, e.active.owner)
    BY <1>11, GoodFields, StaysLater DEF Committing
  <1> HIDE DEF q, so
  <1>13. Good(Sheet(e.style, q, so, e.active, e.out, e.to, e.ok))
    <2>1. e.ok \in BOOLEAN
      BY <1>2
    <2>2. q \in PositionState /\ PositionsAgree(e.out, q)
      BY <1>10, GoodFields, PositionLaterAgrees DEF PositionLater
    <2>3. /\ e.style \in StyleState /\ Distinct(e.style) /\ StylesAgree(e.out, e.style)
          /\ e.to \in Seq(Window) /\ Fits(e.out, Message)
      BY GoodFields
    <2> QED BY <1>12, <2>1, <2>2, <2>3, SheetIsGood
  <1>14. Good(c3) /\ c3.to = e.to /\ c3.position = q
    BY <1>9, <1>13 DEF Sheet
  <1>15. Good(n) /\ n.to = e.to /\ n.position = q
    BY <1>14, AnnouncingIsTold DEF Told
  <1> HIDE DEF n
  <1>16. Good(done) /\ done.to = e.to /\ done.position = q
    BY <1>15, ResultIsTold DEF Told
  <1> HIDE DEF done
  <1>17. Kept(done, RevertPosition(done, w))
    <2> DEFINE t == done.position
    <2>1. t = Spot(t.live, t.committed, t.intent, t.revision) /\ t.live \in Position
      BY <1>16, SpotFields
    <2>2. done = Sheet(done.style, t, done.stored, done.active, done.out, done.to, done.ok)
      BY <1>16, SpotFields
    <2>3. t.live = t.committed
      BY <1>11, <1>16
    <2> HIDE DEF t
    <2> QED BY <1>16, <2>1, <2>2, <2>3, RevertPositionKeeps DEF t
  <1> QED BY <1>3, <1>6, <1>16, <1>17 DEF Kept
-----------------------------------------------------------------------------
(***************************************************************************)
(* Windows read, and close; frames are lost.                               *)
(***************************************************************************)
\* The entry's record is good as long as no window knows anything new.
LEMMA KnowingLessIsGood ==
    ASSUME Good(Entry(players)), UNCHANGED <<players, entry>>, Fits(responses, Message)',
           \A p \in Picture : StyleIsOut(responses, p)' => StyleIsOut(responses, p),
           \A p \in PositionState : PositionIsOut(responses, p)' => PositionIsOut(responses, p)
    PROVE  Good(Entry(players))'
  <1>1. /\ Entry(players).style = style /\ Entry(players).position = position
        /\ Entry(players).stored = stored /\ Entry(players).active = active
        /\ Entry(players).out = responses /\ Entry(players).to = players
    BY DEF Entry
  <1>2. Entry(players)' = Sheet(style, position, stored, active, responses', players, TRUE)
    BY DEF Entry, entry, Sheet
  <1>3. /\ style \in StyleState /\ Distinct(style) /\ position \in PositionState
        /\ stored = [style |-> style.committed, position |-> position.committed]
        /\ stored \in [style : Style, position : Position]
        /\ active \in Session \cup {None} /\ players \in Seq(Window)
        /\ active # None => Contains(players, active.owner)
        /\ StylesAgree(responses, style) /\ PositionsAgree(responses, position)
    BY <1>1 DEF Good, Work
  <1>4. Entry(players)' \in Work
    BY <1>2, <1>3 DEF Sheet, Work, Fits
  <1>5. /\ \A p \in Picture : StyleIsOut(responses, p)' =>
              p.rev <= style.rev /\ Agree(p, Snapshot(style))
        /\ \A p, q \in Picture : StyleIsOut(responses, p)' /\ StyleIsOut(responses, q)' => Agree(p, q)
    BY <1>3 DEF StylesAgree
  <1>6. /\ \A p \in PositionState : PositionIsOut(responses, p)' =>
              /\ p.intent <= position.intent /\ p.revision <= position.revision
              /\ AgreePosition(p, position)
        /\ \A p, q \in PositionState :
              PositionIsOut(responses, p)' /\ PositionIsOut(responses, q)' => AgreePosition(p, q)
    BY <1>3 DEF PositionsAgree
  <1>7. StylesAgree(Entry(players).out, Entry(players).style)'
    BY <1>5 DEF StylesAgree, StyleIsOut, Entry, entry
  <1>8. PositionsAgree(Entry(players).out, Entry(players).position)'
    BY <1>6 DEF PositionsAgree, PositionIsOut, Entry, entry
  <1>9. Fits(Entry(players).out, Message)'
    BY DEF Entry, Fits, Depth
  <1>10. /\ Distinct(Entry(players).style)'
         /\ Entry(players)'.stored
               = [style |-> Entry(players)'.style.committed, position |-> Entry(players)'.position.committed]
         /\ Entry(players)'.active # None => Contains(Entry(players)'.to, Entry(players)'.active.owner)
    BY <1>2, <1>3 DEF Sheet, Distinct
  <1> QED BY <1>4, <1>7, <1>8, <1>9, <1>10 DEF Good

\* What a handler leaves is the entry's next state.
LEMMA BecomesGood ==
    ASSUME NEW r, Good(r), Becomes(r), r.to = players', UNCHANGED follower
    PROVE  Good(Entry(players))'
  <1>1. /\ style' = r.style /\ position' = r.position /\ stored' = r.stored
        /\ active' = r.active /\ responses' = r.out
    BY DEF Becomes
  <1>2. Entry(players)' = Sheet(r.style, r.position, r.stored, r.active, r.out, r.to, TRUE)
    BY <1>1 DEF Entry, Sheet
  <1>3. /\ r.style \in StyleState /\ Distinct(r.style) /\ r.position \in PositionState
        /\ r.stored = [style |-> r.style.committed, position |-> r.position.committed]
        /\ r.stored \in [style : Style, position : Position]
        /\ r.active \in Session \cup {None} /\ r.to \in Seq(Window) /\ Fits(r.out, Message)
        /\ r.active # None => Contains(r.to, r.active.owner)
        /\ StylesAgree(r.out, r.style) /\ PositionsAgree(r.out, r.position)
    BY DEF Good, Work
  <1>4. Entry(players)' \in Work
    BY <1>2, <1>3 DEF Sheet, Work, Fits
  <1>5. /\ Entry(players)'.style = r.style /\ Entry(players)'.position = r.position
        /\ Entry(players)'.stored = r.stored /\ Entry(players)'.active = r.active
        /\ Entry(players)'.out = r.out /\ Entry(players)'.to = r.to
    BY <1>2 DEF Sheet
  <1>6. /\ \A p \in Picture : StyleIsOut(Entry(players).out, p)' <=> StyleIsOut(r.out, p)
        /\ \A p \in PositionState : PositionIsOut(Entry(players).out, p)' <=> PositionIsOut(r.out, p)
    BY <1>5 DEF StyleIsOut, PositionIsOut
  <1>7. StylesAgree(Entry(players).out, Entry(players).style)'
    BY <1>3, <1>5, <1>6 DEF StylesAgree
  <1>8. PositionsAgree(Entry(players).out, Entry(players).position)'
    BY <1>3, <1>5, <1>6 DEF PositionsAgree
  <1>9. Fits(Entry(players).out, Message)'
    BY <1>3, <1>5 DEF Fits, Depth
  <1>10. /\ Distinct(Entry(players).style)'
         /\ Entry(players)'.stored
               = [style |-> Entry(players)'.style.committed, position |-> Entry(players)'.position.committed]
         /\ Entry(players)'.active # None => Contains(Entry(players)'.to, Entry(players)'.active.owner)
    BY <1>3, <1>5 DEF Distinct
  <1> QED BY <1>4, <1>7, <1>8, <1>9, <1>10 DEF Good

\* Messages that are read, dropped or removed tell nothing new.
LEMMA DroppingIsGood ==
    ASSUME Good(Entry(players)), UNCHANGED <<players, entry, follower>>, NEW w \in Window,
           NEW s \in {<<>>, Tail(responses[w])}, s = <<>> \/ responses[w] # <<>>,
           responses' = [responses EXCEPT ![w] = s]
    PROVE  Good(Entry(players))'
  <1>1. Fits(responses, Message)
    BY GoodFields DEF Entry
  <1>2. responses[w] \in Seq(Message) /\ responses \in [Window -> Seq(Message)]
    BY <1>1 DEF Fits
  <1>3. /\ s \in Seq(Message) /\ Len(s) <= Len(responses[w])
        /\ \A i \in 1 .. Len(s) : i + 1 \in 1 .. Len(responses[w]) /\ s[i] = responses[w][i + 1]
    <2>1. CASE s = <<>>
      BY <1>2, <2>1
    <2>2. CASE responses[w] # <<>> /\ s = Tail(responses[w])
      BY <1>2, <2>2, HeadTailProperties
    <2> QED BY <2>1, <2>2
  <1>4. Fits(responses, Message)'
    <2>1. Fits([responses EXCEPT ![w] = s], Message)
      BY <1>1, <1>3, DroppingKeeps
    <2> QED BY <2>1 DEF Fits, Depth
  <1>5. ASSUME NEW v \in Window, NEW i \in 1 .. Len(responses'[v])
        PROVE  \E j \in 1 .. Len(responses[v]) : responses'[v][i] = responses[v][j]
    <2>1. CASE v = w
      BY <1>2, <1>3, <2>1
    <2>2. CASE v # w
      BY <1>2, <2>2
    <2> QED BY <2>1, <2>2
  <1>6. \A p \in Picture : StyleIsOut(responses, p)' => StyleIsOut(responses, p)
    BY <1>5 DEF StyleIsOut
  <1>7. \A p \in PositionState : PositionIsOut(responses, p)' => PositionIsOut(responses, p)
    BY <1>5 DEF PositionIsOut
  <1> QED BY <1>4, <1>6, <1>7, KnowingLessIsGood

\* What a window has is these six fields.
View(s, d, e, p, t, m) ==
    [style |-> s, drawn |-> d, edited |-> e, position |-> p, at |-> t, moved |-> m]

\* A window draws as it should what it begins to follow.
LEMMA DrawingIsFollowed ==
    ASSUME NEW x \in Followed
    PROVE  /\ \A s \in Picture \cup {None} : Effective(s) \in Style
           /\ \A y : (y = x \/ \E s \in Picture : y = [x EXCEPT !.style = s]) =>
                 DrawStyle(y) \in Followed /\ DrawStyle(y).style = y.style /\ DrawStyle(y).position = x.position
           /\ \A p \in PositionState : \A y : y = [x EXCEPT !.position = p] =>
                 DrawPosition(y) \in Followed /\ DrawPosition(y).position = p /\ DrawPosition(y).style = x.style
  <1>1. ASSUME NEW s \in Picture \cup {None} PROVE Effective(s) \in Style
    <2>1. CASE s = None
      BY <2>1, SharedStyleAssumption DEF Effective, Style, Families
    <2>2. CASE s # None
      <3>1. s.font.preferred \in Families /\ s.live.fontColor \in Color
        BY <2>2 DEF Picture, Font, Style
      <3> QED BY <2>2, <3>1 DEF Effective, Style, Families
    <2> QED BY <2>1, <2>2
  <1>2. /\ x = View(x.style, x.drawn, x.edited, x.position, x.at, x.moved)
        /\ x.style \in Picture \cup {None} /\ x.drawn \in Style /\ x.edited \in BOOLEAN
        /\ x.position \in PositionState /\ x.at \in Position /\ x.moved \in BOOLEAN
        /\ (~x.edited => x.drawn = Effective(x.style)) /\ (~x.moved => x.at = x.position.live)
    BY DEF Followed, View
  <1>3. ASSUME NEW y, NEW s \in Picture \cup {None},
               y = View(s, x.drawn, x.edited, x.position, x.at, x.moved)
        PROVE  DrawStyle(y) \in Followed /\ DrawStyle(y).style = y.style /\ DrawStyle(y).position = x.position
    <2>1. PICK b : b = FALSE
      OBVIOUS
    <2>2. DrawStyle(y) = [[y EXCEPT !.drawn = Effective(y.style)] EXCEPT !.edited = b]
      BY <2>1 DEF DrawStyle
    <2>3. y.style = s
      BY <1>3 DEF View
    <2>4. DrawStyle(y) = View(s, Effective(s), b, x.position, x.at, x.moved)
      BY <1>3, <2>2, <2>3 DEF View
    <2>5. Effective(s) \in Style /\ b \in BOOLEAN
      BY <1>1, <2>1
    <2>6. View(s, Effective(s), b, x.position, x.at, x.moved) \in Followed
      BY <1>2, <2>1, <2>5 DEF View, Followed
    <2> QED BY <2>3, <2>4, <2>6 DEF View
  <1>4. ASSUME NEW p \in PositionState, NEW y, y = [x EXCEPT !.position = p]
        PROVE  DrawPosition(y) \in Followed /\ DrawPosition(y).position = p /\ DrawPosition(y).style = x.style
    <2>1. PICK b : b = FALSE
      OBVIOUS
    <2>2. y = View(x.style, x.drawn, x.edited, p, x.at, x.moved)
      BY <1>2, <1>4 DEF View
    <2>3. DrawPosition(y) = [[y EXCEPT !.at = y.position.live] EXCEPT !.moved = b]
      BY <2>1 DEF DrawPosition
    <2>4. y.position = p /\ p.live \in Position
      BY <2>2 DEF PositionState, View
    <2>5. DrawPosition(y) = View(x.style, x.drawn, x.edited, p, p.live, b)
      BY <2>2, <2>3, <2>4 DEF View
    <2>6. View(x.style, x.drawn, x.edited, p, p.live, b) \in Followed
      BY <1>2, <2>1, <2>4 DEF View, Followed
    <2> QED BY <2>5, <2>6 DEF View
  <1>5. ASSUME NEW y, y = x \/ \E s \in Picture : y = [x EXCEPT !.style = s]
        PROVE  \E s \in Picture \cup {None} : y = View(s, x.drawn, x.edited, x.position, x.at, x.moved)
    BY <1>2, <1>5 DEF View
  <1> QED BY <1>1, <1>3, <1>4, <1>5

\* A window follows what it was told.
LEMMA ReceivingIsGood ==
    ASSUME Good(Entry(players)), follower \in [Window -> Followed],
           NEW w \in Window, NEW redraws, Receive(w, redraws)
    PROVE  Good(Entry(players))' /\ follower' \in [Window -> Followed]
  <1> DEFINE X == {x \in Followed : /\ x.style # None => StyleIsOut(responses, x.style)
                                    /\ x.position # Unplaced => PositionIsOut(responses, x.position)}
             own == FollowAll(follower[w], responses[w], redraws)
  <1>1. Fits(responses, Message)
    BY GoodFields DEF Entry
  <1>2. /\ responses[w] \in Seq(Message) /\ responses \in [Window -> Seq(Message)]
        /\ Len(responses[w]) \in Nat /\ DOMAIN responses[w] = 1 .. Len(responses[w])
    BY <1>1 DEF Fits
  <1>3. /\ responses' = [responses EXCEPT ![w] = <<>>] /\ UNCHANGED <<players, entry>>
        /\ follower' = [follower EXCEPT ![w] = own]
    BY DEF Receive, Received
  <1>4. own \in X
    <2>1. follower[w] \in X
      BY DEF StyleIsOut, PositionIsOut
    <2>2. ASSUME NEW x \in X, NEW i \in 1 .. Len(responses[w])
          PROVE  Follow(x, responses[w][i], redraws) \in X
      <3> DEFINE m == responses[w][i]
                 s == [x EXCEPT !.style = m.state]
                 p == [x EXCEPT !.position = m.state]
                 a == DrawStyle(s)
                 b == DrawPosition(p)
      <3>1. m \in Message
        BY <1>2, ElementOfSeq
      <3>2. /\ x \in Followed
            /\ x.style # None => StyleIsOut(responses, x.style)
            /\ x.position # Unplaced => PositionIsOut(responses, x.position)
        OBVIOUS
      <3>3. \/ Follow(x, m, redraws) = x \/ Follow(x, m, redraws) = DrawStyle(x)
            \/ m.name = "style" /\ Follow(x, m, redraws) = a
            \/ m.name = "position" /\ Follow(x, m, redraws) = b
        BY DEF Follow
      <3> HIDE DEF m, X
      <3>4. DrawStyle(x) \in Followed /\ DrawStyle(x).style = x.style /\ DrawStyle(x).position = x.position
        BY <3>2, DrawingIsFollowed
      <3>5. DrawStyle(x) \in X
        BY <3>2, <3>4 DEF X
      <3>6. ASSUME m.name = "style" PROVE a \in X
        <4>1. m.state \in Picture /\ m = [name |-> "style", state |-> m.state]
          BY <3>1, <3>6 DEF Message
        <4>2. StyleIsOut(responses, m.state)
          BY <4>1 DEF StyleIsOut, m
        <4>3. s.style = m.state
          BY <3>2 DEF Followed
        <4> HIDE DEF s
        <4>4. a \in Followed /\ a.style = m.state /\ a.position = x.position
          BY <3>2, <4>1, <4>3, DrawingIsFollowed DEF s
        <4> HIDE DEF a
        <4> QED BY <3>2, <4>2, <4>4 DEF X
      <3>7. ASSUME m.name = "position" PROVE b \in X
        <4>1. m.state \in PositionState /\ m = [name |-> "position", state |-> m.state]
          BY <3>1, <3>7 DEF Message
        <4>2. PositionIsOut(responses, m.state)
          BY <4>1 DEF PositionIsOut, m
        <4>3. b \in Followed /\ b.position = m.state /\ b.style = x.style
          BY <3>2, <4>1, DrawingIsFollowed
        <4> HIDE DEF b
        <4> QED BY <3>2, <4>2, <4>3 DEF X
      <3> HIDE DEF a, b
      <3> QED BY <3>3, <3>5, <3>6, <3>7 DEF m
    <2> HIDE DEF X
    <2> QED BY <1>2, <2>1, <2>2, FoldFollow
  <1> HIDE DEF own
  <1>5. /\ own \in Followed
        /\ own.style # None => StyleIsOut(responses, own.style)
        /\ own.position # Unplaced => PositionIsOut(responses, own.position)
    BY <1>4
  <1> HIDE DEF X
  <1>6. follower' \in [Window -> Followed]
    BY <1>3, <1>5
  <1>7. Fits(responses, Message)'
    <2>1. <<>> \in Seq(Message) /\ Len(<<>>) <= Len(responses[w])
      BY <1>2
    <2>2. Fits([responses EXCEPT ![w] = <<>>], Message)
      BY <1>1, <2>1, DroppingKeeps
    <2> QED BY <1>3, <2>2 DEF Fits, Depth
  <1>8. ASSUME NEW v \in Window
        PROVE  /\ responses'[v] = <<>> \/ responses'[v] = responses[v]
               /\ follower'[v] = own \/ follower'[v] = follower[v]
    BY <1>2, <1>3
  <1>9. \A p \in Picture : StyleIsOut(responses, p)' => StyleIsOut(responses, p)
    <2> SUFFICES ASSUME NEW p \in Picture, StyleIsOut(responses, p)' PROVE StyleIsOut(responses, p)
      OBVIOUS
    <2>1. CASE p # None /\ \E v \in Window : p = follower'[v].style
      BY <1>5, <1>8, <2>1 DEF StyleIsOut
    <2>2. ASSUME NEW v \in Window, NEW i \in 1 .. Len(responses'[v]),
                 responses'[v][i] = [name |-> "style", state |-> p]
          PROVE  StyleIsOut(responses, p)
      <3>1. responses'[v] = responses[v]
        BY <1>8, <2>2
      <3> QED BY <2>2, <3>1 DEF StyleIsOut
    <2> QED BY <2>1, <2>2 DEF StyleIsOut
  <1>10. \A p \in PositionState : PositionIsOut(responses, p)' => PositionIsOut(responses, p)
    <2> SUFFICES ASSUME NEW p \in PositionState, PositionIsOut(responses, p)'
                 PROVE  PositionIsOut(responses, p)
      OBVIOUS
    <2>1. CASE p # Unplaced /\ \E v \in Window : p = follower'[v].position
      BY <1>5, <1>8, <2>1 DEF PositionIsOut
    <2>2. ASSUME NEW v \in Window, NEW i \in 1 .. Len(responses'[v]),
                 responses'[v][i] = [name |-> "position", state |-> p]
          PROVE  PositionIsOut(responses, p)
      <3>1. responses'[v] = responses[v]
        BY <1>8, <2>2
      <3> QED BY <2>2, <3>1 DEF PositionIsOut
    <2> QED BY <2>1, <2>2 DEF PositionIsOut
  <1> QED BY <1>3, <1>6, <1>7, <1>9, <1>10, KnowingLessIsGood
-----------------------------------------------------------------------------
(***************************************************************************)
(* Steps of users and windows.                                             *)
(***************************************************************************)
\* The entry's record with some list of windows.
LEMMA EntryIsGood ==
    ASSUME Good(Entry(players)), NEW to \in Seq(Window)
    PROVE  /\ Entry(to).to = to /\ Entry(to).active = active
           /\ active \in Session \cup {None}
           /\ Good([Entry(to) EXCEPT !.active = None]) /\ [Entry(to) EXCEPT !.active = None].to = to
           /\ (active # None => Contains(to, active.owner)) => Good(Entry(to))
  <1>1. /\ Entry(players).style = style /\ Entry(players).position = position
        /\ Entry(players).stored = stored /\ Entry(players).active = active
        /\ Entry(players).out = responses
    BY DEF Entry
  <1>2. /\ style \in StyleState /\ Distinct(style) /\ position \in PositionState
        /\ stored = Committing(style, position) /\ active \in Session \cup {None}
        /\ Fits(responses, Message) /\ StylesAgree(responses, style)
        /\ PositionsAgree(responses, position)
    BY <1>1, GoodFields
  <1>3. \A ac \in Session \cup {None} : (ac # None => Contains(to, ac.owner)) =>
           Good(Sheet(style, position, stored, ac, responses, to, TRUE))
    BY <1>2, SheetIsGood
  <1>4. Entry(to) = Sheet(style, position, stored, active, responses, to, TRUE)
    BY DEF Entry, Sheet
  <1>5. [Entry(to) EXCEPT !.active = None] = Sheet(style, position, stored, None, responses, to, TRUE)
    <2>1. \A e, t : e = Sheet(style, position, stored, active, responses, to, t) =>
             [e EXCEPT !.active = None] = Sheet(style, position, stored, None, responses, to, t)
      BY DEF Sheet
    <2> QED BY <1>4, <2>1
  <1>6. Entry(to).to = to /\ Entry(to).active = active /\ [Entry(to) EXCEPT !.active = None].to = to
    BY <1>4, <1>5 DEF Sheet
  <1>7. Good([Entry(to) EXCEPT !.active = None])
    BY <1>3, <1>5
  <1> QED BY <1>2, <1>3, <1>4, <1>6, <1>7

\* Where the entry does nothing its record stays good.
LEMMA StayingIsGood ==
    ASSUME Good(Entry(players)), UNCHANGED <<players, responses, entry, follower>>
    PROVE  Good(Entry(players))'
  <1>1. Fits(responses, Message)'
    BY GoodFields DEF Entry, Fits, Depth
  <1>2. \A p \in Picture : StyleIsOut(responses, p)' => StyleIsOut(responses, p)
    BY DEF StyleIsOut
  <1>3. \A p \in PositionState : PositionIsOut(responses, p)' => PositionIsOut(responses, p)
    BY DEF PositionIsOut
  <1> QED BY <1>1, <1>2, <1>3, KnowingLessIsGood

\* A user's messages find room, or do not; what the window draws changes only
\* where the user has changed it.
LEMMA UserPostsKeeps ==
    ASSUME SharedInv, NEW w \in Window, NEW frames \in Seq(Request),
           NEW f \in Followed, f.style = follower[w].style, f.position = follower[w].position,
           UserPosts(w, frames, f)
    PROVE  SharedInv'
  <1> USE DEF SharedInv
  <1>1. PlayersOK' /\ WindowsOK' /\ follower' \in [Window -> Followed]
    BY DEF UserPosts, PlayersOK, WindowsOK
  <1>2. RequestsOK(Request)'
    <2>1. /\ requests \o Fitting(frames) \in Seq(Request)
          /\ Len(requests \o Fitting(frames)) <= MaxDepth
      BY PostingKeeps
    <2> QED BY <2>1 DEF UserPosts, RequestsOK
  <1>3. Good(Entry(players))'
    <2>1. ASSUME NEW v \in Window
          PROVE  follower'[v].style = follower[v].style /\ follower'[v].position = follower[v].position
      BY DEF UserPosts
    <2>2. UNCHANGED <<players, responses, entry>>
      BY DEF UserPosts
    <2>3. Fits(responses, Message)'
      BY <2>2, GoodFields DEF Entry, Fits, Depth
    <2>4. \A p \in Picture : StyleIsOut(responses, p)' => StyleIsOut(responses, p)
      BY <2>1, <2>2 DEF StyleIsOut
    <2>5. \A p \in PositionState : PositionIsOut(responses, p)' => PositionIsOut(responses, p)
      BY <2>1, <2>2 DEF PositionIsOut
    <2> QED BY <2>2, <2>3, <2>4, <2>5, KnowingLessIsGood
  <1>4. PickerTyped' /\ NativeTyped'
    BY DEF UserPosts, PickerTyped, NativeTyped, picker, native
  <1>5. CountersTyped'
    BY SharedStyleAssumption DEF UserPosts, Act, CountersTyped
  <1> QED BY <1>1, <1>2, <1>3, <1>4, <1>5

\* A window opens, closes, receives, or tells that it is there; frames are lost.
LEMMA WindowStepKeeps ==
    ASSUME SharedInv, NEW w \in Window,
           \/ OpenWindow(w) \/ (\E redraws \in BOOLEAN : Receive(w, redraws)) \/ CloseWindow(w)
           \/ Heartbeat(w) /\ UNCHANGED <<entry, picker, native, follower, counters>>
           \/ CleanupExpired(w) /\ UNCHANGED faults /\ Others
           \/ Fails /\ Others /\ (LoseRequest \/ LoseResponse(w))
    PROVE  SharedInv'
  <1> USE DEF SharedInv
  <1>1. /\ Cancellations(w) \in Seq(Request) /\ Questions(w) \in Seq(Request)
        /\ \A name \in {"heartbeat", "close"} : [from |-> w, name |-> name] \in Request
    BY DEF Cancellations, Questions, Request
  <1>2. Fits(responses, Message) /\ Held(Request, Message)
    BY GoodFields DEF Held, Entry
  <1>3. Held(Request, Message)' /\ UNCHANGED players
    <2>1. \/ Open(w, Questions(w)) \/ Heartbeat(w) \/ Received(w)
          \/ Close(w, Cancellations(w)) \/ CloseAborts(w, Cancellations(w))
          \/ CleanupExpired(w) \/ LoseRequest \/ LoseResponse(w)
      BY DEF OpenWindow, Receive, CloseWindow
    <2> QED BY <1>1, <1>2, <2>1, WindowsKeepHeld
  <1>4. PickerTyped' /\ NativeTyped'
    BY DEF OpenWindow, Receive, CloseWindow, Others, PickerTyped, NativeTyped, picker, native
  <1>5. CountersTyped'
    BY SharedStyleAssumption DEF OpenWindow, Receive, CloseWindow, Others, Fails, Act, CountersTyped, counters
  <1>6. Good(Entry(players))' /\ follower' \in [Window -> Followed]
    <2>1. CASE \E redraws \in BOOLEAN : Receive(w, redraws)
      BY <2>1, ReceivingIsGood
    <2>2. CASE ~\E redraws \in BOOLEAN : Receive(w, redraws)
      <3>1. UNCHANGED <<entry, follower>>
        BY <2>2 DEF OpenWindow, CloseWindow, Others
      <3>2. \/ UNCHANGED responses
            \/ responses' = [responses EXCEPT ![w] = <<>>]
            \/ responses[w] # <<>> /\ responses' = [responses EXCEPT ![w] = Tail(responses[w])]
        BY <2>2 DEF OpenWindow, Open, CloseWindow, Close, CloseAborts, Heartbeat, CleanupExpired, LoseRequest, LoseResponse
      <3>3. CASE UNCHANGED responses
        BY <1>3, <3>1, <3>3, StayingIsGood
      <3>4. CASE responses' = [responses EXCEPT ![w] = <<>>]
        BY <1>3, <3>1, <3>4, DroppingIsGood
      <3>5. CASE responses[w] # <<>> /\ responses' = [responses EXCEPT ![w] = Tail(responses[w])]
        BY <1>3, <3>1, <3>5, DroppingIsGood
      <3> QED BY <3>1, <3>2, <3>3, <3>4, <3>5
    <2> QED BY <2>1, <2>2
  <1> QED BY <1>3, <1>4, <1>5, <1>6 DEF Held

\* What a user has changed is drawn, whatever is followed.
LEMMA ChangingIsFollowed ==
    ASSUME NEW x \in Followed
    PROVE  \A f : (\E c \in Color : f = DrawColor(x, c)) \/ (\E p \in Position : f = DrawAt(x, p)) =>
                f \in Followed /\ f.style = x.style /\ f.position = x.position
  <1>1. /\ x.style \in Picture \cup {None} /\ x.drawn \in Style /\ x.edited \in BOOLEAN
        /\ x.position \in PositionState /\ x.at \in Position /\ x.moved \in BOOLEAN
        /\ (~x.edited => x.drawn = Effective(x.style)) /\ (~x.moved => x.at = x.position.live)
    BY DEF Followed
  <1>2. PICK b : b = TRUE
    OBVIOUS
  <1>3. ASSUME NEW f, NEW c \in Color, f = DrawColor(x, c)
        PROVE  f \in Followed /\ f.style = x.style /\ f.position = x.position
    <2> DEFINE d == [Effective(x.style) EXCEPT !.fontColor = c]
    <2>1. Effective(x.style) \in Style
      BY <1>1, DrawingIsFollowed
    <2>2. d \in Style
      BY <2>1 DEF Style
    <2>3. f = [x EXCEPT !.drawn = d, !.edited = b]
      BY <1>2, <1>3 DEF DrawColor
    <2> HIDE DEF d
    <2> QED BY <1>1, <1>2, <2>2, <2>3 DEF Followed
  <1>4. ASSUME NEW f, NEW p \in Position, f = DrawAt(x, p)
        PROVE  f \in Followed /\ f.style = x.style /\ f.position = x.position
    <2>1. f = [x EXCEPT !.at = p, !.moved = b]
      BY <1>2, <1>4 DEF DrawAt
    <2> QED BY <1>1, <1>2, <2>1 DEF Followed
  <1> QED BY <1>3, <1>4

\* What users do posts frames that are requests, and is drawn as changed.
LEMMA UsersKeep ==
    ASSUME SharedInv, Users
    PROVE  SharedInv'
  <1>1. PICK w \in Window :
           \/ \E c \in Color : Edit(w, c)
           \/ \E k \in {"font", "color"} : OpenPicker(w, k)
           \/ \E p \in Position : MoveTo(w, p) \/ DropAt(w, p)
           \/ Ready(w) \/ CloseWindow(w)
    BY DEF Users
  <1>2. ASSUME acts < MaxActs PROVE acts + 1 \in Id
    BY <1>2, SharedStyleAssumption DEF SharedInv, CountersTyped, Id
  <1>3. \A frames, f : UserPosts(w, frames, f) => acts < MaxActs
    BY DEF UserPosts, Act
  <1>9. follower[w] \in Followed
    BY DEF SharedInv
  <1>4. CASE \E c \in Color : Edit(w, c)
    <2>1. PICK c \in Color : Edit(w, c)
      BY <1>4
    <2> DEFINE one == [from |-> w, name |-> "edit-preview", id |-> acts + 1, value |-> c]
               two == [from |-> w, name |-> "edit-commit", id |-> acts + 1, value |-> c]
               f == DrawColor(follower[w], c)
    <2>2. UserPosts(w, <<one, two>>, f)
      BY <2>1 DEF Edit
    <2>5. f \in Followed /\ f.style = follower[w].style /\ f.position = follower[w].position
      BY <1>9, ChangingIsFollowed
    <2>3. one \in Request /\ two \in Request
      BY <1>2, <1>3, <2>2 DEF Request
    <2> HIDE DEF one, two, f
    <2>4. <<one, two>> \in Seq(Request)
      BY <2>3
    <2> QED BY <2>2, <2>4, <2>5, UserPostsKeeps
  <1>5. CASE \E k \in {"font", "color"} : OpenPicker(w, k)
    <2>1. PICK k \in {"font", "color"} : OpenPicker(w, k)
      BY <1>5
    <2> DEFINE one == [from |-> w, name |-> "picker-open", id |-> acts + 1, value |-> k]
    <2>2. UserPosts(w, <<one>>, follower[w])
      BY <2>1 DEF OpenPicker, Asks
    <2>3. one \in Request
      BY <1>2, <1>3, <2>2 DEF Request
    <2> HIDE DEF one
    <2>4. <<one>> \in Seq(Request)
      BY <2>3
    <2> QED BY <1>9, <2>2, <2>4, UserPostsKeeps
  <1>6. CASE \E p \in Position : MoveTo(w, p) \/ DropAt(w, p)
    <2>1. PICK p \in Position : MoveTo(w, p) \/ DropAt(w, p)
      BY <1>6
    <2> DEFINE one == [from |-> w, name |-> "position-preview", value |-> p]
               two == [from |-> w, name |-> "position-save", value |-> p]
               f == DrawAt(follower[w], p)
    <2>2. UserPosts(w, <<one>>, f) \/ UserPosts(w, <<two>>, f)
      BY <2>1 DEF MoveTo, DropAt, Places
    <2>5. f \in Followed /\ f.style = follower[w].style /\ f.position = follower[w].position
      BY <1>9, ChangingIsFollowed
    <2>3. one \in Request /\ two \in Request
      BY DEF Request
    <2> HIDE DEF one, two, f
    <2>4. <<one>> \in Seq(Request) /\ <<two>> \in Seq(Request)
      BY <2>3
    <2> QED BY <2>2, <2>4, <2>5, UserPostsKeeps
  <1>7. CASE Ready(w)
    <2>1. UserPosts(w, Questions(w), follower[w])
      BY <1>7 DEF Ready, Asks
    <2>2. Questions(w) \in Seq(Request)
      BY DEF Questions, Request
    <2> QED BY <1>9, <2>1, <2>2, UserPostsKeeps
  <1>8. CASE CloseWindow(w)
    BY <1>8, WindowStepKeeps
  <1> QED BY <1>1, <1>4, <1>5, <1>6, <1>7, <1>8
-----------------------------------------------------------------------------
(***************************************************************************)
(* Frames at the global entry.                                             *)
(***************************************************************************)
\* The frame that is taken, and the list of windows with its window.
LEMMA TakingIsGood ==
    ASSUME SharedInv, NEW name, Handles(name)
    PROVE  /\ RequestsOK(Request)' /\ PlayersOK' /\ WindowsOK'
           /\ Frame \in Request /\ Frame.name = name /\ Frame.from \in Window
           /\ Good(Here) /\ Here.to = players' /\ Here.active = active
           /\ Contains(players', Frame.from)
  <1>1. requests \in Seq(Request) /\ requests # <<>> /\ Frame.name = name /\ Took(Frame)
    BY DEF SharedInv, RequestsOK, Handles, IsRequest, Frame
  <1>2. Frame \in Request
    BY <1>1, HeadTailProperties DEF Frame
  <1>3. Frame.from \in Window
    BY <1>2 DEF Request
  <1>4. /\ RequestsOK(Request)' /\ PlayersOK' /\ WindowsOK'
        /\ Contains(players', Frame.from)
        /\ \A v : Registered(v) => Contains(players', v)
    BY <1>1, <1>3, TakingKeeps DEF SharedInv, Frame
  <1>5. players' \in Seq(Window) /\ players' = Seen(Frame.from)
    BY <1>1, <1>4 DEF PlayersOK, Took
  <1>6. active # None => Contains(players', active.owner)
    <2>1. Entry(players).active = active /\ Entry(players).to = players
      BY DEF Entry
    <2>2. active # None => Contains(players, active.owner)
      BY <2>1, GoodFields DEF SharedInv
    <2> QED BY <1>4, <2>2 DEF Registered
  <1>7. Good(Entry(players')) /\ Entry(players').to = players' /\ Entry(players').active = active
    BY <1>5, <1>6, EntryIsGood DEF SharedInv
  <1> QED BY <1>1, <1>2, <1>3, <1>4, <1>5, <1>7 DEF Here

\* What a frame says depends on its name.
LEMMA FrameFields ==
    ASSUME NEW v \in Request
    PROVE  /\ v.name \in {"edit-preview", "edit-commit"} => v.id \in Id /\ v.value \in Color
           /\ v.name \in {"position-preview", "position-save"} => v.value \in Position
           /\ v.name = "picker-open" => v.id \in Id /\ v.value \in {"font", "color"}
  BY DEF Request

\* Handlers that change what the entry holds, and nothing of the picker.
LEMMA BecomingKeeps ==
    ASSUME SharedInv, RequestsOK(Request)', PlayersOK', WindowsOK', UNCHANGED <<picker, native, follower>>,
           CountersTyped', NEW e, e.to = players', NEW r, Kept(e, r), Becomes(r)
    PROVE  SharedInv'
  <1>1. Good(Entry(players))'
    BY BecomesGood DEF Kept
  <1>2. PickerTyped' /\ NativeTyped' /\ follower' \in [Window -> Followed]
    BY DEF SharedInv, PickerTyped, NativeTyped, picker, native
  <1> QED BY <1>1, <1>2 DEF SharedInv

\* The frames of the style and of the position.
LEMMA HandlersKeep ==
    ASSUME SharedInv,
           HandleOther \/ HandleGet \/ HandlePreview \/ \E saves \in BOOLEAN : HandleSave(saves)
    PROVE  SharedInv'
  <1> DEFINE w == Frame.from
  <1>1. CountersTyped'
    BY SharedStyleAssumption DEF SharedInv, CountersTyped, counters, HandleOther, HandleGet,
        HandlePreview, HandleSave, Waits, Saves, Fails
  <1>2. UNCHANGED <<picker, native, follower>>
    BY DEF picker, native, HandleOther, HandleGet, HandlePreview, HandleSave, Waits
  <1>3. CASE HandleOther
    <2>1. /\ RequestsOK(Request)' /\ PlayersOK' /\ WindowsOK' /\ Good(Here)
          /\ Here.to = players'
      BY <1>3, TakingIsGood DEF HandleOther
    <2>2. Becomes(Here)
      BY <1>3 DEF HandleOther, Becomes, Here, Entry, entry
    <2>3. Kept(Here, Here)
      BY <2>1 DEF Kept
    <2> QED BY <1>1, <1>2, <2>1, <2>2, <2>3, BecomingKeeps
  <1>4. CASE HandleGet
    <2>1. Handles("style-get") \/ Handles("position-get")
      BY <1>4 DEF HandleGet
    <2>2. /\ RequestsOK(Request)' /\ PlayersOK' /\ WindowsOK' /\ Good(Here)
          /\ Here.to = players' /\ w \in Window
      BY <2>1, TakingIsGood
    <2>3. Becomes(Result(Here, w)) \/ Becomes(PositionResult(Here, w))
      BY <1>4 DEF HandleGet
    <2>4. Kept(Here, Result(Here, w)) /\ Kept(Here, PositionResult(Here, w))
      BY <2>2, ResultIsTold DEF Told, Kept
    <2> QED BY <1>1, <1>2, <2>2, <2>3, <2>4, BecomingKeeps
  <1>5. CASE HandlePreview
    <2>1. CASE /\ Handles("edit-preview")
               /\ Becomes(PreviewEdit(Here, Frame.id, "fontColor", Frame.value))
      <3>1. /\ RequestsOK(Request)' /\ PlayersOK' /\ WindowsOK' /\ Good(Here)
            /\ Here.to = players' /\ Frame.id \in Id /\ Frame.value \in Color
        BY <2>1, TakingIsGood, FrameFields
      <3>2. Frame.value \in Value("fontColor") /\ "fontColor" \in Field
        BY <3>1 DEF Value, Field
      <3>3. Kept(Here, PreviewEdit(Here, Frame.id, "fontColor", Frame.value))
        BY <3>1, <3>2, PreviewEditKeeps
      <3> QED BY <1>1, <1>2, <2>1, <3>1, <3>3, BecomingKeeps
    <2>2. CASE Handles("position-preview") /\ Becomes(PreviewPosition(Here, Frame.value))
      <3>1. /\ RequestsOK(Request)' /\ PlayersOK' /\ WindowsOK' /\ Good(Here)
            /\ Here.to = players' /\ Frame.value \in Position
        BY <2>2, TakingIsGood, FrameFields
      <3>2. Kept(Here, PreviewPosition(Here, Frame.value))
        BY <3>1, PreviewPositionKeeps
      <3> QED BY <1>1, <1>2, <2>2, <3>1, <3>2, BecomingKeeps
    <2> QED BY <1>5, <2>1, <2>2 DEF HandlePreview
  <1>6. ASSUME NEW saves \in BOOLEAN, HandleSave(saves) PROVE SharedInv'
    <2>1. CASE /\ Handles("edit-commit")
               /\ Becomes(CommitEdit(Here, w, Frame.id, "fontColor", Frame.value, saves))
      <3>1. /\ RequestsOK(Request)' /\ PlayersOK' /\ WindowsOK' /\ Good(Here) /\ w \in Window
            /\ Here.to = players' /\ Frame.id \in Id /\ Frame.value \in Color
        BY <2>1, TakingIsGood, FrameFields
      <3>2. Frame.value \in Value("fontColor") /\ "fontColor" \in Field
        BY <3>1 DEF Value, Field
      <3>3. Kept(Here, CommitEdit(Here, w, Frame.id, "fontColor", Frame.value, saves))
        BY <3>1, <3>2, CommitEditKeeps
      <3> QED BY <1>1, <1>2, <2>1, <3>1, <3>3, BecomingKeeps
    <2>2. CASE Handles("position-save") /\ Becomes(SavePosition(Here, w, Frame.value, saves))
      <3>1. /\ RequestsOK(Request)' /\ PlayersOK' /\ WindowsOK' /\ Good(Here) /\ w \in Window
            /\ Here.to = players' /\ Frame.value \in Position
        BY <2>2, TakingIsGood, FrameFields
      <3>2. Kept(Here, SavePosition(Here, w, Frame.value, saves))
        BY <3>1, SavePositionKeeps
      <3> QED BY <1>1, <1>2, <2>2, <3>1, <3>2, BecomingKeeps
    <2> QED BY <1>6, <2>1, <2>2 DEF HandleSave
  <1> QED BY <1>3, <1>4, <1>5, <1>6

\* The frames of the picker.
LEMMA PickerFramesKeep ==
    ASSUME SharedInv, HandlePickerOpen \/ HandlePickerCancel
    PROVE  SharedInv'
  <1> DEFINE w == Frame.from
  <1>1. CASE HandlePickerOpen
    <2>1. /\ RequestsOK(Request)' /\ PlayersOK' /\ WindowsOK' /\ Good(Here) /\ w \in Window
          /\ Here.to = players' /\ Contains(players', w) /\ Frame.id \in Id
          /\ Frame.value \in {"font", "color"}
      BY <1>1, TakingIsGood, FrameFields DEF HandlePickerOpen
    <2>2. CASE /\ active # None /\ Becomes(Result(Here, w)) /\ UNCHANGED <<opening, launching>>
      <3>1. Kept(Here, Result(Here, w))
        BY <2>1, ResultIsTold DEF Told, Kept
      <3>2. UNCHANGED <<picker, native, follower>> /\ CountersTyped'
        BY <1>1, <2>2 DEF HandlePickerOpen, picker, counters, SharedInv, CountersTyped
      <3> QED BY <2>1, <2>2, <3>1, <3>2, BecomingKeeps
    <2>3. CASE active = None
      <3> DEFINE s == [id |-> Frame.id, owner |-> w, kind |-> Frame.value, previewed |-> None]
                 o == [id |-> Frame.id, owner |-> w, kind |-> Frame.value,
                       step |-> IF client THEN "call" ELSE "start"]
                 r == [Here EXCEPT !.active = s]
      <3>1. /\ Becomes(r) /\ opening' = opening \cup {o}
            /\ launching' = (launching \/ ~(client \/ Starting))
            /\ UNCHANGED <<client, asked, batch, native, follower, counters>>
        BY <1>1, <2>3 DEF HandlePickerOpen
      <3>2. s \in Session /\ s.owner = w
        BY <2>1 DEF Session
      <3>3. o \in Opening
        BY <2>1 DEF Opening
      <3> HIDE DEF s, o
      <3>4. Good(r) /\ r.to = Here.to
        BY <2>1, <3>2, ActiveMoves
      <3> HIDE DEF r
      <3>5. Good(Entry(players))'
        BY <2>1, <3>1, <3>4, BecomesGood
      <3>6. PickerTyped'
        <4>1. launching' \in BOOLEAN
          BY <3>1
        <4> QED BY <3>1, <3>3, <4>1 DEF PickerTyped, SharedInv
      <3>7. NativeTyped' /\ CountersTyped' /\ follower' \in [Window -> Followed]
        BY <3>1 DEF NativeTyped, CountersTyped, native, counters, SharedInv
      <3> QED BY <2>1, <3>5, <3>6, <3>7 DEF SharedInv
    <2> QED BY <1>1, <2>2, <2>3 DEF HandlePickerOpen
  <1>2. CASE HandlePickerCancel
    <2> DEFINE owned == active # None /\ active.owner = w
               r == [Here EXCEPT !.active = None]
    <2>1. /\ RequestsOK(Request)' /\ PlayersOK' /\ WindowsOK' /\ Good(Here) /\ w \in Window
          /\ Here.to = players' /\ Here.active = active
      BY <1>2, TakingIsGood DEF HandlePickerCancel
    <2>2. Good(r) /\ r.to = Here.to
      BY <2>1, ActiveMoves
    <2>3. active # None => active.id \in Id
      BY <2>1, GoodFields DEF Session
    <2>4. \/ Becomes(Result(r, w)) /\ UNCHANGED calls
          \/ Becomes(Here)
      BY <1>2 DEF HandlePickerCancel, Becomes, Here, Entry, entry
    <2> HIDE DEF r
    <2>5. Good(Entry(players))'
      <3>1. Kept(r, Result(r, w))
        BY <2>1, <2>2, ResultIsTold DEF Told, Kept
      <3>2. UNCHANGED follower
        BY <1>2 DEF HandlePickerCancel
      <3> QED BY <2>1, <2>2, <2>4, <3>1, <3>2, BecomesGood DEF Kept
    <2>6. NativeTyped'
      <3>1. calls' \subseteq [id : Id, tells : BOOLEAN]
        <4> DEFINE call == [id |-> active.id, tells |-> TRUE]
        <4>1. active # None => call \in [id : Id, tells : BOOLEAN]
          BY <2>3
        <4>2. calls' = calls \/ (active # None /\ calls' = calls \cup {call})
          BY <1>2 DEF HandlePickerCancel
        <4> HIDE DEF call
        <4> QED BY <4>1, <4>2 DEF NativeTyped, SharedInv
      <3> QED BY <1>2, <3>1 DEF HandlePickerCancel, NativeTyped, SharedInv
    <2>7. PickerTyped' /\ CountersTyped' /\ follower' \in [Window -> Followed]
      BY <1>2 DEF HandlePickerCancel, PickerTyped, CountersTyped, picker, counters, SharedInv
    <2> QED BY <2>1, <2>5, <2>6, <2>7 DEF SharedInv
  <1> QED BY <1>1, <1>2

\* onSessionClose.
LEMMA LeavingIsGood ==
    ASSUME SharedInv, NEW w \in Window,
           HandleClose(w) \/ Expire(w)
    PROVE  SharedInv'
  <1> DEFINE owned == active # None /\ active.owner = w
             e == Entry(players')
  <1>1. /\ RequestsOK(Request)' /\ PlayersOK' /\ WindowsOK'
        /\ \A v : v # w /\ Registered(v) => Contains(players', v)
    BY LeavingKeeps DEF SharedInv, HandleClose, Expire
  <1>2. SessionCloses(w)
    BY DEF HandleClose, Expire
  <1>3. /\ e.to = players' /\ e.active = active /\ active \in Session \cup {None}
        /\ Good([e EXCEPT !.active = None]) /\ [e EXCEPT !.active = None].to = players'
        /\ (active # None => Contains(players', active.owner)) => Good(e)
    BY <1>1, EntryIsGood DEF SharedInv, PlayersOK
  <1> HIDE DEF e
  <1>4. active # None => Registered(active.owner)
    BY GoodFields DEF SharedInv, Registered, Entry
  <1>5. ~owned => Good(e)
    BY <1>1, <1>3, <1>4
  <1>6. Good(Entry(players))'
    <2>1. UNCHANGED follower
      BY <1>2 DEF SessionCloses
    <2>2. CASE owned
      <3>1. Becomes(FailActive(e))
        BY <1>2, <2>2 DEF SessionCloses, e
      <3>2. Good(FailActive(e)) /\ FailActive(e).to = players'
        BY <1>3, <2>2, FailActiveKeeps
      <3> QED BY <2>1, <3>1, <3>2, BecomesGood
    <2>3. CASE ~owned
      <3>1. Becomes(e)
        BY <1>2, <2>3 DEF SessionCloses, e
      <3> QED BY <1>3, <1>5, <2>1, <2>3, <3>1, BecomesGood
    <2> QED BY <2>2, <2>3
  <1>7. NativeTyped'
    <2>1. calls' = calls \/ (active # None /\ calls' = calls \cup {[id |-> active.id, tells |-> FALSE]})
      BY <1>2 DEF SessionCloses
    <2>2. active # None => active.id \in Id
      BY <1>3 DEF Session
    <2>3. calls' \subseteq [id : Id, tells : BOOLEAN]
      <3> DEFINE call == [id |-> active.id, tells |-> FALSE]
      <3>1. active # None => call \in [id : Id, tells : BOOLEAN]
        BY <2>2
      <3>2. calls' = calls \/ (active # None /\ calls' = calls \cup {call})
        BY <2>1
      <3> HIDE DEF call
      <3> QED BY <3>1, <3>2 DEF NativeTyped, SharedInv
    <2> QED BY <1>2, <2>3 DEF SessionCloses, NativeTyped, SharedInv
  <1>8. PickerTyped' /\ follower' \in [Window -> Followed]
    BY <1>2 DEF SessionCloses, PickerTyped, picker, SharedInv
  <1>9. CountersTyped'
    BY SharedStyleAssumption DEF HandleClose, Expire, Fails, CountersTyped, counters, SharedInv
  <1> QED BY <1>1, <1>6, <1>7, <1>8, <1>9 DEF SharedInv
-----------------------------------------------------------------------------
(***************************************************************************)
(* The client of the picker and its process.                               *)
(***************************************************************************)
\* Steps that take nothing from the mailbox.
LEMMA PickerStepKeeps ==
    ASSUME SharedInv, UNCHANGED <<players, requests, window, follower>>,
           Good(Entry(players))', PickerTyped', NativeTyped', CountersTyped'
    PROVE  SharedInv'
  BY DEF SharedInv, PlayersOK, RequestsOK, WindowsOK

\* The entry's record, where a step of the picker begins.
LEMMA NowIsGood ==
    ASSUME SharedInv
    PROVE  /\ Good(Entry(players)) /\ Entry(players).to = players /\ Entry(players).active = active
           /\ active \in Session \cup {None} /\ players \in Seq(Window)
           /\ Entry(players).style = style /\ style \in StyleState /\ Committed \in Families
           /\ Kept(Entry(players), Entry(players))
  <1>1. Good(Entry(players)) /\ players \in Seq(Window)
    BY DEF SharedInv, PlayersOK
  <1>2. Entry(players).to = players /\ Entry(players).active = active /\ Entry(players).style = style
    BY DEF Entry
  <1>3. active \in Session \cup {None} /\ style \in StyleState
    BY <1>1, <1>2, GoodFields
  <1>4. style.committed \in Style
    BY <1>3 DEF StyleState
  <1> QED BY <1>1, <1>2, <1>3, <1>4 DEF Committed, Style, Kept

\* No process, one that has just begun to serve, and what its store keeps.
LEMMA ProcessIsTyped ==
    /\ NoHelper \in Process /\ Serving \in Process
    /\ Len(NoHelper.events) <= EventCapacity /\ Len(Serving.events) <= EventCapacity
  <1>1. NoHelper \in Process /\ NoHelper.events = <<>>
    BY DEF NoHelper, Process
  <1>2. Serving \in Process /\ Serving.events = <<>>
    BY <1>1 DEF Serving, Process
  <1> QED BY <1>1, <1>2, SharedStyleAssumption

\* A process is its six fields.
LEMMA ProcessFields ==
    ASSUME NEW h \in Process
    PROVE  /\ h.active \in Id \cup {None} /\ h.panel \in PanelState \cup {None}
           /\ h.cancelling \in SUBSET Id /\ h.events \in Seq(Event)
           /\ \A x \in Id \cup {None} : LET g == [h EXCEPT !.active = x]
                                        IN  g \in Process /\ g.events = h.events
           /\ \A x \in PanelState \cup {None} : LET g == [h EXCEPT !.panel = x]
                                               IN  g \in Process /\ g.events = h.events
           /\ \A x \in SUBSET Id : LET g == [h EXCEPT !.cancelling = x]
                                   IN  g \in Process /\ g.events = h.events
           /\ \A x \in Seq(Event) : LET g == [h EXCEPT !.events = x]
                                    IN  g \in Process /\ g.events = x
           /\ \A x \in BOOLEAN : LET g == [h EXCEPT !.lost = x]
                                 IN  g \in Process /\ g.events = h.events
  BY DEF Process

\* The store of the helper keeps its limit.
LEMMA StoredIsTyped ==
    ASSUME NEW h \in Process, Len(h.events) <= EventCapacity, NEW v \in Event
    PROVE  Stored(h, v) \in Process /\ Len(Stored(h, v).events) <= EventCapacity
  <1>1. h.events \in Seq(Event) /\ Len(h.events) \in Nat /\ EventCapacity \in Nat \ {0}
    BY SharedStyleAssumption, ProcessFields
  <1>2. CASE Len(h.events) < EventCapacity
    <2> DEFINE s == Append(h.events, v)
    <2>1. s \in Seq(Event) /\ Len(s) = Len(h.events) + 1
      BY <1>1
    <2>2. Stored(h, v) = [h EXCEPT !.events = s]
      BY <1>2 DEF Stored
    <2> HIDE DEF s
    <2>3. Stored(h, v) \in Process /\ Stored(h, v).events = s
      BY <2>1, <2>2, ProcessFields
    <2> QED BY <1>1, <1>2, <2>1, <2>3
  <1>3. CASE ~(Len(h.events) < EventCapacity)
    <2> DEFINE s == Append(Tail(h.events), v)
               g == [h EXCEPT !.events = s]
               k == [g EXCEPT !.lost = TRUE]
    <2>1. h.events # <<>>
      BY <1>1, <1>3
    <2>2. s \in Seq(Event) /\ Len(s) = Len(h.events)
      <3>1. Tail(h.events) \in Seq(Event) /\ Len(Tail(h.events)) = Len(h.events) - 1
        BY <1>1, <2>1, HeadTailProperties
      <3> QED BY <1>1, <3>1
    <2>3. Stored(h, v) = k
      BY <1>3 DEF Stored
    <2> HIDE DEF s
    <2>4. g \in Process /\ g.events = s
      BY <2>2, ProcessFields
    <2> HIDE DEF g
    <2>5. k \in Process /\ k.events = s
      BY <2>4, ProcessFields
    <2> QED BY <2>2, <2>3, <2>5
  <1> QED BY <1>2, <1>3

\* The catch of poll.
LEMMA PollEndsKeeps ==
    ASSUME SharedInv, NEW e, Good(e), e.to = players, PollEnds(e),
           UNCHANGED <<players, follower>>
    PROVE  /\ Good(Entry(players))' /\ client' \in BOOLEAN /\ batch' \in Seq(Event)
           /\ asked' \in [{"start", "poll"} -> Families \cup {"idle"}]
           /\ helper' \in Process /\ Len(helper'.events) <= EventCapacity
  <1> DEFINE c == Caught(e)
             failed == FailActive(c)
             b == UpdateFont(failed.style, failed.style.committed.fontFamily, "unknown")
             u == [failed EXCEPT !.style = b]
             r == IF failed.ok THEN Announce(u) ELSE failed
  <1>1. Becomes(r)
    BY DEF PollEnds
  <1>2. Good(c) /\ c.to = e.to
    BY CaughtIsGood
  <1> HIDE DEF c
  <1>3. /\ c.active \in Session \cup {None} /\ Good([c EXCEPT !.active = None])
        /\ [c EXCEPT !.active = None].to = c.to
    BY <1>2, ActiveMoves, GoodFields
  <1>4. Good(failed) /\ failed.to = c.to
    BY <1>2, <1>3, FailActiveKeeps
  <1> HIDE DEF failed
  <1>5. Later(failed.style, b) /\ b.committed = failed.style.committed
    <2>1. /\ failed.style \in StyleState /\ Distinct(failed.style)
      BY <1>4, GoodFields
    <2>2. failed.style.committed.fontFamily \in Families
      BY <2>1 DEF StyleState, Style
    <2> QED BY <2>1, <2>2, UpdateFontIsLater
  <1> HIDE DEF b
  <1>6. Good(u) /\ u.to = failed.to
    BY <1>4, <1>5, StyleMoves
  <1> HIDE DEF u
  <1>7. Good(r) /\ r.to = players'
    BY <1>2, <1>4, <1>6, AnnouncingIsTold DEF Told
  <1> HIDE DEF r
  <1>8. Good(Entry(players))'
    BY <1>1, <1>7, BecomesGood
  <1>9. /\ client' = FALSE /\ helper' = NoHelper /\ batch' = <<>>
        /\ asked' = [asked EXCEPT !["poll"] = "idle"]
    BY DEF PollEnds
  <1>10. asked' \in [{"start", "poll"} -> Families \cup {"idle"}]
    BY <1>9 DEF SharedInv, PickerTyped
  <1>11. batch' \in Seq(Event) /\ client' \in BOOLEAN
    <2>1. <<>> \in Seq(Event)
      OBVIOUS
    <2>2. client' \in BOOLEAN
      BY <1>9
    <2> QED BY <1>9, <2>1, <2>2
  <1>12. helper' \in Process /\ Len(helper'.events) <= EventCapacity
    BY <1>9, ProcessIsTyped
  <1> QED BY <1>8, <1>10, <1>11, <1>12

\* The helper's start.
LEMMA LaunchKeeps ==
    ASSUME SharedInv, Launched \/ LaunchFails
    PROVE  SharedInv'
  <1>1. Good(Entry(players))' /\ UNCHANGED <<players, requests, window, follower>>
    BY StayingIsGood DEF SharedInv, Launched, LaunchFails, mailbox, entry
  <1>2. PickerTyped'
    <2>1. Settle("failed") \subseteq Opening
      BY DEF Settle, SharedInv, PickerTyped, Opening
    <2> QED BY <2>1, NowIsGood DEF Launched, LaunchFails, SharedInv, PickerTyped
  <1>3. NativeTyped'
    BY ProcessIsTyped DEF Launched, LaunchFails, SharedInv, NativeTyped, native
  <1>4. CountersTyped'
    BY SharedStyleAssumption DEF Launched, LaunchFails, SharedInv, CountersTyped, counters, Fails
  <1> QED BY <1>1, <1>2, <1>3, <1>4, PickerStepKeeps

\* The helper's answer about the font.
LEMMA FontAnsweredKeeps ==
    ASSUME SharedInv, NEW by \in {"start", "poll"}, NEW a \in {"available", "unavailable"},
           FontAnswered(by, a)
    PROVE  SharedInv'
  <1> DEFINE b == UpdateFont(style, asked[by], a)
             p == [Entry(players) EXCEPT !.style = b]
             e == Announce(p)
  <1>1. /\ asked[by] # "idle" /\ UNCHANGED <<players, requests, window, launching, calls, follower, counters>>
        /\ IF by = "poll" /\ ~e.ok THEN PollEnds(e)
           ELSE /\ Becomes(e) /\ asked' = [asked EXCEPT ![by] = "idle"]
                /\ UNCHANGED <<client, helper, batch>>
        /\ opening' = opening \/ opening' = Settle("ready") \/ opening' = Settle("failed")
    BY NowIsGood DEF FontAnswered
  <1>2. Good(e) /\ e.to = players
    <2>1. asked[by] \in Families
      BY <1>1 DEF SharedInv, PickerTyped
    <2>2. Later(style, b) /\ b.committed = style.committed
      BY <2>1, NowIsGood, GoodFields, UpdateFontIsLater
    <2> HIDE DEF b
    <2>3. Good(p) /\ p.to = players
      BY <2>2, NowIsGood, StyleMoves
    <2> HIDE DEF p
    <2> QED BY <2>3, AnnouncingIsTold DEF Told
  <1> HIDE DEF e
  <1>3. /\ Good(Entry(players))' /\ client' \in BOOLEAN /\ batch' \in Seq(Event)
        /\ asked' \in [{"start", "poll"} -> Families \cup {"idle"}]
        /\ helper' \in Process /\ Len(helper'.events) <= EventCapacity
    <2>1. CASE PollEnds(e)
      BY <1>1, <1>2, <2>1, PollEndsKeeps
    <2>2. CASE /\ Becomes(e) /\ asked' = [asked EXCEPT ![by] = "idle"]
               /\ UNCHANGED <<client, helper, batch>>
      BY <1>1, <1>2, <2>2, BecomesGood DEF SharedInv, PickerTyped, NativeTyped
    <2> QED BY <1>1, <2>1, <2>2
  <1>4. PickerTyped'
    <2>1. Settle("failed") \subseteq Opening /\ Settle("ready") \subseteq Opening
      BY DEF Settle, SharedInv, PickerTyped, Opening
    <2> QED BY <1>1, <1>3, <2>1 DEF PickerTyped, SharedInv
  <1>5. NativeTyped' /\ CountersTyped'
    BY <1>1, <1>3 DEF NativeTyped, CountersTyped, SharedInv, counters
  <1> QED BY <1>1, <1>3, <1>4, <1>5, PickerStepKeeps

\* The helper died before it told whether a font is available.
LEMMA FontNotAnsweredKeeps ==
    ASSUME SharedInv, NEW by \in {"start", "poll"}, FontNotAnswered(by)
    PROVE  SharedInv'
  <1>1. UNCHANGED <<players, requests, window, launching, calls, follower, counters>>
    BY DEF FontNotAnswered
  <1>2. /\ Good(Entry(players))' /\ client' \in BOOLEAN /\ batch' \in Seq(Event)
        /\ asked' \in [{"start", "poll"} -> Families \cup {"idle"}]
        /\ helper' \in Process /\ Len(helper'.events) <= EventCapacity
        /\ opening' = opening \/ opening' = Settle("failed")
    <2>1. CASE PollEnds(Entry(players)) /\ UNCHANGED opening
      BY <1>1, <2>1, NowIsGood, PollEndsKeeps
    <2>2. CASE /\ asked' = [asked EXCEPT ![by] = "idle"] /\ opening' = Settle("failed")
               /\ UNCHANGED <<responses, entry, client, helper, batch>>
      BY <1>1, <2>2, NowIsGood, StayingIsGood DEF SharedInv, PickerTyped, NativeTyped
    <2> QED BY <2>1, <2>2 DEF FontNotAnswered
  <1>3. PickerTyped'
    <2>1. Settle("failed") \subseteq Opening
      BY DEF Settle, SharedInv, PickerTyped, Opening
    <2> QED BY <1>1, <1>2, <2>1 DEF PickerTyped, SharedInv
  <1>4. NativeTyped' /\ CountersTyped'
    BY <1>1, <1>2 DEF NativeTyped, CountersTyped, SharedInv, counters
  <1> QED BY <1>1, <1>2, <1>3, <1>4, PickerStepKeeps

\* A handler that waited goes on, and the helper opens its panel, or does not.
LEMMA OpeningKeeps ==
    ASSUME SharedInv, NEW o \in opening, Proceed(o) \/ Opens(o) \/ OpenFails(o)
    PROVE  SharedInv'
  <1>1. o \in Opening /\ o.id \in Id /\ o.owner \in Window /\ o.kind \in {"font", "color"}
    BY DEF SharedInv, PickerTyped, Opening
  <1>2. /\ UNCHANGED <<players, requests, window, follower, client, launching, asked, batch, calls>>
        /\ UNCHANGED counters
    BY DEF Proceed, Opens, OpenFails, mailbox, native
  <1>3. Good(Entry(players))'
    <2>1. CASE UNCHANGED <<responses, entry>>
      BY <1>2, <2>1, NowIsGood, StayingIsGood
    <2>2. ASSUME NEW x \in {active, None},
                 Becomes(Result([Entry(players) EXCEPT !.active = x], o.owner))
          PROVE  Good(Entry(players))'
      <3> DEFINE p == [Entry(players) EXCEPT !.active = x]
      <3>1. x \in Session \cup {None} /\ (x # None => Contains(players, x.owner))
        BY NowIsGood, GoodFields
      <3>2. Good(p) /\ p.to = players
        BY <3>1, NowIsGood, ActiveMoves
      <3> HIDE DEF p
      <3>3. Good(Result(p, o.owner)) /\ Result(p, o.owner).to = players
        BY <1>1, <3>2, ResultIsTold DEF Told
      <3> QED BY <1>2, <2>2, <3>3, BecomesGood DEF p
    <2>3. CASE Proceed(o)
      BY <2>1, <2>3 DEF Proceed, mailbox
    <2>4. CASE Opens(o)
      BY <2>1, <2>2, <2>4 DEF Opens
    <2>5. CASE OpenFails(o)
      <3>1. Entry(players).active = active
        BY NowIsGood
      <3> QED BY <2>2, <2>5, <3>1 DEF OpenFails
    <2> QED BY <2>3, <2>4, <2>5
  <1>4. PickerTyped'
    <2>1. opening' \subseteq opening \cup {[o EXCEPT !.step = "call"]}
      BY DEF Proceed, Opens, OpenFails
    <2>2. [o EXCEPT !.step = "call"] \in Opening
      BY <1>1 DEF Opening
    <2> QED BY <1>2, <2>1, <2>2 DEF PickerTyped, SharedInv
  <1>5. NativeTyped'
    <2> DEFINE panel == [id |-> o.id, kind |-> o.kind, color |-> None]
               g == [helper EXCEPT !.active = o.id]
               k == [g EXCEPT !.panel = panel]
    <2>1. UNCHANGED helper \/ helper' = k
      BY DEF Proceed, Opens, OpenFails, native
    <2>2. panel \in PanelState
      BY <1>1 DEF PanelState
    <2> HIDE DEF panel
    <2>3. helper \in Process /\ Len(helper.events) <= EventCapacity
      BY DEF SharedInv, NativeTyped
    <2>4. g \in Process /\ g.events = helper.events
      BY <1>1, <2>3, ProcessFields
    <2> HIDE DEF g
    <2>5. k \in Process /\ k.events = g.events
      BY <2>2, <2>4, ProcessFields
    <2> QED BY <1>2, <2>1, <2>3, <2>4, <2>5 DEF NativeTyped, SharedInv
  <1>6. CountersTyped'
    BY <1>2 DEF CountersTyped, SharedInv, counters
  <1> QED BY <1>2, <1>3, <1>4, <1>5, <1>6, PickerStepKeeps

\* poll: events are read, a gap is met, or the helper does not answer.
LEMMA PollingKeeps ==
    ASSUME SharedInv, Fetch \/ FetchGap \/ PollFails
    PROVE  SharedInv'
  <1>1. CASE Fetch
    <2>1. /\ UNCHANGED <<players, requests, window, follower, opening, client, launching, asked, calls>>
          /\ UNCHANGED <<responses, entry, counters>>
          /\ batch' = helper.events /\ helper' = [helper EXCEPT !.events = <<>>]
      BY <1>1 DEF Fetch, mailbox
    <2>2. helper \in Process /\ helper.events \in Seq(Event)
      BY ProcessFields DEF SharedInv, NativeTyped
    <2>3. helper' \in Process /\ helper'.events = <<>>
      <3>1. <<>> \in Seq(Event)
        OBVIOUS
      <3> QED BY <2>1, <2>2, <3>1, ProcessFields
    <2>4. Good(Entry(players))'
      BY <2>1, NowIsGood, StayingIsGood
    <2>5. PickerTyped' /\ CountersTyped'
      BY <2>1, <2>2 DEF PickerTyped, CountersTyped, SharedInv, counters
    <2>6. NativeTyped'
      BY <2>1, <2>3, SharedStyleAssumption DEF NativeTyped, SharedInv
    <2> QED BY <2>1, <2>4, <2>5, <2>6, PickerStepKeeps
  <1>2. CASE FetchGap \/ PollFails
    <2> DEFINE e == FailActive(Entry(players))
    <2>1. /\ UNCHANGED <<players, requests, window, follower, opening, launching, calls>>
          /\ UNCHANGED counters
      BY <1>2 DEF FetchGap, PollFails
    <2>2. Good(e) /\ e.to = players
      <3>1. /\ Good([Entry(players) EXCEPT !.active = None])
            /\ [Entry(players) EXCEPT !.active = None].to = players
        BY NowIsGood, EntryIsGood
      <3>2. Entry(players).active \in Session \cup {None}
        BY NowIsGood
      <3> QED BY <3>1, <3>2, NowIsGood, FailActiveKeeps
    <2>3. \/ PollEnds(e) \/ PollEnds(Entry(players))
          \/ /\ Becomes(e) /\ asked' = [asked EXCEPT !["poll"] = Committed]
             /\ helper' = [helper EXCEPT !.events = <<>>, !.lost = FALSE]
             /\ UNCHANGED <<client, batch>>
      BY <1>2 DEF FetchGap, PollFails
    <2> HIDE DEF e
    <2>4. /\ Good(Entry(players))' /\ client' \in BOOLEAN /\ batch' \in Seq(Event)
          /\ asked' \in [{"start", "poll"} -> Families \cup {"idle"}]
          /\ helper' \in Process /\ Len(helper'.events) <= EventCapacity
      <3>1. CASE PollEnds(e) \/ PollEnds(Entry(players))
        BY <2>1, <2>2, <3>1, NowIsGood, PollEndsKeeps
      <3>2. CASE /\ Becomes(e) /\ asked' = [asked EXCEPT !["poll"] = Committed]
                 /\ helper' = [helper EXCEPT !.events = <<>>, !.lost = FALSE]
                 /\ UNCHANGED <<client, batch>>
        <4>1. Good(Entry(players))'
          BY <2>1, <2>2, <3>2, BecomesGood
        <4> DEFINE g == [helper EXCEPT !.events = <<>>]
                   k == [g EXCEPT !.lost = FALSE]
        <4>2. g \in Process /\ g.events = <<>>
          <5>1. <<>> \in Seq(Event) /\ helper \in Process
            BY DEF SharedInv, NativeTyped
          <5> QED BY <5>1, ProcessFields
        <4>3. helper' = k
          BY <3>2
        <4> HIDE DEF g
        <4>4. k \in Process /\ k.events = <<>>
          BY <4>2, ProcessFields
        <4>5. Len(k.events) <= EventCapacity
          BY <4>4, SharedStyleAssumption
        <4> QED BY <3>2, <4>1, <4>3, <4>4, <4>5, NowIsGood DEF SharedInv, PickerTyped
      <3> QED BY <2>3, <3>1, <3>2
    <2>5. PickerTyped'
      BY <2>1, <2>4 DEF PickerTyped, SharedInv
    <2>6. NativeTyped' /\ CountersTyped'
      BY <2>1, <2>4 DEF NativeTyped, CountersTyped, SharedInv, counters
    <2> QED BY <2>1, <2>4, <2>5, <2>6, PickerStepKeeps
  <1> QED BY <1>1, <1>2

\* An event of the helper, of a session that is active or of another.
LEMMA HandleEventKeeps ==
    ASSUME SharedInv, NEW saves \in BOOLEAN, HandleEvent(saves)
    PROVE  SharedInv'
  <1> DEFINE v == Head(batch)
             now == Entry(players)
             e == IF IsActive(v) THEN Handled(now, v, saves) ELSE now
  <1>1. /\ UNCHANGED <<players, requests, window, opening, launching, calls, follower, acts>>
        /\ batch # <<>> /\ Saves(saves)
        /\ \/ /\ asked' = [asked EXCEPT !["poll"] = Committed] /\ batch' = Tail(batch)
              /\ UNCHANGED <<responses, entry, client, helper>>
           \/ PollEnds(e)
           \/ Becomes(e) /\ batch' = Tail(batch) /\ UNCHANGED <<asked, client, helper>>
    BY DEF HandleEvent
  <1>2. v \in Event /\ Tail(batch) \in Seq(Event)
    BY <1>1, HeadTailProperties DEF SharedInv, PickerTyped
  <1> HIDE DEF v
  <1>3. Good(e) /\ e.to = players
    <2>1. CASE IsActive(v)
      <3>1. Good(now) /\ now.active # None /\ now.to = players
        BY <2>1, NowIsGood DEF IsActive
      <3>2. Kept(now, Handled(now, v, saves))
        BY <1>2, <3>1, HandledKeeps
      <3> QED BY <2>1, <3>1, <3>2 DEF Kept
    <2>2. CASE ~IsActive(v)
      BY <2>2, NowIsGood
    <2> QED BY <2>1, <2>2
  <1> HIDE DEF e
  <1>4. /\ Good(Entry(players))' /\ client' \in BOOLEAN /\ batch' \in Seq(Event)
        /\ asked' \in [{"start", "poll"} -> Families \cup {"idle"}]
        /\ helper' \in Process /\ Len(helper'.events) <= EventCapacity
    <2>1. CASE /\ asked' = [asked EXCEPT !["poll"] = Committed] /\ batch' = Tail(batch)
               /\ UNCHANGED <<responses, entry, client, helper>>
      BY <1>1, <1>2, <2>1, NowIsGood, StayingIsGood DEF SharedInv, PickerTyped, NativeTyped
    <2>2. CASE PollEnds(e)
      BY <1>1, <1>3, <2>2, PollEndsKeeps
    <2>3. CASE Becomes(e) /\ batch' = Tail(batch) /\ UNCHANGED <<asked, client, helper>>
      BY <1>1, <1>2, <1>3, <2>3, BecomesGood DEF SharedInv, PickerTyped, NativeTyped
    <2> QED BY <1>1, <2>1, <2>2, <2>3
  <1>5. PickerTyped'
    BY <1>1, <1>4 DEF PickerTyped, SharedInv
  <1>6. NativeTyped'
    BY <1>1, <1>4 DEF NativeTyped, SharedInv
  <1>7. CountersTyped'
    BY <1>1, SharedStyleAssumption DEF Saves, Fails, CountersTyped, SharedInv
  <1> QED BY <1>1, <1>4, <1>5, <1>6, <1>7, PickerStepKeeps

\* What users do with the panels, and what is told of it.
LEMMA PanelsKeep ==
    ASSUME SharedInv, Native, CountersTyped',
           \/ \E c \in Color : TryColor(c)
           \/ CloseColor \/ \E f \in Families : ChooseFont(f)
           \/ CancelFont \/ CatalogChanges \/ \E id \in helper.cancelling : ClosesCancelled(id)
    PROVE  SharedInv'
  <1>1. UNCHANGED <<mailbox, entry, picker, calls, follower, faults>>
    BY DEF Native
  <1>2. Good(Entry(players))' /\ PickerTyped'
    BY <1>1, NowIsGood, StayingIsGood DEF mailbox, picker, PickerTyped, SharedInv
  <1>3. helper \in Process /\ Len(helper.events) <= EventCapacity
    BY DEF SharedInv, NativeTyped
  <1>4. helper.panel # None => helper.panel \in PanelState /\ helper.panel.id \in Id
    BY <1>3, ProcessFields DEF PanelState
  <1>5. helper' \in Process /\ Len(helper'.events) <= EventCapacity
    <2>1. ASSUME NEW c \in Color, TryColor(c) PROVE helper' \in Process /\ Len(helper'.events) <= EventCapacity
      <3> DEFINE panel == [helper.panel EXCEPT !.color = c]
                 shown == [helper EXCEPT !.panel = panel]
                 v == [id |-> helper.panel.id, type |-> "color-preview", value |-> c]
      <3>1. helper' = shown \/ helper' = Stored(shown, v)
        BY <2>1 DEF TryColor
      <3>2. helper.panel # None
        BY <2>1 DEF TryColor, Panel
      <3>3. panel \in PanelState /\ v \in Event
        BY <1>4, <3>2 DEF PanelState, Event
      <3> HIDE DEF panel, v
      <3>4. shown \in Process /\ shown.events = helper.events
        BY <1>3, <3>3, ProcessFields
      <3> HIDE DEF shown
      <3> QED BY <1>3, <3>1, <3>3, <3>4, StoredIsTyped
    <2>2. ASSUME NEW v \in Event, helper.panel # None, Finish(v)
          PROVE  helper' \in Process /\ Len(helper'.events) <= EventCapacity
      <3> DEFINE gone == [helper EXCEPT !.panel = None]
                 over == [gone EXCEPT !.active = None]
      <3>1. helper' = gone \/ helper' = Stored(over, v)
        BY <2>2 DEF Finish
      <3>2. gone \in Process /\ gone.events = helper.events
        BY <1>3, ProcessFields
      <3> HIDE DEF gone
      <3>3. over \in Process /\ over.events = helper.events
        BY <3>2, ProcessFields
      <3> HIDE DEF over
      <3> QED BY <1>3, <3>1, <3>2, <3>3, StoredIsTyped
    <2>3. CASE CloseColor
      <3> DEFINE v == [id |-> helper.panel.id, type |-> "color-closed",
                       changed |-> helper.panel.color # None, value |-> helper.panel.color]
      <3>1. Finish(v) /\ helper.panel # None
        BY <2>3 DEF CloseColor, Panel
      <3>2. v \in Closed
        <4>1. helper.panel.color \in Color \cup {None}
          BY <1>4, <3>1 DEF PanelState
        <4>2. v.changed => v.value \in Color
          BY <4>1
        <4> QED BY <1>4, <3>1, <4>1, <4>2 DEF Closed
      <3> HIDE DEF v
      <3> QED BY <2>2, <3>1, <3>2 DEF Event
    <2>4. ASSUME NEW f \in Families, ChooseFont(f)
          PROVE  helper' \in Process /\ Len(helper'.events) <= EventCapacity
      <3> DEFINE v == [id |-> helper.panel.id, type |-> "font-confirmed", value |-> f]
      <3>1. Finish(v) /\ helper.panel # None
        BY <2>4 DEF ChooseFont, Panel
      <3>2. v \in Event
        BY <1>4, <3>1 DEF Event
      <3> HIDE DEF v
      <3> QED BY <2>2, <3>1, <3>2
    <2>5. CASE CancelFont
      <3> DEFINE v == [id |-> helper.panel.id, type |-> "font-cancelled"]
      <3>1. Finish(v) /\ helper.panel # None
        BY <2>5 DEF CancelFont, Panel
      <3>2. v \in Event
        BY <1>4, <3>1 DEF Event
      <3> HIDE DEF v
      <3> QED BY <2>2, <3>1, <3>2
    <2>6. CASE CatalogChanges
      <3> DEFINE v == [id |-> None, type |-> "font-catalog-changed"]
      <3>1. helper' = Stored(helper, v)
        BY <2>6 DEF CatalogChanges
      <3>2. v \in Event
        BY DEF Event
      <3> HIDE DEF v
      <3> QED BY <1>3, <3>1, <3>2, StoredIsTyped
    <2>7. ASSUME NEW id \in helper.cancelling, ClosesCancelled(id)
          PROVE  helper' \in Process /\ Len(helper'.events) <= EventCapacity
      <3> DEFINE there == helper.panel # None /\ helper.panel.id = id
                 g == [helper EXCEPT !.cancelling = @ \ {id}]
                 k == [g EXCEPT !.panel = IF there THEN None ELSE helper.panel]
                 one == [id |-> id, type |-> "color-closed", changed |-> FALSE, value |-> None]
                 two == [id |-> id, type |-> "font-cancelled"]
                 told == IF there /\ Panel("color") THEN one ELSE two
      <3>1. id \in Id /\ helper.cancelling \ {id} \in SUBSET Id
        BY <1>3, ProcessFields
      <3>2. g \in Process /\ g.events = helper.events /\ g.panel = helper.panel
        BY <1>3, <3>1, ProcessFields DEF Process
      <3>3. helper' = Stored(k, told)
        BY <2>7, <3>2, Zenon DEF ClosesCancelled
      <3>4. told \in Event
        BY <3>1 DEF Event, Closed
      <3> HIDE DEF g, told
      <3>5. k \in Process /\ k.events = helper.events
        BY <1>3, <3>2, ProcessFields
      <3> HIDE DEF k
      <3> QED BY <1>3, <3>3, <3>4, <3>5, StoredIsTyped
    <2> QED BY <2>1, <2>3, <2>4, <2>5, <2>6, <2>7
  <1>6. NativeTyped'
    BY <1>1, <1>5 DEF NativeTyped, SharedInv
  <1> QED BY <1>1, <1>2, <1>6, PickerStepKeeps DEF mailbox

\* A cancellation arrives, or fails; the process dies.
LEMMA CancellationsKeep ==
    ASSUME SharedInv,
           HelperDies \/ \E call \in calls : CancelArrives(call) \/ CancelFails(call)
    PROVE  SharedInv'
  <1>1. helper \in Process /\ Len(helper.events) <= EventCapacity
    BY DEF SharedInv, NativeTyped
  <1>2. CASE HelperDies
    <2>1. Good(Entry(players))' /\ UNCHANGED <<players, requests, window, follower>>
      BY <1>2, NowIsGood, StayingIsGood DEF HelperDies, mailbox
    <2>2. PickerTyped'
      BY <1>2 DEF HelperDies, picker, PickerTyped, SharedInv
    <2>3. NativeTyped'
      BY <1>2, ProcessIsTyped DEF HelperDies, NativeTyped, SharedInv
    <2>4. CountersTyped'
      BY <1>2, SharedStyleAssumption DEF HelperDies, CountersTyped, SharedInv, Fails
    <2> QED BY <2>1, <2>2, <2>3, <2>4, PickerStepKeeps
  <1>3. ASSUME NEW call \in calls, CancelArrives(call) PROVE SharedInv'
    <2> DEFINE g == [helper EXCEPT !.active = None]
               k == [g EXCEPT !.cancelling = helper.cancelling \cup {call.id}]
    <2>1. /\ UNCHANGED <<mailbox, entry, picker, follower, counters>>
          /\ calls' = calls \ {call}
      BY <1>3, Zenon DEF CancelArrives
    <2>9. \/ helper' = [helper EXCEPT !.active = None, !.cancelling = @ \cup {call.id}]
          \/ helper' = helper
      BY <1>3, Zenon DEF CancelArrives
    <2>2. call.id \in Id
      BY DEF SharedInv, NativeTyped
    <2>3. helper.cancelling \cup {call.id} \in SUBSET Id
      BY <1>1, <2>2, ProcessFields
    <2>4. g \in Process /\ g.events = helper.events /\ g.cancelling = helper.cancelling
      BY <1>1, ProcessFields DEF Process
    <2>5. helper' = k \/ helper' = helper
      BY <2>4, <2>9
    <2> HIDE DEF g
    <2>6. k \in Process /\ k.events = helper.events
      BY <2>3, <2>4, ProcessFields
    <2> HIDE DEF k
    <2>7. NativeTyped'
      BY <1>1, <2>1, <2>5, <2>6 DEF NativeTyped, SharedInv
    <2>8. Good(Entry(players))' /\ PickerTyped' /\ CountersTyped'
      BY <2>1, NowIsGood, StayingIsGood DEF mailbox, picker, counters, PickerTyped, CountersTyped, SharedInv
    <2> QED BY <2>1, <2>7, <2>8, PickerStepKeeps DEF mailbox
  <1>4. ASSUME NEW call \in calls, CancelFails(call) PROVE SharedInv'
    <2> DEFINE now == Entry(players)
               e == IF call.tells THEN FailActive(now) ELSE now
    <2>1. /\ UNCHANGED <<players, requests, window, picker, helper, follower, counters>>
          /\ calls' = calls \ {call} /\ Becomes(e)
      BY <1>4 DEF CancelFails
    <2>2. Good(e) /\ e.to = players
      <3>1. /\ Good([now EXCEPT !.active = None]) /\ [now EXCEPT !.active = None].to = players
        BY NowIsGood, EntryIsGood
      <3>2. now.active \in Session \cup {None} /\ Good(now) /\ now.to = players
        BY NowIsGood
      <3>3. Good(FailActive(now)) /\ FailActive(now).to = players
        BY <3>1, <3>2, FailActiveKeeps
      <3> QED BY <3>2, <3>3
    <2> HIDE DEF e
    <2>3. Good(Entry(players))'
      BY <2>1, <2>2, BecomesGood
    <2>4. NativeTyped' /\ PickerTyped' /\ CountersTyped'
      BY <2>1 DEF NativeTyped, PickerTyped, CountersTyped, picker, counters, SharedInv
    <2> QED BY <2>1, <2>3, <2>4, PickerStepKeeps
  <1> QED BY <1>2, <1>3, <1>4

\* Every step of the picker, at the entry and in its process.
LEMMA PickerKeeps ==
    ASSUME SharedInv, Picker
    PROVE  SharedInv'
  <1>1. CASE Launched \/ LaunchFails
    BY <1>1, LaunchKeeps
  <1>2. CASE Fetch \/ FetchGap \/ PollFails
    BY <1>2, PollingKeeps
  <1>3. CASE \E saves \in BOOLEAN : HandleEvent(saves)
    BY <1>3, HandleEventKeeps
  <1>4. CASE \E by \in {"start", "poll"} :
               FontNotAnswered(by) \/ \E a \in {"available", "unavailable"} : FontAnswered(by, a)
    BY <1>4, FontAnsweredKeeps, FontNotAnsweredKeeps
  <1>5. CASE \E o \in opening : Proceed(o) \/ Opens(o) \/ OpenFails(o)
    BY <1>5, OpeningKeeps
  <1>6. CASE HelperDies \/ \E call \in calls : CancelArrives(call) \/ CancelFails(call)
    BY <1>6, CancellationsKeep
  <1>7. CASE \/ \E c \in Color : TryColor(c)
             \/ CloseColor \/ \E f \in Families : ChooseFont(f)
             \/ CancelFont \/ CatalogChanges \/ \E id \in helper.cancelling : ClosesCancelled(id)
    <2>1. Native /\ (UNCHANGED acts \/ Act)
      <3>1. ASSUME NEW c \in Color, TryColor(c) PROVE Native /\ UNCHANGED acts
        BY <3>1 DEF TryColor
      <3>2. ASSUME NEW f \in Families, ChooseFont(f) PROVE Native /\ UNCHANGED acts
        BY <3>2 DEF ChooseFont
      <3>3. ASSUME NEW id \in helper.cancelling, ClosesCancelled(id) PROVE Native /\ UNCHANGED acts
        BY <3>3 DEF ClosesCancelled
      <3>4. CASE CloseColor \/ CancelFont
        BY <3>4 DEF CloseColor, CancelFont
      <3>5. CASE CatalogChanges
        BY <3>5 DEF CatalogChanges
      <3> QED BY <1>7, <3>1, <3>2, <3>3, <3>4, <3>5
    <2>3. CountersTyped'
      BY <2>1, SharedStyleAssumption DEF Native, Act, CountersTyped, SharedInv
    <2> QED BY <1>7, <2>1, <2>3, PanelsKeep
  <1> QED BY <1>1, <1>2, <1>3, <1>4, <1>5, <1>6, <1>7 DEF Picker
-----------------------------------------------------------------------------
(***************************************************************************)
(* The theorems.                                                           *)
(***************************************************************************)
LEMMA InitIsShared ==
    ASSUME Init
    PROVE  SharedInv
  <1> DEFINE first == [fontFamily |-> None, fontColor |-> Restored.fontColor]
             p == Restored.position
             font == [preferred |-> None, availability |-> "available"]
             latest == [f \in Field |-> 0]
  <1>1. first \in Style /\ p \in Position /\ font \in Font /\ latest \in [Field -> Nat]
    <2>1. Restored.fontColor \in Color /\ p \in Position
      BY SharedStyleAssumption
    <2> HIDE DEF p
    <2> QED BY <2>1 DEF Style, Families, Font
  <1>2. /\ style = Whole(first, first, 0, 0, font, {}, {}, latest)
        /\ position = Spot(p, p, 0, 0)
        /\ stored = [style |-> first, position |-> p]
        /\ follower = [w \in Window |-> Following(None, Unplaced)]
        /\ MailboxInit /\ active = None
    BY DEF Init, Whole, Spot
  <1> HIDE DEF first, p, font, latest
  <1>3. /\ style \in StyleState /\ style.committed = first /\ style.rev = 0
        /\ style.interactions = {}
    BY <1>1, <1>2, WholeIsState
  <1>4. /\ position \in PositionState /\ position.committed = p
        /\ position.intent = 0 /\ position.revision = 0
    BY <1>1, <1>2 DEF Spot, PositionState
  <1>5. Following(None, Unplaced) \in Followed
    <2>1. Effective(None) \in Style
      BY SharedStyleAssumption DEF Effective, Style, Families
    <2>2. Unplaced \in PositionState /\ Unplaced.live \in Position
      BY SharedStyleAssumption DEF Unplaced, PositionState
    <2> QED BY <2>1, <2>2 DEF Following, Followed
  <1>14. \A w \in Window : follower[w].style = None /\ follower[w].position = Unplaced
    BY <1>2 DEF Following
  <1>6. Held(Request, Message)
    BY <1>2, InitHeld
  <1>7. \A w \in Window : responses[w] = <<>> /\ Len(responses[w]) = 0
    BY <1>2 DEF MailboxInit
  <1>8. StylesAgree(responses, style)
    <2>1. \A q \in Picture : ~StyleIsOut(responses, q)
      BY <1>7, <1>14 DEF StyleIsOut
    <2> QED BY <2>1 DEF StylesAgree
  <1>9. PositionsAgree(responses, position)
    <2>1. \A q \in PositionState : ~PositionIsOut(responses, q)
      BY <1>7, <1>14 DEF PositionIsOut
    <2> QED BY <2>1 DEF PositionsAgree
  <1>10. Good(Entry(players))
    <2>5. PICK ac, ok : ac = None /\ ok = TRUE
      OBVIOUS
    <2>1. Entry(players) = Sheet(style, position, stored, ac, responses, players, ok)
      BY <1>2, <2>5 DEF Entry, Sheet
    <2>2. Distinct(style) /\ stored = Committing(style, position)
      BY <1>2, <1>3, <1>4 DEF Distinct, Committing
    <2>3. players \in Seq(Window) /\ Fits(responses, Message)
      BY <1>6 DEF Held, PlayersOK
    <2>4. Good(Sheet(style, position, stored, ac, responses, players, ok))
      <3>1. ac \in Session \cup {None} /\ ok \in BOOLEAN
        BY <2>5
      <3> QED BY <1>3, <1>4, <1>8, <1>9, <2>2, <2>3, <2>5, <3>1, SheetIsGood
    <2> QED BY <2>1, <2>4
  <1>11. follower \in [Window -> Followed]
    BY <1>2, <1>5
  <1>12. PickerTyped /\ CountersTyped
    <2>1. opening \subseteq Opening /\ client \in BOOLEAN /\ launching \in BOOLEAN
      BY DEF Init
    <2>2. asked \in [{"start", "poll"} -> Families \cup {"idle"}]
      BY DEF Init
    <2>3. <<>> \in Seq(Event)
      OBVIOUS
    <2>4. CountersTyped
      BY SharedStyleAssumption DEF Init, CountersTyped
    <2> QED BY <2>1, <2>2, <2>3, <2>4 DEF Init, PickerTyped
  <1>13. NativeTyped
    BY ProcessIsTyped DEF Init, NativeTyped
  <1> QED BY <1>6, <1>10, <1>11, <1>12, <1>13 DEF SharedInv, Held

\* Every step keeps the invariant.
LEMMA NextIsShared ==
    ASSUME SharedInv, [Next]_vars
    PROVE  SharedInv'
  <1>1. CASE Users
    BY <1>1, UsersKeep
  <1>2. CASE Poll
    <2>1. \/ HandleOther \/ HandleGet \/ HandlePreview \/ \E saves \in BOOLEAN : HandleSave(saves)
          \/ HandlePickerOpen \/ HandlePickerCancel \/ \E w \in Window : HandleClose(w)
      BY <1>2 DEF Poll
    <2> QED BY <2>1, HandlersKeep, PickerFramesKeep, LeavingIsGood
  <1>3. CASE Picker
    BY <1>3, PickerKeeps
  <1>4. ASSUME NEW w \in Window, WindowRuns(w) \/ Lapse(w) PROVE SharedInv'
    <2>1. \/ OpenWindow(w) \/ (\E redraws \in BOOLEAN : Receive(w, redraws)) \/ Expire(w)
          \/ Heartbeat(w) /\ UNCHANGED <<entry, picker, native, follower, counters>>
          \/ CleanupExpired(w) /\ UNCHANGED faults /\ Others
      BY <1>4 DEF WindowRuns, Lapse
    <2> QED BY <2>1, WindowStepKeeps, LeavingIsGood
  <1>5. CASE Lose
    <2>1. \E w \in Window : Fails /\ Others /\ (LoseRequest \/ LoseResponse(w))
      <3>1. CASE Fails /\ Others /\ LoseRequest
        <4>1. requests # <<>> /\ requests \in Seq(Request)
          BY <3>1 DEF LoseRequest, SharedInv, RequestsOK
        <4>2. Head(requests) \in Request
          BY <4>1, HeadTailProperties
        <4>3. Head(requests).from \in Window
          BY <4>2 DEF Request
        <4> QED BY <3>1, <4>3
      <3> QED BY <1>5, <3>1 DEF Lose
    <2> QED BY <2>1, WindowStepKeeps
  <1>6. CASE UNCHANGED vars
    <2>1. /\ UNCHANGED <<players, requests, window, responses, follower, entry>>
          /\ UNCHANGED <<picker, native, counters>>
      BY <1>6 DEF vars, mailbox
    <2>2. Good(Entry(players))' /\ PickerTyped' /\ NativeTyped' /\ CountersTyped'
      BY <2>1, NowIsGood, StayingIsGood
        DEF picker, native, counters, PickerTyped, NativeTyped, CountersTyped, SharedInv
    <2> QED BY <2>1, <2>2, PickerStepKeeps
  <1> QED BY <1>1, <1>2, <1>3, <1>4, <1>5, <1>6 DEF Next

\* The invariant holds always.
LEMMA SharedInvHolds == Spec => []SharedInv
  BY InitIsShared, NextIsShared, PTL DEF Spec

\* The types of everything, the limits of the queues and of the store of events,
\* and that each interaction has one intent.
THEOREM SharedIsTyped == Spec => []TypeOK
  <1>1. ASSUME SharedInv PROVE TypeOK
    <2>1. MailboxTypeOK
      <3>1. Held(Request, Message)
        BY <1>1, GoodFields DEF SharedInv, Held, Entry
      <3> QED BY <3>1, HeldIsTyped
    <2>2. /\ style \in StyleState /\ Distinct(style) /\ position \in PositionState
          /\ stored \in [style : Style, position : Position] /\ active \in Session \cup {None}
      BY <1>1 DEF SharedInv, Good, Work, Entry
    <2>3. /\ style.live \in Style /\ style.committed \in Style /\ style.font \in Font
          /\ {style.rev, style.intent} \cup {style.latest[f] : f \in Field} \subseteq Nat
          /\ \A i, j \in style.interactions : i.id = j.id => i = j
          /\ style.invalid \subseteq Id
          /\ position.live \in Position /\ position.committed \in Position
      BY <2>2 DEF StyleState, Distinct, PositionState
    <2>4. active # None => active.id \in Id /\ active.previewed \in Color \cup {None}
      BY <2>2 DEF Session
    <2>5. /\ \A o \in opening : o.step \in {"start", "ready", "failed", "call"}
          /\ client \in BOOLEAN /\ launching \in BOOLEAN
          /\ asked \in [{"start", "poll"} -> Families \cup {"idle"}]
      BY <1>1 DEF SharedInv, PickerTyped, Opening
    <2>6. /\ Len(helper.events) <= EventCapacity /\ helper.active \in Id \cup {None}
          /\ acts \in 0 .. MaxActs /\ faults \in 0 .. MaxFaults
      BY <1>1, ProcessFields DEF SharedInv, NativeTyped, CountersTyped
    <2>7. \A w \in Window : follower[w].drawn \in Style /\ follower[w].at \in Position
      BY <1>1 DEF SharedInv, Followed
    <2> QED BY <2>1, <2>2, <2>3, <2>4, <2>5, <2>6, <2>7 DEF TypeOK
  <1> QED BY <1>1, SharedInvHolds, PTL

\* What IINA restores at its next start is what the authorities call committed.
THEOREM SavedStaysCommitted == Spec => []SavedIsCommitted
  <1>1. ASSUME SharedInv PROVE SavedIsCommitted
    <2>1. Entry(players).stored = [style |-> Entry(players).style.committed,
                                   position |-> Entry(players).position.committed]
      BY <1>1 DEF SharedInv, Good
    <2>2. /\ Entry(players).stored = stored /\ Entry(players).style = style
          /\ Entry(players).position = position
      BY DEF Entry
    <2> HIDE DEF Entry
    <2> QED BY <2>1, <2>2 DEF SavedIsCommitted
  <1> QED BY <1>1, SharedInvHolds, PTL

\* A session of the picker belongs to a window the entry believes to be there.
THEOREM PickerStaysOwned == Spec => []PickerIsOwned
  <1>1. ASSUME SharedInv PROVE PickerIsOwned
    BY <1>1, GoodFields DEF SharedInv, Entry, Registered, PickerIsOwned
  <1> QED BY <1>1, SharedInvHolds, PTL

\* Whatever was lost or cut off, whoever came late: windows that were told of one
\* revision have one style and those told of one intent one position, the
\* authority's if the numbers are its own; and they draw the same, but for what a
\* window's user has changed since.
THEOREM FollowersKeepAgreeing == Spec => []FollowersAgree
  <1>1. ASSUME SharedInv PROVE FollowersAgree
    <2>1. /\ StylesAgree(responses, style) /\ PositionsAgree(responses, position)
          /\ style \in StyleState /\ position \in PositionState
      BY <1>1, GoodFields DEF SharedInv, Entry
    <2>2. ASSUME NEW f, f = Authority \/ \E w \in Window : f = follower[w]
          PROVE  /\ f.style # None => f.style \in Picture
                 /\ f.position \in PositionState
                 /\ ~f.edited => f.drawn = Effective(f.style)
                 /\ ~f.moved => f.at = f.position.live
      <3>1. CASE f = Authority
        BY <2>1, <3>1 DEF Authority, Following, Snapshot, StyleState, Picture
      <3>2. CASE \E w \in Window : f = follower[w]
        BY <1>1, <3>2 DEF SharedInv, Followed
      <3> QED BY <2>2, <3>1, <3>2
    <2>3. ASSUME NEW w \in Window
          PROVE  /\ follower[w].style # None => StyleIsOut(responses, follower[w].style)
                 /\ follower[w].position # Unplaced => PositionIsOut(responses, follower[w].position)
      BY DEF StyleIsOut, PositionIsOut
    <2>4. Authority.style = Snapshot(style) /\ Authority.position = position
      BY DEF Authority, Following
    <2>5. ASSUME NEW w \in Window, follower[w].style # None
          PROVE  follower[w].style.rev <= style.rev
      <3>1. follower[w].style \in Picture /\ StyleIsOut(responses, follower[w].style)
        BY <2>2, <2>3, <2>5
      <3> QED BY <2>1, <3>1 DEF StylesAgree
    <2>6. ASSUME NEW w \in Window, NEW f, f = Authority \/ \E v \in Window : f = follower[v]
          PROVE  AgreeOnStyle(follower[w], f) /\ AgreeOnPosition(follower[w], f)
      <3>1. follower[w].style # None /\ f.style # None => Agree(follower[w].style, f.style)
        BY <2>1, <2>2, <2>3, <2>4, <2>6 DEF StylesAgree
      <3>2. Unplaced \notin {follower[w].position, f.position} =>
              AgreePosition(follower[w].position, f.position)
        BY <2>1, <2>2, <2>3, <2>4, <2>6 DEF PositionsAgree
      <3>3. AgreeOnStyle(follower[w], f)
        BY <2>2, <2>6, <3>1 DEF AgreeOnStyle, Agree
      <3>4. AgreeOnPosition(follower[w], f)
        BY <2>2, <2>6, <3>2 DEF AgreeOnPosition, AgreePosition
      <3> QED BY <3>3, <3>4
    <2>7. \A f \in Range(follower) : \E w \in Window : f = follower[w]
      BY <1>1 DEF SharedInv, Range
    <2> QED BY <2>5, <2>6, <2>7 DEF FollowersAgree
  <1> QED BY <1>1, SharedInvHolds, PTL
=============================================================================
