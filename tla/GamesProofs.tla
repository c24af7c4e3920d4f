---------------------------- MODULE GamesProofs ----------------------------
(***************************************************************************)
(* Theorems about the games of a device: about GameWatch, for every set of *)
(* pids, executables and games (the detector's counts are exact, its events*)
(* alternate, between polls it agrees with the last listing, and it        *)
(* implements Sessions), and about Detect, for every disk, roots and names *)
(* (what is found is the best there is, no write of a session is lost, a   *)
(* process has at most one game), and how the two fit together.            *)
(***************************************************************************)
EXTENDS GameWatch, Detect, FiniteSetTheorems, NaturalsInduction, WellFoundedInduction, TLAPS

(* GameWatch. *)

\* What processing one Started event does to the detector.
LEMMA StartedEffect ==
  ASSUME TypeOK, NEW p \in Pids, Started(p)
  PROVE  /\ prev[p] \in Exes /\ p \in started /\ started' = started \ {p}
         /\ UNCHANGED <<running, prev, stopped, first>>
         /\ \/ /\ pidGame[p] # NoGame \/ GameOf[prev[p]] = NoGame
               /\ UNCHANGED detector
            \/ \E g \in Games :
                 /\ g = GameOf[prev[p]] /\ pidGame[p] = NoGame
                 /\ pidGame' = [pidGame EXCEPT ![p] = g]
                 /\ counts' = [counts EXCEPT ![g] = @ + 1]
                 /\ told' = [told EXCEPT ![g] = @ \/ counts[g] = 0]
<1>1. prev[p] \in Exes /\ p \in started /\ started' = started \ {p}
  BY DEF Started, TypeOK
<1>2. UNCHANGED <<running, prev, stopped, first>>
  BY DEF Started
<1>3. GameOf[prev[p]] \in Games \cup {NoGame}
  BY <1>1, GameOfAssumption
<1>4. CASE pidGame[p] # NoGame \/ GameOf[prev[p]] = NoGame
  <2>1. UNCHANGED detector
    BY <1>4 DEF Started
  <2>2. QED
    BY <1>1, <1>2, <1>4, <2>1
<1>5. CASE pidGame[p] = NoGame /\ GameOf[prev[p]] # NoGame
  <2>1. /\ pidGame' = [pidGame EXCEPT ![p] = GameOf[prev[p]]]
        /\ counts' = [counts EXCEPT ![GameOf[prev[p]]] = @ + 1]
        /\ told' = [told EXCEPT ![GameOf[prev[p]]] = @ \/ counts[GameOf[prev[p]]] = 0]
    BY <1>5 DEF Started
  <2>2. GameOf[prev[p]] \in Games
    BY <1>3, <1>5
  <2>3. QED
    BY <1>1, <1>2, <1>5, <2>1, <2>2
<1>6. QED
  BY <1>4, <1>5

\* What processing one Stopped event does, while the counts are exact.
LEMMA StoppedEffect ==
  ASSUME TypeOK, CountsMatch, NEW p \in Pids, Stopped(p)
  PROVE  /\ started = {} /\ p \in stopped /\ stopped' = stopped \ {p}
         /\ pidGame' = [pidGame EXCEPT ![p] = NoGame]
         /\ UNCHANGED <<running, prev, started, first>>
         /\ \/ pidGame[p] = NoGame /\ UNCHANGED <<counts, told>>
            \/ \E g \in Games :
                 /\ g = pidGame[p] /\ counts[g] > 0
                 /\ counts' = [counts EXCEPT ![g] = @ - 1]
                 /\ told' = [told EXCEPT ![g] = @ /\ counts[g] # 1]
<1>1. /\ started = {} /\ p \in stopped /\ stopped' = stopped \ {p}
      /\ pidGame' = [pidGame EXCEPT ![p] = NoGame]
      /\ UNCHANGED <<running, prev, started, first>>
  BY DEF Stopped
<1>2. CASE pidGame[p] = NoGame
  <2>1. UNCHANGED <<counts, told>>
    BY <1>2 DEF Stopped
  <2>2. QED
    BY <1>1, <1>2, <2>1
<1>3. CASE pidGame[p] # NoGame
  <2>1. pidGame[p] \in Games
    BY <1>3 DEF TypeOK
  <2>2. IsFiniteSet(PidsOf(pidGame[p])) /\ p \in PidsOf(pidGame[p])
    BY PidsAssumption, FS_Subset DEF PidsOf
  <2>3. counts[pidGame[p]] # 0 /\ counts[pidGame[p]] \in Nat
    BY <2>1, <2>2, FS_EmptySet DEF CountsMatch, TypeOK
  <2>4. /\ counts' = [counts EXCEPT ![pidGame[p]] = @ - 1]
        /\ told' = [told EXCEPT ![pidGame[p]] = @ /\ counts[pidGame[p]] # 1]
    BY <1>3, <2>3 DEF Stopped
  <2>5. counts[pidGame[p]] > 0
    BY <2>3
  <2>6. QED
    BY <1>1, <2>1, <2>4, <2>5, Zenon
<1>4. QED
  BY <1>2, <1>3

-----------------------------------------------------------------------------
(***************************************************************************)
(* OpenIffListed is not inductive: while a listing is being processed the  *)
(* detector lags behind it.  Lag says by how much: a pid whose event is    *)
(* still queued has, or has no, entry yet, and every other pid has the     *)
(* entry that the executable it appeared with asks for.                    *)
(***************************************************************************)
Listed(p) == IF first[p] = Gone THEN NoGame ELSE GameOf[first[p]]
Lag ==
  \A p \in Pids :
    /\ prev[p] = Gone <=> first[p] = Gone
    /\ p \in started => pidGame[p] = NoGame /\ prev[p] # Gone /\ first[p] = prev[p]
    /\ p \in stopped => prev[p] = Gone
    /\ p \notin started \cup stopped => pidGame[p] = Listed(p)

Inv == TypeOK /\ CountsMatch /\ OpenAsTold /\ Lag

LEMMA InvInit == Init => Inv
<1> SUFFICES ASSUME Init PROVE Inv
  OBVIOUS
<1>1. TypeOK
  BY DEF Init, TypeOK
<1>2. \A g \in Games : PidsOf(g) = {}
  BY DistinctAssumption DEF Init, PidsOf
<1>3. CountsMatch
  BY <1>2, FS_EmptySet DEF Init, CountsMatch
<1>4. OpenAsTold
  <2>1. \A g \in Games : told[g] = FALSE /\ counts[g] = 0
    BY DEF Init
  <2>2. \A g \in Games : (counts[g] > 0) = FALSE
    BY <2>1
  <2>3. QED
    BY <2>1, <2>2 DEF OpenAsTold
<1>5. Lag
  BY DEF Init, Lag, Listed
<1>6. QED
  BY <1>1, <1>3, <1>4, <1>5 DEF Inv

LEMMA InvStep == Inv /\ [Next]_vars => Inv'
<1> SUFFICES ASSUME Inv, [Next]_vars PROVE Inv'
  OBVIOUS
<1> USE DEF Inv
<1>1. ASSUME NEW p \in Pids, Os(p) PROVE Inv'
  BY <1>1 DEF Os, detector, TypeOK, CountsMatch, PidsOf, OpenAsTold, Lag, Listed
<1>2. ASSUME NEW hidden \in SUBSET Pids, Poll(hidden) PROVE Inv'
  <2>1. UNCHANGED <<running, pidGame, counts, told>> /\ started = {} /\ stopped = {}
    BY <1>2 DEF Poll, detector, AtRest
  <2>2. TypeOK'
    BY <1>2, <2>1 DEF Poll, TypeOK
  <2>3. CountsMatch' /\ OpenAsTold'
    BY <2>1 DEF CountsMatch, PidsOf, OpenAsTold
  <2>4. Lag'
    <3> SUFFICES ASSUME NEW p \in Pids
                 PROVE  /\ prev'[p] = Gone <=> first'[p] = Gone
                        /\ p \in started' => /\ pidGame'[p] = NoGame /\ prev'[p] # Gone
                                            /\ first'[p] = prev'[p]
                        /\ p \in stopped' => prev'[p] = Gone
                        /\ p \notin started' \cup stopped' => pidGame'[p] = Listed(p)'
      BY DEF Lag
    <3>1. first'[p] = IF first[p] = Gone \/ prev'[p] = Gone THEN prev'[p] ELSE first[p]
      BY <1>2, <2>1 DEF Poll
    <3>2. /\ p \in started' <=> prev'[p] # Gone /\ prev[p] = Gone
          /\ p \in stopped' <=> prev'[p] = Gone /\ prev[p] # Gone
      BY <1>2 DEF Poll
    <3>3. pidGame[p] = Listed(p) /\ (prev[p] = Gone <=> first[p] = Gone)
      BY <2>1 DEF Lag
    <3>4. QED
      BY <2>1, <3>1, <3>2, <3>3 DEF Listed
  <2>5. QED
    BY <2>2, <2>3, <2>4
<1>3. ASSUME NEW p \in Pids, Started(p) PROVE Inv'
  <2>1. CASE UNCHANGED detector /\ (pidGame[p] # NoGame \/ GameOf[prev[p]] = NoGame)
    BY <1>3, <2>1, StartedEffect
       DEF detector, TypeOK, CountsMatch, PidsOf, OpenAsTold, Lag, Listed
  <2>2. ASSUME NEW g \in Games, g = GameOf[prev[p]], pidGame[p] = NoGame,
               pidGame' = [pidGame EXCEPT ![p] = g],
               counts' = [counts EXCEPT ![g] = @ + 1],
               told' = [told EXCEPT ![g] = @ \/ counts[g] = 0]
        PROVE  Inv'
    <3>1. TypeOK'
      BY <1>3, <2>2, StartedEffect DEF TypeOK
    <3>2. CountsMatch'
      <4> SUFFICES ASSUME NEW h \in Games PROVE counts'[h] = Cardinality(PidsOf(h)')
        BY DEF CountsMatch
      <4>1. IsFiniteSet(PidsOf(h))
        BY PidsAssumption, FS_Subset DEF PidsOf
      <4>2. CASE h = g
        <5>1. PidsOf(h)' = PidsOf(h) \cup {p} /\ p \notin PidsOf(h)
          BY <2>2, <4>2, DistinctAssumption DEF PidsOf, TypeOK
        <5>2. Cardinality(PidsOf(h)') = Cardinality(PidsOf(h)) + 1
          BY <4>1, <5>1, FS_AddElement
        <5>3. QED
          BY <2>2, <4>2, <5>2 DEF CountsMatch, TypeOK
      <4>3. CASE h # g
        <5>1. PidsOf(h)' = PidsOf(h)
          BY <2>2, <4>3, DistinctAssumption DEF PidsOf, TypeOK
        <5>2. QED
          BY <2>2, <4>3, <5>1 DEF CountsMatch, TypeOK
      <4>4. QED
        BY <4>2, <4>3
    <3>3. OpenAsTold'
      BY <2>2 DEF OpenAsTold, TypeOK
    <3>4. Lag'
      BY <1>3, <2>2, StartedEffect DEF Lag, Listed, TypeOK
    <3>5. QED
      BY <3>1, <3>2, <3>3, <3>4
  <2>3. QED
    BY <1>3, <2>1, <2>2, StartedEffect
<1>4. ASSUME NEW p \in Pids, Stopped(p) PROVE Inv'
  <2>1. CASE pidGame[p] = NoGame /\ UNCHANGED <<counts, told>>
    <3>1. pidGame' = pidGame
      BY <1>4, <2>1, StoppedEffect DEF TypeOK
    <3>2. QED
      BY <1>4, <2>1, <3>1, StoppedEffect
         DEF TypeOK, CountsMatch, PidsOf, OpenAsTold, Lag, Listed
  <2>2. ASSUME NEW g \in Games, g = pidGame[p], counts[g] > 0,
               counts' = [counts EXCEPT ![g] = @ - 1],
               told' = [told EXCEPT ![g] = @ /\ counts[g] # 1]
        PROVE  Inv'
    <3>1. TypeOK'
      <4>1. counts[g] - 1 \in Nat
        BY <2>2 DEF TypeOK
      <4>2. QED
        BY <1>4, <2>2, <4>1, StoppedEffect DEF TypeOK
    <3>2. CountsMatch'
      <4> SUFFICES ASSUME NEW h \in Games PROVE counts'[h] = Cardinality(PidsOf(h)')
        BY DEF CountsMatch
      <4>1. IsFiniteSet(PidsOf(h))
        BY PidsAssumption, FS_Subset DEF PidsOf
      <4>2. CASE h = g
        <5>1. PidsOf(h)' = PidsOf(h) \ {p} /\ p \in PidsOf(h)
          BY <1>4, <2>2, <4>2, StoppedEffect, DistinctAssumption DEF PidsOf, TypeOK
        <5>2. Cardinality(PidsOf(h)') = Cardinality(PidsOf(h)) - 1
          BY <4>1, <5>1, FS_RemoveElement
        <5>3. QED
          BY <2>2, <4>2, <5>2 DEF CountsMatch, TypeOK
      <4>3. CASE h # g
        <5>1. PidsOf(h)' = PidsOf(h)
          BY <1>4, <2>2, <4>3, StoppedEffect, DistinctAssumption DEF PidsOf, TypeOK
        <5>2. QED
          BY <2>2, <4>3, <5>1 DEF CountsMatch, TypeOK
      <4>4. QED
        BY <4>2, <4>3
    <3>3. OpenAsTold'
      BY <2>2 DEF OpenAsTold, TypeOK
    <3>4. Lag'
      BY <1>4, <2>2, StoppedEffect DEF Lag, Listed, TypeOK
    <3>5. QED
      BY <3>1, <3>2, <3>3, <3>4
  <2>3. QED
    BY <1>4, <2>1, <2>2, StoppedEffect
<1>5. CASE UNCHANGED vars
  BY <1>5 DEF vars, detector, TypeOK, CountsMatch, PidsOf, OpenAsTold, Lag, Listed
<1>6. QED
  BY <1>1, <1>2, <1>3, <1>4, <1>5 DEF Next

LEMMA InvAlways == Spec => []Inv
BY InvInit, InvStep, PTL DEF Spec

\* Lag at rest: the detector's entries are exactly the listing's games.
LEMMA InvListed == Inv => OpenIffListed
<1> SUFFICES ASSUME Inv, AtRest, NEW g \in Games
             PROVE  counts[g] > 0 <=> g \in ListedGames
  BY DEF OpenIffListed, ListedGames
<1>1. \A p \in Pids : pidGame[p] = Listed(p)
  BY DEF Inv, Lag, AtRest
<1>2. IsFiniteSet(PidsOf(g)) /\ counts[g] = Cardinality(PidsOf(g)) /\ counts[g] \in Nat
  BY PidsAssumption, FS_Subset DEF Inv, CountsMatch, TypeOK, PidsOf
<1>3. counts[g] > 0 <=> PidsOf(g) # {}
  BY <1>2, FS_EmptySet
<1> QED
  BY <1>1, <1>3, DistinctAssumption DEF PidsOf, Listed, ListedGames

\* A listing is told in full before the next one is taken.
LEMMA PollPromise ==
  ASSUME Inv, NEW hidden \in SUBSET Pids, Poll(hidden)
  PROVE  Promise!Listing
<1>1. OpenIffListed /\ AtRest
  BY InvListed DEF Poll
<1>2. OpenGames = ListedGames
  BY <1>1 DEF OpenIffListed, OpenGames, ListedGames, Inv, OpenAsTold
<1>3. UNCHANGED OpenGames
  BY DEF Poll, detector, OpenGames
<1>5. ListedGames' \in SUBSET Games
  BY DEF ListedGames
<1>6. QED
  BY <1>2, <1>3, <1>5 DEF Promise!Listing

\* A Started event opens at most the listed game of its process.
LEMMA StartedPromise ==
  ASSUME Inv, NEW p \in Pids, Started(p)
  PROVE  Promise!Next \/ UNCHANGED <<ListedGames, OpenGames>>
<1> USE DEF Inv
<1>1. UNCHANGED ListedGames
  BY StartedEffect DEF ListedGames
<1>2. CASE UNCHANGED detector
  BY <1>1, <1>2 DEF detector, OpenGames
<1>3. ASSUME NEW g \in Games, g = GameOf[prev[p]],
             told' = [told EXCEPT ![g] = @ \/ counts[g] = 0]
      PROVE  Promise!Next \/ UNCHANGED <<ListedGames, OpenGames>>
  <2>1. g \in ListedGames
    BY <1>3, StartedEffect, DistinctAssumption DEF ListedGames, Lag
  <2>2. CASE told[g]
    <3>1. told' = told
      BY <1>3, <2>2 DEF TypeOK
    <3>2. QED
      BY <1>1, <3>1 DEF OpenGames
  <2>3. CASE ~ told[g]
    <3>1. counts[g] = 0
      BY <2>3 DEF OpenAsTold, TypeOK
    <3>2. g \notin OpenGames /\ OpenGames' = OpenGames \cup {g}
      BY <1>3, <2>3, <3>1 DEF OpenGames, TypeOK
    <3>3. Promise!Opened(g)
      BY <1>1, <2>1, <3>2 DEF Promise!Opened
    <3>4. QED
      BY <3>3 DEF Promise!Next
  <2>4. QED
    BY <2>2, <2>3
<1>4. QED
  BY <1>2, <1>3, StartedEffect

\* A Stopped event closes at most the game of its process, which then has no listed
\* process, when every listed game is open: the starts came before the stops.
LEMMA StoppedPromise ==
  ASSUME Inv, NEW p \in Pids, Stopped(p)
  PROVE  Promise!Next \/ UNCHANGED <<ListedGames, OpenGames>>
<1> USE DEF Inv
<1>1. UNCHANGED ListedGames
  BY StoppedEffect DEF ListedGames
<1>2. CASE UNCHANGED told
  BY <1>1, <1>2 DEF OpenGames
<1>3. ASSUME NEW g \in Games, g = pidGame[p], counts[g] > 0,
             told' = [told EXCEPT ![g] = @ /\ counts[g] # 1]
      PROVE  Promise!Next \/ UNCHANGED <<ListedGames, OpenGames>>
  <2>1. CASE counts[g] # 1
    <3>1. told' = told
      BY <1>3, <2>1 DEF TypeOK
    <3>2. QED
      BY <1>1, <3>1 DEF OpenGames
  <2>2. CASE counts[g] = 1
    <3>1. g \in OpenGames /\ OpenGames' = OpenGames \ {g}
      BY <1>3, <2>2 DEF OpenGames, OpenAsTold, TypeOK
    <3>2. g \notin ListedGames /\ ListedGames \subseteq OpenGames
      <4>1. started = {} /\ p \in stopped /\ prev[p] = Gone
        BY StoppedEffect DEF Lag
      <4>2. ASSUME NEW q \in Pids, first[q] # Gone
            PROVE  pidGame[q] = GameOf[first[q]] /\ q # p
        BY <4>1, <4>2 DEF Lag, Listed
      <4>3. \A h \in Games : IsFiniteSet(PidsOf(h)) /\ counts[h] = Cardinality(PidsOf(h))
        BY PidsAssumption, FS_Subset DEF CountsMatch, PidsOf
      <4>4. g \notin ListedGames
        <5> SUFFICES ASSUME NEW q \in Pids, first[q] # Gone, GameOf[first[q]] = g
                     PROVE  FALSE
          BY DEF ListedGames
        <5>1. p \in PidsOf(g) /\ q \in PidsOf(g) /\ q # p
          BY <1>3, <4>2 DEF PidsOf
        <5>2. PICK r : PidsOf(g) = {r}
          BY <2>2, <4>3, FS_Singleton
        <5>3. QED
          BY <5>1, <5>2
      <4>5. ListedGames \subseteq OpenGames
        <5> SUFFICES ASSUME NEW h \in Games, NEW q \in Pids,
                            first[q] # Gone, GameOf[first[q]] = h
                     PROVE  told[h]
          BY DEF ListedGames, OpenGames
        <5>1. q \in PidsOf(h)
          BY <4>2 DEF PidsOf
        <5>2. counts[h] # 0 /\ counts[h] \in Nat
          BY <4>3, <5>1, FS_EmptySet DEF TypeOK
        <5>3. counts[h] > 0
          BY <5>2
        <5>4. QED
          BY <5>3, Zenon DEF OpenAsTold
      <4>6. QED
        BY <4>4, <4>5
    <3>3. Promise!Closed(g)
      BY <1>1, <3>1, <3>2 DEF Promise!Closed
    <3>4. QED
      BY <3>3 DEF Promise!Next
  <2>3. QED
    BY <2>1, <2>2
<1>4. QED
  BY <1>2, <1>3, StoppedEffect

\* The detector's state has its type.
THEOREM TypeCorrect == Spec => []TypeOK
BY InvAlways, PTL DEF Inv

\* open_counts counts the processes of each game, for any number of them.
THEOREM CountsExact == Spec => []CountsMatch
BY InvAlways, PTL DEF Inv

\* A game is open to the agent exactly when Opened was its last event.
THEOREM EventsAlternate == Spec => []OpenAsTold
BY InvAlways, PTL DEF Inv

\* Between polls, open means in the last listing.
THEOREM OpenMeansListed == Spec => []OpenIffListed
BY InvAlways, InvListed, PTL

\* The watcher and the detector implement Sessions: a listing is told in full before
\* the next, and its games open before those that left it close.
THEOREM GameWatchImplementsSessions == Spec => ImplementsSessions
<1>1. Init => Promise!Init
  BY DEF Init, Promise!Init, ListedGames, OpenGames
<1>2. Inv /\ [Next]_vars => [Promise!Next]_<<ListedGames, OpenGames>>
  <2> SUFFICES ASSUME Inv, [Next]_vars
               PROVE  Promise!Next \/ UNCHANGED <<ListedGames, OpenGames>>
    OBVIOUS
  <2>1. ASSUME NEW p \in Pids, Os(p)
        PROVE  UNCHANGED <<ListedGames, OpenGames>>
    BY <2>1 DEF Os, detector, ListedGames, OpenGames
  <2>2. ASSUME NEW hidden \in SUBSET Pids, Poll(hidden)
        PROVE  Promise!Next
    BY <2>2, PollPromise DEF Promise!Next
  <2>3. CASE UNCHANGED vars
    BY <2>3 DEF vars, detector, ListedGames, OpenGames
  <2>4. QED
    BY <2>1, <2>2, <2>3, StartedPromise, StoppedPromise DEF Next
<1>3. QED
  BY <1>1, <1>2, InvAlways, PTL DEF Spec, ImplementsSessions, Promise!Spec

-----------------------------------------------------------------------------
(* Detect. *)

\* A set of natural numbers that is not empty has a least one.
LEMMA LeastNatural ==
  ASSUME NEW S \in SUBSET Nat, S # {}
  PROVE  \E n \in S : \A k \in S : n <= k
<1>1. IsWellFoundedOn(OpToRel(<, Nat), Nat)
  BY NatLessThanWellFounded
<1>2. \E n \in S : \A k \in S : ~(<<k, n>> \in OpToRel(<, Nat))
  BY <1>1, WFMin
<1>3. ASSUME NEW k \in Nat, NEW n \in Nat, k < n PROVE <<k, n>> \in OpToRel(<, Nat)
  <2>1. <<k, n>> \in Nat \X Nat /\ <<k, n>>[1] = k /\ <<k, n>>[2] = n
    OBVIOUS
  <2> QED BY <1>3, <2>1 DEF OpToRel
<1>4. PICK n \in S : \A k \in S : ~(<<k, n>> \in OpToRel(<, Nat))
  BY <1>2
<1>5. \A k \in S : k \in Nat /\ n \in Nat /\ ~(k < n)
  BY <1>3, <1>4
<1>6. \A k \in S : n <= k
  BY <1>5
<1> QED BY <1>4, <1>6

\* A set of finite sets that is not empty has one of the least size.
LEMMA Smallest ==
  ASSUME NEW B, B # {}, \A T \in B : IsFiniteSet(T)
  PROVE  \E T \in B : \A U \in B : Cardinality(T) <= Cardinality(U)
<1> DEFINE sizes == {Cardinality(T) : T \in B}
<1>1. sizes \in SUBSET Nat /\ sizes # {}
  BY FS_CardinalityType
<1>2. PICK n \in sizes : \A k \in sizes : n <= k
  <2> HIDE DEF sizes
  <2> QED BY <1>1, LeastNatural
<1> QED BY <1>2

-----------------------------------------------------------------------------
(* Sums over a finite set: one recursive function on its subsets, which takes out one
   element after another in an order that is not known. *)
Some(T) == CHOOSE x \in T : TRUE
Adds(h, f, S) ==
  /\ h \in [SUBSET S -> Nat] /\ h[{}] = 0
  /\ \A T \in SUBSET S : T # {} => h[T] = f[Some(T)] + h[T \ {Some(T)}]

LEMMA AddsExist ==
  ASSUME NEW S, IsFiniteSet(S), NEW f, \A x \in S : f[x] \in Nat
  PROVE  \E h : Adds(h, f, S)
<1> DEFINE Upto(n) == {T \in SUBSET S : Cardinality(T) <= n}
           Ok(h, n) == /\ h \in [Upto(n) -> Nat] /\ h[{}] = 0
                       /\ \A T \in Upto(n) : T # {} => h[T] = f[Some(T)] + h[T \ {Some(T)}]
           Bad == {n \in Nat : ~ \E h : Ok(h, n)}
<1>0. \A T \in SUBSET S : /\ IsFiniteSet(T) /\ Cardinality(T) \in Nat
                          /\ (Cardinality(T) = 0) <=> (T = {})
  BY FS_Subset, FS_CardinalityType, FS_EmptySet
<1>1. ASSUME NEW T \in SUBSET S, T # {}
      PROVE  /\ Some(T) \in T /\ f[Some(T)] \in Nat /\ T \ {Some(T)} \in SUBSET S
             /\ Cardinality(T \ {Some(T)}) = Cardinality(T) - 1
  <2>1. Some(T) \in T
    BY <1>1 DEF Some
  <2>2. Cardinality(T \ {Some(T)}) = Cardinality(T) - 1
    BY <1>0, <2>1, FS_RemoveElement
  <2> QED BY <2>1, <2>2
<1>2. 0 \notin Bad
  <2>1. Upto(0) = {{}}
    BY <1>0, FS_EmptySet
  <2>2. Ok([T \in {{}} |-> 0], 0)
    BY <2>1
  <2> QED BY <2>2
<1>3. ASSUME NEW n \in Nat, n \notin Bad PROVE n + 1 \notin Bad
  <2>1. PICK h : Ok(h, n)
    BY <1>3
  <2> DEFINE g == [T \in Upto(n + 1) |->
                     IF T \in Upto(n) THEN h[T] ELSE f[Some(T)] + h[T \ {Some(T)}]]
  <2>2. \A T \in Upto(n + 1) : T # {} => T \ {Some(T)} \in Upto(n)
    BY <1>0, <1>1
  <2>3. \A T \in Upto(n + 1) : g[T] = IF T \in Upto(n) THEN h[T] ELSE f[Some(T)] + h[T \ {Some(T)}]
    OBVIOUS
  <2>4. {} \in Upto(n) /\ {} \in Upto(n + 1) /\ Upto(n) \subseteq Upto(n + 1)
    BY <1>0, FS_EmptySet
  <2>5. g \in [Upto(n + 1) -> Nat]
    <3>1. ASSUME NEW T \in Upto(n + 1) PROVE g[T] \in Nat
      <4>1. CASE T \in Upto(n)
        BY <2>1, <2>3, <4>1
      <4>2. CASE T \notin Upto(n)
        <5>1. T # {} /\ T \in SUBSET S
          BY <2>4, <4>2
        <5>2. f[Some(T)] \in Nat /\ h[T \ {Some(T)}] \in Nat
          BY <1>1, <2>1, <2>2, <5>1
        <5> QED BY <2>3, <4>2, <5>2
      <4> QED BY <4>1, <4>2
    <3> HIDE DEF Upto
    <3> QED BY <3>1
  <2>6. g[{}] = 0
    BY <2>1, <2>3, <2>4
  <2>7. ASSUME NEW T \in Upto(n + 1), T # {} PROVE g[T] = f[Some(T)] + g[T \ {Some(T)}]
    <3>1. T \ {Some(T)} \in Upto(n) /\ T \ {Some(T)} \in Upto(n + 1)
      BY <2>2, <2>4, <2>7
    <3>2. g[T \ {Some(T)}] = h[T \ {Some(T)}]
      BY <2>3, <3>1
    <3>3. g[T] = f[Some(T)] + h[T \ {Some(T)}]
      BY <2>1, <2>3, <2>7
    <3> QED BY <3>2, <3>3
  <2>8. Ok(g, n + 1)
    <3> HIDE DEF g
    <3> QED BY <2>5, <2>6, <2>7
  <2> QED BY <2>8
<1>4. Bad = {}
  <2> SUFFICES ASSUME Bad # {} PROVE FALSE
    OBVIOUS
  <2>1. PICK n \in Bad : \A k \in Bad : n <= k
    <3>1. Bad \in SUBSET Nat
      OBVIOUS
    <3> HIDE DEF Bad
    <3> QED BY <3>1, LeastNatural
  <2>2. n \in Nat /\ n # 0 /\ n - 1 \in Nat /\ ~(n <= n - 1)
    <3>1. n \in Nat
      OBVIOUS
    <3>2. n # 0
      <4> HIDE DEF Bad
      <4> QED BY <1>2, <2>1
    <3> HIDE DEF Bad
    <3> QED BY <3>1, <3>2
  <2>3. n - 1 \in Nat /\ n - 1 \notin Bad
    <3> HIDE DEF Bad
    <3> QED BY <2>1, <2>2
  <2>4. (n - 1) + 1 \notin Bad /\ (n - 1) + 1 = n
    <3> HIDE DEF Bad
    <3> QED BY <1>3, <2>2, <2>3
  <2>5. n \notin Bad
    <3> HIDE DEF Bad
    <3> QED BY <2>4
  <2> QED BY <2>1, <2>5
<1>5. Cardinality(S) \in Nat /\ Upto(Cardinality(S)) = SUBSET S
  BY <1>0, FS_Subset
<1>6. PICK h : Ok(h, Cardinality(S))
  BY <1>4, <1>5
<1>7. Adds(h, f, S)
  <2> HIDE DEF Upto
  <2> QED BY <1>5, <1>6 DEF Adds
<1> QED BY <1>7

\* The order does not matter: any element may be taken out first.
LEMMA AnyFirst ==
  ASSUME NEW S, IsFiniteSet(S), NEW f, \A x \in S : f[x] \in Nat, NEW h, Adds(h, f, S)
  PROVE  \A T \in SUBSET S : \A x \in T : h[T] = f[x] + h[T \ {x}]
<1> DEFINE Bad == {T \in SUBSET S : \E x \in T : h[T] # f[x] + h[T \ {x}]}
<1> SUFFICES ASSUME Bad # {} PROVE FALSE
  OBVIOUS
<1>0. \A T \in SUBSET S : IsFiniteSet(T) /\ Cardinality(T) \in Nat /\ h[T] \in Nat
  BY FS_Subset, FS_CardinalityType DEF Adds
<1>1. PICK T \in Bad : \A U \in Bad : Cardinality(T) <= Cardinality(U)
  <2>1. \A U \in Bad : IsFiniteSet(U)
    BY <1>0
  <2> HIDE DEF Bad
  <2> QED BY <2>1, Smallest
<1>2. T \in SUBSET S
  OBVIOUS
<1>3. PICK x \in T : h[T] # f[x] + h[T \ {x}]
  OBVIOUS
<1> DEFINE c == Some(T)
<1>4. c \in T /\ h[T] = f[c] + h[T \ {c}]
  BY <1>2, <1>3 DEF Some, Adds
<1> HIDE DEF c
<1>5. x # c
  BY <1>3, <1>4
<1>6. ASSUME NEW y \in T PROVE Cardinality(T \ {y}) < Cardinality(T) /\ T \ {y} \in SUBSET S
  BY <1>0, <1>2, FS_RemoveElement
<1>7. ASSUME NEW y \in T, NEW z \in T \ {y} PROVE h[T \ {y}] = f[z] + h[(T \ {y}) \ {z}]
  <2>1. T \ {y} \notin Bad
    BY <1>0, <1>1, <1>2, <1>6
  <2> QED BY <1>6, <2>1
<1>8. h[T \ {c}] = f[x] + h[(T \ {c}) \ {x}] /\ h[T \ {x}] = f[c] + h[(T \ {x}) \ {c}]
  BY <1>4, <1>5, <1>7
<1>9. (T \ {c}) \ {x} = (T \ {x}) \ {c} /\ (T \ {c}) \ {x} \in SUBSET S
  BY <1>2
<1>10. f[x] \in Nat /\ f[c] \in Nat /\ h[(T \ {c}) \ {x}] \in Nat
  BY <1>0, <1>2, <1>4, <1>9
<1>11. h[T] # f[x] + h[T \ {x}] /\ h[T] = f[c] + h[T \ {c}]
  BY <1>3, <1>4
<1> QED
  <2> DEFINE a == h[(T \ {c}) \ {x}]
  <2>1. h[T \ {c}] = f[x] + a /\ h[T \ {x}] = f[c] + a
    BY <1>8, <1>9
  <2>2. f[c] + (f[x] + a) = f[x] + (f[c] + a)
    BY <1>10
  <2> HIDE DEF a
  <2> QED BY <1>11, <2>1, <2>2

\* Two sums of the same values are equal.
LEMMA SameSum ==
  ASSUME NEW S, IsFiniteSet(S), NEW f, NEW h, Adds(h, f, S), \A x \in S : f[x] \in Nat,
         NEW U \in SUBSET S, NEW g, NEW k, Adds(k, g, U), \A x \in U : g[x] = f[x]
  PROVE  k[U] = h[U]
<1> DEFINE Bad == {T \in SUBSET U : k[T] # h[T]}
<1> SUFFICES ASSUME Bad # {} PROVE FALSE
  OBVIOUS
<1>0. \A T \in SUBSET U : IsFiniteSet(T) /\ Cardinality(T) \in Nat /\ T \in SUBSET S
  BY FS_Subset, FS_CardinalityType
<1>1. PICK T \in Bad : \A V \in Bad : Cardinality(T) <= Cardinality(V)
  <2>1. \A V \in Bad : IsFiniteSet(V)
    BY <1>0
  <2> HIDE DEF Bad
  <2> QED BY <2>1, Smallest
<1>2. T \in SUBSET U /\ T \in SUBSET S /\ k[T] # h[T]
  BY <1>0
<1>3. T # {}
  BY <1>2 DEF Adds
<1>4. Some(T) \in T
  BY <1>3 DEF Some
<1>5. Cardinality(T \ {Some(T)}) < Cardinality(T) /\ T \ {Some(T)} \in SUBSET U
  <2>1. IsFiniteSet(T) /\ Cardinality(T) \in Nat
    BY <1>0, <1>2
  <2>2. Cardinality(T \ {Some(T)}) = Cardinality(T) - 1
    BY <1>4, <2>1, FS_RemoveElement
  <2> QED BY <1>2, <2>1, <2>2
<1>6. T \ {Some(T)} \notin Bad
  BY <1>0, <1>1, <1>2, <1>5
<1>7. k[T] = g[Some(T)] + k[T \ {Some(T)}] /\ h[T] = f[Some(T)] + h[T \ {Some(T)}]
  BY <1>2, <1>3 DEF Adds
<1> QED BY <1>2, <1>4, <1>5, <1>6, <1>7

LEMMA SumIsAdds ==
  ASSUME NEW S, IsFiniteSet(S), NEW f, \A x \in S : f[x] \in Nat
  PROVE  \E h : Adds(h, f, S) /\ SumFunctionOnSet(f, S) = h[S]
<1> DEFINE Def(h) == [T \in SUBSET S |-> IF T = {} THEN 0
                                         ELSE f[Some(T)] + h[T \ {Some(T)}]]
           sum == CHOOSE h : h = Def(h)
<1>1. PICK h : Adds(h, f, S)
  BY AddsExist
<1>2. h = Def(h)
  BY <1>1 DEF Adds
<1>3. sum = Def(sum)
  <2> HIDE DEF Def
  <2> QED BY <1>2
<1>4. SumFunctionOnSet(f, S) = sum[S]
  BY DEF SumFunctionOnSet, FoldFunctionOnSet, MapThenFoldSet, Some
<1> HIDE DEF sum
<1>5. \A T \in SUBSET S : sum[T] = h[T]
  <2> DEFINE Bad == {T \in SUBSET S : sum[T] # h[T]}
  <2> SUFFICES ASSUME Bad # {} PROVE FALSE
    OBVIOUS
  <2>0. \A T \in SUBSET S : IsFiniteSet(T) /\ Cardinality(T) \in Nat
    BY FS_Subset, FS_CardinalityType
  <2>1. PICK T \in Bad : \A V \in Bad : Cardinality(T) <= Cardinality(V)
    <3>1. \A V \in Bad : IsFiniteSet(V)
      BY <2>0
    <3> HIDE DEF Bad
    <3> QED BY <3>1, Smallest
  <2>2. T \in SUBSET S /\ sum[T] # h[T]
    OBVIOUS
  <2>3. sum[T] = IF T = {} THEN 0 ELSE f[Some(T)] + sum[T \ {Some(T)}]
    <3>1. Def(sum)[T] = IF T = {} THEN 0 ELSE f[Some(T)] + sum[T \ {Some(T)}]
      BY <2>2
    <3> QED BY <1>3, <3>1
  <2>4. T # {}
    BY <1>1, <2>2, <2>3 DEF Adds
  <2>5. Some(T) \in T
    BY <2>4 DEF Some
  <2>6. Cardinality(T \ {Some(T)}) < Cardinality(T) /\ T \ {Some(T)} \in SUBSET S
    BY <2>0, <2>2, <2>5, FS_RemoveElement
  <2>7. T \ {Some(T)} \notin Bad
    BY <2>0, <2>1, <2>2, <2>6
  <2>8. h[T] = f[Some(T)] + h[T \ {Some(T)}]
    BY <1>1, <2>2, <2>4 DEF Adds
  <2> QED BY <2>2, <2>3, <2>4, <2>6, <2>7, <2>8
<1> QED BY <1>1, <1>4, <1>5

\* What sums are, over a finite set of natural numbers.
LEMMA Sums ==
  ASSUME NEW S, IsFiniteSet(S), NEW f, \A x \in S : f[x] \in Nat
  PROVE  /\ SumFunctionOnSet(f, S) \in Nat
         /\ S = {} => SumFunctionOnSet(f, S) = 0
         /\ \A x \in S : \A g : (\A y \in S \ {x} : g[y] = f[y]) =>
              SumFunctionOnSet(f, S) = f[x] + SumFunctionOnSet(g, S \ {x})
<1>1. PICK h : Adds(h, f, S) /\ SumFunctionOnSet(f, S) = h[S]
  BY SumIsAdds
<1>2. ASSUME NEW x \in S, NEW g, \A y \in S \ {x} : g[y] = f[y]
      PROVE  SumFunctionOnSet(f, S) = f[x] + SumFunctionOnSet(g, S \ {x})
  <2> DEFINE U == S \ {x}
  <2>1. IsFiniteSet(U) /\ U \in SUBSET S /\ \A y \in U : g[y] \in Nat /\ g[y] = f[y]
    BY <1>2, FS_Subset
  <2>2. PICK k : Adds(k, g, U) /\ SumFunctionOnSet(g, U) = k[U]
    <3> HIDE DEF U
    <3> QED BY <2>1, SumIsAdds
  <2>3. k[U] = h[U]
    <3> HIDE DEF U
    <3> QED BY <1>1, <2>1, <2>2, SameSum
  <2>4. h[S] = f[x] + h[U]
    BY <1>1, AnyFirst
  <2> QED BY <1>1, <2>2, <2>3, <2>4
<1> QED BY <1>1, <1>2 DEF Adds

-----------------------------------------------------------------------------
(* How many files there are. *)

LEMMA FilesAre ==
  ASSUME NEW S \in SUBSET Units
  PROVE  /\ IsFiniteSet(S) /\ Files(S) \in Nat
         /\ Files({}) = 0
         /\ \A u \in S : Files(S) = u.n + Files(S \ {u})
<1>1. IsFiniteSet(S) /\ IsFiniteSet({})
  BY DetectAssumption, FS_Subset, FS_EmptySet
<1> DEFINE f(T) == [u \in T |-> u.n]
<1>2. \A u \in S : f(S)[u] = u.n /\ u.n \in Nat
  BY DetectAssumption
<1>3. Files(S) \in Nat
  BY <1>1, <1>2, Sums DEF Files
<1>4. Files({}) = 0
  BY <1>1, Sums DEF Files
<1>5. ASSUME NEW u \in S PROVE Files(S) = u.n + Files(S \ {u})
  <2>1. \A v \in S \ {u} : f(S \ {u})[v] = f(S)[v]
    OBVIOUS
  <2>2. \A x \in S : f(S)[x] \in Nat
    BY <1>2
  <2>3. SumFunctionOnSet(f(S), S) = f(S)[u] + SumFunctionOnSet(f(S \ {u}), S \ {u})
    <3> HIDE DEF f
    <3> QED BY <1>1, <2>1, <2>2, Sums
  <2> QED BY <1>2, <2>3 DEF Files
<1> QED BY <1>1, <1>3, <1>4, <1>5

LEMMA ScoreIs ==
  ASSUME there \subseteq Units, NEW d
  PROVE  /\ FileScore(SaveFiles(d)) \in 0..30 /\ Score(d) \in Nat
         /\ Score(d) >= 100 <=>
              NameOf(d) \in Like \/ (NameOf(d) \in SaveNames /\ Parent(d) \in Like)
<1>1. SaveFiles(d) \in Nat
  BY FilesAre DEF SaveFiles
<1>2. FileScore(SaveFiles(d)) \in 0..30
  BY <1>1 DEF FileScore
<1> QED BY <1>2 DEF Score

-----------------------------------------------------------------------------
(* The folders, and the order in which they are visited. *)

IsFolder(d) ==
  /\ d \in Seq(Names) /\ Len(d) >= 1 /\ d # Missing
  /\ \A i \in 2..Len(d) : d[i] \in Range(NameOrder)

LEMMA FoldersAre ==
  ASSUME there \subseteq Units
  PROVE  IsFiniteSet(Dirs) /\ IsFiniteSet(Rooted) /\ \A d \in Dirs : IsFolder(d)
<1> DEFINE above(u) == {SubSeq(u.dir, 1, k) : k \in 1..Len(u.dir)}
<1>1. ASSUME NEW u \in Units PROVE IsFiniteSet(above(u))
  <2>1. u.dir \in Seq(Names) /\ Len(u.dir) \in Nat
    BY DetectAssumption
  <2>2. IsFiniteSet(1..Len(u.dir))
    BY <2>1, FS_Interval
  <2> DEFINE f == [k \in 1..Len(u.dir) |-> SubSeq(u.dir, 1, k)]
  <2>3. f \in Surjection(1..Len(u.dir), above(u))
    BY DEF Surjection
  <2> HIDE DEF f, above
  <2> QED BY <2>2, <2>3, FS_Surjection
<1>2. IsFiniteSet(there)
  BY DetectAssumption, FS_Subset
<1>3. IsFiniteSet({above(u) : u \in there})
  <2> DEFINE f == [u \in there |-> above(u)]
  <2>1. f \in Surjection(there, {above(u) : u \in there})
    <3> HIDE DEF above
    <3> QED BY DEF Surjection
  <2> HIDE DEF f, above
  <2> QED BY <1>2, <2>1, FS_Surjection
<1>4. IsFiniteSet(UNION {above(u) : u \in there})
  <2>1. \A T \in {above(u) : u \in there} : IsFiniteSet(T)
    BY <1>1
  <2> HIDE DEF above
  <2> QED BY <1>3, <2>1, FS_UNION
<1>5. IsFiniteSet(Dirs) /\ IsFiniteSet(Rooted)
  <2>1. IsFiniteSet(Dirs)
    BY <1>4 DEF Dirs
  <2> QED BY <2>1, FS_Subset DEF Rooted
<1>6. ASSUME NEW d \in Dirs PROVE IsFolder(d)
  <2>0. Dirs = UNION {above(u) : u \in there}
    BY DEF Dirs
  <2>01. PICK u \in there : d \in above(u)
    <3> HIDE DEF above
    <3> QED BY <2>0
  <2>1. PICK k \in 1..Len(u.dir) : d = SubSeq(u.dir, 1, k)
    BY <2>01
  <2>2. u \in Units /\ u.dir \in Seq(Names) /\ Len(u.dir) \in Nat /\ d # Missing
    BY <2>1, DetectAssumption, MissingAssumption
  <2>3. d \in Seq(Names) /\ Len(d) = k /\ \A i \in 1..k : d[i] = u.dir[i]
    BY <2>1, <2>2
  <2>4. \A i \in 2..Len(u.dir) : u.dir[i] \in Range(NameOrder)
    BY <2>2, DetectAssumption
  <2> QED BY <2>1, <2>2, <2>3, <2>4 DEF IsFolder
<1> QED BY <1>5, <1>6

\* Names are listed at one place, so that equal places are equal names.
LEMMA Ranks ==
  ASSUME there \subseteq Units, NEW d \in Rooted, NEW i \in 1..Len(d)
  PROVE  /\ RankAt(d, i) \in Nat
         /\ \A e \in Rooted : i <= Len(e) /\ RankAt(d, i) = RankAt(e, i) => d[i] = e[i]
<1> DEFINE order == IF i = 1 THEN Roots ELSE NameOrder
<1>1. order \in Seq(Range(order)) /\ DOMAIN order \subseteq Nat
  BY DetectAssumption
<1>2. ASSUME NEW e \in Rooted, i <= Len(e) PROVE e[i] \in Range(order)
  <2>1. IsFolder(e) /\ e[1] \in Range(Roots) /\ Len(e) \in Nat
    BY FoldersAre DEF Rooted
  <2>2. i # 1 => i \in 2..Len(e)
    BY <1>2, <2>1, FoldersAre DEF Rooted
  <2> QED BY <2>1, <2>2 DEF IsFolder
<1>3. ASSUME NEW e \in Rooted, i <= Len(e)
      PROVE  RankAt(e, i) \in DOMAIN order /\ order[RankAt(e, i)] = e[i]
  <2>1. \E k \in DOMAIN order : order[k] = e[i]
    <3> HIDE DEF order
    <3> QED BY <1>2, <1>3 DEF Range
  <2> QED BY <2>1 DEF RankAt, Rank
<1>4. i <= Len(d)
  BY FoldersAre DEF Rooted, IsFolder
<1> HIDE DEF order
<1> QED BY <1>1, <1>3, <1>4

\* The order is strict and total.
LEMMA Irreflexive ==
  ASSUME there \subseteq Units, NEW d \in Rooted
  PROVE  ~ Precedes(d, d)
<1> SUFFICES ASSUME NEW i \in 1..Len(d), i <= Len(d) => RankAt(d, i) < RankAt(d, i)
             PROVE  FALSE
  BY DEF Precedes
<1>1. RankAt(d, i) \in Nat /\ Len(d) \in Nat
  BY Ranks, FoldersAre DEF Rooted, IsFolder
<1> QED BY <1>1

LEMMA Transitive ==
  ASSUME there \subseteq Units, NEW d \in Rooted, NEW e \in Rooted, NEW f \in Rooted,
         Precedes(d, e), Precedes(e, f)
  PROVE  Precedes(d, f)
<1>0. Len(d) \in Nat /\ Len(e) \in Nat /\ Len(f) \in Nat
  BY FoldersAre DEF Rooted, IsFolder
<1>1. PICK i \in 1..Len(e) : /\ \A j \in 1..(i - 1) : j <= Len(d) /\ d[j] = e[j]
                             /\ i <= Len(d) => RankAt(d, i) < RankAt(e, i)
  BY DEF Precedes
<1>2. PICK k \in 1..Len(f) : /\ \A j \in 1..(k - 1) : j <= Len(e) /\ e[j] = f[j]
                             /\ k <= Len(e) => RankAt(e, k) < RankAt(f, k)
  BY DEF Precedes
<1>3. CASE i < k
  <2>1. i \in 1..Len(f) /\ i \in 1..(k - 1) /\ e[i] = f[i]
    BY <1>0, <1>2, <1>3
  <2>2. \A j \in 1..(i - 1) : j <= Len(d) /\ d[j] = f[j]
    BY <1>0, <1>1, <1>2, <1>3
  <2>3. RankAt(e, i) = RankAt(f, i)
    BY <2>1 DEF RankAt
  <2> QED BY <1>1, <2>1, <2>2, <2>3 DEF Precedes
<1>4. CASE k < i
  <2>1. k \in 1..(i - 1) /\ k <= Len(d) /\ d[k] = e[k] /\ k <= Len(e)
    BY <1>0, <1>1, <1>4
  <2>2. \A j \in 1..(k - 1) : j <= Len(d) /\ d[j] = f[j]
    BY <1>0, <1>1, <1>2, <1>4
  <2>3. RankAt(d, k) = RankAt(e, k)
    BY <2>1 DEF RankAt
  <2> QED BY <1>2, <2>1, <2>2, <2>3 DEF Precedes
<1>5. CASE i = k
  <2>1. \A j \in 1..(k - 1) : j <= Len(d) /\ d[j] = f[j]
    BY <1>0, <1>1, <1>2, <1>5
  <2>2. i \in 1..Len(e) /\ i <= Len(e) /\ i \in 1..Len(f)
    BY <1>0, <1>1, <1>2, <1>5
  <2>3. RankAt(e, k) < RankAt(f, k) /\ RankAt(e, k) \in Nat /\ RankAt(f, k) \in Nat
    BY <1>2, <1>5, <2>2, Ranks
  <2>4. k <= Len(d) => RankAt(d, k) < RankAt(f, k)
    <3> SUFFICES ASSUME k <= Len(d) PROVE RankAt(d, k) < RankAt(f, k)
      OBVIOUS
    <3>1. k \in 1..Len(d)
      BY <1>0, <1>2
    <3>2. RankAt(d, k) \in Nat /\ RankAt(d, k) < RankAt(e, k)
      BY <1>1, <1>5, <3>1, Ranks
    <3> QED BY <2>3, <3>2
  <2> QED BY <1>2, <2>1, <2>4 DEF Precedes
<1> QED BY <1>3, <1>4, <1>5, <1>0

LEMMA Total ==
  ASSUME there \subseteq Units, NEW d \in Rooted, NEW e \in Rooted, d # e
  PROVE  Precedes(d, e) \/ Precedes(e, d)
<1>0. /\ d \in Seq(Names) /\ e \in Seq(Names) /\ Len(d) \in Nat /\ Len(e) \in Nat
      /\ Len(d) >= 1 /\ Len(e) >= 1
  BY FoldersAre DEF Rooted, IsFolder
<1> DEFINE Apart == {i \in Nat \ {0} : ~(i <= Len(d) /\ i <= Len(e) /\ d[i] = e[i])}
<1>1. Apart \in SUBSET Nat /\ Len(d) + 1 \in Apart
  BY <1>0
<1>2. PICK i \in Apart : \A k \in Apart : i <= k
  <2> HIDE DEF Apart
  <2> QED BY <1>1, LeastNatural
<1>3. i \in Nat /\ i >= 1 /\ ~(i <= Len(d) /\ i <= Len(e) /\ d[i] = e[i])
  OBVIOUS
<1>4. \A j \in 1..(i - 1) : j <= Len(d) /\ j <= Len(e) /\ d[j] = e[j]
  <2> SUFFICES ASSUME NEW j \in 1..(i - 1) PROVE j \notin Apart
    BY <1>3
  <2>1. ~(i <= j)
    BY <1>3
  <2> HIDE DEF Apart
  <2> QED BY <1>2, <2>1
<1> HIDE DEF Apart
<1>5. CASE i > Len(d) /\ i > Len(e)
  <2>1. i - 1 <= Len(d) /\ i - 1 <= Len(e)
    <3>1. CASE i = 1
      BY <1>0, <3>1
    <3>2. CASE i # 1
      <4>1. i - 1 \in 1..(i - 1)
        BY <1>3, <3>2
      <4> QED BY <1>4, <4>1
    <3> QED BY <3>1, <3>2
  <2>2. Len(d) = Len(e) /\ \A j \in 1..Len(d) : d[j] = e[j]
    BY <1>0, <1>3, <1>4, <1>5, <2>1
  <2>3. d = e
    BY <1>0, <2>2
  <2> QED BY <2>3
<1>6. CASE i > Len(d) /\ i <= Len(e)
  <2>1. i \in 1..Len(e) /\ ~(i <= Len(d))
    BY <1>0, <1>3, <1>6
  <2> QED BY <1>4, <2>1 DEF Precedes
<1>7. CASE i <= Len(d) /\ i > Len(e)
  <2>1. i \in 1..Len(d) /\ ~(i <= Len(e))
    BY <1>0, <1>3, <1>7
  <2> QED BY <1>4, <2>1 DEF Precedes
<1>8. CASE i <= Len(d) /\ i <= Len(e)
  <2>1. i \in 1..Len(d) /\ i \in 1..Len(e) /\ d[i] # e[i]
    BY <1>0, <1>3, <1>8
  <2>2. RankAt(d, i) \in Nat /\ RankAt(e, i) \in Nat /\ RankAt(d, i) # RankAt(e, i)
    BY <1>8, <2>1, Ranks
  <2>3. RankAt(d, i) < RankAt(e, i) \/ RankAt(e, i) < RankAt(d, i)
    BY <2>2
  <2> QED BY <1>4, <2>1, <2>3 DEF Precedes
<1> QED BY <1>0, <1>3, <1>5, <1>6, <1>7, <1>8

\* Counting the elements before each one numbers a finite set in its order.
Counts(at, S, R) == at = [d \in S |-> Cardinality({e \in S : <<e, d>> \in R})]

LEMMA Numbering ==
  ASSUME NEW S, IsFiniteSet(S), NEW R \in SUBSET (S \X S),
         \A d \in S : <<d, d>> \notin R,
         \A d, e, f \in S : <<d, e>> \in R /\ <<e, f>> \in R => <<d, f>> \in R,
         \A d, e \in S : d # e => <<d, e>> \in R \/ <<e, d>> \in R,
         NEW at, Counts(at, S, R)
  PROVE  /\ at \in [S -> 0..(Cardinality(S) - 1)]
         /\ \A d, e \in S : <<d, e>> \in R <=> at[d] < at[e]
         /\ \A k \in 0..(Cardinality(S) - 1) : \E d \in S : at[d] = k
<1> DEFINE under(d) == {e \in S : <<e, d>> \in R}
           n == Cardinality(S)
<1>1. \A d \in S : /\ IsFiniteSet(under(d)) /\ Cardinality(under(d)) \in Nat
                    /\ at[d] = Cardinality(under(d))
  <2>1. \A d \in S : under(d) \subseteq S
    OBVIOUS
  <2>2. \A d \in S : at[d] = Cardinality(under(d))
    BY DEF Counts
  <2> HIDE DEF under
  <2> QED BY <2>1, <2>2, FS_Subset, FS_CardinalityType
<1>2. n \in Nat
  BY FS_CardinalityType
<1>3. ASSUME NEW d \in S PROVE at[d] \in 0..(n - 1)
  <2>1. under(d) \subseteq S \ {d}
    OBVIOUS
  <2>2. IsFiniteSet(S \ {d}) /\ Cardinality(S \ {d}) = n - 1
    BY FS_RemoveElement
  <2>3. Cardinality(under(d)) <= n - 1
    <3> HIDE DEF under
    <3> QED BY <2>1, <2>2, FS_Subset
  <2> HIDE DEF under
  <2> QED BY <1>1, <1>2, <2>3
<1>4. ASSUME NEW d \in S, NEW e \in S, <<d, e>> \in R PROVE at[d] < at[e]
  <2>1. under(d) \subseteq under(e) /\ under(d) # under(e)
    BY <1>4
  <2>2. Cardinality(under(d)) < Cardinality(under(e))
    <3>1. under(d) \in SUBSET under(e) /\ IsFiniteSet(under(e)) /\ under(d) # under(e)
      BY <1>1, <2>1
    <3>2. /\ Cardinality(under(d)) <= Cardinality(under(e))
          /\ Cardinality(under(e)) = Cardinality(under(d)) => under(d) = under(e)
      <4> HIDE DEF under
      <4> QED BY <3>1, FS_Subset
    <3>3. Cardinality(under(d)) \in Nat /\ Cardinality(under(e)) \in Nat
      BY <1>1
    <3> HIDE DEF under
    <3> QED BY <3>1, <3>2, <3>3
  <2> HIDE DEF under
  <2> QED BY <1>1, <2>2
<1>5. \A d \in S : at[d] \in Nat
  BY <1>1
<1>6. ASSUME NEW d \in S, NEW e \in S PROVE <<d, e>> \in R <=> at[d] < at[e]
  <2>1. at[d] < at[e] => d # e /\ <<e, d>> \notin R
    BY <1>4, <1>5
  <2> QED BY <1>4, <2>1
<1>7. at \in [S -> 0..(n - 1)]
  BY <1>3 DEF Counts
<1>8. ASSUME NEW k \in 0..(n - 1) PROVE \E d \in S : at[d] = k
  <2> DEFINE taken == {at[d] : d \in S}
  <2>1. \A d, e \in S : at[d] = at[e] => d = e
    <3> SUFFICES ASSUME NEW d \in S, NEW e \in S, at[d] = at[e], d # e PROVE FALSE
      OBVIOUS
    <3>1. at[d] \in Nat /\ ~(at[d] < at[e]) /\ ~(at[e] < at[d])
      BY <1>5
    <3> QED BY <1>6, <3>1
  <2>2. Cardinality(taken) = n
    <3>1. at \in Bijection(S, taken)
      BY <1>7, <2>1 DEF Bijection, Injection, Surjection, IsInjective
    <3>2. ExistsBijection(S, taken)
      BY <3>1 DEF ExistsBijection
    <3> HIDE DEF taken
    <3> QED BY <3>2, FS_Bijection
  <2>3. taken \subseteq 0..(n - 1) /\ IsFiniteSet(0..(n - 1)) /\ Cardinality(0..(n - 1)) = n
    <3>1. taken \subseteq 0..(n - 1)
      BY <1>7
    <3>2. IsFiniteSet(0..(n - 1)) /\ Cardinality(0..(n - 1)) = n
      BY <1>2, FS_Interval
    <3> QED BY <3>1, <3>2
  <2>4. taken = 0..(n - 1)
    <3> HIDE DEF taken, n
    <3> QED BY <2>2, <2>3, FS_Subset
  <2> QED BY <2>4
<1> QED BY <1>6, <1>7, <1>8

\* Every folder below the roots is visited once, in the order of Precedes.
LEMMA VisitsAre ==
  ASSUME there \subseteq Units
  PROVE  /\ Cardinality(Rooted) \in Nat /\ Len(Visits) = Cardinality(Rooted)
         /\ Visits \in [1..Cardinality(Rooted) -> Rooted]
         /\ \A d \in Rooted : \E i \in 1..Cardinality(Rooted) : Visits[i] = d
         /\ \A i, j \in 1..Cardinality(Rooted) : i < j => Precedes(Visits[i], Visits[j])
<1> DEFINE S == Rooted
           R == {p \in S \X S : Precedes(p[1], p[2])}
           at == [d \in S |-> Cardinality({e \in S : <<e, d>> \in R})]
           n == Cardinality(S)
<1>1. \A d, e \in S : <<d, e>> \in R <=> Precedes(d, e)
  OBVIOUS
<1>2. IsFiniteSet(S) /\ n \in Nat
  BY FoldersAre, FS_CardinalityType
<1>3. /\ \A d \in S : <<d, d>> \notin R
      /\ \A d, e, f \in S : <<d, e>> \in R /\ <<e, f>> \in R => <<d, f>> \in R
      /\ \A d, e \in S : d # e => <<d, e>> \in R \/ <<e, d>> \in R
  <2> HIDE DEF R
  <2> QED BY <1>1, Irreflexive, Transitive, Total
<1>4. /\ at \in [S -> 0..(n - 1)]
      /\ \A d, e \in S : <<d, e>> \in R <=> at[d] < at[e]
      /\ \A k \in 0..(n - 1) : \E d \in S : at[d] = k
  <2>1. R \in SUBSET (S \X S)
    OBVIOUS
  <2>2. Counts(at, S, R)
    BY DEF Counts
  <2> HIDE DEF R, at, S
  <2> QED BY <1>2, <1>3, <2>1, <2>2, Numbering
<1>5. ASSUME NEW d \in S PROVE at[d] = Cardinality({e \in S : Precedes(e, d)})
  <2>1. {e \in S : <<e, d>> \in R} = {e \in S : Precedes(e, d)}
    BY <1>1
  <2> QED BY <2>1
<1>6. ASSUME NEW i \in 1..n PROVE Visits[i] \in S /\ at[Visits[i]] = i - 1
  <2> DEFINE placed == {<<d, Cardinality({e \in Rooted : Precedes(e, d)})>> : d \in Rooted}
             p == CHOOSE p \in placed : p[2] = i - 1
  <2>1. i - 1 \in 0..(n - 1)
    BY <1>2
  <2>2. PICK d \in S : at[d] = i - 1
    <3> HIDE DEF at, S
    <3> QED BY <1>4, <2>1
  <2>3. <<d, at[d]>> \in placed
    BY <1>5
  <2>4. p \in placed /\ p[2] = i - 1
    <3>1. \E q \in placed : q[2] = i - 1
      BY <2>2, <2>3
    <3> HIDE DEF placed
    <3> QED BY <3>1
  <2>5. p[1] \in S /\ at[p[1]] = p[2]
    <3>1. PICK f \in Rooted : p = <<f, Cardinality({e \in Rooted : Precedes(e, f)})>>
      <4> HIDE DEF p
      <4> QED BY <2>4
    <3>2. p[1] = f /\ p[2] = Cardinality({e \in Rooted : Precedes(e, f)})
      <4> HIDE DEF p
      <4> QED BY <3>1
    <3>3. at[f] = p[2]
      <4> HIDE DEF p, at
      <4> QED BY <1>5, <3>2
    <3> HIDE DEF p, at
    <3> QED BY <3>2, <3>3
  <2>6. Visits[i] = p[1]
    BY DEF Visits
  <2> HIDE DEF p
  <2> QED BY <2>4, <2>5, <2>6
<1> HIDE DEF at, R
<1>7. Visits \in [1..n -> S] /\ Len(Visits) = n
  <2>1. Visits = [i \in 1..n |-> Visits[i]]
    BY DEF Visits
  <2>2. Visits \in [1..n -> S]
    BY <1>6, <2>1
  <2>3. DOMAIN Visits = 1..n /\ Visits \in Seq(S)
    BY <1>2, <2>2
  <2> HIDE DEF S
  <2> QED BY <1>2, <2>2, <2>3
<1>8. ASSUME NEW d \in S PROVE \E i \in 1..n : Visits[i] = d
  <2>1. at[d] \in 0..(n - 1)
    BY <1>4
  <2>2. at[d] + 1 \in 1..n /\ at[d] = (at[d] + 1) - 1
    BY <1>2, <2>1
  <2>3. Visits[at[d] + 1] \in S /\ at[Visits[at[d] + 1]] = at[d] /\ at[d] \in Nat
    BY <1>6, <2>1, <2>2
  <2>4. Visits[at[d] + 1] = d
    <3>1. ~(at[Visits[at[d] + 1]] < at[d]) /\ ~(at[d] < at[Visits[at[d] + 1]])
      BY <2>3
    <3> QED BY <1>3, <1>4, <2>3, <3>1
  <2> QED BY <2>2, <2>4
<1>9. ASSUME NEW i \in 1..n, NEW j \in 1..n, i < j PROVE Precedes(Visits[i], Visits[j])
  <2>1. at[Visits[i]] < at[Visits[j]]
    BY <1>2, <1>6, <1>9
  <2> QED BY <1>1, <1>4, <1>6, <2>1
<1> QED BY <1>2, <1>7, <1>8, <1>9
-----------------------------------------------------------------------------
(* The pass over the visits. *)

\* What best is after each visit.
Passes(best) ==
  LET n == Cardinality(Rooted)
  IN /\ best \in [0..n -> Rooted \cup {Missing}] /\ best[0] = Missing
     /\ \A i \in 1..n :
          best[i] = IF Beats(Visits[i], best[i - 1]) THEN Visits[i] ELSE best[i - 1]

LEMMA PassesExist ==
  ASSUME there \subseteq Units
  PROVE  \E best : Passes(best)
<1> DEFINE n == Cardinality(Rooted)
           Ok(f, m) == /\ f \in [0..m -> Rooted \cup {Missing}] /\ f[0] = Missing
                       /\ \A i \in 1..m : f[i] = IF Beats(Visits[i], f[i - 1]) THEN Visits[i]
                                                 ELSE f[i - 1]
           Bad == {m \in 0..n : ~ \E f : Ok(f, m)}
<1>0. n \in Nat /\ \A i \in 1..n : Visits[i] \in Rooted
  BY VisitsAre
<1>1. 0 \notin Bad
  <2>1. Ok([i \in 0..0 |-> Missing], 0)
    OBVIOUS
  <2> QED BY <2>1
<1>2. ASSUME NEW m \in 1..n, m - 1 \notin Bad PROVE m \notin Bad
  <2>0. m - 1 \in 0..n /\ m \in Nat /\ m - 1 \in Nat
    BY <1>0
  <2>1. PICK f : Ok(f, m - 1)
    BY <1>2, <2>0
  <2> DEFINE next == IF Beats(Visits[m], f[m - 1]) THEN Visits[m] ELSE f[m - 1]
             g == [i \in 0..m |-> IF i = m THEN next ELSE f[i]]
  <2>2. next \in Rooted \cup {Missing}
    BY <1>0, <2>0, <2>1
  <2>3. \A i \in 0..m : g[i] = IF i = m THEN next ELSE f[i]
    OBVIOUS
  <2> HIDE DEF next
  <2>4. g \in [0..m -> Rooted \cup {Missing}] /\ g[0] = Missing
    BY <2>0, <2>1, <2>2
  <2> HIDE DEF g
  <2>5. ASSUME NEW i \in 1..m
        PROVE  g[i] = IF Beats(Visits[i], g[i - 1]) THEN Visits[i] ELSE g[i - 1]
    <3>1. i \in 0..m /\ i - 1 \in 0..m /\ i - 1 # m /\ g[i - 1] = f[i - 1]
      BY <2>0, <2>3
    <3>2. CASE i = m
      BY <2>3, <3>1, <3>2 DEF next
    <3>3. CASE i # m
      <4>1. i \in 1..(m - 1) /\ g[i] = f[i]
        BY <2>0, <2>3, <3>1, <3>3
      <4> QED BY <2>1, <3>1, <4>1
    <3> QED BY <3>2, <3>3
  <2>6. Ok(g, m)
    BY <2>4, <2>5
  <2> QED BY <2>6
<1>3. Bad = {}
  <2> SUFFICES ASSUME Bad # {} PROVE FALSE
    OBVIOUS
  <2>0. Bad \in SUBSET Nat /\ Bad \subseteq 0..n
    BY <1>0
  <2>1. PICK m \in Bad : \A k \in Bad : m <= k
    <3> HIDE DEF Bad
    <3> QED BY <2>0, LeastNatural
  <2>2. m \in 1..n /\ m \in Nat /\ ~(m <= m - 1)
    <3> HIDE DEF Bad
    <3> QED BY <1>0, <1>1, <2>0
  <2>3. m - 1 \notin Bad
    <3> HIDE DEF Bad
    <3> QED BY <2>1, <2>2
  <2> HIDE DEF Bad
  <2> QED BY <1>2, <2>2, <2>3
<1>4. PICK f : Ok(f, n)
  BY <1>0, <1>3
<1>5. Passes(f)
  BY <1>4 DEF Passes
<1> QED BY <1>5

\* Heuristic is the last of them.
LEMMA HeuristicIsLast ==
  ASSUME there \subseteq Units
  PROVE  \E best : Passes(best) /\ Heuristic = best[Cardinality(Rooted)]
<1> DEFINE n == Cardinality(Rooted)
           Def(f) == [i \in 0..n |->
                        IF i = 0 THEN Missing
                        ELSE IF Beats(Visits[i], f[i - 1]) THEN Visits[i] ELSE f[i - 1]]
           last == CHOOSE f : f = Def(f)
<1>0. n \in Nat /\ Len(Visits) = n
  BY VisitsAre
<1>1. PICK f : Passes(f)
  BY PassesExist
<1>2. f = Def(f)
  <2>1. f \in [0..n -> Rooted \cup {Missing}]
    BY <1>1 DEF Passes
  <2>2. \A i \in 0..n : i # 0 => i \in 1..n
    BY <1>0
  <2>3. \A i \in 0..n : f[i] = Def(f)[i]
    BY <1>1, <2>2 DEF Passes
  <2>4. f = [i \in 0..n |-> f[i]] /\ Def(f) = [i \in 0..n |-> Def(f)[i]]
    BY <2>1
  <2> HIDE DEF Def, n
  <2> QED BY <2>3, <2>4
<1>3. last = Def(last)
  <2> HIDE DEF Def
  <2> QED BY <1>2
<1>4. Heuristic = last[n]
  BY <1>0 DEF Heuristic
<1> HIDE DEF last
<1>5. DOMAIN last = 0..n /\ last[0] = Missing
      /\ \A i \in 1..n : last[i] = IF Beats(Visits[i], last[i - 1]) THEN Visits[i] ELSE last[i - 1]
  <2>1. \A i \in 0..n : last[i] = Def(last)[i]
    BY <1>3
  <2>2. \A i \in 1..n : i \in 0..n /\ i # 0
    BY <1>0
  <2>3. 0 \in 0..n
    BY <1>0
  <2>4. DOMAIN last = 0..n
    BY <1>3
  <2> QED BY <2>1, <2>2, <2>3, <2>4
<1>6. \A i \in 0..n : last[i] = f[i]
  <2> DEFINE Bad == {i \in 0..n : last[i] # f[i]}
  <2> SUFFICES ASSUME Bad # {} PROVE FALSE
    OBVIOUS
  <2>1. Bad \in SUBSET Nat
    BY <1>0
  <2>2. PICK m \in Bad : \A k \in Bad : m <= k
    <3> HIDE DEF Bad
    <3> QED BY <2>1, LeastNatural
  <2>3. m \in 0..n /\ last[m] # f[m]
    OBVIOUS
  <2>4. m # 0 /\ m \in 1..n /\ m - 1 \in 0..n /\ ~(m <= m - 1)
    BY <1>0, <1>1, <1>5, <2>3 DEF Passes
  <2>5. m - 1 \notin Bad
    <3> HIDE DEF Bad
    <3> QED BY <2>2, <2>4
  <2>6. last[m - 1] = f[m - 1]
    BY <2>4, <2>5
  <2>7. f[m] = IF Beats(Visits[m], f[m - 1]) THEN Visits[m] ELSE f[m - 1]
    BY <1>1, <2>4 DEF Passes
  <2> HIDE DEF Bad
  <2> QED BY <1>5, <2>3, <2>4, <2>6, <2>7
<1>7. n \in 0..n
  BY <1>0
<1> QED BY <1>1, <1>4, <1>6, <1>7

\* After i visits best is the first of the highest score among them, if any scores.
BestOf(best, i) ==
  \/ best[i] = Missing /\ \A j \in 1..i : Score(Visits[j]) = 0
  \/ \E k \in 1..i :
       /\ best[i] = Visits[k] /\ Score(Visits[k]) > 0
       /\ \A j \in 1..i : Score(Visits[j]) <= Score(Visits[k])
       /\ \A j \in 1..(k - 1) : Score(Visits[j]) < Score(Visits[k])

LEMMA BestSoFar ==
  ASSUME there \subseteq Units, NEW best, Passes(best)
  PROVE  \A i \in 0..Cardinality(Rooted) : BestOf(best, i)
<1> DEFINE n == Cardinality(Rooted)
           Bad == {i \in 0..n : ~ BestOf(best, i)}
<1>0. n \in Nat /\ \A i \in 1..n : Visits[i] \in Rooted /\ Visits[i] # Missing
                                  /\ Score(Visits[i]) \in Nat
  BY VisitsAre, FoldersAre, ScoreIs DEF Rooted, IsFolder
<1>1. 0 \notin Bad
  BY DEF Passes, BestOf
<1>2. ASSUME NEW m \in 1..n, BestOf(best, m - 1) PROVE BestOf(best, m)
  <2>0. m \in Nat /\ m - 1 \in Nat /\ m \in 1..m /\ \A j \in 1..m : j = m \/ j \in 1..(m - 1)
    BY <1>0
  <2>1. best[m] = IF Beats(Visits[m], best[m - 1]) THEN Visits[m] ELSE best[m - 1]
    BY DEF Passes
  <2>2. \A j \in 1..m : j \in 1..n /\ Score(Visits[j]) \in Nat /\ Visits[j] # Missing
    BY <1>0, <2>0
  <2>3. CASE best[m - 1] = Missing /\ \A j \in 1..(m - 1) : Score(Visits[j]) = 0
    <3>1. CASE Score(Visits[m]) > 0
      <4>1. best[m] = Visits[m]
        BY <2>1, <2>3, <3>1 DEF Beats
      <4>2. /\ \A j \in 1..m : Score(Visits[j]) <= Score(Visits[m])
            /\ \A j \in 1..(m - 1) : Score(Visits[j]) < Score(Visits[m])
        BY <2>0, <2>2, <2>3, <3>1
      <4> QED BY <2>0, <3>1, <4>1, <4>2 DEF BestOf
    <3>2. CASE Score(Visits[m]) = 0
      <4>1. best[m] = Missing
        BY <2>1, <2>3, <3>2 DEF Beats
      <4> QED BY <2>0, <2>3, <3>2, <4>1 DEF BestOf
    <3> QED BY <2>0, <2>2, <3>1, <3>2
  <2>4. ASSUME NEW k \in 1..(m - 1), best[m - 1] = Visits[k], Score(Visits[k]) > 0,
               \A j \in 1..(m - 1) : Score(Visits[j]) <= Score(Visits[k]),
               \A j \in 1..(k - 1) : Score(Visits[j]) < Score(Visits[k])
        PROVE  BestOf(best, m)
    <3>0. k \in 1..m /\ Visits[k] # Missing /\ Score(Visits[k]) \in Nat /\ Score(Visits[m]) \in Nat
      BY <2>0, <2>2
    <3>1. CASE Score(Visits[m]) > Score(Visits[k])
      <4>1. best[m] = Visits[m] /\ Score(Visits[m]) > 0
        BY <2>1, <2>4, <3>0, <3>1 DEF Beats
      <4>2. \A j \in 1..(m - 1) : Score(Visits[j]) < Score(Visits[m])
        <5> SUFFICES ASSUME NEW j \in 1..(m - 1) PROVE Score(Visits[j]) < Score(Visits[m])
          OBVIOUS
        <5>1. Score(Visits[j]) <= Score(Visits[k]) /\ Score(Visits[j]) \in Nat
          BY <2>0, <2>2, <2>4
        <5> QED BY <3>0, <3>1, <5>1
      <4>3. \A j \in 1..m : Score(Visits[j]) <= Score(Visits[m])
        BY <2>0, <2>2, <4>2
      <4> QED BY <2>0, <4>1, <4>2, <4>3 DEF BestOf
    <3>2. CASE ~(Score(Visits[m]) > Score(Visits[k]))
      <4>1. best[m] = Visits[k]
        BY <2>1, <2>4, <3>0, <3>2 DEF Beats
      <4>2. \A j \in 1..m : Score(Visits[j]) <= Score(Visits[k])
        BY <2>0, <2>4, <3>0, <3>2
      <4> QED BY <2>4, <3>0, <4>1, <4>2 DEF BestOf
    <3> QED BY <3>1, <3>2
  <2> QED BY <1>2, <2>3, <2>4 DEF BestOf
<1>3. Bad = {}
  <2> SUFFICES ASSUME Bad # {} PROVE FALSE
    OBVIOUS
  <2>0. Bad \in SUBSET Nat /\ Bad \subseteq 0..n
    BY <1>0
  <2>1. PICK m \in Bad : \A k \in Bad : m <= k
    <3> HIDE DEF Bad
    <3> QED BY <2>0, LeastNatural
  <2>2. m \in 1..n /\ m - 1 \in 0..n /\ ~(m <= m - 1)
    <3> HIDE DEF Bad
    <3> QED BY <1>0, <1>1, <2>0
  <2>3. m - 1 \notin Bad
    <3> HIDE DEF Bad
    <3> QED BY <2>1, <2>2
  <2> QED BY <1>2, <2>2, <2>3
<1> QED BY <1>3
-----------------------------------------------------------------------------
(* The disk and the program: the inductive invariant. *)

\* A snapshot lacks nothing that was there unless it was written since, and what it
\* has was written since only if its stamp grew.
SnapshotInv ==
  before # Missing =>
    /\ \A u \in there : Seen(u) /\ u \notin written => u \in DOMAIN before
    /\ \A u \in DOMAIN before : /\ Seen(u) /\ before[u] \in Nat /\ before[u] <= stamp[u]
                                /\ u \in written => before[u] < stamp[u]
DetectInv == DetectTypes /\ SnapshotInv

\* Whatever files do not parse, whatever stores fail and in whatever order files are read, the games listed are
\* installed.
LEMMA Listings ==
  ASSUME NEW broken \in SUBSET Installed, NEW failing \in SUBSET Stores,
         NEW gs \in Enumerated(broken, failing)
  PROVE  gs \in Seq(Installed)
<1>1. ASSUME NEW S \in SUBSET Installed, NEW o \in Orders(S)
      PROVE  o \in Seq(Installed)
  <2>1. Cardinality(S) \in Nat
    BY DetectAssumption, FS_Subset, FS_CardinalityType
  <2>2. o \in [1..Cardinality(S) -> S]
    BY DEF Orders, Bijection, Injection
  <2>3. o \in [1..Cardinality(S) -> Installed]
    BY <2>2
  <2> QED BY <2>1, <2>3
<1>2. /\ SteamGames(broken, failing) \in SUBSET Installed
      /\ EpicGames(broken, failing) \in SUBSET Installed
  BY DEF SteamGames, EpicGames, Of
<1>3. PICK a \in Orders(SteamGames(broken, failing)),
           b \in Orders(EpicGames(broken, failing)) : gs = a \o b
  BY DEF Enumerated
<1>4. a \in Seq(Installed) /\ b \in Seq(Installed)
  BY <1>1, <1>2, <1>3
<1> QED BY <1>3, <1>4

LEMMA DetectStarts == DetectInit => DetectInv
<1> SUFFICES ASSUME DetectInit PROVE DetectInv
  OBVIOUS
<1>1. games \in Seq(Installed)
  BY Listings DEF DetectInit
<1> QED BY <1>1 DEF DetectInit, DetectInv, DetectTypes, SnapshotInv

LEMMA DetectStep == DetectInv /\ [DetectNext]_detectVars => DetectInv'
<1> SUFFICES ASSUME DetectInv, [DetectNext]_detectVars PROVE DetectInv'
  OBVIOUS
<1> USE DEF DetectInv
<1>1. CASE Arm
  <2>1. DOMAIN Capture = {v \in there : Seen(v)} /\ \A u \in DOMAIN Capture : Capture[u] = stamp[u]
    BY DEF Capture
  <2>2. before' = Capture /\ written' = {} /\ UNCHANGED <<stamp, there, games>>
    BY <1>1 DEF Arm
  <2>3. DetectTypes'
    BY <2>1, <2>2 DEF DetectTypes
  <2>4. SnapshotInv'
    BY <2>1, <2>2 DEF DetectTypes, SnapshotInv, Seen
  <2> QED BY <2>3, <2>4
<1>2. ASSUME NEW broken \in SUBSET Installed, NEW failing \in SUBSET Stores,
             Load(broken, failing)
      PROVE  DetectInv'
  <2>1. games' \in Seq(Installed)
    BY <1>2, Listings DEF Load
  <2> QED BY <1>2, <2>1 DEF Load, DetectTypes, SnapshotInv
<1>3. ASSUME NEW u \in Units, Write(u) PROVE DetectInv'
  <2>1. /\ stamp' = [stamp EXCEPT ![u] = @ + 1] /\ there' = there \union {u}
        /\ written' = written \union {u} /\ UNCHANGED <<before, games>>
    BY <1>3 DEF Write
  <2>2. \A v \in Units : /\ stamp[v] \in Nat
                         /\ stamp'[v] = IF v = u THEN stamp[v] + 1 ELSE stamp[v]
    BY <2>1 DEF DetectTypes
  <2>3. DetectTypes'
    BY <2>1, <2>2 DEF DetectTypes
  <2>4. SnapshotInv'
    <3> SUFFICES ASSUME before # Missing
                 PROVE  /\ \A v \in there' : Seen(v) /\ v \notin written' => v \in DOMAIN before
                        /\ \A v \in DOMAIN before :
                             /\ Seen(v) /\ before[v] \in Nat /\ before[v] <= stamp'[v]
                             /\ v \in written' => before[v] < stamp'[v]
      BY <2>1 DEF SnapshotInv, Seen
    <3>1. \A v \in there' : Seen(v) /\ v \notin written' => v \in DOMAIN before
      BY <2>1 DEF SnapshotInv
    <3>2. DOMAIN before \subseteq Units
      BY DEF DetectTypes
    <3>3. \A v \in DOMAIN before : v \in written' => v = u \/ v \in written
      BY <2>1
    <3>4. \A v \in DOMAIN before : Seen(v) /\ before[v] \in Nat /\ before[v] <= stamp'[v]
      BY <2>2, <3>2 DEF SnapshotInv
    <3>5. \A v \in DOMAIN before : v \in written' => before[v] < stamp'[v]
      BY <2>2, <3>2, <3>3 DEF SnapshotInv
    <3> QED BY <3>1, <3>4, <3>5
  <2> QED BY <2>3, <2>4
<1>4. ASSUME NEW u \in Units, Delete(u) PROVE DetectInv'
  <2>1. there' \subseteq there /\ UNCHANGED <<stamp, before, games, written>>
    BY <1>4 DEF Delete
  <2> QED BY <2>1 DEF DetectTypes, SnapshotInv, Seen
<1>5. CASE UNCHANGED detectVars
  BY <1>5 DEF detectVars, DetectTypes, SnapshotInv, Seen
<1> QED BY <1>1, <1>2, <1>3, <1>4, <1>5 DEF DetectNext

LEMMA DetectAlways == DetectSpec => []DetectInv
BY DetectStarts, DetectStep, PTL DEF DetectSpec

\* The types of the disk and of the program's lists.
THEOREM DetectTypeCorrect == DetectSpec => []DetectTypes
BY DetectAlways, PTL DEF DetectInv

-----------------------------------------------------------------------------
(* What is found. *)

\* The pass over all folders below the roots finds the first of the highest score.
LEMMA BestIsFound == DetectTypes => FindsBest
<1> SUFFICES ASSUME DetectTypes PROVE FindsBest
  OBVIOUS
<1>0. there \subseteq Units
  BY DEF DetectTypes
<1> DEFINE n == Cardinality(Rooted)
           scoring == {d \in Rooted : Score(d) > 0}
           best == {d \in scoring : \A e \in scoring \ {d} :
                      Score(d) > Score(e) \/ (Score(d) = Score(e) /\ Precedes(d, e))}
<1>1. PICK after : Passes(after) /\ Heuristic = after[n]
  BY <1>0, HeuristicIsLast
<1>2. n \in Nat /\ n \in 0..n
  BY <1>0, VisitsAre
<1>3. BestOf(after, n)
  BY <1>0, <1>1, <1>2, BestSoFar
<1>4. \A d \in Rooted : Score(d) \in Nat /\ \E i \in 1..n : Visits[i] = d
  BY <1>0, VisitsAre, ScoreIs
<1>5. \A i \in 1..n : Visits[i] \in Rooted
  BY <1>0, VisitsAre
<1>6. ASSUME \A t \in Range(Templates) : t \notin Dirs PROVE FindSaveDir = Heuristic
  BY <1>6 DEF FindSaveDir, Curated, Range
<1>7. CASE Heuristic = Missing /\ \A j \in 1..n : Score(Visits[j]) = 0
  <2>1. scoring = {}
    BY <1>4, <1>7
  <2> QED BY <1>6, <1>7, <2>1 DEF FindsBest
<1>8. ASSUME NEW k \in 1..n, Heuristic = Visits[k], Score(Visits[k]) > 0,
             \A j \in 1..n : Score(Visits[j]) <= Score(Visits[k]),
             \A j \in 1..(k - 1) : Score(Visits[j]) < Score(Visits[k])
      PROVE  FindsBest
  <2> DEFINE d == Visits[k]
  <2>1. d \in scoring
    BY <1>5, <1>8
  <2>2. ASSUME NEW e \in scoring \ {d}
        PROVE  /\ Score(d) > Score(e) \/ (Score(d) = Score(e) /\ Precedes(d, e))
               /\ ~(Score(e) > Score(d)) /\ ~(Score(e) = Score(d) /\ Precedes(e, d))
    <3>1. PICK j \in 1..n : Visits[j] = e
      BY <1>4
    <3>2. Score(e) \in Nat /\ Score(d) \in Nat /\ Score(e) <= Score(d) /\ j # k
      BY <1>4, <1>5, <1>8, <3>1
    <3>3. CASE j < k
      <4>1. j \in 1..(k - 1)
        BY <1>2, <3>3
      <4>2. Score(e) < Score(d)
        BY <1>8, <3>1, <4>1
      <4> QED BY <3>2, <4>2
    <3>4. CASE k < j
      <4>1. Precedes(d, e)
        BY <1>0, <3>1, <3>4, VisitsAre
      <4>2. ~ Precedes(e, d)
        <5>1. d \in Rooted /\ e \in Rooted
          BY <1>5
        <5> QED BY <1>0, <4>1, <5>1, Irreflexive, Transitive
      <4> QED BY <3>2, <4>1, <4>2
    <3> QED BY <1>2, <3>2, <3>3, <3>4
  <2>3. best = {d}
    <3>1. d \in best
      BY <2>1, <2>2
    <3>2. ASSUME NEW e \in best, e # d PROVE FALSE
      <4>1. e \in scoring \ {d} /\ d \in scoring \ {e}
        BY <2>1, <3>2
      <4>2. Score(e) > Score(d) \/ (Score(e) = Score(d) /\ Precedes(e, d))
        BY <3>2, <4>1
      <4> HIDE DEF d
      <4> QED BY <2>2, <4>1, <4>2
    <3> HIDE DEF best, d
    <3> QED BY <3>1, <3>2
  <2>4. scoring # {}
    BY <2>1
  <2> QED BY <1>6, <1>8, <2>3, <2>4 DEF FindsBest
<1> QED BY <1>1, <1>3, <1>7, <1>8 DEF BestOf

\* Only what is named like the game, or is a save folder below that, scores 100.
LEMMA OwnIsFound == DetectTypes => NearTheGame
<1> SUFFICES ASSUME DetectTypes PROVE NearTheGame
  OBVIOUS
<1> DEFINE own(d) == NameOf(d) \in Like \/ (NameOf(d) \in SaveNames /\ Parent(d) \in Like)
           n == Cardinality(Rooted)
<1> SUFFICES ASSUME NEW d \in Rooted, own(d) PROVE Heuristic # Missing /\ own(Heuristic)
  BY DEF NearTheGame
<1>0. there \subseteq Units
  BY DEF DetectTypes
<1>1. PICK after : Passes(after) /\ Heuristic = after[n]
  BY <1>0, HeuristicIsLast
<1>2. n \in Nat /\ n \in 0..n
  BY <1>0, VisitsAre
<1>3. BestOf(after, n)
  BY <1>0, <1>1, <1>2, BestSoFar
<1>4. PICK i \in 1..n : Visits[i] = d
  BY <1>0, VisitsAre
<1>5. Score(d) >= 100 /\ Score(d) \in Nat
  BY <1>0, ScoreIs
<1>6. PICK k \in 1..n : Heuristic = Visits[k] /\ Score(d) <= Score(Visits[k])
  BY <1>1, <1>3, <1>4, <1>5 DEF BestOf
<1>7. Score(Visits[k]) \in Nat /\ Score(Visits[k]) >= 100
  BY <1>0, <1>5, <1>6, ScoreIs
<1>8. own(Visits[k])
  BY <1>0, <1>7, ScoreIs
<1>9. Visits[k] # Missing
  BY <1>0, VisitsAre, FoldersAre DEF Rooted, IsFolder
<1> QED BY <1>6, <1>8, <1>9

\* find_save_dir's search finds the best folder, the first of equals, for any disk,
\* roots and names.
THEOREM BestAlwaysFound == DetectSpec => []FindsBest
BY DetectTypeCorrect, BestIsFound, PTL

\* However many save files other folders have, what is found has the game's name or is
\* below it, while there is such a folder.
THEOREM AlwaysNearTheGame == DetectSpec => []NearTheGame
BY DetectTypeCorrect, OwnIsFound, PTL

-----------------------------------------------------------------------------
(* The game of a process. *)

\* If no install folder contains another, a process has at most one owner, and match
\* finds it in whatever order the games are listed.
Within(dir, path) ==
  /\ Len(dir) <= Len(path)
  /\ [i \in DOMAIN dir |-> Lower(path[i])] = [i \in DOMAIN dir |-> Lower(dir[i])]

LEMMA OwnerFound ==
  ASSUME DetectTypes,
         \A g, h \in Installed : StartsWith(g.dir, h.dir) => g = h
  PROVE  OwnerIsFound
<1> SUFFICES ASSUME NEW exe \in Processes
             PROVE  LET owners == {g \in Range(games) : Within(g.dir, exe)}
                    IN  IF owners = {} THEN Match(exe) = Missing ELSE owners = {Match(exe)}
  BY DEF OwnerIsFound, Within
<1> DEFINE owners == {g \in Range(games) : Within(g.dir, exe)}
           hits == {i \in DOMAIN games : StartsWith(exe, games[i].dir)}
<1>1. games \in Seq(Installed) /\ DOMAIN games = 1..Len(games) /\ Len(games) \in Nat
  BY DEF DetectTypes
<1>2. \A g \in Installed : DOMAIN g.dir = 1..Len(g.dir) /\ Len(g.dir) \in Nat
  BY DetectAssumption
<1>3. \A g \in Installed : StartsWith(exe, g.dir) <=> Within(g.dir, exe)
  BY DEF StartsWith, Within
<1>4. ASSUME NEW g \in Installed, NEW h \in Installed, StartsWith(exe, g.dir),
             StartsWith(exe, h.dir)
      PROVE  g = h
  <2>1. CASE Len(h.dir) <= Len(g.dir)
    <3>1. StartsWith(g.dir, h.dir)
      BY <1>2, <1>4, <2>1 DEF StartsWith
    <3> QED BY <3>1
  <2>2. CASE Len(g.dir) <= Len(h.dir)
    <3>1. StartsWith(h.dir, g.dir)
      BY <1>2, <1>4, <2>2 DEF StartsWith
    <3> QED BY <3>1
  <2> QED BY <1>2, <2>1, <2>2
<1>5. CASE hits = {}
  <2>1. owners = {}
    BY <1>1, <1>3, <1>5 DEF Range
  <2> QED BY <1>5, <2>1 DEF Match
<1>6. CASE hits # {}
  <2>1. hits \in SUBSET Nat
    BY <1>1
  <2>2. Min(hits) \in hits
    <3>1. \E x \in hits : \A y \in hits : x <= y
      <4> HIDE DEF hits
      <4> QED BY <1>6, <2>1, LeastNatural
    <3> HIDE DEF hits
    <3> QED BY <3>1 DEF Min
  <2>3. Match(exe) = games[Min(hits)]
    BY <1>6 DEF Match
  <2>4. Match(exe) \in Range(games) /\ Match(exe) \in Installed /\ StartsWith(exe, Match(exe).dir)
    <3>1. PICK i \in DOMAIN games : i = Min(hits) /\ StartsWith(exe, games[i].dir)
      BY <2>2
    <3>2. Match(exe) = games[i] /\ games[i] \in Installed
      BY <1>1, <2>3, <3>1
    <3> QED BY <3>1, <3>2 DEF Range
  <2>5. \A g \in owners : g \in Installed /\ StartsWith(exe, g.dir)
    BY <1>1, <1>3 DEF Range
  <2>6. owners = {Match(exe)}
    BY <1>3, <1>4, <2>4, <2>5
  <2> QED BY <2>6
<1> QED BY <1>5, <1>6

\* The game of a process is the listed one whose folder it runs in, however often the
\* launchers' files are read again, in whatever order and with whatever files broken or not read.
THEOREM OwnerAlwaysFound ==
  ASSUME \A g, h \in Installed : StartsWith(g.dir, h.dir) => g = h
  PROVE  DetectSpec => []OwnerIsFound
BY DetectTypeCorrect, OwnerFound, PTL

-----------------------------------------------------------------------------
(* The files that were written. *)

LEMMA FilesAdd ==
  ASSUME NEW A \in SUBSET Units, NEW B \in SUBSET Units, A \cap B = {}
  PROVE  Files(A \cup B) = Files(A) + Files(B)
<1> DEFINE Bad == {T \in SUBSET A : Files(T \cup B) # Files(T) + Files(B)}
<1> SUFFICES ASSUME Bad # {} PROVE FALSE
  OBVIOUS
<1>0. \A T \in SUBSET Units : /\ IsFiniteSet(T) /\ Cardinality(T) \in Nat /\ Files(T) \in Nat
                              /\ Files({}) = 0
                              /\ \A u \in T : Files(T) = u.n + Files(T \ {u})
  BY FilesAre, FS_CardinalityType
<1>1. PICK T \in Bad : \A V \in Bad : Cardinality(T) <= Cardinality(V)
  <2>1. \A V \in Bad : IsFiniteSet(V)
    BY <1>0
  <2> HIDE DEF Bad
  <2> QED BY <2>1, Smallest
<1>2. T \in SUBSET A /\ T \in SUBSET Units /\ Files(T \cup B) # Files(T) + Files(B)
  OBVIOUS
<1>3. T # {}
  <2> SUFFICES ASSUME T = {} PROVE FALSE
    OBVIOUS
  <2>1. T \cup B = B /\ Files(T) = 0 /\ Files(B) \in Nat
    BY <1>0
  <2> QED BY <1>2, <2>1
<1>4. PICK u \in T : TRUE
  BY <1>3
<1> DEFINE U == T \ {u}
<1>5. U \in SUBSET A /\ U \in SUBSET Units /\ Cardinality(U) < Cardinality(T)
  <2>1. Cardinality(U) = Cardinality(T) - 1
    BY <1>0, <1>2, FS_RemoveElement
  <2> QED BY <1>0, <1>2, <2>1
<1>6. Files(U \cup B) = Files(U) + Files(B)
  <2>1. U \notin Bad
    <3> HIDE DEF U, Bad
    <3> QED BY <1>0, <1>1, <1>2, <1>5
  <2> QED BY <1>5, <2>1
<1>7. Files(T) = u.n + Files(U)
  BY <1>0, <1>2
<1>8. Files(T \cup B) = u.n + Files(U \cup B)
  <2>1. (T \cup B) \ {u} = U \cup B /\ T \cup B \in SUBSET Units /\ u \in T \cup B
    BY <1>2
  <2> HIDE DEF U
  <2> QED BY <1>0, <2>1
<1>9. u.n \in Nat /\ Files(U) \in Nat /\ Files(B) \in Nat
  <2> HIDE DEF U
  <2> QED BY <1>0, <1>2, <1>4, <1>5, DetectAssumption
<1> HIDE DEF U
<1> QED BY <1>2, <1>6, <1>7, <1>8, <1>9

\* The candidates of some keys have the files of those keys, each once.
Below(W, K) == {u \in W : Key(u.dir) \in K}
Candidate(W, k) == Scored(k, Files({u \in W : Key(u.dir) = k}))
Candidates(W, K) == {Candidate(W, k) : k \in K}

LEMMA CandidatesCover ==
  ASSUME NEW W \in SUBSET Units, NEW K, IsFiniteSet(K)
  PROVE  SumFunctionOnSet([c \in Candidates(W, K) |-> c.changed], Candidates(W, K))
           = Files(Below(W, K))
<1> DEFINE f(L) == [c \in Candidates(W, L) |-> c.changed]
           sum(L) == SumFunctionOnSet(f(L), Candidates(W, L))
           Bad == {L \in SUBSET K : sum(L) # Files(Below(W, L))}
<1> SUFFICES ASSUME Bad # {} PROVE FALSE
  OBVIOUS
<1>0. ASSUME NEW L \in SUBSET K
      PROVE  /\ IsFiniteSet(L) /\ Cardinality(L) \in Nat /\ IsFiniteSet(Candidates(W, L))
             /\ \A c \in Candidates(W, L) : f(L)[c] = c.changed /\ f(L)[c] \in Nat
  <2>1. IsFiniteSet(L) /\ Cardinality(L) \in Nat
    BY FS_Subset, FS_CardinalityType
  <2>2. IsFiniteSet(Candidates(W, L))
    <3> DEFINE g == [k \in L |-> Candidate(W, k)]
    <3>1. g \in Surjection(L, Candidates(W, L))
      BY DEF Surjection, Candidates
    <3> HIDE DEF g
    <3> QED BY <2>1, <3>1, FS_Surjection
  <2>3. ASSUME NEW c \in Candidates(W, L) PROVE c.changed \in Nat
    <3>1. PICK k \in L : c = Candidate(W, k)
      BY DEF Candidates
    <3>2. {u \in W : Key(u.dir) = k} \in SUBSET Units
      OBVIOUS
    <3>3. Files({u \in W : Key(u.dir) = k}) \in Nat
      BY <3>2, FilesAre
    <3> QED BY <3>1, <3>3 DEF Candidate, Scored
  <2> QED BY <2>1, <2>2, <2>3
<1>1. PICK L \in Bad : \A V \in Bad : Cardinality(L) <= Cardinality(V)
  <2>1. \A V \in Bad : IsFiniteSet(V)
    BY <1>0
  <2> HIDE DEF Bad
  <2> QED BY <2>1, Smallest
<1>2. L \in SUBSET K /\ sum(L) # Files(Below(W, L))
  OBVIOUS
<1>3. L # {}
  <2> SUFFICES ASSUME L = {} PROVE FALSE
    OBVIOUS
  <2>1. Candidates(W, L) = {} /\ Below(W, L) = {}
    BY DEF Candidates, Below
  <2>2. sum(L) = 0
    <3>1. IsFiniteSet({}) /\ \A c \in {} : f(L)[c] \in Nat
      BY FS_EmptySet
    <3> HIDE DEF f
    <3> QED BY <2>1, <3>1, Sums
  <2>3. Files({}) = 0
    BY FilesAre
  <2> QED BY <1>2, <2>1, <2>2, <2>3
<1>4. PICK k \in L : TRUE
  BY <1>3
<1> DEFINE M == L \ {k}
           c == Candidate(W, k)
           A == {u \in W : Key(u.dir) = k}
<1>5. M \in SUBSET K /\ Cardinality(M) < Cardinality(L)
  <2>1. Cardinality(M) = Cardinality(L) - 1
    BY <1>0, <1>2, FS_RemoveElement
  <2> QED BY <1>0, <1>2, <2>1
<1>6. sum(M) = Files(Below(W, M))
  <2>1. M \notin Bad
    <3> HIDE DEF M, Bad
    <3> QED BY <1>0, <1>1, <1>2, <1>5
  <2> HIDE DEF M, sum
  <2> QED BY <1>5, <2>1
<1>7. c \in Candidates(W, L) /\ Candidates(W, M) = Candidates(W, L) \ {c}
  <2>1. \A j \in L : Candidate(W, j).folder = j
    BY DEF Candidate, Scored
  <2> QED BY <2>1 DEF Candidates
<1>8. sum(L) = f(L)[c] + sum(M)
  <2>1. \A e \in Candidates(W, L) \ {c} : f(M)[e] = f(L)[e]
    BY <1>7
  <2>2. IsFiniteSet(Candidates(W, L)) /\ \A e \in Candidates(W, L) : f(L)[e] \in Nat
    BY <1>0, <1>2
  <2> HIDE DEF f, c, M
  <2> QED BY <1>7, <2>1, <2>2, Sums
<1>9. f(L)[c] = Files(A)
  BY <1>7 DEF Candidate, Scored
<1>10. Files(Below(W, L)) = Files(A) + Files(Below(W, M))
  <2>1. /\ A \in SUBSET Units /\ Below(W, M) \in SUBSET Units
        /\ A \cap Below(W, M) = {} /\ Below(W, L) = A \cup Below(W, M)
    BY DEF Below
  <2> HIDE DEF A, M
  <2> QED BY <2>1, FilesAdd
<1> HIDE DEF sum, f, c, A, M
<1> QED BY <1>2, <1>6, <1>8, <1>9, <1>10

\* What differs from the snapshot is what was written since, is there and is seen.
LEMMA ChangedIsWritten ==
  ASSUME DetectInv, before # Missing
  PROVE  Diff(before, Capture) = {u \in written \cap there : Seen(u)}
<1> DEFINE now == {v \in there : Seen(v)}
<1>1. DOMAIN Capture = now /\ \A u \in now : Capture[u] = stamp[u]
  BY DEF Capture
<1>2. \A u \in now : u \in Units /\ stamp[u] \in Nat
  BY DEF DetectInv, DetectTypes
<1>3. ASSUME NEW u \in now, u \in written PROVE u \in DOMAIN before => before[u] # stamp[u]
  <2>1. u \in DOMAIN before => before[u] \in Nat /\ before[u] < stamp[u]
    BY <1>3 DEF DetectInv, SnapshotInv
  <2> QED BY <1>2, <2>1
<1>4. ASSUME NEW u \in now, u \notin written PROVE u \in DOMAIN before /\ before[u] = stamp[u]
  <2>1. u \in DOMAIN before
    BY <1>4 DEF DetectInv, SnapshotInv
  <2> QED BY <1>2, <1>4, <2>1 DEF DetectInv, DetectTypes
<1>5. \A u \in now : (u \in DOMAIN before => before[u] # Capture[u]) <=> u \in written
  BY <1>1, <1>3, <1>4
<1> HIDE DEF now
<1>6. Diff(before, Capture) = {u \in now : u \in written}
  BY <1>1, <1>5 DEF Diff
<1> QED BY <1>6 DEF now

LEMMA WritesFound == DetectInv => WritesAreFound
<1> SUFFICES ASSUME DetectInv, before # Missing
             PROVE  Files({u \in written \cap there : Seen(u) /\ ~IsNoise(Key(u.dir))})
                      = SumFunction([c \in Collect |-> c.changed])
  BY DEF WritesAreFound
<1> DEFINE W == {u \in written \cap there : Seen(u)}
           K == {k \in {Key(u.dir) : u \in W} : ~IsNoise(k)}
<1>1. W \in SUBSET Units
  BY DEF DetectInv, DetectTypes
<1>2. IsFiniteSet(K)
  <2>1. IsFiniteSet(W)
    BY <1>1, FilesAre
  <2> DEFINE all == {Key(u.dir) : u \in W}
             g == [u \in W |-> Key(u.dir)]
  <2>2. g \in Surjection(W, all)
    BY DEF Surjection
  <2>3. IsFiniteSet(all)
    <3> HIDE DEF g, all
    <3> QED BY <2>1, <2>2, FS_Surjection
  <2>4. K \subseteq all
    OBVIOUS
  <2> HIDE DEF K, all
  <2> QED BY <2>3, <2>4, FS_Subset
<1>3. Collect = Candidates(W, K)
  BY ChangedIsWritten DEF Collect, Candidates, Candidate
<1>4. Below(W, K) = {u \in written \cap there : Seen(u) /\ ~IsNoise(Key(u.dir))}
  BY DEF Below
<1>5. SumFunction([c \in Collect |-> c.changed])
        = SumFunctionOnSet([c \in Candidates(W, K) |-> c.changed], Candidates(W, K))
  BY <1>3 DEF SumFunction
<1> HIDE DEF W, K
<1> QED BY <1>1, <1>2, <1>4, <1>5, CandidatesCover

\* The candidates of a session count each file that was written since the snapshot and
\* can be seen once, and no other.
THEOREM WritesAlwaysFound == DetectSpec => []WritesAreFound
BY DetectAlways, WritesFound, PTL

-----------------------------------------------------------------------------
(* GameWatch takes the match of a process as a constant function of its executable. *)

\* Between two starts of the program the match of an executable is one of the installed
\* games or none, and does not change whatever happens on the disk: it is a GameOf, with
\* Installed for Games and Missing for NoGame.
Matching == [exe \in Processes |-> Match(exe)]

LEMMA MatchIsListed ==
  ASSUME DetectTypes, NEW exe
  PROVE  Match(exe) \in Installed \cup {Missing}
<1> DEFINE hits == {i \in DOMAIN games : StartsWith(exe, games[i].dir)}
<1>1. games \in Seq(Installed) /\ hits \in SUBSET Nat
  BY DEF DetectTypes
<1>2. CASE hits = {}
  BY <1>2 DEF Match
<1>3. CASE hits # {}
  <2>1. \E x \in hits : \A y \in hits : x <= y
    <3> HIDE DEF hits
    <3> QED BY <1>1, <1>3, LeastNatural
  <2>2. Min(hits) \in hits
    <3> HIDE DEF hits
    <3> QED BY <2>1 DEF Min
  <2>3. Match(exe) = games[Min(hits)]
    BY <1>3 DEF Match
  <2> QED BY <1>1, <2>2, <2>3
<1> QED BY <1>2, <1>3

LEMMA MatchingKeeps ==
  ASSUME UNCHANGED games
  PROVE  UNCHANGED Matching
BY DEF Matching, Match

\* GameOfAssumption, and that GameOf is a constant until the program starts again.
THEOREM MatchingIsGameOf ==
  DetectSpec => /\ []( Matching \in [Processes -> Installed \cup {Missing}] )
                /\ [][ Matching' = Matching
                       \/ \E broken \in SUBSET Installed, failing \in SUBSET Stores :
                            Load(broken, failing) ]_detectVars
<1>1. DetectTypes => Matching \in [Processes -> Installed \cup {Missing}]
  BY MatchIsListed DEF Matching
<1>2. DetectNext => \/ Matching' = Matching
                   \/ \E broken \in SUBSET Installed, failing \in SUBSET Stores :
                            Load(broken, failing)
  BY MatchingKeeps DEF DetectNext, Arm, Write, Delete
<1> QED BY <1>1, <1>2, DetectTypeCorrect, PTL DEF DetectSpec
=============================================================================
