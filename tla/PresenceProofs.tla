--------------------------- MODULE PresenceProofs ---------------------------
(* Proofs about Presence, for any devices, page size and time to live: a handled close
   leaves no marker of its device, and whoever was playing when a scan began is
   seen while the marker is active. *)
EXTENDS Presence, FiniteSetTheorems, NaturalsInduction, WellFoundedInduction, TLAPS

-----------------------------------------------------------------------------
(* Pages of messages, as in VaultProofs: what a page leaves out lies below its last
   message, and only a full page leaves out anything. *)

\* The messages of a page's reach that are newer than one.
Newer(i, S) == {j \in S : j > i}

\* A set of natural numbers that is not empty has a least one.
LEMMA LeastNatural ==
  ASSUME NEW S \in SUBSET Nat, S # {}
  PROVE  \E n \in S : \A k \in S : n <= k
<1>1. IsWellFoundedOn(OpToRel(<, Nat), Nat)
  BY NatLessThanWellFounded
<1>2. \E n \in S : \A k \in S : ~(<<k, n>> \in OpToRel(<, Nat))
  BY <1>1, WFMin
<1>3. ASSUME NEW k \in Nat, NEW n \in Nat, k < n PROVE <<k, n>> \in OpToRel(<, Nat)
  <2>1. <<k, n>> \in Nat \X Nat /\ <<k, n>>[1] = k /\ <<k, n>>[2] = n
    OBVIOUS
  <2> QED BY <1>3, <2>1 DEF OpToRel
<1>4. PICK n \in S : \A k \in S : ~(<<k, n>> \in OpToRel(<, Nat))
  BY <1>2
<1>5. \A k \in S : k \in Nat /\ n \in Nat /\ ~(k < n)
  BY <1>3, <1>4
<1>6. \A k \in S : n <= k
  BY <1>5
<1> QED BY <1>4, <1>6

\* Of two messages, the older one has more that are newer.
LEMMA NewerCounts ==
  ASSUME NEW S \in SUBSET Nat, IsFiniteSet(S), NEW i \in S, NEW j \in S, i < j
  PROVE  /\ Cardinality(Newer(i, S)) \in Nat /\ Cardinality(Newer(j, S)) \in Nat
         /\ Cardinality(Newer(j, S)) < Cardinality(Newer(i, S))
<1>0. i \in Nat /\ j \in Nat
  OBVIOUS
<1>1. Newer(i, S) \in SUBSET S /\ Newer(j, S) \in SUBSET Newer(i, S) /\ j \in Newer(i, S)
      /\ j \notin Newer(j, S)
  <2>1. \A k \in S : k > j => k > i
    BY <1>0
  <2>2. j > i /\ ~(j > j)
    BY <1>0
  <2> QED BY <2>1, <2>2 DEF Newer
<1>2. IsFiniteSet(Newer(i, S))
  BY <1>1, FS_Subset
<1>3. IsFiniteSet(Newer(j, S)) /\ Cardinality(Newer(j, S)) <= Cardinality(Newer(i, S))
      /\ (Cardinality(Newer(j, S)) = Cardinality(Newer(i, S)) => Newer(j, S) = Newer(i, S))
  BY <1>1, <1>2, FS_Subset
<1>4. Cardinality(Newer(i, S)) \in Nat /\ Cardinality(Newer(j, S)) \in Nat
  BY <1>2, <1>3, FS_CardinalityType
<1> QED BY <1>1, <1>3, <1>4

\* What a page leaves out is older than the last message of the page.
LEMMA LeftOutIsOlder ==
  ASSUME NEW ids \in SUBSET Nat, IsFiniteSet(ids), NEW b, NEW size \in Nat,
         NEW last, IsLast(last, PageOf(ids, b, size)),
         NEW i \in BelowCursor(ids, b), i \notin PageOf(ids, b, size)
  PROVE  i < last
<1> DEFINE S == BelowCursor(ids, b)
<1>1. S \in SUBSET Nat /\ IsFiniteSet(S)
  BY FS_Subset DEF BelowCursor
<1>2. last \in S /\ Cardinality(Newer(last, S)) < size
  BY DEF IsLast, PageOf, Newer
<1>3. ~(Cardinality(Newer(i, S)) < size)
  BY DEF PageOf, Newer
<1>4. i # last
  BY <1>2, <1>3
<1>5. ~(last < i)
  <2> HIDE DEF S
  <2> SUFFICES ASSUME last < i PROVE FALSE
    OBVIOUS
  <2>1. i \in S BY DEF S
  <2>2. /\ Cardinality(Newer(last, S)) \in Nat /\ Cardinality(Newer(i, S)) \in Nat
        /\ Cardinality(Newer(i, S)) < Cardinality(Newer(last, S))
    BY <1>1, <1>2, <2>1, NewerCounts
  <2> QED BY <1>2, <1>3, <2>2
<1> QED BY <1>1, <1>2, <1>4, <1>5

\* A page that is not full has everything below the cursor.
LEMMA NotFullIsAll ==
  ASSUME NEW ids \in SUBSET Nat, IsFiniteSet(ids), NEW b, NEW size \in Nat \ {0},
         Cardinality(PageOf(ids, b, size)) # size
  PROVE  PageOf(ids, b, size) = BelowCursor(ids, b)
<1> DEFINE S == BelowCursor(ids, b)
           P == PageOf(ids, b, size)
           count(i) == Cardinality(Newer(i, S))
           Out == S \ P
           counts == {count(i) : i \in Out}
<1>1. S \in SUBSET Nat /\ IsFiniteSet(S) /\ P \in SUBSET S
  BY FS_Subset DEF BelowCursor, PageOf
<1>2. \A i \in S : i \in P <=> count(i) < size
  BY DEF PageOf, Newer
<1>3. \A i, j \in S : i < j => count(i) \in Nat /\ count(j) \in Nat /\ count(j) < count(i)
  <2> SUFFICES ASSUME NEW i \in S, NEW j \in S, i < j
               PROVE  count(i) \in Nat /\ count(j) \in Nat /\ count(j) < count(i)
    OBVIOUS
  <2> HIDE DEF S
  <2> QED BY <1>1, NewerCounts
<1>4. \A i \in S : count(i) \in Nat /\ IsFiniteSet(Newer(i, S))
  <2> SUFFICES ASSUME NEW i \in S PROVE count(i) \in Nat /\ IsFiniteSet(Newer(i, S))
    OBVIOUS
  <2> HIDE DEF S
  <2>1. Newer(i, S) \in SUBSET S BY DEF Newer
  <2> QED BY <1>1, <2>1, FS_Subset, FS_CardinalityType
<1> SUFFICES ASSUME Out # {} PROVE FALSE
  BY <1>1
\* The newest message that is left out: the page is what is newer.
<1>5. PICK i \in Out : \A k \in Out : count(i) <= count(k)
  <2>1. counts \in SUBSET Nat /\ counts # {}
    BY <1>4
  <2>2. PICK n \in counts : \A k \in counts : n <= k
    <3> HIDE DEF counts
    <3> QED BY <2>1, LeastNatural
  <2> QED BY <2>2
<1>6. P = Newer(i, S)
  <2>1. ASSUME NEW j \in S, j > i PROVE j \in P
    <3>1. count(j) < count(i) /\ count(j) \in Nat /\ count(i) \in Nat
      BY <1>1, <1>3, <1>5, <2>1
    <3>2. j \notin Out
      BY <1>5, <3>1
    <3> QED BY <2>1, <3>2
  <2>2. ASSUME NEW j \in P PROVE j > i
    <3>1. j # i /\ j \in Nat /\ i \in Nat
      BY <1>1, <1>5, <2>2
    <3>2. ~(j < i)
      <4> SUFFICES ASSUME j < i PROVE FALSE
        OBVIOUS
      <4>1. j \in S /\ i \in S /\ count(j) \in Nat /\ count(i) \in Nat /\ count(i) < count(j)
        BY <1>1, <1>3, <1>5, <2>2
      <4>2. count(j) < size /\ ~(count(i) < size)
        BY <1>2, <1>5, <2>2, <4>1
      <4> QED BY <4>1, <4>2
    <3> QED BY <3>1, <3>2
  <2> QED BY <1>1, <2>1, <2>2 DEF Newer
<1>7. Cardinality(P) >= size /\ Cardinality(P) \in Nat
  BY <1>2, <1>4, <1>5, <1>6
<1>8. P # {} /\ P \in SUBSET Nat /\ IsFiniteSet(P)
  <2>1. P = {} => Cardinality(P) = 0 BY FS_EmptySet
  <2> QED BY <1>1, <1>4, <1>5, <1>6, <1>7, <2>1
\* Its last message has all others of the page above it.
<1>9. PICK l \in P : \A k \in P : l <= k
  <2> HIDE DEF P
  <2> QED BY <1>8, LeastNatural
<1>10. Newer(l, S) = P \ {l}
  BY <1>1, <1>6, <1>9 DEF Newer
<1>11. Cardinality(P \ {l}) = Cardinality(P) - 1
  BY <1>8, <1>9, FS_RemoveElement
<1>12. count(l) < size
  BY <1>1, <1>2, <1>9
<1> QED BY <1>7, <1>10, <1>11, <1>12

-----------------------------------------------------------------------------

USE TtlAssumption, PageAssumption, BoundAssumption

Replies == {"none", "opened", "closed", "error"}

\* The first state has its types.
LEMMA InitTyped == Init => TypeOK
BY DEF Init, TypeOK, Phases

\* A page holds ids.
LEMMA PageOfIds == ASSUME NEW b PROVE Page(b) \subseteq Ids
BY DEF Page, PageOf, BelowCursor

\* The part of TypeOK that is about a device's handler.
HandlerTyped ==
  /\ pc \in [Devices -> Phases] /\ reply \in [Devices -> Replies]
  /\ before \in [Devices -> Nat] /\ full \in [Devices -> BOOLEAN]
  /\ doomed \in [Devices -> SUBSET Nat] /\ others \in [Devices -> SUBSET Devices]
  /\ asOf \in [Devices -> Nat] /\ since \in [Devices -> Nat]

\* The end of a handler keeps it.
LEMMA FinishTyped ==
  ASSUME HandlerTyped, NEW d \in Devices, NEW how \in Replies, Finish(d, how)
  PROVE  HandlerTyped'
BY DEF HandlerTyped, Finish, Phases

\* Every step keeps the types.
LEMMA StepTyped == TypeOK /\ [Next]_vars => TypeOK'
<1> SUFFICES ASSUME TypeOK, [Next]_vars PROVE TypeOK'
  OBVIOUS
<1> USE DEF TypeOK, scan
<1>0. Ids \subseteq Nat /\ HandlerTyped
  BY DEF Ids, HandlerTyped, Replies
<1>1. ASSUME NEW d \in Devices, Open(d) PROVE TypeOK'
  BY <1>1 DEF Open, Start, Phases
<1>2. ASSUME NEW d \in Devices, Look(d) PROVE TypeOK'
  <2>1. pc' \in [Devices -> Phases]
    BY <1>2 DEF Look, Phases
  <2>2. before' \in [Devices -> Nat]
    BY <1>0, <1>2, PageOfIds DEF Look, IsLast
  <2>3. others' \in [Devices -> SUBSET Devices]
    BY <1>2 DEF Look
  <2> QED BY <1>2, <2>1, <2>2, <2>3 DEF Look
<1>3. ASSUME NEW d \in Devices, Pull(d) PROVE TypeOK'
  BY <1>3 DEF Pull, Phases
<1>4. ASSUME NEW d \in Devices, NEW answered \in BOOLEAN, Post(d, answered) PROVE TypeOK'
  <2>1. HandlerTyped'
    <3>1. \E how \in Replies : Finish(d, how)
      BY <1>4 DEF Post, Replies
    <3> QED BY <1>0, <3>1, FinishTyped
  <2>2. /\ markers' \subseteq [id : Nat, device : Devices, expires : Nat]
        /\ nextId' \in Nat \ {0} /\ posted' \in [Devices -> Nat]
    BY <1>4 DEF Post
  <2> QED BY <1>4, <2>1, <2>2 DEF Post, HandlerTyped, Replies
<1>5. ASSUME NEW d \in Devices, Close(d) PROVE TypeOK'
  BY <1>5 DEF Close
<1>6. ASSUME NEW d \in Devices, Clear(d) PROVE TypeOK'
  BY <1>6 DEF Clear, Start, Phases
<1>7. ASSUME NEW d \in Devices, ListOwn(d) PROVE TypeOK'
  <2>1. pc' \in [Devices -> Phases] /\ full' \in [Devices -> BOOLEAN]
    BY <1>7 DEF ListOwn, Phases
  <2>2. before' \in [Devices -> Nat]
    BY <1>0, <1>7, PageOfIds DEF ListOwn, IsLast
  <2>3. doomed' \in [Devices -> SUBSET Nat]
    BY <1>7 DEF ListOwn
  <2> QED BY <1>7, <2>1, <2>2, <2>3 DEF ListOwn
<1>8. ASSUME NEW d \in Devices, NEW answered \in BOOLEAN, Delete(d, answered) PROVE TypeOK'
  <2>1. markers' \subseteq markers
    BY <1>8 DEF Delete
  <2>2. HandlerTyped'
    <3>1. CASE \E how \in Replies : Finish(d, how)
      BY <1>0, <3>1, FinishTyped
    <3>2. CASE ~(\E how \in Replies : Finish(d, how))
      BY <1>8, <3>2 DEF Delete, HandlerTyped, Phases, Replies
    <3> QED BY <3>1, <3>2
  <2> QED BY <1>8, <2>1, <2>2 DEF Delete, HandlerTyped, Replies
<1>9. ASSUME NEW d \in Devices, NextPage(d) PROVE TypeOK'
  <2>1. HandlerTyped'
    <3>1. CASE \E how \in Replies : Finish(d, how)
      BY <1>0, <3>1, FinishTyped
    <3>2. CASE ~(\E how \in Replies : Finish(d, how))
      BY <1>9, <3>2 DEF NextPage, HandlerTyped, Phases, Replies
    <3> QED BY <3>1, <3>2
  <2> QED BY <1>9, <2>1 DEF NextPage, HandlerTyped, Replies
<1>10. ASSUME NEW d \in Devices, Fail(d) PROVE TypeOK'
  BY <1>10 DEF Fail, Finish, Phases
<1>11. ASSUME NEW d \in Devices, Restart(d) PROVE TypeOK'
  BY <1>11 DEF Restart, Finish, Phases
<1>12. CASE Time
  BY <1>12 DEF Time
<1>13. CASE Chat
  BY <1>13 DEF Chat
<1>14. CASE UNCHANGED vars
  BY <1>14 DEF vars
<1> QED BY <1>1, <1>2, <1>3, <1>4, <1>5, <1>6, <1>7, <1>8, <1>9, <1>10, <1>11, <1>12, <1>13, <1>14
        DEF Next, Step, Trouble

\* The types of the state.
THEOREM TypeCorrect == Spec => []TypeOK
BY InitTyped, StepTyped, PTL DEF Spec

-----------------------------------------------------------------------------
(* Messages. *)

\* Ids tell messages apart, and a device is about to delete only markers of its own.
IdsApart ==
  /\ \A i \in Ids : i < nextId
  /\ \A m, k \in markers : m.id = k.id => m = k
  /\ \A m \in markers : m.id # 0
  /\ \A d \in Devices : \A i \in doomed[d] :
       i < nextId /\ \A m \in markers : m.id = i => m.device = d

\* The channel is finite.
LEMMA FiniteChannel == TypeOK /\ IdsApart => IsFiniteSet(Ids) /\ Ids \in SUBSET Nat
<1> SUFFICES ASSUME TypeOK, IdsApart PROVE IsFiniteSet(Ids) /\ Ids \in SUBSET Nat
  OBVIOUS
<1>1. /\ markers \subseteq [id : Nat, device : Devices, expires : Nat]
      /\ noise \subseteq Nat /\ nextId \in Nat
  BY DEF TypeOK
<1>2. Ids \in SUBSET Nat
  BY <1>1 DEF Ids
<1>3. \A i \in Ids : i \in 0..nextId
  BY <1>1, <1>2 DEF IdsApart
<1>4. IsFiniteSet(0..nextId)
  BY <1>1, FS_Interval
<1> QED BY <1>2, <1>3, <1>4, FS_Subset

\* What a step does to the channel, and to what is about to be deleted: a device posts its
\* marker, deletes one it listed, or lists its own.
LEMMA ChannelStep ==
  ASSUME TypeOK, [Next]_vars
  PROVE  /\ nextId' = nextId \/ nextId' = nextId + 1
         /\ noise' \subseteq noise \union {nextId} /\ (noise' = noise \/ nextId' = nextId + 1)
         /\ \/ markers' \subseteq markers
            \/ \E d \in Devices : \E m \in [id : {nextId}, device : {d}, expires : Nat] :
                  /\ pc[d] = "post" /\ markers' = markers \union {m} /\ nextId' = nextId + 1
                  /\ noise' = noise
         /\ \A d \in Devices :
              \/ doomed'[d] \subseteq doomed[d]
              \/ /\ markers' = markers
                 /\ doomed'[d] \subseteq {m.id : m \in {k \in markers : k.device = d}}
<1> USE DEF TypeOK, scan
<1>1. ASSUME NEW d \in Devices, Open(d) \/ Look(d) \/ Pull(d) \/ Close(d) \/ Clear(d)
      PROVE  UNCHANGED <<markers, noise, nextId, doomed>>
  BY <1>1 DEF Open, Look, Pull, Close, Clear, Start
<1>2. ASSUME Time \/ UNCHANGED vars PROVE UNCHANGED <<markers, noise, nextId, doomed>>
  BY <1>2 DEF Time, vars
<1>3. CASE Chat
  BY <1>3 DEF Chat
<1>4. ASSUME NEW d \in Devices, NextPage(d) \/ Fail(d) \/ Restart(d)
      PROVE  UNCHANGED <<markers, noise, nextId>> /\ \A e \in Devices : doomed'[e] \subseteq doomed[e]
  BY <1>4 DEF NextPage, Fail, Restart, Finish
<1>5. ASSUME NEW d \in Devices, NEW answered \in BOOLEAN, Delete(d, answered)
      PROVE  /\ UNCHANGED <<noise, nextId>> /\ markers' \subseteq markers
             /\ \A e \in Devices : doomed'[e] \subseteq doomed[e]
  BY <1>5 DEF Delete, Finish
<1>6. ASSUME NEW d \in Devices, ListOwn(d)
      PROVE  /\ UNCHANGED <<markers, noise, nextId>>
             /\ \A e \in Devices :
                  \/ doomed'[e] \subseteq doomed[e]
                  \/ doomed'[e] \subseteq {m.id : m \in {k \in markers : k.device = e}}
  BY <1>6 DEF ListOwn
<1>7. ASSUME NEW d \in Devices, NEW answered \in BOOLEAN, Post(d, answered)
      PROVE  /\ noise' = noise /\ nextId' = nextId + 1 /\ pc[d] = "post"
             /\ \E m \in [id : {nextId}, device : {d}, expires : Nat] : markers' = markers \union {m}
             /\ \A e \in Devices : doomed'[e] \subseteq doomed[e]
  <2>1. noise' = noise /\ nextId' = nextId + 1 /\ pc[d] = "post"
    BY <1>7 DEF Post
  <2>2. \A e \in Devices : doomed'[e] \subseteq doomed[e]
    BY <1>7 DEF Post, Finish
  <2>3. [id |-> nextId, device |-> d, expires |-> asOf[d] + TTL]
          \in [id : {nextId}, device : {d}, expires : Nat]
    OBVIOUS
  <2> QED BY <1>7, <2>1, <2>2, <2>3 DEF Post
<1>8. \/ Time \/ Chat \/ UNCHANGED vars
      \/ \E d \in Devices :
           \/ Open(d) \/ Look(d) \/ Pull(d) \/ Close(d) \/ Clear(d)
           \/ NextPage(d) \/ Fail(d) \/ Restart(d) \/ ListOwn(d)
           \/ \E answered \in BOOLEAN : Delete(d, answered) \/ Post(d, answered)
  BY DEF Next, Step, Trouble
<1>9. CASE \E d \in Devices : \/ Open(d) \/ Look(d) \/ Pull(d) \/ Close(d) \/ Clear(d)
  BY <1>1, <1>9
<1>10. CASE \E d \in Devices : NextPage(d) \/ Fail(d) \/ Restart(d)
  BY <1>4, <1>10
<1>11. CASE \E d \in Devices : ListOwn(d)
  BY <1>6, <1>11
<1>12. CASE \E d \in Devices : \E answered \in BOOLEAN : Delete(d, answered)
  BY <1>5, <1>12
<1>13. CASE \E d \in Devices : \E answered \in BOOLEAN : Post(d, answered)
  BY <1>7, <1>13
<1>14. CASE Time \/ UNCHANGED vars
  BY <1>2, <1>14
<1> QED BY <1>3, <1>8, <1>9, <1>10, <1>11, <1>12, <1>13, <1>14

\* Every step keeps ids apart.
LEMMA IdsStep == TypeOK /\ IdsApart /\ [Next]_vars => IdsApart'
<1> SUFFICES ASSUME TypeOK, IdsApart, [Next]_vars PROVE IdsApart'
  OBVIOUS
<1>0. nextId \in Nat \ {0} /\ Ids \in SUBSET Nat /\ nextId' >= nextId /\ nextId' \in Nat
  <2>1. nextId \in Nat \ {0}
    BY DEF TypeOK
  <2> QED BY <2>1, FiniteChannel, ChannelStep
<1>00. \A i \in Ids : i \in Nat /\ i < nextId
  BY <1>0 DEF IdsApart
<1>1. CASE markers' \subseteq markers
  <2>1. \A i \in Ids' : i \in Ids \/ (i = nextId /\ nextId' = nextId + 1)
    BY <1>1, ChannelStep DEF Ids
  <2>2. \A i \in Ids' : i < nextId'
    <3> SUFFICES ASSUME NEW i \in Ids' PROVE i < nextId'
      OBVIOUS
    <3>1. CASE i \in Ids
      <4>1. i \in Nat /\ i < nextId
        BY <3>1, <1>00
      <4> QED BY <1>0, <4>1
    <3>2. CASE i = nextId /\ nextId' = nextId + 1
      BY <1>0, <3>2
    <3> QED BY <3>1, <3>2, <2>1
  <2>3. ASSUME NEW d \in Devices, NEW i \in doomed'[d]
        PROVE  i < nextId' /\ \A m \in markers' : m.id = i => m.device = d
    <3>1. CASE i \in doomed[d]
      <4>1. i \in Nat /\ i < nextId
        BY <3>1 DEF TypeOK, IdsApart
      <4> QED BY <1>0, <1>1, <3>1, <4>1 DEF IdsApart
    <3>2. CASE markers' = markers /\ i \in {m.id : m \in {k \in markers : k.device = d}}
      <4>1. i \in Ids /\ i \in Nat /\ i < nextId
        BY <1>0, <3>2 DEF Ids, IdsApart
      <4> QED BY <1>0, <3>2, <4>1 DEF IdsApart
    <3> QED BY <2>3, <3>1, <3>2, ChannelStep
  <2> QED BY <1>1, <2>2, <2>3 DEF IdsApart
<1>2. ASSUME NEW d \in Devices, NEW m \in [id : {nextId}, device : {d}, expires : Nat],
             markers' = markers \union {m}, nextId' = nextId + 1, noise' = noise
      PROVE  IdsApart'
  <2>1. \A k \in markers : k.id \in Ids /\ k.id \in Nat /\ k.id < nextId
    BY <1>0 DEF Ids, IdsApart
  <2>2. \A i \in Ids' : i \in Ids \/ i = nextId
    BY <1>2 DEF Ids
  <2>3. \A i \in Ids' : i < nextId'
    <3> SUFFICES ASSUME NEW i \in Ids' PROVE i < nextId'
      OBVIOUS
    <3>1. CASE i \in Ids
      <4>1. i \in Nat /\ i < nextId
        BY <3>1, <1>00
      <4> QED BY <1>0, <4>1
    <3>2. CASE i = nextId /\ nextId' = nextId + 1
      BY <1>0, <3>2
    <3> QED BY <1>2, <3>1, <3>2, <2>2
  <2>4. \A j, k \in markers' : j.id = k.id => j = k
    BY <1>0, <1>2, <2>1 DEF IdsApart
  <2>5. \A k \in markers' : k.id # 0
    BY <1>0, <1>2 DEF IdsApart
  <2>6. ASSUME NEW e \in Devices, NEW i \in doomed'[e]
        PROVE  i < nextId' /\ \A k \in markers' : k.id = i => k.device = e
    <3>1. i \in doomed[e] /\ i \in Nat /\ i < nextId
      <4>1. CASE i \in doomed[e]
        BY <4>1 DEF TypeOK, IdsApart
      <4>2. markers' # markers
        BY <1>0, <1>2, <2>1
      <4> QED BY <2>6, <4>1, <4>2, ChannelStep
    <3> QED BY <1>0, <1>2, <3>1 DEF IdsApart
  <2> QED BY <2>3, <2>4, <2>5, <2>6 DEF IdsApart
<1> QED BY <1>1, <1>2, ChannelStep

-----------------------------------------------------------------------------
(* One device at a time. *)

\* The state a device's steps work on, the channel apart.
Local(d) == <<pc[d], asOf[d], before[d], full[d], doomed[d], others[d], reply[d],
              since[d], posted[d], d \in playing>>

\* What the steps of other devices, the clock and other messages leave alone.
LEMMA OthersLeave ==
  ASSUME TypeOK, [Next]_vars, NEW d \in Devices, ~Step(d), ~Trouble(d)
  PROVE  Local(d)' = Local(d) /\ \A m \in markers' : m.device = d => m \in markers
<1> USE DEF TypeOK, scan
<1>1. CASE Time \/ Chat \/ UNCHANGED vars
  BY <1>1 DEF Time, Chat, vars, Local
<1>2. ASSUME NEW e \in Devices, e # d, Step(e) \/ Trouble(e)
      PROVE  Local(d)' = Local(d) /\ \A m \in markers' : m.device = d => m \in markers
  <2>1. CASE Open(e) \/ Look(e) \/ Pull(e) \/ Close(e)
    BY <1>2, <2>1 DEF Open, Look, Pull, Close, Start, Local
  <2>2. CASE Clear(e) \/ ListOwn(e) \/ NextPage(e) \/ Fail(e) \/ Restart(e)
    BY <1>2, <2>2 DEF Clear, ListOwn, NextPage, Fail, Restart, Start, Finish, Local
  <2>3. ASSUME NEW answered \in BOOLEAN, Post(e, answered)
        PROVE  Local(d)' = Local(d) /\ \A m \in markers' : m.device = d => m \in markers
    <3>1. Local(d)' = Local(d)
      BY <1>2, <2>3 DEF Post, Finish, Local
    <3>2. \A m \in markers' : m \in markers \/ m.device = e
      BY <2>3 DEF Post
    <3> QED BY <1>2, <3>1, <3>2
  <2>4. ASSUME NEW answered \in BOOLEAN, Delete(e, answered)
        PROVE  Local(d)' = Local(d) /\ \A m \in markers' : m.device = d => m \in markers
    BY <1>2, <2>4 DEF Delete, Finish, Local
  <2> QED BY <1>2, <2>1, <2>2, <2>3, <2>4 DEF Step, Trouble
<1> QED BY <1>1, <1>2 DEF Next

\* Where the last message of a page leads: a message below the cursor is on the page, or
\* the page is full and the message lies below its last.
LEMMA PageOrBelow ==
  ASSUME TypeOK, IdsApart, NEW b, NEW i \in Ids, b = 0 \/ i < b, i \notin Page(b)
  PROVE  /\ Cardinality(Page(b)) = ScanPage /\ Page(b) # {}
         /\ \A last : IsLast(last, Page(b)) => i < last
<1>1. IsFiniteSet(Ids) /\ Ids \in SUBSET Nat
  BY FiniteChannel
<1>2. ScanPage \in Nat /\ ScanPage # 0
  OBVIOUS
<1>3. i \in BelowCursor(Ids, b)
  BY DEF BelowCursor
<1>4. Cardinality(Page(b)) = ScanPage
  BY <1>1, <1>2, <1>3, NotFullIsAll DEF Page
<1>5. Page(b) # {}
  BY <1>2, <1>4, FS_EmptySet
<1>6. ASSUME NEW last, IsLast(last, Page(b)) PROVE i < last
  BY <1>1, <1>2, <1>3, <1>6, LeftOutIsOlder DEF Page
<1> QED BY <1>4, <1>5, <1>6

-----------------------------------------------------------------------------
(* A close. *)

\* What end_playing has still to do: everything below the cursor before it lists, what it
\* picked and, behind a full page, everything below the page after.
CloseOf(d) ==
  /\ pc[d] # "idle" => reply[d] = "none"
  /\ pc[d] = "clear" =>
       \A m \in markers : m.device = d => before[d] = 0 \/ m.id < before[d]
  /\ pc[d] = "delete" =>
       \A m \in markers : m.device = d =>
         \/ m.id \in doomed[d]
         \/ full[d] /\ before[d] # 0 /\ m.id < before[d]
CloseInv == \A d \in Devices : CloseOf(d)

\* A listing leaves only what it picked and what lies below the page.
LEMMA ListOwnKeepsClose ==
  ASSUME TypeOK, IdsApart, NEW d \in Devices, CloseOf(d), ListOwn(d) PROVE CloseOf(d)'
<1> USE DEF TypeOK
<1>1. /\ pc[d] = "clear" /\ pc'[d] = "delete" /\ reply' = reply /\ markers' = markers
      /\ doomed'[d] = {m.id : m \in {k \in markers : k.id \in Page(before[d]) /\ k.device = d}}
      /\ full'[d] = (Cardinality(Page(before[d])) = ScanPage)
  BY DEF ListOwn
<1>2. ASSUME NEW m \in markers, m.device = d, m.id \notin doomed'[d]
      PROVE  full'[d] /\ before'[d] # 0 /\ m.id < before'[d]
  <2>1. m.id \in Ids /\ m.id \in Nat /\ m.id \notin Page(before[d])
    BY <1>1, <1>2 DEF Ids
  <2>2. before[d] = 0 \/ m.id < before[d]
    BY <1>1, <1>2 DEF CloseOf
  <2>3. /\ Cardinality(Page(before[d])) = ScanPage /\ Page(before[d]) # {}
        /\ \A last : IsLast(last, Page(before[d])) => m.id < last
    BY <2>1, <2>2, PageOrBelow
  <2>4. IsLast(before'[d], Page(before[d])) /\ before'[d] \in Nat
    <3>1. \E last \in Page(before[d]) :
             IsLast(last, Page(before[d])) /\ before' = [before EXCEPT ![d] = last]
      BY <2>3 DEF ListOwn
    <3>2. Page(before[d]) \subseteq Nat
      BY PageOfIds, FiniteChannel
    <3> QED BY <3>1, <3>2
  <2>5. m.id < before'[d]
    BY <2>3, <2>4
  <2>6. before'[d] # 0
    BY <2>1, <2>4, <2>5
  <2> QED BY <1>1, <2>3, <2>5, <2>6
<1> QED BY <1>1, <1>2 DEF CloseOf

\* A device's own steps keep it.
LEMMA OwnKeepsClose ==
  ASSUME TypeOK, IdsApart, NEW d \in Devices, CloseOf(d), Step(d) \/ Trouble(d)
  PROVE  CloseOf(d)'
<1> USE DEF TypeOK, scan
<1>1. CASE Open(d) \/ Look(d) \/ Pull(d) \/ Close(d)
  BY <1>1 DEF Open, Look, Pull, Close, Start, CloseOf
<1>2. CASE Clear(d)
  BY <1>2 DEF Clear, Start, CloseOf
<1>3. CASE \E answered \in BOOLEAN : Post(d, answered)
  BY <1>3 DEF Post, Finish, CloseOf
<1>4. CASE Fail(d) \/ Restart(d)
  BY <1>4 DEF Fail, Restart, Finish, CloseOf
<1>5. ASSUME NEW answered \in BOOLEAN, Delete(d, answered) PROVE CloseOf(d)'
  BY <1>5 DEF Delete, Finish, CloseOf
<1>6. CASE NextPage(d)
  BY <1>6 DEF NextPage, Finish, CloseOf
<1> QED BY <1>1, <1>2, <1>3, <1>4, <1>5, <1>6, ListOwnKeepsClose DEF Step, Trouble

\* Every step keeps it.
LEMMA CloseStep == TypeOK /\ IdsApart /\ CloseInv /\ [Next]_vars => CloseInv'
<1> SUFFICES ASSUME TypeOK, IdsApart, CloseInv, [Next]_vars, NEW d \in Devices PROVE CloseOf(d)'
  BY DEF CloseInv
<1>1. CloseOf(d)
  BY DEF CloseInv
<1>2. CASE Local(d)' = Local(d) /\ \A m \in markers' : m.device = d => m \in markers
  BY <1>1, <1>2 DEF Local, CloseOf
<1> QED BY <1>1, <1>2, OwnKeepsClose, OthersLeave

\* A step that ends a close leaves no marker of the device.
LEMMA ClosedStep ==
  ASSUME TypeOK, CloseInv, [Next]_vars, NEW d \in Devices, pc[d] = "delete", reply'[d] = "closed",
         NEW m \in markers'
  PROVE  m.device # d
<1> USE DEF TypeOK
<1>1. CloseOf(d) /\ reply[d] = "none"
  BY DEF CloseInv, CloseOf
<1>2. Step(d) \/ Trouble(d)
  BY <1>1, OthersLeave DEF Local
<1>3. CASE NextPage(d)
  BY <1>1, <1>3 DEF NextPage, CloseOf
<1>4. CASE Fail(d) \/ Restart(d)
  BY <1>4 DEF Fail, Restart, Finish
<1>5. ASSUME NEW answered \in BOOLEAN, Delete(d, answered) PROVE FALSE
  BY <1>1, <1>5 DEF Delete, Finish
<1> QED BY <1>2, <1>3, <1>4, <1>5
        DEF Step, Trouble, Open, Look, Pull, Post, Close, Clear, ListOwn

-----------------------------------------------------------------------------
(* An open. *)

\* A session's marker is there, and its device's handler at rest.
SessionOf(e) ==
  /\ pc[e] \in {"look", "pull", "post"} => e \in playing
  /\ posted[e] # 0 =>
       /\ e \in playing /\ pc[e] = "idle"
       /\ \E m \in markers : m.id = posted[e] /\ m.device = e
SessionInv == \A e \in Devices : SessionOf(e)

\* A device's own steps keep its session.
LEMMA OwnKeepsSession ==
  ASSUME TypeOK, NEW e \in Devices, SessionOf(e), Step(e) \/ Trouble(e)
  PROVE  SessionOf(e)'
<1> USE DEF TypeOK, scan
<1>1. CASE Open(e) \/ Look(e) \/ Pull(e) \/ Close(e)
  BY <1>1 DEF Open, Look, Pull, Close, Start, SessionOf
<1>2. CASE Clear(e) \/ ListOwn(e) \/ NextPage(e)
  BY <1>2 DEF Clear, ListOwn, NextPage, Start, Finish, SessionOf
<1>3. CASE Fail(e) \/ Restart(e)
  BY <1>3 DEF Fail, Restart, Finish, SessionOf, Phases
<1>4. CASE \E answered \in BOOLEAN : Delete(e, answered)
  BY <1>4 DEF Delete, Finish, SessionOf
<1>5. CASE \E answered \in BOOLEAN : Post(e, answered)
  <2>1. e \in playing /\ playing' = playing /\ pc'[e] = "idle" /\ posted'[e] = nextId
    BY <1>5 DEF Post, Finish, SessionOf
  <2>2. \E m \in markers' : m.id = nextId /\ m.device = e
    <3> DEFINE own == [id |-> nextId, device |-> e, expires |-> asOf[e] + TTL]
    <3>1. own \in markers' /\ own.id = nextId /\ own.device = e
      BY <1>5 DEF Post
    <3> QED BY <3>1
  <2> QED BY <2>1, <2>2 DEF SessionOf
<1> QED BY <1>1, <1>2, <1>3, <1>4, <1>5 DEF Step, Trouble

\* Only its own device deletes a marker, and only while it handles a close.
LEMMA MarkerStays ==
  ASSUME TypeOK, IdsApart, [Next]_vars, NEW m \in markers, pc[m.device] # "delete"
  PROVE  m \in markers'
<1> USE DEF TypeOK
<1>1. m.device \in Devices
  OBVIOUS
<1>2. ASSUME NEW d \in Devices, NEW answered \in BOOLEAN, Delete(d, answered) PROVE m \in markers'
  <2>1. PICK i \in doomed[d] : markers' = {k \in markers : k.id # i}
    BY <1>2 DEF Delete
  <2>2. pc[d] = "delete"
    BY <1>2 DEF Delete
  <2>3. m.id # i
    BY <1>1, <2>2 DEF IdsApart
  <2> QED BY <2>1, <2>3
<1>3. ASSUME NEW d \in Devices, NEW answered \in BOOLEAN, Post(d, answered) PROVE m \in markers'
  BY <1>3 DEF Post
<1>4. ASSUME NEW d \in Devices, Step(d) \/ Trouble(d) PROVE m \in markers'
  <2>1. CASE Open(d) \/ Look(d) \/ Pull(d) \/ Close(d) \/ Clear(d) \/ ListOwn(d) \/ NextPage(d)
             \/ Fail(d) \/ Restart(d)
    BY <2>1 DEF Open, Look, Pull, Close, Clear, ListOwn, NextPage, Fail, Restart
  <2> QED BY <1>2, <1>3, <1>4, <2>1 DEF Step, Trouble
<1>5. CASE Time \/ Chat \/ UNCHANGED vars
  BY <1>5 DEF Time, Chat, vars
<1> QED BY <1>4, <1>5 DEF Next

\* Every step keeps the sessions.
LEMMA SessionStep == TypeOK /\ IdsApart /\ SessionInv /\ [Next]_vars => SessionInv'
<1> SUFFICES ASSUME TypeOK, IdsApart, SessionInv, [Next]_vars, NEW e \in Devices PROVE SessionOf(e)'
  BY DEF SessionInv
<1>1. SessionOf(e)
  BY DEF SessionInv
<1>2. CASE Local(e)' = Local(e)
  <2>1. /\ pc'[e] = pc[e] /\ posted'[e] = posted[e] /\ (e \in playing' <=> e \in playing)
    BY <1>2 DEF Local
  <2>2. ASSUME posted[e] # 0 PROVE \E m \in markers' : m.id = posted[e] /\ m.device = e
    <3>1. pc[e] = "idle" /\ \E m \in markers : m.id = posted[e] /\ m.device = e
      BY <1>1, <2>2 DEF SessionOf
    <3>2. PICK m \in markers : m.id = posted[e] /\ m.device = e
      BY <3>1
    <3>3. pc[m.device] # "delete"
      BY <3>1, <3>2
    <3>4. m \in markers'
      BY <3>3, MarkerStays
    <3> QED BY <3>2, <3>4
  <2> QED BY <1>1, <2>1, <2>2 DEF SessionOf
<1> QED BY <1>1, <1>2, OwnKeepsSession, OthersLeave

\* No scan began after the next message.
SinceInv == \A d \in Devices : since[d] <= nextId

LEMMA SinceStep == TypeOK /\ SinceInv /\ [Next]_vars => SinceInv'
<1> SUFFICES ASSUME TypeOK, SinceInv, [Next]_vars, NEW d \in Devices PROVE since'[d] <= nextId'
  BY DEF SinceInv
<1>1. nextId \in Nat /\ nextId' >= nextId /\ nextId' \in Nat
  <2>1. nextId \in Nat
    BY DEF TypeOK
  <2> QED BY <2>1, ChannelStep
<1>2. since[d] \in Nat /\ since[d] <= nextId /\ since \in [Devices -> Nat]
  BY DEF TypeOK, SinceInv
<1>3. since'[d] \in {0, since[d], nextId}
  <2>1. CASE Step(d) \/ Trouble(d)
    BY <1>2, <2>1 DEF Step, Trouble, Open, Look, Pull, Post, Close, Clear, ListOwn, Delete, NextPage,
       Fail, Restart, Start, Finish, scan
  <2> QED BY <2>1, OthersLeave DEF Local
<1> QED BY <1>1, <1>2, <1>3

\* What a scan for an open has still to find lies below its cursor.
Sees(d, e) ==
  /\ pc[d] \in {"look", "pull", "post"} /\ HasPosted(e, d)
  /\ \A m \in markers : m.id = posted[e] => Active(m, asOf[d])
Seen(d, e) ==
  \/ e \in others[d]
  \/ pc[d] = "look" /\ (before[d] = 0 \/ posted[e] < before[d])
SeesInv == \A d, e \in Devices : Sees(d, e) => Seen(d, e)

\* Who is to be seen after a step was to be seen before it, a new scan apart.
LEMMA SeesBefore ==
  ASSUME TypeOK, IdsApart, SessionInv, SinceInv, [Next]_vars, NEW d \in Devices, NEW e \in Devices,
         Sees(d, e)', since'[d] = since[d], asOf'[d] = asOf[d], pc[d] \in {"look", "pull", "post"}
  PROVE  Sees(d, e) /\ posted'[e] = posted[e]
<1>1. posted'[e] # 0 /\ posted'[e] < since[d] /\ e # d
  BY DEF Sees, HasPosted
<1>2. posted'[e] = posted[e]
  <2>1. posted'[e] \in {0, posted[e], nextId}
    <3>1. CASE Step(e) \/ Trouble(e)
      BY <3>1 DEF Step, Trouble, Open, Look, Pull, Post, Close, Clear, ListOwn, Delete, NextPage,
         Fail, Restart, Start, Finish, scan, TypeOK
    <3> QED BY <3>1, OthersLeave DEF Local
  <2>2. nextId \in Nat /\ since[d] \in Nat /\ since[d] <= nextId
    BY DEF TypeOK, SinceInv
  <2> QED BY <1>1, <2>1, <2>2
<1>3. /\ e \in playing /\ pc[e] = "idle"
      /\ \E m \in markers : m.id = posted[e] /\ m.device = e
  BY <1>1, <1>2 DEF SessionInv, SessionOf
<1>4. ASSUME NEW m \in markers, m.id = posted[e] PROVE Active(m, asOf[d])
  <2>1. m.device = e
    BY <1>3, <1>4 DEF IdsApart
  <2>2. m \in markers'
    BY <1>3, <2>1, MarkerStays
  <2> QED BY <1>2, <1>4, <2>2 DEF Sees, Active
<1> QED BY <1>1, <1>2, <1>3, <1>4 DEF Sees, HasPosted

\* A page of the scan shows whom it has to, or leaves them below its last message.
LEMMA LookSees ==
  ASSUME TypeOK, IdsApart, SessionInv, NEW d \in Devices, NEW e \in Devices, Look(d),
         Sees(d, e), Seen(d, e), posted' = posted
  PROVE  Seen(d, e)'
<1> USE DEF TypeOK
<1>1. pc[d] = "look" /\ e # d /\ posted[e] # 0
  BY DEF Look, Sees, HasPosted
<1>2. PICK m \in markers : m.id = posted[e] /\ m.device = e
  BY <1>1 DEF SessionInv, SessionOf
<1>3. Active(m, asOf[d])
  BY <1>2 DEF Sees
<1>4. CASE e \in others[d]
  BY <1>4 DEF Look, Seen
<1>5. CASE posted[e] \in Page(before[d])
  <2>1. e \in {k.device : k \in {j \in markers : /\ j.id \in Page(before[d]) /\ j.device # d
                                                   /\ Active(j, asOf[d])}}
    BY <1>1, <1>2, <1>3, <1>5
  <2>2. e \in others'[d]
    BY <2>1 DEF Look
  <2> QED BY <2>2 DEF Seen
<1>6. CASE posted[e] \notin Page(before[d]) /\ e \notin others[d]
  <2>1. posted[e] \in Ids /\ (before[d] = 0 \/ posted[e] < before[d])
    BY <1>2, <1>6 DEF Ids, Seen
  <2>2. /\ Cardinality(Page(before[d])) = ScanPage
        /\ \A last : IsLast(last, Page(before[d])) => posted[e] < last
    BY <1>6, <2>1, PageOrBelow
  <2>3. pc' = pc /\ \E last \in Page(before[d]) :
           IsLast(last, Page(before[d])) /\ before' = [before EXCEPT ![d] = last]
    BY <2>2 DEF Look
  <2>4. posted[e] < before'[d]
    BY <2>2, <2>3
  <2> QED BY <1>1, <2>3, <2>4 DEF Seen
<1> QED BY <1>4, <1>5, <1>6

\* Every step keeps it.
LEMMA SeesStep ==
  TypeOK /\ IdsApart /\ SessionInv /\ SinceInv /\ SeesInv /\ [Next]_vars => SeesInv'
<1> SUFFICES ASSUME TypeOK, IdsApart, SessionInv, SinceInv, SeesInv, [Next]_vars,
                    NEW d \in Devices, NEW e \in Devices, Sees(d, e)'
             PROVE  Seen(d, e)'
  BY DEF SeesInv
<1> USE DEF TypeOK, scan
<1>0. Sees(d, e) => Seen(d, e)
  BY DEF SeesInv
<1>1. CASE Open(d)
  BY <1>1 DEF Open, Start, Seen
<1>2. CASE Look(d)
  <2>1. /\ since'[d] = since[d] /\ asOf'[d] = asOf[d] /\ posted' = posted
        /\ pc[d] \in {"look", "pull", "post"}
    BY <1>2 DEF Look
  <2> QED BY <1>0, <1>2, <2>1, SeesBefore, LookSees
<1>3. CASE Pull(d)
  <2>1. /\ since'[d] = since[d] /\ asOf'[d] = asOf[d] /\ others' = others
        /\ pc[d] = "pull"
    BY <1>3 DEF Pull
  <2> QED BY <1>0, <2>1, SeesBefore DEF Seen
<1>4. CASE \/ Close(d) \/ Clear(d) \/ ListOwn(d) \/ NextPage(d) \/ Fail(d) \/ Restart(d)
  <2>1. pc'[d] \notin {"look", "pull", "post"}
    BY <1>4 DEF Close, Clear, ListOwn, NextPage, Fail, Restart, Start, Finish
  <2> QED BY <2>1 DEF Sees
<1>5. CASE \E answered \in BOOLEAN : Post(d, answered) \/ Delete(d, answered)
  <2>1. pc'[d] \notin {"look", "pull", "post"}
    BY <1>5 DEF Post, Delete, Finish
  <2> QED BY <2>1 DEF Sees
<1>6. CASE Local(d)' = Local(d)
  <2>1. /\ since'[d] = since[d] /\ asOf'[d] = asOf[d] /\ others'[d] = others[d]
        /\ pc'[d] = pc[d] /\ before'[d] = before[d]
    BY <1>6 DEF Local
  <2>2. pc[d] \in {"look", "pull", "post"}
    BY <2>1 DEF Sees
  <2> QED BY <1>0, <2>1, <2>2, SeesBefore DEF Seen
<1> QED BY <1>1, <1>2, <1>3, <1>4, <1>5, <1>6, OthersLeave DEF Step, Trouble

-----------------------------------------------------------------------------
Inv == TypeOK /\ IdsApart /\ CloseInv /\ SessionInv /\ SinceInv /\ SeesInv

\* The first state satisfies the invariant.
LEMMA InitInv == Init => Inv
<1> SUFFICES ASSUME Init PROVE Inv
  OBVIOUS
<1>1. IdsApart
  BY DEF Init, IdsApart, Ids
<1>2. CloseInv /\ SessionInv
  BY DEF Init, CloseInv, CloseOf, SessionInv, SessionOf
<1>3. SinceInv /\ SeesInv
  BY DEF Init, SinceInv, SeesInv, Sees, HasPosted
<1> QED BY <1>1, <1>2, <1>3, InitTyped DEF Inv

LEMMA Invariance == Spec => []Inv
<1>1. Inv /\ [Next]_vars => Inv'
  BY StepTyped, IdsStep, CloseStep, SessionStep, SinceStep, SeesStep DEF Inv
<1> QED BY <1>1, InitInv, PTL DEF Spec

\* CloseLeavesNoMarker: a handled close leaves no marker of its device.
THEOREM CloseAlwaysClears == Spec => CloseLeavesNoMarker
<1>1. Inv /\ [Next]_vars => [\A d \in Devices : pc[d] = "delete" /\ reply'[d] = "closed" =>
                               \A m \in markers' : m.device # d]_vars
  BY ClosedStep DEF Inv
<1> QED BY <1>1, Invariance, PTL DEF Spec, CloseLeavesNoMarker

\* SeesWhoPlays: an open's scan has everybody who was playing when it began.
THEOREM AlwaysSeesWhoPlays == Spec => []SeesWhoPlays
<1>1. Inv => SeesWhoPlays
  BY DEF Inv, SeesInv, Sees, Seen, SeesWhoPlays
<1> QED BY <1>1, Invariance, PTL
=============================================================================
