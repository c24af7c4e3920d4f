---------------------------- MODULE VaultProofs ----------------------------
(***************************************************************************)
(* Theorems about Vault for every set of devices and contents, every       *)
(* max_versions, page size and number of messages: TypeOK, the guarantee   *)
(* that pruning never loses the game's save, and the implementation of     *)
(* SaveHistory.                                                            *)
(***************************************************************************)
EXTENDS Vault, FiniteSetTheorems, NaturalsInduction, WellFoundedInduction, TLAPS

-----------------------------------------------------------------------------
(* Pages of messages: what a page leaves out lies below its last message, and only a
   full page leaves out anything. *)

\* The messages of a page's reach that are newer than one.
Newer(i, S) == {j \in S : j > i}

\* A set of natural numbers that is not empty has a least one.
LEMMA LeastNatural ==
  ASSUME NEW S \in SUBSET Nat, S # {}
  PROVE  \E n \in S : \A k \in S : n <= k
<1>1. IsWellFoundedOn(OpToRel(<, Nat), Nat)
  BY NatLessThanWellFounded
<1>2. \E n \in S : \A k \in S : ~(<<k, n>> \in OpToRel(<, Nat))
  BY <1>1, WFMin
<1>3. ASSUME NEW k \in Nat, NEW n \in Nat, k < n PROVE <<k, n>> \in OpToRel(<, Nat)
  <2>1. <<k, n>> \in Nat \X Nat /\ <<k, n>>[1] = k /\ <<k, n>>[2] = n
    OBVIOUS
  <2> QED BY <1>3, <2>1 DEF OpToRel
<1>4. PICK n \in S : \A k \in S : ~(<<k, n>> \in OpToRel(<, Nat))
  BY <1>2
<1>5. \A k \in S : k \in Nat /\ n \in Nat /\ ~(k < n)
  BY <1>3, <1>4
<1>6. \A k \in S : n <= k
  BY <1>5
<1> QED BY <1>4, <1>6

\* Of two messages, the older one has more that are newer.
LEMMA NewerCounts ==
  ASSUME NEW S \in SUBSET Nat, IsFiniteSet(S), NEW i \in S, NEW j \in S, i < j
  PROVE  /\ Cardinality(Newer(i, S)) \in Nat /\ Cardinality(Newer(j, S)) \in Nat
         /\ Cardinality(Newer(j, S)) < Cardinality(Newer(i, S))
<1>0. i \in Nat /\ j \in Nat
  OBVIOUS
<1>1. Newer(i, S) \in SUBSET S /\ Newer(j, S) \in SUBSET Newer(i, S) /\ j \in Newer(i, S)
      /\ j \notin Newer(j, S)
  <2>1. \A k \in S : k > j => k > i
    BY <1>0
  <2>2. j > i /\ ~(j > j)
    BY <1>0
  <2> QED BY <2>1, <2>2 DEF Newer
<1>2. IsFiniteSet(Newer(i, S))
  BY <1>1, FS_Subset
<1>3. IsFiniteSet(Newer(j, S)) /\ Cardinality(Newer(j, S)) <= Cardinality(Newer(i, S))
      /\ (Cardinality(Newer(j, S)) = Cardinality(Newer(i, S)) => Newer(j, S) = Newer(i, S))
  BY <1>1, <1>2, FS_Subset
<1>4. Cardinality(Newer(i, S)) \in Nat /\ Cardinality(Newer(j, S)) \in Nat
  BY <1>2, <1>3, FS_CardinalityType
<1> QED BY <1>1, <1>3, <1>4

\* What a page leaves out is older than the last message of the page.
LEMMA LeftOutIsOlder ==
  ASSUME NEW ids \in SUBSET Nat, IsFiniteSet(ids), NEW b, NEW size \in Nat,
         NEW last, IsLast(last, PageOf(ids, b, size)),
         NEW i \in BelowCursor(ids, b), i \notin PageOf(ids, b, size)
  PROVE  i < last
<1> DEFINE S == BelowCursor(ids, b)
<1>1. S \in SUBSET Nat /\ IsFiniteSet(S)
  BY FS_Subset DEF BelowCursor
<1>2. last \in S /\ Cardinality(Newer(last, S)) < size
  BY DEF IsLast, PageOf, Newer
<1>3. ~(Cardinality(Newer(i, S)) < size)
  BY DEF PageOf, Newer
<1>4. i # last
  BY <1>2, <1>3
<1>5. ~(last < i)
  <2> HIDE DEF S
  <2> SUFFICES ASSUME last < i PROVE FALSE
    OBVIOUS
  <2>1. i \in S BY DEF S
  <2>2. /\ Cardinality(Newer(last, S)) \in Nat /\ Cardinality(Newer(i, S)) \in Nat
        /\ Cardinality(Newer(i, S)) < Cardinality(Newer(last, S))
    BY <1>1, <1>2, <2>1, NewerCounts
  <2> QED BY <1>2, <1>3, <2>2
<1> QED BY <1>1, <1>2, <1>4, <1>5

\* A page that is not full has everything below the cursor.
LEMMA NotFullIsAll ==
  ASSUME NEW ids \in SUBSET Nat, IsFiniteSet(ids), NEW b, NEW size \in Nat \ {0},
         Cardinality(PageOf(ids, b, size)) # size
  PROVE  PageOf(ids, b, size) = BelowCursor(ids, b)
<1> DEFINE S == BelowCursor(ids, b)
           P == PageOf(ids, b, size)
           count(i) == Cardinality(Newer(i, S))
           Out == S \ P
           counts == {count(i) : i \in Out}
<1>1. S \in SUBSET Nat /\ IsFiniteSet(S) /\ P \in SUBSET S
  BY FS_Subset DEF BelowCursor, PageOf
<1>2. \A i \in S : i \in P <=> count(i) < size
  BY DEF PageOf, Newer
<1>3. \A i, j \in S : i < j => count(i) \in Nat /\ count(j) \in Nat /\ count(j) < count(i)
  <2> SUFFICES ASSUME NEW i \in S, NEW j \in S, i < j
               PROVE  count(i) \in Nat /\ count(j) \in Nat /\ count(j) < count(i)
    OBVIOUS
  <2> HIDE DEF S
  <2> QED BY <1>1, NewerCounts
<1>4. \A i \in S : count(i) \in Nat /\ IsFiniteSet(Newer(i, S))
  <2> SUFFICES ASSUME NEW i \in S PROVE count(i) \in Nat /\ IsFiniteSet(Newer(i, S))
    OBVIOUS
  <2> HIDE DEF S
  <2>1. Newer(i, S) \in SUBSET S BY DEF Newer
  <2> QED BY <1>1, <2>1, FS_Subset, FS_CardinalityType
<1> SUFFICES ASSUME Out # {} PROVE FALSE
  BY <1>1
\* The newest message that is left out: the page is what is newer.
<1>5. PICK i \in Out : \A k \in Out : count(i) <= count(k)
  <2>1. counts \in SUBSET Nat /\ counts # {}
    BY <1>4
  <2>2. PICK n \in counts : \A k \in counts : n <= k
    <3> HIDE DEF counts
    <3> QED BY <2>1, LeastNatural
  <2> QED BY <2>2
<1>6. P = Newer(i, S)
  <2>1. ASSUME NEW j \in S, j > i PROVE j \in P
    <3>1. count(j) < count(i) /\ count(j) \in Nat /\ count(i) \in Nat
      BY <1>1, <1>3, <1>5, <2>1
    <3>2. j \notin Out
      BY <1>5, <3>1
    <3> QED BY <2>1, <3>2
  <2>2. ASSUME NEW j \in P PROVE j > i
    <3>1. j # i /\ j \in Nat /\ i \in Nat
      BY <1>1, <1>5, <2>2
    <3>2. ~(j < i)
      <4> SUFFICES ASSUME j < i PROVE FALSE
        OBVIOUS
      <4>1. j \in S /\ i \in S /\ count(j) \in Nat /\ count(i) \in Nat /\ count(i) < count(j)
        BY <1>1, <1>3, <1>5, <2>2
      <4>2. count(j) < size /\ ~(count(i) < size)
        BY <1>2, <1>5, <2>2, <4>1
      <4> QED BY <4>1, <4>2
    <3> QED BY <3>1, <3>2
  <2> QED BY <1>1, <2>1, <2>2 DEF Newer
<1>7. Cardinality(P) >= size /\ Cardinality(P) \in Nat
  BY <1>2, <1>4, <1>5, <1>6
<1>8. P # {} /\ P \in SUBSET Nat /\ IsFiniteSet(P)
  <2>1. P = {} => Cardinality(P) = 0 BY FS_EmptySet
  <2> QED BY <1>1, <1>4, <1>5, <1>6, <1>7, <2>1
\* Its last message has all others of the page above it.
<1>9. PICK l \in P : \A k \in P : l <= k
  <2> HIDE DEF P
  <2> QED BY <1>8, LeastNatural
<1>10. Newer(l, S) = P \ {l}
  BY <1>1, <1>6, <1>9 DEF Newer
<1>11. Cardinality(P \ {l}) = Cardinality(P) - 1
  BY <1>8, <1>9, FS_RemoveElement
<1>12. count(l) < size
  BY <1>1, <1>2, <1>9
<1> QED BY <1>7, <1>10, <1>11, <1>12

-----------------------------------------------------------------------------

LEMMA KeepPositive ==
  ASSUME NEW d \in Devices
  PROVE  Keep(d) \in Nat /\ Keep(d) >= 1
BY KeepAssumption DEF Keep

\* More versions known, more versions ranked above m.
LEMMA BetterGrows ==
  ASSUME NEW S, NEW T, S \subseteq T, IsFiniteSet(T), NEW m
  PROVE  /\ IsFiniteSet(Better(m, T))
         /\ Cardinality(Better(m, S)) \in Nat
         /\ Cardinality(Better(m, T)) \in Nat
         /\ Cardinality(Better(m, S)) <= Cardinality(Better(m, T))
<1>1. Better(m, S) \subseteq Better(m, T)
  BY DEF Better
<1>2. Better(m, T) \subseteq T
  BY DEF Better
<1>3. IsFiniteSet(Better(m, T))
  BY <1>2, FS_Subset
<1>4. QED
  BY <1>1, <1>3, FS_Subset, FS_CardinalityType

-----------------------------------------------------------------------------
\* What Return leaves of a device's types, whatever the caller does besides.
LEMMA ReturnTypes ==
  ASSUME TypeOK, NEW d \in Devices, NEW how \in Replies, Return(d, how)
  PROVE  /\ pc' \in [Devices -> Phases]
         /\ arg' \in [Devices -> Contents \cup {NoContent}]
         /\ \A e \in Devices : pc'[e] \in {"pushScan", "check"} => arg'[e] \in Contents
         /\ want' \in [Devices -> Nat] /\ before' \in [Devices -> Nat]
         /\ found' \in [Devices -> SUBSET sent]
         /\ chunk' \in [Devices -> Nat]
         /\ reply' \in [Devices -> Replies]
         /\ since' \in [Devices -> Nat]
<1>1. "idle" \in Phases /\ "idle" \notin {"pushScan", "check"}
  BY DEF Phases
<1>2. QED
  BY <1>1 DEF TypeOK, Return

LEMMA StartScanTypes ==
  ASSUME TypeOK, NEW d \in Devices, NEW phase \in Scanning, StartScan(d, phase)
  PROVE  /\ pc' \in [Devices -> Phases]
         /\ before' \in [Devices -> Nat]
         /\ found' \in [Devices -> SUBSET sent]
         /\ since' \in [Devices -> Nat]
         /\ reply' \in [Devices -> Replies]
BY DEF TypeOK, StartScan, Phases, Replies

LEMMA TypeInit == Init => TypeOK
BY FS_EmptySet DEF Init, TypeOK, Phases, Replies, Versions

LEMMA TypeStep == TypeOK /\ [Next]_vars => TypeOK'
<1> SUFFICES ASSUME TypeOK, [Next]_vars PROVE TypeOK'
  OBVIOUS
<1> USE DEF TypeOK
<1>1. ASSUME NEW d \in Devices, NEW c \in Contents, Push(d, c) PROVE TypeOK'
  BY <1>1, StartScanTypes DEF Push, StartScan, Scanning
<1>2. ASSUME NEW d \in Devices, NEW n \in {m.number : m \in sent}, Download(d, n)
      PROVE TypeOK'
  <2>1. n \in Nat
    BY <1>2 DEF Versions
  <2>2. QED
    BY <1>2, <2>1, StartScanTypes DEF Download, StartScan, Scanning
<1>3. ASSUME NEW d \in Devices, Look(d) PROVE TypeOK'
  BY <1>3, StartScanTypes DEF Look, StartScan, Scanning
<1>4. ASSUME NEW d \in Devices, ListPage(d) PROVE TypeOK'
  <2>1. found' \in [Devices -> SUBSET sent]
    BY <1>4 DEF ListPage
  <2>2. before' \in [Devices -> Nat]
    <3>1. Page(before[d]) \subseteq Nat
      BY DEF Page, PageOf, BelowCursor, Live, Versions
    <3>2. QED
      BY <1>4, <3>1 DEF ListPage
  <2>3. /\ pc' \in [Devices -> Phases]
        /\ \A e \in Devices : pc'[e] \in {"pushScan", "check"} => arg[e] \in Contents
    <3>1. /\ AfterScan[pc[d]] \in Phases
          /\ AfterScan[pc[d]] = "check" => pc[d] = "pushScan"
          /\ AfterScan[pc[d]] # "pushScan"
      BY <1>4 DEF ListPage, AfterScan, Scanning, Scanned, Phases
    <3>2. QED
      BY <1>4, <3>1 DEF ListPage
  <2>4. QED
    BY <1>4, <2>1, <2>2, <2>3 DEF ListPage
<1>5. ASSUME NEW d \in Devices, Unchanged(d) PROVE TypeOK'
  BY <1>5, ReturnTypes DEF Unchanged, Replies
<1>6. ASSUME NEW d \in Devices, NEW answered \in BOOLEAN, Send(d, answered)
      PROVE TypeOK'
  <2>1. arg[d] \in Contents
    BY <1>6 DEF Send
  <2>2. PICK n \in {1} \cup {m.number + 1 : m \in found[d]} :
          LET m == [id |-> nextId, number |-> n, content |-> arg[d]]
          IN channel' = channel \cup {m} /\ sent' = sent \cup {m}
    BY <1>6 DEF Send
  <2>3. n \in Nat
    BY DEF Versions
  <2>4. [id |-> nextId, number |-> n, content |-> arg[d]] \in Versions
    BY <2>1, <2>3 DEF Versions
  <2>5. /\ channel' \subseteq sent' /\ sent' \subseteq Versions /\ IsFiniteSet(sent')
        /\ sent \subseteq sent'
    BY <2>2, <2>4, FS_AddElement
  <2>6. nextId' \in Nat \ {0} /\ noise' \subseteq Nat
    BY <1>6 DEF Send
  <2>7. CASE answered
    <3>1. /\ pc' = [pc EXCEPT ![d] = "pruneScan"]
          /\ found' = [found EXCEPT ![d] = {}]
          /\ arg' = [arg EXCEPT ![d] = NoContent]
          /\ before' = [before EXCEPT ![d] = 0]
          /\ since' = [since EXCEPT ![d] = nextId + 1]
          /\ UNCHANGED <<want, chunk, reply>>
      BY <1>6, <2>7 DEF Send
    <3>2. found' \in [Devices -> SUBSET sent']
      BY <3>1, <2>5
    <3>3. "pruneScan" \in Phases /\ "pruneScan" \notin {"pushScan", "check"}
      BY DEF Phases, Scanning
    <3>4. QED
      BY <3>1, <3>2, <3>3, <2>5, <2>6
  <2>8. CASE ~answered
    <3>1. Return(d, "transport") /\ "transport" \in Replies
      BY <1>6, <2>8 DEF Send, Replies
    <3>2. QED
      BY <3>1, ReturnTypes, <2>5, <2>6
  <2>9. QED
    BY <2>7, <2>8
<1>7. ASSUME NEW d \in Devices, NothingToPrune(d) PROVE TypeOK'
  BY <1>7, ReturnTypes DEF NothingToPrune, Replies
<1>8. ASSUME NEW d \in Devices, PlanPrune(d) PROVE TypeOK'
  <2>1. Doomed(d) \subseteq sent
    BY DEF Doomed
  <2>2. QED
    BY <1>8, <2>1 DEF PlanPrune, Phases
<1>9. ASSUME NEW d \in Devices, NEW answered \in BOOLEAN, Delete(d, answered)
      PROVE TypeOK'
  <2>1. PICK m \in found[d] :
          /\ channel' = channel \ {m}
          /\ \/ \E how \in Replies : Return(d, how)
             \/ /\ found' = [found EXCEPT ![d] = @ \ {m}]
                /\ UNCHANGED <<pc, arg, want, before, chunk, reply, since>>
    BY <1>9 DEF Delete, Replies
  <2>2. UNCHANGED <<noise, nextId, sent>>
    BY <1>9 DEF Delete
  <2>3. CASE \E how \in Replies : Return(d, how)
    BY <2>1, <2>2, <2>3, ReturnTypes
  <2>4. CASE /\ found' = [found EXCEPT ![d] = @ \ {m}]
             /\ UNCHANGED <<pc, arg, want, before, chunk, reply, since>>
    BY <2>1, <2>2, <2>4
  <2>5. QED
    BY <2>1, <2>3, <2>4
<1>10. ASSUME NEW d \in Devices, Find(d) PROVE TypeOK'
  <2>1. UNCHANGED <<channel, noise, nextId, sent>>
    BY <1>10 DEF Find
  <2>2. \/ Return(d, "notFound")
        \/ /\ \E m \in found[d] : found' = [found EXCEPT ![d] = {m}]
           /\ pc' = [pc EXCEPT ![d] = "fetch"]
           /\ UNCHANGED <<arg, want, before, chunk, reply, since>>
    BY <1>10 DEF Find
  <2>3. QED
    BY <2>1, <2>2, ReturnTypes DEF Replies, Phases
<1>11. ASSUME NEW d \in Devices, Fetch(d) PROVE TypeOK'
  <2>1. \/ Return(d, "notFound") \/ Return(d, "downloaded")
        \/ /\ chunk' = [chunk EXCEPT ![d] = @ + 1]
           /\ UNCHANGED <<pc, arg, want, before, found, reply, since>>
    BY <1>11 DEF Fetch
  <2>2. QED
    BY <1>11, <2>1, ReturnTypes DEF Fetch, Replies
<1>12. ASSUME NEW d \in Devices, Looked(d) PROVE TypeOK'
  BY <1>12, ReturnTypes DEF Looked, Replies
<1>13. ASSUME NEW d \in Devices, Fail(d) PROVE TypeOK'
  BY <1>13, ReturnTypes DEF Fail, Replies
<1>14. CASE Post
  BY <1>14 DEF Post
<1>15. ASSUME NEW i \in noise, Unpost(i) PROVE TypeOK'
  BY <1>15 DEF Unpost
<1>16. CASE UNCHANGED vars
  BY <1>16 DEF vars
<1>17. QED
  BY <1>1, <1>2, <1>3, <1>4, <1>5, <1>6, <1>7, <1>8, <1>9, <1>10, <1>11,
     <1>12, <1>13, <1>14, <1>15, <1>16
     DEF Next, Begin, Step, Trouble

\* The state of every reachable vault is well typed: in particular a pusher that
\* has not sent yet still holds the content it was called with.
THEOREM TypeCorrect == Spec => []TypeOK
BY TypeInit, TypeStep, PTL DEF Spec

-----------------------------------------------------------------------------
(***************************************************************************)
(* A prune acts on a list it made some time ago.  DoomedOutranked says     *)
(* that list stays safe: what a device is about to delete had Keep(d)      *)
(* better versions when the list was made, and versions ever stored only   *)
(* grow.  RecentKept is what it says of the step that deletes, and         *)
(* NeverLost follows from it.                                              *)
(***************************************************************************)
DoomedOutranked ==
  \A d \in Devices : pc[d] = "delete" =>
    \A m \in found[d] : Cardinality(Better(m, sent)) >= Keep(d)

\* Message ids grow with time, so a send never reuses one.
IdsBelowNext == \A m \in sent : m.id < nextId

Inv == TypeOK /\ IdsBelowNext /\ DoomedOutranked /\ NeverLost

LEMMA InvInit == Init => Inv
BY TypeInit DEF Init, Inv, IdsBelowNext, DoomedOutranked, NeverLost

\* What a step does to the stored versions: a send adds one with a fresh id, a
\* delete removes one it had doomed, anything else leaves them alone.
LEMMA StoreSteps ==
  ASSUME TypeOK, [Next]_vars
  PROVE  \/ UNCHANGED <<channel, sent>> /\ nextId' \in {nextId, nextId + 1}
         \/ \E m \in Versions :
              /\ m.id = nextId /\ nextId' = nextId + 1
              /\ channel' = channel \cup {m} /\ sent' = sent \cup {m}
         \/ \E d \in Devices : \E m \in found[d] :
              /\ pc[d] = "delete"
              /\ channel' = channel \ {m}
              /\ UNCHANGED <<sent, nextId>>
<1>1. ASSUME NEW d \in Devices, Begin(d) \/ (Step(d) /\ ~Send(d, TRUE) /\ ~Delete(d, TRUE)) \/ Fail(d)
      PROVE  UNCHANGED <<channel, sent, nextId>>
  BY <1>1 DEF Begin, Push, Download, Look, Step, ListPage, Unchanged, NothingToPrune,
     PlanPrune, Find, Fetch, Looked, Fail
<1>2. ASSUME NEW d \in Devices, NEW answered \in BOOLEAN, Send(d, answered)
      PROVE  \E m \in Versions :
               /\ m.id = nextId /\ nextId' = nextId + 1
               /\ channel' = channel \cup {m} /\ sent' = sent \cup {m}
  <2>1. PICK n \in {1} \cup {m.number + 1 : m \in found[d]} :
          LET m == [id |-> nextId, number |-> n, content |-> arg[d]]
          IN channel' = channel \cup {m} /\ sent' = sent \cup {m}
    BY <1>2 DEF Send
  <2>2. [id |-> nextId, number |-> n, content |-> arg[d]] \in Versions
    BY <1>2 DEF Send, TypeOK, Versions
  <2>3. nextId' = nextId + 1
    BY <1>2 DEF Send
  <2>4. QED
    BY <2>1, <2>2, <2>3
<1>3. ASSUME NEW d \in Devices, NEW answered \in BOOLEAN, Delete(d, answered)
      PROVE  \E m \in found[d] :
               /\ pc[d] = "delete"
               /\ channel' = channel \ {m}
               /\ UNCHANGED <<sent, nextId>>
  BY <1>3 DEF Delete
<1>4. ASSUME Post \/ \E i \in noise : Unpost(i)
      PROVE  UNCHANGED <<channel, sent>> /\ nextId' \in {nextId, nextId + 1}
  BY <1>4 DEF Post, Unpost
<1>5. QED
  BY <1>1, <1>2, <1>3, <1>4 DEF Next, Step, Trouble, vars

\* The list of a prune that is deleting was made from versions that are all
\* stored, or is what was left of it.
LEMMA DoomedStep ==
  ASSUME TypeOK, [Next]_vars, NEW d \in Devices, pc'[d] = "delete"
  PROVE  \/ pc[d] = "delete" /\ found'[d] \subseteq found[d]
         \/ /\ found'[d] = Doomed(d)
            /\ UNCHANGED <<channel, sent>>
<1> USE DEF TypeOK
<1>1. ASSUME NEW e \in Devices, NEW how, Return(e, how)
      PROVE  e # d /\ pc[d] = "delete" /\ found'[d] = found[d]
  BY <1>1 DEF Return
<1>2. ASSUME NEW e \in Devices, NEW phase \in Scanning, StartScan(e, phase)
      PROVE  e # d /\ pc[d] = "delete" /\ found'[d] = found[d]
  BY <1>2 DEF StartScan, Scanning
<1>3. ASSUME NEW e \in Devices, Begin(e)
      PROVE  pc[d] = "delete" /\ found'[d] = found[d]
  BY <1>3, <1>2 DEF Begin, Push, Download, Look, Scanning
<1>4. ASSUME NEW e \in Devices, ListPage(e)
      PROVE  pc[d] = "delete" /\ found'[d] = found[d]
  <2>1. AfterScan[pc[e]] # "delete" /\ pc[e] # "delete"
    BY <1>4 DEF ListPage, AfterScan, Scanning
  <2>2. QED
    BY <1>4, <2>1 DEF ListPage
<1>5. ASSUME NEW e \in Devices, Unchanged(e) \/ NothingToPrune(e) \/ Looked(e) \/ Fail(e)
      PROVE  pc[d] = "delete" /\ found'[d] = found[d]
  BY <1>5, <1>1 DEF Unchanged, NothingToPrune, Looked, Fail
<1>6. ASSUME NEW e \in Devices, NEW answered \in BOOLEAN, Send(e, answered)
      PROVE  pc[d] = "delete" /\ found'[d] = found[d]
  BY <1>6, <1>1 DEF Send
<1>7. ASSUME NEW e \in Devices, PlanPrune(e)
      PROVE  \/ pc[d] = "delete" /\ found'[d] = found[d]
             \/ found'[d] = Doomed(d) /\ UNCHANGED <<channel, sent>>
  BY <1>7 DEF PlanPrune
<1>8. ASSUME NEW e \in Devices, NEW answered \in BOOLEAN, Delete(e, answered)
      PROVE  pc[d] = "delete" /\ found'[d] \subseteq found[d]
  <2>1. PICK m \in found[e] :
          \/ \E how : Return(e, how)
          \/ /\ found' = [found EXCEPT ![e] = @ \ {m}]
             /\ UNCHANGED pc
    BY <1>8 DEF Delete
  <2>2. QED
    BY <2>1, <1>1
<1>9. ASSUME NEW e \in Devices, Find(e)
      PROVE  pc[d] = "delete" /\ found'[d] = found[d]
  <2>1. \/ Return(e, "notFound")
        \/ \E m \in found[e] : /\ found' = [found EXCEPT ![e] = {m}]
                               /\ pc' = [pc EXCEPT ![e] = "fetch"]
    BY <1>9 DEF Find
  <2>2. QED
    BY <2>1, <1>1
<1>10. ASSUME NEW e \in Devices, Fetch(e)
       PROVE  pc[d] = "delete" /\ found'[d] = found[d]
  BY <1>10, <1>1 DEF Fetch
<1>11. CASE Post \/ (\E i \in noise : Unpost(i)) \/ UNCHANGED vars
  BY <1>11 DEF Post, Unpost, vars
<1>12. QED
  BY <1>3, <1>4, <1>5, <1>6, <1>7, <1>8, <1>9, <1>10, <1>11
     DEF Next, Step, Trouble

\* A version leaves the channel by the hand of one device, from its own list.
LEMMA DeletedByOne ==
  ASSUME TypeOK, [Next]_vars, NEW m \in channel, m \notin channel'
  PROVE  \E d \in Devices : /\ pc[d] = "delete" /\ m \in found[d]
                            /\ \A e \in Devices : e # d => found'[e] = found[e]
<1>1. PICK d \in Devices, answered \in BOOLEAN : Delete(d, answered)
  <2>1. ASSUME NEW d \in Devices, Begin(d) \/ (Step(d) /\ ~Send(d, TRUE) /\ ~Delete(d, TRUE)) \/ Fail(d)
        PROVE  channel' = channel
    BY <2>1 DEF Begin, Push, Download, Look, Step, ListPage, Unchanged, NothingToPrune,
       PlanPrune, Find, Fetch, Looked, Fail
  <2>2. ASSUME NEW d \in Devices, NEW answered \in BOOLEAN, Send(d, answered) PROVE channel \subseteq channel'
    BY <2>2 DEF Send
  <2>3. CASE Post \/ (\E i \in noise : Unpost(i)) \/ UNCHANGED vars
    BY <2>3 DEF Post, Unpost, vars
  <2> QED BY <2>1, <2>2, <2>3 DEF Next, Step, Trouble
<1>2. PICK o \in found[d] : channel' = channel \ {o} /\ (\/ \E how : Return(d, how)
                                                       \/ found' = [found EXCEPT ![d] = @ \ {o}])
  BY <1>1 DEF Delete
<1>3. pc[d] = "delete" /\ o = m
  BY <1>1, <1>2 DEF Delete
<1>4. \A e \in Devices : e # d => found'[e] = found[e]
  BY <1>2 DEF Return, TypeOK
<1> QED BY <1>3, <1>4

LEMMA InvStep == Inv /\ [Next]_vars => Inv'
<1> SUFFICES ASSUME Inv, [Next]_vars PROVE Inv'
  OBVIOUS
<1>1. TypeOK /\ TypeOK'
  BY TypeStep DEF Inv
<1>2. sent \subseteq sent' /\ IsFiniteSet(sent')
  BY <1>1, StoreSteps DEF TypeOK
<1>3. \A m : /\ Cardinality(Better(m, sent)) \in Nat
             /\ Cardinality(Better(m, sent')) \in Nat
             /\ Cardinality(Better(m, sent)) <= Cardinality(Better(m, sent'))
  BY <1>2, BetterGrows
<1>4. \A d \in Devices : Keep(d) \in Nat /\ Keep(d) >= 1
  BY KeepPositive
<1>5. IdsBelowNext'
  BY <1>1, StoreSteps DEF Inv, IdsBelowNext, TypeOK, Versions
<1>6. DoomedOutranked'
  <2> SUFFICES ASSUME NEW d \in Devices, pc'[d] = "delete", NEW m \in found'[d]
               PROVE  Cardinality(Better(m, sent')) >= Keep(d)
    BY DEF DoomedOutranked
  <2>1. CASE pc[d] = "delete" /\ m \in found[d]
    <3>1. Cardinality(Better(m, sent)) >= Keep(d)
      BY <2>1 DEF Inv, DoomedOutranked
    <3>2. QED
      BY <3>1, <1>3, <1>4
  <2>2. CASE m \in Doomed(d)
    <3>1. Cardinality(Better(m, found[d])) >= Keep(d)
      BY <2>2 DEF Doomed
    <3>2. found[d] \subseteq sent'
      BY <1>1, <1>2 DEF TypeOK
    <3>3. /\ Cardinality(Better(m, found[d])) \in Nat
          /\ Cardinality(Better(m, found[d])) <= Cardinality(Better(m, sent'))
      BY <3>2, <1>2, BetterGrows
    <3>4. QED
      BY <3>1, <3>3, <1>3, <1>4
  <2>3. QED
    BY <1>1, <2>1, <2>2, DoomedStep
<1>8. NeverLost'
  <2> SUFFICES ASSUME sent' # {}
               PROVE  \E b \in channel' : IsLatest(b, sent')
    BY DEF NeverLost
  <2>1. CASE UNCHANGED <<channel, sent>>
    BY <2>1 DEF Inv, NeverLost
  <2>2. ASSUME NEW m \in Versions, m.id = nextId,
               channel' = channel \cup {m}, sent' = sent \cup {m}
        PROVE  \E b \in channel' : IsLatest(b, sent')
    <3>1. CASE sent = {}
      BY <2>2, <3>1 DEF IsLatest
    <3>2. CASE sent # {}
      <4>1. PICK b \in channel : IsLatest(b, sent)
        BY <3>2 DEF Inv, NeverLost
      <4>2. /\ b \in sent /\ b.number \in Nat /\ b.id \in Nat /\ b.id < nextId
            /\ m.number \in Nat
            /\ \A o \in sent : o.number \in Nat /\ o.id \in Nat
        BY <1>1, <4>1 DEF Inv, IdsBelowNext, IsLatest, TypeOK, Versions
      <4>3. CASE m.number > b.number
        <5>1. \A o \in sent : m.number > o.number
          BY <4>1, <4>2, <4>3 DEF IsLatest, Above
        <5>2. IsLatest(m, sent')
          BY <2>2, <5>1 DEF IsLatest, Above
        <5>3. QED
          BY <2>2, <5>2
      <4>4. CASE ~ m.number > b.number
        <5>1. Above(b, m)
          BY <2>2, <4>2, <4>4 DEF Above
        <5>2. IsLatest(b, sent')
          BY <2>2, <4>1, <5>1 DEF IsLatest
        <5>3. QED
          BY <2>2, <4>1, <5>2
      <4>5. QED
        BY <4>3, <4>4
    <3>3. QED
      BY <3>1, <3>2
  <2>3. ASSUME NEW d \in Devices, NEW m \in found[d], pc[d] = "delete",
               channel' = channel \ {m}, sent' = sent
        PROVE  \E b \in channel' : IsLatest(b, sent')
    <3>1. PICK b \in channel : IsLatest(b, sent)
      BY <2>3 DEF Inv, NeverLost
    <3>2. Cardinality(Better(m, sent)) >= 1
      BY <2>3, <1>3, <1>4 DEF Inv, DoomedOutranked
    <3>3. Better(m, sent) # {}
      BY <3>2, FS_EmptySet
    <3>4. b # m
      <4>1. PICK o \in sent : Above(o, m)
        BY <3>3 DEF Better
      <4>2. o # m /\ ~ Above(m, o)
        BY <1>1, <4>1, <2>3 DEF Above, TypeOK, Versions
      <4>3. QED
        BY <3>1, <4>1, <4>2 DEF IsLatest
    <3>5. QED
      BY <2>3, <3>1, <3>4
  <2>4. QED
    BY <1>1, <2>1, <2>2, <2>3, StoreSteps
<1>9. QED
  BY <1>1, <1>5, <1>6, <1>8 DEF Inv

LEMMA InvAlways == Spec => []Inv
BY InvInit, InvStep, PTL DEF Spec

\* prune's limit holds under every race: a device deletes a version only when as
\* many better ones were stored as its own max_versions.
THEOREM PruneKeepsRecent == Spec => RecentKept
<1> DEFINE Outranked == \A d \in Devices : \A m \in channel \ channel' :
                          found'[d] # found[d] => Cardinality(Better(m, sent)) >= Keep(d)
<1>1. Inv /\ [Next]_vars => [Outranked]_vars
  <2> SUFFICES ASSUME Inv, [Next]_vars, NEW d \in Devices, NEW m \in channel \ channel',
                      found'[d] # found[d]
               PROVE  Cardinality(Better(m, sent)) >= Keep(d)
    OBVIOUS
  <2>1. \E e \in Devices : pc[e] = "delete" /\ m \in found[e]
                           /\ \A o \in Devices : o # e => found'[o] = found[o]
    BY DeletedByOne DEF Inv
  <2> QED BY <2>1 DEF Inv, DoomedOutranked
<1> QED BY <1>1, InvAlways, PTL DEF Spec, RecentKept

\* A game that was ever saved always has its best save in the channel.
THEOREM SaveNeverLost == Spec => []NeverLost
BY InvAlways, PTL DEF Inv

\* Every step of the vault stores one version, forgets an outranked one, or leaves the
\* history alone.
LEMMA StepsOfHistory == Inv /\ [Next]_vars => [History!Change]_<<channel, sent>>
<1> SUFFICES ASSUME Inv, [Next]_vars
             PROVE  [History!Change]_<<channel, sent>>
  OBVIOUS
<1>1. TypeOK
  BY DEF Inv
<1>2. ASSUME NEW m \in Versions, m.id = nextId,
             channel' = channel \cup {m}, sent' = sent \cup {m}
      PROVE  History!Change
  <2>1. History!Store(m)
    BY <1>2 DEF Inv, IdsBelowNext, History!Store
  <2>2. m \in sent' \ sent
    BY <1>1, <1>2 DEF Inv, IdsBelowNext, TypeOK
  <2>3. QED
    BY <2>1, <2>2 DEF History!Change
<1>3. ASSUME NEW d \in Devices, NEW m \in found[d], pc[d] = "delete",
             channel' = channel \ {m}, sent' = sent
      PROVE  [History!Change]_<<channel, sent>>
  <2>1. CASE m \notin channel
    BY <1>3, <2>1
  <2>2. CASE m \in channel
    <3>1. Cardinality(Better(m, sent)) >= Keep(d)
      BY <1>3 DEF Inv, DoomedOutranked
    <3>2. {o \in sent : History!Ranks(o, m)} = Better(m, sent)
      BY DEF Better, Above, History!Ranks
    <3>3. History!Forget({m})
      <4>1. History!Cardinality(Better(m, sent)) = Cardinality(Better(m, sent))
        BY DEF History!Cardinality, Cardinality
      <4>2. QED
        BY <1>3, <3>1, <3>2, <4>1 DEF History!Forget
    <3>4. channel \ channel' = {m}
      BY <1>3, <2>2
    <3>5. QED
      BY <3>3, <3>4 DEF History!Change
  <2>3. QED
    BY <2>1, <2>2
<1>4. QED
  BY <1>1, <1>2, <1>3, StoreSteps

\* What happens in the channel is what SaveHistory allows: sends store, deletes
\* forget only outranked versions, everything else stutters.
THEOREM VaultKeepsHistory == Spec => ImplementsHistory
<1>1. Init => History!Init
  BY DEF Init, History!Init
<1>2. QED
  BY <1>1, StepsOfHistory, InvAlways, PTL DEF Spec, ImplementsHistory

\* And so the vault implements SaveHistory, whose versions are records of an id, a number
\* and a content.
THEOREM VaultImplementsHistory == Spec => History!Spec
<1>1. Init => History!Init
  BY DEF Init, History!Init
<1>2. TypeOK /\ TypeOK' /\ [History!Change]_<<channel, sent>>
        => [History!Next]_<<channel, sent>>
  <2> SUFFICES ASSUME TypeOK, TypeOK', History!Change
               PROVE  History!Next
    OBVIOUS
  <2>1. ASSUME NEW m \in sent' \ sent, History!Store(m) PROVE History!Next
    <3>1. m = [id |-> m.id, number |-> m.number, content |-> m.content]
          /\ m.id \in Nat /\ m.number \in Nat /\ m.content \in Contents
      BY DEF TypeOK, Versions
    <3>2. \E i, n \in Nat, c \in Contents :
            History!Store([id |-> i, number |-> n, content |-> c])
      BY <2>1, <3>1
    <3>3. QED
      BY <3>2 DEF History!Next
  <2>0. channel \ channel' \in SUBSET channel
    OBVIOUS
  <2>2. QED
    BY <2>1, <2>0 DEF History!Change, History!Next
<1>3. Inv => TypeOK
  BY DEF Inv
<1>4. QED
  BY <1>1, <1>2, <1>3, StepsOfHistory, InvAlways, PTL DEF Spec, History!Spec

-----------------------------------------------------------------------------
(***************************************************************************)
(* A scan.  What it has not found lies below its cursor, and what a prune  *)
(* lets go of is what ranks too low in what its scan found.                *)
(***************************************************************************)
\* The versions in the channel that were stored before the scan began.
Earlier(d) == {m \in channel : m.id < since[d]}

ScanOf(d) ==
  /\ since[d] <= nextId
  /\ pc[d] \in Scanning =>
       \A m \in Earlier(d) : m \in found[d] \/ before[d] = 0 \/ m.id < before[d]
  /\ pc[d] \in Scanned => Earlier(d) \subseteq found[d]
  /\ pc[d] = "delete" => Cardinality(Earlier(d) \ found[d]) <= Keep(d)

\* Ids tell messages apart.
IdsApart ==
  /\ \A i \in noise : i < nextId
  /\ \A m, o \in sent : m.id = o.id => m = o

ScanInv == IdsApart /\ \A d \in Devices : ScanOf(d)

\* Every version but those ranked too low: no more than the limit.
LEMMA FewAreKept ==
  ASSUME NEW S \in SUBSET Versions, IsFiniteSet(S), \A m, o \in S : m.id = o.id => m = o,
         NEW K \in Nat, K >= 1, \A m \in S : Cardinality(Better(m, S)) < K
  PROVE  Cardinality(S) <= K
<1>1. CASE S = {}
  BY <1>1, FS_EmptySet
<1>2. CASE S # {}
  <2> DEFINE worse(m) == Cardinality(S) - Cardinality(Better(m, S))
             W == {worse(m) : m \in S}
  <2>1. \A m \in S : /\ IsFiniteSet(Better(m, S)) /\ Better(m, S) \in SUBSET (S \ {m})
                     /\ Cardinality(Better(m, S)) \in Nat /\ Cardinality(S) \in Nat
                     /\ Cardinality(Better(m, S)) <= Cardinality(S)
    <3> TAKE m \in S
    <3>1. Better(m, S) \in SUBSET (S \ {m})
      BY DEF Better, Above, Versions
    <3>2. Better(m, S) \in SUBSET S
      BY DEF Better
    <3>3. IsFiniteSet(Better(m, S)) /\ Cardinality(Better(m, S)) <= Cardinality(S)
      BY <3>2, FS_Subset
    <3>4. Cardinality(Better(m, S)) \in Nat /\ Cardinality(S) \in Nat
      BY <3>3, FS_CardinalityType
    <3> QED BY <3>1, <3>3, <3>4
  <2>2. \A m \in S : worse(m) \in Nat
    BY <2>1
  <2>3. W \in SUBSET Nat /\ W # {}
    BY <1>2, <2>2
  <2>4. PICK least \in W : \A k \in W : least <= k
    BY <2>3, LeastNatural
  <2>5. PICK m \in S : \A o \in S : worse(m) <= worse(o)
    BY <2>4
  <2>6. Better(m, S) = S \ {m}
    <3> SUFFICES ASSUME NEW o \in S, o # m, ~Above(o, m) PROVE FALSE
      BY <2>1 DEF Better
    <3>1. m.id # o.id /\ m.id \in Nat /\ o.id \in Nat /\ m.number \in Nat /\ o.number \in Nat
      BY DEF Versions
    <3>2. Above(m, o)
      BY <3>1 DEF Above
    <3>3. \A k \in S : Above(k, m) => Above(k, o)
      BY <3>1, <3>2 DEF Above, Versions
    <3>4. Better(m, S) \in SUBSET Better(o, S) /\ m \in Better(o, S) /\ m \notin Better(m, S)
      BY <2>1, <3>2, <3>3 DEF Better
    <3>5. /\ Cardinality(Better(m, S)) <= Cardinality(Better(o, S))
          /\ (Cardinality(Better(m, S)) = Cardinality(Better(o, S)) => Better(m, S) = Better(o, S))
      BY <2>1, <3>4, FS_Subset
    <3>6. Cardinality(Better(m, S)) < Cardinality(Better(o, S))
      BY <2>1, <3>4, <3>5
    <3>7. worse(o) < worse(m)
      BY <2>1, <3>6
    <3> QED BY <2>2, <2>5, <3>7
  <2>7. Cardinality(S \ {m}) = Cardinality(S) - 1
    BY FS_RemoveElement
  <2>8. Cardinality(S) - 1 < K
    BY <2>6, <2>7
  <2> QED BY <2>1, <2>8
<1> QED BY <1>1, <1>2

\* What a prune does not delete of what it found, and all it finds when it deletes nothing.
LEMMA PruneKeepsFew ==
  ASSUME TypeOK, IdsApart, NEW d \in Devices
  PROVE  Cardinality(found[d] \ Doomed(d)) <= Keep(d) /\ IsFiniteSet(found[d])
<1> DEFINE S == found[d] \ Doomed(d)
<1>1. found[d] \in SUBSET sent /\ sent \in SUBSET Versions /\ IsFiniteSet(sent)
  BY DEF TypeOK
<1>2. IsFiniteSet(found[d]) /\ IsFiniteSet(S)
  <2>1. IsFiniteSet(found[d])
    BY <1>1, FS_Subset
  <2> QED BY <2>1, FS_Subset
<1>3. Keep(d) \in Nat /\ Keep(d) >= 1
  BY KeepPositive
<1>4. ASSUME NEW m \in S PROVE Cardinality(Better(m, S)) < Keep(d)
  <2>1. ~(Cardinality(Better(m, found[d])) >= Keep(d))
    BY DEF Doomed
  <2>2. /\ Cardinality(Better(m, S)) \in Nat /\ Cardinality(Better(m, found[d])) \in Nat
        /\ Cardinality(Better(m, S)) <= Cardinality(Better(m, found[d]))
    BY <1>2, BetterGrows
  <2> QED BY <1>3, <2>1, <2>2
<1>5. S \in SUBSET Versions /\ \A m, o \in S : m.id = o.id => m = o
  BY <1>1 DEF IdsApart
<1> HIDE DEF S
<1>6. Cardinality(S) <= Keep(d)
  BY <1>2, <1>3, <1>4, <1>5, FewAreKept
<1> QED BY <1>2, <1>6 DEF S

\* The state a device's scan works on.
Local(d) == <<pc[d], before[d], found[d], since[d]>>

\* What the steps of others leave alone.
LEMMA OthersLeave ==
  ASSUME TypeOK, [Next]_vars, NEW d \in Devices, ~Begin(d), ~Step(d), ~Trouble(d)
  PROVE  Local(d)' = Local(d)
<1> USE DEF TypeOK
<1>1. CASE Post \/ (\E i \in noise : Unpost(i)) \/ UNCHANGED vars
  BY <1>1 DEF Post, Unpost, vars, Local
<1>2. ASSUME NEW e \in Devices, e # d, Begin(e) PROVE Local(d)' = Local(d)
  BY <1>2 DEF Begin, Push, Download, Look, StartScan, Local
<1>3. ASSUME NEW e \in Devices, e # d, ListPage(e) \/ PlanPrune(e) PROVE Local(d)' = Local(d)
  BY <1>3 DEF ListPage, PlanPrune, Local
<1>4. ASSUME NEW e \in Devices, e # d,
             Unchanged(e) \/ NothingToPrune(e) \/ Looked(e) \/ Fail(e) \/ Fetch(e) \/ Find(e)
      PROVE  Local(d)' = Local(d)
  BY <1>4 DEF Unchanged, NothingToPrune, Looked, Fail, Fetch, Find, Return, Local
<1>5. ASSUME NEW e \in Devices, e # d, NEW answered \in BOOLEAN, Send(e, answered) \/ Delete(e, answered)
      PROVE  Local(d)' = Local(d)
  BY <1>5 DEF Send, Delete, Return, Local
<1> QED BY <1>1, <1>2, <1>3, <1>4, <1>5 DEF Next, Step, Trouble

\* No step adds an earlier version to the channel.
LEMMA EarlierShrinks ==
  ASSUME Inv, ScanInv, [Next]_vars, NEW d \in Devices, since'[d] = since[d]
  PROVE  Earlier(d)' \subseteq Earlier(d) /\ nextId' >= nextId /\ nextId' \in Nat
<1>1. TypeOK /\ since[d] <= nextId /\ since[d] \in Nat /\ nextId \in Nat
  BY DEF Inv, ScanInv, ScanOf, TypeOK
<1>2. nextId' >= nextId /\ nextId' \in Nat /\ \A m \in channel' : m \in channel \/ m.id = nextId
  BY <1>1, StoreSteps
<1> QED BY <1>1, <1>2 DEF Earlier

\* A page: what it does not show lies below its last message, if it is full.
LEMMA ListKeepsScan ==
  ASSUME Inv, ScanInv, NEW d \in Devices, ListPage(d) PROVE ScanOf(d)'
<1> USE DEF TypeOK
<1>0. TypeOK /\ IdsBelowNext /\ ScanOf(d) /\ IdsApart
  BY DEF Inv, ScanInv
<1>1. /\ pc[d] \in Scanning /\ UNCHANGED <<channel, since, nextId>>
      /\ found'[d] = found[d] \cup {m \in channel : m.id \in Page(before[d])}
  BY <1>0 DEF ListPage
<1>2. IsFiniteSet(Live) /\ Live \in SUBSET Nat
  <2>1. /\ sent \subseteq Versions /\ channel \subseteq sent /\ noise \subseteq Nat /\ nextId \in Nat
    BY <1>0
  <2>2. Live \in SUBSET Nat /\ \A i \in Live : i < nextId
    <3>1. \A m \in channel : m.id \in Nat /\ m.id < nextId
      BY <1>0, <2>1 DEF Versions, IdsBelowNext
    <3>2. \A i \in noise : i \in Nat /\ i < nextId
      BY <1>0, <2>1 DEF IdsApart
    <3> QED BY <3>1, <3>2 DEF Live
  <2>3. \A i \in Live : i \in 0..nextId
    BY <2>1, <2>2
  <2>4. IsFiniteSet(0..nextId)
    BY <2>1, FS_Interval
  <2> QED BY <2>2, <2>3, <2>4, FS_Subset
<1>3. ScanPage \in Nat /\ ScanPage # 0
  BY PageAssumption
<1>4. ASSUME NEW m \in Earlier(d), m \notin found'[d]
      PROVE  /\ Cardinality(Page(before[d])) = ScanPage
             /\ \A last : IsLast(last, Page(before[d])) => m.id < last
  <2>1. m \in channel /\ m.id \in Live /\ m.id \notin Page(before[d])
    BY <1>1, <1>4 DEF Earlier, Live
  <2>2. before[d] = 0 \/ m.id < before[d]
    BY <1>0, <1>1, <1>4 DEF ScanOf
  <2>3. m.id \in BelowCursor(Live, before[d])
    BY <2>1, <2>2 DEF BelowCursor
  <2>4. Cardinality(Page(before[d])) = ScanPage
    BY <1>2, <1>3, <2>1, <2>3, NotFullIsAll DEF Page
  <2> QED BY <1>2, <1>3, <2>1, <2>3, <2>4, LeftOutIsOlder DEF Page
<1>5. CASE Cardinality(Page(before[d])) = ScanPage
  <2>1. pc' = pc /\ \E last \in Page(before[d]) :
           IsLast(last, Page(before[d])) /\ before' = [before EXCEPT ![d] = last]
    BY <1>0, <1>5 DEF ListPage
  <2>2. \A m \in Earlier(d) : m \in found'[d] \/ m.id < before'[d]
    BY <1>0, <1>4, <2>1
  <2> QED BY <1>0, <1>1, <2>1, <2>2 DEF ScanOf, Earlier, Scanning, Scanned
<1>6. CASE Cardinality(Page(before[d])) # ScanPage
  <2>1. pc'[d] \in Scanned /\ pc'[d] \notin Scanning /\ pc'[d] # "delete"
    BY <1>0, <1>1, <1>6 DEF ListPage, AfterScan, Scanning, Scanned
  <2>2. Earlier(d) \subseteq found'[d]
    BY <1>4, <1>6
  <2> QED BY <1>0, <1>1, <2>1, <2>2 DEF ScanOf, Earlier
<1> QED BY <1>5, <1>6

\* A device's own steps keep it.
LEMMA OwnKeepsScan ==
  ASSUME Inv, ScanInv, [Next]_vars, NEW d \in Devices, Begin(d) \/ Step(d) \/ Trouble(d)
  PROVE  ScanOf(d)'
<1> USE DEF TypeOK
<1>0. TypeOK /\ IdsBelowNext /\ ScanOf(d) /\ IdsApart /\ channel \subseteq sent
      /\ nextId \in Nat \ {0} /\ Scanning \cap Scanned = {} /\ "delete" \notin Scanning \cup Scanned
      /\ "idle" \notin Scanning \cup Scanned /\ "fetch" \notin Scanning \cup Scanned
  BY DEF Inv, ScanInv, Scanning, Scanned
<1>1. ASSUME NEW how, Return(d, how), nextId' \in Nat PROVE ScanOf(d)'
  BY <1>0, <1>1 DEF Return, ScanOf
<1>2. ASSUME NEW phase \in Scanning, StartScan(d, phase), UNCHANGED <<channel, nextId>> PROVE ScanOf(d)'
  <2>1. /\ pc'[d] = phase /\ before'[d] = 0 /\ since'[d] = nextId /\ nextId' = nextId
    BY <1>0, <1>2 DEF StartScan
  <2> QED BY <1>0, <2>1 DEF ScanOf
<1>3. CASE Begin(d)
  BY <1>2, <1>3 DEF Begin, Push, Download, Look, Scanning
<1>4. CASE Unchanged(d) \/ NothingToPrune(d) \/ Looked(d) \/ Fail(d)
  BY <1>0, <1>1, <1>4 DEF Unchanged, NothingToPrune, Looked, Fail
<1>5. ASSUME NEW answered \in BOOLEAN, Send(d, answered) PROVE ScanOf(d)'
  <2>1. nextId' = nextId + 1 /\ nextId' \in Nat
    BY <1>0, <1>5 DEF Send
  <2>2. CASE /\ pc' = [pc EXCEPT ![d] = "pruneScan"] /\ before' = [before EXCEPT ![d] = 0]
             /\ since' = [since EXCEPT ![d] = nextId + 1]
    <3>1. pc'[d] = "pruneScan" /\ before'[d] = 0 /\ since'[d] = nextId'
      BY <1>0, <2>1, <2>2
    <3> QED BY <2>1, <3>1 DEF ScanOf, Scanned
  <2> QED BY <1>1, <1>5, <2>1, <2>2 DEF Send
<1>6. CASE PlanPrune(d)
  <2>1. /\ pc[d] = "prune" /\ pc'[d] = "delete" /\ found'[d] = Doomed(d)
        /\ UNCHANGED <<channel, nextId, since>>
    BY <1>0, <1>6 DEF PlanPrune
  <2>2. Earlier(d) \ Doomed(d) \in SUBSET (found[d] \ Doomed(d))
    BY <1>0, <2>1 DEF ScanOf, Scanned
  <2>3. IsFiniteSet(found[d] \ Doomed(d)) /\ Cardinality(found[d] \ Doomed(d)) <= Keep(d)
    <3>1. IsFiniteSet(found[d]) /\ Cardinality(found[d] \ Doomed(d)) <= Keep(d)
      BY <1>0, PruneKeepsFew
    <3> QED BY <3>1, FS_Subset
  <2>4. /\ IsFiniteSet(Earlier(d) \ Doomed(d))
        /\ Cardinality(Earlier(d) \ Doomed(d)) <= Cardinality(found[d] \ Doomed(d))
    BY <2>2, <2>3, FS_Subset
  <2>5. /\ Cardinality(Earlier(d) \ Doomed(d)) \in Nat /\ Cardinality(found[d] \ Doomed(d)) \in Nat
        /\ Keep(d) \in Nat
    BY <2>3, <2>4, FS_CardinalityType, KeepPositive
  <2>6. Cardinality(Earlier(d) \ Doomed(d)) <= Keep(d)
    BY <2>3, <2>4, <2>5
  <2>7. Earlier(d)' = Earlier(d) /\ Keep(d)' = Keep(d)
    BY <2>1 DEF Earlier, Keep
  <2> QED BY <1>0, <2>1, <2>6, <2>7 DEF ScanOf
<1>7. ASSUME NEW answered \in BOOLEAN, Delete(d, answered) PROVE ScanOf(d)'
  <2>1. PICK m \in found[d] :
          /\ channel' = channel \ {m}
          /\ \/ \E how : Return(d, how)
             \/ found' = [found EXCEPT ![d] = @ \ {m}] /\ UNCHANGED <<pc, since>>
    BY <1>7 DEF Delete
  <2>2. nextId' = nextId /\ pc[d] = "delete"
    BY <1>7 DEF Delete
  <2>3. CASE \E how : Return(d, how)
    BY <1>0, <1>1, <2>2, <2>3
  <2>4. CASE found' = [found EXCEPT ![d] = @ \ {m}] /\ UNCHANGED <<pc, since>>
    <3>1. found'[d] = found[d] \ {m} /\ pc'[d] = "delete" /\ since'[d] = since[d]
      BY <1>0, <2>2, <2>4
    <3>2. Earlier(d)' \ found'[d] = Earlier(d) \ found[d]
      BY <2>1, <3>1 DEF Earlier
    <3> QED BY <1>0, <2>2, <3>1, <3>2 DEF ScanOf, Keep
  <2> QED BY <2>1, <2>3, <2>4
<1>8. CASE Find(d) \/ Fetch(d)
  <2>1. \/ \E how : Return(d, how)
        \/ pc'[d] = "fetch" /\ since'[d] = since[d]
    BY <1>0, <1>8 DEF Find, Fetch
  <2>2. nextId' = nextId
    BY <1>8 DEF Find, Fetch
  <2> QED BY <1>0, <1>1, <2>1, <2>2 DEF ScanOf
<1> QED BY <1>3, <1>4, <1>5, <1>6, <1>7, <1>8, ListKeepsScan DEF Step, Trouble

\* Every step keeps it.
LEMMA ScanStep == Inv /\ ScanInv /\ [Next]_vars => ScanInv'
<1> SUFFICES ASSUME Inv, ScanInv, [Next]_vars PROVE ScanInv'
  OBVIOUS
<1>0. TypeOK /\ IdsBelowNext /\ IdsApart /\ nextId \in Nat
  BY DEF Inv, ScanInv, TypeOK
<1>1. IdsApart'
  <2>1. ASSUME NEW m \in sent', NEW o \in sent', m.id = o.id PROVE m = o
    <3>1. \A k \in sent : k.id # nextId
      BY <1>0 DEF IdsBelowNext, TypeOK, Versions
    <3>2. sent' = sent \/ \E k \in Versions : k.id = nextId /\ sent' = sent \cup {k}
      BY <1>0, StoreSteps
    <3> QED BY <1>0, <2>1, <3>1, <3>2 DEF IdsApart
  <2>2. noise' \subseteq noise \/ (noise' = noise \cup {nextId} /\ nextId' = nextId + 1)
    BY DEF Next, Begin, Push, Download, Look, Step, Trouble, ListPage, Unchanged, Send, NothingToPrune,
       PlanPrune, Delete, Find, Fetch, Looked, Fail, Post, Unpost, vars
  <2>3. \A i \in noise : i \in Nat /\ i < nextId
    BY <1>0 DEF IdsApart, TypeOK
  <2>4. nextId' = nextId \/ nextId' = nextId + 1
    BY <1>0, StoreSteps
  <2>5. ASSUME NEW i \in noise' PROVE i < nextId'
    <3>1. CASE i \in noise
      <4>1. i \in Nat /\ i < nextId
        BY <2>3, <3>1
      <4> QED BY <1>0, <2>4, <4>1
    <3>2. CASE i = nextId /\ nextId' = nextId + 1
      BY <1>0, <3>2
    <3> QED BY <2>2, <2>5, <3>1, <3>2
  <2> QED BY <2>1, <2>5 DEF IdsApart
<1>2. ASSUME NEW d \in Devices PROVE ScanOf(d)'
  <2>1. CASE Local(d)' = Local(d)
    <3>1. pc'[d] = pc[d] /\ before'[d] = before[d] /\ found'[d] = found[d] /\ since'[d] = since[d]
      BY <2>1 DEF Local
    <3>2. Earlier(d)' \subseteq Earlier(d) /\ nextId' >= nextId /\ nextId' \in Nat
      BY <3>1, EarlierShrinks
    <3>3. ScanOf(d) /\ since[d] \in Nat /\ Keep(d)' = Keep(d) /\ Keep(d) \in Nat
      BY <1>0, KeepPositive DEF ScanInv, TypeOK, Keep
    <3>4. pc[d] = "delete" => Cardinality(Earlier(d)' \ found[d]) <= Keep(d)
      <4>1. Earlier(d) \in SUBSET sent /\ IsFiniteSet(sent)
        BY <1>0 DEF Earlier, TypeOK
      <4>2. IsFiniteSet(Earlier(d) \ found[d]) /\ (Earlier(d)' \ found[d]) \in SUBSET (Earlier(d) \ found[d])
        BY <3>2, <4>1, FS_Subset
      <4>3. /\ IsFiniteSet(Earlier(d)' \ found[d])
            /\ Cardinality(Earlier(d)' \ found[d]) <= Cardinality(Earlier(d) \ found[d])
        BY <4>2, FS_Subset
      <4>4. /\ Cardinality(Earlier(d) \ found[d]) \in Nat
            /\ Cardinality(Earlier(d)' \ found[d]) \in Nat
        BY <4>2, <4>3, FS_CardinalityType
      <4> QED BY <3>3, <4>3, <4>4 DEF ScanOf
    <3> QED BY <1>0, <3>1, <3>2, <3>3, <3>4 DEF ScanOf
  <2> QED BY <1>0, <2>1, OwnKeepsScan, OthersLeave
<1> QED BY <1>1, <1>2 DEF ScanInv

LEMMA ScanAlways == Spec => []ScanInv
<1>1. Init => ScanInv
  BY DEF Init, ScanInv, IdsApart, ScanOf, Scanning, Scanned
<1> QED BY <1>1, ScanStep, InvAlways, PTL DEF Spec

\* ScanComplete: a scan has every version that was there all the time.
THEOREM ScansComplete == Spec => []ScanComplete
<1>1. ScanInv => ScanComplete
  BY DEF ScanInv, ScanOf, Earlier, ScanComplete
<1> QED BY <1>1, ScanAlways, PTL

\* A prune that succeeds leaves at most the limit of what was stored before it.
LEMMA PrunedStep ==
  ASSUME Inv, ScanInv, [Next]_vars, NEW d \in Devices, pc[d] \in {"prune", "delete"}, pc'[d] = "idle",
         reply'[d] = "pushed"
  PROVE  Cardinality({m \in channel' : m.id < since[d]}) <= Keep(d)
<1> USE DEF TypeOK
<1>0. TypeOK /\ IdsApart /\ ScanOf(d) /\ Keep(d) \in Nat
  BY KeepPositive DEF Inv, ScanInv
<1>1. Step(d) \/ Trouble(d)
  <2>1. Local(d)' # Local(d)
    BY DEF Local
  <2>2. ~Begin(d)
    BY DEF Begin, Push, Download, Look
  <2> QED BY <1>0, <2>1, <2>2, OthersLeave
<1>2. CASE NothingToPrune(d)
  <2>1. Doomed(d) = {} /\ channel' = channel /\ Earlier(d) \in SUBSET found[d]
    BY <1>0, <1>2 DEF NothingToPrune, ScanOf, Scanned
  <2>2. found[d] \ Doomed(d) = found[d]
    BY <2>1
  <2>3. IsFiniteSet(found[d]) /\ Cardinality(found[d]) <= Keep(d)
    BY <1>0, <2>2, PruneKeepsFew
  <2>4. IsFiniteSet(Earlier(d)) /\ Cardinality(Earlier(d)) <= Cardinality(found[d])
    BY <2>1, <2>3, FS_Subset
  <2>5. Cardinality(Earlier(d)) \in Nat /\ Cardinality(found[d]) \in Nat
    BY <2>3, <2>4, FS_CardinalityType
  <2>6. Cardinality(Earlier(d)) <= Keep(d)
    BY <1>0, <2>3, <2>4, <2>5
  <2> QED BY <2>1, <2>6 DEF Earlier
<1>3. ASSUME NEW answered \in BOOLEAN, Delete(d, answered)
      PROVE  Cardinality({m \in channel' : m.id < since[d]}) <= Keep(d)
  <2> DEFINE left == {m \in channel' : m.id < since[d]}
  <2>1. PICK m \in found[d] : /\ channel' = channel \ {m}
                              /\ \/ Return(d, "notFound") \/ Return(d, "transport")
                                 \/ found[d] = {m}
                                 \/ UNCHANGED pc
    BY <1>3 DEF Delete
  <2>2. found[d] = {m} /\ pc[d] = "delete"
    BY <1>0, <1>3, <2>1 DEF Return, Delete
  <2>3. left \in SUBSET (Earlier(d) \ found[d])
    BY <2>1, <2>2 DEF Earlier
  <2>4. Earlier(d) \in SUBSET sent /\ IsFiniteSet(sent)
    BY <1>0 DEF Earlier
  <2>5. IsFiniteSet(Earlier(d) \ found[d])
    BY <2>4, FS_Subset
  <2>6. IsFiniteSet(left) /\ Cardinality(left) <= Cardinality(Earlier(d) \ found[d])
    BY <2>3, <2>5, FS_Subset
  <2>7. Cardinality(left) \in Nat /\ Cardinality(Earlier(d) \ found[d]) \in Nat
    BY <2>5, <2>6, FS_CardinalityType
  <2>8. Cardinality(Earlier(d) \ found[d]) <= Keep(d)
    BY <1>0, <2>2 DEF ScanOf
  <2> QED BY <1>0, <2>6, <2>7, <2>8
<1>4. ASSUME Fail(d) PROVE FALSE
  BY <1>0, <1>4 DEF Fail, Return
<1> QED BY <1>0, <1>1, <1>2, <1>3, <1>4
        DEF Scanning, Step, Trouble, ListPage, Unchanged, Send, PlanPrune, Find, Fetch, Looked

\* PruneBounds: a push that returns Ok has pruned to the limit what was stored before.
THEOREM PrunesBound == Spec => PruneBounds
<1>1. Inv /\ ScanInv /\ [Next]_vars =>
        [\A d \in Devices :
           (pc[d] \in {"prune", "delete"} /\ pc'[d] = "idle" /\ reply'[d] = "pushed")
             => Cardinality({m \in channel' : m.id < since[d]}) <= Keep(d)]_vars
  BY PrunedStep
<1> QED BY <1>1, InvAlways, ScanAlways, PTL DEF Spec, PruneBounds
=============================================================================
