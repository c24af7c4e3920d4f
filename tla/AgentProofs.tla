---------------------------- MODULE AgentProofs ----------------------------
(***************************************************************************)
(* Theorems about Agent for every set of games: its type invariant, and    *)
(* what it promises of the games it heard of, whatever fails or restarts.  *)
(***************************************************************************)
EXTENDS Agent, TLAPS

(***************************************************************************)
(* In the middle of a tick a game may be open with a push still pending,   *)
(* or closed with its work not yet backed up: exactly while its event is   *)
(* in the queue.  With that exception the two promises are inductive.      *)
(***************************************************************************)
NoPush == \A g \in open \ (missed \cup opens) : pending[g] = "no"
BackedUp ==
    \A g \in configured \ (open \cup running \cup missed \cup closes) : work[g] # "fresh"
Inv == TypeOK /\ NoPush /\ BackedUp

LEMMA InvInit == Init => Inv
BY DEF Init, Inv, TypeOK, NoPush, BackedUp

LEMMA TypeStep == TypeOK /\ [Next]_vars => TypeOK'
<1> SUFFICES ASSUME TypeOK, [Next]_vars PROVE TypeOK'
  OBVIOUS
<1> USE DEF TypeOK, saves, queue
<1>1. ASSUME NEW g \in Games, World(g) PROVE TypeOK'
  BY <1>1 DEF World, Launch, Quit, Write, Publish, Mature
<1>2. ASSUME NEW g \in Games, Open(g) PROVE TypeOK'
  BY <1>2, Zenon DEF Open, Pull
<1>3. ASSUME NEW g \in Games, Close(g) PROVE TypeOK'
  BY <1>3 DEF Close
<1>4. ASSUME NEW g \in Games, Flush(g) PROVE TypeOK'
  BY <1>4 DEF Flush
<1>5. ASSUME NEW g \in Games, Poll(g) PROVE TypeOK'
  BY <1>5 DEF Poll, Pull
<1>6. ASSUME NEW g \in Games, Command(g) PROVE TypeOK'
  <2>1. CASE Resolve(g)
    BY <2>1 DEF Resolve
  <2>2. CASE Restore(g)
    <3>1. PICK b \in BOOLEAN : behind' = [behind EXCEPT ![g] = b]
      BY <2>2 DEF Restore
    <3>2. behind' \in [Games -> BOOLEAN]
      BY <3>1
    <3>3. QED
      BY <2>2, <3>2 DEF Restore
  <2>3. CASE Reconfigure(g)
    BY <2>3 DEF Reconfigure
  <2>4. QED
    BY <1>6, <2>1, <2>2, <2>3 DEF Command
<1>7. ASSUME NEW g \in Games, Trouble(g) PROVE TypeOK'
  BY <1>7 DEF Trouble, OpenFails, CloseFails, FlushFails, DropTick, Pull
<1>8. CASE Listing
  BY <1>8 DEF Listing
<1>9. CASE EndTick(TRUE) \/ EndTick(FALSE) \/ EndPoll \/ PollFails
  BY <1>9 DEF EndTick, EndPoll, PollFails
<1>10. CASE Restart
  BY <1>10 DEF Restart
<1>11. CASE UNCHANGED vars
  BY <1>11 DEF vars
<1>12. QED
  BY <1>1, <1>2, <1>3, <1>4, <1>5, <1>6, <1>7, <1>8, <1>9, <1>10, <1>11
     DEF Next, CalmNext, Handle

LEMMA PushStep == TypeOK /\ NoPush /\ [Next]_vars => NoPush'
<1> SUFFICES ASSUME TypeOK, NoPush, [Next]_vars PROVE NoPush'
  OBVIOUS
<1> USE DEF TypeOK, NoPush, saves, queue
<1>1. ASSUME NEW g \in Games, World(g) PROVE NoPush'
  BY <1>1 DEF World, Launch, Quit, Write, Publish, Mature
<1>2. ASSUME NEW g \in Games, Open(g) PROVE NoPush'
  BY <1>2 DEF Open
<1>3. ASSUME NEW g \in Games, Close(g) PROVE NoPush'
  BY <1>3 DEF Close
<1>4. ASSUME NEW g \in Games, Flush(g) PROVE NoPush'
  BY <1>4 DEF Flush
<1>5. ASSUME NEW g \in Games, Poll(g) PROVE NoPush'
  BY <1>5 DEF Poll
<1>6. ASSUME NEW g \in Games, Command(g) PROVE NoPush'
  BY <1>6 DEF Command, Resolve, Restore, Reconfigure
<1>7. ASSUME NEW g \in Games, Trouble(g) PROVE NoPush'
  BY <1>7 DEF Trouble, OpenFails, CloseFails, FlushFails, DropTick
<1>8. CASE Listing
  BY <1>8 DEF Listing
<1>9. CASE EndTick(TRUE) \/ EndTick(FALSE) \/ EndPoll \/ PollFails
  BY <1>9 DEF EndTick, EndPoll, PollFails
<1>10. CASE Restart
  BY <1>10 DEF Restart
<1>11. CASE UNCHANGED vars
  BY <1>11 DEF vars
<1>12. QED
  BY <1>1, <1>2, <1>3, <1>4, <1>5, <1>6, <1>7, <1>8, <1>9, <1>10, <1>11
     DEF Next, CalmNext, Handle

LEMMA BackupStep == TypeOK /\ BackedUp /\ [Next]_vars => BackedUp'
<1> SUFFICES ASSUME TypeOK, BackedUp, [Next]_vars PROVE BackedUp'
  OBVIOUS
<1> USE DEF TypeOK, BackedUp, saves, queue
<1>1. ASSUME NEW g \in Games, World(g) PROVE BackedUp'
  BY <1>1 DEF World, Launch, Quit, Write, Publish, Mature
<1>2. ASSUME NEW g \in Games, Open(g) PROVE BackedUp'
  BY <1>2 DEF Open, Pull
<1>3. ASSUME NEW g \in Games, Close(g) PROVE BackedUp'
  BY <1>3 DEF Close
<1>4. ASSUME NEW g \in Games, Flush(g) PROVE BackedUp'
  BY <1>4 DEF Flush
<1>5. ASSUME NEW g \in Games, Poll(g) PROVE BackedUp'
  BY <1>5 DEF Poll, Pull
<1>6. ASSUME NEW g \in Games, Command(g) PROVE BackedUp'
  BY <1>6 DEF Command, Resolve, Restore, Reconfigure
<1>7. ASSUME NEW g \in Games, Trouble(g) PROVE BackedUp'
  BY <1>7 DEF Trouble, OpenFails, CloseFails, FlushFails, DropTick, Pull
<1>8. CASE Listing
  BY <1>8 DEF Listing
<1>9. CASE EndTick(TRUE) \/ EndTick(FALSE) \/ EndPoll \/ PollFails
  BY <1>9 DEF EndTick, EndPoll, PollFails
<1>10. CASE Restart
  BY <1>10 DEF Restart
<1>11. CASE UNCHANGED vars
  BY <1>11 DEF vars
<1>12. QED
  BY <1>1, <1>2, <1>3, <1>4, <1>5, <1>6, <1>7, <1>8, <1>9, <1>10, <1>11
     DEF Next, CalmNext, Handle

LEMMA InvAlways == Spec => []Inv
<1>1. Inv /\ [Next]_vars => Inv'
  BY TypeStep, PushStep, BackupStep DEF Inv
<1>2. QED
  BY InvInit, <1>1, PTL DEF Spec

\* The agent's state has its type; in particular a game is never queued as opened
\* and as closed by one listing.
THEOREM TypeCorrect == Spec => []TypeOK
BY InvAlways, PTL DEF Inv

\* Between ticks no game the agent heard the start of is open with a push pending.
THEOREM OpenCancelsPush == Spec => []OpenHasNoPush
<1>1. Inv => OpenHasNoPush
  BY DEF Inv, TypeOK, NoPush, OpenHasNoPush
<1>2. QED
  BY InvAlways, <1>1, PTL

\* Between ticks the work of every session the agent heard of is in the backups.
THEOREM CloseKeepsWork == Spec => []ClosedIsBackedUp
<1>1. Inv => ClosedIsBackedUp
  BY DEF Inv, TypeOK, BackedUp, ClosedIsBackedUp
<1>2. QED
  BY InvAlways, <1>1, PTL
=============================================================================
