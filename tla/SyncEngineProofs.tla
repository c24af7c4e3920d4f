-------------------------- MODULE SyncEngineProofs --------------------------
(* Proofs about SyncEngine, for any devices, contents and limits: its types, and what its
   decisions and overwrites rest on. *)
EXTENDS SyncEngine, FiniteSetTheorems, TLAPS

USE DevicesAssumption, MaxVersionsAssumption, BoundAssumption

\* The four contents that no player produces are no contents of players.
LEMMA Distinct ==
  /\ Empty # Broken /\ Empty # Absent /\ Empty # None /\ Broken # Absent /\ Broken # None
  /\ Absent # None
  /\ \A c \in Contents : c # Empty /\ c # Broken /\ c # Absent /\ c # None
<1>1. \A c \in Contents : c # Empty /\ c # Broken /\ c # Absent /\ c # None
  BY DistinctAssumption
<1>2. ASSUME NEW a, NEW b, NEW c PROVE Cardinality({a, b, c}) # 4
  <2>1. IsFiniteSet({a}) /\ Cardinality({a}) = 1
    BY FS_Singleton
  <2>2. IsFiniteSet({a} \union {b}) /\ Cardinality({a} \union {b}) \in {1, 2}
    BY <2>1, FS_AddElement
  <2>3. Cardinality(({a} \union {b}) \union {c}) \in {1, 2, 3}
    BY <2>2, FS_AddElement
  <2>4. ({a} \union {b}) \union {c} = {a, b, c}
    OBVIOUS
  <2> QED BY <2>3, <2>4
<1>3. Cardinality({Empty, Broken, Absent, None}) = 4
  BY DistinctAssumption
<1>4. Empty # Broken
  <2>1. Empty = Broken => {Empty, Broken, Absent, None} = {Empty, Absent, None}
    OBVIOUS
  <2> QED BY <2>1, <1>2, <1>3
<1>5. Empty # Absent
  <2>1. Empty = Absent => {Empty, Broken, Absent, None} = {Empty, Broken, None}
    OBVIOUS
  <2> QED BY <2>1, <1>2, <1>3
<1>6. Empty # None
  <2>1. Empty = None => {Empty, Broken, Absent, None} = {Empty, Broken, Absent}
    OBVIOUS
  <2> QED BY <2>1, <1>2, <1>3
<1>7. Broken # Absent
  <2>1. Broken = Absent => {Empty, Broken, Absent, None} = {Empty, Broken, None}
    OBVIOUS
  <2> QED BY <2>1, <1>2, <1>3
<1>8. Broken # None
  <2>1. Broken = None => {Empty, Broken, Absent, None} = {Empty, Broken, Absent}
    OBVIOUS
  <2> QED BY <2>1, <1>2, <1>3
<1>9. Absent # None
  <2>1. Absent = None => {Empty, Broken, Absent, None} = {Empty, Broken, Absent}
    OBVIOUS
  <2> QED BY <2>1, <1>2, <1>3
<1> QED BY <1>1, <1>4, <1>5, <1>6, <1>7, <1>8, <1>9

-----------------------------------------------------------------------------
(* Types. *)

\* What the later phases of an operation take for granted: the version it decided on and
\* the content it packed or downloaded are there.
WorkOf(d) ==
  /\ pc[d] \in {"download", "backup", "overwrite"} => seen[d] \in sent
  /\ pc[d] \in {"backup", "overwrite", "scan", "send", "prune"} => payload[d] \in Saves
WorkInv == \A d \in Devices : WorkOf(d)

\* Where an operation goes next keeps the types.
LEMMA GotoTypes ==
  ASSUME TypeOK, NEW d \in Devices, NEW p \in Phases, NEW m \in Modes, NEW v \in sent \cup {None},
         NEW c \in Saves \cup {None}, Goto(d, p, m, v, c)
  PROVE  /\ pc' \in [Devices -> Phases] /\ mode' \in [Devices -> Modes]
         /\ seen' \in [Devices -> sent \cup {None}] /\ payload' \in [Devices -> Saves \cup {None}]
         /\ number' \in [Devices -> Nat] /\ backup' \in [Devices -> Folders \cup {None}]
         /\ pc'[d] = p /\ seen'[d] = v /\ payload'[d] = c
         /\ \A e \in Devices \ {d} : pc'[e] = pc[e] /\ seen'[e] = seen[e] /\ payload'[e] = payload[e]
BY DEF TypeOK, Goto

\* So does a new sync state.
LEMMA SetStateTypes ==
  ASSUME TypeOK, NEW d \in Devices, NEW n \in Nat, NEW h \in Saves, SetState(d, n, h)
  PROVE  state' \in [Devices -> SyncStates] /\ torn' \in [Devices -> BOOLEAN]
BY DEF TypeOK, SetState, SyncStates

\* And what a clear or an unpack that stops halfway leaves.
LEMMA HalfwayTypes ==
  ASSUME TypeOK, WorkInv, NEW d \in Devices, pc[d] = "overwrite", Halfway(d)
  PROVE  folder' \in [Devices -> Folders]
<1>1. payload[d] \in Saves /\ folder[d] \in Folders
  BY DEF TypeOK, WorkInv, WorkOf
<1>2. Saves \subseteq Folders /\ Empty \in Folders /\ Broken \in Folders
  BY DEF Saves, Folders
<1> QED BY <1>1, <1>2 DEF TypeOK, Halfway

Typed == TypeOK /\ WorkInv

\* The first state has its types.
LEMMA InitTyped == Init => Typed
BY DEF Init, Typed, TypeOK, WorkInv, WorkOf, Unsynced, SyncStates, Phases, Modes, Folders

\* Steps that only move one operation on.
LEMMA MoveTyped ==
  ASSUME Typed, NEW d \in Devices, NEW p \in Phases, NEW m \in Modes, NEW v \in sent \cup {None},
         NEW c \in Saves \cup {None}, Goto(d, p, m, v, c),
         p \in {"download", "backup", "overwrite"} => v \in sent,
         p \in {"backup", "overwrite", "scan", "send", "prune"} => c \in Saves,
         UNCHANGED <<sent, nextId>>, channel' \subseteq channel,
         folder' \in [Devices -> Folders], state' \in [Devices -> SyncStates],
         disk' \in [Devices -> SyncStates], anc' = anc,
         touched' \in [Devices -> {"no", "afterCheck", "afterBackup"}], torn' \in [Devices -> BOOLEAN]
  PROVE  Typed'
<1> USE DEF Typed
<1>1. TypeOK'
  BY GotoTypes DEF TypeOK
<1>2. WorkInv'
  <2>1. /\ pc'[d] = p /\ seen'[d] = v /\ payload'[d] = c
        /\ \A e \in Devices \ {d} : pc'[e] = pc[e] /\ seen'[e] = seen[e] /\ payload'[e] = payload[e]
    BY DEF TypeOK, Goto
  <2>2. ASSUME NEW e \in Devices PROVE WorkOf(e)'
    <3>1. CASE e = d
      BY <2>1, <3>1 DEF WorkOf
    <3>2. CASE e # d
      <4>1. WorkOf(e)
        BY DEF WorkInv
      <4> QED BY <2>1, <3>2, <4>1 DEF WorkOf
    <3> QED BY <3>1, <3>2
  <2> QED BY <2>2 DEF WorkInv
<1> QED BY <1>1, <1>2

\* Every step keeps the types.
LEMMA StepTyped == Typed /\ [Next]_vars => Typed'
<1> SUFFICES ASSUME Typed, [Next]_vars PROVE Typed'
  OBVIOUS
<1> USE DEF store
<1>0. /\ TypeOK /\ WorkInv
      /\ folder \in [Devices -> Folders] /\ state \in [Devices -> SyncStates]
      /\ disk \in [Devices -> SyncStates] /\ torn \in [Devices -> BOOLEAN]
      /\ touched \in [Devices -> {"no", "afterCheck", "afterBackup"}]
      /\ mode \in [Devices -> Modes] /\ seen \in [Devices -> sent \cup {None}]
      /\ channel \subseteq sent
      /\ \A v \in sent : v.number \in Nat /\ v.content \in Saves
  BY DEF Typed, TypeOK, Versions
<1>01. ASSUME NEW d \in Devices, folder[d] # Absent PROVE folder[d] \in Saves
  BY <1>0, <1>01 DEF Folders
<1>02. Phases = {"idle", "download", "backup", "overwrite", "scan", "send", "prune", "save"}
       /\ Modes = {"none", "pull", "push", "local", "remote", "restore"}
  BY DEF Phases, Modes
<1>1. ASSUME NEW d \in Devices, NEW c \in Contents, Play(d, c) PROVE Typed'
  <2>1. c \in Folders
    BY DEF Folders, Saves
  <2>2. folder' \in [Devices -> Folders]
    BY <1>0, <1>1, <2>1 DEF Play
  <2>3. anc' \in [Contents -> SUBSET Contents]
    BY <1>1 DEF Play, Typed, TypeOK
  <2>4. touched' \in [Devices -> {"no", "afterCheck", "afterBackup"}]
    BY <1>0, <1>1 DEF Play
  <2>5. TypeOK'
    BY <1>0, <1>1, <2>2, <2>3, <2>4 DEF Play, TypeOK
  <2> QED BY <1>0, <1>1, <2>5 DEF Play, Typed, WorkInv, WorkOf
<1>2. ASSUME NEW d \in Devices, PullNewer(d) \/ ResolveRemote(d) \/ \E n \in Nat : Restore(d, n)
      PROVE  Typed'
  <2>1. \E v \in channel : \E m \in Modes : Goto(d, "download", m, v, None)
    BY <1>02, <1>2 DEF PullNewer, ResolveRemote, Restore, IsHit
  <2>2. UNCHANGED <<store, folder, state, disk, anc, touched, torn>>
    BY <1>2 DEF PullNewer, ResolveRemote, Restore
  <2> QED BY <1>0, <1>02, <2>1, <2>2, MoveTyped
<1>3. ASSUME NEW d \in Devices, Download(d) PROVE Typed'
  <2>1. CASE Return(d)
    <3>1. touched' \in [Devices -> {"no", "afterCheck", "afterBackup"}]
      BY <1>0, <1>3 DEF Download
    <3> QED BY <1>0, <1>02, <1>3, <2>1, <3>1, MoveTyped DEF Download, Return
  <2>2. ASSUME NEW m \in channel, Goto(d, "backup", mode[d], seen[d], m.content),
               touched' = touched
        PROVE  Typed'
    <3>1. mode[d] \in Modes /\ seen[d] \in sent /\ m.content \in Saves
      BY <1>0, <1>3 DEF Download, WorkInv, WorkOf
    <3> QED BY <1>0, <1>02, <1>3, <2>2, <3>1, MoveTyped DEF Download
  <2> QED BY <1>3, <2>1, <2>2 DEF Download
<1>4. ASSUME NEW d \in Devices, Backup(d) PROVE Typed'
  <2>1. backup' \in [Devices -> Folders \cup {None}] /\ pc' \in [Devices -> Phases]
    BY <1>0, <1>02, <1>4 DEF Backup, TypeOK
  <2>2. TypeOK'
    BY <1>0, <1>4, <2>1 DEF Backup, TypeOK
  <2> QED BY <1>0, <1>4, <2>2 DEF Backup, Typed, TypeOK, WorkInv, WorkOf
<1>5. ASSUME NEW d \in Devices, Overwrite(d) PROVE Typed'
  <2>1. payload[d] \in Saves /\ payload[d] \in Folders /\ seen[d] \in sent /\ mode[d] \in Modes
    BY <1>0, <1>5 DEF Overwrite, WorkInv, WorkOf, Folders
  <2>2. folder' \in [Devices -> Folders] /\ touched' \in [Devices -> {"no", "afterCheck", "afterBackup"}]
    BY <1>0, <1>5, <2>1 DEF Overwrite
  <2>3. state' \in [Devices -> SyncStates] /\ torn' \in [Devices -> BOOLEAN]
    BY <1>0, <1>5, <2>1, SetStateTypes DEF Overwrite
  <2>4. CASE Return(d)
    BY <1>0, <1>02, <1>5, <2>2, <2>3, <2>4, MoveTyped DEF Overwrite, Return
  <2>5. CASE Goto(d, "save", mode[d], None, None)
    BY <1>0, <1>02, <1>5, <2>1, <2>2, <2>3, <2>5, MoveTyped DEF Overwrite
  <2> QED BY <1>5, <2>4, <2>5 DEF Overwrite
<1>6. ASSUME NEW d \in Devices, PushSame(d) \/ ResolveSame(d) \/ StoreSame(d) PROVE Typed'
  <2>1. \E v \in channel : \E m \in Modes :
          SetState(d, v.number, v.content) /\ Goto(d, "save", m, None, None)
    BY <1>0, <1>02, <1>6 DEF PushSame, ResolveSame, StoreSame
  <2>2. UNCHANGED <<store, folder, disk, anc, touched>>
    BY <1>6 DEF PushSame, ResolveSame, StoreSame
  <2>3. state' \in [Devices -> SyncStates] /\ torn' \in [Devices -> BOOLEAN]
    BY <1>0, <2>1, SetStateTypes
  <2> QED BY <1>0, <1>02, <2>1, <2>2, <2>3, MoveTyped
<1>7. ASSUME NEW d \in Devices, PushNew(d) \/ ResolveLocal(d) PROVE Typed'
  <2>1. \E v \in sent \cup {None} : \E m \in Modes : Goto(d, "scan", m, v, folder[d])
    BY <1>0, <1>02, <1>7 DEF PushNew, ResolveLocal
  <2>2. folder[d] \in Saves /\ UNCHANGED <<store, folder, state, disk, anc, touched, torn>>
    BY <1>01, <1>7 DEF PushNew, ResolveLocal
  <2> QED BY <1>0, <1>02, <2>1, <2>2, MoveTyped
<1>8. ASSUME NEW d \in Devices, StoreNew(d) PROVE Typed'
  <2>1. number' \in [Devices -> Nat]
    <3>1. \A m \in channel : m.number + 1 \in Nat
      BY <1>0
    <3>2. \E n \in Nat : number' = [number EXCEPT ![d] = n]
      BY <1>8, <3>1 DEF StoreNew
    <3> QED BY <1>0, <3>2 DEF TypeOK
  <2>2. pc' \in [Devices -> Phases]
    BY <1>0, <1>02, <1>8 DEF StoreNew, TypeOK
  <2>3. TypeOK'
    BY <1>0, <1>8, <2>1, <2>2 DEF StoreNew, TypeOK
  <2> QED BY <1>0, <1>8, <2>3 DEF StoreNew, Typed, TypeOK, WorkInv, WorkOf
<1>9. ASSUME NEW d \in Devices, NEW answered \in BOOLEAN, Send(d, answered) PROVE Typed'
  <2> DEFINE m == [id |-> nextId, number |-> number[d], content |-> payload[d]]
  <2>1. payload[d] \in Saves /\ nextId \in Nat \ {0} /\ number[d] \in Nat
    BY <1>0, <1>9 DEF Send, WorkInv, WorkOf, TypeOK
  <2>2. /\ sent' = sent \cup {m} /\ channel' = channel \cup {m} /\ nextId' = nextId + 1
        /\ UNCHANGED <<folder, state, disk, anc, touched, torn>>
    BY <1>9 DEF Send
  <2>3. m \in Versions
    BY <2>1 DEF Versions
  <2>4. /\ channel' \subseteq sent' /\ sent' \subseteq Versions /\ nextId' \in Nat \ {0}
        /\ sent \subseteq sent'
    BY <1>0, <2>1, <2>2, <2>3 DEF TypeOK
  <2>5. CASE Return(d)
    <3>1. /\ pc' \in [Devices -> Phases] /\ mode' \in [Devices -> Modes]
          /\ seen' \in [Devices -> sent \cup {None}] /\ payload' \in [Devices -> Saves \cup {None}]
          /\ number' \in [Devices -> Nat] /\ backup' \in [Devices -> Folders \cup {None}]
          /\ pc'[d] = "idle"
          /\ \A e \in Devices \ {d} : pc'[e] = pc[e] /\ seen'[e] = seen[e] /\ payload'[e] = payload[e]
      <4>1. /\ "idle" \in Phases /\ "none" \in Modes /\ None \in sent \cup {None}
            /\ None \in Saves \cup {None}
        BY <1>02
      <4>2. Goto(d, "idle", "none", None, None)
        BY <2>5 DEF Return
      <4> QED BY <1>0, <4>1, <4>2, GotoTypes
    <3>2. seen' \in [Devices -> sent' \cup {None}]
      BY <2>4, <3>1
    <3>3. TypeOK'
      BY <1>0, <2>2, <2>4, <3>1, <3>2 DEF TypeOK
    <3>4. WorkInv'
      BY <1>0, <2>4, <3>1 DEF WorkInv, WorkOf
    <3> QED BY <3>3, <3>4 DEF Typed
  <2>6. CASE pc' = [pc EXCEPT ![d] = "prune"] /\ UNCHANGED <<mode, seen, number, payload, backup>>
    <3>1. pc' \in [Devices -> Phases] /\ seen' \in [Devices -> sent' \cup {None}]
      BY <1>0, <1>02, <2>4, <2>6 DEF TypeOK
    <3>2. TypeOK'
      BY <1>0, <2>2, <2>4, <2>6, <3>1 DEF TypeOK
    <3>3. WorkInv'
      BY <1>0, <2>1, <2>4, <2>6 DEF WorkInv, WorkOf, TypeOK
    <3> QED BY <3>2, <3>3 DEF Typed
  <2> QED BY <1>9, <2>5, <2>6 DEF Send
<1>10. ASSUME NEW d \in Devices, Prune(d) PROVE Typed'
  <2>1. payload[d] \in Saves /\ number[d] \in Nat /\ mode[d] \in Modes
    BY <1>0, <1>10 DEF Prune, WorkInv, WorkOf, TypeOK
  <2>2. state' \in [Devices -> SyncStates] /\ torn' \in [Devices -> BOOLEAN]
    BY <1>0, <1>10, <2>1, SetStateTypes DEF Prune
  <2> QED BY <1>0, <1>02, <1>10, <2>1, <2>2, MoveTyped DEF Prune
<1>11. ASSUME NEW d \in Devices, PruneFails(d) PROVE Typed'
  <2>1. channel' \subseteq channel
    BY <1>11 DEF PruneFails
  <2> QED BY <1>0, <1>02, <1>11, <2>1, MoveTyped DEF PruneFails, Return
<1>12. ASSUME NEW d \in Devices, Save(d) PROVE Typed'
  <2>1. disk' \in [Devices -> SyncStates]
    BY <1>0, <1>12 DEF Save
  <2> QED BY <1>0, <1>02, <1>12, <2>1, MoveTyped DEF Save, Return
<1>13. ASSUME NEW d \in Devices, Abort(d) \/ Crash(d) PROVE Typed'
  <2>1. /\ Return(d) /\ touched' \in [Devices -> {"no", "afterCheck", "afterBackup"}]
        /\ UNCHANGED <<store, disk, anc>>
    BY <1>0, <1>13 DEF Abort, Crash
  <2>2. folder' \in [Devices -> Folders]
    <3>1. CASE pc[d] = "overwrite"
      BY <1>0, <1>13, <3>1, HalfwayTypes DEF Abort, Crash
    <3>2. CASE pc[d] # "overwrite"
      BY <1>0, <1>13, <3>2 DEF Abort, Crash
    <3> QED BY <3>1, <3>2
  <2>3. state' \in [Devices -> SyncStates] /\ torn' \in [Devices -> BOOLEAN]
    BY <1>0, <1>13 DEF Abort, Crash
  <2> QED BY <1>0, <1>02, <2>1, <2>2, <2>3, MoveTyped DEF Return
<1>14. ASSUME NEW d \in Devices, Reload(d) PROVE Typed'
  <2>1. TypeOK'
    BY <1>0, <1>14 DEF Reload, TypeOK
  <2> QED BY <1>0, <1>14, <2>1 DEF Reload, Typed, WorkInv, WorkOf
<1>15. CASE UNCHANGED vars
  BY <1>0, <1>15 DEF vars, Typed, TypeOK, WorkInv, WorkOf
<1>16. ASSUME NEW d \in Devices, Pull(d) \/ Push(d) \/ Command(d) PROVE Typed'
  BY <1>0, <1>2, <1>6, <1>7, <1>16 DEF Pull, Push, Command
<1>17. ASSUME NEW d \in Devices, Step(d) PROVE Typed'
  BY <1>3, <1>4, <1>5, <1>6, <1>8, <1>9, <1>10, <1>12, <1>17 DEF Step
<1>18. ASSUME NEW d \in Devices, Trouble(d) PROVE Typed'
  BY <1>9, <1>11, <1>13, <1>14, <1>18 DEF Trouble
<1> QED BY <1>1, <1>15, <1>16, <1>17, <1>18 DEF Next

\* The types of the state.
THEOREM TypeCorrect == Spec => []TypeOK
<1>1. Typed => TypeOK
  BY DEF Typed
<1> QED BY <1>1, InitTyped, StepTyped, PTL DEF Spec

-----------------------------------------------------------------------------
(* One device at a time. *)

\* The state a device's steps work on, the channel apart.
Local(d) == <<folder[d], backup[d], state[d], disk[d], pc[d], mode[d], seen[d], number[d],
              payload[d], touched[d], torn[d]>>

Own(d) ==
  \/ \E c \in Contents : Play(d, c)
  \/ Pull(d) \/ Push(d) \/ Command(d) \/ Step(d) \/ Trouble(d)

\* The steps of other devices leave a device alone, and no version is forgotten.
LEMMA OthersLeave ==
  ASSUME TypeOK, [Next]_vars, NEW d \in Devices, ~Own(d)
  PROVE  Local(d)' = Local(d)
<1> USE DEF TypeOK, store, Goto, Return
<1>1. CASE UNCHANGED vars
  BY <1>1 DEF vars, Local
<1>2. ASSUME NEW e \in Devices, e # d, Own(e) PROVE Local(d)' = Local(d)
  <2>1. CASE \E c \in Contents : Play(e, c)
    BY <1>2, <2>1 DEF Play, Local
  <2>2. CASE Pull(e)
    BY <1>2, <2>2 DEF Pull, PullNewer, Local
  <2>3. CASE Push(e)
    BY <1>2, <2>3 DEF Push, PushSame, PushNew, SetState, Local
  <2>4. CASE Command(e)
    BY <1>2, <2>4 DEF Command, ResolveSame, ResolveLocal, ResolveRemote, Restore, SetState, Local
  <2>5. CASE Download(e) \/ Backup(e) \/ Overwrite(e)
    BY <1>2, <2>5 DEF Download, Backup, Overwrite, SetState, Local
  <2>6. CASE StoreSame(e) \/ StoreNew(e) \/ Prune(e) \/ Save(e)
    BY <1>2, <2>6 DEF StoreSame, StoreNew, Prune, Save, SetState, Local
  <2>7. CASE \E answered \in BOOLEAN : Send(e, answered)
    BY <1>2, <2>7 DEF Send, Local
  <2>8. CASE PruneFails(e) \/ Reload(e)
    BY <1>2, <2>8 DEF PruneFails, Reload, Local
  <2>9. CASE Abort(e) \/ Crash(e)
    BY <1>2, <2>9 DEF Abort, Crash, Halfway, Local
  <2> QED BY <1>2, <2>1, <2>2, <2>3, <2>4, <2>5, <2>6, <2>7, <2>8, <2>9 DEF Own, Step, Trouble
<1> QED BY <1>1, <1>2 DEF Next, Own

LEMMA SentGrows == [Next]_vars => sent \subseteq sent'
<1> USE DEF store
<1>1. ASSUME NEW d \in Devices, Own(d) PROVE sent \subseteq sent'
  BY <1>1 DEF Own, Play, Pull, PullNewer, Push, PushSame, PushNew, Command, ResolveSame, ResolveLocal,
     ResolveRemote, Restore, Step, Download, Backup, Overwrite, StoreSame, StoreNew, Send, Prune,
     Save, Trouble, PruneFails, Abort, Crash, Reload
<1> QED BY <1>1 DEF Next, Own, vars

-----------------------------------------------------------------------------
(* What decisions and overwrites rest on. *)

Stored(n, c) == \E m \in sent : m.number = n /\ m.content = c

\* The state is a version, and what an operation will make of it is one too; the backup of
\* an overwrite is the folder, and the folder of a pull is saved, unless the player
\* wrote to it since.
SoundOf(d) ==
  /\ IsAVersion(state[d]) /\ IsAVersion(disk[d])
  /\ pc[d] \in {"backup", "overwrite"} => Stored(seen[d].number, payload[d])
  /\ pc[d] = "prune" => Stored(number[d], payload[d])
  /\ pc[d] = "overwrite" => folder[d] = backup[d] \/ touched[d] = "afterBackup"
  /\ pc[d] \in {"download", "backup", "overwrite"} /\ mode[d] = "pull" /\ touched[d] = "no" =>
       folder[d] \in {Absent, Empty} \cup {m.content : m \in sent}
SoundInv == \A d \in Devices : SoundOf(d)

\* A new state that is that of a stored version.
LEMMA SyncedIsVersion ==
  ASSUME TypeOK, NEW d \in Devices, NEW n, NEW h, Stored(n, h), SetState(d, n, h)
  PROVE  IsAVersion(state'[d])
<1>1. state'[d] = [last |-> n, hash |-> h]
  BY DEF SetState, TypeOK
<1>2. state'[d].last = n /\ state'[d].hash = h
  BY <1>1
<1> QED BY <1>2 DEF Stored, IsAVersion

\* A pull starts on a folder that is saved.
LEMMA CleanIsSaved ==
  ASSUME TypeOK, NEW d \in Devices, IsAVersion(state[d]), NEW v \in sent, ~Dirty(d, v)
  PROVE  folder[d] \in {Absent, Empty} \cup {m.content : m \in sent}
<1>1. CASE folder[d] \in {Absent, Empty}
  BY <1>1
<1>2. CASE state[d].hash = None /\ folder[d] = v.content
  BY <1>2
<1>3. CASE state[d].hash # None /\ folder[d] = state[d].hash
  <2>1. state[d] # Unsynced
    BY <1>3 DEF Unsynced
  <2>2. \E m \in sent : m.content = state[d].hash
    BY <2>1 DEF IsAVersion
  <2> QED BY <1>3, <2>2
<1> QED BY <1>1, <1>2, <1>3 DEF Dirty

\* A device's own steps keep it.
LEMMA OwnKeepsSound ==
  ASSUME Typed, NEW d \in Devices, SoundOf(d), Own(d), sent \subseteq sent' PROVE SoundOf(d)'
<1>0. TypeOK /\ WorkOf(d) /\ channel \subseteq sent
  BY DEF Typed, TypeOK, WorkInv
<1>01. ASSUME NEW s, IsAVersion(s) PROVE s = Unsynced \/ \E m \in sent' : m.number = s.last /\ m.content = s.hash
  BY <1>01 DEF IsAVersion
<1>02. IsAVersion(state[d]) /\ IsAVersion(disk[d])
  BY DEF SoundOf
<1>03. ASSUME NEW n, NEW h, Stored(n, h) PROVE \E m \in sent' : m.number = n /\ m.content = h
  BY <1>03 DEF Stored
<1> USE DEF TypeOK, store, Goto, Return
<1>1. CASE \E c \in Contents : Play(d, c)
  BY <1>0, <1>1 DEF Play, SoundOf, IsAVersion, Stored
<1>2. CASE PullNewer(d)
  <2>1. PICK v \in channel : ~Dirty(d, v)
    BY <1>2 DEF PullNewer
  <2>2. folder[d] \in {Absent, Empty} \cup {m.content : m \in sent}
    BY <1>0, <1>02, <2>1, CleanIsSaved
  <2> QED BY <1>0, <1>2, <2>2 DEF PullNewer, SoundOf, IsAVersion, Stored
<1>3. CASE ResolveRemote(d) \/ \E n : Restore(d, n)
  BY <1>0, <1>3 DEF ResolveRemote, Restore, SoundOf, IsAVersion, Stored
<1>4. CASE PushNew(d) \/ ResolveLocal(d)
  BY <1>0, <1>4 DEF PushNew, ResolveLocal, SoundOf, IsAVersion, Stored
<1>5. CASE PushSame(d) \/ ResolveSame(d) \/ StoreSame(d)
  <2>1. PICK v \in channel : SetState(d, v.number, v.content)
    BY <1>5 DEF PushSame, ResolveSame, StoreSame
  <2>2. IsAVersion(state'[d])
    BY <1>0, <2>1, SyncedIsVersion DEF Stored
  <2>3. pc'[d] = "save" /\ disk' = disk /\ sent' = sent
    BY <1>0, <1>5 DEF PushSame, ResolveSame, StoreSame
  <2> QED BY <1>02, <2>2, <2>3 DEF SoundOf, IsAVersion
<1>6. CASE Download(d)
  <2>1. CASE \E m \in channel : /\ IsHit(m, seen[d].number, channel)
                                /\ Goto(d, "backup", mode[d], seen[d], m.content)
    BY <1>0, <1>6, <2>1 DEF Download, IsHit, SoundOf, IsAVersion, Stored
  <2>2. CASE Return(d)
    BY <1>0, <1>6, <2>2 DEF Download, SoundOf, IsAVersion, Stored
  <2> QED BY <1>6, <2>1, <2>2 DEF Download
<1>7. CASE Backup(d)
  BY <1>0, <1>7 DEF Backup, SoundOf, IsAVersion, Stored
<1>8. CASE Overwrite(d)
  <2>1. Stored(seen[d].number, payload[d])
    BY <1>8 DEF Overwrite, SoundOf
  <2>2. IsAVersion(state'[d])
    <3>1. CASE SetState(d, seen[d].number, payload[d])
      BY <1>0, <2>1, <3>1, SyncedIsVersion
    <3>2. CASE state' = state
      BY <1>02, <3>2
    <3> QED BY <1>8, <3>1, <3>2 DEF Overwrite
  <2>3. pc'[d] \in {"save", "idle"} /\ disk' = disk /\ sent' = sent
    BY <1>0, <1>8 DEF Overwrite
  <2> QED BY <1>02, <2>2, <2>3 DEF SoundOf, IsAVersion
<1>9. CASE StoreNew(d)
  BY <1>0, <1>9 DEF StoreNew, SoundOf, IsAVersion, Stored
<1>10. ASSUME NEW answered \in BOOLEAN, Send(d, answered) PROVE SoundOf(d)'
  <2> DEFINE m == [id |-> nextId, number |-> number[d], content |-> payload[d]]
  <2>1. m \in sent' /\ m.number = number[d] /\ m.content = payload[d]
    BY <1>10 DEF Send
  <2>2. state' = state /\ disk' = disk
    BY <1>10 DEF Send
  <2>3. CASE pc'[d] = "idle"
    BY <1>01, <1>02, <2>2, <2>3 DEF SoundOf, IsAVersion
  <2>4. CASE pc'[d] = "prune" /\ number' = number /\ payload' = payload
    BY <1>01, <1>02, <2>1, <2>2, <2>4 DEF SoundOf, IsAVersion, Stored
  <2> QED BY <1>0, <1>10, <2>3, <2>4 DEF Send
<1>11. CASE Prune(d)
  <2>1. Stored(number[d], payload[d]) /\ SetState(d, number[d], payload[d])
    BY <1>11 DEF Prune, SoundOf
  <2>2. IsAVersion(state'[d])
    BY <1>0, <2>1, SyncedIsVersion
  <2>3. pc'[d] = "save" /\ disk' = disk /\ sent' = sent
    BY <1>0, <1>11 DEF Prune
  <2> QED BY <1>02, <2>2, <2>3 DEF SoundOf, IsAVersion
<1>12. CASE PruneFails(d) \/ Save(d) \/ Abort(d) \/ Crash(d)
  <2>1. pc'[d] = "idle" /\ sent' = sent /\ state'[d] \in {state[d], disk[d]} /\ disk'[d] \in {state[d], disk[d]}
    BY <1>0, <1>12 DEF PruneFails, Save, Abort, Crash
  <2> QED BY <1>02, <2>1 DEF SoundOf, IsAVersion
<1>13. CASE Reload(d)
  BY <1>0, <1>13 DEF Reload, SoundOf, IsAVersion, Stored
<1> QED BY <1>1, <1>2, <1>3, <1>4, <1>5, <1>6, <1>7, <1>8, <1>9, <1>10, <1>11, <1>12, <1>13
        DEF Own, Pull, Push, Command, Step, Trouble

\* Every step keeps it.
LEMMA SoundStep == Typed /\ SoundInv /\ [Next]_vars => SoundInv'
<1> SUFFICES ASSUME Typed, SoundInv, [Next]_vars, NEW d \in Devices PROVE SoundOf(d)'
  BY DEF SoundInv
<1>1. SoundOf(d) /\ sent \subseteq sent' /\ TypeOK
  BY SentGrows DEF SoundInv, Typed
<1>2. CASE Local(d)' = Local(d)
  BY <1>1, <1>2 DEF Local, SoundOf, IsAVersion, Stored
<1> QED BY <1>1, <1>2, OwnKeepsSound, OthersLeave

Inv == Typed /\ SoundInv

LEMMA Invariance == Spec => []Inv
<1>1. Init => Inv
  <2>1. Init => SoundInv
    BY DEF Init, SoundInv, SoundOf, IsAVersion
  <2> QED BY <2>1, InitTyped DEF Inv
<1>2. Inv /\ [Next]_vars => Inv'
  BY StepTyped, SoundStep DEF Inv
<1> QED BY <1>1, <1>2, PTL DEF Spec

\* StateIsAVersion: the sync state always names a version that was stored.
THEOREM StateAlwaysAVersion == Spec => []StateIsAVersion
<1>1. Inv => StateIsAVersion
  BY DEF Inv, SoundInv, SoundOf, StateIsAVersion
<1> QED BY <1>1, Invariance, PTL

\* The app writes to a save folder only in an overwrite.
LEMMA WritesInOverwrite ==
  ASSUME Typed, [Next]_vars, NEW d \in Devices, AppWrites(d) PROVE pc[d] = "overwrite"
<1>1. TypeOK
  BY DEF Typed
<1>2. Own(d)
  <2>1. Local(d)' # Local(d)
    BY DEF AppWrites, Local
  <2> QED BY <1>1, <2>1, OthersLeave
<1>3. ASSUME NEW c \in Contents, Play(d, c) PROVE FALSE
  <2>1. anc[c] = {} /\ c \in anc'[c]
    BY <1>1, <1>3 DEF Play, TypeOK
  <2> QED BY <2>1 DEF AppWrites
<1> QED BY <1>1, <1>2, <1>3 DEF Own, AppWrites, TypeOK, Pull, PullNewer, Push, PushSame, PushNew, Command,
        ResolveSame, ResolveLocal, ResolveRemote, Restore, Step, Download, Backup, Overwrite,
        StoreSame, StoreNew, Send, Prune, Save, Trouble, PruneFails, Abort, Crash, Reload

\* BackedUp: what an overwrite destroys is in its backup.
THEOREM AlwaysBackedUp == Spec => BackedUp
<1>1. Inv /\ [Next]_vars =>
        [\A d \in Devices : AppWrites(d) =>
           \/ folder[d] \in {backup[d], Absent}
           \/ touched[d] = "afterBackup"]_vars
  BY WritesInOverwrite DEF Inv, SoundInv, SoundOf
<1> QED BY <1>1, Invariance, PTL DEF Spec, BackedUp

\* CleanOverwrite: a pull overwrites only what was stored before.
THEOREM PullsOverwriteClean == Spec => CleanOverwrite
<1>1. Inv /\ [Next]_vars =>
        [\A d \in Devices :
           (AppWrites(d) /\ mode[d] = "pull" /\ touched[d] = "no") =>
             folder[d] \in {Absent, Empty} \cup {m.content : m \in sent}]_vars
  BY WritesInOverwrite DEF Inv, SoundInv, SoundOf
<1> QED BY <1>1, Invariance, PTL DEF Spec, CleanOverwrite

-----------------------------------------------------------------------------
(* What a save was played from. *)

\* A content of players that is anywhere was produced, and descends from itself.
Used(c) == c \in Contents => c \in anc[c]
From(c, f) == f \in Contents /\ c \in anc[f]

\* Unless it was left by an overwrite that was cut short, the folder descends from the synced
\* version, and so does what is packed from it; what a close is about to send descends
\* from the version it was compared with, if the version's number is its own.
LineageOf(d) ==
  /\ Used(folder[d]) /\ Used(payload[d])
  /\ pc[d] \in {"send", "prune"} => number[d] # 0
  /\ ~torn[d] /\ state[d].hash \in Contents => From(state[d].hash, folder[d])
  /\ pc[d] \in {"scan", "send", "prune"} /\ payload[d] \in Contents => From(payload[d], folder[d])
  /\ (/\ pc[d] \in {"scan", "send"} /\ mode[d] = "push" /\ ~torn[d] /\ NumbersUnique
      /\ payload[d] \in Contents /\ seen[d] # None /\ seen[d].content \in Contents) =>
        seen[d].content \in anc[payload[d]]
LineageInv ==
  /\ \A d \in Devices : LineageOf(d)
  /\ \A m \in sent : Used(m.content) /\ m.number # 0

\* A content's ancestors never change.
LEMMA AncStays ==
  ASSUME TypeOK, [Next]_vars, NEW c \in Contents, anc[c] # {} PROVE anc'[c] = anc[c]
<1> USE DEF store
<1>1. ASSUME NEW d \in Devices, NEW k \in Contents, Play(d, k) PROVE anc'[c] = anc[c]
  BY <1>1 DEF Play, TypeOK
<1>2. ASSUME NEW d \in Devices, Own(d) PROVE anc'[c] = anc[c]
  BY <1>1, <1>2 DEF Own, Pull, PullNewer, Push, PushSame, PushNew, Command, ResolveSame, ResolveLocal,
     ResolveRemote, Restore, Step, Download, Backup, Overwrite, StoreSame, StoreNew, Send, Prune,
     Save, Trouble, PruneFails, Abort, Crash, Reload
<1> QED BY <1>2 DEF Next, Own, vars

LEMMA LineageKept ==
  ASSUME TypeOK, [Next]_vars
  PROVE  /\ \A c : Used(c) => Used(c)'
         /\ \A c, f : From(c, f) => From(c, f)'
BY AncStays DEF Used, From

\* The version a close compares with is the synced one, whose content the folder descends from.
LEMMA PushBuilds ==
  ASSUME TypeOK, NEW d \in Devices, IsAVersion(state[d]), LineageInv, NumbersUnique, ~torn[d],
         NEW v \in sent, state[d].last = v.number, v.content \in Contents
  PROVE  v.content \in anc[folder[d]]
<1>1. v.number # 0
  BY DEF LineageInv
<1>2. state[d] # Unsynced
  BY <1>1 DEF Unsynced
<1>3. PICK m \in sent : m.number = state[d].last /\ m.content = state[d].hash
  BY <1>2 DEF IsAVersion
<1>4. m = v
  BY <1>3 DEF NumbersUnique
<1> QED BY <1>3, <1>4 DEF LineageInv, LineageOf, From

\* A device's own steps keep it.
LEMMA OwnKeepsLineage ==
  ASSUME Typed, [Next]_vars, NEW d \in Devices, SoundOf(d), LineageInv, Own(d), sent \subseteq sent'
  PROVE  LineageOf(d)'
<1>0. TypeOK /\ WorkOf(d) /\ channel \subseteq sent /\ LineageOf(d) /\ IsAVersion(state[d])
  BY DEF Typed, TypeOK, WorkInv, LineageInv, SoundOf
<1>01. /\ \A c : Used(c) => Used(c)'
       /\ \A c, f : From(c, f) => From(c, f)'
  BY <1>0, LineageKept
<1>02. NumbersUnique' => NumbersUnique
  BY DEF NumbersUnique
<1>03. Used(None) /\ Used(Empty) /\ Used(Broken) /\ None \notin Contents
  BY Distinct DEF Used
<1>04. \A m \in channel : Used(m.content)
  BY <1>0 DEF LineageInv
<1>05. \A f : f \in Contents /\ Used(f) => From(f, f)
  BY DEF Used, From
<1> USE DEF TypeOK, store
<1>1. ASSUME NEW c \in Contents, Play(d, c) PROVE LineageOf(d)'
  <2>1. c \in anc'[c] /\ folder'[d] = c /\ (folder[d] \in Contents => anc[folder[d]] \subseteq anc'[c])
    BY <1>0, <1>1 DEF Play
  <2>2. UNCHANGED <<state, pc, mode, seen, number, payload, sent, torn>>
    BY <1>1 DEF Play
  <2>3. Used(folder[d])' /\ Used(payload[d])'
    <3>1. Used(payload[d])'
      BY <1>0, <1>01, <2>2 DEF LineageOf
    <3> QED BY <2>1, <3>1 DEF Used
  <2>4. \A k : From(k, folder[d]) => From(k, folder[d])'
    BY <2>1 DEF From
  <2>5. payload[d] \in Contents => anc'[payload[d]] = anc[payload[d]]
    BY <1>0, AncStays DEF LineageOf, Used
  <2>6. NumbersUnique' => NumbersUnique
    BY <1>02
  <2>7. (~torn[d] /\ state[d].hash \in Contents => From(state[d].hash, folder[d]))'
    BY <1>0, <2>2, <2>4 DEF LineageOf
  <2>8. (pc[d] \in {"scan", "send", "prune"} /\ payload[d] \in Contents => From(payload[d], folder[d]))'
    BY <1>0, <2>2, <2>4 DEF LineageOf
  <2>9. payload'[d] = payload[d] /\ seen'[d] = seen[d] /\ pc'[d] = pc[d] /\ mode'[d] = mode[d]
        /\ number'[d] = number[d] /\ torn'[d] = torn[d]
    BY <2>2
  <2> QED BY <1>0, <2>3, <2>5, <2>6, <2>7, <2>8, <2>9 DEF LineageOf
<1>2. CASE PullNewer(d) \/ ResolveRemote(d) \/ \E n : Restore(d, n)
  <2>1. /\ UNCHANGED <<folder, state, anc, torn>> /\ pc'[d] = "download" /\ payload'[d] = None
    BY <1>0, <1>2 DEF PullNewer, ResolveRemote, Restore, Goto
  <2> QED BY <1>0, <1>03, <2>1 DEF LineageOf, Used, From
<1>3. CASE PushNew(d) \/ ResolveLocal(d)
  <2>1. /\ UNCHANGED <<folder, state, anc, torn, sent>> /\ pc'[d] = "scan" /\ payload'[d] = folder[d]
    BY <1>0, <1>3 DEF PushNew, ResolveLocal, Goto
  <2>2. Used(folder[d]) /\ (folder[d] \in Contents => From(folder[d], folder[d]))
    BY <1>0, <1>05 DEF LineageOf
  <2>3. ASSUME mode'[d] = "push", NumbersUnique, ~torn[d], seen'[d] # None,
               seen'[d].content \in Contents
        PROVE  seen'[d].content \in anc[folder[d]]
    <3>1. /\ seen'[d] \in channel /\ state[d].last = seen'[d].number
      BY <1>0, <1>3, <2>3 DEF PushNew, ResolveLocal, Goto
    <3> QED BY <1>0, <2>3, <3>1, PushBuilds
  <2> QED BY <1>0, <2>1, <2>2, <2>3 DEF LineageOf, NumbersUnique, Used, From
<1>4. CASE PushSame(d) \/ ResolveSame(d) \/ StoreSame(d)
  <2>1. PICK v \in channel : SetState(d, v.number, v.content)
                             /\ (v.content = folder[d] \/ (pc[d] = "scan" /\ v.content = payload[d]))
    <3>1. CASE PushSame(d) \/ ResolveSame(d)
      <4>1. \E v \in channel : v.content = folder[d] /\ SetState(d, v.number, v.content)
        BY <3>1 DEF PushSame, ResolveSame
      <4> QED BY <4>1
    <3>2. CASE StoreSame(d)
      BY <3>2 DEF StoreSame
    <3> QED BY <1>4, <3>1, <3>2
  <2>2. /\ pc'[d] = "save" /\ payload'[d] = None /\ folder' = folder /\ anc' = anc
        /\ state'[d].hash = v.content
    BY <1>0, <1>4, <2>1 DEF PushSame, ResolveSame, StoreSame, SetState, Goto
  <2>3. v.content \in Contents => From(v.content, folder[d])
    BY <1>0, <1>05, <2>1 DEF LineageOf
  <2> QED BY <1>0, <1>03, <2>2, <2>3 DEF LineageOf, Used, From
<1>5. CASE Download(d)
  <2>1. /\ UNCHANGED <<folder, state, anc, torn>> /\ pc'[d] \in {"idle", "backup"}
        /\ payload'[d] \in {None} \cup {m.content : m \in channel}
    BY <1>0, <1>5 DEF Download, Return, Goto
  <2> QED BY <1>0, <1>03, <1>04, <2>1 DEF LineageOf, Used, From
<1>6. CASE Backup(d)
  BY <1>0, <1>6 DEF Backup, LineageOf, Used, From
<1>7. CASE Overwrite(d)
  <2>1. CASE UNCHANGED <<folder, state, torn>> /\ Return(d)
    <3>1. anc' = anc /\ pc'[d] = "idle" /\ payload'[d] = None
      BY <1>0, <1>7, <2>1 DEF Overwrite, Return, Goto
    <3> QED BY <1>0, <1>03, <2>1, <3>1 DEF LineageOf, Used, From
  <2>2. CASE /\ folder' = [folder EXCEPT ![d] = payload[d]]
             /\ SetState(d, seen[d].number, payload[d]) /\ Goto(d, "save", mode[d], None, None)
    <3>1. /\ folder'[d] = payload[d] /\ state'[d].hash = payload[d] /\ anc' = anc
          /\ pc'[d] = "save" /\ payload'[d] = None
      BY <1>0, <1>7, <2>2 DEF Overwrite, SetState, Goto
    <3> QED BY <1>0, <1>03, <1>05, <3>1 DEF LineageOf, Used, From
  <2> QED BY <1>7, <2>1, <2>2 DEF Overwrite
<1>8. CASE StoreNew(d)
  <2>1. /\ UNCHANGED <<folder, state, anc, torn, sent, mode, seen, payload>> /\ pc'[d] = "send"
        /\ pc[d] = "scan"
    BY <1>0, <1>8 DEF StoreNew
  <2>2. number'[d] # 0
    <3>1. \A m \in channel : m.number + 1 # 0
      BY <1>0 DEF Versions
    <3>2. \E n \in {1} \cup {m.number + 1 : m \in channel} : number'[d] = n
      BY <1>0, <1>8 DEF StoreNew
    <3> QED BY <3>1, <3>2
  <2> QED BY <1>0, <2>1, <2>2 DEF LineageOf, Used, From, NumbersUnique
<1>9. ASSUME NEW answered \in BOOLEAN, Send(d, answered) PROVE LineageOf(d)'
  <2>1. UNCHANGED <<folder, state, anc, torn>> /\ pc[d] = "send"
    BY <1>9 DEF Send
  <2>2. \/ pc'[d] = "idle" /\ payload'[d] = None
        \/ pc'[d] = "prune" /\ UNCHANGED <<payload, number>>
    BY <1>0, <1>9 DEF Send, Return, Goto
  <2> QED BY <1>0, <1>03, <2>1, <2>2 DEF LineageOf, Used, From
<1>10. CASE Prune(d)
  <2>1. /\ state'[d].hash = payload[d] /\ folder' = folder /\ anc' = anc
        /\ pc'[d] = "save" /\ payload'[d] = None /\ pc[d] = "prune"
    BY <1>0, <1>10 DEF Prune, SetState, Goto
  <2> QED BY <1>0, <1>03, <2>1 DEF LineageOf, Used, From
<1>11. CASE PruneFails(d) \/ Save(d)
  <2>1. UNCHANGED <<folder, state, anc, torn>> /\ pc'[d] = "idle" /\ payload'[d] = None
    BY <1>0, <1>11 DEF PruneFails, Save, Return, Goto
  <2> QED BY <1>0, <1>03, <2>1 DEF LineageOf, Used, From
<1>12. CASE Abort(d) \/ Crash(d)
  <2>1. /\ anc' = anc /\ pc'[d] = "idle" /\ payload'[d] = None
        /\ ~torn'[d] => UNCHANGED <<folder[d], state[d]>> /\ ~torn[d]
    <3>1. CASE Abort(d)
      BY <1>0, <3>1 DEF Abort, Return, Goto
    <3>2. CASE Crash(d)
      <4>1. anc' = anc /\ pc'[d] = "idle" /\ payload'[d] = None
        BY <1>0, <3>2 DEF Crash, Return, Goto
      <4>2. torn'[d] = (torn[d] \/ pc[d] = "overwrite" \/ disk[d] # state[d])
        BY <1>0, <3>2 DEF Crash
      <4>3. state'[d] = disk[d] /\ (pc[d] # "overwrite" => folder' = folder)
        BY <1>0, <3>2 DEF Crash
      <4> QED BY <4>1, <4>2, <4>3
    <3> QED BY <1>12, <3>1, <3>2
  <2>2. folder'[d] \in {folder[d], Empty, Broken, payload[d]}
    BY <1>0, <1>12 DEF Abort, Crash, Halfway
  <2> QED BY <1>0, <1>03, <2>1, <2>2 DEF LineageOf, Used, From
<1>13. CASE Reload(d)
  <2>1. torn'[d] = TRUE /\ pc[d] = "idle" /\ UNCHANGED <<folder, pc, payload, anc>>
    BY <1>0, <1>13 DEF Reload
  <2> QED BY <1>0, <2>1 DEF LineageOf, Used, From
<1> QED BY <1>1, <1>2, <1>3, <1>4, <1>5, <1>6, <1>7, <1>8, <1>9, <1>10, <1>11, <1>12, <1>13
        DEF Own, Pull, Push, Command, Step, Trouble

\* Every step keeps it.
LEMMA LineageStep == Typed /\ SoundInv /\ LineageInv /\ [Next]_vars => LineageInv'
<1> SUFFICES ASSUME Typed, SoundInv, LineageInv, [Next]_vars PROVE LineageInv'
  OBVIOUS
<1>0. sent \subseteq sent' /\ TypeOK
  BY SentGrows DEF Typed
<1>1. ASSUME NEW d \in Devices PROVE LineageOf(d)'
  <2>1. SoundOf(d) /\ LineageOf(d)
    BY DEF SoundInv, LineageInv
  <2>2. CASE Local(d)' = Local(d)
    <3>1. /\ UNCHANGED <<folder[d], state[d], pc[d], mode[d], seen[d], number[d], payload[d], torn[d]>>
      BY <2>2 DEF Local
    <3>2. NumbersUnique' => NumbersUnique
      BY <1>0 DEF NumbersUnique
    <3>3. payload[d] \in Contents => anc'[payload[d]] = anc[payload[d]]
      BY <1>0, <2>1, AncStays DEF LineageOf, Used
    <3>4. folder[d] \in Contents => anc'[folder[d]] = anc[folder[d]]
      BY <1>0, <2>1, AncStays DEF LineageOf, Used
    <3> QED BY <2>1, <3>1, <3>2, <3>3, <3>4 DEF LineageOf, Used, From
  <2> QED BY <1>0, <2>1, <2>2, OwnKeepsLineage, OthersLeave
<1>2. ASSUME NEW m \in sent' PROVE Used(m.content)' /\ m.number # 0
  <2>1. CASE m \in sent
    BY <1>0, <2>1, LineageKept DEF LineageInv
  <2>2. CASE m \notin sent
    <3>1. PICK d \in Devices : \E answered \in BOOLEAN : Send(d, answered)
      <4>1. sent' # sent
        BY <2>2
      <4> QED BY <4>1 DEF Next, vars, store, Play, Pull, PullNewer, Push, PushSame, PushNew, Command,
              ResolveSame, ResolveLocal, ResolveRemote, Restore, Step, Download, Backup, Overwrite,
              StoreSame, StoreNew, Prune, Save, Trouble, PruneFails, Abort, Crash, Reload
    <3>2. m = [id |-> nextId, number |-> number[d], content |-> payload[d]] /\ pc[d] = "send"
      BY <2>2, <3>1 DEF Send
    <3>3. m.number = number[d] /\ m.content = payload[d]
      BY <3>2
    <3>4. Used(payload[d]) /\ number[d] # 0
      BY <3>2 DEF LineageInv, LineageOf
    <3> QED BY <1>0, <3>3, <3>4, LineageKept
  <2> QED BY <2>1, <2>2
<1> QED BY <1>1, <1>2 DEF LineageInv

\* Only one version is the latest.
LEMMA OneLatest ==
  ASSUME TypeOK, NEW v, NEW w, IsLatest(v, sent), IsLatest(w, sent) PROVE v = w
<1>1. v \in sent /\ w \in sent /\ (v = w \/ Above(v, w)) /\ (v = w \/ Above(w, v))
  BY DEF IsLatest
<1>2. v.number \in Nat /\ w.number \in Nat /\ v.id \in Nat /\ w.id \in Nat
  BY <1>1 DEF TypeOK, Versions
<1> QED BY <1>1, <1>2 DEF Above

\* ConflictProtection: a close sends a save only on top of the one it was played from.
THEOREM ConflictsAlwaysSeen == Spec => ConflictProtection
<1>1. Init => LineageInv
  BY Distinct DEF Init, LineageInv, LineageOf, Used, Unsynced
<1>2. Spec => []LineageInv
  <2>1. Inv /\ LineageInv /\ [Next]_vars => LineageInv'
    BY LineageStep DEF Inv
  <2> QED BY <1>1, <2>1, Invariance, PTL DEF Spec
<1>3. ASSUME Inv, LineageInv, NEW d \in Devices, pc[d] = "send", mode[d] = "push",
             payload[d] \in Contents, ~Raced(d), NumbersUnique, ~torn[d]
      PROVE  Builds(payload[d])
  <2> SUFFICES ASSUME NEW v \in sent, IsLatest(v, sent), v.content \in Contents
               PROVE  v.content \in anc[payload[d]]
    BY DEF Builds
  <2>1. seen[d] # None /\ IsLatest(seen[d], sent)
    BY <1>3 DEF Raced
  <2>2. v = seen[d]
    BY <1>3, <2>1, OneLatest DEF Inv, Typed
  <2> QED BY <1>3, <2>1, <2>2 DEF LineageInv, LineageOf
<1>4. Inv /\ LineageInv /\ [Next]_vars =>
        [\A d \in Devices :
           (/\ Sends(d) /\ mode[d] = "push" /\ payload[d] \in Contents
            /\ ~Raced(d) /\ NumbersUnique /\ ~torn[d]) => Builds(payload[d])]_vars
  BY <1>3 DEF Sends
<1> QED BY <1>2, <1>4, Invariance, PTL DEF Spec, ConflictProtection

-----------------------------------------------------------------------------
(* The channel is a history of versions. *)

IdsBelow == IsFiniteSet(sent) /\ \A m \in sent : m.id < nextId

\* A step sends a version, deletes versions a prune has doomed, or leaves the channel alone.
Sending(m) ==
  /\ m \in Versions /\ m.id = nextId /\ nextId' = nextId + 1
  /\ channel' = channel \cup {m} /\ sent' = sent \cup {m}
Deleting ==
  /\ channel' \subseteq channel /\ channel \ channel' \subseteq Doomed(channel)
  /\ UNCHANGED <<sent, nextId>>

LEMMA ChannelSteps ==
  ASSUME Typed, [Next]_vars
  PROVE  (\E m : Sending(m)) \/ Deleting
<1> USE DEF store
<1>1. CASE UNCHANGED vars
  BY <1>1 DEF vars, Deleting
<1>2. ASSUME NEW d \in Devices, Own(d) PROVE (\E m : Sending(m)) \/ Deleting
  <2>1. CASE \E answered \in BOOLEAN : Send(d, answered)
    <3> DEFINE m == [id |-> nextId, number |-> number[d], content |-> payload[d]]
    <3>1. m \in Versions
      BY <2>1 DEF Typed, TypeOK, WorkInv, WorkOf, Send, Versions
    <3>2. Sending(m)
      BY <2>1, <3>1 DEF Send, Sending
    <3> QED BY <3>2
  <2>2. CASE Prune(d) \/ PruneFails(d)
    BY <2>2 DEF Prune, PruneFails, Deleting, Doomed
  <2>3. CASE UNCHANGED store
    BY <2>3 DEF Deleting
  <2> QED BY <1>2, <2>1, <2>2, <2>3 DEF Own, Play, Pull, PullNewer, Push, PushSame, PushNew,
        Command, ResolveSame, ResolveLocal, ResolveRemote, Restore, Step, Download, Backup,
        Overwrite, StoreSame, StoreNew, Save, Trouble, Abort, Crash, Reload
<1> QED BY <1>1, <1>2 DEF Next, Own

LEMMA IdsStep == Typed /\ IdsBelow /\ [Next]_vars => IdsBelow'
<1> SUFFICES ASSUME Typed, IdsBelow, [Next]_vars PROVE IdsBelow'
  OBVIOUS
<1>1. ASSUME NEW m, Sending(m) PROVE IdsBelow'
  <2>1. IsFiniteSet(sent \cup {m})
    BY FS_AddElement DEF IdsBelow
  <2>2. nextId \in Nat /\ \A o \in sent : o.id \in Nat /\ o.id < nextId
    BY DEF Typed, TypeOK, Versions, IdsBelow
  <2>3. \A o \in sent' : o.id < nextId'
    BY <1>1, <2>2 DEF Sending
  <2> QED BY <1>1, <2>1, <2>3 DEF Sending, IdsBelow
<1>2. CASE Deleting
  BY <1>2 DEF Deleting, IdsBelow
<1> QED BY <1>1, <1>2, ChannelSteps

\* What a prune dooms among the versions that are left was outranked among all.
LEMMA DoomedIsOutlived ==
  ASSUME Typed, IdsBelow, NEW m \in Doomed(channel)
  PROVE  Cardinality({o \in sent : History!Ranks(o, m)}) >= Keep
<1>1. Better(m, channel) \in SUBSET Better(m, sent)
  BY DEF Typed, TypeOK, Better
<1>2. IsFiniteSet(Better(m, sent))
  BY FS_Subset DEF Better, IdsBelow
<1>3. /\ Cardinality(Better(m, channel)) <= Cardinality(Better(m, sent))
      /\ Cardinality(Better(m, channel)) \in Nat /\ Cardinality(Better(m, sent)) \in Nat
  BY <1>1, <1>2, FS_Subset, FS_CardinalityType
<1>4. Cardinality(Better(m, channel)) >= Keep /\ Keep \in Nat
  BY DEF Doomed, Keep
<1>5. {o \in sent : History!Ranks(o, m)} = Better(m, sent)
  BY DEF Better, Above, History!Ranks
<1> QED BY <1>3, <1>4, <1>5

LEMMA StepsOfHistory ==
  Typed /\ IdsBelow /\ [Next]_vars => [History!Change]_<<channel, sent>>
<1> SUFFICES ASSUME Typed, IdsBelow, [Next]_vars PROVE [History!Change]_<<channel, sent>>
  OBVIOUS
<1>1. ASSUME NEW m, Sending(m) PROVE History!Change
  <2>1. \A o \in sent : o.id < m.id
    BY <1>1 DEF Sending, IdsBelow
  <2>2. m \notin sent
    BY <1>1, <2>1 DEF Sending, Typed, TypeOK
  <2>3. History!Store(m)
    BY <1>1, <2>1 DEF Sending, History!Store
  <2> QED BY <1>1, <2>2, <2>3 DEF Sending, History!Change
<1>2. ASSUME Deleting PROVE History!Forget(channel \ channel')
  <2>1. ASSUME NEW m \in channel \ channel'
        PROVE  \E k \in {Keep} : History!Cardinality({o \in sent : History!Ranks(o, m)}) >= k
    <3>1. Cardinality({o \in sent : History!Ranks(o, m)}) >= Keep
      BY <1>2, DoomedIsOutlived DEF Deleting
    <3> QED BY <3>1 DEF History!Cardinality, Cardinality
  <2>2. channel' = channel \ (channel \ channel') /\ UNCHANGED sent
    BY <1>2 DEF Deleting
  <2> QED BY <2>1, <2>2 DEF History!Forget
<1> QED BY <1>1, <1>2, ChannelSteps DEF History!Change

\* Whatever fails, whoever pushes: a version is only forgotten when max_versions better
\* ones were stored.
THEOREM EngineKeepsHistory == Spec => ImplementsHistory
<1>1. Init => History!Init
  BY DEF Init, History!Init
<1>2. Init => IdsBelow
  BY FS_EmptySet DEF Init, IdsBelow
<1>3. Inv => Typed
  BY DEF Inv
<1> QED BY <1>1, <1>2, <1>3, IdsStep, StepsOfHistory, Invariance, PTL DEF Spec, ImplementsHistory

\* And so the engine implements SaveHistory, as Vault does.
THEOREM EngineImplementsHistory == Spec => History!Spec
<1>1. Init => History!Init
  BY DEF Init, History!Init
<1>2. Init => IdsBelow
  BY FS_EmptySet DEF Init, IdsBelow
<1>3. TypeOK /\ TypeOK' /\ [History!Change]_<<channel, sent>>
        => [History!Next]_<<channel, sent>>
  <2> SUFFICES ASSUME TypeOK, TypeOK', History!Change PROVE History!Next
    OBVIOUS
  <2>1. ASSUME NEW m \in sent' \ sent, History!Store(m) PROVE History!Next
    <3>1. m = [id |-> m.id, number |-> m.number, content |-> m.content]
          /\ m.id \in Nat /\ m.number \in Nat /\ m.content \in Saves
      BY DEF TypeOK, Versions
    <3>2. \E i, n \in Nat, c \in Saves :
            History!Store([id |-> i, number |-> n, content |-> c])
      BY <2>1, <3>1
    <3> QED BY <3>2 DEF History!Next
  <2>2. channel \ channel' \in SUBSET channel
    OBVIOUS
  <2> QED BY <2>1, <2>2 DEF History!Change, History!Next
<1>4. Inv => Typed /\ TypeOK
  BY DEF Inv, Typed
<1> QED BY <1>1, <1>2, <1>3, <1>4, IdsStep, StepsOfHistory, Invariance, PTL DEF Spec, History!Spec

\* The best version ever sent is in the channel, so that latest_version finds it.
BestKept == sent # {} => \E m \in channel : IsLatest(m, sent)

LEMMA BestStep == Typed /\ IdsBelow /\ BestKept /\ [Next]_vars => BestKept'
<1> SUFFICES ASSUME Typed, IdsBelow, BestKept, [Next]_vars PROVE BestKept'
  OBVIOUS
<1>0. \A o \in sent : o.id \in Nat /\ o.number \in Nat /\ o.id < nextId
  BY DEF Typed, TypeOK, Versions, IdsBelow
<1>1. ASSUME NEW m, Sending(m) PROVE BestKept'
  <2>0. m.id \in Nat /\ m.number \in Nat /\ \A o \in sent : o.id < m.id
    BY <1>0, <1>1 DEF Sending, Versions
  <2>1. CASE sent = {}
    <3>1. sent' = {m} /\ m \in channel'
      BY <1>1, <2>1 DEF Sending
    <3>2. IsLatest(m, sent')
      BY <3>1 DEF IsLatest
    <3> QED BY <3>1, <3>2 DEF BestKept
  <2>2. CASE sent # {}
    <3>1. PICK b \in channel : IsLatest(b, sent)
      BY <2>2 DEF BestKept
    <3>2. b \in sent /\ \A o \in sent : o = b \/ Above(b, o)
      BY <3>1 DEF IsLatest
    <3>3. CASE m.number > b.number
      <4>1. \A o \in sent : Above(m, o)
        BY <1>0, <2>0, <3>2, <3>3 DEF Above
      <4>2. IsLatest(m, sent') /\ m \in channel'
        BY <1>1, <4>1 DEF IsLatest, Sending
      <4> QED BY <4>2 DEF BestKept
    <3>4. CASE ~(m.number > b.number)
      <4>1. Above(b, m)
        BY <1>0, <2>0, <3>2, <3>4 DEF Above
      <4>2. IsLatest(b, sent') /\ b \in channel'
        BY <1>1, <3>2, <4>1 DEF IsLatest, Sending
      <4> QED BY <4>2 DEF BestKept
    <3> QED BY <3>3, <3>4
  <2> QED BY <2>1, <2>2
<1>2. CASE Deleting
  <2>1. ASSUME NEW b \in channel, IsLatest(b, sent) PROVE b \in channel'
    <3>1. b \in sent /\ \A o \in sent : o = b \/ Above(b, o)
      BY <2>1 DEF IsLatest
    <3>2. Better(b, sent) = {}
      BY <1>0, <3>1 DEF Better, Above
    <3>3. Better(b, channel) = {}
      BY <3>2 DEF Typed, TypeOK, Better
    <3>4. Cardinality(Better(b, channel)) = 0
      BY <3>3, FS_EmptySet
    <3>5. Keep \in Nat /\ Keep >= 1
      BY DEF Keep
    <3>6. b \notin Doomed(channel)
      BY <3>4, <3>5 DEF Doomed
    <3> QED BY <1>2, <3>6 DEF Deleting
  <2>2. sent' = sent
    BY <1>2 DEF Deleting
  <2> QED BY <2>1, <2>2 DEF BestKept
<1> QED BY <1>1, <1>2, ChannelSteps

\* However pushes, prunes and failures interleave, the best save stays in the vault.
THEOREM EngineKeepsBest == Spec => []BestKept
<1>1. Init => IdsBelow /\ BestKept
  BY FS_EmptySet DEF Init, IdsBelow, BestKept
<1>2. Inv => Typed
  BY DEF Inv
<1> QED BY <1>1, <1>2, IdsStep, BestStep, Invariance, PTL DEF Spec
=============================================================================
