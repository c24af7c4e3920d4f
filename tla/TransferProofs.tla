---------------------------- MODULE TransferProofs ----------------------------
(* Proofs about Transfer, for any files, data, retries and bounds: its types, that no
   version repeats the one before, that an overwrite's backup and a pull's check
   cover every file the app destroys, and that the synced state is a stored version. *)
EXTENDS Transfer, SequenceTheorems, TLAPS

USE TransferAssumption

\* What a pack is, and what changing one file makes of it.
LEMMA PackIs ==
  ASSUME NEW p PROVE p \in Packs <=> \E S \in SUBSET Files : p \in [S -> Data]
BY DEF Packs

LEMMA EmptyIsPack == Empty \in Packs /\ DOMAIN Empty = {}
<1>1. Empty \in [{} -> Data] /\ {} \in SUBSET Files
  BY DEF Empty
<1> QED BY <1>1, PackIs

LEMMA PackParts ==
  ASSUME NEW p \in Packs
  PROVE  DOMAIN p \in SUBSET Files /\ p \in [DOMAIN p -> Data] /\ \A f \in DOMAIN p : p[f] \in Data
BY PackIs

LEMMA SamePack ==
  ASSUME NEW p \in Packs, NEW q \in Packs, DOMAIN p = DOMAIN q, \A f \in DOMAIN p : p[f] = q[f]
  PROVE  p = q
<1>1. p \in [DOMAIN p -> Data] /\ q \in [DOMAIN p -> Data]
  BY PackParts
<1> QED BY <1>1

LEMMA WithIs ==
  ASSUME NEW p \in Packs, NEW f \in Files, NEW d \in Data
  PROVE  /\ With(p, f, d) \in Packs /\ DOMAIN With(p, f, d) = DOMAIN p \union {f}
         /\ With(p, f, d)[f] = d
         /\ \A g \in DOMAIN p \ {f} : With(p, f, d)[g] = p[g]
<1>1. DOMAIN p \in SUBSET Files /\ \A g \in DOMAIN p : p[g] \in Data
  BY PackParts
<1>2. With(p, f, d) \in [DOMAIN p \union {f} -> Data] /\ (DOMAIN p \union {f}) \in SUBSET Files
  BY <1>1 DEF With
<1>3. With(p, f, d) \in Packs
  BY <1>2, PackIs
<1> QED BY <1>3 DEF With

LEMMA WithoutIs ==
  ASSUME NEW p \in Packs, NEW f
  PROVE  /\ Without(p, f) \in Packs /\ DOMAIN Without(p, f) = DOMAIN p \ {f}
         /\ \A g \in DOMAIN p \ {f} : Without(p, f)[g] = p[g]
<1>1. DOMAIN p \in SUBSET Files /\ \A g \in DOMAIN p : p[g] \in Data
  BY PackParts
<1>2. Without(p, f) \in [DOMAIN p \ {f} -> Data] /\ (DOMAIN p \ {f}) \in SUBSET Files
  BY <1>1 DEF Without
<1>3. Without(p, f) \in Packs
  BY <1>2, PackIs
<1> QED BY <1>3 DEF Without

\* One more version in the channel.
LEMMA OneMore ==
  ASSUME NEW s \in Seq(Packs), NEW p \in Packs
  PROVE  /\ Append(s, p) \in Seq(Packs) /\ Len(Append(s, p)) = Len(s) + 1 /\ Len(s) \in Nat
         /\ Append(s, p)[Len(s) + 1] = p /\ \A i \in 1..Len(s) : Append(s, p)[i] = s[i]
BY AppendProperties, LenProperties

-----------------------------------------------------------------------------
(* Types. *)

\* What a phase takes for granted: there is room for what is posted, which does not repeat the
\* latest version, and the version to overwrite the folder with is there.
WorkInv ==
  /\ pc = "idle" => goal = "none"
  /\ pc = "post" => Latest < MaxVersions /\ (Latest > 0 => stored[Latest] # pack)
  /\ pc = "download" \/ pc \in {"clear", "unpack"} \/ goal \in {"dirty", "synced"} => version > 0
  /\ goal = "backup" /\ mode # "snapshot" => version > 0
  /\ state.hash # None => state.last > 0
  /\ pc = "unpack" => todo \subseteq DOMAIN payload

Typed == TypeOK /\ WorkInv

LEMMA InitTyped == Init => Typed
<1> SUFFICES ASSUME Init PROVE Typed
  OBVIOUS
<1>1. stored \in Seq(Packs) /\ Latest = 0
  BY DEF Init, Latest
<1> QED BY <1>1, EmptyIsPack DEF Init, Typed, TypeOK, WorkInv, Phases, Modes, Goals

\* The next phase, the listing of a folder, and the end of an operation have their types.
LEMMA Kinds ==
  /\ Phases = {"idle", "read", "clear", "unpack", "ask", "download", "post"}
  /\ Modes = {"push", "pull", "local", "take", "snapshot", "none"}
  /\ Goals = {"push", "dirty", "backup", "synced", "none"}
  /\ Requests = {"ask", "download", "post"}
BY DEF Phases, Modes, Goals, Requests

\* An operation that ends leaves the rest as it is, or moves the state to a version.
LEMMA ReturnTyped ==
  ASSUME Typed, Return, folder' = folder, writes' = writes,
         stored' = stored \/ (Latest < MaxVersions /\ \E p \in Packs : stored' = Append(stored, p)),
         state' = state \/ \E n \in 1..Len(stored') : \E p \in Packs : Synced(n, p)
  PROVE  Typed'
<1> USE DEF Typed, TypeOK, Latest
<1>1. stored' \in Seq(Packs) /\ Len(stored') <= MaxVersions /\ Len(stored') >= Len(stored)
      /\ Len(stored) \in Nat /\ Len(stored') \in Nat
  BY OneMore
<1>2. /\ state'.last \in 0..Len(stored') /\ state'.hash \in {None} \union Packs
      /\ state'.hash # None => state'.last > 0
  <2>1. CASE state' = state
    BY <1>1, <2>1 DEF WorkInv
  <2>2. CASE \E n \in 1..Len(stored') : \E p \in Packs : Synced(n, p)
    BY <1>1, <2>2 DEF Synced
  <2> QED BY <2>1, <2>2
<1>3. /\ pc' = "idle" /\ attempts' = 0 /\ mode' = "none" /\ goal' = "none" /\ todo' = {}
      /\ pack' = Empty /\ version' = 0 /\ payload' = Empty /\ backup' = None
      /\ touched' = [f \in Files |-> "no"]
  BY DEF Return, Goto
<1>4. TypeOK'
  BY <1>1, <1>2, <1>3, EmptyIsPack, Kinds
<1> QED BY <1>2, <1>3, <1>4 DEF WorkInv

\* The steps of the engine that stay within an operation keep the types, if they do.
LEMMA OnTyped ==
  ASSUME Typed, folder' \in Packs, UNCHANGED <<stored, state, writes>>,
         pc' \in Phases \ {"idle"}, mode' \in Modes, goal' \in Goals, todo' \in SUBSET Files,
         pack' \in Packs, version' \in 0..Latest, payload' \in Packs,
         backup' \in {None} \union Packs, attempts' \in 0..MaxRetries,
         touched' \in [Files -> {"no", "check", "backup"}], WorkInv'
  PROVE  Typed'
BY DEF Typed, TypeOK, Latest

\* Every step keeps the types.
LEMMA StepTyped == Typed /\ [Next]_vars => Typed'
<1> SUFFICES ASSUME Typed, [Next]_vars PROVE Typed'
  OBVIOUS
<1>0. /\ TypeOK /\ WorkInv /\ folder \in Packs /\ stored \in Seq(Packs) /\ Latest <= MaxVersions
      /\ state.last \in 0..Latest /\ state.hash \in {None} \union Packs
      /\ pc \in Phases /\ mode \in Modes /\ goal \in Goals /\ todo \in SUBSET Files /\ pack \in Packs
      /\ version \in 0..Latest /\ payload \in Packs /\ backup \in {None} \union Packs
      /\ attempts \in 0..MaxRetries /\ touched \in [Files -> {"no", "check", "backup"}]
      /\ writes \in 0..MaxWrites /\ Latest \in Nat /\ MaxRetries \in Nat
      /\ MaxVersions \in Nat /\ MaxWrites \in Nat
  BY LenProperties DEF Typed, TypeOK, Latest
<1>01. /\ DOMAIN folder \in SUBSET Files /\ \A f \in DOMAIN folder : folder[f] \in Data
       /\ DOMAIN payload \in SUBSET Files /\ \A f \in DOMAIN payload : payload[f] \in Data
  BY <1>0, PackParts
<1>02. \A i \in 1..Latest : stored[i] \in Packs
  BY <1>0, ElementOfSeq DEF Latest
<1>03. [f \in Files |-> "no"] \in [Files -> {"no", "check", "backup"}] /\ 0 \in 0..MaxRetries
  BY <1>0
<1> USE DEF Goto, List, Fixed, Packed
<1>1. ASSUME NEW f \in Files, NEW new \in Packs, Game(f, new) PROVE Typed'
  <2>1. touched' \in [Files -> {"no", "check", "backup"}] /\ writes' \in 0..MaxWrites
    BY <1>0, <1>1 DEF Game, Stage
  <2>2. TypeOK'
    BY <1>0, <1>1, <2>1 DEF Game, app, TypeOK, Latest
  <2> QED BY <1>0, <1>1, <2>2 DEF Game, app, Typed, WorkInv, Latest
<1>2. ASSUME NEW f \in Files, Delete(f) PROVE Typed'
  BY <1>0, <1>1, <1>2, WithoutIs DEF Delete
<1>3. ASSUME NEW f \in Files, NEW d \in Data, Write(f, d) PROVE Typed'
  BY <1>0, <1>1, <1>3, WithIs DEF Write
<1>4. ASSUME NEW p \in Sent, Teammate(p) PROVE Typed'
  <2>1. p \in Packs /\ stored' = Append(stored, p) /\ Latest < MaxVersions
        /\ UNCHANGED <<folder, app, history>> /\ pc # "post"
    BY <1>4 DEF Teammate, Packs
  <2>2. stored' \in Seq(Packs) /\ Len(stored') = Latest + 1
    BY <1>0, <2>1, OneMore DEF Latest
  <2>3. TypeOK'
    BY <1>0, <2>1, <2>2 DEF TypeOK, app, history, Latest
  <2> QED BY <1>0, <2>1, <2>3 DEF Typed, WorkInv, app
<1>5. ASSUME NEW f \in Files, Read(f) PROVE Typed'
  <2>1. pack' \in Packs
    BY <1>0, <1>01, <1>5, WithIs DEF Read
  <2>2. todo' \in SUBSET Files /\ touched' \in [Files -> {"no", "check", "backup"}]
        /\ attempts' = attempts /\ pc' = "read" /\ goal' = goal
        /\ UNCHANGED <<folder, stored, state, mode, version, payload, backup, writes>>
    BY <1>0, <1>5 DEF Read
  <2>3. WorkInv'
    BY <1>0, <2>2 DEF WorkInv
  <2> QED BY <1>0, <2>1, <2>2, <2>3, Kinds, OnTyped
<1>6. CASE StartSnapshot
  <2>1. WorkInv'
    BY <1>0, <1>6 DEF StartSnapshot, WorkInv
  <2> QED BY <1>0, <1>01, <1>03, <1>6, <2>1, EmptyIsPack, Kinds, OnTyped DEF StartSnapshot, history
<1>7. ASSUME NEW m \in Modes \ {"none", "snapshot"}, Start(m) PROVE Typed'
  <2>1. WorkInv'
    BY <1>0, <1>7 DEF Start, WorkInv
  <2>2. /\ folder' \in Packs /\ UNCHANGED <<stored, state, version, payload, backup, touched, writes>>
        /\ mode' = m /\ attempts' = 0
    BY <1>0, <1>7 DEF Start, history
  <2>3. pc' \in {"read", "ask"} /\ goal' \in {goal, "push"} /\ todo' \in {todo, DOMAIN folder}
        /\ pack' \in {pack, Empty}
    BY <1>7 DEF Start
  <2> QED BY <1>0, <1>01, <1>03, <2>1, <2>2, <2>3, EmptyIsPack, Kinds, OnTyped
<1>8. CASE PackedPush
  <2>1. WorkInv'
    BY <1>0, <1>8 DEF PackedPush, WorkInv
  <2> QED BY <1>0, <1>03, <1>8, <2>1, Kinds, OnTyped DEF PackedPush
<1>9. CASE AskedPush
  <2>1. CASE Latest > 0 /\ Synced(Latest, pack) /\ Return
    <3>1. Latest \in 1..Len(stored') /\ stored' = stored
      BY <1>0, <1>9, <2>1 DEF AskedPush, Latest
    <3> QED BY <1>0, <1>9, <2>1, <3>1, ReturnTyped DEF AskedPush
  <2>2. CASE /\ (Latest > 0 => stored[Latest] # pack) /\ Latest < MaxVersions
             /\ Goto("post") /\ UNCHANGED <<state, mode, goal, todo, pack, version, payload,
                                            backup, touched>>
    <3>1. WorkInv'
      BY <1>0, <1>9, <2>2 DEF AskedPush, WorkInv, Latest
    <3> QED BY <1>0, <1>03, <1>9, <2>2, <3>1, Kinds, OnTyped DEF AskedPush
  <2>3. CASE Return /\ UNCHANGED state
    BY <1>9, <2>3, ReturnTyped DEF AskedPush
  <2> QED BY <1>9, <2>1, <2>2, <2>3 DEF AskedPush
<1>10. CASE Asked
  <2>1. CASE Return /\ UNCHANGED <<state, writes>>
    BY <1>10, <2>1, ReturnTyped DEF Asked
  <2>2. CASE /\ Latest > 0 /\ version' = Latest
             /\ IF folder = Empty THEN Goto("download") /\ UNCHANGED <<goal, todo, pack>> ELSE List("dirty")
             /\ touched' = [f \in Files |-> "no"]
             /\ UNCHANGED <<state, mode, payload, backup, writes>>
    <3>1. /\ pc' \in {"download", "read"} /\ goal' \in {goal, "dirty"} /\ todo' \in {todo, DOMAIN folder}
          /\ pack' \in {pack, Empty} /\ attempts' = 0 /\ version' \in 0..Latest /\ version' > 0
          /\ UNCHANGED <<folder, stored>>
      BY <1>0, <1>10, <2>2 DEF Asked
    <3>2. WorkInv'
      BY <1>0, <2>2, <3>1 DEF WorkInv
    <3> QED BY <1>0, <1>01, <1>03, <2>2, <3>1, <3>2, EmptyIsPack, Kinds, OnTyped
  <2>3. CASE /\ version' \in 1..Latest /\ Goto("download")
             /\ UNCHANGED <<state, mode, goal, todo, pack, payload, backup, history>>
    <3>1. version' \in 0..Latest /\ version' > 0 /\ UNCHANGED <<folder, stored>>
      BY <1>0, <1>10, <2>3 DEF Asked
    <3>2. WorkInv'
      BY <1>0, <2>3, <3>1 DEF WorkInv
    <3> QED BY <1>0, <1>03, <2>3, <3>1, <3>2, Kinds, OnTyped DEF history
  <2> QED BY <1>10, <2>1, <2>2, <2>3 DEF Asked
<1>11. CASE PackedDirty
  <2>1. CASE Return /\ UNCHANGED <<state, writes>>
    BY <1>11, <2>1, ReturnTyped DEF PackedDirty
  <2>2. CASE Goto("download") /\ UNCHANGED <<goal, todo, pack, touched>> /\ Fixed
    <3>1. WorkInv'
      BY <1>0, <1>11, <2>2 DEF PackedDirty, WorkInv
    <3> QED BY <1>0, <1>03, <1>11, <2>2, <3>1, Kinds, OnTyped DEF PackedDirty
  <2> QED BY <1>11, <2>1, <2>2 DEF PackedDirty
<1>12. CASE Downloaded
  <2>1. version \in 1..Latest
    BY <1>0, <1>12 DEF Downloaded, WorkInv
  <2>2. payload' \in Packs
    BY <1>02, <1>12, <2>1 DEF Downloaded
  <2>3. WorkInv'
    BY <1>0, <1>12, <2>1 DEF Downloaded, WorkInv
  <2> QED BY <1>0, <1>01, <1>03, <1>12, <2>2, <2>3, EmptyIsPack, Kinds, OnTyped DEF Downloaded, history
<1>13. CASE PackedBackup
  <2>1. WorkInv'
    BY <1>0, <1>13 DEF PackedBackup, WorkInv
  <2> QED BY <1>0, <1>01, <1>03, <1>13, <2>1, EmptyIsPack, Kinds, OnTyped DEF PackedBackup, history
<1>14. CASE PackedSnapshot
  BY <1>14, ReturnTyped DEF PackedSnapshot
<1>15. ASSUME NEW f \in Files, Clear(f) PROVE Typed'
  <2>1. folder' \in Packs
    BY <1>0, <1>15, WithoutIs DEF Clear
  <2>2. todo' \in SUBSET Files /\ pc' = "clear"
        /\ UNCHANGED <<stored, state, goal, pack, attempts, touched, mode, version, payload, backup, writes>>
    BY <1>0, <1>15 DEF Clear
  <2>3. WorkInv'
    BY <1>0, <1>15, <2>2 DEF Clear, WorkInv
  <2> QED BY <1>0, <2>1, <2>2, <2>3, Kinds, OnTyped
<1>16. CASE Cleared
  <2>1. WorkInv'
    BY <1>0, <1>16 DEF Cleared, WorkInv
  <2> QED BY <1>0, <1>01, <1>03, <1>16, <2>1, Kinds, OnTyped DEF Cleared
<1>17. ASSUME NEW f \in Files, Unpack(f) PROVE Typed'
  <2>0. f \in DOMAIN payload
    BY <1>0, <1>17 DEF Unpack, WorkInv
  <2>1. folder' \in Packs
    BY <1>0, <1>01, <1>17, <2>0, WithIs DEF Unpack
  <2>2. todo' \in SUBSET Files /\ pc' = "unpack"
        /\ UNCHANGED <<stored, state, goal, pack, attempts, touched, mode, version, payload, backup, writes>>
    BY <1>0, <1>17 DEF Unpack
  <2>3. WorkInv'
    BY <1>0, <1>17, <2>2 DEF Unpack, WorkInv
  <2> QED BY <1>0, <2>1, <2>2, <2>3, Kinds, OnTyped
<1>18. CASE Unpacked
  <2>1. WorkInv'
    BY <1>0, <1>18 DEF Unpacked, WorkInv
  <2> QED BY <1>0, <1>01, <1>03, <1>18, <2>1, EmptyIsPack, Kinds, OnTyped DEF Unpacked, history
<1>19. CASE PackedSynced
  <2>1. version \in 1..Len(stored') /\ stored' = stored
    BY <1>0, <1>19 DEF PackedSynced, WorkInv, Latest
  <2> QED BY <1>0, <1>19, <2>1, ReturnTyped DEF PackedSynced
<1>20. CASE Posted
  <2>1. Latest < MaxVersions /\ stored' = Append(stored, pack)
    BY <1>0, <1>20 DEF Posted, WorkInv
  <2>2. Latest + 1 \in 1..Len(stored')
    BY <1>0, <2>1, OneMore DEF Latest
  <2> QED BY <1>0, <1>20, <2>1, <2>2, ReturnTyped DEF Posted
<1>21. CASE Again
  <2>1. attempts' \in 0..MaxRetries /\ pc \in Requests
    BY <1>0, <1>21 DEF Again
  <2>2. WorkInv'
    BY <1>0, <1>21 DEF Again, WorkInv, Latest
  <2>3. pc' \in Phases \ {"idle"}
    BY <1>21, <2>1, Kinds DEF Again
  <2>4. UNCHANGED <<folder, stored, state, mode, goal, todo, pack, version, payload, backup, history>>
    BY <1>21 DEF Again
  <2> QED BY <1>0, <2>1, <2>2, <2>3, <2>4, OnTyped DEF history
<1>22. CASE Unanswered
  <2>1. stored' = stored \/ (pc = "post" /\ stored' = Append(stored, pack))
    BY <1>22 DEF Unanswered
  <2> QED BY <1>0, <1>22, <2>1, ReturnTyped DEF Unanswered, Quit, WorkInv
<1>23. CASE Io
  BY <1>23, ReturnTyped DEF Io, Quit
<1>24. CASE UNCHANGED vars
  BY <1>0, <1>24 DEF vars, app, history, Typed, TypeOK, WorkInv, Latest
<1> QED BY <1>2, <1>3, <1>4, <1>5, <1>6, <1>7, <1>8, <1>9, <1>10, <1>11, <1>12, <1>13, <1>14, <1>15,
           <1>16, <1>17, <1>18, <1>19, <1>20, <1>21, <1>22, <1>23, <1>24
        DEF Next, Operate, Fails, Around

\* The types of the state; a request is tried at most once more than MaxRetries.
THEOREM TypeCorrect == Spec => []TypeOK
<1>1. Typed => TypeOK
  BY DEF Typed
<1> QED BY <1>1, InitTyped, StepTyped, PTL DEF Spec

-----------------------------------------------------------------------------
(* What is posted. *)

\* A step leaves the channel as it is or adds a version that is not the latest one.
LEMMA ChannelStep ==
  ASSUME Typed, [Next]_vars
  PROVE  \/ stored' = stored
         \/ \E p \in Packs : (Latest > 0 => stored[Latest] # p) /\ stored' = Append(stored, p)
<1> USE DEF Typed, TypeOK
<1>1. ASSUME NEW p \in Sent, Teammate(p) PROVE p \in Packs /\ (Latest > 0 => stored[Latest] # p)
                                               /\ stored' = Append(stored, p)
  BY <1>1 DEF Teammate, Packs
<1>2. CASE Posted \/ Unanswered
  <2>1. stored' = stored \/ (pc = "post" /\ stored' = Append(stored, pack))
    BY <1>2 DEF Posted, Unanswered
  <2> QED BY <2>1 DEF WorkInv
<1> QED BY <1>1, <1>2 DEF Next, Operate, Fails, Around, PackedPush, AskedPush, Asked, PackedDirty,
        Downloaded, PackedBackup, PackedSnapshot, Cleared, Unpacked, PackedSynced, Read, Clear,
        Unpack, Again, Io, Delete, Write, Game, Start, StartSnapshot, vars

\* What the channel had it has.
LEMMA ChannelGrows ==
  ASSUME Typed, [Next]_vars
  PROVE  /\ Latest \in Nat /\ Latest' \in Nat /\ Latest' >= Latest
         /\ \A i \in 1..Latest : stored'[i] = stored[i]
<1>1. stored \in Seq(Packs)
  BY DEF Typed, TypeOK
<1> QED BY <1>1, ChannelStep, OneMore, LenProperties DEF Latest

LEMMA NoRepeatsStep == Typed /\ NoRepeats /\ [Next]_vars => NoRepeats'
<1> SUFFICES ASSUME Typed, NoRepeats, [Next]_vars, NEW i \in 2..Latest'
             PROVE  stored'[i] # stored'[i - 1]
  BY DEF NoRepeats
<1>0. stored \in Seq(Packs) /\ Latest \in Nat
  BY LenProperties DEF Typed, TypeOK, Latest
<1>1. CASE stored' = stored
  BY <1>1 DEF NoRepeats, Latest
<1>2. ASSUME NEW p \in Packs, Latest > 0 => stored[Latest] # p, stored' = Append(stored, p)
      PROVE  stored'[i] # stored'[i - 1]
  <2>1. /\ Latest' = Latest + 1 /\ stored'[Latest + 1] = p
        /\ \A j \in 1..Latest : stored'[j] = stored[j]
    BY <1>0, <1>2, OneMore DEF Latest
  <2>2. CASE i = Latest + 1
    <3>1. i - 1 = Latest /\ Latest > 0 /\ Latest \in 1..Latest
      BY <1>0, <2>2
    <3> QED BY <1>2, <2>1, <2>2, <3>1
  <2>3. CASE i # Latest + 1
    <3>1. i \in 2..Latest /\ i \in 1..Latest /\ i - 1 \in 1..Latest
      BY <1>0, <2>1, <2>3
    <3> QED BY <2>1, <3>1 DEF NoRepeats
  <2> QED BY <2>2, <2>3
<1> QED BY <1>1, <1>2, ChannelStep

\* NoRepeats: no version repeats the one before it.
THEOREM NeverRepeats == Spec => []NoRepeats
<1>1. Init => NoRepeats
  BY DEF Init, NoRepeats, Latest
<1>2. Spec => []Typed
  BY InitTyped, StepTyped, PTL DEF Spec
<1> QED BY <1>1, <1>2, NoRepeatsStep, PTL DEF Spec

-----------------------------------------------------------------------------
(* What an overwrite destroys. *)

Late(f) == touched[f] = "backup"
InPack(f) == f \in DOMAIN pack /\ pack[f] = folder[f]
InSome(f) == \E i \in 1..Latest : f \in DOMAIN stored[i] /\ stored[i][f] = folder[f]

\* While the backup is read, the folder cleared, and unpacked into: what is in the folder is
\* still to be read or in the backup, or was written late; when it is unpacked into,
\* all that was there before is gone.
BackupInv ==
  /\ pc = "read" /\ goal = "backup" =>
       \A f \in DOMAIN folder : f \in todo \/ Late(f) \/ InPack(f)
  /\ pc = "clear" =>
       \A f \in DOMAIN folder :
         Late(f) \/ (f \in todo /\ f \in DOMAIN backup /\ backup[f] = folder[f])
  /\ pc = "unpack" =>
       \A f \in DOMAIN folder :
         Late(f) \/ (f \notin todo /\ f \in DOMAIN payload /\ folder[f] = payload[f])

\* The phase of an overwrite, and of a pull's.
Overwriting == pc \in {"clear", "unpack"} \/ (pc = "read" /\ goal = "backup" /\ mode # "snapshot")

\* What it unpacks is the version, and after it the folder is, apart from what was written late.
VersionInv ==
  /\ Overwriting => payload = stored[version]
  /\ pc = "unpack" => \A f \in DOMAIN payload : f \in todo \/ f \in DOMAIN folder \/ Late(f)
  /\ pc = "read" /\ goal = "synced" =>
       \A f \in Files : \/ Late(f)
                        \/ /\ f \in DOMAIN folder <=> f \in DOMAIN stored[version]
                           /\ f \in DOMAIN folder => folder[f] = stored[version][f]
                           /\ f \in DOMAIN folder => f \in todo \/ InPack(f)
                           /\ f \in DOMAIN pack => f \in DOMAIN folder

\* While a pull's check reads the folder, and after it found the folder clean.
PullInv ==
  /\ pc = "read" /\ goal = "dirty" =>
       \A f \in DOMAIN folder : f \in todo \/ touched[f] # "no" \/ InPack(f)
  /\ mode = "pull" /\ (pc = "download" \/ Overwriting) /\ ~Slipped =>
       \A f \in DOMAIN folder : touched[f] # "no" \/ InSome(f)

\* A step of the game changes one file, and notes when.
LEMMA GameIs ==
  ASSUME Typed, NEW f \in Files, Delete(f) \/ \E d \in Data : Write(f, d)
  PROVE  /\ UNCHANGED <<stored, app>> /\ writes' # writes
         /\ pc # "idle" => touched' = [touched EXCEPT ![f] = Stage(f)]
         /\ \A g \in Files \ {f} : /\ g \in DOMAIN folder' <=> g \in DOMAIN folder
                                   /\ g \in DOMAIN folder => folder'[g] = folder[g]
<1>0. folder \in Packs /\ writes \in Nat
  BY DEF Typed, TypeOK
<1>1. \E new : /\ Game(f, new)
               /\ \A g \in Files \ {f} : /\ g \in DOMAIN new <=> g \in DOMAIN folder
                                         /\ g \in DOMAIN folder => new[g] = folder[g]
  <2>1. CASE Delete(f)
    <3>1. /\ Game(f, Without(folder, f)) /\ DOMAIN Without(folder, f) = DOMAIN folder \ {f}
          /\ \A g \in DOMAIN folder \ {f} : Without(folder, f)[g] = folder[g]
      BY <1>0, <2>1, WithoutIs DEF Delete
    <3> QED BY <3>1
  <2>2. ASSUME NEW d \in Data, Write(f, d)
        PROVE  \E new : /\ Game(f, new)
                        /\ \A g \in Files \ {f} : /\ g \in DOMAIN new <=> g \in DOMAIN folder
                                                  /\ g \in DOMAIN folder => new[g] = folder[g]
    <3>1. /\ Game(f, With(folder, f, d)) /\ DOMAIN With(folder, f, d) = DOMAIN folder \union {f}
          /\ \A g \in DOMAIN folder \ {f} : With(folder, f, d)[g] = folder[g]
      BY <1>0, <2>2, WithIs DEF Write
    <3> QED BY <3>1
  <2> QED BY <2>1, <2>2
<1> QED BY <1>0, <1>1 DEF Game

\* A read adds one file as it is.
LEMMA ReadIs ==
  ASSUME Typed, NEW f \in Files, Read(f)
  PROVE  /\ f \in DOMAIN pack' /\ pack'[f] = folder[f] /\ f \in DOMAIN folder
         /\ \A g \in Files \ {f} : /\ g \in DOMAIN pack' <=> g \in DOMAIN pack
                                   /\ g \in DOMAIN pack => pack'[g] = pack[g]
         /\ todo' = todo \ {f} /\ pc = "read"
         /\ touched' = [touched EXCEPT ![f] = IF goal = "dirty" THEN "no" ELSE @]
         /\ UNCHANGED <<folder, stored, pc, goal, state, mode, version, payload, backup, writes>>
<1>1. f \in DOMAIN folder
  BY DEF Read
<1>2. /\ pack' = With(pack, f, folder[f]) /\ todo' = todo \ {f} /\ pc = "read"
      /\ touched' = [touched EXCEPT ![f] = IF goal = "dirty" THEN "no" ELSE @]
      /\ UNCHANGED <<folder, stored, pc, goal, state, mode, version, payload, backup, writes>>
  BY DEF Read, Fixed
<1>3. /\ DOMAIN With(pack, f, folder[f]) = DOMAIN pack \union {f}
      /\ With(pack, f, folder[f])[f] = folder[f]
      /\ \A g \in DOMAIN pack \ {f} : With(pack, f, folder[f])[g] = pack[g]
  BY DEF With
<1> QED BY <1>1, <1>2, <1>3

\* A removal and a write of one file.
LEMMA ClearIs ==
  ASSUME Typed, NEW f \in Files, Clear(f)
  PROVE  /\ f \in todo /\ pc = "clear" /\ f \notin DOMAIN folder' /\ todo' = todo \ {f}
         /\ \A g \in Files \ {f} : /\ g \in DOMAIN folder' <=> g \in DOMAIN folder
                                   /\ g \in DOMAIN folder => folder'[g] = folder[g]
         /\ UNCHANGED <<stored, pc, goal, pack, touched, state, mode, version, payload, backup, writes>>
<1>0. folder \in Packs
  BY DEF Typed, TypeOK
<1> QED BY <1>0, WithoutIs DEF Clear, Fixed

LEMMA UnpackIs ==
  ASSUME Typed, NEW f \in Files, Unpack(f)
  PROVE  /\ f \in todo /\ pc = "unpack" /\ f \in DOMAIN payload /\ f \in DOMAIN folder'
         /\ folder'[f] = payload[f] /\ todo' = todo \ {f}
         /\ \A g \in Files \ {f} : /\ g \in DOMAIN folder' <=> g \in DOMAIN folder
                                   /\ g \in DOMAIN folder => folder'[g] = folder[g]
         /\ UNCHANGED <<stored, pc, goal, pack, touched, state, mode, version, payload, backup, writes>>
<1>1. f \in DOMAIN payload
  BY DEF Typed, TypeOK, WorkInv, Unpack
<1>2. /\ folder' = With(folder, f, payload[f]) /\ todo' = todo \ {f} /\ pc = "unpack" /\ f \in todo
      /\ UNCHANGED <<stored, pc, goal, pack, touched, state, mode, version, payload, backup, writes>>
  BY DEF Unpack, Fixed
<1>3. /\ DOMAIN With(folder, f, payload[f]) = DOMAIN folder \union {f}
      /\ With(folder, f, payload[f])[f] = payload[f]
      /\ \A g \in DOMAIN folder \ {f} : With(folder, f, payload[f])[g] = folder[g]
  BY DEF With
<1> QED BY <1>1, <1>2, <1>3

\* All other steps leave the folder alone; they only move on to the next phase.
Moves ==
  \/ PackedPush \/ AskedPush \/ Asked \/ PackedDirty \/ Downloaded \/ PackedBackup
  \/ PackedSnapshot \/ Cleared \/ Unpacked \/ PackedSynced \/ Posted
  \/ Again \/ Unanswered \/ Io \/ StartSnapshot
  \/ \E p \in Sent : Teammate(p)
  \/ \E m \in Modes \ {"none", "snapshot"} : Start(m)
  \/ UNCHANGED vars

LEMMA StepIs ==
  ASSUME [Next]_vars
  PROVE  \/ \E f \in Files : Delete(f) \/ \E d \in Data : Write(f, d)
         \/ \E f \in Files : Read(f)
         \/ \E f \in Files : Clear(f)
         \/ \E f \in Files : Unpack(f)
         \/ Moves
BY DEF Next, Operate, Fails, Around, Moves

\* Every step keeps the files of an overwrite accounted for.
LEMMA BackupStep == Typed /\ BackupInv /\ [Next]_vars => BackupInv'
<1> SUFFICES ASSUME Typed, BackupInv, [Next]_vars PROVE BackupInv'
  OBVIOUS
<1>0. /\ touched \in [Files -> {"no", "check", "backup"}] /\ DOMAIN folder \in SUBSET Files
      /\ DOMAIN folder' \in SUBSET Files
  BY StepTyped, PackParts DEF Typed, TypeOK
<1>1. ASSUME NEW f \in Files, Delete(f) \/ \E d \in Data : Write(f, d) PROVE BackupInv'
  BY <1>0, <1>1, GameIs DEF BackupInv, Late, InPack, Stage, app
<1>2. ASSUME NEW f \in Files, Read(f) PROVE BackupInv'
  BY <1>0, <1>2, ReadIs DEF BackupInv, Late, InPack
<1>3. ASSUME NEW f \in Files, Clear(f) PROVE BackupInv'
  BY <1>0, <1>3, ClearIs DEF BackupInv, Late, InPack
<1>4. ASSUME NEW f \in Files, Unpack(f) PROVE BackupInv'
  BY <1>0, <1>4, UnpackIs DEF BackupInv, Late, InPack
<1>5. CASE Moves
  <2> USE DEF Goto, List, Fixed, Packed
  <2>1. CASE Downloaded \/ StartSnapshot
    BY <2>1 DEF Downloaded, StartSnapshot, BackupInv
  <2>2. CASE PackedBackup
    BY <2>2 DEF PackedBackup, BackupInv, Late, InPack, history
  <2>3. CASE Cleared
    BY <2>3 DEF Cleared, BackupInv, Late
  <2>4. CASE Unpacked
    BY <2>4 DEF Unpacked, BackupInv
  <2>5. CASE PackedPush \/ Asked \/ PackedDirty
    BY <2>5 DEF PackedPush, Asked, PackedDirty, Return, BackupInv
  <2>6. CASE AskedPush \/ PackedSnapshot \/ PackedSynced \/ Posted \/ Unanswered \/ Io
    BY <2>6 DEF AskedPush, PackedSnapshot, PackedSynced, Posted, Unanswered, Io, Quit, Return, BackupInv
  <2>7. CASE Again
    BY <2>7, Kinds DEF Again, BackupInv
  <2>8. CASE \E m \in Modes \ {"none", "snapshot"} : Start(m)
    BY <2>8 DEF Start, BackupInv
  <2>9. CASE UNCHANGED vars \/ \E p \in Sent : Teammate(p)
    BY <2>9 DEF Teammate, vars, app, history, BackupInv, Late, InPack
  <2> QED BY <1>5, <2>1, <2>2, <2>3, <2>4, <2>5, <2>6, <2>7, <2>8, <2>9 DEF Moves
<1> QED BY <1>1, <1>2, <1>3, <1>4, <1>5, StepIs

\* Only a removal and an unpacking of a file take it out of the folder or write over it.
LEMMA OnlyOverwrites ==
  ASSUME Typed, [Next]_vars, NEW f \in Files, Loses(f)
  PROVE  \E g \in Files : Clear(g) \/ Unpack(g)
<1>1. ~(\E g \in Files : Delete(g) \/ \E d \in Data : Write(g, d))
  BY GameIs DEF Loses
<1>2. ~Moves
  BY DEF Loses, Moves, PackedPush, AskedPush, Asked, PackedDirty, Downloaded, PackedBackup,
         PackedSnapshot, Cleared, Unpacked, PackedSynced, Posted, Again, Unanswered, Io, Quit,
         StartSnapshot, Teammate, Start, vars
<1>3. ~\E g \in Files : Read(g)
  BY ReadIs DEF Loses
<1> QED BY <1>1, <1>2, <1>3, StepIs

\* What the app destroys lies in the backup, or was written after the backup had read it.
LEMMA LosesBackedUp ==
  ASSUME Typed, BackupInv, [Next]_vars, NEW f \in Files, Loses(f)
  PROVE  Late(f) \/ (f \in DOMAIN backup /\ backup[f] = folder[f])
<1>1. PICK g \in Files : Clear(g) \/ Unpack(g)
  BY OnlyOverwrites
<1>2. CASE Clear(g)
  BY <1>2 DEF Loses, BackupInv, Clear
<1>3. CASE Unpack(g)
  BY <1>3, UnpackIs DEF Loses, BackupInv
<1> QED BY <1>1, <1>2, <1>3

LEMMA InitBackup == Init => BackupInv
BY DEF Init, BackupInv

\* BackedUp: the player finds what an overwrite destroys in its .svpk file.
THEOREM AlwaysBackedUp == Spec => BackedUp
<1>1. ASSUME Typed, BackupInv, [Next]_vars
      PROVE  [\A f \in Files : Loses(f) =>
                \/ touched[f] = "backup"
                \/ f \in DOMAIN backup /\ backup[f] = folder[f]]_vars
  BY <1>1, LosesBackedUp DEF Late
<1> QED BY <1>1, InitTyped, StepTyped, InitBackup, BackupStep, PTL DEF Spec, BackedUp
\* What the operation decided on, and what it was synced with, stays what it is.
LEMMA VersionStays ==
  ASSUME Typed, [Next]_vars
  PROVE  /\ version > 0 => version \in 1..Latest /\ stored'[version] = stored[version]
                           /\ stored[version] \in Packs
         /\ state.hash # None => state.last \in 1..Latest /\ stored'[state.last] = stored[state.last]
         /\ 1..Latest \subseteq 1..Latest' /\ Latest \in Nat
<1>1. /\ stored \in Seq(Packs) /\ version \in 0..Latest /\ state.last \in 0..Latest
      /\ state.hash # None => state.last > 0
  BY DEF Typed, TypeOK, WorkInv
<1>2. Latest \in Nat /\ Latest' \in Nat /\ Latest' >= Latest
      /\ \A i \in 1..Latest : stored'[i] = stored[i]
  BY ChannelGrows
<1>3. \A i \in 1..Latest : stored[i] \in Packs
  BY <1>1, ElementOfSeq DEF Latest
<1> QED BY <1>1, <1>2, <1>3

\* Every step keeps what an overwrite unpacks.
LEMMA VersionStep == Typed /\ BackupInv /\ VersionInv /\ [Next]_vars => VersionInv'
<1> SUFFICES ASSUME Typed, BackupInv, VersionInv, [Next]_vars PROVE VersionInv'
  OBVIOUS
<1>0. /\ touched \in [Files -> {"no", "check", "backup"}] /\ DOMAIN folder \in SUBSET Files
      /\ DOMAIN folder' \in SUBSET Files /\ DOMAIN payload \in SUBSET Files
      /\ DOMAIN pack \in SUBSET Files /\ DOMAIN pack' \in SUBSET Files
  BY StepTyped, PackParts DEF Typed, TypeOK
<1>01. /\ version > 0 => stored'[version] = stored[version]
       /\ Overwriting \/ goal = "synced" \/ pc = "download" => version > 0
  BY VersionStays DEF Typed, WorkInv, Overwriting
<1>1. ASSUME NEW f \in Files, Delete(f) \/ \E d \in Data : Write(f, d) PROVE VersionInv'
  BY <1>0, <1>01, <1>1, GameIs DEF VersionInv, Overwriting, Late, InPack, Stage, app
<1>2. ASSUME NEW f \in Files, Read(f) PROVE VersionInv'
  BY <1>0, <1>01, <1>2, ReadIs DEF VersionInv, Overwriting, Late, InPack
<1>3. ASSUME NEW f \in Files, Clear(f) PROVE VersionInv'
  BY <1>0, <1>01, <1>3, ClearIs DEF VersionInv, Overwriting, Late, InPack
<1>4. ASSUME NEW f \in Files, Unpack(f) PROVE VersionInv'
  BY <1>0, <1>01, <1>4, UnpackIs DEF VersionInv, Overwriting, Late, InPack
<1>5. CASE Moves
  <2> USE DEF Goto, List, Fixed, Packed, VersionInv, Overwriting
  <2>1. CASE Downloaded
    BY <1>01, <2>1 DEF Downloaded
  <2>2. CASE PackedBackup \/ Cleared
    BY <1>01, <2>2 DEF PackedBackup, Cleared
  <2>3. CASE Unpacked
    <3>1. /\ pc = "unpack" /\ todo = {} /\ pc' = "read" /\ goal' = "synced" /\ pack' = Empty
          /\ todo' = DOMAIN folder /\ UNCHANGED <<folder, stored, version, touched>>
          /\ payload = stored[version]
      BY <2>3 DEF Unpacked, history
    <3>2. \A f \in Files : \/ Late(f)
                           \/ /\ f \in DOMAIN folder <=> f \in DOMAIN payload
                              /\ f \in DOMAIN folder => folder[f] = payload[f]
      BY <1>0, <3>1 DEF BackupInv
    <3> QED BY <3>1, <3>2, EmptyIsPack DEF Late
  <2>4. CASE PackedPush \/ Asked \/ PackedDirty \/ StartSnapshot
    BY <2>4 DEF PackedPush, Asked, PackedDirty, Return, StartSnapshot
  <2>5. CASE AskedPush \/ PackedSnapshot \/ PackedSynced \/ Posted \/ Unanswered \/ Io
    BY <2>5 DEF AskedPush, PackedSnapshot, PackedSynced, Posted, Unanswered, Io, Quit, Return
  <2>6. CASE Again
    BY <2>6, Kinds DEF Again
  <2>7. CASE \E m \in Modes \ {"none", "snapshot"} : Start(m)
    BY <2>7 DEF Start
  <2>8. CASE UNCHANGED vars \/ \E p \in Sent : Teammate(p)
    <3>1. UNCHANGED <<folder, app, history>>
      BY <2>8 DEF Teammate, vars
    <3> QED BY <1>01, <3>1 DEF app, history, Late, InPack
  <2> QED BY <1>5, <2>1, <2>2, <2>3, <2>4, <2>5, <2>6, <2>7, <2>8 DEF Moves
<1> QED BY <1>1, <1>2, <1>3, <1>4, <1>5, StepIs

\* Every step keeps what a pull may destroy.
LEMMA PullStep == Typed /\ VersionInv /\ PullInv /\ [Next]_vars => PullInv'
<1> SUFFICES ASSUME Typed, VersionInv, PullInv, [Next]_vars PROVE PullInv'
  OBVIOUS
<1>0. /\ touched \in [Files -> {"no", "check", "backup"}] /\ DOMAIN folder \in SUBSET Files
      /\ DOMAIN folder' \in SUBSET Files /\ DOMAIN payload \in SUBSET Files
  BY StepTyped, PackParts DEF Typed, TypeOK
<1>01. /\ Overwriting \/ goal = "dirty" => version \in 1..Latest
       /\ Latest \in Nat /\ 1..Latest \subseteq 1..Latest'
       /\ \A i \in 1..Latest : stored'[i] = stored[i]
  BY VersionStays, ChannelGrows DEF Typed, WorkInv, Overwriting
\* A step that does not change the state leaves what has slipped in.
<1>02. ASSUME state' = state, ~Slipped' PROVE ~Slipped
  BY <1>02, VersionStays DEF Slipped
\* A file that is left alone is where it was.
<1>03. ASSUME NEW f \in DOMAIN folder, f \in DOMAIN folder', folder'[f] = folder[f], InSome(f)
       PROVE  InSome(f)'
  BY <1>01, <1>03 DEF InSome
<1> DEFINE Safe(f) == touched[f] # "no" \/ InSome(f)
<1>1. ASSUME NEW f \in Files, Delete(f) \/ \E d \in Data : Write(f, d) PROVE PullInv'
  <2>1. UNCHANGED <<state, pc, goal, mode, todo, pack>>
    BY <1>1, GameIs DEF app
  <2>2. pc # "idle" => touched'[f] # "no" /\ \A g \in Files \ {f} : touched'[g] = touched[g]
    BY <1>0, <1>1, GameIs DEF Stage
  <2>3. \A g \in Files \ {f} : /\ g \in DOMAIN folder' <=> g \in DOMAIN folder
                               /\ g \in DOMAIN folder => folder'[g] = folder[g]
    BY <1>1, GameIs
  <2>4. pc = "read" /\ goal = "dirty" =>
          \A g \in DOMAIN folder' : g \in todo \/ touched'[g] # "no" \/ InPack(g)'
    BY <1>0, <2>1, <2>2, <2>3 DEF PullInv, InPack
  <2>5. mode = "pull" /\ (pc = "download" \/ Overwriting) /\ ~Slipped =>
          \A g \in DOMAIN folder' : touched'[g] # "no" \/ InSome(g)'
    BY <1>0, <1>03, <2>2, <2>3 DEF PullInv, Overwriting
  <2> QED BY <1>02, <2>1, <2>4, <2>5 DEF PullInv, Overwriting
<1>2. ASSUME NEW f \in Files, Read(f) PROVE PullInv'
  <2>1. UNCHANGED <<state, pc, goal, mode, folder, stored>> /\ pc = "read" /\ todo' = todo \ {f}
    BY <1>2, ReadIs
  <2>2. goal = "dirty" => \A g \in DOMAIN folder : g \in todo' \/ touched'[g] # "no" \/ InPack(g)'
    BY <1>0, <1>2, ReadIs DEF PullInv, InPack
  <2>3. goal # "dirty" => touched' = touched
    BY <1>0, <1>2, ReadIs
  <2>4. \A g : InSome(g)' <=> InSome(g)
    BY <2>1 DEF InSome, Latest
  <2> QED BY <2>1, <2>2, <2>3, <2>4 DEF PullInv, Overwriting, Slipped
<1>3. ASSUME NEW f \in Files, Clear(f) PROVE PullInv'
  <2>1. UNCHANGED <<state, pc, goal, mode, touched>> /\ pc = "clear"
    BY <1>3, ClearIs
  <2>2. \A g \in DOMAIN folder' : g \in DOMAIN folder /\ folder'[g] = folder[g]
    BY <1>0, <1>3, ClearIs
  <2> QED BY <1>02, <1>03, <2>1, <2>2 DEF PullInv, Overwriting
<1>4. ASSUME NEW f \in Files, Unpack(f) PROVE PullInv'
  <2>1. UNCHANGED <<state, pc, goal, mode, touched, stored>> /\ pc = "unpack"
    BY <1>4, UnpackIs
  <2>2. \A g \in DOMAIN folder' \ {f} : g \in DOMAIN folder /\ folder'[g] = folder[g]
    BY <1>0, <1>4, UnpackIs
  <2>3. InSome(f)'
    <3>1. payload = stored[version] /\ version \in 1..Latest
      BY <1>01, <2>1 DEF VersionInv, Overwriting
    <3>2. f \in DOMAIN payload /\ folder'[f] = payload[f]
      BY <1>4, UnpackIs
    <3> QED BY <1>01, <2>1, <3>1, <3>2 DEF InSome
  <2> QED BY <1>02, <1>03, <2>1, <2>2, <2>3 DEF PullInv, Overwriting
<1>5. CASE Moves
  <2> USE DEF Goto, List, Fixed, Packed, PullInv, Overwriting
  <2>1. CASE Asked
    BY <2>1, EmptyIsPack DEF Asked, Return
  <2>2. CASE PackedDirty
    <3>1. CASE Return
      BY <3>1 DEF Return
    <3>2. CASE ~Dirty /\ Goto("download") /\ UNCHANGED <<folder, stored, pack, touched, state>>
      <4>1. /\ pc' = "download" /\ pc = "read" /\ todo = {} /\ goal = "dirty"
            /\ \A f \in DOMAIN folder : touched[f] # "no" \/ InPack(f)
        BY <2>2, <3>2 DEF PackedDirty
      <4>2. ASSUME ~Slipped PROVE \E i \in 1..Latest : pack = stored[i]
        BY <1>01, <3>2, <4>1, <4>2, VersionStays DEF Slipped, Dirty
      <4>3. ASSUME ~Slipped, NEW f \in DOMAIN folder, InPack(f) PROVE InSome(f)
        BY <4>2, <4>3 DEF InPack, InSome
      <4>4. /\ ~Slipped' => ~Slipped /\ folder' = folder /\ touched' = touched
            /\ \A f \in DOMAIN folder : InSome(f) => InSome(f)'
        BY <1>02, <1>03, <3>2
      <4> QED BY <4>1, <4>3, <4>4
    <3> QED BY <2>2, <3>1, <3>2 DEF PackedDirty
  <2>3. CASE Downloaded \/ PackedBackup \/ Cleared \/ Again
    <3>1. /\ UNCHANGED <<folder, touched, state, mode>>
          /\ pc = "download" \/ Overwriting \/ pc \in Requests
          /\ pc' = "read" => goal' = "backup"
          /\ pc' = "download" \/ Overwriting' => pc = "download" \/ Overwriting
      BY <2>3, Kinds DEF Downloaded, PackedBackup, Cleared, Again, history
    <3> QED BY <1>02, <1>03, <3>1
  <2>4. CASE PackedPush \/ Unpacked \/ StartSnapshot
    BY <2>4 DEF PackedPush, Unpacked, StartSnapshot
  <2>5. CASE AskedPush \/ PackedSnapshot \/ PackedSynced \/ Posted \/ Unanswered \/ Io
    BY <2>5 DEF AskedPush, PackedSnapshot, PackedSynced, Posted, Unanswered, Io, Quit, Return
  <2>6. CASE \E m \in Modes \ {"none", "snapshot"} : Start(m)
    BY <2>6 DEF Start
  <2>7. CASE UNCHANGED vars \/ \E p \in Sent : Teammate(p)
    <3>1. UNCHANGED <<folder, app, history>>
      BY <2>7 DEF Teammate, vars
    <3> QED BY <1>02, <1>03, <3>1 DEF app, history, InPack
  <2> QED BY <1>5, <2>1, <2>2, <2>3, <2>4, <2>5, <2>6, <2>7 DEF Moves
<1> QED BY <1>1, <1>2, <1>3, <1>4, <1>5, StepIs

LEMMA InitSynced == Init => VersionInv /\ PullInv
BY DEF Init, VersionInv, PullInv, Overwriting

\* PullLosesNothing: a pull destroys only what some version in the channel holds.
THEOREM PullsLoseNothing == Spec => PullLosesNothing
<1>1. ASSUME Typed, PullInv, [Next]_vars, NEW f \in Files, Loses(f), mode = "pull"
      PROVE  touched[f] # "no" \/ Slipped \/ InSome(f)
  BY <1>1, OnlyOverwrites DEF PullInv, Overwriting, Clear, Unpack, Loses
<1>2. ASSUME Typed, PullInv, [Next]_vars
      PROVE  [\A f \in Files : Loses(f) /\ mode = "pull" =>
                \/ touched[f] # "no" \/ Slipped
                \/ \E i \in 1..Latest : f \in DOMAIN stored[i] /\ stored[i][f] = folder[f]]_vars
  BY <1>1, <1>2 DEF InSome
<1> QED BY <1>2, InitTyped, StepTyped, InitBackup, BackupStep, InitSynced, VersionStep, PullStep, PTL
        DEF Spec, PullLosesNothing

\* SyncedIsStored: the synced state is a version of the channel, unless the game
\* wrote during the overwrite.
THEOREM SyncedAlwaysStored == Spec => SyncedIsStored
<1>1. ASSUME Typed, VersionInv, [Next]_vars, state' # state
      PROVE  \/ state'.last > 0 /\ state'.hash = stored'[state'.last]
             \/ \E f \in Files : Late(f)
  <2>0. stored \in Seq(Packs) /\ pack \in Packs /\ Latest \in Nat
    BY <1>1, VersionStays DEF Typed, TypeOK
  <2>1. AskedPush \/ PackedSynced \/ Posted
    <3>1. ~\E f \in Files : Delete(f) \/ \E d \in Data : Write(f, d)
      BY <1>1, GameIs DEF app
    <3>2. ~\E f \in Files : Read(f) \/ Clear(f) \/ Unpack(f)
      BY <1>1, ReadIs, ClearIs, UnpackIs
    <3> QED BY <1>1, <3>1, <3>2, StepIs
            DEF Moves, PackedPush, Asked, PackedDirty, Downloaded, PackedBackup, PackedSnapshot,
                Cleared, Unpacked, Again, Unanswered, Io, Quit, StartSnapshot, Teammate, Start,
                Fixed, vars, app
  <2>2. CASE AskedPush
    BY <1>1, <2>2 DEF AskedPush, Synced
  <2>3. CASE Posted
    BY <2>0, <2>3, OneMore DEF Posted, Synced, Latest
  <2>4. CASE PackedSynced
    <3>1. /\ pc = "read" /\ goal = "synced" /\ todo = {} /\ stored' = stored
          /\ state' = [last |-> version, hash |-> pack] /\ version > 0
      BY <1>1, <2>4 DEF PackedSynced, Packed, Synced, Typed, WorkInv
    <3>2. stored[version] \in Packs
      BY <1>1, <3>1, VersionStays
    <3>3. DOMAIN pack \subseteq Files /\ DOMAIN stored[version] \subseteq Files
      BY <2>0, <3>2, PackParts
    <3>4. ASSUME \A f \in Files : ~Late(f) PROVE pack = stored[version]
      <4>1. DOMAIN pack = DOMAIN stored[version] /\ \A f \in DOMAIN pack : pack[f] = stored[version][f]
        BY <1>1, <3>1, <3>3, <3>4 DEF VersionInv, InPack
      <4> QED BY <2>0, <3>2, <4>1, SamePack
    <3> QED BY <3>1, <3>4
  <2> QED BY <2>1, <2>2, <2>3, <2>4
<1>2. ASSUME Typed, VersionInv, [Next]_vars
      PROVE  [state' # state =>
                \/ state'.last > 0 /\ state'.hash = stored'[state'.last]
                \/ \E f \in Files : touched[f] = "backup"]_vars
  BY <1>1, <1>2 DEF Late
<1> QED BY <1>2, InitTyped, StepTyped, InitBackup, BackupStep, InitSynced, VersionStep, PTL
        DEF Spec, SyncedIsStored
=============================================================================
