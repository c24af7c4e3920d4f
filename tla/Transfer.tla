------------------------------ MODULE Transfer ------------------------------
(* One device's sync of one save folder, file by file: pack.rs packs the folder while
   the game may write to it, retry.rs repeats what Discord refuses, and
   engine.rs backs the folder up, clears it, unpacks into it and packs it again.

   SyncEngine has several devices, crashes and the sync state on disk, and takes a folder
   for one content and an overwrite for one step.  Here these are many steps, with
   the game's writes and Discord's answers between any two of them.

   A pack is a function from file names to data, as is a folder.  The channel
   keeps all versions, a version's number is its place, and a teammate sends
   none while this device does. *)
EXTENDS Naturals, Sequences, FiniteSets

CONSTANTS Files, Data,
  Sent,        \* the packs that teammates send
  None,        \* no pack, no hash
  MaxRetries,  \* max_retries of DiscordChannel
  MaxVersions, \* bound: versions ever stored
  MaxWrites    \* bound: writes by the game

ASSUME TransferAssumption ==
  /\ IsFiniteSet(Files) /\ Sent \subseteq UNION {[S -> Data] : S \in SUBSET Files}
  /\ MaxRetries \in Nat /\ MaxVersions \in Nat /\ MaxWrites \in Nat

VARIABLES
  folder,   \* the save folder
  stored,   \* the packs of the versions in the channel, oldest first
  state,    \* SyncState: last synced version and hash of what was synced
  pc,       \* what the engine does next
  mode,     \* the operation
  goal,     \* what the engine packs the folder for
  todo,     \* files listed and not yet read, removed or written
  pack,     \* what has been read so far, or was read last
  version,  \* the version the operation decided on
  payload,  \* what was downloaded
  backup,   \* the .svpk file of the operation
  attempts, \* retries of the current request
  touched,  \* history: files the game changed after the dirty check or the backup read them
  writes    \* history: writes by the game

app == <<state, pc, mode, goal, todo, pack, version, payload, backup, attempts>>
history == <<touched, writes>>
vars == <<folder, stored, app, history>>

Packs == UNION {[S -> Data] : S \in SUBSET Files}
Empty == [f \in {} |-> None]
With(p, f, d) == [g \in DOMAIN p \union {f} |-> IF g = f THEN d ELSE p[g]]
Without(p, f) == [g \in DOMAIN p \ {f} |-> p[g]]
Latest == Len(stored)

Modes == {"push", "pull", "local", "take", "snapshot", "none"}
Goals == {"push", "dirty", "backup", "synced", "none"}
Requests == {"ask", "download", "post"}
Phases == {"idle", "read", "clear", "unpack"} \union Requests

Init ==
  /\ folder = Empty /\ stored = <<>> /\ state = [last |-> 0, hash |-> None]
  /\ pc = "idle" /\ mode = "none" /\ goal = "none"
  /\ todo = {} /\ pack = Empty /\ version = 0 /\ payload = Empty /\ backup = None
  /\ attempts = 0
  /\ touched = [f \in Files |-> "no"] /\ writes = 0

-----------------------------------------------------------------------------
(* The game, and a teammate. *)
\* What the engine has not read yet when it backs up the folder is still to be saved.
Stage(f) ==
  IF \/ pc \in {"clear", "unpack"} \/ goal = "synced"
     \/ pc = "read" /\ goal = "backup" /\ f \notin todo
  THEN "backup" ELSE "check"
Game(f, new) ==
  /\ writes < MaxWrites /\ writes' = writes + 1
  /\ folder' = new
  /\ touched' = IF pc = "idle" THEN touched ELSE [touched EXCEPT ![f] = Stage(f)]
  /\ UNCHANGED <<stored, app>>
Write(f, d) == Game(f, With(folder, f, d))
Delete(f) == f \in DOMAIN folder /\ Game(f, Without(folder, f))

Teammate(p) ==
  /\ pc # "post" /\ Latest < MaxVersions
  /\ Latest > 0 => stored[Latest] # p
  /\ stored' = Append(stored, p)
  /\ UNCHANGED <<folder, app, history>>

-----------------------------------------------------------------------------
(* Steps of the engine.  A mutant stands before the definition it is a plausible bug
   of. *)
Goto(p) == pc' = p /\ attempts' = 0
Return ==
  /\ Goto("idle") /\ mode' = "none" /\ goal' = "none" /\ todo' = {} /\ pack' = Empty
  /\ version' = 0 /\ payload' = Empty /\ backup' = None
  /\ touched' = [f \in Files |-> "no"]
Synced(n, hash) == state' = [last |-> n, hash |-> hash]
Fixed == UNCHANGED <<state, mode, version, payload, backup, writes>>

\* pack_folder: list the files, read one after the other.
List(why) == Goto("read") /\ goal' = why /\ todo' = DOMAIN folder /\ pack' = Empty
Read(f) ==
  /\ pc = "read" /\ f \in todo /\ f \in DOMAIN folder
  /\ todo' = todo \ {f} /\ pack' = With(pack, f, folder[f])
  /\ touched' = [touched EXCEPT ![f] = IF goal = "dirty" THEN "no" ELSE @]
  /\ UNCHANGED <<folder, stored, pc, goal, attempts>> /\ Fixed
Packed(why) == pc = "read" /\ todo = {} /\ goal = why

\* snapshot: the backup of a close, nothing else.
StartSnapshot ==
  /\ pc = "idle" /\ mode' = "snapshot" /\ List("backup")
  /\ UNCHANGED <<folder, stored, state, version, payload, backup, history>>
PackedSnapshot ==
  /\ Packed("backup") /\ mode = "snapshot"
  /\ Return /\ UNCHANGED <<folder, stored, state, writes>>

\* The operations: push and resolve pack first, the others ask for the versions.
Start(m) ==
  /\ pc = "idle" /\ mode' = m
  /\ IF m \in {"push", "local"} THEN List("push")
     ELSE Goto("ask") /\ UNCHANGED <<goal, todo, pack>>
  /\ UNCHANGED <<folder, stored, state, version, payload, backup, history>>
PackedPush ==
  /\ Packed("push") /\ Goto("ask")
  /\ UNCHANGED <<folder, stored, goal, todo, pack, touched>> /\ Fixed

\* push and resolve(PushLocal), answered: a conflict unless the latest version is the
\* last synced, or the user said so.
AskedPush ==
  /\ pc = "ask" /\ mode \in {"push", "local"}
  /\ \/ /\ Latest > 0 /\ stored[Latest] = pack
        /\ Synced(Latest, pack) /\ Return
     \/ /\ Latest > 0 => stored[Latest] # pack /\ (mode = "push" => state.last = Latest)
        /\ Latest < MaxVersions
        /\ Goto("post") /\ UNCHANGED <<state, mode, goal, todo, pack, version, payload,
                                       backup, touched>>
     \/ /\ mode = "push" /\ Latest > 0 /\ stored[Latest] # pack /\ state.last # Latest
        /\ Return /\ UNCHANGED state
  /\ UNCHANGED <<folder, stored, writes>>

\* pull, answered: nothing new; an empty folder is never dirty; else pack it.
\* resolve(TakeRemote) and restore_version overwrite in any case.
Asked ==
  /\ pc = "ask"
  /\ \/ /\ mode = "pull" /\ (Latest = 0 \/ state.last = Latest)
        /\ Return /\ UNCHANGED <<state, writes>>
     \/ /\ mode = "pull" /\ Latest > 0 /\ state.last # Latest
        /\ version' = Latest
        /\ IF folder = Empty
           THEN Goto("download") /\ UNCHANGED <<goal, todo, pack>>
           ELSE List("dirty")
        /\ touched' = [f \in Files |-> "no"]
        /\ UNCHANGED <<state, mode, payload, backup, writes>>
     \/ /\ mode = "take" /\ version' \in 1..Latest
        /\ Goto("download")
        /\ UNCHANGED <<state, mode, goal, todo, pack, payload, backup, history>>
     \/ /\ mode = "take" /\ Latest = 0
        /\ Return /\ UNCHANGED <<state, writes>>
  /\ UNCHANGED <<folder, stored>>

\* local_is_dirty: with no hash recorded, what equals the remote is no conflict.
DirtySinceSync == state.hash # None /\ pack # state.hash
Dirty == pack # IF state.hash = None THEN stored[version] ELSE state.hash
PackedDirty ==
  /\ Packed("dirty")
  /\ IF Dirty
     THEN Return /\ UNCHANGED <<state, writes>>
     ELSE Goto("download") /\ UNCHANGED <<goal, todo, pack, touched>> /\ Fixed
  /\ UNCHANGED <<folder, stored>>

\* apply_version.
DownloadedReusing ==
  /\ pc = "download" /\ payload' = stored[version]
  /\ Goto("read") /\ goal' = "backup" /\ todo' = {}
  /\ UNCHANGED <<folder, stored, state, mode, pack, version, backup, history>>
Downloaded ==
  /\ pc = "download" /\ payload' = stored[version]
  /\ List("backup")
  /\ UNCHANGED <<folder, stored, state, mode, version, backup, history>>
\* The backup is written to its file, then clear_folder lists the folder.
PackedBackup ==
  /\ Packed("backup") /\ mode # "snapshot" /\ backup' = pack
  /\ Goto("clear") /\ todo' = DOMAIN folder /\ pack' = Empty
  /\ UNCHANGED <<folder, stored, state, mode, goal, version, payload, history>>
Clear(f) ==
  /\ pc = "clear" /\ f \in todo /\ f \in DOMAIN folder
  /\ folder' = Without(folder, f) /\ todo' = todo \ {f}
  /\ UNCHANGED <<stored, pc, goal, pack, attempts, touched>> /\ Fixed
Cleared ==
  /\ pc = "clear" /\ todo = {}
  /\ Goto("unpack") /\ todo' = DOMAIN payload
  /\ UNCHANGED <<folder, stored, goal, pack, touched>> /\ Fixed
Unpack(f) ==
  /\ pc = "unpack" /\ f \in todo
  /\ folder' = With(folder, f, payload[f]) /\ todo' = todo \ {f}
  /\ UNCHANGED <<stored, pc, goal, pack, attempts, touched>> /\ Fixed
Unpacked ==
  /\ pc = "unpack" /\ todo = {}
  /\ List("synced") /\ payload' = Empty
  /\ UNCHANGED <<folder, stored, state, mode, version, backup, history>>
\* The state takes the folder as it now is.
PackedSynced ==
  /\ Packed("synced") /\ Synced(version, pack) /\ Return
  /\ UNCHANGED <<folder, stored, writes>>

\* send_message.  ok: stored and answered.
PostedBehind ==
  /\ pc = "post" /\ stored' = Append(stored, pack)
  /\ Synced(Latest, pack) /\ Return
  /\ UNCHANGED <<folder, writes>>
Posted ==
  /\ pc = "post" /\ stored' = Append(stored, pack)
  /\ Synced(Latest + 1, pack) /\ Return
  /\ UNCHANGED <<folder, writes>>

-----------------------------------------------------------------------------
(* execute_with_retry, around each request. *)
\* Discord refuses with 429, and the request is repeated.
AgainAndAgain ==
  /\ pc \in Requests /\ attempts' = IF attempts < MaxRetries THEN attempts + 1 ELSE 0
  /\ UNCHANGED <<folder, stored, state, pc, mode, goal, todo, pack, version, payload,
                 backup, history>>
Again ==
  /\ pc \in Requests /\ attempts < MaxRetries /\ attempts' = attempts + 1
  /\ UNCHANGED <<folder, stored, state, pc, mode, goal, todo, pack, version, payload,
                 backup, history>>

Quit == Return /\ UNCHANGED <<folder, state, writes>>
\* Any other status, no answer, or refused too often: the operation fails.  A POST
\* that was not answered may have stored the version.
UnansweredAgain ==
  /\ pc \in Requests
  /\ \/ Quit /\ UNCHANGED stored
     \/ /\ pc = "post" /\ Latest < MaxVersions /\ attempts < MaxRetries
        /\ stored' = Append(stored, pack) /\ attempts' = attempts + 1
        /\ UNCHANGED <<folder, state, pc, mode, goal, todo, pack, version, payload, backup,
                       touched, writes>>
Unanswered ==
  /\ pc \in Requests /\ Quit
  /\ stored' \in {stored} \union IF pc = "post" THEN {Append(stored, pack)} ELSE {}
\* A file vanished between its listing and its turn, or cannot be read or written.
Io ==
  /\ pc \in {"read", "clear", "unpack"} /\ Quit /\ UNCHANGED stored

Operate ==
  \/ PackedPush \/ AskedPush \/ Asked \/ PackedDirty \/ Downloaded \/ PackedBackup
  \/ PackedSnapshot \/ Cleared \/ Unpacked \/ PackedSynced \/ Posted
  \/ \E f \in Files : Read(f) \/ Clear(f) \/ Unpack(f)
Fails == Again \/ Unanswered \/ Io
Around ==
  \/ \E f \in Files : Delete(f) \/ \E d \in Data : Write(f, d)
  \/ \E p \in Sent : Teammate(p)
  \/ \E m \in Modes \ {"none", "snapshot"} : Start(m)
  \/ StartSnapshot

Next == Operate \/ Fails \/ Around
Spec == Init /\ [][Next]_vars /\ WF_vars(Operate \/ Fails)

-----------------------------------------------------------------------------
(* Properties. *)
\* The types of the state; a request is tried at most once more than MaxRetries.
TypeOK ==
  /\ folder \in Packs /\ stored \in Seq(Packs) /\ Latest <= MaxVersions
  /\ state.last \in 0..Latest /\ state.hash \in {None} \union Packs
  /\ pc \in Phases /\ mode \in Modes /\ goal \in Goals
  /\ todo \subseteq Files /\ pack \in Packs /\ version \in 0..Latest
  /\ payload \in Packs /\ backup \in {None} \union Packs /\ attempts \in 0..MaxRetries
  /\ touched \in [Files -> {"no", "check", "backup"}] /\ writes \in 0..MaxWrites

\* What the app itself takes out of the folder, or writes over.
Loses(f) ==
  /\ writes' = writes /\ f \in DOMAIN folder
  /\ f \in DOMAIN folder' => folder'[f] # folder[f]

\* engine.rs:103 and 127, file by file: whatever an overwrite destroys, the player can find
\* in its .svpk file, unless the game wrote it after the backup had read that file.
BackedUp ==
  [][\A f \in Files : Loses(f) =>
       \/ touched[f] = "backup"
       \/ f \in DOMAIN backup /\ backup[f] = folder[f]]_vars

Slipped == state.hash # None /\ state.hash # stored[state.last]
\* engine.rs:146-147: a pull destroys only what some version in the channel holds, also when
\* packs are torn by the game's writes, operations fail halfway and folders are left
\* half-written.  Excepted is what the game changed after the check read it, and a folder
\* whose hash already is that of a save that was never stored (see SyncedIsStored).
PullLosesNothing ==
  [][\A f \in Files : Loses(f) /\ mode = "pull" =>
       \/ touched[f] # "no" \/ Slipped
       \/ \E i \in 1..Latest : f \in DOMAIN stored[i] /\ stored[i][f] = folder[f]]_vars

\* The hash that later dirty checks compare with is that of a stored version, unless the
\* game wrote during the overwrite: apply_version (engine.rs:138-142) packs the
\* folder again after unpacking, and what slipped in is taken for synced.
SyncedIsStored ==
  [][state' # state =>
       \/ state'.last > 0 /\ state'.hash = stored'[state'.last]
       \/ \E f \in Files : touched[f] = "backup"]_vars

\* No version repeats the one before it, although a POST may store its version
\* without an answer and the push is made again.
NoRepeats == \A i \in 2..Latest : stored[i] # stored[i - 1]

\* Every operation ends, however often Discord refuses, whatever fails, and
\* while the game goes on writing: the worker runs nothing else meanwhile.
OperationsEnd == pc # "idle" ~> pc = "idle"
=============================================================================
