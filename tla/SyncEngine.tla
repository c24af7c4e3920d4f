----------------------------- MODULE SyncEngine -----------------------------
(***************************************************************************)
(* The sync engine of one game (crate salvae-sync, engine.rs) on every     *)
(* device of a group, with the save folders, the backups and the sync     *)
(* state it keeps in memory and, through the agent's save_state, on disk.  *)
(*                                                                         *)
(* The channel is the vault's: a scan is one step here (Vault has the      *)
(* page-by-page interleavings and proves what prune may delete).  A step   *)
(* is what a device does between two requests to the channel or two        *)
(* phases of a local overwrite that can fail halfway.                      *)
(*                                                                         *)
(* The player's edits are fresh contents that remember what they were      *)
(* edited from: history variable anc.                                      *)
(***************************************************************************)
EXTENDS Naturals, FiniteSets, VersionOrder

CONSTANTS
    Devices,
    Contents,     \* contents players produce
    Empty,        \* a save folder with no entries (it packs, and is pushed)
    Broken,       \* a folder a failed clear or unpack left half-written
    Absent,       \* no save folder
    None,         \* no hash recorded, no version seen
    MaxVersions,  \* max_versions of the group
    MaxSends      \* bound: versions ever sent

ASSUME DevicesAssumption == IsFiniteSet(Devices)
ASSUME MaxVersionsAssumption == MaxVersions \in Nat
ASSUME DistinctAssumption ==
    /\ Cardinality({Empty, Broken, Absent, None}) = 4
    /\ Contents \cap {Empty, Broken, Absent, None} = {}
ASSUME BoundAssumption == MaxSends \in Nat

Saves   == Contents \cup {Empty, Broken}
Folders == Saves \cup {Absent}
Versions == [id : Nat, number : Nat, content : Saves]
SyncStates == [last : Nat, hash : Saves \cup {None}]

VARIABLES
    channel,   \* version messages the channel holds
    nextId,    \* id of the next message
    folder,    \* what each device's save folder holds
    backup,    \* what the running overwrite saved to its .svpk file
    state,     \* SyncState in memory; last = 0 is "never synced"
    disk,      \* SyncState in the state file
    pc,        \* what each device's operation does next
    mode,      \* the operation: "pull", "push", "local", "remote", "restore"
    seen,      \* the version the operation decided on
    number,    \* the number push_version gives to the version it sends
    payload,   \* what it packed to push, or downloaded to apply
    sent,      \* history: every version ever sent
    anc,       \* history: contents each produced content descends from
    touched,   \* history: how the folder was edited during the operation
    torn       \* history: the folder may not descend from the synced version

vars == <<channel, nextId, folder, backup, state, disk, pc, mode, seen,
          number, payload, sent, anc, touched, torn>>
store == <<channel, nextId, sent>>

Modes == {"none", "pull", "push", "local", "remote", "restore"}
Phases == {"idle", "download", "backup", "overwrite", "scan", "send", "prune",
           "save"}

Keep == IF MaxVersions = 0 THEN 1 ELSE MaxVersions
\* A variant with a bug: one version too few is kept.
DoomedOneTooMany(S) == {m \in S : Cardinality(Better(m, S)) >= Keep - 1}
Doomed(S) == {m \in S : Cardinality(Better(m, S)) >= Keep}

Unsynced == [last |-> 0, hash |-> None]

Init ==
    /\ channel = {} /\ nextId = 1 /\ sent = {}
    /\ folder = [d \in Devices |-> Absent]
    /\ backup = [d \in Devices |-> None]
    /\ state = [d \in Devices |-> Unsynced]
    /\ disk = [d \in Devices |-> Unsynced]
    /\ pc = [d \in Devices |-> "idle"]
    /\ mode = [d \in Devices |-> "none"]
    /\ seen = [d \in Devices |-> None]
    /\ number = [d \in Devices |-> 0]
    /\ payload = [d \in Devices |-> None]
    /\ anc = [c \in Contents |-> {}]
    /\ touched = [d \in Devices |-> "no"]
    /\ torn = [d \in Devices |-> FALSE]

-----------------------------------------------------------------------------
\* A player (or anything else on the device) rewrites the save folder.
Play(d, c) ==
    /\ anc[c] = {}
    /\ anc' = [anc EXCEPT ![c] = {c} \cup IF folder[d] \in Contents
                                            THEN anc[folder[d]] ELSE {}]
    /\ folder' = [folder EXCEPT ![d] = c]
    /\ touched' = [touched EXCEPT ![d] =
                     CASE pc[d] \in {"download", "backup"} -> "afterCheck"
                       [] pc[d] = "overwrite" -> "afterBackup"
                       [] OTHER -> @]
    /\ UNCHANGED <<channel, nextId, backup, state, disk, pc, mode, seen,
                   number, payload, sent, torn>>

\* The operation of d goes on (or, at "idle", returns) in phase p.
Goto(d, p, m, v, c) ==
    /\ pc' = [pc EXCEPT ![d] = p]
    /\ mode' = [mode EXCEPT ![d] = m]
    /\ seen' = [seen EXCEPT ![d] = v]
    /\ payload' = [payload EXCEPT ![d] = c]
    /\ number' = [number EXCEPT ![d] = 0]
    /\ backup' = [backup EXCEPT ![d] = None]
Return(d) == Goto(d, "idle", "none", None, None)

SetState(d, n, h) ==
    /\ state' = [state EXCEPT ![d] = [last |-> n, hash |-> h]]
    /\ torn' = [torn EXCEPT ![d] = FALSE]

\* A variant with a bug: a folder that was never synced counts as clean.
DirtySinceSync(d, latest) ==
    /\ folder[d] \notin {Absent, Empty}
    /\ state[d].hash # None /\ folder[d] # state[d].hash

\* local_is_dirty: an empty or absent folder never is; without a recorded hash,
\* content equal to the remote's is not a conflict.
Dirty(d, latest) ==
    /\ folder[d] \notin {Absent, Empty}
    /\ folder[d] # IF state[d].hash = None THEN latest.content ELSE state[d].hash

-----------------------------------------------------------------------------
\* pull finds another latest version than the last synced one and the folder clean.
\* NoRemoteSave, AlreadyUpToDate and Conflict (a dirty folder) change nothing.
PullNewer(d) ==
    /\ pc[d] = "idle"
    /\ \E v \in channel :
         /\ IsLatest(v, channel) /\ state[d].last # v.number /\ ~Dirty(d, v)
         /\ Goto(d, "download", "pull", v, None)
    /\ UNCHANGED <<store, folder, state, disk, anc, touched,
                   torn>>

\* apply_version: download by number.  NotFound ends the operation.
Download(d) ==
    /\ pc[d] = "download"
    /\ \/ /\ \A m \in channel : m.number # seen[d].number
          /\ Return(d)
          /\ touched' = [touched EXCEPT ![d] = "no"]
       \/ /\ \E m \in channel :
               /\ IsHit(m, seen[d].number, channel)
               /\ Goto(d, "backup", mode[d], seen[d], m.content)
          /\ UNCHANGED touched
    /\ UNCHANGED <<store, folder, state, disk, anc, torn>>

\* A variant with a bug: the overwrite starts without a backup.
SkipBackup(d) ==
    /\ pc[d] = "backup"
    /\ pc' = [pc EXCEPT ![d] = "overwrite"]
    /\ UNCHANGED <<store, folder, backup, state, disk, mode, seen, number, payload, anc, touched, torn>>

\* backup: the folder as it is now, unless there is none.
Backup(d) ==
    /\ pc[d] = "backup"
    /\ backup' = [backup EXCEPT ![d] = folder[d]]
    /\ pc' = [pc EXCEPT ![d] = "overwrite"]
    /\ UNCHANGED <<store, folder, state, disk, mode, seen, number, payload, anc, touched, torn>>

\* clear_folder, unpack_folder, and the sync state of what was unpacked.  Unpacking
\* nothing makes no folder, and packing the absent folder again fails.
Overwrite(d) ==
    /\ pc[d] = "overwrite"
    /\ \/ /\ folder[d] = Absent /\ payload[d] = Empty
          /\ Return(d)
          /\ UNCHANGED <<folder, state, torn>>
       \/ /\ folder[d] # Absent \/ payload[d] # Empty
          /\ folder' = [folder EXCEPT ![d] = payload[d]]
          /\ SetState(d, seen[d].number, payload[d])
          /\ Goto(d, "save", mode[d], None, None)
    /\ touched' = [touched EXCEPT ![d] = "no"]
    /\ UNCHANGED <<store, disk, anc>>

-----------------------------------------------------------------------------
\* push (when a game has closed): pack the folder, look at the latest version.
\* An absent folder has nothing to push.  A Conflict changes nothing.
PushSame(d) ==
    /\ pc[d] = "idle"
    /\ \E v \in channel :
         /\ IsLatest(v, channel) /\ v.content = folder[d]
         /\ SetState(d, v.number, folder[d])
         /\ Goto(d, "save", "push", None, None)
    /\ UNCHANGED <<store, folder, disk, anc, touched>>

Room == nextId + Cardinality({e \in Devices : pc[e] \in {"scan", "send"}})
          <= MaxSends

\* Variant with a bug: the version the device last synced is not compared with the
\* latest one.
PushOverAnything(d) ==
    /\ pc[d] = "idle" /\ folder[d] # Absent /\ Room
    /\ \/ channel = {} /\ Goto(d, "scan", "push", None, folder[d])
       \/ \E v \in channel :
            /\ IsLatest(v, channel) /\ v.content # folder[d]
            /\ Goto(d, "scan", "push", v, folder[d])
    /\ UNCHANGED <<store, folder, state, disk, anc, touched, torn>>

PushNew(d) ==
    /\ pc[d] = "idle" /\ folder[d] # Absent /\ Room
    /\ \/ channel = {} /\ Goto(d, "scan", "push", None, folder[d])
       \/ \E v \in channel :
            /\ IsLatest(v, channel) /\ v.content # folder[d]
            /\ state[d].last = v.number
            /\ Goto(d, "scan", "push", v, folder[d])
    /\ UNCHANGED <<store, folder, state, disk, anc, touched,
                   torn>>

\* resolve(PushLocal): identical content only moves the state; otherwise the local
\* save is pushed over whatever is there.
ResolveSame(d) ==
    /\ pc[d] = "idle"
    /\ \E v \in channel :
         /\ IsLatest(v, channel) /\ v.content = folder[d]
         /\ SetState(d, v.number, v.content)
         /\ Goto(d, "save", "local", None, None)
    /\ UNCHANGED <<store, folder, disk, anc, touched>>

ResolveLocal(d) ==
    /\ pc[d] = "idle" /\ folder[d] # Absent /\ Room
    /\ \A v \in channel : IsLatest(v, channel) => v.content # folder[d]
    /\ Goto(d, "scan", "local", None, folder[d])
    /\ UNCHANGED <<store, folder, state, disk, anc, touched,
                   torn>>

\* resolve(TakeRemote): the latest version, whatever the folder holds.
ResolveRemote(d) ==
    /\ pc[d] = "idle"
    /\ \E v \in channel : /\ IsLatest(v, channel)
                          /\ Goto(d, "download", "remote", v, None)
    /\ UNCHANGED <<store, folder, state, disk, anc, touched,
                   torn>>

\* restore_version: the version with the number the user picked.
Restore(d, n) ==
    /\ pc[d] = "idle"
    /\ \E v \in channel : /\ IsHit(v, n, channel)
                          /\ Goto(d, "download", "restore", v, None)
    /\ UNCHANGED <<store, folder, state, disk, anc, touched,
                   torn>>

-----------------------------------------------------------------------------
\* push_version scans again: if the latest is what is being pushed, nothing is
\* sent; else the next number is taken from this scan.
StoreSame(d) ==
    /\ pc[d] = "scan"
    /\ \E v \in channel :
         /\ IsLatest(v, channel) /\ v.content = payload[d]
         /\ SetState(d, v.number, v.content)
         /\ Goto(d, "save", mode[d], None, None)
    /\ UNCHANGED <<store, folder, disk, anc, touched>>

\* A variant with a bug: the state moves before the version is sent.
StoreNewEarly(d) ==
    /\ pc[d] = "scan"
    /\ \A v \in channel : IsLatest(v, channel) => v.content # payload[d]
    /\ \E n \in {1} \cup {m.number + 1 : m \in channel} :
         /\ NextNumber(channel, n)
         /\ number' = [number EXCEPT ![d] = n]
         /\ SetState(d, n, payload[d])
    /\ pc' = [pc EXCEPT ![d] = "send"]
    /\ UNCHANGED <<store, folder, backup, disk, mode, seen, payload, anc, touched>>

StoreNew(d) ==
    /\ pc[d] = "scan"
    /\ \A v \in channel : IsLatest(v, channel) => v.content # payload[d]
    /\ \E n \in {1} \cup {m.number + 1 : m \in channel} :
         /\ NextNumber(channel, n)
         /\ number' = [number EXCEPT ![d] = n]
    /\ pc' = [pc EXCEPT ![d] = "send"]
    /\ UNCHANGED <<store, folder, backup, state, disk, mode, seen, payload, anc, touched, torn>>

\* The send; when its answer is lost the version is stored but the push fails.
Send(d, answered) ==
    /\ pc[d] = "send"
    /\ LET m == [id |-> nextId, number |-> number[d], content |-> payload[d]]
       IN  channel' = channel \cup {m} /\ sent' = sent \cup {m}
    /\ nextId' = nextId + 1
    /\ \/ /\ answered
          /\ pc' = [pc EXCEPT ![d] = "prune"]
          /\ UNCHANGED <<mode, seen, number, payload, backup>>
       \/ ~answered /\ Return(d)
    /\ UNCHANGED <<folder, state, disk, anc, touched, torn>>

\* prune, then the state moves to the version just sent.
Prune(d) ==
    /\ pc[d] = "prune"
    /\ channel' = channel \ Doomed(channel)
    /\ SetState(d, number[d], payload[d])
    /\ Goto(d, "save", mode[d], None, None)
    /\ UNCHANGED <<nextId, sent, folder, disk, anc, touched>>

\* A delete failed (or another device's prune got there first): the oldest few
\* are gone, and the push fails although its version is stored.
PruneFails(d) ==
    /\ pc[d] = "prune"
    /\ \E gone \in SUBSET Doomed(channel) :
         /\ \A m \in gone, o \in Doomed(channel) : Above(m, o) => o \in gone
         /\ channel' = channel \ gone
    /\ Return(d)
    /\ UNCHANGED <<nextId, sent, folder, state, disk, anc,
                   touched, torn>>

\* save_state, by the agent after every operation that moved the state.
Save(d) ==
    /\ pc[d] = "save"
    /\ disk' = [disk EXCEPT ![d] = state[d]]
    /\ Return(d)
    /\ UNCHANGED <<store, folder, state, anc, touched, torn>>

\* What a clear or an unpack that stops halfway leaves behind.
Halfway(d) ==
    folder' \in {[folder EXCEPT ![d] = f] : f \in {folder[d], Empty, Broken, payload[d]}}

\* Any request or file operation fails: the error ends the operation, and what
\* was done stays done.
Abort(d) ==
    /\ pc[d] \notin {"idle", "prune"}
    /\ IF pc[d] = "overwrite"
       THEN Halfway(d) /\ torn' = [torn EXCEPT ![d] = TRUE]
       ELSE UNCHANGED <<folder, torn>>
    /\ Return(d)
    /\ touched' = [touched EXCEPT ![d] = "no"]
    /\ UNCHANGED <<store, state, disk, anc>>

\* The app ends: what is in memory is lost, and the next start reloads the state.
Crash(d) ==
    /\ IF pc[d] = "overwrite" THEN Halfway(d) ELSE UNCHANGED folder
    /\ state' = [state EXCEPT ![d] = disk[d]]
    /\ torn' = [torn EXCEPT ![d] = @ \/ pc[d] = "overwrite" \/ disk[d] # state[d]]
    /\ Return(d)
    /\ touched' = [touched EXCEPT ![d] = "no"]
    /\ UNCHANGED <<store, disk, anc>>

\* A change of the configuration rebuilds the engines with the state on disk.
Reload(d) ==
    /\ pc[d] = "idle" /\ state[d] # disk[d]
    /\ state' = [state EXCEPT ![d] = disk[d]]
    /\ torn' = [torn EXCEPT ![d] = TRUE]
    /\ UNCHANGED <<store, folder, backup, disk, pc, mode, seen, number, payload, anc, touched>>

Step(d) ==
    \/ Download(d) \/ Backup(d) \/ Overwrite(d)
    \/ StoreSame(d) \/ StoreNew(d) \/ Send(d, TRUE) \/ Prune(d) \/ Save(d)

Trouble(d) ==
    Send(d, FALSE) \/ PruneFails(d) \/ Abort(d) \/ Crash(d) \/ Reload(d)

Pull(d) == PullNewer(d)
Push(d) == PushSame(d) \/ PushNew(d)
Command(d) ==
    \/ ResolveSame(d) \/ ResolveLocal(d) \/ ResolveRemote(d)
    \/ \E n \in {m.number : m \in channel} : Restore(d, n)

Next ==
    \E d \in Devices :
      \/ \E c \in Contents : Play(d, c)
      \/ Pull(d) \/ Push(d) \/ Command(d) \/ Step(d) \/ Trouble(d)

Spec == Init /\ [][Next]_vars

-----------------------------------------------------------------------------
\* The types of the state.
TypeOK ==
    /\ channel \subseteq sent /\ sent \subseteq Versions /\ nextId \in Nat \ {0}
    /\ folder \in [Devices -> Folders]
    /\ backup \in [Devices -> Folders \cup {None}]
    /\ state \in [Devices -> SyncStates] /\ disk \in [Devices -> SyncStates]
    /\ pc \in [Devices -> Phases] /\ mode \in [Devices -> Modes]
    /\ seen \in [Devices -> sent \cup {None}] /\ number \in [Devices -> Nat]
    /\ payload \in [Devices -> Saves \cup {None}]
    /\ anc \in [Contents -> SUBSET Contents]
    /\ touched \in [Devices -> {"no", "afterCheck", "afterBackup"}]
    /\ torn \in [Devices -> BOOLEAN]

IsAVersion(s) ==
    s = Unsynced \/ \E m \in sent : m.number = s.last /\ m.content = s.hash

\* The sync state, in memory and on disk, always names a version that was stored
\* and that version's content, whatever operation failed or crashed halfway: all
\* of pull's and push's decisions rest on it (engine.rs:143, 202, 234-235).
StateIsAVersion ==
    \A d \in Devices : IsAVersion(state[d]) /\ IsAVersion(disk[d])

\* The app changes a save folder (an edit by the player changes anc too).
AppWrites(d) == folder'[d] # folder[d] /\ anc' = anc

\* engine.rs:103, "Back up the current save_folder before overwriting": what the
\* app overwrites is in the backups, also when the overwrite stops halfway or the
\* app ends in it.  Only an edit in the moment after the backup escapes.
BackedUp ==
    [][\A d \in Devices : AppWrites(d) =>
         \/ folder[d] \in {backup[d], Absent}
         \/ touched[d] = "afterBackup"]_vars

\* A pull only overwrites a save that was stored in the vault before, so it
\* discards no work, if the folder is left alone after the pull's dirty check.
CleanOverwrite ==
    [][\A d \in Devices :
         (AppWrites(d) /\ mode[d] = "pull" /\ touched[d] = "no") =>
           folder[d] \in {Absent, Empty} \cup {m.content : m \in sent}]_vars

Sends(d) == nextId' # nextId /\ pc[d] = "send" /\ pc'[d] # "send"
Raced(d) == IF seen[d] = None THEN sent # {} ELSE ~ IsLatest(seen[d], sent)
NumbersUnique == \A m, o \in sent : m.number = o.number => m = o
Builds(c) == \A v \in sent : IsLatest(v, sent) /\ v.content \in Contents =>
               v.content \in anc[c]

\* README.md:58-59: a save newer than yours is not silently overwritten.  A close
\* sends a save only on top of the one it was played from, except when another
\* device sent in between, two versions share a number, or the folder was left
\* by an overwrite that was cut short.
ConflictProtection ==
    [][\A d \in Devices :
         (/\ Sends(d) /\ mode[d] = "push" /\ payload[d] \in Contents
          /\ ~Raced(d) /\ NumbersUnique /\ ~torn[d]) => Builds(payload[d])]_vars

-----------------------------------------------------------------------------
History == INSTANCE SaveHistory WITH stored <- channel, ever <- sent,
                                     Contents <- Saves, Limits <- {Keep}

\* The engine's channel, whose scans and prunes are one step each, keeps the promise of
\* the vault's, request by request (vault.rs:173-196): a version is only forgotten when
\* max_versions better ones were stored, however many pushes fail in between.
ImplementsHistory == History!Init /\ [][History!Change]_<<channel, sent>>
=============================================================================
