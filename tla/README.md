# A verification development for Salvaê

Salvaê keeps the saves of single-player and self-hosted games in step between
the members of a group.  There is no server: an encrypted copy of each save is a
message in a private Discord channel, and every member's computer pulls, pushes
and prunes those messages on its own.  Nothing serialises the members.  This
directory holds TLA+ modules for the parts of the program that decide what
happens to a save, the TLC runs that check them, and theorems proved with TLAPS.

Paths below are relative to `src/crates/`.

## 1. The system

| Component | State | Operations | Talks to |
|---|---|---|---|
| **Vault** `salvae-vault/src/vault.rs` | none of its own; the channel's messages are the state, shared by all devices | `push_version` (scan, number, send, prune), `download`, `latest_version`, `list_versions`, `prune` | the `Channel` trait, one HTTP request per call |
| **Transport** `salvae-discord/src/{discord,retry}.rs` | an HTTP client with a 30 s timeout | list a page, send, delete, fetch an attachment, bounded retries on 429 | Discord |
| **Sync engine** `salvae-sync/src/engine.rs`, `state.rs` | the sync state (last version and hash per game), the `.svpk` backups | `pull`, `push`, `resolve`, `restore_version`, `snapshot` | the vault, the save folder |
| **Presence markers** `salvae-sync/src/marker.rs`, `engine.rs` 298-375 | messages with an expiry in the same channel | `begin_playing`, `who_is_playing`, `end_playing` | the channel |
| **Packing** `salvae-sync/src/pack.rs` | none | `pack_folder`, `unpack_folder` | the save folder |
| **Watcher and detector** `salvae-watch/src/{process,detector}.rs` | the last listing; `pid_game`, `open_counts` | `poll`, `process`, `is_open` | the operating system, the agent |
| **Agent** `salvae-agent/src/agent.rs` | `pending_pushes`, the groups' engines | `tick`, `handle_open`, `handle_close`, `poll_remote`, `handle_resolve`, `restore`, `set_groups` | watcher, detector, engine |
| **Backend and worker** `salvae-ui/src/{agent_backend,worker}.rs` | the time of the last poll; the configuration store; the agent | `tick` with its background poll; one function per command; `rebuild_agent` | the agent, the window (two channels) |
| **View model** `salvae-ui/src/viewmodel.rs` | what the window shows: groups, conflicts, the wizard's lists, an update | fold an `Event` | the worker |
| **Window** `salvae-ui/src/app.rs` | the wizard's form, which conflict was surfaced | type, pick, go on and back, create, resolve, apply an update; drain the events of a frame | view model, worker |
| **Self-update** `salvae-ui/src/update.rs` | the pending update, kept by the backend | look for a newer release, download, check, run its installer | GitHub |
| **Configuration** `salvae-config/src/{store,dpapi}.rs` | `config.toml` and `secrets.dat` | create, join, remove a group; game paths; token | the backend |
| **Core** `salvae-core/src/` | none | key derivation, sealing, compression, chunking, hashing | vault, marker, config |
| **Game detection** `salvae-detect/src/` | an armed snapshot | read launcher manifests, find save folders, compare two snapshots, match a process to a game | the disk, backend, detector |

How they interact.  A worker thread waits for a command or, when none comes for
a tick interval, ticks the backend.  A tick lists the processes once, turns the
difference from the previous listing into game events, and handles them in turn:
`Opened` cancels the game's pending push, reads the playing markers, pulls, and
posts a marker; `Closed` backs the folder up and schedules a push five seconds
later.  Pushes that are due follow, and every 20 s a `poll_remote` over all
games that the detector does not count as open.  Any error leaves the tick at
once.  Commands from the window are handled one at a time by the same thread: those
that change the configuration write `secrets.dat`, memory and `config.toml` one
after the other, rebuild the agent's groups from them, and answer with the new
list of groups.  The window never waits for an answer: it sends a command, goes on,
and applies whatever events have come in to whatever it shows by then.

What is hard about it:

* members interleave request by request on one channel with no lock, no
  transaction and no compare-and-swap;
* a listing takes several requests and is not a snapshot;
* a request may fail, or be done and not answered;
* the save folder belongs to a game that may start and write at any moment,
  between a check and the action that relies on it, and between two files of one
  pack;
* a folder is overwritten in two phases, and the state file is written after
  that: the app can end between any two of them;
* an answer may arrive after the question was withdrawn, changed or asked again;
* a save folder is found by a score over folders nobody designed;
* a new group is two files, neither written atomically, and closing the window
  ends the process in the middle of whatever the worker does;
* the watcher has already moved on when a handler of its events fails.

What makes each component correct: a vault never loses the best save and deletes
only what was outlived; the engine's state always names a version that exists,
it backs up before it overwrites, and does not upload over a save it was not
played from; the detector's counts are exact; the agent pushes every session it
heard of and never while the game runs; the configuration on disk can always be
started from, and the agent and the window follow it; markers are seen while they are active,
and a handled close leaves none; what the window shows and sends fits what the
worker knows; the folder that is found is the best one in reach.

## 2. The modules

| Module | Models | Uses |
|---|---|---|
| `VersionOrder` | the three orders of versions: `latest_version` (oldest message of the highest number), `download` (newest message of a number), `prune` (number, then message) | |
| `Paging` | `list_messages(before, limit)` and the cursor of the loops over it | |
| `Vault` | all of `vault.rs` for one game, one request per step, on every device at once, with other traffic in the channel | `VersionOrder`, `Paging`, `SaveHistory` |
| `SaveHistory` | the abstract specification of a vault: versions are stored, and forgotten only when enough better ones were | |
| `SyncEngine` | pull, push, resolve, restore and the sync state in memory and on disk, on every device at once | `VersionOrder`, `SaveHistory` |
| `Sessions` | the abstract specification of the detector: each listing is told in full, its games open before those that left it close | |
| `Presence` | playing markers, page by page, with expiry, as `handle_open` and `handle_close` drive them | `Paging` |
| `GameWatch` | the watcher's listing and the detector's counts, event by event | `Sessions` |
| `Settings` | the configuration store and the commands that change it, write by write, with the agent built from it and the window that shows it | |
| `Transfer` | one device's packing, clearing and unpacking of a folder, file by file, with the retried requests between | |
| `Window` | the wizard that creates a group, the conflict dialog, the update button, and the two queues between window and worker | |
| `Detect` | the search of a save folder, snapshots and what changed between them, the game of a process | |
| `Agent` | one device's tick, handlers, pending pushes, background poll and commands | |
| `VaultProofs`, `AgentProofs`, `SyncEngineProofs`, `SettingsProofs`, `PresenceProofs`, `TransferProofs`, `WindowProofs` | the theorems about the module of that name | |
| `GamesProofs` | the theorems about `GameWatch` and `Detect` | both |
| `MC*` | instances for TLC | |

`Vault` opens up the scans that `SyncEngine` takes as one step; `SyncEngine`
opens up the `pull` and `push` that `Agent` takes as one step; `GameWatch` opens
up the `open` set that `Agent`'s `Listing` computes; `Transfer` opens up the
overwrites, packs and requests that `SyncEngine` takes as one step each; `Window`
has the parts of the window that `Settings` leaves out, and `Detect` the function that
`GameWatch` has as the constant `GameOf` (`MatchingIsGameOf`).  `SaveHistory` says
in a few lines what `Vault` promises, and `SyncEngine`, which has a scan or a prune as one
step, keeps the same promise; `Sessions` says what `GameWatch` promises.

How state and actions correspond to the code:

* **Vault.**  `channel` and `noise` are the messages now; `pc`, `found`,
  `before`, `chunk` are the locals of the running call.  `ListPage` is one turn
  of `scan`'s loop; `Unchanged`/`Send` the two ends of `push_version`'s check;
  `PlanPrune`/`Delete` the sort and the loop of `prune`; `Find`/`Fetch`
  `download`, which looks its message up again for each chunk.  `Fail`,
  `Send(d, FALSE)` and `Delete(d, FALSE)` are requests that fail and requests
  whose answer is lost.  `sent` and `since` are history.
* **SyncEngine.**  `folder`, `backup`, `state`, `disk` are the save folder, the
  `.svpk` file of the running overwrite, and `SyncState` in memory and in its
  file.  `PullNewer, Download, Backup, Overwrite, Save` are `pull`, with
  `apply_version`, and the agent's `save_state`; `PushNew, StoreNew, Send,
  Prune, Save` are `push`, with `do_push` and `push_version`.  `Abort` is an
  error at any of these points (an overwrite may leave the folder `Empty` or
  `Broken`), `Crash` the end of the app, `Reload` the rebuild of the engines
  from the state files after a configuration change.  `anc` records what each
  save was played from, `torn` whether the folder may not descend from the
  synced version.
* **Presence.**  `markers` are the messages with their expiry; `Look`, `Post`,
  `ListOwn`, `Delete`, `NextPage` the requests of the three operations.  `due`
  is the pending push whose handling ends the marker.
* **GameWatch.**  `Poll(hidden)` is `Watcher::poll` with a listing that may leave
  out processes; `Started` and `Stopped` are one event through the detector.  To
  `Sessions` a `Poll` is a `Listing`, the first process of a game is `Opened`, the
  last one `Closed`, and every other event nothing.
* **Settings.**  `config`, `toml`, `secrets` are the configuration in memory and
  the two files, `runtime` what the agent works with, `shown` what the window
  lists.  The first command of `queue` is being handled; `todo` are the steps it
  has left, from tables in the order of the code (`AddSteps` and so on).
  `Change, SetSecret, RemoveSecret, SaveConfig, Rebuild, Reply` are those steps.
  `Fail(cut)` is an error, `Crash(cut)` the end of the app, each with or without
  a half-written file; `Start` and `StartFails` the next start.  `joined`,
  `asked` and `lapsed` are history.
* **Transfer.**  `folder` and a pack are functions from file names to data.
  `todo` holds the files that were listed and not yet read, removed or written:
  `Read`, `Clear` and `Unpack` take one, in any order, and the game's `Write` and
  `Delete` come between.  `goal` says what a pack is for, `Packed*` what follows it.
  `ask`, `download` and `post` are the requests; `Again` is a refusal with retries
  left, `Unanswered` every other end of a request, `Io` a file that is gone or
  cannot be read or written.  `touched` is history: which of the game's writes the
  dirty check, and which also the backup, came too early for.
* **Window.**  `form` is the wizard's part of `Forms`, `vm` the part of
  `ViewModel` it and the dialog read.  The user's actions are the widgets, each with
  the guard under which it is shown; `Frame` is `drain_events` with
  `surface_conflicts`; `Serve` is the worker's next command, `TickConflict` and
  `TickUpdate` what an idle worker sends.  `raised`, `asked`, `failed` and `hasty`
  are history.
* **Detect.**  The disk is a set of units (files alike in folder and kind) with a
  stamp each.  Everything else is a function of the disk: `FindSaveDir` with its
  score, `Capture`, `Diff` and `Collect`, and `Match` with the list `games` that `Load` makes.
  `Visits` are the folders in the one order in which `walk` meets them, `Heuristic` its
  pass over them.  The properties compare these passes with definitions that do not walk.
  (`Detect`'s specification is `DetectSpec`, and so on: it is extended together with
  `GameWatch`.)
* **Agent.**  One step per handler.  `work` abstracts the folder (nothing new,
  new, new but backed up), `behind` the vault (its latest version is not the
  synced one).  `missed` is history: games whose start or end the agent never
  heard of or dropped.

## 3. Runs

| Run | Instance | Shows |
|---|---|---|
| `vault` | 2 devices, 2 contents, pages of 2, 4 messages, `max_versions` 0 on one device and 2 on the other | `RecentKept`, `NeverLost`, `ScanComplete`, `PruneBounds`, and `ImplementsHistory` |
| `vault_live` | pages of 1, 2 chunks, 2 messages | `CallsReturn` |
| `sync_safe` | 2 devices, 2 contents, 3 sends, 2 versions kept; 2 failures or crashes of one device | `StateIsAVersion`, `BackedUp`, `CleanOverwrite`, `ConflictProtection`, and `ImplementsHistory` |
| `sync_restore` | 3 contents, no failures | **violated**: a restore is undone by the next pull, and the conflict the comment promises never comes |
| `watch` | 3 pids, 2 games and a program that is no game | `CountsMatch`, `OpenAsTold`, `OpenIffListed`, `ClosesEventually`, and `ImplementsSessions` |
| `agent_safe` | 2 games, failing handlers, restarts | `OpenHasNoPush`, `ClosedIsBackedUp` |
| `agent_live` | 1 game, no failures | `SyncsAfterClose`, `ArrivesWithoutLaunch` |
| `presence` | 2 devices, pages of 1, 3 messages, one expiry | `SeesWhoPlays`, `CloseLeavesNoMarker` |
| `settings` | 2 groups, 1 game, 2 tokens, 4 commands of which 2 wait; any step fails, any write is cut | `Startable`, `JoinedStays`, `AgentFollows`, `WindowFollows` |
| `transfer` | 2 files, 2 data, 2 versions, 2 writes by the game, 1 retry | `NoRepeats`, `BackedUp`, `PullLosesNothing`, `SyncedIsStored`, `OperationsEnd` |
| `window` | 2 tokens, 2 guilds with a channel each, 2 games, 2 commands or events under way | `ListIsCurrent`, `DialogMatches`, `CreateFits`, `ConflictSurfaces` |
| `detect` | 5 kinds of files and an empty folder, 2 roots, 3 games, 4 writes | `FindsBest`, `NearTheGame`, `WritesAreFound`, `OwnerIsFound` |

Type invariants are theorems (section 4).
The property that is violated is a sentence of a comment in the code, which
`PROJECT.json` quotes.

### Bounds, and why they are enough

Unbounded in the code and bounded here: messages (`MaxMessages`, `MaxSends`),
time (`MaxTime`), failures (`MaxTroubles`), commands (`MaxCommands`,
`MaxQueue`).  All are guards of the actions that use them up, and none bounds an invariant.

* Every vault hazard needs two devices: one call overtaken by another.
  `max_versions` is a setting of each device's own file, so the two may differ:
  one has 0 (kept as 1) and prunes from the second version on, the other 2 and prunes
  from the third on, which is where a device that keeps several can delete too much.
  Four messages give prunes that overlap, duplicate numbers, and lists of doomed
  versions that another device has begun to delete.  Pages of one or two
  messages stand for `SCAN_PAGE = 100`: what matters is that a scan takes
  several requests and that its last page may be full or empty.
* `sync_safe` has two versions kept and three sent, so a device can be one or
  two versions behind and the version it names can be pruned.  Two failures
  cover a push that was stored but not answered, followed by a crash in the pull
  that repairs it.  The other device never fails: what a device sees of
  another's failure is a message that is there or not.
* Presence needs two leftover markers of one device and a message of another
  device between them: three messages on three pages.
* Three pids let a game have two processes while another runs, and a pid be
  reused by another game or by a program that is no game, with the old game still
  running on another pid or not.
* `transfer`: with two files a pack can mix two states, an unpack stop halfway, and a
  save have a file that another has not; two versions and two writes let the game
  write before and after a check while a teammate's version waits; one
  retry is a request that is refused, repeated and refused again.
* `window`: with two commands or events under way, an answer can be overtaken by
  one more question; two guilds and two bots that see different ones let a list, a
  pick and a token each belong to another.
* `detect`: the units are a folder named like the game, its save folder, another game's
  save folder with a hundred files, a noisy folder that holds one named
  like the game, loose save files, and an empty save folder in the install folder;
  every disk made of
  at most four of these is reached, and a unit written twice takes two of the writes.
  At each start any of the launchers' files may be broken and reading either
  launcher's may fail, and games are listed in any order within a launcher.
* Four commands are two groups that are added, one that is removed or whose
  token or folder changes, and one that is queued behind it.  Failures and
  restarts are not bounded.
* One game is enough for `agent_live`, because no step of the agent for one game
  waits for another when nothing fails; the failure that couples games is in
  `agent_safe`, which has two.

Symmetry is used for contents, devices, games, groups and tokens only in runs of invariants and
action properties whose definitions treat them alike, never for liveness.
Deadlock is checked in every run.

### Fairness

* `Vault!FairSpec`: weak fairness of each device's own steps.  The HTTP client
  has a 30 s timeout and the retry loop a fixed number of attempts
  (`discord.rs:32-44`, `retry.rs:16-50`), so a call that has begun keeps taking
  steps.  Nothing is assumed about when calls begin, nor about other traffic.
* `GameWatch!FairSpec`: the loop of `main.rs:106-117`, or the worker's, ticks
  forever and hands every event of a listing to the detector.
* `Agent!Fairness`: the worker ticks when no command arrives for a tick interval
  (`worker.rs:171-176`), which assumes that commands pause; each handler returns;
  five seconds pass (strong, because a tick disables the step); every 20 s the
  end of a tick is followed by a poll (strong, since most ticks end without one).
  `agent_live` excludes failures: after a failed push the code does not try
  again before the next session, so with failures `SyncsAfterClose` is false.

* `Transfer`: weak fairness of the engine's steps and of their failures together.  A
  request ends by the client's 30 s timeout, it is repeated at most `max_retries`
  times, and reads and writes of local files return; which of them succeed is
  left open.  Nothing is assumed of the game, of teammates or of the start of operations.

## 4. Theorems

All hold for every value of the constants that satisfies the named assumptions
(finite sets of devices or games, a page size of at least one, and so on).

**Vault** (`VaultProofs`).  `TypeCorrect`, `PruneKeepsRecent` (`RecentKept`),
`SaveNeverLost` (`[]NeverLost`), `VaultKeepsHistory` (`ImplementsHistory`),
`VaultImplementsHistory` (`SaveHistory`'s own specification), `ScansComplete`
(`[]ScanComplete`), `PrunesBound` (`PruneBounds`).  `RecentKept` is about the step
that deletes, which is a later one than the step that ranked what it deletes, and by
then other devices have sent and deleted.  The invariant says that every message id is below the next one
(`IdsBelowNext`, so that ids tell versions apart) and that whatever a prune has
planned to delete has at least `Keep(d)` better versions among those ever sent
(`DoomedOutranked`).  Versions are ever only added to `sent`, so what was
outranked stays so; and what a step takes from `channel` while it changes a device's
`found` is one of the versions that device doomed (`DeletedByOne`).  `NeverLost`
follows: the best version ever sent has no better one, every `Keep(d)` is at least one, so no prune dooms it.  The
refinement uses the same invariant: a `Send` is a `Store`, a `Delete` a `Forget` of one version
or, when the message is already gone, a stutter.  The two promises of a scan need
`ScanInv`: what was there when the scan began and has not been found lies below its
cursor.  That a page keeps it is a fact about pages: the
messages a full page leaves out are older than those it shows, and a page that is not
full shows all.  What a prune keeps is counted by ranking it: of versions none of
which has `Keep` better ones there are at most `Keep` (`FewAreKept`).

**GameWatch** (`GamesProofs`).  `TypeCorrect`, `CountsExact`,
`EventsAlternate`, `OpenMeansListed`, `GameWatchImplementsSessions`.  Between the
events of one poll the
detector lags behind the listing; the invariant (`Lag`) says by exactly which
events, and with it that a game's count is the number of pids recorded for it.
The refinement has a lemma for each kind of step (`PollPromise`, `StartedPromise`,
`StoppedPromise`).  It needs `Lag` where `Sessions` allows a `Closed` only once no
game of the listing is left to open, and only of a game that is not listed: stops are
processed after all starts, and when the last process of a game goes, none that
is listed was recorded for it.  `first` keeps the executable that a listed pid had when
it appeared; the recorded game is always that executable's, which is why the promise
holds also for a pid that changed hands between two listings.

**Detect** (`GamesProofs`).  `DetectTypeCorrect`, `BestAlwaysFound` (`FindsBest`),
`AlwaysNearTheGame`, `WritesAlwaysFound` (`WritesAreFound`), `OwnerAlwaysFound`
(`OwnerIsFound`), for every disk, search roots, directory order and names; and
`MatchingIsGameOf`, that what a process is matched to is the `GameOf` that `GameWatch` assumes,
until the program starts again.  The inductive part is
small: `SnapshotInv` says that a file that was not written since the snapshot is in it
if it is there, and that one that was has a newer stamp.  The work is in the functions.
A sum of files does not depend on the order it is taken in (`AnyFirst`, `SameSum`, from
which `Sums`).  The order in which `walk` meets the folders is strict and total
(`Irreflexive`, `Transitive`, `Total`), and counting what comes before each element
numbers a finite set in such an order (`Numbering`), so every folder is visited once
(`VisitsAre`).  After any number of visits the best so far is the first of the highest
score among them (`BestSoFar`).  Only a folder's own name, or its parent's, scores 100,
and all else together stays below (`ScoreIs`), hence `NearTheGame`.  The candidates
divide the written files by key (`CandidatesCover`).  `OwnerAlwaysFound` has a
hypothesis: no install folder contains another.  Steam and Epic install each game in a
folder of its own, the instance checked satisfies it, and without it the code takes the
first in the order of the listing.

**Agent** (`AgentProofs`).  `TypeCorrect`, `OpenCancelsPush`, `CloseKeepsWork`.
The properties speak of the state between ticks; the invariants say what holds
in the middle of one: a game that is open with a push pending still has its
`Opened` event to be handled (or dropped), and work that is not in the backups
belongs to a game that runs, or whose `Closed` event is still to come.

**SyncEngine** (`SyncEngineProofs`).  `TypeCorrect`, `StateAlwaysAVersion`,
`AlwaysBackedUp`, `PullsOverwriteClean`, `ConflictsAlwaysSeen`, for any number of devices.
An operation decides in one step and acts in later ones, so each property needs what was decided
to be still true: `WorkInv` (the version decided on was stored), `SoundInv` (what was
downloaded is that version's content; the folder is what was backed up, unless
touched since; a folder a pull found clean is a saved one).  `ConflictProtection` compares a
save with what it was played from, and needs `LineageInv`: a folder that is not
`torn` descends from the content it was last synced with, what is being pushed is
that folder's content or an ancestor of it, and a push under way built on the version it saw.
The last step is that the version seen is the only latest one, which is
where unique numbers and the absence of a race come in.
`EngineKeepsHistory` (`ImplementsHistory`) and `EngineImplementsHistory` relate the engine's
channel to `SaveHistory`: an id is above all former ones (`IdsBelow`), and what a prune dooms
among the versions that are left was outranked among all that were sent
(`DoomedIsOutlived`).  `EngineKeepsBest` follows in the same way as the vault's
`SaveNeverLost`.  So the channel that the engine's proofs assume, and the one that the
vault's requests make, are implementations of one specification.

**Transfer** (`TransferProofs`).  `TypeCorrect`, `NeverRepeats`, `AlwaysBackedUp`,
`PullsLoseNothing`, `SyncedAlwaysStored`: file by file, for any set of files and any
interleaving with the game.  `BackupInv`: while the backup is read and the
folder cleared, every file in it is still to be read, is in the backup as it is, or was
written late.  `VersionInv`: what is unpacked is the stored version, and
the folder becomes it but for late writes.  `PullInv`: while a pull checks a folder and after it
found it clean, every file is as some stored version has it or was touched since it was read.

**Presence** (`PresenceProofs`).  `TypeCorrect`, `CloseAlwaysClears`,
`AlwaysSeesWhoPlays`.  `CloseInv`: the markers of a device that its close has not
deleted yet are among the doomed or, behind a full page, below the cursor.
`SeesInv`: a device to be seen is in the result or its marker is below the cursor;
it needs `SessionInv`, that the marker of a session under way is in the channel while no
handler of its device runs, which is what keeps an earlier close from removing it.

**Settings** (`SettingsProofs`).  `TypeCorrect`, `AlwaysStartable`,
`JoinedAlwaysStays`, `AgentAlwaysFollows`, `WindowAlwaysFollows`.  Each property holds between
commands because of what the command under way has still to do, so the proofs rest on
`Progress`, which reads off the number of steps left which of them were made.
`DiskInv` orders the two files (the secret is stored before the group is listed, and
deleted only after the removal was asked for); `JoinedInv` carries a group that was
reported from memory to the files; `FollowInv` says that a file or an agent that lags behind has its
save or rebuild still ahead, or has lapsed by a failure, and the same of the window.

**Window** (`WindowProofs`).  `WindowTypes`, `WindowListIsCurrent`,
`WindowDialogMatches`, `WindowCreateFits`, `WindowConflictSurfaces`, for any number of
tokens, guilds, channels and games and queues of any length.  The properties compare what is shown with what the worker has
sent, and are false while events are on their way.  So the invariants look ahead: they
speak of the view model as it will be once the events in the queue have been drawn
(`Drained`), so that a frame changes nothing.  `DialogInv`: the dialog then asks about
exactly the unresolved conflicts, each once.  `SurfacedInv`: what was surfaced is what
the dialog shows now.  `ListInv`: of the requests for lists under way the last is
for the picked guild's channels, or it is answered, by an error or by the last event
that sets the channels.  `PickedInv`: a channel picked from a list that was no longer awaited
is in the picked guild.  `Drain` and
`Retain` are recursive functions over a queue; that one more event at its end is one
more step, and that a removal keeps exactly the other conflicts, are lemmas (`DrainedMore`,
`Retained`).

What a recursive function computes is proved, here and for `Detect`, without an
induction theorem: of the inputs for which a lemma fails, if there were any, there
would be a least one (`LeastNatural`, `Smallest`), and the step shows that it does not fail.

Only model-checked: all liveness (`CallsReturn`, `ClosesEventually`,
`SyncsAfterClose`, `ArrivesWithoutLaunch`, `OperationsEnd`), which is out of the prover's reach,
and the violation of `RestoreThenConflict`, a counterexample.  Every invariant and
action property of a passing run is a theorem.

## 5. What the models leave out

* Encryption, compression, chunk contents, JSON, messages' wording: a save is
  its content's identity, and what is sealed opens to what was sealed.
* Clocks: `Mature` and `Time` stand for deadlines that pass.
* Games configured in two groups.  `Agent` and `SyncEngine` have one group.
* The state files are written in place; `SyncEngine` takes the write as atomic,
  and `Settings` takes them as readable.
* Folders that change while they are listed: `Transfer` lists in one step, and takes
  the requests of one call (a listing of several pages, a fetch per chunk) as one.
  Its save folder always exists; that packing an absent one fails, after an empty version
  was unpacked (`engine.rs:141`), is in `SyncEngine`'s `Overwrite`.
* In `Transfer` no teammate sends while this device's post is under way, so its
  `NoRepeats` is about one device's retries.  Two devices that send at once are in `Vault`
  and `SyncEngine`.
* `SyncEngine` takes a pack and an overwrite as one step each, so its
  `StateIsAVersion` and `CleanOverwrite` do not see what slips in between two files;
  `Transfer` is about that.
* Fuzzy comparison of names, and the parsing of launcher files: `Like` and
  `Installed` are constants of `Detect`, any subset of the launchers' files may be broken.
* A folder whose own name ends like a save file's, which `count_save_files`
  (`resolve.rs:98-112`) counts as a save file of the folder above.

### Not modelled

* The lister of processes on Windows (`system.rs`): operating system calls; their
  effect is `GameWatch!Poll(hidden)`.
* Byte formats, encryption, compression, chunking, key derivation, invites'
  encoding, multipart bodies: functions of bytes without state.
* Drawing, theme and icons; the dialogs to join a group and to change a token; the
  list of versions; the activity log.
* Download, checksum and installer of an update: straight-line I/O that ends the
  program.
* The command line program's loading of its configuration.
* Snapshots over a game session: `snapshot.rs` and `candidate.rs` are a library the
  program does not call; `Detect` models the functions, nothing drives them.

### Limits of the code

The runs do not refute these, because a property excepts them or none is about
them; each is visible in a model.

* A pull checks for changes before its download, so what the player writes after the
  check is overwritten without a conflict (it is in the backups unless written
  after the backup; `CleanOverwrite`, `BackedUp` and `PullLosesNothing` except exactly
  these edits).  What the game writes between the unpacking and the packing after it
  (`engine.rs:138-142`) is taken for synced, and a later pull may overwrite it
  (`SyncedIsStored` names the case).  A file the game creates while the folder is
  cleared stays in it.
* `push` compares the state with the latest version by number only, and `push_version`
  scans again without comparing (`engine.rs:210`), so a save that another device sent in between
  is superseded without a conflict, where `src/README.md:58-59` says that the app
  warns; `ConflictProtection` excepts this, and two versions of one number.  A folder compared by hash with the last synced
  version is a conflict even when it equals the remote one.
* `latest_version` (`vault.rs:72`, "None if the game has no saves yet") can answer
  None of a game that always had one: a prune deletes the listed versions behind
  the scan's back while a newer one arrives above its cursor.
* An error of one handler drops the other events of the tick (`agent.rs:37-38`): the
  close of another game is then neither backed up nor pushed, and the conflicts that
  earlier handlers returned are not reported (`agent_backend.rs:470-473`).
* A marker is posted once and lives ten minutes (`engine.rs:310`), so whoever plays
  longer is not seen; `SeesWhoPlays` is about markers that have not expired.
* A pid that is reused for another executable between two listings
  (`process.rs:46-47`) is no event: the game of its first executable stays open until the
  pid leaves the listing, and the second's is not opened.  `OpenIffListed` and
  `ImplementsSessions` hold with this meaning of a game being listed.
* `remove_group` deletes a secret before it saves the configuration, so an end in
  between leaves a group without its secret, at which the next start exits
  (`Startable` excepts the groups whose removal was asked for).  The name gate
  opens even if the name could not be saved.
* The wizard lets a channel be picked from the former guild's list until the answer
  comes (`CreateFits` excepts it), and a token be edited after its lists were
  fetched; the validation stays for the edited token; `CreateGroup` sends the token
  untrimmed.
* The dialog shows the version of a game's first conflict, also when the conflict was
  raised again for a newer one (`viewmodel.rs:91`); a conflict that arrives while the
  dialog asks about another does not bring a minimized window to the front before its turn
  comes, though `app.rs:973-974` says "when a new one arrives" (`ConflictSurfaces` is about the
  conflict that the dialog asks about); a second click on Resolve may answer a
  conflict that came after the first was resolved; one that is resolved and raised
  again between two frames does not surface again; ApplyUpdate can be pressed
  repeatedly.
* `candidate.rs:42-43` documents the deepest matching component; the code takes the
  first, which is what `Key` says.  `candidate.rs:45` says folders with a
  matching name score highest; above 100 changed files another wins.  A manifest entry found by
  Steam id hides one found by name even if none of its paths exist; without either, any
  folder with a save-like file may be chosen; one launcher file of Steam that does not parse hides
  all of Steam's games, and one of either launcher that cannot be read all of that
  launcher's; a file rewritten with the same size and time counts as unchanged;
  games are enumerated at the start only.
* A game configured in two groups (`agent.rs:84`) is opened and closed in the first
  and polled in both; `Agent` and `SyncEngine` have one group.

## 6. Plan

Done: vault, sync engine, file transfer, presence, watcher and detector, agent,
settings, window, detection; the refinements of the vault and the engine (`SaveHistory`)
and of the detector (`Sessions`); the proofs of section 4, which cover every invariant and action
property of the runs.  Next, in this order:

1. `Sessions` as what `Agent` hears: its `Listing` events shown to follow the order that
   `Sessions` promises.
2. `Transfer` shown to implement one device of `SyncEngine` with its overwrite in one
   step, for folders that the game leaves alone.
3. A liveness run of the agent with a network that fails for a while and recovers: which
   saves wait for the next session.
4. Two groups that share a folder (`agent.rs:84`): opens in one, polls of both.
5. The dialogs to join a group and to change a token, in `Window`.
