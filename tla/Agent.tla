------------------------------- MODULE Agent -------------------------------
(***************************************************************************)
(* The agent of one device (crate salvae-agent, agent.rs), driven by the   *)
(* worker's loop (salvae-ui): when it pulls, backs up and pushes the saves *)
(* of the games it watches.                                                *)
(*                                                                         *)
(* The agent runs on one thread; a step is one handler.  Games start, end  *)
(* and write their saves, and other members push, between any two of them. *)
(* What a handler asks of the sync engine is abstracted to its effect: is  *)
(* there work in the folder that was not pushed, and is the vault ahead of *)
(* the version the folder was synced with (SyncEngine has the rest).       *)
(* The detector is abstracted to the games it counts as open (GameWatch).  *)
(***************************************************************************)
EXTENDS Naturals, FiniteSets

CONSTANT Games   \* the installed games

ASSUME GamesAssumption == IsFiniteSet(Games)

VARIABLES
    running,     \* games that have a process
    open,        \* detector.is_open: games that had one in the last listing
    opens,       \* Opened events of this tick not yet handled
    closes,      \* Closed events of this tick not yet handled
    pc,          \* "idle", "tick" or "poll" (poll_remote)
    todo,        \* games poll_remote has still to visit
    pending,     \* pending_pushes: "no", "waiting" or "due"
    configured,  \* games with a folder in some group's game_paths
    work,        \* folder changes since the last sync: "none", "fresh", "backedUp"
    behind,      \* the vault's latest version is not the last synced one
    conflict,    \* the user was told of a conflict and has not resolved it
    missed       \* history: games with a session the agent never heard the start
                 \* or the end of, or whose event it dropped

vars == <<running, open, opens, closes, pc, todo, pending, configured, work,
          behind, conflict, missed>>
saves == <<work, behind, conflict>>
queue == <<open, opens, closes>>

Init ==
    /\ running \in SUBSET Games /\ configured \in SUBSET Games
    /\ open = {} /\ opens = {} /\ closes = {}
    /\ pc = "idle" /\ todo = {}
    /\ pending = [g \in Games |-> "no"]
    /\ work = [g \in Games |-> "none"]
    /\ behind \in [Games -> BOOLEAN]
    /\ conflict = [g \in Games |-> FALSE]
    /\ missed = {}

-----------------------------------------------------------------------------
\* The world around the agent.
Launch(g) ==
    /\ g \notin running
    /\ running' = running \cup {g}
    /\ UNCHANGED <<queue, pc, todo, pending, configured, saves, missed>>

\* A session that no listing saw leaves work nobody will ever hear of.
Quit(g) ==
    /\ g \in running
    /\ running' = running \ {g}
    /\ missed' = IF g \in open THEN missed ELSE missed \cup {g}
    /\ UNCHANGED <<queue, pc, todo, pending, configured, saves>>

Write(g) ==
    /\ g \in running
    /\ work' = [work EXCEPT ![g] = "fresh"]
    /\ UNCHANGED <<running, queue, pc, todo, pending, configured, behind, conflict, missed>>

Publish(g) ==
    /\ behind' = [behind EXCEPT ![g] = TRUE]
    /\ UNCHANGED <<running, queue, pc, todo, pending, configured, work, conflict, missed>>

\* PUSH_STABILIZE_MS pass.  A tick reads the clock once, when it starts.
Mature(g) ==
    /\ pc = "idle" /\ pending[g] = "waiting"
    /\ pending' = [pending EXCEPT ![g] = "due"]
    /\ UNCHANGED <<running, queue, pc, todo, configured, saves, missed>>

-----------------------------------------------------------------------------
\* tick: one listing, through the watcher and the detector.
Listing ==
    /\ pc = "idle"
    /\ pc' = "tick"
    /\ opens' = running \ open
    /\ closes' = open \ running
    /\ open' = running
    /\ UNCHANGED <<running, todo, pending, configured, saves, missed>>

\* engine.pull: a clean folder is brought up to date, a changed one is a conflict.
Pull(g) ==
    /\ behind' = [behind EXCEPT ![g] = @ /\ work[g] # "none"]
    /\ conflict' = [conflict EXCEPT ![g] = @ \/ (behind[g] /\ work[g] # "none")]
    /\ UNCHANGED work

\* A variant with a bug: opening a game leaves its pending push.
OpenKeepsPush(g) ==
    /\ pc = "tick" /\ g \in opens
    /\ opens' = opens \ {g}
    /\ missed' = missed \ {g}
    /\ IF g \in configured THEN Pull(g) ELSE UNCHANGED saves
    /\ UNCHANGED <<running, open, closes, pc, todo, pending, configured>>

\* tick on Opened: cancel the pending push, then handle_open.
Open(g) ==
    /\ pc = "tick" /\ g \in opens
    /\ opens' = opens \ {g}
    /\ pending' = [pending EXCEPT ![g] = "no"]
    /\ missed' = missed \ {g}
    /\ IF g \in configured THEN Pull(g) ELSE UNCHANGED saves
    /\ UNCHANGED <<running, open, closes, pc, todo, configured>>

\* An error returns from tick at once: the events it had not handled are gone,
\* for the watcher and the detector have already moved on.
DropTick ==
    /\ opens' = {} /\ closes' = {} /\ pc' = "idle"
    /\ UNCHANGED <<running, open, todo, configured>>

\* handle_open fails, before or after its pull.
OpenFails(g) ==
    /\ pc = "tick" /\ g \in opens \cap configured
    /\ DropTick
    /\ pending' = [pending EXCEPT ![g] = "no"]
    /\ missed' = (missed \cup opens \cup closes) \ {g}
    /\ Pull(g) \/ UNCHANGED saves

\* Variants with a bug: a close is not backed up, and it schedules no push.
CloseWithoutBackup(g) ==
    /\ pc = "tick" /\ opens = {} /\ g \in closes
    /\ closes' = closes \ {g}
    /\ pending' = [pending EXCEPT ![g] = "waiting"]
    /\ missed' = IF g \in configured THEN missed ELSE missed \cup {g}
    /\ UNCHANGED <<running, open, opens, pc, todo, configured, saves>>
CloseWithoutPush(g) ==
    /\ pc = "tick" /\ opens = {} /\ g \in closes
    /\ closes' = closes \ {g}
    /\ IF g \in configured
       THEN /\ work' = [work EXCEPT ![g] = IF @ = "none" THEN @ ELSE "backedUp"]
            /\ UNCHANGED missed
       ELSE /\ missed' = missed \cup {g}
            /\ UNCHANGED work
    /\ UNCHANGED <<running, open, opens, pc, todo, pending, configured, behind, conflict>>

\* tick on Closed: snapshot_on_close, and the push waits PUSH_STABILIZE_MS.
Close(g) ==
    /\ pc = "tick" /\ opens = {} /\ g \in closes
    /\ closes' = closes \ {g}
    /\ pending' = [pending EXCEPT ![g] = "waiting"]
    /\ IF g \in configured
       THEN /\ work' = [work EXCEPT ![g] = IF @ = "none" THEN @ ELSE "backedUp"]
            /\ UNCHANGED missed
       ELSE /\ missed' = missed \cup {g}
            /\ UNCHANGED work
    /\ UNCHANGED <<running, open, opens, pc, todo, configured, behind, conflict>>

CloseFails(g) ==
    /\ pc = "tick" /\ opens = {} /\ g \in closes \cap configured
    /\ DropTick
    /\ missed' = missed \cup closes
    /\ UNCHANGED <<pending, saves>>

\* tick, after its events: the push of a game whose wait is over (handle_close).
\* With a newer version in the vault it is a conflict, if the contents differ.
Flush(g) ==
    /\ pc = "tick" /\ opens = {} /\ closes = {} /\ pending[g] = "due"
    /\ pending' = [pending EXCEPT ![g] = "no"]
    /\ \/ g \notin configured /\ UNCHANGED saves
       \/ /\ g \in configured /\ behind[g]
          /\ conflict' = [conflict EXCEPT ![g] = TRUE]
          /\ UNCHANGED <<work, behind>>
       \/ /\ g \in configured
          /\ work' = [work EXCEPT ![g] = "none"]
          /\ behind' = [behind EXCEPT ![g] = FALSE]
          /\ UNCHANGED conflict
    /\ UNCHANGED <<running, queue, pc, todo, configured, missed>>

\* The push is given up; its version may have reached the vault all the same.
FlushFails(g) ==
    /\ pc = "tick" /\ opens = {} /\ closes = {} /\ pending[g] = "due"
    /\ g \in configured
    /\ DropTick
    /\ pending' = [pending EXCEPT ![g] = "no"]
    /\ behind' \in {behind, [behind EXCEPT ![g] = @ \/ work[g] # "none"]}
    /\ UNCHANGED <<work, conflict, missed>>

\* The tick is over; poll_remote follows when its interval has passed.
EndTick(poll) ==
    /\ pc = "tick" /\ opens = {} /\ closes = {}
    /\ \A g \in Games : pending[g] # "due"
    /\ IF poll THEN pc' = "poll" /\ todo' = configured
               ELSE pc' = "idle" /\ UNCHANGED todo
    /\ UNCHANGED <<running, queue, pending, configured, saves, missed>>

\* A variant with a bug: the test for running games is inverted.
PollOpenOnly(g) ==
    /\ pc = "poll" /\ g \in todo
    /\ todo' = todo \ {g}
    /\ IF g \in open THEN Pull(g) ELSE UNCHANGED saves
    /\ UNCHANGED <<running, queue, pc, pending, configured, missed>>

\* poll_remote: the next game, skipped if the detector has it open.
Poll(g) ==
    /\ pc = "poll" /\ g \in todo
    /\ todo' = todo \ {g}
    /\ IF g \in open THEN UNCHANGED saves ELSE Pull(g)
    /\ UNCHANGED <<running, queue, pc, pending, configured, missed>>

EndPoll ==
    /\ pc = "poll" /\ todo = {}
    /\ pc' = "idle"
    /\ UNCHANGED <<running, queue, todo, pending, configured, saves, missed>>

PollFails ==
    /\ pc = "poll" /\ todo # {}
    /\ pc' = "idle" /\ todo' = {}
    /\ UNCHANGED <<running, queue, pending, configured, saves, missed>>

-----------------------------------------------------------------------------
\* Commands, between two ticks.  handle_resolve: either way the folder and the
\* vault's latest version agree.
Resolve(g) ==
    /\ pc = "idle" /\ g \in configured
    /\ work' = [work EXCEPT ![g] = "none"]
    /\ behind' = [behind EXCEPT ![g] = FALSE]
    /\ conflict' = [conflict EXCEPT ![g] = FALSE]
    /\ UNCHANGED <<running, queue, pc, todo, pending, configured, missed>>

\* restore: the folder is synced with a version that may not be the latest.
Restore(g) ==
    /\ pc = "idle" /\ g \in configured
    /\ work' = [work EXCEPT ![g] = "none"]
    /\ behind' \in {[behind EXCEPT ![g] = b] : b \in BOOLEAN}
    /\ UNCHANGED <<running, queue, pc, todo, pending, configured, conflict, missed>>

\* set_groups after a change of game_paths; watcher, detector and pending pushes
\* stay.
Reconfigure(g) ==
    /\ pc = "idle"
    /\ configured' = IF g \in configured THEN configured \ {g} ELSE configured \cup {g}
    /\ missed' = missed \cup {g}
    /\ UNCHANGED <<running, queue, pc, todo, pending, saves>>

\* The app ends and starts again: what only the agent knew is lost.
Restart ==
    /\ open' = {} /\ opens' = {} /\ closes' = {} /\ todo' = {} /\ pc' = "idle"
    /\ pending' = [g \in Games |-> "no"]
    /\ missed' = missed \cup open \cup opens \cup closes
    /\ UNCHANGED <<running, configured, saves>>

World(g) == Launch(g) \/ Quit(g) \/ Write(g) \/ Publish(g) \/ Mature(g)
Handle(g) == Open(g) \/ Close(g) \/ Flush(g) \/ Poll(g)
Command(g) == Resolve(g) \/ Restore(g) \/ Reconfigure(g)
Trouble(g) == OpenFails(g) \/ CloseFails(g) \/ FlushFails(g)

CalmNext ==
    \/ \E g \in Games : World(g) \/ Handle(g) \/ Command(g)
    \/ Listing \/ EndTick(TRUE) \/ EndTick(FALSE) \/ EndPoll
Next ==
    \/ CalmNext
    \/ \E g \in Games : Trouble(g)
    \/ PollFails \/ Restart

Spec == Init /\ [][Next]_vars

\* The worker ticks whenever no command arrives for a tick interval, a handler
\* returns, 5 s pass, and every REMOTE_POLL_INTERVAL_MS a tick is followed by a poll.
Fairness ==
    /\ WF_vars(Listing) /\ WF_vars(EndPoll)
    /\ SF_vars(EndTick(TRUE))
    /\ \A g \in Games : WF_vars(Handle(g)) /\ SF_vars(Mature(g))
CalmSpec == Init /\ [][CalmNext]_vars /\ Fairness

-----------------------------------------------------------------------------
\* The types of the state.
TypeOK ==
    /\ running \subseteq Games /\ open \subseteq Games
    /\ opens \subseteq open /\ closes \subseteq Games \ open
    /\ pc \in {"idle", "tick", "poll"} /\ todo \subseteq configured
    /\ (pc # "tick" => opens = {} /\ closes = {}) /\ (pc # "poll" => todo = {})
    /\ configured \subseteq Games /\ missed \subseteq Games
    /\ pending \in [Games -> {"no", "waiting", "due"}]
    /\ work \in [Games -> {"none", "fresh", "backedUp"}]
    /\ behind \in [Games -> BOOLEAN] /\ conflict \in [Games -> BOOLEAN]

\* agent.rs:153, "opening a game cancels its pending push": between ticks no
\* game that is open has a push pending, whatever opened and closed in which
\* listing, unless an error dropped its Opened event.
OpenHasNoPush ==
    pc # "tick" => \A g \in open \ missed : pending[g] = "no"

\* agent.rs:37-38, "backed up immediately on close": what a session wrote is in
\* the backups from the tick that reports its end, before any push is tried, if
\* the agent heard of the session.
ClosedIsBackedUp ==
    pc # "tick" =>
      \A g \in configured \ (open \cup running \cup missed) : work[g] # "fresh"

\* README.md:30, "sends yours when you close it": work left by a session the agent
\* heard of is pushed, or the user is told of a conflict, unless the game is
\* started again or its configuration changes.
SyncsAfterClose ==
    \A g \in Games :
      (g \in configured \ (running \cup missed) /\ work[g] # "none") ~>
      (work[g] = "none" \/ conflict[g] \/ g \in running \/ g \notin configured)

\* agent.rs:193-194, "so a member receives a teammate's save without having to
\* launch the game": it arrives, or is a conflict.
ArrivesWithoutLaunch ==
    \A g \in Games :
      (g \in configured \ running /\ behind[g]) ~>
      (~behind[g] \/ conflict[g] \/ g \in running \/ g \notin configured)
=============================================================================
