------------------------------ MODULE Settings ------------------------------
(* The configuration of one installation: config.toml and secrets.dat, the copy
   in memory, the agent that is built from them, and the window that shows it.

   The window queues commands (command.rs); the worker (worker.rs) takes them one
   at a time, changes memory and files in the order of store.rs and dpapi.rs,
   rebuilds the agent (agent_backend.rs) and answers with events.  Either file
   is written in place, and the app can end at any point: closing the window ends the
   process without waiting for the worker.

   A group stands for its random id, a configuration of a group for the set of
   its games with a folder, a secret for its token (the key never changes). *)
EXTENDS Naturals, Sequences

CONSTANTS Groups, Games, Tokens, Names,
  NoName,      \* the display name before it is set
  Out,         \* no such group in a configuration
  NoSecret,    \* no such group in secrets.dat
  Broken,      \* a file that does not parse or decrypt
  MaxQueue,    \* bound: commands waiting, lists a tick may leave waiting
  MaxCommands  \* bound: commands ever sent

ASSUME SettingsAssumption ==
  /\ NoName \notin Names
  /\ (\A some \in SUBSET Games : Out # some) /\ NoSecret \notin Tokens
  /\ MaxQueue \in Nat /\ MaxCommands \in Nat

VARIABLES
  config,   \* ConfigStore::config, in memory
  toml,     \* config.toml; a missing file loads as the initial value
  secrets,  \* secrets.dat; a missing file loads as the initial value
  runtime,  \* the agent's groups, with the member name and tokens they use
  up,       \* the app runs
  queue,    \* commands; the worker is at the first one, the rest wait
  todo,     \* what is left to do of the first command
  events,   \* Event::Groups under way to the window
  shown,    \* ViewModel::groups
  sent,     \* how many commands were sent
  drawn,    \* history: group ids in use
  joined,   \* history: groups reported as created or joined, and not lost in a cut write
  asked,    \* history: groups whose removal was requested
  lapsed    \* history: what has not been brought in step since a command failed

files == <<toml, secrets>>
worker == <<config, runtime, queue, todo, events>>
history == <<sent, drawn, joined, asked, lapsed>>
vars == <<config, toml, secrets, runtime, up, queue, todo, events, shown, history>>

GroupMaps == [Groups -> {Out} \union SUBSET Games]
Configs == [name : Names \union {NoName}, games : GroupMaps]
Secrets == [Groups -> Tokens \union {NoSecret}]
Members(games) == {g \in Groups : games[g] # Out}
Fresh == [name |-> NoName, games |-> [g \in Groups |-> Out]]

Commands ==
  [op : {"add"}, group : Groups, token : Tokens] \union
  [op : {"remove"}, group : Groups] \union
  [op : {"token"}, group : Groups, token : Tokens] \union
  [op : {"path", "disable"}, group : Groups, game : Games] \union
  [op : {"name"}, name : Names]

\* What each command does, in the code's order: the secret, the configuration in
\* memory, the file, the agent, the answer.  "add" is CreateGroup and JoinGroup,
\* "path" SetGamePath and EnableSync.  A mutant stands before the
\* definition it is a plausible bug of.
AddConfigFirst == <<"change", "save", "set", "rebuild", "groups">>
AddSteps == <<"set", "change", "save", "rebuild", "groups">>
RemoveUnlisted == <<"change", "unset", "save", "rebuild", "activity">>
RemoveSteps == <<"change", "unset", "save", "rebuild", "groups">>
TokenOnlyStored == <<"set", "activity">>
TokenSteps == <<"set", "rebuild", "activity">>
GameSteps == <<"change", "save", "rebuild", "groups">>
NameSteps == <<"change", "save", "rebuild", "activity">>
Steps == [add |-> AddSteps, remove |-> RemoveSteps, token |-> TokenSteps,
          path |-> GameSteps, disable |-> GameSteps, name |-> NameSteps]

\* build_groups: every group of the configuration with its secret.
TokenIfAny(s, g) == IF s = Broken THEN NoSecret ELSE s[g]
Buildable(c, s) ==
  \A g \in Members(c.games) : s # Broken /\ s[g] # NoSecret
Build(c, s) ==
  [name |-> c.name,
   groups |-> [g \in Groups |->
                 IF c.games[g] = Out THEN Out
                 ELSE [games |-> c.games[g], token |-> TokenIfAny(s, g)]]]

Init ==
  /\ config = Fresh /\ toml = Fresh
  /\ secrets = [g \in Groups |-> NoSecret]
  /\ runtime = Build(Fresh, secrets)
  /\ up = TRUE /\ queue = <<>> /\ todo = <<>>
  /\ events = <<Fresh.games>> /\ shown = Fresh.games
  /\ sent = 0 /\ drawn = {} /\ joined = {} /\ asked = {} /\ lapsed = {}

-----------------------------------------------------------------------------
\* The window.

\* What the window offers: the buttons of the groups and games it shows, which
\* may be behind the commands already queued.
PanelOffers(c) ==
  c.group \in Members(shown) /\ (c.op = "disable" => c.game \in shown[c.group])
\* The dialog for a token stays open when its group goes.
TokenOffered(g) == g \in Members(shown) \union asked
\* A group can be created or joined, and a name given, at any time.
Offered(c) ==
  CASE c.op = "add" -> c.group \notin drawn
    [] c.op \in {"remove", "path", "disable"} -> PanelOffers(c)
    [] c.op = "token" -> TokenOffered(c.group)
    [] c.op = "name" -> TRUE

\* The random id of a new group is drawn here instead of by the worker.
Send(c) ==
  /\ up /\ Len(queue) < MaxQueue /\ sent < MaxCommands
  /\ Offered(c)
  /\ queue' = Append(queue, c) /\ sent' = sent + 1
  /\ drawn' = IF c.op = "add" THEN drawn \union {c.group} ELSE drawn
  /\ asked' = IF c.op = "remove" THEN asked \union {c.group} ELSE asked
  /\ UNCHANGED <<config, files, runtime, up, todo, events, shown, joined, lapsed>>

\* drain_events: a frame applies all that has arrived.
Frame ==
  /\ up /\ events # <<>>
  /\ shown' = events[Len(events)] /\ events' = <<>>
  /\ UNCHANGED <<config, files, runtime, up, queue, todo, history>>

-----------------------------------------------------------------------------
\* The worker.

cmd == Head(queue)
At(step) == up /\ todo # <<>> /\ Head(todo) = step

\* A folder or a token is set only for a group that is known, in the
\* configuration and in the secrets respectively.
Known(c) ==
  CASE c.op \in {"path", "disable"} -> config.games[c.group] # Out
    [] c.op = "token" -> secrets # Broken /\ secrets[c.group] # NoSecret
    [] OTHER -> TRUE

Begin ==
  /\ up /\ todo = <<>> /\ queue # <<>> /\ Known(cmd)
  /\ todo' = Steps[cmd.op]
  /\ UNCHANGED <<config, files, runtime, up, queue, events, shown, history>>

\* Nothing is changed: the group is not known, the invite is bad or out
\* of date, or no save folder was found for the game.
Refuse ==
  /\ up /\ todo = <<>> /\ queue # <<>>
  /\ cmd.op \in {"add", "path"} \/ ~Known(cmd)
  /\ queue' = Tail(queue)
  /\ UNCHANGED <<config, files, runtime, up, todo, events, shown, history>>

Changed ==
  CASE cmd.op = "add" -> [config EXCEPT !.games[cmd.group] = {}]
    [] cmd.op = "remove" -> [config EXCEPT !.games[cmd.group] = Out]
    [] cmd.op = "path" -> [config EXCEPT !.games[cmd.group] = @ \union {cmd.game}]
    [] cmd.op = "disable" -> [config EXCEPT !.games[cmd.group] = @ \ {cmd.game}]
    [] cmd.op = "name" -> [config EXCEPT !.name = cmd.name]

Change ==
  /\ At("change")
  /\ config' = Changed
  /\ todo' = Tail(todo)
  /\ UNCHANGED <<files, runtime, up, queue, events, shown, history>>

\* (load_map takes a file it cannot read for an empty one.)
WriteOverBroken(step, secret) ==
  /\ At(step)
  /\ secrets' = [(IF secrets = Broken THEN [g \in Groups |-> NoSecret] ELSE secrets)
                   EXCEPT ![cmd.group] = secret]
  /\ todo' = Tail(todo)
  /\ UNCHANGED <<config, toml, runtime, up, queue, events, shown, history>>
\* secrets.set and secrets.remove read the whole map and write it back.
WriteSecret(step, secret) ==
  /\ At(step) /\ secrets # Broken
  /\ secrets' = [secrets EXCEPT ![cmd.group] = secret]
  /\ todo' = Tail(todo)
  /\ UNCHANGED <<config, toml, runtime, up, queue, events, shown, history>>
SetSecret == WriteSecret("set", cmd.token)
RemoveSecret == WriteSecret("unset", NoSecret)

SaveConfig ==
  /\ At("save")
  /\ toml' = config
  /\ todo' = Tail(todo) /\ lapsed' = lapsed \ {"file"}
  /\ UNCHANGED <<config, secrets, runtime, up, queue, events, shown,
                 sent, drawn, joined, asked>>

Rebuild ==
  /\ At("rebuild") /\ Buildable(config, secrets)
  /\ runtime' = Build(config, secrets)
  /\ todo' = Tail(todo) /\ lapsed' = lapsed \ {"agent"}
  /\ UNCHANGED <<config, files, up, queue, events, shown,
                 sent, drawn, joined, asked>>

\* The answer of dispatch to a command that succeeded.
Reply ==
  /\ At("groups") \/ At("activity")
  /\ IF At("groups")
     THEN /\ events' = Append(events, config.games)
          /\ lapsed' = lapsed \ {"window"}
     ELSE UNCHANGED <<events, lapsed>>
  /\ joined' = IF cmd.op = "add" THEN joined \union {cmd.group} ELSE joined
  /\ todo' = <<>> /\ queue' = Tail(queue)
  /\ UNCHANGED <<config, files, runtime, up, shown, sent, drawn, asked>>

\* A tick of an idle worker whose poll brought a save sends the list too.
Tick ==
  /\ up /\ queue = <<>> /\ Len(events) < MaxQueue
  /\ events' = Append(events, config.games)
  /\ lapsed' = lapsed \ {"window"}
  /\ UNCHANGED <<config, files, runtime, up, queue, todo, shown,
                 sent, drawn, joined, asked>>

-----------------------------------------------------------------------------
\* Failures.

\* What a write of config.toml that is cut leaves: no TOML at all, or a
\* beginning of it that parses, since all but the device id may be missing.
CutConfigs ==
  {Broken} \union
  {c \in Configs :
     /\ c.name \in {config.name, NoName}
     /\ \A g \in Members(c.games) :
          config.games[g] # Out /\ c.games[g] \subseteq config.games[g]}

\* The file that the current step writes is cut.
Cut ==
  \/ /\ At("set") \/ At("unset")
     /\ secrets' = Broken /\ UNCHANGED <<toml, joined>>
  \/ /\ At("save")
     /\ toml' \in CutConfigs /\ UNCHANGED secrets
     /\ joined' = IF toml' = Broken THEN {} ELSE joined \intersect Members(toml'.games)

\* An error: the command ends with Event::Error, what it did stays.
Fail(cut) ==
  /\ \E step \in {"set", "unset", "save", "rebuild"} : At(step)
  /\ IF cut THEN Cut ELSE UNCHANGED <<files, joined>>
  /\ todo' = <<>> /\ queue' = Tail(queue)
  /\ lapsed' = {"file", "agent", "window"}
  /\ UNCHANGED <<config, runtime, up, events, shown, sent, drawn, asked>>

\* The app ends: a crash, or the window is closed.
Crash(cut) ==
  /\ up /\ up' = FALSE
  /\ IF cut THEN Cut ELSE UNCHANGED <<files, joined>>
  /\ queue' = <<>> /\ todo' = <<>> /\ events' = <<>>
  /\ UNCHANGED <<config, runtime, shown, sent, drawn, asked, lapsed>>

\* main exits when the configuration does not load or the agent cannot be built.
Loads == toml # Broken /\ Buildable(toml, secrets)
Start ==
  /\ ~up /\ Loads
  /\ up' = TRUE /\ config' = toml
  /\ runtime' = Build(toml, secrets)
  /\ events' = <<toml.games>> /\ shown' = Fresh.games
  /\ lapsed' = {}
  /\ UNCHANGED <<files, queue, todo, sent, drawn, joined, asked>>
StartFails == ~up /\ ~Loads /\ UNCHANGED vars

Next ==
  \/ \E c \in Commands : Send(c)
  \/ Frame
  \/ Begin \/ Refuse \/ Change \/ SetSecret \/ RemoveSecret
  \/ SaveConfig \/ Rebuild \/ Reply \/ Tick
  \/ \E cut \in BOOLEAN : Fail(cut) \/ Crash(cut)
  \/ Start \/ StartFails

Spec == Init /\ [][Next]_vars

-----------------------------------------------------------------------------
\* Properties.

\* Types.  The runtime of a group always has a token.
TypeOK ==
  /\ config \in Configs /\ toml \in {Broken} \union Configs
  /\ secrets \in {Broken} \union Secrets
  /\ runtime \in [name : Names \union {NoName},
                  groups : [Groups -> {Out} \union [games : SUBSET Games, token : Tokens]]]
  /\ up \in BOOLEAN /\ queue \in Seq(Commands) /\ Len(queue) <= MaxQueue
  /\ todo # <<>> =>
       /\ queue # <<>>
       /\ \E i \in 1..Len(Steps[cmd.op]) :
            todo = SubSeq(Steps[cmd.op], i, Len(Steps[cmd.op]))
  /\ events \in Seq(GroupMaps) /\ shown \in GroupMaps
  /\ sent \in 0..MaxCommands
  /\ drawn \subseteq Groups /\ joined \subseteq Groups /\ asked \subseteq Groups
  /\ lapsed \subseteq {"file", "agent", "window"}

\* At every instant, whatever failed before: if both files can be read, the only
\* groups of config.toml without a secret are groups the user asked to remove.
\* The next start reads both files and stops at the first group without one
\* (build_groups), and the app can end between any two writes (store.rs).
Startable ==
  toml # Broken /\ secrets # Broken =>
    \A g \in Members(toml.games) : secrets[g] # NoSecret \/ g \in asked

\* A group that was reported as created or joined stays in both files until
\* its removal is asked for, over restarts and failures of other commands: its
\* key cannot be derived again without the invite and the password.
JoinedStays ==
  \A g \in joined \ asked :
    /\ toml # Broken => g \in Members(toml.games)
    /\ secrets # Broken => secrets[g] # NoSecret

\* Between commands, config.toml is what is in memory and the agent
\* works with it and with the stored tokens, unless a command failed and no later
\* one wrote the file or rebuilt the agent (rebuild_agent).
AgentFollows ==
  up /\ todo = <<>> =>
    /\ "file" \notin lapsed => toml = config
    /\ "agent" \notin lapsed => runtime = Build(config, secrets)

\* When all events were applied and no command failed since the last list,
\* the window shows the groups and games the backend has (dispatch answers with
\* Event::Groups, ViewModel::apply).
WindowFollows ==
  up /\ todo = <<>> /\ events = <<>> /\ "window" \notin lapsed =>
    shown = config.games

=============================================================================
