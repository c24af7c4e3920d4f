------------------------------- MODULE Window -------------------------------
(* The window (app.rs), what it renders (viewmodel.rs), and the worker that
   answers it (worker.rs, agent_backend.rs): the wizard that creates a group, the
   dialog that asks about conflicts, and the button that installs an update.

   Window and worker share two queues.  The window never waits: while a command
   is under way the user goes on typing, picking, closing and opening, and an
   answer is applied to whatever the window shows by then.  The worker handles
   one command at a time and ticks only when none waits.

   A token stands for its bot, a channel for its id.  The group's name and
   password, and the windows of Settings.tla, are left out. *)
EXTENDS Naturals, FiniteSets, Sequences, Functions

CONSTANTS Tokens, Guilds, Channels, Games,
  None,      \* nothing typed, picked, or known
  Sees,      \* the guilds that the bot of a token is in
  Home,      \* the guild of a channel
  MaxQueue   \* bound: commands and events under way

ASSUME WindowAssumption ==
  /\ None \notin Tokens \union Guilds \union Channels \union Games
  /\ Sees \in [Tokens -> SUBSET Guilds] /\ Home \in [Channels -> Guilds]
  /\ MaxQueue \in Nat

VARIABLES
  form,      \* Forms: the wizard's part
  vm,        \* ViewModel: the wizard's part, pending_conflicts, available_update
  commands,  \* the channel to the worker, its current command included
  events,    \* the channel to the window
  pending,   \* the backend has a pending_update
  surfaced,  \* surfaced_conflict
  minimized, \* the user minimized the window
  raised,    \* history: games with a conflict reported and not resolved
  asked,     \* history: token of the last FetchChannels
  failed,    \* history: that FetchChannels was answered by an error
  hasty      \* history: the channel was picked before an answer to it, or after an error

history == <<raised, asked, failed, hasty>>
screen == <<surfaced, minimized>>
vars == <<form, vm, commands, events, pending, screen, history>>

Opt(S) == {None} \union S
Steps == {"bot", "token", "channel", "name"}
Of(g) == {c \in Channels : Home[c] = g}

Empty(open) ==
  [open |-> open, step |-> "bot", token |-> None, guild |-> None, channel |-> None]
Blank(v) == [v EXCEPT !.valid = FALSE, !.guilds = {}, !.loaded = FALSE, !.channels = {}]

Init ==
  /\ form = Empty(FALSE)
  /\ vm = [valid |-> FALSE, guilds |-> {}, loaded |-> FALSE, channels |-> {},
           conflicts |-> <<>>, update |-> FALSE]
  /\ commands = <<>> /\ events = <<>> /\ pending = FALSE
  /\ surfaced = None /\ minimized = FALSE
  /\ raised = {} /\ asked = None /\ failed = FALSE /\ hasty = FALSE

-----------------------------------------------------------------------------
(* ViewModel::apply, one event.  A mutant stands before the definition it is a
   plausible bug of. *)
AskingAgain(cs, g) == Append(cs, g)
Asking(cs, g) == IF g \in Range(cs) THEN cs ELSE Append(cs, g)
Retain(cs, g) ==
  LET kept[i \in 0..Len(cs)] ==
        IF i = 0 THEN <<>>
        ELSE IF cs[i] = g THEN kept[i - 1] ELSE Append(kept[i - 1], cs[i])
  IN kept[Len(cs)]
Apply(v, e) ==
  CASE e.op = "valid"    -> [v EXCEPT !.valid = TRUE]
    [] e.op = "guilds"   -> [v EXCEPT !.guilds = e.guilds, !.channels = {}, !.loaded = TRUE]
    [] e.op = "channels" -> [v EXCEPT !.channels = e.channels]
    [] e.op = "conflict" -> [v EXCEPT !.conflicts = Asking(@, e.game)]
    [] e.op = "resolved" -> [v EXCEPT !.conflicts = Retain(@, e.game)]
    [] e.op = "update"   -> [v EXCEPT !.update = TRUE]

\* drain_events: the view model after all events under way, in their order.
Drain(v, es) ==
  LET after[i \in 0..Len(es)] == IF i = 0 THEN v ELSE Apply(after[i - 1], es[i])
  IN after[Len(es)]
Drained == Drain(vm, events)

\* A frame drains the events, and brings the window to the front when the dialog comes
\* to ask about another conflict.
SurfaceOnce(cs) ==
  /\ surfaced' = (IF cs = <<>> THEN surfaced ELSE Head(cs))
  /\ minimized' = (minimized /\ (cs = <<>> \/ surfaced = Head(cs)))
Surface(cs) ==
  /\ surfaced' = (IF cs = <<>> THEN None ELSE Head(cs))
  /\ minimized' = (minimized /\ (cs = <<>> \/ surfaced = Head(cs)))
Frame ==
  /\ events # <<>>
  /\ vm' = Drained /\ events' = <<>> /\ Surface(Drained.conflicts)
  /\ UNCHANGED <<form, commands, pending, history>>

-----------------------------------------------------------------------------
(* What the user does to the wizard.  It is drawn over the panels; closing it keeps the
   form, opening it resets form and lists (reset_create_form). *)
Send(c) ==
  /\ Len(commands) + Len(events) < MaxQueue
  /\ commands' = Append(commands, c)
At(step) == form.open /\ form.step = step
Goto(step) == form' = [form EXCEPT !.step = step]
Rest == <<events, pending, raised>>
Ask == <<asked, failed, hasty>>

OpenWizard ==
  /\ ~form.open
  /\ form' = Empty(TRUE) /\ vm' = Blank(vm)
  /\ asked' = None /\ failed' = FALSE /\ hasty' = FALSE
  /\ UNCHANGED <<commands, Rest>>
CloseWizard ==
  /\ form.open /\ form' = [form EXCEPT !.open = FALSE]
  /\ UNCHANGED <<vm, commands, Ask, Rest>>

\* The buttons "Avancar" and "Voltar".
Forward ==
  /\ \/ At("bot") /\ Goto("token")
     \/ At("token") /\ vm.valid /\ Goto("channel")
     \/ At("channel") /\ form.channel # None /\ Goto("name")
  /\ UNCHANGED <<vm, commands, Ask, Rest>>
Back ==
  /\ \/ At("token") /\ Goto("bot")
     \/ At("channel") /\ Goto("token")
     \/ At("name") /\ Goto("channel")
  /\ UNCHANGED <<vm, commands, Ask, Rest>>

\* Editing the token leaves what was found out with the former one.
TypeToken(t) ==
  /\ At("token") /\ t # form.token
  /\ form' = [form EXCEPT !.token = t]
  /\ UNCHANGED <<vm, commands, Ask, Rest>>
ValidateToken ==
  /\ At("token") /\ form.token # None
  /\ vm' = [vm EXCEPT !.valid = FALSE]
  /\ Send([op |-> "validate", token |-> form.token])
  /\ UNCHANGED <<form, Ask, Rest>>
FetchGuildsKeeping ==
  /\ At("channel") /\ form.token # None
  /\ vm' = [vm EXCEPT !.loaded = FALSE, !.guilds = {}, !.channels = {}]
  /\ Send([op |-> "guilds", token |-> form.token])
  /\ UNCHANGED <<form, Ask, Rest>>
FetchGuilds ==
  /\ At("channel") /\ form.token # None
  /\ form' = [form EXCEPT !.guild = None, !.channel = None]
  /\ vm' = [vm EXCEPT !.loaded = FALSE, !.guilds = {}, !.channels = {}]
  /\ Send([op |-> "guilds", token |-> form.token])
  /\ asked' = None /\ failed' = FALSE /\ hasty' = FALSE
  /\ UNCHANGED Rest

\* channel_pickers_ui: the list of the former guild stays until the answer.
PickGuildKeeping(g) ==
  /\ At("channel") /\ vm.loaded /\ g \in vm.guilds /\ g # form.guild
  /\ form' = [form EXCEPT !.guild = g]
  /\ Send([op |-> "channels", token |-> form.token, guild |-> g])
  /\ asked' = form.token /\ failed' = FALSE /\ hasty' = FALSE
  /\ UNCHANGED <<vm, Rest>>
PickGuild(g) ==
  /\ At("channel") /\ vm.loaded /\ g \in vm.guilds /\ g # form.guild
  /\ form' = [form EXCEPT !.guild = g, !.channel = None]
  /\ Send([op |-> "channels", token |-> form.token, guild |-> g])
  /\ asked' = form.token /\ failed' = FALSE /\ hasty' = FALSE
  /\ UNCHANGED <<vm, Rest>>
\* A list of guilds or channels is under way.
Waiting ==
  \E m \in Range(commands) \union Range(events) : m.op \in {"guilds", "channels"}
PickChannel(c) ==
  /\ At("channel") /\ vm.loaded /\ vm.guilds # {} /\ form.guild # None
  /\ c \in vm.channels /\ c # form.channel
  /\ form' = [form EXCEPT !.channel = c]
  /\ hasty' = (Waiting \/ failed)
  /\ UNCHANGED <<vm, commands, asked, failed, Rest>>
CreateGroup ==
  /\ At("name") /\ form.guild # None /\ form.channel # None
  /\ Send([op |-> "create", token |-> form.token, guild |-> form.guild,
           channel |-> form.channel])
  /\ form' = [form EXCEPT !.open = FALSE]
  /\ UNCHANGED <<vm, Ask, Rest>>

(* The dialog for the first conflict stays until it is resolved, and the icon of
   an update for ever: either button can be pressed again. *)
Resolve ==
  /\ vm.conflicts # <<>>
  /\ Send([op |-> "resolve", game |-> Head(vm.conflicts)])
  /\ UNCHANGED <<form, vm, Ask, Rest>>
Minimize ==
  /\ minimized' = TRUE
  /\ UNCHANGED <<form, vm, commands, surfaced, Ask, Rest>>
\* At most one check in 30 seconds.
RegainFocus ==
  /\ minimized' = FALSE
  /\ Send([op |-> "check"]) \/ UNCHANGED commands
  /\ UNCHANGED <<form, vm, surfaced, Ask, Rest>>
ApplyUpdate ==
  /\ vm.update /\ Send([op |-> "apply"])
  /\ UNCHANGED <<form, vm, Ask, Rest>>

-----------------------------------------------------------------------------
(* The worker.  A command asks Discord or GitHub, which may fail: ok. *)
Room == Len(commands) + Len(events) < MaxQueue
Answer(es) == events' = events \o es
Op(c) == commands # <<>> /\ c = Head(commands) /\ commands' = Tail(commands)

Validated(c, ok) ==
  /\ c.op = "validate"
  /\ Answer(IF ok THEN <<[op |-> "valid", token |-> c.token]>> ELSE <<>>)
  /\ UNCHANGED <<pending, raised, failed>>
GuildsListed(c, ok) ==
  /\ c.op = "guilds"
  /\ Answer(IF ok THEN <<[op |-> "guilds", guilds |-> Sees[c.token]]>> ELSE <<>>)
  /\ UNCHANGED <<pending, raised, failed>>
ChannelsListed(c, ok) ==
  /\ c.op = "channels" /\ failed' = ~ok
  /\ ok => c.token # None /\ c.guild \in Sees[c.token]
  /\ Answer(IF ok THEN <<[op |-> "channels", channels |-> Of(c.guild)]>> ELSE <<>>)
  /\ UNCHANGED <<pending, raised>>
Resolved(c, ok) ==
  /\ c.op = "resolve"
  /\ Answer(IF ok THEN <<[op |-> "resolved", game |-> c.game]>> ELSE <<>>)
  /\ raised' = IF ok THEN raised \ {c.game} ELSE raised
  /\ UNCHANGED <<pending, failed>>

\* check_update: asks only while no update is pending.  ok: a newer release.
Found(ok) ==
  /\ Answer(IF ok /\ ~pending THEN <<[op |-> "update"]>> ELSE <<>>)
  /\ pending' = (pending \/ ok)
\* create_group is in Settings.tla; apply_update starts an installer, or fails.
Others(c, ok) ==
  /\ \/ c.op = "check" /\ Found(ok)
     \/ c.op \in {"create", "apply"} /\ Answer(<<>>) /\ UNCHANGED pending
  /\ UNCHANGED <<raised, failed>>

Serve(ok) ==
  /\ \E c \in Range(commands) :
       /\ Op(c)
       /\ \/ Validated(c, ok) \/ GuildsListed(c, ok) \/ ChannelsListed(c, ok)
          \/ Resolved(c, ok) \/ Others(c, ok)
  /\ UNCHANGED <<form, vm, screen, asked, hasty>>

\* A tick reports a conflict, again and again until it is resolved, and looks for
\* an update every 15 minutes.
TickConflict(g) ==
  /\ commands = <<>> /\ Room
  /\ Answer(<<[op |-> "conflict", game |-> g]>>)
  /\ raised' = raised \union {g}
  /\ UNCHANGED <<form, vm, commands, pending, screen, Ask>>
TickUpdate(ok) ==
  /\ commands = <<>> /\ Room /\ ~pending /\ Found(ok)
  /\ UNCHANGED <<form, vm, commands, raised, screen, Ask>>

Click ==
  \/ OpenWizard \/ CloseWizard \/ Forward \/ Back
  \/ \E t \in Opt(Tokens) : TypeToken(t)
  \/ ValidateToken \/ FetchGuilds
  \/ \E g \in Guilds : PickGuild(g)
  \/ \E c \in Channels : PickChannel(c)
  \/ CreateGroup \/ Resolve \/ ApplyUpdate
Gesture == (~minimized /\ Click /\ UNCHANGED screen) \/ Minimize \/ RegainFocus
Worker == \E ok \in BOOLEAN : Serve(ok)
Next ==
  \/ Gesture \/ Frame \/ Worker
  \/ \E g \in Games : TickConflict(g)
  \/ \E ok \in BOOLEAN : TickUpdate(ok)

Spec == Init /\ [][Next]_vars

-----------------------------------------------------------------------------
(* Properties. *)
Requests ==
  [op : {"validate", "guilds"}, token : Tokens] \union
  [op : {"channels"}, token : Opt(Tokens), guild : Guilds] \union
  [op : {"create"}, token : Opt(Tokens), guild : Guilds, channel : Channels] \union
  [op : {"resolve"}, game : Games] \union [op : {"check", "apply"}]
Answers ==
  [op : {"valid"}, token : Tokens] \union [op : {"guilds"}, guilds : SUBSET Guilds] \union
  [op : {"channels"}, channels : SUBSET Channels] \union
  [op : {"conflict", "resolved"}, game : Games] \union [op : {"update"}]

\* The type invariant of all of the window's and the worker's state.
TypeOK ==
  /\ form \in [open : BOOLEAN, step : Steps, token : Opt(Tokens), guild : Opt(Guilds),
               channel : Opt(Channels)]
  /\ vm \in [valid : BOOLEAN, guilds : SUBSET Guilds, loaded : BOOLEAN,
             channels : SUBSET Channels, conflicts : Seq(Games), update : BOOLEAN]
  /\ commands \in Seq(Requests) /\ events \in Seq(Answers)
  /\ Len(commands) + Len(events) <= MaxQueue
  /\ pending \in BOOLEAN /\ surfaced \in Opt(Games) /\ minimized \in BOOLEAN /\ raised \subseteq Games
  /\ asked \in Opt(Tokens) /\ failed \in BOOLEAN /\ hasty \in BOOLEAN

\* Whatever answers of earlier guilds, earlier clicks and earlier openings of the wizard
\* come in: once nothing is under way, the channels offered are those of the guild
\* that is picked, unless the last request for them failed (app.rs, channel_pickers_ui
\* shows discovered_channels whatever guild it was asked for).
ListIsCurrent ==
  form.open /\ form.guild # None /\ ~Waiting /\ ~failed => vm.channels = Of(form.guild)

\* The group that CreateGroup asks for is in a channel of its guild, in a guild that
\* its bot is in.  Two ways around it are open in the code, and excepted: a channel
\* picked before the list of the new guild came, or after it failed (hasty), and a token
\* edited after the lists were fetched with another.
CreateFits ==
  [][CreateGroup /\ ~hasty /\ form.token = asked =>
       /\ form.guild \in Sees[form.token]
       /\ Home[form.channel] = form.guild]_vars

\* Once the events under way are drawn, the dialog asks about exactly the conflicts that
\* the worker reported and has not resolved, each once, although a conflict is
\* reported again and again and its answer can be sent twice.
DialogMatches ==
  LET asks == Drained.conflicts
  IN Range(asks) = raised /\ Len(asks) = Cardinality(raised)

\* app.rs:973-974: the window comes to the front whenever the dialog begins to ask about a
\* game, also about one whose conflict was surfaced and resolved before.
AsksAbout(cs) == IF cs = <<>> THEN None ELSE Head(cs)
ConflictSurfaces ==
  [][AsksAbout(vm.conflicts') \notin {None, AsksAbout(vm.conflicts)} => ~minimized']_vars
=============================================================================
