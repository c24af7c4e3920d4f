--------------------------- MODULE SettingsProofs ---------------------------
(* Proofs about Settings: types, what can be started from, what stays, and who
   follows whom, for any groups, games, tokens and names.

   Nearly everything depends on how far the command under way has come.  Progress
   reads that off the length of todo: the last three steps of a command that
   changes the configuration are to save it, to rebuild the agent and to answer. *)
EXTENDS Settings, SequenceTheorems, TLAPS

-----------------------------------------------------------------------------
(* The command under way. *)

\* Taking the first element off a suffix of a sequence gives the next suffix.
LEMMA SuffixStep ==
  ASSUME NEW S, NEW s \in Seq(S), NEW i \in 1..Len(s), NEW t, t = SubSeq(s, i, Len(s))
  PROVE  /\ t # <<>> /\ t \in Seq(S) /\ Len(t) = Len(s) - i + 1
         /\ Head(t) = s[i] /\ Len(Tail(t)) = Len(t) - 1
         /\ i < Len(s) => Tail(t) = SubSeq(s, i + 1, Len(s))
         /\ i = Len(s) => Tail(t) = <<>>
<1>1. Len(s) \in Nat /\ i \in Int /\ Len(s) \in Int /\ Len(s) \in i..Len(s)
  OBVIOUS
<1>2. \A j \in i..Len(s) : s[j] \in S
  BY <1>1
<1>3. t \in Seq(S) /\ Len(t) = Len(s) - i + 1
  BY <1>1, <1>2, SubSeqProperties
<1>4. t # <<>>
  <2>1. Len(t) # 0 BY <1>1, <1>3
  <2>2. Len(<<>>) = 0 OBVIOUS
  <2> QED BY <2>1, <2>2
<1>5. Head(t) = s[i] /\ Tail(t) = SubSeq(s, i + 1, Len(s))
  BY <1>1, HeadTailOfSubSeq
<1>6. Len(Tail(t)) = Len(t) - 1
  BY <1>3, <1>4
<1>7. i = Len(s) => Tail(t) = <<>>
  BY <1>1, <1>5, SubSeqEmpty
<1> QED BY <1>3, <1>4, <1>5, <1>6, <1>7

\* The steps of commands.
AllSteps == {"change", "set", "unset", "save", "rebuild", "groups", "activity"}
\* Every command's table is a sequence of steps.
LEMMA StepsTyped == \A op \in DOMAIN Steps : Steps[op] \in Seq(AllSteps)
<1>1. AddSteps \in Seq(AllSteps) BY DEF AddSteps, AllSteps
<1>2. RemoveSteps \in Seq(AllSteps) BY DEF RemoveSteps, AllSteps
<1>3. TokenSteps \in Seq(AllSteps) BY DEF TokenSteps, AllSteps
<1>4. GameSteps \in Seq(AllSteps) BY DEF GameSteps, AllSteps
<1>5. NameSteps \in Seq(AllSteps) BY DEF NameSteps, AllSteps
<1> QED BY <1>1, <1>2, <1>3, <1>4, <1>5 DEF Steps

\* What the step that is next says about the command and about how many are left.
LEMMA Progress ==
  ASSUME TypeOK, todo # <<>>
  PROVE  /\ queue # <<>> /\ cmd \in Commands /\ todo \in Seq(AllSteps)
         /\ Len(todo) \in 1..5 /\ Len(Tail(todo)) = Len(todo) - 1
         /\ At("set") => (cmd.op = "add" /\ Len(todo) = 5) \/ (cmd.op = "token" /\ Len(todo) = 3)
         /\ At("change") => (cmd.op \in {"add", "path", "disable", "name"} /\ Len(todo) = 4) \/ (cmd.op = "remove" /\ Len(todo) = 5)
         /\ At("unset") => cmd.op = "remove" /\ Len(todo) = 4
         /\ At("save") => cmd.op # "token" /\ Len(todo) = 3
         /\ At("rebuild") => Len(todo) = 2
         /\ At("groups") => cmd.op \notin {"token", "name"} /\ Len(todo) = 1
         /\ At("activity") => cmd.op \in {"token", "name"} /\ Len(todo) = 1
         /\ Tail(todo) # <<>> => \E i \in 1..Len(Steps[cmd.op]) :
              Tail(todo) = SubSeq(Steps[cmd.op], i, Len(Steps[cmd.op]))
<1>1. queue # <<>> /\ cmd \in Commands
  BY DEF TypeOK, cmd
<1>2. cmd.op \in {"add", "remove", "token", "path", "disable", "name"}
  BY <1>1 DEF Commands
<1>3. cmd.op \in DOMAIN Steps
  BY <1>2 DEF Steps
<1> DEFINE s == Steps[cmd.op]
<1>4. PICK i \in 1..Len(s) : todo = SubSeq(s, i, Len(s))
  BY DEF TypeOK
<1>5. s \in Seq(AllSteps)
  BY <1>3, StepsTyped
<1>6. /\ todo \in Seq(AllSteps) /\ Len(todo) = Len(s) - i + 1 /\ Head(todo) = s[i]
      /\ Len(Tail(todo)) = Len(todo) - 1
      /\ i < Len(s) => Tail(todo) = SubSeq(s, i + 1, Len(s))
      /\ i = Len(s) => Tail(todo) = <<>>
  <2> HIDE DEF s
  <2> QED BY <1>4, <1>5, SuffixStep
<1>7. Tail(todo) # <<>> => \E j \in 1..Len(s) : Tail(todo) = SubSeq(s, j, Len(s))
  <2> HIDE DEF s
  <2>1. Len(s) \in Nat
    BY <1>5
  <2>2. ASSUME Tail(todo) # <<>> PROVE i + 1 \in 1..Len(s) /\ Tail(todo) = SubSeq(s, i + 1, Len(s))
    BY <1>4, <1>6, <2>1, <2>2
  <2> QED BY <2>2
<1>8. /\ Len(todo) \in 1..5
      /\ At("set") => (cmd.op = "add" /\ Len(todo) = 5) \/ (cmd.op = "token" /\ Len(todo) = 3)
      /\ At("change") => (cmd.op \in {"add", "path", "disable", "name"} /\ Len(todo) = 4) \/ (cmd.op = "remove" /\ Len(todo) = 5)
      /\ At("unset") => cmd.op = "remove" /\ Len(todo) = 4
      /\ At("save") => cmd.op # "token" /\ Len(todo) = 3
      /\ At("rebuild") => Len(todo) = 2
      /\ At("groups") => cmd.op \notin {"token", "name"} /\ Len(todo) = 1
      /\ At("activity") => cmd.op \in {"token", "name"} /\ Len(todo) = 1
  <2>1. CASE cmd.op = "add"
    <3>1. s = <<"set", "change", "save", "rebuild", "groups">> BY <2>1 DEF Steps, AddSteps
    <3>2. i \in 1..5 BY <3>1, <1>4
    <3> QED BY <3>1, <3>2, <2>1, <1>6 DEF At
  <2>2. CASE cmd.op = "remove"
    <3>1. s = <<"change", "unset", "save", "rebuild", "groups">> BY <2>2 DEF Steps, RemoveSteps
    <3>2. i \in 1..5 BY <3>1, <1>4
    <3> QED BY <3>1, <3>2, <2>2, <1>6 DEF At
  <2>3. CASE cmd.op = "token"
    <3>1. s = <<"set", "rebuild", "activity">> BY <2>3 DEF Steps, TokenSteps
    <3>2. i \in 1..3 BY <3>1, <1>4
    <3> QED BY <3>1, <3>2, <2>3, <1>6 DEF At
  <2>4. CASE cmd.op \in {"path", "disable"}
    <3>1. s = <<"change", "save", "rebuild", "groups">> BY <2>4 DEF Steps, GameSteps
    <3>2. i \in 1..4 BY <3>1, <1>4
    <3> QED BY <3>1, <3>2, <2>4, <1>6 DEF At
  <2>5. CASE cmd.op = "name"
    <3>1. s = <<"change", "save", "rebuild", "activity">> BY <2>5 DEF Steps, NameSteps
    <3>2. i \in 1..4 BY <3>1, <1>4
    <3> QED BY <3>1, <3>2, <2>5, <1>6 DEF At
  <2> QED BY <1>2, <2>1, <2>2, <2>3, <2>4, <2>5
<1> QED BY <1>1, <1>6, <1>7, <1>8

\* A group in a configuration is told apart from one that is not.
LEMMA OutIsNoSet == \A S \in SUBSET Games : S # Out
BY SettingsAssumption

\* Every group of the agent has a token (build_groups).
LEMMA BuildTyped ==
  ASSUME NEW c \in Configs, NEW s \in {Broken} \union Secrets, Buildable(c, s)
  PROVE  Build(c, s) \in [name : Names \union {NoName},
            groups : [Groups -> {Out} \union [games : SUBSET Games, token : Tokens]]]
<1>1. c.name \in Names \union {NoName} /\ c.games \in [Groups -> {Out} \union SUBSET Games]
  BY DEF Configs, GroupMaps
<1>2. ASSUME NEW g \in Groups, c.games[g] # Out
      PROVE  c.games[g] \in SUBSET Games /\ TokenIfAny(s, g) \in Tokens
  <2>1. s # Broken /\ s[g] # NoSecret
    BY <1>2 DEF Buildable, Members
  <2> QED BY <1>1, <1>2, <2>1 DEF TokenIfAny, Secrets
<1> QED BY <1>1, <1>2 DEF Build

\* The first start has its types.
LEMMA InitTyped == Init => TypeOK
<1> SUFFICES ASSUME Init PROVE TypeOK
  OBVIOUS
<1>1. Fresh \in Configs /\ Fresh.games \in GroupMaps
  BY DEF Fresh, Configs, GroupMaps
<1>2. secrets \in Secrets
  BY DEF Init, Secrets
<1>3. Buildable(Fresh, secrets)
  BY DEF Buildable, Fresh, Members
<1> QED BY <1>1, <1>2, <1>3, BuildTyped, SettingsAssumption DEF Init, TypeOK

\* TypeOK's part about todo.
TodoOK ==
  todo # <<>> =>
    /\ queue # <<>>
    /\ \E i \in 1..Len(Steps[cmd.op]) :
         todo = SubSeq(Steps[cmd.op], i, Len(Steps[cmd.op]))

\* A command is under way only while the app runs, and sets a folder only of a group in
\* the configuration, to its end.
KnownGame ==
  /\ todo # <<>> => up
  /\ todo # <<>> /\ cmd.op \in {"path", "disable"} => config.games[cmd.group] # Out

\* Every step keeps the types.
LEMMA StepTyped == TypeOK /\ KnownGame /\ [Next]_vars => TypeOK'
<1> SUFFICES ASSUME TypeOK, KnownGame, [Next]_vars PROVE TypeOK'
  OBVIOUS
<1> USE SettingsAssumption
<1>0. TodoOK
  BY DEF TypeOK, TodoOK
<1>1. ASSUME NEW c \in Commands, Send(c) PROVE TypeOK'
  <2>1. queue' = Append(queue, c) /\ queue' \in Seq(Commands) /\ Len(queue') <= MaxQueue
    BY <1>1 DEF TypeOK, Send
  <2>2. TodoOK'
    <3> SUFFICES ASSUME todo # <<>> PROVE queue' # <<>> /\ cmd' = cmd
      BY <1>0, <1>1 DEF Send, TodoOK
    <3>1. queue # <<>> /\ queue \in Seq(Commands)
      BY <1>0 DEF TodoOK, TypeOK
    <3> QED BY <2>1, <3>1 DEF cmd
  <2>3. drawn' \subseteq Groups /\ asked' \subseteq Groups
    BY <1>1 DEF Send, TypeOK, Commands
  <2> QED BY <1>1, <2>1, <2>2, <2>3 DEF TypeOK, TodoOK, Send, files
<1>2. CASE Frame
  <2>1. events' \in Seq(GroupMaps) /\ shown' \in GroupMaps
    BY <1>2 DEF TypeOK, Frame
  <2> QED BY <1>2, <2>1, <1>0 DEF TypeOK, TodoOK, Frame, files, history, cmd
<1>3. CASE Begin
  <2>1. todo' = Steps[cmd.op] /\ queue' = queue /\ queue # <<>>
    BY <1>3 DEF Begin
  <2>2. cmd \in Commands
    BY <2>1 DEF TypeOK, cmd
  <2>3. Steps[cmd.op] \in Seq(AllSteps) /\ Steps[cmd.op] # <<>>
    <3>1. cmd.op \in {"add", "remove", "token", "path", "disable", "name"}
      BY <2>2 DEF Commands
    <3>2. cmd.op \in DOMAIN Steps BY <3>1 DEF Steps
    <3>3. /\ AddSteps # <<>> /\ RemoveSteps # <<>> /\ TokenSteps # <<>>
          /\ GameSteps # <<>> /\ NameSteps # <<>>
      BY DEF AddSteps, RemoveSteps, TokenSteps, GameSteps, NameSteps
    <3> QED BY <3>1, <3>2, <3>3, StepsTyped DEF Steps
  <2>4. TodoOK'
    <3> DEFINE s == Steps[cmd.op]
    <3>1. SubSeq(s, 1, Len(s)) = s /\ Len(s) \in Nat /\ Len(s) # 0
      <4> HIDE DEF s
      <4>1. s \in Seq(AllSteps) /\ s # <<>> BY <2>3 DEF s
      <4> QED BY <4>1, SubSeqFull
    <3>2. cmd' = cmd BY <2>1 DEF cmd
    <3> QED BY <2>1, <3>1, <3>2 DEF TodoOK
  <2> QED BY <1>3, <2>4 DEF TypeOK, TodoOK, Begin, files, history
<1>4. CASE Refuse
  <2>1. queue' \in Seq(Commands) /\ Len(queue') <= MaxQueue
    BY <1>4 DEF TypeOK, Refuse
  <2> QED BY <1>4, <2>1 DEF TypeOK, Refuse, files, history
\* A step of the worker that goes on with the rest of the command.
<1>a. ASSUME todo # <<>>, todo' = Tail(todo), queue' = queue PROVE TodoOK'
  <2>1. cmd' = cmd
    BY <1>a DEF cmd
  <2> QED BY <1>a, <2>1, Progress DEF TodoOK
\* A step that ends it.
<1>b. ASSUME todo # <<>>, todo' = <<>>, queue' = Tail(queue)
      PROVE  TodoOK' /\ queue' \in Seq(Commands) /\ Len(queue') <= MaxQueue
  <2>1. queue # <<>>
    BY <1>b, Progress
  <2> QED BY <1>b, <2>1 DEF TypeOK, TodoOK
<1>5. CASE Change
  <2>1. todo # <<>> /\ At("change")
    BY <1>5 DEF Change, At
  <2>2. cmd \in Commands /\ cmd.op \in {"add", "path", "disable", "name", "remove"}
    BY <2>1, Progress
  <2>3. Changed \in Configs
    <3>1. config \in Configs /\ config.games \in GroupMaps
      BY DEF TypeOK, Configs
    <3>2. CASE cmd.op = "name"
      BY <2>2, <3>1, <3>2 DEF Changed, Configs, Commands
    <3>3. CASE cmd.op \in {"add", "remove"}
      <4>1. cmd.group \in Groups BY <2>2, <3>3 DEF Commands
      <4> QED BY <3>1, <3>3, <4>1 DEF Changed, Configs, GroupMaps
    <3>4. CASE cmd.op \in {"path", "disable"}
      <4>1. cmd.group \in Groups /\ cmd.game \in Games BY <2>2, <3>4 DEF Commands
      <4>2. config.games[cmd.group] \in SUBSET Games
        BY <4>1, <2>1, <3>1, <3>4 DEF GroupMaps, KnownGame
      <4> QED BY <3>1, <3>4, <4>1, <4>2 DEF Changed, Configs, GroupMaps
    <3> QED BY <2>2, <3>2, <3>3, <3>4
  <2>4. TodoOK'
    BY <1>5, <2>1, <1>a DEF Change
  <2> QED BY <1>5, <2>3, <2>4 DEF TypeOK, TodoOK, Change, files, history
<1>6. CASE SetSecret
  <2>1. todo # <<>> /\ At("set")
    BY <1>6 DEF SetSecret, WriteSecret, At
  <2>2. cmd \in Commands /\ cmd.op \in {"add", "token"}
    BY <2>1, Progress
  <2>3. cmd.group \in Groups /\ cmd.token \in Tokens
    BY <2>2 DEF Commands
  <2>4. secrets' \in Secrets
    BY <1>6, <2>3 DEF SetSecret, WriteSecret, TypeOK, Secrets
  <2>5. TodoOK'
    BY <1>6, <2>1, <1>a DEF SetSecret, WriteSecret
  <2> QED BY <1>6, <2>4, <2>5 DEF TypeOK, TodoOK, SetSecret, WriteSecret, history
<1>7. CASE RemoveSecret
  <2>1. todo # <<>> /\ At("unset")
    BY <1>7 DEF RemoveSecret, WriteSecret, At
  <2>2. secrets' \in Secrets
    BY <1>7 DEF RemoveSecret, WriteSecret, TypeOK, Secrets
  <2>3. TodoOK'
    BY <1>7, <2>1, <1>a DEF RemoveSecret, WriteSecret
  <2> QED BY <1>7, <2>2, <2>3 DEF TypeOK, TodoOK, RemoveSecret, WriteSecret, history
<1>8. CASE SaveConfig
  <2>1. TodoOK'
    BY <1>8, <1>a DEF SaveConfig, At
  <2> QED BY <1>8, <2>1 DEF TypeOK, TodoOK, SaveConfig
<1>9. CASE Rebuild
  <2>1. TodoOK'
    BY <1>9, <1>a DEF Rebuild, At
  <2>2. runtime' = Build(config, secrets) /\ Buildable(config, secrets)
        /\ config \in Configs /\ secrets \in {Broken} \union Secrets
    BY <1>9 DEF Rebuild, TypeOK
  <2> QED BY <1>9, <2>1, <2>2, BuildTyped DEF TypeOK, TodoOK, Rebuild, files
<1>10. CASE Reply
  <2>1. todo # <<>>
    BY <1>10 DEF Reply, At
  <2>2. TodoOK' /\ queue' \in Seq(Commands) /\ Len(queue') <= MaxQueue
    BY <1>10, <2>1, <1>b DEF Reply
  <2>3. events' \in Seq(GroupMaps)
    <3>1. config.games \in GroupMaps /\ events \in Seq(GroupMaps)
      BY DEF TypeOK, Configs
    <3>2. events' = events \/ events' = Append(events, config.games)
      BY <1>10 DEF Reply
    <3> QED BY <3>1, <3>2
  <2>4. joined' \subseteq Groups
    <3>1. cmd \in Commands BY <2>1, Progress
    <3> QED BY <3>1, <1>10 DEF Reply, TypeOK, Commands
  <2> QED BY <1>10, <2>2, <2>3, <2>4 DEF TypeOK, TodoOK, Reply, files
<1>11. CASE Tick
  <2>1. events' \in Seq(GroupMaps)
    BY <1>11 DEF Tick, TypeOK, Configs
  <2> QED BY <1>11, <2>1 DEF TypeOK, Tick, files, cmd
\* A cut write keeps the types.
<1>c. ASSUME Cut PROVE /\ toml' \in {Broken} \union Configs /\ secrets' \in {Broken} \union Secrets
                       /\ joined' \subseteq joined
  BY <1>c DEF Cut, CutConfigs, TypeOK
<1>12. ASSUME NEW cut \in BOOLEAN, Fail(cut) PROVE TypeOK'
  <2>1. /\ toml' \in {Broken} \union Configs /\ secrets' \in {Broken} \union Secrets
        /\ joined' \subseteq joined
    BY <1>12, <1>c DEF Fail, files, TypeOK
  <2>2. todo # <<>>
    BY <1>12 DEF Fail, At
  <2>3. TodoOK' /\ queue' \in Seq(Commands) /\ Len(queue') <= MaxQueue
    BY <1>12, <2>2, <1>b DEF Fail
  <2> QED BY <1>12, <2>1, <2>3 DEF TypeOK, TodoOK, Fail
<1>13. ASSUME NEW cut \in BOOLEAN, Crash(cut) PROVE TypeOK'
  <2>1. /\ toml' \in {Broken} \union Configs /\ secrets' \in {Broken} \union Secrets
        /\ joined' \subseteq joined
    BY <1>13, <1>c DEF Crash, files, TypeOK
  <2>2. /\ queue' = <<>> /\ todo' = <<>> /\ events' = <<>> /\ up' = FALSE
        /\ UNCHANGED <<config, runtime, shown, sent, drawn, asked, lapsed>>
    BY <1>13 DEF Crash
  <2>3. queue' \in Seq(Commands) /\ Len(queue') <= MaxQueue /\ events' \in Seq(GroupMaps)
    BY <2>2
  <2> QED BY <2>1, <2>2, <2>3 DEF TypeOK
<1>14. CASE Start
  <2>1. toml \in Configs /\ Buildable(toml, secrets)
    BY <1>14 DEF Start, Loads, TypeOK
  <2>2. Fresh.games \in GroupMaps /\ toml.games \in GroupMaps
    BY <2>1 DEF Fresh, GroupMaps, Configs
  <2>3. runtime' = Build(toml, secrets) /\ secrets \in {Broken} \union Secrets
    BY <1>14 DEF Start, TypeOK
  <2> QED BY <1>14, <2>1, <2>2, <2>3, BuildTyped, <1>0 DEF TypeOK, TodoOK, Start, files, cmd
<1>15. CASE StartFails
  BY <1>15 DEF TypeOK, StartFails, vars, files, history, cmd
<1>16. CASE UNCHANGED vars
  BY <1>16 DEF TypeOK, vars, files, history, cmd
<1> QED BY <1>1, <1>2, <1>3, <1>4, <1>5, <1>6, <1>7, <1>8, <1>9, <1>10, <1>11, <1>12, <1>13,
           <1>14, <1>15, <1>16 DEF Next

\* A command that is queued does not come before the one under way.
LEMMA SameCommand == TypeOK /\ todo # <<>> /\ (\E c \in Commands : Send(c)) => cmd' = cmd
<1> SUFFICES ASSUME TypeOK, todo # <<>>, NEW c \in Commands, Send(c) PROVE cmd' = cmd
  OBVIOUS
<1>1. queue # <<>> /\ queue \in Seq(Commands) /\ queue' = Append(queue, c)
  BY DEF TypeOK, Send
<1> QED BY <1>1 DEF cmd

\* Every step keeps KnownGame.
LEMMA StepKnown == TypeOK /\ KnownGame /\ [Next]_vars => KnownGame'
<1> SUFFICES ASSUME TypeOK, KnownGame, [Next]_vars, todo' # <<>> PROVE KnownGame'
  BY DEF KnownGame
<1>1. ASSUME NEW c \in Commands, Send(c) PROVE KnownGame'
  <2>1. todo' = todo /\ config' = config /\ up' = up
    BY <1>1 DEF Send
  <2>2. todo # <<>> => cmd' = cmd
    BY <1>1, SameCommand
  <2> QED BY <2>1, <2>2 DEF KnownGame
<1>2. CASE Begin
  <2>1. cmd' = cmd /\ config' = config /\ Known(cmd) /\ up' = up /\ up
    BY <1>2 DEF Begin, cmd
  <2> QED BY <2>1 DEF KnownGame, Known
<1>3. CASE Change
  <2>1. cmd' = cmd /\ config' = Changed /\ todo # <<>> /\ up' = up
    BY <1>3 DEF Change, cmd, At
  <2>2. CASE cmd.op \in {"path", "disable"}
    <3>1. cmd \in Commands BY <2>1, Progress
    <3>2. cmd.group \in Groups /\ cmd.game \in Games BY <3>1, <2>2 DEF Commands
    <3>3. config.games[cmd.group] \in SUBSET Games
      BY <2>1, <2>2, <3>2 DEF KnownGame, TypeOK, Configs, GroupMaps
    <3>4. config'.games[cmd.group] \in SUBSET Games
      BY <2>1, <2>2, <3>2, <3>3 DEF Changed, TypeOK, Configs, GroupMaps
    <3> QED BY <2>1, <3>4, OutIsNoSet DEF KnownGame
  <2> QED BY <2>1, <2>2 DEF KnownGame
<1>4. CASE todo # <<>> /\ queue' = queue /\ config' = config /\ up' = up
  BY <1>4 DEF KnownGame, cmd
<1>5. ASSUME SetSecret \/ RemoveSecret \/ SaveConfig \/ Rebuild PROVE KnownGame'
  <2>1. todo # <<>> /\ queue' = queue /\ config' = config /\ up' = up
    BY <1>5 DEF SetSecret, RemoveSecret, WriteSecret, SaveConfig, Rebuild, At
  <2> QED BY <2>1, <1>4
<1>6. ASSUME Frame \/ Refuse \/ Tick \/ Start \/ StartFails \/ UNCHANGED vars PROVE KnownGame'
  <2>1. todo' = todo
    BY <1>6 DEF Frame, Refuse, Tick, Start, StartFails, vars
  <2>2. Frame \/ StartFails \/ UNCHANGED vars \/ ~(Refuse \/ Tick \/ Start)
    BY <1>6, <2>1 DEF Refuse, Tick, Start, TypeOK, KnownGame
  <2> QED BY <1>6, <2>1, <2>2, <1>4 DEF Frame, StartFails, vars
<1>7. ASSUME NEW cut \in BOOLEAN, Fail(cut) \/ Crash(cut) PROVE FALSE
  BY <1>7 DEF Fail, Crash
<1>8. ~Reply
  BY DEF Reply
<1> QED BY <1>1, <1>2, <1>3, <1>5, <1>6, <1>7, <1>8 DEF Next

\* Types.
THEOREM TypeCorrect == Spec => []TypeOK
<1>1. Init => KnownGame
  BY DEF Init, KnownGame
<1> QED BY <1>1, InitTyped, StepTyped, StepKnown, PTL DEF Spec

-----------------------------------------------------------------------------
(* What is on the disk. *)

\* A change adds or takes out the command's own group, and no other.
LEMMA ChangedMembers ==
  ASSUME TypeOK, KnownGame, Change
  PROVE  /\ \A g \in Members(config'.games) :
              g \in Members(config.games) \/ (cmd.op = "add" /\ g = cmd.group)
         /\ \A g \in Members(config.games) :
              g \in Members(config'.games) \/ (cmd.op = "remove" /\ g = cmd.group)
         /\ cmd.op = "add" => cmd.group \in Members(config'.games)
         /\ cmd.op = "name" => config'.games = config.games
<1>1. todo # <<>> /\ At("change") /\ config' = Changed
  BY DEF Change, At
<1>2. cmd \in Commands /\ cmd.op \in {"add", "path", "disable", "name", "remove"}
  BY <1>1, Progress
<1>3. config \in Configs /\ config.games \in [Groups -> {Out} \union SUBSET Games]
  BY DEF TypeOK, Configs, GroupMaps
<1>4. CASE cmd.op = "name"
  <2>1. config'.games = config.games
    BY <1>1, <1>3, <1>4 DEF Changed, Configs
  <2> QED BY <2>1, <1>4
<1>5. CASE cmd.op = "add"
  <2>1. cmd.group \in Groups
    BY <1>2, <1>5 DEF Commands
  <2>2. config'.games = [config.games EXCEPT ![cmd.group] = {}]
    BY <1>1, <1>3, <1>5 DEF Changed, Configs
  <2> QED BY <1>3, <1>5, <2>1, <2>2, OutIsNoSet DEF Members
<1>6. CASE cmd.op = "remove"
  <2>1. config'.games = [config.games EXCEPT ![cmd.group] = Out]
    BY <1>1, <1>3, <1>6 DEF Changed, Configs
  <2> QED BY <1>3, <1>6, <2>1 DEF Members
<1>7. CASE cmd.op \in {"path", "disable"}
  <2>1. cmd.group \in Groups /\ cmd.game \in Games
    BY <1>2, <1>7 DEF Commands
  <2>2. config.games[cmd.group] # Out /\ config.games[cmd.group] \in SUBSET Games
    BY <1>1, <1>3, <1>7, <2>1 DEF KnownGame
  <2>3. PICK new \in SUBSET Games : config'.games = [config.games EXCEPT ![cmd.group] = new]
    <3>1. CASE cmd.op = "path"
      <4>1. config'.games = [config.games EXCEPT ![cmd.group] = @ \union {cmd.game}]
        BY <1>1, <1>3, <3>1 DEF Changed, Configs
      <4> QED BY <2>1, <2>2, <4>1, <1>3
    <3>2. CASE cmd.op = "disable"
      <4>1. config'.games = [config.games EXCEPT ![cmd.group] = @ \ {cmd.game}]
        BY <1>1, <1>3, <3>2 DEF Changed, Configs
      <4> QED BY <2>1, <2>2, <4>1, <1>3
    <3> QED BY <1>7, <3>1, <3>2
  <2> QED BY <1>3, <1>7, <2>1, <2>2, <2>3, OutIsNoSet DEF Members
<1> QED BY <1>2, <1>4, <1>5, <1>6, <1>7

\* What a cut write leaves of the configuration.
LEMMA CutMembers ==
  ASSUME TypeOK, Cut, NEW g, toml' # toml, toml' # Broken, g \in Members(toml'.games)
  PROVE  g \in Members(config.games)
BY DEF Cut, CutConfigs, Members, At

\* What the user asked to remove is known before the command is handled.
AskedFirst == \A i \in 1..Len(queue) : queue[i].op = "remove" => queue[i].group \in asked
\* The group that is added has its secret once it is in memory.
AddStored ==
  todo # <<>> /\ cmd.op = "add" /\ Len(todo) <= 4 =>
    secrets = Broken \/ secrets[cmd.group] # NoSecret
\* So does every group in memory whose removal was not asked for.
Stored ==
  secrets # Broken => \A g \in Members(config.games) : secrets[g] # NoSecret \/ g \in asked
\* The inductive invariant of Startable.
DiskInv == TypeOK /\ KnownGame /\ AskedFirst /\ AddStored /\ Stored /\ Startable

\* Every step keeps AskedFirst, and a request to remove a group is not forgotten.
LEMMA AskedStep == TypeOK /\ AskedFirst /\ [Next]_vars => AskedFirst' /\ asked \subseteq asked'
<1> SUFFICES ASSUME TypeOK, AskedFirst, [Next]_vars PROVE AskedFirst' /\ asked \subseteq asked'
  OBVIOUS
<1>0. queue \in Seq(Commands) /\ Len(queue) \in Nat
  BY DEF TypeOK
<1>1. ASSUME NEW c \in Commands, Send(c) PROVE AskedFirst' /\ asked \subseteq asked'
  <2>1. queue' = Append(queue, c) /\ asked \subseteq asked'
        /\ (c.op = "remove" => c.group \in asked')
    BY <1>1 DEF Send
  <2>2. ASSUME NEW i \in 1..Len(queue') PROVE queue'[i] = c \/ (i \in 1..Len(queue) /\ queue'[i] = queue[i])
    BY <1>0, <2>1
  <2> QED BY <2>1, <2>2 DEF AskedFirst
<1>2. ASSUME queue' = queue, asked' = asked PROVE AskedFirst' /\ asked \subseteq asked'
  BY <1>2 DEF AskedFirst
<1>3. ASSUME queue' = <<>>, asked' = asked PROVE AskedFirst' /\ asked \subseteq asked'
  <2>1. Len(queue') = 0 BY <1>3
  <2> QED BY <1>3, <2>1 DEF AskedFirst
<1>4. ASSUME queue # <<>>, queue' = Tail(queue), asked' = asked PROVE AskedFirst' /\ asked \subseteq asked'
  <2>1. \A i \in 1..Len(queue') : i + 1 \in 1..Len(queue) /\ queue'[i] = queue[i + 1]
    BY <1>0, <1>4
  <2> QED BY <1>4, <2>1 DEF AskedFirst
<1>5. todo # <<>> => queue # <<>>
  BY DEF TypeOK
<1>6. ASSUME Frame \/ Begin \/ Change \/ SetSecret \/ RemoveSecret \/ SaveConfig \/ Rebuild \/ Tick
             \/ Start \/ StartFails \/ UNCHANGED vars
      PROVE  AskedFirst' /\ asked \subseteq asked'
  <2>1. queue' = queue /\ asked' = asked
    BY <1>6 DEF Frame, Begin, Change, SetSecret, RemoveSecret, WriteSecret, SaveConfig, Rebuild, Tick,
                Start, StartFails, vars, history
  <2> QED BY <2>1, <1>2
<1>7. ASSUME Refuse \/ Reply PROVE AskedFirst' /\ asked \subseteq asked'
  <2>1. queue # <<>> /\ queue' = Tail(queue) /\ asked' = asked
    BY <1>5, <1>7 DEF Refuse, Reply, At, history
  <2> QED BY <2>1, <1>4
<1>8. ASSUME NEW cut \in BOOLEAN, Fail(cut) PROVE AskedFirst' /\ asked \subseteq asked'
  <2>1. queue # <<>> /\ queue' = Tail(queue) /\ asked' = asked
    BY <1>5, <1>8 DEF Fail, At
  <2> QED BY <2>1, <1>4
<1>9. ASSUME NEW cut \in BOOLEAN, Crash(cut) PROVE AskedFirst' /\ asked \subseteq asked'
  BY <1>9, <1>3 DEF Crash
<1> QED BY <1>1, <1>6, <1>7, <1>8, <1>9 DEF Next

\* The command under way when it goes on.
LEMMA Onward ==
  ASSUME TypeOK, [Next]_vars, todo' # <<>>, todo # <<>>
  PROVE  cmd' = cmd
<1>1. ASSUME NEW c \in Commands, Send(c) PROVE cmd' = cmd
  BY <1>1, SameCommand
<1>2. CASE queue' = queue
  BY <1>2 DEF cmd
<1>3. ~Reply /\ \A cut \in BOOLEAN : ~Fail(cut) /\ ~Crash(cut)
  BY DEF Reply, Fail, Crash
<1>4. ~Refuse
  BY DEF Refuse
<1>5. ASSUME Frame \/ Begin \/ Change \/ SetSecret \/ RemoveSecret \/ SaveConfig \/ Rebuild \/ Tick
             \/ Start \/ StartFails \/ UNCHANGED vars
      PROVE  queue' = queue
  BY <1>5 DEF Frame, Begin, Change, SetSecret, RemoveSecret, WriteSecret, SaveConfig, Rebuild, Tick,
              Start, StartFails, vars
<1> QED BY <1>1, <1>2, <1>3, <1>4, <1>5 DEF Next

\* Steps that leave a command where it is, or end it.
Elsewhere ==
  \/ \E c \in Commands : Send(c)
  \/ Frame \/ Refuse \/ Tick \/ StartFails \/ UNCHANGED vars
\* Those steps change nothing that the worker works on.
LEMMA ElsewhereKeeps ==
  ASSUME TypeOK, KnownGame, [Next]_vars, Elsewhere
  PROVE  /\ UNCHANGED <<config, toml, secrets, runtime, up, todo>>
         /\ todo # <<>> => cmd' = cmd
<1>1. UNCHANGED <<config, toml, secrets, runtime, up, todo>>
  BY DEF Elsewhere, Send, Frame, Refuse, Tick, StartFails, vars, files
<1>2. todo # <<>> => cmd' = cmd
  BY <1>1, Onward
<1> QED BY <1>1, <1>2

\* Every step keeps what is stored.
LEMMA StoredStep ==
  ASSUME DiskInv, [Next]_vars
  PROVE  AddStored' /\ Stored' /\ Startable'
<1> USE DEF DiskInv
<1> USE SettingsAssumption
<1>0. asked \subseteq asked'
  BY AskedStep
<1>1. CASE Elsewhere
  <2>1. /\ UNCHANGED <<config, toml, secrets, runtime, up, todo>>
        /\ todo # <<>> => cmd' = cmd
    BY <1>1, ElsewhereKeeps
  <2> QED BY <2>1, <1>0 DEF AddStored, Stored, Startable
<1>2. CASE Begin
  <2>1. cmd' = cmd /\ UNCHANGED <<config, toml, secrets>> /\ todo' = Steps[cmd.op]
    BY <1>2 DEF Begin, cmd, files
  <2>2. cmd'.op = "add" => ~(Len(todo') <= 4)
    <3>1. ~(Len(AddSteps) <= 4) BY DEF AddSteps
    <3> QED BY <2>1, <3>1 DEF Steps
  <2>3. AddStored'
    BY <2>2 DEF AddStored
  <2> QED BY <2>1, <2>3, <1>0 DEF Stored, Startable
<1>3. CASE Change
  <2>1. todo # <<>> /\ cmd' = cmd /\ UNCHANGED <<toml, secrets>> /\ todo' = Tail(todo)
    BY <1>3 DEF Change, At, cmd, files
  <2>2. cmd.op = "add" => Len(todo) <= 4
    BY <1>3, <2>1, Progress DEF Change
  <2>3. cmd.op = "add" => secrets = Broken \/ secrets[cmd.group] # NoSecret
    BY <2>1, <2>2 DEF AddStored
  <2>4. Stored'
    BY <1>0, <1>3, <2>1, <2>3, ChangedMembers DEF Stored
  <2> QED BY <2>1, <2>3, <2>4, <1>0 DEF AddStored, Startable
<1>4. CASE SetSecret
  <2>1. todo # <<>> /\ cmd' = cmd /\ UNCHANGED <<config, toml>> /\ At("set") /\ secrets # Broken
        /\ secrets' = [secrets EXCEPT ![cmd.group] = cmd.token]
    BY <1>4 DEF SetSecret, WriteSecret, At, cmd
  <2>2. cmd.group \in Groups /\ cmd.token \in Tokens
    BY <2>1, Progress DEF Commands
  <2>3. secrets \in [Groups -> Tokens \union {NoSecret}]
    BY <2>1 DEF TypeOK, Secrets
  <2>4. secrets'[cmd.group] # NoSecret /\ \A g \in Groups : secrets[g] # NoSecret => secrets'[g] # NoSecret
    BY <2>1, <2>2, <2>3
  <2> QED BY <2>1, <2>4, <1>0 DEF AddStored, Stored, Startable, Members
<1>5. CASE RemoveSecret
  <2>1. todo # <<>> /\ cmd' = cmd /\ UNCHANGED <<config, toml>> /\ At("unset") /\ secrets # Broken
        /\ secrets' = [secrets EXCEPT ![cmd.group] = NoSecret]
    BY <1>5 DEF RemoveSecret, WriteSecret, At, cmd
  <2>2. cmd.op = "remove" /\ queue # <<>>
    BY <2>1, Progress
  <2>3. cmd.group \in asked
    <3>1. 1 \in 1..Len(queue) /\ queue[1] = cmd
      BY <2>2 DEF cmd, TypeOK
    <3> QED BY <2>2, <3>1 DEF AskedFirst
  <2>4. secrets \in [Groups -> Tokens \union {NoSecret}]
    BY <2>1 DEF TypeOK, Secrets
  <2>5. \A g \in Groups : secrets[g] # NoSecret => secrets'[g] # NoSecret \/ g \in asked
    BY <2>1, <2>3, <2>4
  <2> QED BY <2>1, <2>2, <2>5, <1>0 DEF AddStored, Stored, Startable, Members
<1>6. CASE SaveConfig
  <2>1. cmd' = cmd /\ UNCHANGED <<config, secrets>> /\ toml' = config /\ todo # <<>> /\ todo' = Tail(todo)
    BY <1>6 DEF SaveConfig, At, cmd
  <2>2. Len(todo) = 3
    BY <1>6, <2>1, Progress DEF SaveConfig
  <2> QED BY <2>1, <2>2, <1>0 DEF AddStored, Stored, Startable
<1>7. CASE Rebuild
  <2>1. cmd' = cmd /\ UNCHANGED <<config, secrets, toml>> /\ todo # <<>> /\ todo' = Tail(todo)
    BY <1>7 DEF Rebuild, At, cmd, files
  <2>2. Len(todo) = 2
    BY <1>7, <2>1, Progress DEF Rebuild
  <2> QED BY <2>1, <2>2, <1>0 DEF AddStored, Stored, Startable
<1>8. CASE Reply
  <2>1. UNCHANGED <<config, secrets, toml>> /\ todo' = <<>>
    BY <1>8 DEF Reply, files
  <2> QED BY <2>1, <1>0 DEF AddStored, Stored, Startable
<1>9. ASSUME NEW cut \in BOOLEAN, Fail(cut) \/ Crash(cut) PROVE AddStored' /\ Stored' /\ Startable'
  <2>1. UNCHANGED config /\ todo' = <<>> /\ (Cut \/ UNCHANGED files)
    BY <1>9 DEF Fail, Crash
  <2>2. secrets' = Broken \/ secrets' = secrets
    BY <2>1 DEF Cut, files
  <2>3. toml' # toml /\ toml' # Broken => \A g \in Members(toml'.games) : g \in Members(config.games)
    BY <2>1, CutMembers DEF files
  <2> QED BY <2>1, <2>2, <2>3, <1>0 DEF AddStored, Stored, Startable
<1>10. CASE Start
  <2>1. config' = toml /\ UNCHANGED <<toml, secrets>> /\ toml # Broken
    BY <1>10 DEF Start, Loads, files
  <2>2. todo' = <<>>
    BY <1>10 DEF Start, KnownGame
  <2> QED BY <2>1, <2>2, <1>0 DEF AddStored, Stored, Startable
<1> QED BY <1>1, <1>2, <1>3, <1>4, <1>5, <1>6, <1>7, <1>8, <1>9, <1>10 DEF Next, Elsewhere

\* Both files start empty.
LEMMA InitOnDisk == Init => DiskInv
<1> SUFFICES ASSUME Init PROVE DiskInv
  OBVIOUS
<1>1. TypeOK
  BY InitTyped
<1>2. Len(queue) = 0 /\ todo = <<>> /\ config = Fresh /\ toml = Fresh
  BY DEF Init
<1>3. Members(Fresh.games) = {}
  BY DEF Members, Fresh
<1> QED BY <1>1, <1>2, <1>3 DEF DiskInv, KnownGame, AskedFirst, AddStored, Stored, Startable

\* DiskInv is inductive.
LEMMA DiskStep == DiskInv /\ [Next]_vars => DiskInv'
BY StepTyped, StepKnown, AskedStep, StoredStep DEF DiskInv

\* At every instant, whatever failed before: if both files can be read, the only
\* groups of config.toml without a secret are groups the user asked to remove.
THEOREM AlwaysStartable == Spec => []Startable
<1>1. DiskInv => Startable
  BY DEF DiskInv
<1> QED BY <1>1, InitOnDisk, DiskStep, PTL DEF Spec

\* The group that is added is in memory, then in the file, before it is reported.
AddListed ==
  todo # <<>> /\ cmd.op = "add" =>
    /\ Len(todo) <= 3 => cmd.group \in Members(config.games)
    /\ Len(todo) <= 2 => (toml # Broken => cmd.group \in Members(toml.games))
\* What was reported is in memory, too.
JoinedHeld == \A g \in joined \ asked : g \in Members(config.games)
\* The inductive invariant of JoinedStays.
JoinedInv == DiskInv /\ AddListed /\ JoinedHeld /\ JoinedStays

\* Every step keeps what was reported.
LEMMA JoinedStep ==
  ASSUME JoinedInv, [Next]_vars
  PROVE  AddListed' /\ JoinedHeld' /\ JoinedStays'
<1> USE DEF JoinedInv, DiskInv
<1>0. asked \subseteq asked'
  BY AskedStep
<1>a. ASSUME joined' = joined, UNCHANGED <<config, toml, secrets>> PROVE JoinedHeld' /\ JoinedStays'
  BY <1>0, <1>a DEF JoinedHeld, JoinedStays
<1>1. CASE Elsewhere
  <2>1. /\ UNCHANGED <<config, toml, secrets, up, todo>>
        /\ todo # <<>> => cmd' = cmd
    BY <1>1, ElsewhereKeeps
  <2>2. joined' = joined
    BY <1>1 DEF Elsewhere, Send, Frame, Refuse, Tick, StartFails, vars, history
  <2> QED BY <2>1, <2>2, <1>a DEF AddListed
<1>2. CASE Begin
  <2>1. cmd' = cmd /\ UNCHANGED <<config, toml, secrets>> /\ todo' = Steps[cmd.op] /\ joined' = joined
    BY <1>2 DEF Begin, cmd, files, history
  <2>2. cmd'.op = "add" => ~(Len(todo') <= 3) /\ ~(Len(todo') <= 2)
    <3>1. ~(Len(AddSteps) <= 3) /\ ~(Len(AddSteps) <= 2) BY DEF AddSteps
    <3> QED BY <2>1, <3>1 DEF Steps
  <2>3. AddListed'
    BY <2>2 DEF AddListed
  <2> QED BY <2>1, <2>3, <1>a
<1>3. CASE Change
  <2>1. todo # <<>> /\ cmd' = cmd /\ UNCHANGED <<toml, secrets>> /\ joined' = joined /\ At("change")
        /\ todo' = Tail(todo)
    BY <1>3 DEF Change, At, cmd, files, history
  <2>2. cmd.op = "add" => Len(todo) = 4 /\ Len(Tail(todo)) = Len(todo) - 1
    BY <2>1, Progress
  <2>3. cmd.op = "add" => ~(Len(todo') <= 2)
    BY <2>1, <2>2
  <2>4. cmd.op = "remove" => cmd.group \in asked
    <3>1. 1 \in 1..Len(queue) /\ queue[1] = cmd
      BY <2>1, Progress DEF cmd, TypeOK
    <3> QED BY <3>1 DEF AskedFirst
  <2>5. JoinedHeld'
    BY <1>0, <1>3, <2>1, <2>4, ChangedMembers DEF JoinedHeld
  <2>6. AddListed'
    BY <1>3, <2>1, <2>3, ChangedMembers DEF AddListed
  <2> QED BY <1>0, <2>1, <2>5, <2>6 DEF JoinedStays
<1>4. CASE SetSecret
  <2>1. todo # <<>> /\ cmd' = cmd /\ UNCHANGED <<config, toml>> /\ At("set") /\ joined' = joined
        /\ secrets' = [secrets EXCEPT ![cmd.group] = cmd.token] /\ secrets # Broken
        /\ todo' = Tail(todo)
    BY <1>4 DEF SetSecret, WriteSecret, At, cmd, history
  <2>2. cmd.group \in Groups /\ cmd.token \in Tokens
    BY <2>1, Progress DEF Commands
  <2>3. secrets \in [Groups -> Tokens \union {NoSecret}]
    BY <2>1 DEF TypeOK, Secrets
  <2>4. \A g \in Groups : secrets[g] # NoSecret => secrets'[g] # NoSecret
    BY <2>1, <2>2, <2>3, SettingsAssumption
  <2>5. AddListed'
    <3>1. cmd.op = "add" => Len(todo) = 5 /\ Len(Tail(todo)) = Len(todo) - 1
      BY <2>1, Progress
    <3>2. cmd.op = "add" => Len(todo') = 4
      BY <2>1, <3>1
    <3>3. Len(todo') = 4 => ~(Len(todo') <= 3) /\ ~(Len(todo') <= 2)
      OBVIOUS
    <3> QED BY <2>1, <3>2, <3>3 DEF AddListed
  <2>6. joined \subseteq Groups
    BY DEF TypeOK
  <2> QED BY <1>0, <2>1, <2>4, <2>5, <2>6 DEF JoinedHeld, JoinedStays
<1>5. CASE RemoveSecret
  <2>1. todo # <<>> /\ cmd' = cmd /\ UNCHANGED <<config, toml>> /\ At("unset") /\ joined' = joined
        /\ secrets' = [secrets EXCEPT ![cmd.group] = NoSecret] /\ secrets # Broken
    BY <1>5 DEF RemoveSecret, WriteSecret, At, cmd, history
  <2>2. cmd.op = "remove" /\ queue # <<>>
    BY <2>1, Progress
  <2>3. cmd.group \in asked
    <3>1. 1 \in 1..Len(queue) /\ queue[1] = cmd
      BY <2>2 DEF cmd, TypeOK
    <3> QED BY <2>2, <3>1 DEF AskedFirst
  <2>4. secrets \in [Groups -> Tokens \union {NoSecret}] /\ joined \subseteq Groups
    BY <2>1 DEF TypeOK, Secrets
  <2>5. \A g \in Groups : secrets[g] # NoSecret => secrets'[g] # NoSecret \/ g \in asked
    BY <2>1, <2>3, <2>4
  <2> QED BY <1>0, <2>1, <2>2, <2>4, <2>5 DEF AddListed, JoinedHeld, JoinedStays
<1>6. CASE SaveConfig
  <2>1. cmd' = cmd /\ UNCHANGED <<config, secrets>> /\ toml' = config /\ todo # <<>> /\ joined' = joined
        /\ At("save")
    BY <1>6 DEF SaveConfig, At, cmd
  <2>2. Len(todo) = 3
    BY <2>1, Progress
  <2>3. Len(todo) <= 3
    BY <2>2
  <2>4. cmd.op = "add" => cmd.group \in Members(config.games)
    BY <2>1, <2>3 DEF AddListed
  <2> QED BY <1>0, <2>1, <2>4 DEF AddListed, JoinedHeld, JoinedStays
<1>7. CASE Rebuild
  <2>1. cmd' = cmd /\ UNCHANGED <<config, secrets, toml>> /\ todo # <<>> /\ joined' = joined
        /\ At("rebuild")
    BY <1>7 DEF Rebuild, At, cmd, files
  <2>0. Len(todo) = 2
    BY <2>1, Progress
  <2>2. Len(todo) <= 3 /\ Len(todo) <= 2
    BY <2>0
  <2>3. AddListed'
    BY <2>1, <2>2 DEF AddListed
  <2> QED BY <2>1, <2>3, <1>a
<1>8. CASE Reply
  <2>1. UNCHANGED <<config, secrets, toml, asked>> /\ todo' = <<>> /\ todo # <<>>
        /\ joined' = (IF cmd.op = "add" THEN joined \union {cmd.group} ELSE joined)
        /\ (At("groups") \/ At("activity"))
    BY <1>8 DEF Reply, files, At
  <2>2. Len(todo) <= 4 /\ Len(todo) <= 3 /\ Len(todo) <= 2
    BY <2>1, Progress
  <2>3. cmd.op = "add" => /\ cmd.group \in Members(config.games)
                          /\ toml # Broken => cmd.group \in Members(toml.games)
                          /\ secrets # Broken => secrets[cmd.group] # NoSecret
    BY <2>1, <2>2 DEF AddListed, AddStored
  <2> QED BY <2>1, <2>3 DEF AddListed, JoinedHeld, JoinedStays
<1>9. ASSUME NEW cut \in BOOLEAN, Fail(cut) \/ Crash(cut) PROVE AddListed' /\ JoinedHeld' /\ JoinedStays'
  <2>1. UNCHANGED <<config, asked>> /\ todo' = <<>> /\ (Cut \/ UNCHANGED <<files, joined>>)
    BY <1>9 DEF Fail, Crash
  <2>2. joined' \subseteq joined /\ (secrets' = Broken \/ secrets' = secrets)
    BY <2>1 DEF Cut, files
  <2>3. toml' = toml \/ joined' = {} \/ joined' \subseteq Members(toml'.games)
    BY <2>1 DEF Cut, files
  <2> QED BY <2>1, <2>2, <2>3 DEF AddListed, JoinedHeld, JoinedStays
<1>10. CASE Start
  <2>1. config' = toml /\ UNCHANGED <<toml, secrets, joined, asked>> /\ toml # Broken
    BY <1>10 DEF Start, Loads, files
  <2>2. todo' = <<>>
    BY <1>10 DEF Start, KnownGame
  <2> QED BY <2>1, <2>2 DEF AddListed, JoinedHeld, JoinedStays
<1> QED BY <1>1, <1>2, <1>3, <1>4, <1>5, <1>6, <1>7, <1>8, <1>9, <1>10 DEF Next, Elsewhere

\* A group that was reported as created or joined stays in both files until
\* its removal is asked for.
THEOREM JoinedAlwaysStays == Spec => []JoinedStays
<1>1. Init => DiskInv
  BY InitOnDisk
<1>2. Init => AddListed /\ JoinedHeld /\ JoinedStays
  BY DEF Init, AddListed, JoinedHeld, JoinedStays
<1>3. DiskInv /\ [Next]_vars => DiskInv'
  BY DiskStep
<1>4. JoinedInv /\ [Next]_vars => JoinedInv'
  BY DiskStep, JoinedStep DEF JoinedInv
<1>5. Init => JoinedInv
  BY <1>1, <1>2 DEF JoinedInv
<1>6. JoinedInv => JoinedStays
  BY DEF JoinedInv
<1> QED BY <1>4, <1>5, <1>6, PTL DEF Spec

-----------------------------------------------------------------------------
(* Who follows what is in memory. *)

\* The steps that bring the file, the agent and the window in step are still to come.
SaveAhead == todo # <<>> /\ cmd.op # "token" /\ Len(todo) >= 3
RebuildAhead == todo # <<>> /\ Len(todo) >= 2
ListAhead == todo # <<>> /\ cmd.op \notin {"token", "name"}
Newest == IF events = <<>> THEN shown ELSE events[Len(events)]
\* File, agent and window agree with memory, a command failed, or the step that brings
\* them in step is still to come.
FollowInv ==
  up => /\ "file" \notin lapsed => toml = config \/ SaveAhead
        /\ "agent" \notin lapsed => runtime = Build(config, secrets) \/ RebuildAhead
        /\ "window" \notin lapsed => Newest = config.games \/ ListAhead

\* Every step keeps FollowInv.
LEMMA FollowStep ==
  ASSUME TypeOK, KnownGame, FollowInv, [Next]_vars
  PROVE  FollowInv'
<1>1. CASE Elsewhere
  <2>1. /\ UNCHANGED <<config, toml, secrets, runtime, up, todo>>
        /\ todo # <<>> => cmd' = cmd
    BY <1>1, ElsewhereKeeps
  <2>2. events \in Seq(GroupMaps)
    BY DEF TypeOK
  <2>3. CASE Tick
    <3>1. events' = Append(events, config.games) /\ lapsed' = lapsed \ {"window"}
      BY <2>3 DEF Tick
    <3>2. Newest' = config.games
      BY <2>2, <3>1 DEF Newest
    <3> QED BY <2>1, <3>1, <3>2 DEF FollowInv, SaveAhead, RebuildAhead
  <2>4. CASE ~Tick
    <3>1. lapsed' = lapsed
      BY <1>1, <2>4 DEF Elsewhere, Send, Frame, Refuse, StartFails, vars, history
    <3>2. Newest' = Newest
      BY <1>1, <2>2, <2>4 DEF Elsewhere, Send, Frame, Refuse, StartFails, vars, Newest
    <3> QED BY <2>1, <3>1, <3>2 DEF FollowInv, SaveAhead, RebuildAhead, ListAhead
  <2> QED BY <2>3, <2>4
<1>2. CASE Begin
  <2>1. UNCHANGED <<config, toml, secrets, runtime, up, lapsed, events, shown>> /\ todo = <<>>
    BY <1>2 DEF Begin, files, history
  <2> QED BY <2>1 DEF FollowInv, SaveAhead, RebuildAhead, ListAhead, Newest
<1>3. CASE Change
  <2>1. UNCHANGED <<toml, secrets, runtime, up, lapsed, events, shown>> /\ todo # <<>> /\ cmd' = cmd
        /\ todo' = Tail(todo) /\ At("change")
    BY <1>3 DEF Change, files, history, At, cmd
  <2>2. /\ cmd.op # "token" /\ Len(todo) \in {4, 5} /\ Len(todo') = Len(todo) - 1
        /\ todo' \in Seq(AllSteps)
    BY <2>1, Progress
  <2>3. todo' # <<>> /\ Len(todo') >= 3 /\ Len(todo') >= 2
    <3>1. Len(todo') \in {3, 4} BY <2>2
    <3>2. Len(<<>>) = 0 OBVIOUS
    <3> QED BY <2>2, <3>1, <3>2
  <2>4. cmd.op = "name" => config'.games = config.games
    BY <1>3, ChangedMembers
  <2> QED BY <2>1, <2>2, <2>3, <2>4 DEF FollowInv, SaveAhead, RebuildAhead, ListAhead, Newest
<1>4. ASSUME SetSecret \/ RemoveSecret PROVE FollowInv'
  <2>1. UNCHANGED <<config, toml, runtime, up, lapsed, events, shown>> /\ todo # <<>> /\ cmd' = cmd
        /\ todo' = Tail(todo) /\ (At("set") \/ At("unset"))
    BY <1>4 DEF SetSecret, RemoveSecret, WriteSecret, history, At, cmd
  <2>2. /\ Len(todo) \in {3, 4, 5} /\ Len(todo') = Len(todo) - 1 /\ todo' \in Seq(AllSteps)
        /\ cmd.op # "token" => Len(todo) \in {4, 5}
    BY <2>1, Progress
  <2>3. todo' # <<>> /\ Len(todo') >= 2 /\ (cmd.op # "token" => Len(todo') >= 3)
    <3>1. Len(todo') \in {2, 3, 4} BY <2>2
    <3>2. Len(<<>>) = 0 OBVIOUS
    <3> QED BY <2>2, <3>1, <3>2
  <2> QED BY <2>1, <2>3 DEF FollowInv, SaveAhead, RebuildAhead, ListAhead, Newest
<1>5. CASE SaveConfig
  <2>1. UNCHANGED <<config, secrets, runtime, up, events, shown>> /\ todo # <<>> /\ cmd' = cmd
        /\ todo' = Tail(todo) /\ At("save") /\ toml' = config /\ lapsed' = lapsed \ {"file"}
    BY <1>5 DEF SaveConfig, At, cmd
  <2>2. Len(todo) = 3 /\ Len(todo') = Len(todo) - 1
    BY <2>1, Progress
  <2>3. todo' # <<>> /\ Len(todo') >= 2
    <3>1. Len(todo') # 0 BY <2>2
    <3>2. Len(<<>>) = 0 OBVIOUS
    <3> QED BY <2>2, <3>1, <3>2
  <2> QED BY <2>1, <2>3 DEF FollowInv, RebuildAhead, ListAhead, Newest
<1>6. CASE Rebuild
  <2>1. UNCHANGED <<config, toml, secrets, up, events, shown>> /\ todo # <<>> /\ cmd' = cmd
        /\ todo' = Tail(todo) /\ At("rebuild") /\ runtime' = Build(config, secrets)
        /\ lapsed' = lapsed \ {"agent"}
    BY <1>6 DEF Rebuild, At, cmd, files
  <2>2. Len(todo) = 2 /\ Len(todo') = Len(todo) - 1
    BY <2>1, Progress
  <2>3. todo' # <<>> /\ ~(Len(todo) >= 3)
    <3>1. Len(todo') = 1 BY <2>2
    <3>2. Len(<<>>) = 0 OBVIOUS
    <3> QED BY <2>2, <3>1, <3>2
  <2>4. runtime' = Build(config', secrets')
    BY <2>1
  <2> QED BY <2>1, <2>3, <2>4 DEF FollowInv, SaveAhead, ListAhead, Newest
<1>7. CASE Reply
  <2>1. UNCHANGED <<config, toml, secrets, runtime, up, shown>> /\ todo # <<>> /\ todo' = <<>>
        /\ (At("groups") \/ At("activity"))
    BY <1>7 DEF Reply, At, files
  <2>2. Len(todo) = 1
    BY <2>1, Progress
  <2>3. ~SaveAhead /\ ~RebuildAhead
    BY <2>2 DEF SaveAhead, RebuildAhead
  <2>4. CASE At("groups")
    <3>1. events' = Append(events, config.games) /\ lapsed' = lapsed \ {"window"}
      BY <1>7, <2>4 DEF Reply
    <3>2. Newest' = config.games
      BY <3>1 DEF Newest, TypeOK
    <3> QED BY <2>1, <2>3, <3>1, <3>2 DEF FollowInv
  <2>5. CASE ~At("groups")
    <3>1. UNCHANGED <<events, lapsed>> /\ cmd.op \in {"token", "name"}
      BY <1>7, <2>1, <2>5, Progress DEF Reply
    <3>2. ~ListAhead /\ Newest' = Newest
      BY <2>1, <3>1 DEF ListAhead, Newest
    <3> QED BY <2>1, <2>3, <3>1, <3>2 DEF FollowInv
  <2> QED BY <2>4, <2>5
<1>8. ASSUME NEW cut \in BOOLEAN, Fail(cut) \/ Crash(cut) PROVE FollowInv'
  BY <1>8 DEF Fail, Crash, FollowInv
<1>9. CASE Start
  <2>1. config' = toml /\ UNCHANGED <<toml, secrets>> /\ runtime' = Build(toml, secrets)
        /\ events' = <<toml.games>>
    BY <1>9 DEF Start, files
  <2>2. Newest' = config'.games
    BY <2>1 DEF Newest
  <2>3. toml' = config' /\ runtime' = Build(config', secrets')
    BY <2>1
  <2> QED BY <2>2, <2>3 DEF FollowInv
<1> QED BY <1>1, <1>2, <1>3, <1>4, <1>5, <1>6, <1>7, <1>8, <1>9 DEF Next, Elsewhere

\* At the first start all agree.
LEMMA InitFollows == Init => FollowInv
<1> SUFFICES ASSUME Init PROVE FollowInv
  OBVIOUS
<1>1. toml = config /\ runtime = Build(config, secrets) /\ events = <<Fresh.games>> /\ config = Fresh
  BY DEF Init
<1>2. Newest = config.games
  BY <1>1 DEF Newest
<1> QED BY <1>1, <1>2 DEF FollowInv

\* FollowInv holds throughout.
LEMMA FollowAlways == Spec => [](TypeOK /\ KnownGame /\ FollowInv)
<1>1. Init => TypeOK /\ KnownGame /\ FollowInv
  BY InitTyped, InitFollows DEF Init, KnownGame
<1>2. TypeOK /\ KnownGame /\ FollowInv /\ [Next]_vars => (TypeOK /\ KnownGame /\ FollowInv)'
  BY StepTyped, StepKnown, FollowStep
<1> QED BY <1>1, <1>2, PTL DEF Spec

\* Between commands, config.toml is what is in memory and the agent works with it and
\* with the stored tokens, unless a command failed since.
THEOREM AgentAlwaysFollows == Spec => []AgentFollows
<1>1. FollowInv => AgentFollows
  BY DEF FollowInv, AgentFollows, SaveAhead, RebuildAhead
<1> QED BY <1>1, FollowAlways, PTL

\* When all events were applied, the window shows the groups and games the backend has.
THEOREM WindowAlwaysFollows == Spec => []WindowFollows
<1>1. FollowInv => WindowFollows
  BY DEF FollowInv, WindowFollows, ListAhead, Newest
<1> QED BY <1>1, FollowAlways, PTL
=============================================================================
