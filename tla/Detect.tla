------------------------------- MODULE Detect -------------------------------
(* How salvae-detect finds things on the disk: the save folder of a game
   (resolve.rs, manifest.rs, roots.rs), the folders a game wrote between two
   snapshots (snapshot.rs, candidate.rs, discovery.rs), and the installed game
   that a process belongs to (steam.rs, epic.rs, game.rs).

   The disk changes; the searches are functions of it.  A path is the sequence
   of its components, a search root a component like any other (the install folder,
   for one, has the game's name).  Files that are alike are one unit of n files, and
   a unit of none is an empty folder.  Fuzzy comparison of names is the set Like of
   names that resemble the game's.  Left out: count_save_files counts a folder whose
   own name ends like a save file's, too. *)
EXTENDS Integers, FiniteSets, Sequences, FiniteSetsExt, Functions

CONSTANTS
  Units,        \* [dir : path, sav : BOOLEAN, n : Nat]: n files in dir (sav: saves)
  Roots,        \* the search roots, in order: save_search_roots and the install folder
  NameOrder,    \* all names, in the order directories list them
  Like,         \* names that resemble the game's (name_matches)
  SaveNames,    \* SAVE_DIR_NAMES
  Noise,        \* NOISE
  ById, ByName, \* the path templates of the game's manifest entries, or Missing
  Missing,      \* no such entry, template, folder, snapshot or game
  Installed,    \* [store : {"steam", "epic"}, dir : path]: the launchers' files
  Processes,    \* paths of executables
  Lower(_),     \* a name in lower case
  MaxWrites     \* bound: how often units are written

Names == Range(Roots) \union Range(NameOrder)

ASSUME DetectAssumption ==
  /\ Roots \in Seq(Range(Roots)) /\ NameOrder \in Seq(Range(NameOrder)) /\ MaxWrites \in Nat
  /\ IsFiniteSet(Units) /\ IsFiniteSet(Installed)
  /\ \A u \in Units :
       /\ u.n \in Nat /\ u.sav \in BOOLEAN
       /\ u.dir \in Seq(Names) /\ u.dir # <<>>
       /\ \A i \in 2..Len(u.dir) : u.dir[i] \in Range(NameOrder)
  /\ \A g \in Installed : g.dir \in Seq(Range(g.dir))
  /\ \A exe \in Processes : exe \in Seq(Range(exe))
ASSUME MissingAssumption ==
  /\ Missing \notin Installed
  /\ \A u \in Units : \A k \in 1..Len(u.dir) : SubSeq(u.dir, 1, k) # Missing

VARIABLES
  stamp,    \* size and modification time of each unit
  there,    \* the units that exist
  before,   \* ArmedScan: stamps of the units a snapshot saw, or Missing
  games,    \* the installed games, as the program listed them when it started
  written   \* history: units written since that snapshot

detectVars == <<stamp, there, before, games, written>>

-----------------------------------------------------------------------------
(* find_save_dir. *)
NameOf(d) == d[Len(d)]
Parent(d) == d[Len(d) - 1]
Dirs == UNION {{SubSeq(u.dir, 1, k) : k \in 1..Len(u.dir)} : u \in there}

\* What the walks of three levels below the roots visit, in their order: the roots in
\* turn, a folder before what it contains, and folders as the directory lists them.
Rooted == {d \in Dirs : d[1] \in Range(Roots) /\ Len(d) \in 2..4}
Rank(order, name) == CHOOSE i \in DOMAIN order : order[i] = name
RankAt(d, i) == Rank(IF i = 1 THEN Roots ELSE NameOrder, d[i])
Precedes(d, e) ==
  \E i \in 1..Len(e) :
    /\ \A j \in 1..(i - 1) : j <= Len(d) /\ d[j] = e[j]
    /\ i <= Len(d) => RankAt(d, i) < RankAt(e, i)
Visits ==
  LET placed == {<<d, Cardinality({e \in Rooted : Precedes(e, d)})>> : d \in Rooted}
  IN [i \in 1..Cardinality(Rooted) |-> (CHOOSE p \in placed : p[2] = i - 1)[1]]

\* How many files the units in S are.
Files(S) == SumFunctionOnSet([u \in S |-> u.n], S)
SaveFiles(d) == Files({u \in there : u.dir = d /\ u.sav})
FileScoreUncapped(n) == IF n = 0 THEN 0 ELSE 10 + n
FileScore(n) == IF n = 0 THEN 0 ELSE 10 + (IF n < 20 THEN n ELSE 20)
Score(d) ==
  (IF NameOf(d) \in Like THEN 100 ELSE 0)
  + (IF NameOf(d) \in SaveNames THEN 40 + (IF Parent(d) \in Like THEN 60 ELSE 0) ELSE 0)
  + FileScore(SaveFiles(d))

BeatsOrTies(d, best) == Score(d) > 0 /\ (best = Missing \/ Score(d) >= Score(best))
Beats(d, best) == Score(d) > 0 /\ (best = Missing \/ Score(d) > Score(best))
Heuristic ==
  LET visits == Visits
      best[i \in 0..Len(visits)] ==
        IF i = 0 THEN Missing
        ELSE LET d == visits[i]
                 former == best[i - 1]
             IN IF Beats(d, former) THEN d ELSE former
  IN best[Len(visits)]

\* An entry found by Steam id hides one found by name, even if none of its paths exist.
Templates == IF ById # Missing THEN ById ELSE IF ByName # Missing THEN ByName ELSE <<>>
Curated == {i \in DOMAIN Templates : Templates[i] \in Dirs}
FindSaveDir == IF Curated # {} THEN Templates[Min(Curated)] ELSE Heuristic

-----------------------------------------------------------------------------
(* arm and collect. *)
Seen(u) == u.n > 0 /\ Len(u.dir) <= 4 /\ u.dir[1] \in Range(Roots)
Capture == [u \in {v \in there : Seen(v)} |-> stamp[u]]
ChangedOnly(old, new) == {u \in DOMAIN new : u \in DOMAIN old /\ old[u] # new[u]}
Diff(old, new) == {u \in DOMAIN new : u \in DOMAIN old => old[u] # new[u]}

\* candidate_key: up to the first component that resembles the game, else the
\* top-level folder, else the root.
Key(d) ==
  LET hits == {i \in 2..Len(d) : d[i] \in Like}
  IN IF hits # {} THEN SubSeq(d, 1, Min(hits))
     ELSE SubSeq(d, 1, IF Len(d) > 1 THEN 2 ELSE 1)
Named(k) == Len(k) > 1 /\ NameOf(k) \in Like
IsNoise(k) == ~Named(k) /\ Len(k) > 1 /\ k[2] \in Noise

\* rank, over all roots: folder, changed files and score.
Scored(k, n) == [folder |-> k, changed |-> n, score |-> n + (IF Named(k) THEN 100 ELSE 0)]
Collect ==
  LET changed == Diff(before, Capture)
      keys == {k \in {Key(u.dir) : u \in changed} : ~IsNoise(k)}
  IN {Scored(k, Files({u \in changed : Key(u.dir) = k})) : k \in keys}

-----------------------------------------------------------------------------
(* enumerate_games and match_process_to_game.  A read error (failing) ends a store's
   enumeration, and the backend takes it for a store without games.  So does one file
   of Steam's that does not parse (broken); one of Epic's is skipped. *)
Stores == {"steam", "epic"}
Of(store) == {g \in Installed : g.store = store}
SteamGames(broken, failing) ==
  IF "steam" \in failing \/ broken \cap Of("steam") # {} THEN {} ELSE Of("steam")
EpicGames(broken, failing) == IF "epic" \in failing THEN {} ELSE Of("epic") \ broken
Orders(S) == Bijection(1..Cardinality(S), S)
Enumerated(broken, failing) ==
  {steam \o epic : steam \in Orders(SteamGames(broken, failing)),
                   epic \in Orders(EpicGames(broken, failing))}

StartsWithExactly(path, dir) ==
  Len(dir) <= Len(path) /\ \A i \in DOMAIN dir : path[i] = dir[i]
StartsWith(path, dir) ==
  Len(dir) <= Len(path) /\ \A i \in DOMAIN dir : Lower(path[i]) = Lower(dir[i])
Match(exe) ==
  LET hits == {i \in DOMAIN games : StartsWith(exe, games[i].dir)}
  IN IF hits = {} THEN Missing ELSE games[Min(hits)]

-----------------------------------------------------------------------------
(* The disk, and the program. *)
DetectInit ==
  /\ stamp = [u \in Units |-> 0] /\ there = {}
  /\ before = Missing /\ written = {}
  /\ \E broken \in SUBSET Installed, failing \in SUBSET Stores :
       games \in Enumerated(broken, failing)
Write(u) ==
  /\ SumFunction(stamp) < MaxWrites
  /\ stamp' = [stamp EXCEPT ![u] = @ + 1]
  /\ there' = there \union {u} /\ written' = written \union {u}
  /\ UNCHANGED <<before, games>>
Delete(u) ==
  /\ u \in there /\ there' = there \ {u}
  /\ UNCHANGED <<stamp, before, games, written>>
Arm ==
  /\ before' = Capture /\ written' = {}
  /\ UNCHANGED <<stamp, there, games>>
\* The program starts again; a snapshot is not kept.
Load(broken, failing) ==
  /\ games' \in Enumerated(broken, failing)
  /\ before' = Missing /\ written' = {}
  /\ UNCHANGED <<stamp, there>>

DetectNext ==
  \/ Arm
  \/ \E broken \in SUBSET Installed, failing \in SUBSET Stores : Load(broken, failing)
  \/ \E u \in Units : Write(u) \/ Delete(u)
DetectSpec == DetectInit /\ [][DetectNext]_detectVars

-----------------------------------------------------------------------------
(* Properties. *)
\* The types; and a snapshot holds the stamp of every file that was not written since.
DetectTypes ==
  /\ stamp \in [Units -> Nat] /\ there \subseteq Units /\ written \subseteq Units
  /\ games \in Seq(Installed)
  /\ before # Missing => /\ DOMAIN before \subseteq Units
                         /\ \A u \in Units : u \in written \/ u \notin DOMAIN before
                                           \/ before[u] = stamp[u]

\* While none of the manifest's paths for the game exists, the one pass of walk
\* (resolve.rs:45-73) over the folders finds the first of those with the highest
\* score, and none only if no folder scores.
FindsBest ==
  LET scoring == {d \in Rooted : Score(d) > 0}
      best == {d \in scoring : \A e \in scoring \ {d} :
                 Score(d) > Score(e) \/ (Score(d) = Score(e) /\ Precedes(d, e))}
  IN (\A t \in Range(Templates) : t \notin Dirs) =>
       IF scoring = {} THEN FindSaveDir = Missing ELSE best = {FindSaveDir}

\* Whatever else is on the disk and however many save-like files other games have,
\* a folder that has nothing to do with the game is never chosen while one named
\* like the game is in reach: the points for files and for a save folder's name
\* (resolve.rs:76-96) stay below those for the game's name.
NearTheGame ==
  LET own(d) == NameOf(d) \in Like \/ (NameOf(d) \in SaveNames /\ Parent(d) \in Like)
  IN (\E d \in Rooted : own(d)) => Heuristic # Missing /\ own(Heuristic)

\* Of the files written since the snapshot, every one that is still there, not too deep
\* and not in a noisy folder is counted in one candidate, and nothing else is: a new
\* file, a file that was removed and written again, a file below a folder that is itself
\* a candidate.
WritesAreFound ==
  before # Missing =>
    Files({u \in written \cap there : Seen(u) /\ ~IsNoise(Key(u.dir))}) =
      SumFunction([c \in Collect |-> c.changed])

\* The game a process is matched to does not depend on the order in which the launchers'
\* files are read, nor on the case of the letters of its path: it is the listed game
\* whose folder the process runs in (for folders that do not contain one another).
OwnerIsFound ==
  \A exe \in Processes :
    LET in(g) == /\ Len(g.dir) <= Len(exe)
                 /\ [i \in DOMAIN g.dir |-> Lower(exe[i])] = [i \in DOMAIN g.dir |-> Lower(g.dir[i])]
        owners == {g \in Range(games) : in(g)}
    IN IF owners = {} THEN Match(exe) = Missing ELSE owners = {Match(exe)}
=============================================================================
