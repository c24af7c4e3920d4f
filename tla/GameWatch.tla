----------------------------- MODULE GameWatch -----------------------------
(***************************************************************************)
(* How a device notices that games open and close (crate salvae-watch): a  *)
(* Watcher that diffs successive process listings by pid, and a Detector   *)
(* that counts, per game, the processes it has matched to it.              *)
(*                                                                         *)
(* Processes start and stop between polls as they like, pids are reused,   *)
(* and a listing may leave out processes the lister could not open.        *)
(***************************************************************************)
EXTENDS Naturals, FiniteSets

CONSTANTS
    Pids,     \* process ids, naturals: a listing is walked in pid order
    Exes,     \* executable paths
    Games,    \* installed games
    NoGame,   \* no game: what a path outside every install_dir matches
    Gone,     \* no process has this pid
    GameOf    \* match_process_to_game: [Exes -> Games \cup {NoGame}]

ASSUME PidsAssumption == Pids \subseteq Nat /\ IsFiniteSet(Pids)
ASSUME GameOfAssumption == GameOf \in [Exes -> Games \cup {NoGame}]
ASSUME DistinctAssumption == NoGame \notin Games /\ Gone \notin Exes

VARIABLES
    running,  \* the operating system's processes: pid -> executable
    prev,     \* Watcher.prev: the last listing
    started,  \* pids of the Started events the Detector has not processed
    stopped,  \* pids of the Stopped events it has not processed
    pidGame,  \* Detector.pid_game; NoGame is no entry
    counts,   \* Detector.open_counts; 0 is no entry
    told,     \* history: the last event of the game was Opened
    first     \* history: the executable a listed pid had when it appeared, or Gone

vars == <<running, prev, started, stopped, pidGame, counts, told, first>>
detector == <<pidGame, counts, told>>

Init ==
    /\ running \in [Pids -> Exes \cup {Gone}]
    /\ prev = [p \in Pids |-> Gone]
    /\ started = {} /\ stopped = {}
    /\ pidGame = [p \in Pids |-> NoGame]
    /\ counts = [g \in Games |-> 0]
    /\ told = [g \in Games |-> FALSE]
    /\ first = [p \in Pids |-> Gone]

\* A process starts, perhaps on the pid of one that ended, or ends.
Os(p) ==
    /\ \E e \in Exes \cup {Gone} : running' = [running EXCEPT ![p] = e]
    /\ UNCHANGED <<prev, started, stopped, detector, first>>

AtRest == started = {} /\ stopped = {}

\* A variant with a bug: a stop never leaves the listing.
PollAccumulating(hidden) ==
    /\ AtRest
    /\ LET current == [p \in Pids |-> IF p \in hidden THEN Gone ELSE running[p]]
       IN  /\ started' = {p \in Pids : current[p] # Gone /\ prev[p] = Gone}
           /\ stopped' = {p \in Pids : current[p] = Gone /\ prev[p] # Gone}
           /\ first' = [p \in Pids |-> IF Gone \in {first[p], current[p]}
                                      THEN current[p] ELSE first[p]]
           /\ prev' = [p \in Pids |-> IF current[p] = Gone THEN prev[p] ELSE current[p]]
    /\ UNCHANGED <<running, detector>>

\* Watcher.poll: the listing leaves out the processes in hidden.
Poll(hidden) ==
    /\ AtRest
    /\ LET current == [p \in Pids |-> IF p \in hidden THEN Gone ELSE running[p]]
       IN  /\ started' = {p \in Pids : current[p] # Gone /\ prev[p] = Gone}
           /\ stopped' = {p \in Pids : current[p] = Gone /\ prev[p] # Gone}
           /\ first' = [p \in Pids |-> IF Gone \in {first[p], current[p]}
                                      THEN current[p] ELSE first[p]]
           /\ prev' = current
    /\ UNCHANGED <<running, detector>>

\* Detector.process on Started: the first process of a game opens it.
Started(p) ==
    /\ p \in started /\ \A q \in started : p <= q
    /\ started' = started \ {p}
    /\ LET g == GameOf[prev[p]] IN
         IF pidGame[p] # NoGame \/ g = NoGame
         THEN UNCHANGED detector
         ELSE /\ pidGame' = [pidGame EXCEPT ![p] = g]
              /\ counts' = [counts EXCEPT ![g] = @ + 1]
              /\ told' = [told EXCEPT ![g] = @ \/ counts[g] = 0]
    /\ UNCHANGED <<running, prev, stopped, first>>

\* Variants with a bug: the pid keeps its entry, every process that ends closes the
\* game, and the count is tested before it is decremented.
StoppedKeepsPid(p) ==
    /\ started = {} /\ p \in stopped /\ \A q \in stopped : p <= q
    /\ stopped' = stopped \ {p}
    /\ LET g == pidGame[p] IN
         IF g = NoGame \/ counts[g] = 0
         THEN UNCHANGED <<counts, told>>
         ELSE /\ counts' = [counts EXCEPT ![g] = @ - 1]
              /\ told' = [told EXCEPT ![g] = @ /\ counts[g] # 1]
    /\ UNCHANGED <<running, prev, started, pidGame, first>>
StoppedCloses(p) ==
    /\ started = {} /\ p \in stopped /\ \A q \in stopped : p <= q
    /\ stopped' = stopped \ {p}
    /\ LET g == pidGame[p] IN
         IF g = NoGame \/ counts[g] = 0
         THEN UNCHANGED <<counts, told>>
         ELSE /\ counts' = [counts EXCEPT ![g] = @ - 1]
              /\ told' = [told EXCEPT ![g] = FALSE]
    /\ pidGame' = [pidGame EXCEPT ![p] = NoGame]
    /\ UNCHANGED <<running, prev, started, first>>
StoppedTestsEarly(p) ==
    /\ started = {} /\ p \in stopped /\ \A q \in stopped : p <= q
    /\ stopped' = stopped \ {p}
    /\ LET g == pidGame[p] IN
         IF g = NoGame \/ counts[g] = 0
         THEN UNCHANGED <<counts, told>>
         ELSE /\ counts' = [counts EXCEPT ![g] = @ - 1]
              /\ UNCHANGED told
    /\ pidGame' = [pidGame EXCEPT ![p] = NoGame]
    /\ UNCHANGED <<running, prev, started, first>>

\* A variant with a bug: stops are processed before the starts of their listing.
StoppedFirst(p) ==
    /\ p \in stopped /\ \A q \in stopped : p <= q
    /\ stopped' = stopped \ {p}
    /\ LET g == pidGame[p] IN
         IF g = NoGame \/ counts[g] = 0
         THEN UNCHANGED <<counts, told>>
         ELSE /\ counts' = [counts EXCEPT ![g] = @ - 1]
              /\ told' = [told EXCEPT ![g] = @ /\ counts[g] # 1]
    /\ pidGame' = [pidGame EXCEPT ![p] = NoGame]
    /\ UNCHANGED <<running, prev, started, first>>

\* Detector.process on Stopped, after every Started of the listing: the last
\* process of a game closes it.
Stopped(p) ==
    /\ started = {} /\ p \in stopped /\ \A q \in stopped : p <= q
    /\ stopped' = stopped \ {p}
    /\ LET g == pidGame[p] IN
         IF g = NoGame \/ counts[g] = 0
         THEN UNCHANGED <<counts, told>>
         ELSE /\ counts' = [counts EXCEPT ![g] = @ - 1]
              /\ told' = [told EXCEPT ![g] = @ /\ counts[g] # 1]
    /\ pidGame' = [pidGame EXCEPT ![p] = NoGame]
    /\ UNCHANGED <<running, prev, started, first>>

Tick == (\E p \in Pids : Started(p) \/ Stopped(p)) \/ Poll({})

Next ==
    \/ \E p \in Pids : Os(p) \/ Started(p) \/ Stopped(p)
    \/ \E hidden \in SUBSET Pids : Poll(hidden)

Spec == Init /\ [][Next]_vars

\* The agent polls every few seconds and processes each listing to the end.
FairSpec == Spec /\ WF_vars(Tick)

-----------------------------------------------------------------------------
\* The types of the state; a Started event carries the listed executable.
TypeOK ==
    /\ running \in [Pids -> Exes \cup {Gone}] /\ prev \in [Pids -> Exes \cup {Gone}]
    /\ started \subseteq {p \in Pids : prev[p] # Gone} /\ stopped \subseteq Pids
    /\ pidGame \in [Pids -> Games \cup {NoGame}]
    /\ counts \in [Games -> Nat]
    /\ told \in [Games -> BOOLEAN] /\ first \in [Pids -> Exes \cup {Gone}]

PidsOf(g) == {p \in Pids : pidGame[p] = g}

\* detector.rs:23-24: open_counts is the number of the game's processes; a count
\* that drifts by one leaves a game open forever or closes it while it runs.
CountsMatch == \A g \in Games : counts[g] = Cardinality(PidsOf(g))

\* is_open and any_open (which keep poll_remote off the folder of a running game
\* and defer updates) agree with the events the agent was given, so Opened and
\* Closed alternate for every game.
OpenAsTold == \A g \in Games : told[g] = (counts[g] > 0)

\* The games the last listing has a process of, each process by the executable it
\* appeared with, and those the agent was told are open.
ListedGames == {g \in Games : \E p \in Pids : first[p] # Gone /\ GameOf[first[p]] = g}
OpenGames == {g \in Games : told[g]}

\* Between polls the games is_open knows are those of the last listing, whatever
\* started and stopped in what order.  A pid that is reused for another executable
\* between two polls (process.rs:46-47) counts as the process it was until it
\* leaves the listing, and from then on nothing is left of it.
OpenIffListed == AtRest => {g \in Games : counts[g] > 0} = ListedGames

Promise == INSTANCE Sessions WITH listed <- ListedGames, open <- OpenGames

\* Step by step the events are those of Sessions: each listing is told in full
\* before the next one, and its games open before those that left it close
\* (process.rs:51-72 puts every start before the stops; detector.rs:46-78).
ImplementsSessions == Promise!Spec

\* A game whose processes are all gone is eventually reported closed.
ClosesEventually ==
    \A g \in Games :
      (\A p \in Pids : running[p] = Gone)
        ~> (~told[g] \/ \E p \in Pids : running[p] # Gone)
=============================================================================
