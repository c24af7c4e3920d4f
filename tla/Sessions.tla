------------------------------ MODULE Sessions ------------------------------
(***************************************************************************)
(* What the watcher and the detector promise the agent, whatever processes *)
(* do: a listing is told in full before the next is taken; a game opens    *)
(* only if it is listed; and the games of a listing open before any game   *)
(* that left it closes, so going from one game to another is never a       *)
(* moment without an open game.                                            *)
(* GameWatch implements it process by process (see GameWatch!Promise).     *)
(***************************************************************************)
CONSTANT Games

VARIABLES
    listed,  \* games with a process in the last listing
    open     \* games whose last event was Opened

Init == listed = {} /\ open = {}

Listing ==
    /\ open = listed
    /\ listed' \in SUBSET Games
    /\ UNCHANGED open

Opened(g) ==
    /\ g \in listed \ open
    /\ open' = open \cup {g}
    /\ UNCHANGED listed

Closed(g) ==
    /\ g \in open \ listed
    /\ listed \subseteq open
    /\ open' = open \ {g}
    /\ UNCHANGED listed

Next == Listing \/ \E g \in Games : Opened(g) \/ Closed(g)

Spec == Init /\ [][Next]_<<listed, open>>
=============================================================================
