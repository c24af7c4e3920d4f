---------------------------- MODULE MCSyncEngine ----------------------------
(* Small instances of SyncEngine for TLC. *)
EXTENDS SyncEngine, TLC

CONSTANTS
    Unlucky,      \* the devices whose requests and files may fail
    MaxTroubles   \* bound: failures and crashes in a behaviour

VARIABLE troubles

\* Devices outside Unlucky are told apart only by equality, as are contents.
MCSymmetry == Permutations(Contents) \cup Permutations(Devices \ Unlucky)

MCInit == Init /\ troubles = 0

Calm ==
    \E d \in Devices :
      \/ \E c \in Contents : Play(d, c)
      \/ Pull(d) \/ Push(d) \/ Command(d) \/ Step(d)

MCNext ==
    \/ Calm /\ UNCHANGED troubles
    \/ /\ troubles < MaxTroubles
       /\ troubles' = troubles + 1
       /\ \E d \in Unlucky : Trouble(d)

MCSpec == MCInit /\ [][MCNext]_<<vars, troubles>>
=============================================================================
