---------------------------- MODULE SaveHistory ----------------------------
(***************************************************************************)
(* What the vault promises of one game, whoever pushes and prunes: a       *)
(* history of versions that grows by whole versions and forgets versions   *)
(* only when at least a device's max_versions better ones were stored.     *)
(* Vault implements it request by request (see Vault!History), SyncEngine  *)
(* with a scan or a prune as one step (see SyncEngine!History).            *)
(***************************************************************************)
EXTENDS Naturals, FiniteSets

CONSTANTS
    Contents,  \* save contents
    Limits     \* the max_versions of the group's devices, 0 counting as 1

VARIABLES
    stored,  \* versions that can be downloaded
    ever     \* every version ever stored

Ranks(m, o) == m.number > o.number \/ (m.number = o.number /\ m.id < o.id)

Init == stored = {} /\ ever = {}

\* Stored versions get increasing ids; the number is the pusher's choice.
Store(m) ==
    /\ \A o \in ever : o.id < m.id
    /\ stored' = stored \cup {m}
    /\ ever' = ever \cup {m}

Forget(gone) ==
    /\ \A m \in gone :
         \E k \in Limits : Cardinality({o \in ever : Ranks(o, m)}) >= k
    /\ stored' = stored \ gone
    /\ UNCHANGED ever

Next ==
    \/ \E i, n \in Nat, c \in Contents :
         Store([id |-> i, number |-> n, content |-> c])
    \/ \E gone \in SUBSET stored : Forget(gone)

\* The same step, with what is stored or forgotten read off the change.
Change == (\E m \in ever' \ ever : Store(m)) \/ Forget(stored \ stored')

Spec == Init /\ [][Next]_<<stored, ever>>
=============================================================================
