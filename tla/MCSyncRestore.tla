--------------------------- MODULE MCSyncRestore ---------------------------
(***************************************************************************)
(* SyncEngine with one more history variable: on which devices the user    *)
(* has restored a version that is not the latest and has not pushed or     *)
(* resolved anything since.                                                *)
(***************************************************************************)
EXTENDS SyncEngine, TLC

VARIABLE restored

MCSymmetry == Permutations(Devices) \cup Permutations(Contents)

MCInit == Init /\ restored = [d \in Devices |-> FALSE]

\* The restore of d has written the folder.
RestoresOld(d) ==
    /\ mode[d] = "restore" /\ pc[d] = "overwrite" /\ pc'[d] = "save"
    /\ \E m \in channel : m.number > seen[d].number
\* d has started anything else but a pull.
Decides(d) == mode[d] = "none" /\ mode'[d] \notin {"none", "pull"}

\* Nothing fails or crashes.
MCNext ==
    /\ \E d \in Devices : \/ \E c \in Contents : Play(d, c)
                           \/ Pull(d) \/ Push(d) \/ Command(d) \/ Step(d)
    /\ restored' = [d \in Devices |->
                      RestoresOld(d) \/ (restored[d] /\ ~Decides(d))]
MCSpec == MCInit /\ [][MCNext]_<<vars, restored>>

\* engine.rs:279-280: after restoring a version that is not the latest, "the next
\* close will surface a conflict for the user": it does not start an upload.
RestoreThenConflict ==
    [][\A d \in Devices :
         restored[d] /\ mode[d] = "none" /\ mode'[d] = "push" => pc'[d] # "scan"
      ]_<<vars, restored>>
=============================================================================
