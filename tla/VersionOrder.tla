---------------------------- MODULE VersionOrder ----------------------------
(***************************************************************************)
(* The order in which the vault ranks the version messages of a game.      *)
(*                                                                         *)
(* max_by_key keeps the last maximum of a newest-first list, so among the  *)
(* messages that carry the highest number it picks the oldest; prune's     *)
(* stable ascending sort deletes, among equal numbers, the newer first.    *)
(* Both follow one total order: higher number first, then lower id.        *)
(***************************************************************************)
EXTENDS Naturals

Above(m, o) == \/ m.number > o.number
               \/ m.number = o.number /\ m.id < o.id

\* The versions of S that outlive m in a prune.
Better(m, S) == {o \in S : Above(o, m)}

\* m is what latest_version picks from S.
IsLatest(m, S) == m \in S /\ \A o \in S : o = m \/ Above(m, o)

\* m is what download picks from S for its number: the newest message.
IsHit(m, n, S) == /\ m \in S /\ m.number = n
                  /\ \A o \in S : o.number = n => o.id <= m.id

\* The number push_version gives to the next version when it has found S.
NextNumber(S, n) == \/ S = {} /\ n = 1
                    \/ \E m \in S : IsLatest(m, S) /\ n = m.number + 1
=============================================================================
