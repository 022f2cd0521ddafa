---------------------------- MODULE ReplayCatalog ----------------------------
(***************************************************************************)
(* What a replay artifact promises its users: an ever-growing catalogue of *)
(* registered execution profiles, cached boundaries, annotations and, once *)
(* materialised, timeline coordinates.  An entry appears in one indivisible*)
(* step, a call that has returned successfully has its entry in the        *)
(* catalogue, and nothing ever leaves it.  Locks, staging directories, the *)
(* journal and crashes are not visible here; module ReplayStore implements *)
(* this one.                                                               *)
(***************************************************************************)
EXTENDS ReplayContent

VARIABLES durable,     \* what the artifact holds
          acked        \* what callers were told it holds

catalogVars == <<durable, acked>>

-----------------------------------------------------------------------------
Init == durable = Nothing /\ acked = Nothing

(* A boundary belongs to a registered profile; coordinates are materialised*)
(* exactly once.                                                           *)
Admissible(e) == /\ \A b \in e.boundaries : b[1] \in durable.profiles
                 /\ e.coordinates # {} => durable.coordinates = {}

Commit(e) == /\ ~Within(e, durable)
             /\ Admissible(e)
             /\ durable' = Merge(durable, e)
             /\ UNCHANGED acked

Acknowledge(e) == /\ Within(e, durable)
                  /\ acked' = Merge(acked, e)
                  /\ UNCHANGED durable

Next == \E e \in Entry : Commit(e) \/ Acknowledge(e)

Spec == Init /\ [][Next]_catalogVars
=============================================================================
