-------------------------- MODULE DocumentLifecycle --------------------------
(***************************************************************************)
(* What ingestion promises of a document, without workers, queues, files   *)
(* or retries: it is waiting until it becomes searchable or fails, each at *)
(* most once, and once deleted it never comes back.                        *)
(***************************************************************************)
CONSTANT Doc

VARIABLE phase

Phases == {"absent", "waiting", "searchable", "failed", "deleted"}

Init == phase = [d \in Doc |-> "absent"]

Submit(d) ==
    /\ phase[d] = "absent"
    /\ phase' = [phase EXCEPT ![d] = "waiting"]

Finish(d) ==
    /\ phase[d] = "waiting"
    /\ \E p \in {"searchable", "failed"} : phase' = [phase EXCEPT ![d] = p]

Remove(d) ==
    /\ phase[d] \in {"waiting", "searchable", "failed"}
    /\ phase' = [phase EXCEPT ![d] = "deleted"]

Next == \E d \in Doc : Submit(d) \/ Finish(d) \/ Remove(d)

Spec == Init /\ [][Next]_phase
=============================================================================
