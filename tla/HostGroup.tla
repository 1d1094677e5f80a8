------------------------------ MODULE HostGroup ------------------------------
(***************************************************************************)
(* What the backend relies on from a group of processes it has started on  *)
(* an execution host, an MPS sweep or a build: an inspection that answers  *)
(* gone only when nothing of the group runs or will run again, and a       *)
(* result that is written once, by a group that has stopped working.       *)
(***************************************************************************)

VARIABLES
    answer,    \* what an inspection says: unknown, alive or gone
    result,    \* the result on the host: none, success or failure
    busy       \* a process of the group may use the GPU

group == <<answer, result, busy>>

GroupInit == answer = "unknown" /\ result = "none" /\ busy = FALSE

\* The group starts, works, fails in part, or is hard to see.
Work ==
    /\ answer # "gone" /\ result = "none"
    /\ answer' \in {"unknown", "alive"} /\ busy' \in BOOLEAN
    /\ UNCHANGED result

Conclude ==
    /\ answer # "gone" /\ result = "none"
    /\ result' \in {"success", "failure"}
    /\ answer' \in {"unknown", "alive"} /\ busy' = FALSE

\* The last process leaves; its result may become visible with that.
Vanish ==
    /\ answer # "gone" /\ answer' = "gone" /\ busy' = FALSE
    /\ result' \in IF result = "none" THEN {"none", "success", "failure"} ELSE {result}

GroupNext == Work \/ Conclude \/ Vanish

GroupSpec == GroupInit /\ [][GroupNext]_group

=============================================================================
