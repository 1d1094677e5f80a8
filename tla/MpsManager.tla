------------------------------ MODULE MpsManager -------------------------------
(***************************************************************************)
(* How a backend launches one MPS sweep, observes it, saves its result and *)
(* returns its GPU: the MPS manager, its saved job record, the booking of  *)
(* the GPU in the shared registry and the heartbeat that keeps it, with    *)
(* the sweep on its host seen as the abstract group of HostGroup, which    *)
(* MpsWorker implements.                                                   *)
(*                                                                         *)
(* Calls that manage a job hold its lock; the launching call takes that    *)
(* lock only to save. The backend that launched the sweep may die, and     *)
(* another one then observes the same record without controlling the       *)
(* sweep. A command to the host may be executed after its caller gave up.  *)
(***************************************************************************)
CONSTANTS
    Faults     \* what may go wrong, each kind once:
               \*   lost     the launch command never reaches the host
               \*   error    a call ends with an exception between two steps
               \*   checkin  the heartbeat of the GPU fails from then on
               \*   crash    the backend that launched the sweep dies

ASSUME MpsManagerAssumption == Faults \subseteq {"lost", "error", "checkin", "crash"}

VARIABLES
    answer, result, busy,   \* the group on the host: HostGroup
    request,   \* the launch command on its way to the host
    rec,       \* the job record in the database
    booking,   \* whose reservation the GPU has, and whether it names the sweep
    stale,     \* the booking's last heartbeat is too old
    beating,   \* the launching backend sends heartbeats for the GPU
    call,      \* where the launching call is
    op,        \* the call that holds the job's lock
    faults     \* the kinds of fault that have occurred

group == <<answer, result, busy>>
lease == <<booking, stale, beating>>
manager == <<answer, result, busy, request, rec, booking, stale, beating, call, op, faults>>

-----------------------------------------------------------------------------

Lifecycle == {"none", "launching", "running", "launch_unknown", "gone_unknown",
              "succeeded", "failed", "finished"}
Outcome == {"none", "success", "failure", "launcher_error"}

Record == [state: Lifecycle, active: BOOLEAN, outcome: Outcome]
Unsaved == [state |-> "none", active |-> FALSE, outcome |-> "none"]
Launching == [state |-> "launching", active |-> TRUE, outcome |-> "none"]

\* undoing: the reservation is gone, the heartbeat and the record are left.
\* The last line: a launch that the host refused.
CallPc == {"idle", "acquired", "described", "recorded", "beating", "undoing",
           "sent", "acknowledged", "late", "ended",
           "refused", "failing", "failed"}

\* The calls of manage: one reads the group, saves what it saw, releases the
\* GPU, and does the action it is for. "prestart" and "closing" are the steps
\* for a launch that the host refused.
OpPc == {"idle", "seen", "saved", "release", "unregister", "act", "finish",
         "prestart", "closing"}
Server == {"owner", "other"}
Action == {"status", "control", "finish"}
Operation == [pc: OpPc, by: Server, action: Action, answer: {"unknown", "alive", "gone"},
              result: {"none", "success", "failure"}, write: Record]
Idle == [pc |-> "idle", by |-> "owner", action |-> "status", answer |-> "unknown",
         result |-> "none", write |-> Unsaved]

TypeOK ==
    /\ answer \in {"unknown", "alive", "gone"} /\ busy \in BOOLEAN
    /\ result \in {"none", "success", "failure"}
    /\ request \in {"none", "inflight", "arrived", "refused", "lost"}
    /\ rec \in Record /\ op \in Operation /\ call \in CallPc
    /\ booking \in {"free", "ours", "described", "foreign"}
    /\ stale \in BOOLEAN /\ beating \in BOOLEAN
    /\ faults \subseteq Faults

Host == INSTANCE HostGroup

ManagerInit ==
    /\ Host!GroupInit
    /\ request = "none" /\ rec = Unsaved /\ op = Idle /\ call = "idle"
    /\ booking = "free" /\ stale = FALSE /\ beating = FALSE /\ faults = {}

Fault(kind) == kind \in Faults \ faults /\ faults' = faults \cup {kind}
Ours == booking \in {"ours", "described"}
OwnerUp == "crash" \notin faults
Sick == "checkin" \in faults

\* A save takes the job's lock, which a call of manage holds from end to end.
Unlocked == op.pc = "idle"

-----------------------------------------------------------------------------
(* launch *)

Calling(from, to) == OwnerUp /\ call = from /\ call' = to

Acquire ==
    /\ Calling("idle", "acquired") /\ booking = "free" /\ ~Sick
    /\ booking' = "ours" /\ stale' = FALSE
    /\ UNCHANGED <<group, request, rec, beating, op, faults>>

\* The metadata now names the sweep: an inspection of the GPU asks its group.
Describe ==
    /\ Calling("acquired", "described") /\ booking = "ours" /\ booking' = "described"
    /\ UNCHANGED <<group, request, rec, stale, beating, op, faults>>

Register ==
    /\ Calling("described", "recorded") /\ rec' = Launching
    /\ UNCHANGED <<group, request, lease, op, faults>>

StartHeartbeat ==
    /\ Calling("recorded", "beating") /\ beating' = TRUE
    /\ UNCHANGED <<group, request, rec, booking, stale, op, faults>>

Send ==
    /\ Calling("beating", "sent") /\ request' = "inflight"
    /\ UNCHANGED <<group, rec, lease, op, faults>>

\* Mutant: a reply that was lost counts as a launch that did not happen.
NoReply == call \in {"acquired", "described", "recorded", "late"}

NotLaunched == call \in {"acquired", "described", "recorded"}

\* An exception before the launch command is sent: the reservation is removed,
\* then the heartbeat, and the record says that nothing ran.
Undo ==
    /\ OwnerUp /\ NotLaunched /\ call' = "undoing"
    /\ Fault("error") /\ booking' = "free"
    /\ UNCHANGED <<group, request, rec, stale, beating, op>>

CloseUndone ==
    /\ Calling("undoing", "ended") /\ Unlocked /\ beating' = FALSE
    /\ rec' = IF rec = Unsaved THEN rec
              ELSE [rec EXCEPT !.state = "finished", !.active = FALSE]
    /\ UNCHANGED <<group, request, booking, stale, op, faults>>

\* The reply of the host, or none: then the command may still be on its way.
Reply ==
    /\ OwnerUp /\ call = "sent"
    /\ \/ request = "arrived" /\ call' = "acknowledged"
       \/ request = "refused" /\ call' = "refused"
       \/ call' = "late"
    /\ UNCHANGED <<group, request, rec, lease, op, faults>>

\* The launching call saves its own copy of the record, whatever was saved
\* meanwhile. A booking that has changed hands makes the launch uncertain.
SaveLaunched ==
    /\ OwnerUp /\ call \in {"acknowledged", "late"} /\ Unlocked /\ call' = "ended"
    /\ rec' = [Launching EXCEPT !.state =
                  IF call = "acknowledged" /\ Ours /\ beating THEN "running"
                  ELSE "launch_unknown"]
    /\ UNCHANGED <<group, request, lease, op, faults>>

-----------------------------------------------------------------------------
(* _record_prestart_failure: saved before the reservation is removed, and    *)
(* once more after it.                                                       *)

FailedBeforeStart(active) ==
    [state |-> "failed", active |-> active, outcome |-> "launcher_error"]

SaveRefused ==
    /\ Calling("refused", "failing") /\ Unlocked /\ rec' = FailedBeforeStart(TRUE)
    /\ UNCHANGED <<group, request, lease, op, faults>>

ReleaseRefused ==
    /\ Calling("failing", "failed")
    /\ booking' = IF Ours THEN "free" ELSE booking
    /\ beating' = (beating /\ ~Ours)
    /\ UNCHANGED <<group, request, rec, stale, op, faults>>

CloseRefused ==
    /\ Calling("failed", "ended") /\ Unlocked /\ rec' = FailedBeforeStart(FALSE)
    /\ UNCHANGED <<group, request, lease, op, faults>>

-----------------------------------------------------------------------------
(* manage *)

Up(s) == s = "owner" <=> OwnerUp

\* Mutant: a record with a result needs no further check.
HasOutcome == rec.outcome # "none"

Settled == ~rec.active /\ (rec.state = "finished" \/ rec.outcome = "launcher_error")

\* manage begins with an inspection of the group. A settled record needs none;
\* only the owner, with a healthy heartbeat and its booking, may do
\* more than observe.
Inspect(s, action) ==
    /\ Unlocked /\ Up(s) /\ rec # Unsaved
    /\ action = "status" => ~Settled
    /\ action # "status" => s = "owner" /\ ~Sick /\ (rec.active => Ours)
    /\ op' = [pc |-> IF request = "refused" THEN "prestart" ELSE "seen", by |-> s,
              action |-> action, answer |-> answer, result |-> result, write |-> rec]
    /\ UNCHANGED <<group, request, rec, lease, call, faults>>

Managing(from) == op.pc = from /\ Up(op.by)
Continue(pc, write) == op' = [op EXCEPT !.pc = pc, !.write = write]

\* Mutant: the answer of the inspection stands for the lifecycle.
Answered == [op.write EXCEPT !.state = op.answer]

\* What was seen, as the record has it. The owner drops a booking it has lost.
Observed ==
    [state |-> IF op.result # "none"
               THEN IF op.result = "success" THEN "succeeded" ELSE "failed"
               ELSE CASE op.answer = "alive" -> "running"
                      [] op.answer = "gone" -> "gone_unknown"
                      [] OTHER -> "launch_unknown",
     active |-> op.write.active /\ ~(op.by = "owner" /\ op.answer = "alive" /\ ~Ours),
     outcome |-> IF op.result # "none" THEN op.result ELSE op.write.outcome]

\* Mutant: the result is saved with the release of the GPU.
SaveLater ==
    /\ Managing("seen")
    /\ Continue(IF op.result # "none" THEN "release" ELSE "act", Observed)
    /\ UNCHANGED <<group, request, rec, lease, call, faults>>

\* The protected record comes before the release of the GPU.
SaveSeen ==
    /\ Managing("seen") /\ rec' = Observed
    /\ Continue(IF op.result # "none" THEN "release" ELSE "act", Observed)
    /\ UNCHANGED <<group, request, lease, call, faults>>

\* Mutant: a result is reason enough to give the GPU back.
HasResult == op.write.active /\ (op.answer = "gone" \/ op.result # "none")

ReleaseDue == op.write.active /\ op.answer = "gone"

\* Mutant: the record is closed even when its booking may not be removed.
AlwaysInactive(removed) == op.write.active /\ ~ReleaseDue

StillActive(removed) == op.write.active /\ ~removed

\* release: the owner removes its reservation while its heartbeat is healthy,
\* another backend quarantines it once it is stale.
Release ==
    /\ Managing("release")
    /\ LET removable == IF op.by = "owner" THEN ~Sick ELSE stale
           removed == ReleaseDue /\ (~Ours \/ removable)
       IN /\ booking' = IF removed /\ Ours THEN "free" ELSE booking
          /\ beating' = (beating /\ ~(removed /\ Ours /\ op.by = "owner"))
          /\ Continue("saved", [op.write EXCEPT !.active = StillActive(removed)])
    /\ UNCHANGED <<group, request, rec, stale, call, faults>>

SaveReleased ==
    /\ Managing("saved") /\ rec' = op.write
    /\ IF op.write.state = "finished" THEN op' = Idle ELSE Continue("act", op.write)
    /\ UNCHANGED <<group, request, lease, call, faults>>

\* finish needs the whole group gone. A status call is done; control, a stop or
\* a retry of cases, leaves a request to the group and what it saved of it.
Act ==
    /\ Managing("act")
    /\ IF op.action = "finish" /\ op.answer = "gone"
       THEN LET done == [op.write EXCEPT !.state = "finished"]
            IN rec' = done /\ Continue("release", done)
       ELSE op' = Idle /\ UNCHANGED rec
    /\ UNCHANGED <<group, request, lease, call, faults>>

\* manage finds that the host refused the launch.
SavePrestart ==
    /\ Managing("prestart") /\ rec' = FailedBeforeStart(rec.active)
    /\ Continue("closing", op.write)
    /\ UNCHANGED <<group, request, lease, call, faults>>

ClosePrestart ==
    /\ Managing("closing") /\ op' = Idle
    /\ LET removed == Ours /\ op.by = "owner"
       IN /\ booking' = IF removed THEN "free" ELSE booking
          /\ beating' = (beating /\ ~removed)
          /\ rec' = [FailedBeforeStart(rec.active /\ Ours /\ ~removed) EXCEPT
                        !.state = IF op.action = "finish" THEN "finished" ELSE @]
    /\ UNCHANGED <<group, request, stale, call, faults>>

\* A call ends between two of its steps.
CallFails ==
    /\ op.pc # "idle" /\ Fault("error") /\ op' = Idle
    /\ UNCHANGED <<group, request, rec, lease, call>>

-----------------------------------------------------------------------------
(* The host, the other users of the registry, and the death of the owner.    *)

\* The launch command is executed, early or late, or never.
Arrive ==
    /\ request = "inflight"
    /\ \/ request' = "arrived" /\ UNCHANGED <<group, faults>>
       \/ request' = "refused" /\ Host!Vanish /\ UNCHANGED <<result, faults>>
       \/ request' = "lost" /\ Fault("lost") /\ UNCHANGED group
    /\ UNCHANGED <<rec, lease, call, op>>

GroupStep ==
    /\ request = "arrived" /\ Host!GroupNext
    /\ UNCHANGED <<request, rec, lease, call, op, faults>>

\* The conclusion of a group is followed by its end.
GroupEnds ==
    /\ result # "none" /\ Host!Vanish
    /\ UNCHANGED <<request, rec, lease, call, op, faults>>

GoStale ==
    /\ Ours /\ ~stale /\ (Sick \/ ~OwnerUp) /\ stale' = TRUE
    /\ UNCHANGED <<group, request, rec, booking, beating, call, op, faults>>

\* The stale cleanup of a backend that looks for GPUs.
CleanUp ==
    /\ booking = "described" /\ stale /\ answer = "gone" /\ booking' = "free"
    /\ UNCHANGED <<group, request, rec, stale, beating, call, op, faults>>

OtherJob ==
    /\ call # "idle"
    /\ \/ booking = "free" /\ booking' = "foreign" /\ stale' = FALSE
       \/ booking = "foreign" /\ booking' = "free" /\ UNCHANGED stale
    /\ UNCHANGED <<group, request, rec, beating, call, op, faults>>

CheckinFails ==
    /\ OwnerUp /\ beating /\ Fault("checkin")
    /\ UNCHANGED <<group, request, rec, lease, call, op>>

OwnerDies ==
    /\ call # "idle" /\ Fault("crash") /\ beating' = FALSE
    /\ op' = IF op.by = "owner" THEN Idle ELSE op
    /\ UNCHANGED <<group, request, rec, booking, stale, call>>

-----------------------------------------------------------------------------

LaunchStep ==
    \/ Acquire \/ Describe \/ Register \/ StartHeartbeat \/ Send \/ Undo \/ CloseUndone
    \/ Reply \/ SaveLaunched \/ SaveRefused \/ ReleaseRefused \/ CloseRefused
ManageStep ==
    \/ SaveSeen \/ Release \/ SaveReleased \/ Act \/ SavePrestart \/ ClosePrestart

Next ==
    \/ LaunchStep \/ ManageStep \/ CallFails
    \/ \E s \in Server, a \in Action : Inspect(s, a)
    \/ Arrive \/ GroupStep \/ GroupEnds
    \/ GoStale \/ CleanUp \/ OtherJob \/ CheckinFails \/ OwnerDies

Spec == ManagerInit /\ [][Next]_manager

\* The monitor of each backend checks a sweep again and again; calls go on; a
\* sweep with a result ends; a booking without heartbeats becomes stale.
FairSpec ==
    /\ Spec /\ WF_manager(ManageStep) /\ WF_manager(LaunchStep)
    /\ \A s \in Server : SF_manager(Inspect(s, "status"))
    /\ WF_manager(GroupEnds) /\ WF_manager(GoStale)

-----------------------------------------------------------------------------
(* Properties.                                                              *)

\* The GPU stays booked from the moment the launch command leaves until the
\* whole group is proven gone, through lost replies, late execution of the
\* command, exceptions, and the death of the backend.
BookedUntilGone == request \in {"inflight", "arrived"} /\ answer # "gone" => Ours

\* A record gives up its GPU only after the reservation has gone: no booking is
\* left that no record asks to release.
InactiveMeansReleased == rec # Unsaved /\ ~rec.active => ~Ours

\* The call that frees the GPU has saved the sweep's result before.
ResultSavedBeforeRelease ==
    [][/\ op.pc = "release" /\ op'.pc = "saved" /\ Ours /\ ~Ours'
       => rec.outcome = result]_manager

\* The result of a sweep is in the end saved for good, with its GPU free for
\* others, unless the heartbeats fail while their backend lives.
ResultDelivered ==
    result # "none" ~>
        \/ [](rec.outcome = result /\ ~rec.active /\ ~Ours)
        \/ Sick /\ OwnerUp
=============================================================================
