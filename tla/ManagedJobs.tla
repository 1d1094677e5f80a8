------------------------------ MODULE ManagedJobs ------------------------------
(***************************************************************************)
(* The managed-GPU-job lifecycle of gpu_mcp_backend.py: how a backend      *)
(* books a GPU in the shared reservation registry, starts a supervised     *)
(* program, keeps the booking alive with heartbeats, answers status, stop, *)
(* finish and retry calls, recovers after a crash, and how other backends  *)
(* of the same user clean up a booking whose program has gone.             *)
(*                                                                         *)
(* A reservation is a directory in a registry that every repository of the *)
(* user shares; a job record lives in the database of one repository and   *)
(* outlives its backend; the heartbeat set lives in a backend's memory.    *)
(* One action stands for one indivisible step: a system call, a database   *)
(* transaction, or a section under the per-GPU file lock.                  *)
(***************************************************************************)
EXTENDS Naturals, FiniteSets

CONSTANTS
    Server,             \* backend process instances (SERVER_INSTANCE_ID)
    Repo,               \* repositories; each has one job database
    RepoOf,             \* the repository an instance serves
    Key,                \* reservation keys, <canonical-host>.gpu<index>
    Job,                \* job ids
    MaxAttempts,        \* bound: attempts one job can have
    NoJob, NoServer, NoKey,
    HostFaultCodes,     \* exit codes with which an inspection command fails
    Faults              \* what else may go wrong, a subset of Fault

\* "unreadable": metadata.json is there and cannot be read; "checkin": a
\* heartbeat raises; "kill": a session uses kill_gpu_process with its default
\* KILL; "early": a session manages a job before its launch has returned;
\* "torn": a retry whose write failed cannot put record and metadata back.
Fault == {"unreadable", "checkin", "kill", "early", "torn"}

Attempt == 1..MaxAttempts
Process == Job \X Attempt       \* one supervisor per attempt, by fingerprint
NoPid == <<NoJob, 0>>

ASSUME ConstantsAssumption ==
    /\ MaxAttempts \in Nat \ {0}
    /\ RepoOf \in [Server -> Repo]
    /\ NoJob \notin Job
    /\ NoServer \notin Server
    /\ NoKey \notin Key
    /\ Faults \subseteq Fault
    /\ HostFaultCodes \subseteq Nat \ {0, 1}

VARIABLES
    inst,    \* a backend process: not started, up, cleanly stopped, dead
    reg,     \* the registry: one directory per reserved GPU
    stale,   \* the booking's last heartbeat is older than STALE_AFTER_SEC
    owned,   \* HeartbeatManager._owned, per instance
    failed,  \* the owned keys whose check-in carries an error
    rec,     \* JobStore: the job's record
    launch,  \* the run_python_on_gpu call that created the job
    op,      \* the call that holds the job's lock
    look,    \* an instance's stale cleanup between inspection and locking
    proc     \* the attempt's supervisor and program on the GPU host

vars == <<inst, reg, stale, owned, failed, rec, launch, op, look, proc>>

registry == <<reg, stale>>
checkins == <<owned, failed>>

-----------------------------------------------------------------------------
(* Types and null values. *)

Reservation ==
    [dir: {"absent", "empty", "held"}, job: Job \cup {NoJob},
     att: Attempt \cup {0}, srv: Server \cup {NoServer},
     pid: Process \cup {NoPid}]

Absent == [dir |-> "absent", job |-> NoJob, att |-> 0, srv |-> NoServer,
           pid |-> NoPid]
Empty == [Absent EXCEPT !.dir = "empty"]

\* job_lifecycle: "terminal" is succeeded or failed, "launch_unknown" and
\* "gone_unknown" are launch_outcome_unknown and process_gone_unknown_outcome.
Lifecycle == {"none", "launching", "running", "launch_unknown",
              "gone_unknown", "terminal", "finished"}

\* outcome is the attempt whose outcome the record holds, 0 when it has none.
Record == [state: Lifecycle, att: Attempt \cup {0}, active: BOOLEAN,
           pid: Process \cup {NoPid}, outcome: Attempt \cup {0}]

NoRecord == [state |-> "none", att |-> 0, active |-> FALSE, pid |-> NoPid,
             outcome |-> 0]

LaunchPc == {"idle", "created", "acquired", "recorded", "sent", "started",
             "running", "prestart", "releasing", "forgetting", "keeping", "closing",
             "done"}
Launch == [pc: LaunchPc, srv: Server \cup {NoServer}, key: Key \cup {NoKey}]
NoLaunch == [pc |-> "idle", srv |-> NoServer, key |-> NoKey]

StatusPc == {"look", "save", "release", "cleanup", "unregister", "inactive"}
RetryPc == {"claim", "claimed", "spawn", "sent", "rollback", "rolledback",
            "finalize", "finalized"}
Operation == [pc: {"idle"} \cup StatusPc \cup RetryPc,
              srv: Server \cup {NoServer},
              write: Record,       \* the record the call is to save
              source: Record,      \* the record a failed retry restores
              meta: Reservation,   \* the metadata the call has read
              then: {"idle", "release", "cleanup"}]
NoOperation == [pc |-> "idle", srv |-> NoServer, write |-> NoRecord,
                source |-> NoRecord, meta |-> Absent, then |-> "idle"]

Cleanup == [key: Key \cup {NoKey}, seen: Reservation]
NoCleanup == [key |-> NoKey, seen |-> Absent]

\* A command in flight may still start a supervisor; a running supervisor
\* waits for its program; an ending one has written the outcome; an orphan is
\* a program whose supervisor is dead. "exited" is gone with an outcome left
\* behind, "gone" is gone without one.
ProcState == {"none", "inflight", "running", "ending", "orphan", "gone", "exited"}
HasOutcome == {"ending", "exited"}
SupervisorAlive == {"running", "ending"}
MayUseGpu == {"inflight", "running", "ending", "orphan"}

TypeOK ==
    /\ inst \in [Server -> {"new", "up", "stopped", "dead"}]
    /\ reg \in [Key -> Reservation]
    /\ stale \in [Key -> BOOLEAN]
    /\ owned \in [Server -> SUBSET Key]
    /\ failed \in [Server -> SUBSET Key]
    /\ rec \in [Job -> Record]
    /\ launch \in [Job -> Launch]
    /\ op \in [Job -> Operation]
    /\ look \in [Server -> Cleanup]
    /\ proc \in [Process -> ProcState]

Init ==
    /\ inst = [s \in Server |-> "new"]
    /\ reg = [k \in Key |-> Absent]
    /\ stale = [k \in Key |-> FALSE]
    /\ owned = [s \in Server |-> {}]
    /\ failed = [s \in Server |-> {}]
    /\ rec = [j \in Job |-> NoRecord]
    /\ launch = [j \in Job |-> NoLaunch]
    /\ op = [j \in Job |-> NoOperation]
    /\ look = [s \in Server |-> NoCleanup]
    /\ proc = [p \in Process |-> "none"]

-----------------------------------------------------------------------------
(* What the handlers read. *)

KeyOf(j) == launch[j].key
OwnerOf(j) == launch[j].srv     \* server_instance_id of record and metadata

\* An instance serves the jobs of its own repository, its predecessors' too.
Serves(s, j) == /\ inst[s] = "up"
                /\ rec[j].state # "none"
                /\ RepoOf[s] = RepoOf[OwnerOf(j)]

Healthy(s, k) == k \notin failed[s]

Owns(s, k) == reg[k].dir = "held" /\ reg[k].srv = s /\ k \in owned[s]

\* _job_record_matches_current_metadata
Matches(j, record) ==
    /\ reg[KeyOf(j)].dir = "held"
    /\ reg[KeyOf(j)].job = j
    /\ reg[KeyOf(j)].att = record.att
    /\ reg[KeyOf(j)].srv = OwnerOf(j)

\* The per-GPU file lock is free: no retry is between its two writes.
GuardFree(k) == \A j \in Job : op[j].pc \in {"claimed", "rolledback", "finalized"}
                                  => KeyOf(j) # k

\* "exit code: 1" occurs in the text of every exit code that begins with 1.
ReadsAsMissing(code) == code = 1 \/ code \in 10..19 \/ code \in 100..199

\* Mutant: a booking without a recorded process counts as over.
VerdictsWithoutPid(pid) ==
    IF pid # NoPid /\ proc[pid] \in SupervisorAlive THEN {"alive", "unknown"}
    ELSE {"gone", "unknown"}

\* _inspect_reservation_process: the answers an inspection can give.
Verdicts(pid) ==
    IF pid = NoPid THEN {"unknown"}
    ELSE IF proc[pid] \in SupervisorAlive
         THEN {"alive", "unknown"} \cup
              {v \in {"gone"} : \E code \in HostFaultCodes : ReadsAsMissing(code)}
         ELSE {"gone", "unknown"}

\* Mutant: what the record holds is not consulted.
OutcomesOnDisk(j, record) ==
    {0} \cup {a \in {record.att} : a # 0 /\ proc[<<j, a>>] \in HasOutcome}

\* The outcomes a read can end up with: the attempt's own, once written, or
\* the one the record holds when the file is not there or this host's view of
\* the shared file system has not caught up.
OutcomesRead(j, record) ==
    {record.outcome} \cup
    {a \in {record.att} : a # 0 /\ proc[<<j, a>>] \in HasOutcome}

-----------------------------------------------------------------------------
(* The registry, under or beside the per-GPU lock. *)

Put(k, reservation) ==
    /\ reg' = [reg EXCEPT ![k] = reservation]
    /\ stale' = [stale EXCEPT ![k] = FALSE]

\* Mutant: the directory stays where it was.
RemoveMetadata(k) == Put(k, [Absent EXCEPT !.dir = "released"])

Remove(k) == Put(k, Absent)

\* Mutant: the inspected booking need not be the present one.
MayQuarantineOther(k, seen) == GuardFree(k) /\ stale[k] /\ seen.dir = "held"

\* Mutant: a check-in since the inspection does not matter.
MayQuarantineFresh(k, seen) == GuardFree(k) /\ reg[k] = seen

\* The last check of _cleanup_stale_gone_reservation, under the lock: the
\* booking is still stale and still the one that was inspected.
MayQuarantine(k, seen) ==
    /\ GuardFree(k)
    /\ stale[k]
    /\ reg[k] = seen

\* _merge_owned_metadata refuses a booking of another instance.
MergeAllowed(s, k) == reg[k].dir = "held" /\ reg[k].srv = s

-----------------------------------------------------------------------------
(* run_python_on_gpu: book, record, start, acknowledge. *)

LaunchStep(j, pc) == launch' = [launch EXCEPT ![j].pc = pc]

Launching(j, pc) == launch[j].pc = pc /\ inst[OwnerOf(j)] = "up"

\* acquire_reservation makes the directory first; when it is there already the
\* launch is refused, or follows a stale cleanup (InspectStale, Quarantine) of
\* its own.
LaunchBegin(j, s, k) ==
    /\ launch[j].pc = "idle"
    /\ inst[s] = "up"
    /\ Healthy(s, k)
    /\ reg[k].dir = "absent"
    /\ Put(k, Empty)
    /\ launch' = [launch EXCEPT ![j] = [pc |-> "created", srv |-> s, key |-> k]]
    /\ UNCHANGED <<inst, checkins, rec, op, look, proc>>

\* ... and then writes the metadata; a failed write removes the directory.
LaunchWriteMetadata(j) ==
    /\ Launching(j, "created")
    /\ Put(KeyOf(j), [dir |-> "held", job |-> j, att |-> 1,
                      srv |-> OwnerOf(j), pid |-> NoPid])
    /\ LaunchStep(j, "acquired")
    /\ UNCHANGED <<inst, checkins, rec, op, look, proc>>

LaunchMetadataFails(j) ==
    /\ Launching(j, "created")
    /\ Remove(KeyOf(j))
    /\ launch' = [launch EXCEPT ![j] = NoLaunch]
    /\ UNCHANGED <<inst, checkins, rec, op, look, proc>>

FirstRecord == [state |-> "launching", att |-> 1, active |-> TRUE,
                pid |-> NoPid, outcome |-> 0]

LaunchRecord(j) ==
    /\ Launching(j, "acquired")
    /\ rec' = [rec EXCEPT ![j] = FirstRecord]
    /\ LaunchStep(j, "recorded")
    /\ UNCHANGED <<inst, registry, checkins, op, look, proc>>

\* The record cannot be saved: the booking goes, without the lock, because
\* nothing was started. A registered record may remain (saved is TRUE).
LaunchRecordFails(j) ==
    /\ Launching(j, "acquired")
    /\ Remove(KeyOf(j))
    /\ \E saved \in BOOLEAN :
        rec' = [rec EXCEPT ![j] = IF saved THEN FirstRecord ELSE NoRecord]
    /\ LaunchStep(j, "done")
    /\ UNCHANGED <<inst, checkins, op, look, proc>>

\* HeartbeatManager.register, and the start command leaves: Popen on this
\* host, SSH to another.
LaunchSend(j) ==
    /\ Launching(j, "recorded")
    /\ owned' = [owned EXCEPT ![OwnerOf(j)] = @ \cup {KeyOf(j)}]
    /\ failed' = [failed EXCEPT ![OwnerOf(j)] = @ \ {KeyOf(j)}]
    /\ proc' = [proc EXCEPT ![<<j, 1>>] = "inflight"]
    /\ LaunchStep(j, "sent")
    /\ UNCHANGED <<inst, registry, rec, op, look>>

\* The launcher itself answers that it created no process.
LaunchFailsBeforeStart(j) ==
    /\ Launching(j, "sent")
    /\ proc[<<j, 1>>] = "inflight"
    /\ proc' = [proc EXCEPT ![<<j, 1>>] = "gone"]
    /\ LaunchStep(j, "prestart")
    /\ UNCHANGED <<inst, registry, checkins, rec, op, look>>

\* No usable reply: launch_outcome_unknown, the booking stays fail-closed.
LaunchReplyLost(j) ==
    /\ Launching(j, "sent")
    /\ LaunchStep(j, "done")
    /\ UNCHANGED <<inst, registry, checkins, rec, op, look, proc>>

LaunchAcknowledged(j) ==
    /\ Launching(j, "sent")
    /\ proc[<<j, 1>>] \notin {"none", "inflight"}
    /\ LaunchStep(j, "started")
    /\ UNCHANGED <<inst, registry, checkins, rec, op, look, proc>>

\* The launch saves its own copy of the record, whatever was saved meanwhile.
LaunchRecordRunning(j) ==
    /\ Launching(j, "started")
    /\ rec' = [rec EXCEPT ![j] = [FirstRecord EXCEPT !.state = "running",
                                                     !.pid = <<j, 1>>]]
    /\ LaunchStep(j, "running")
    /\ UNCHANGED <<inst, registry, checkins, op, look, proc>>

\* A failed save ends the call before the metadata learns the process id.
LaunchRunningUnrecorded(j) ==
    /\ Launching(j, "started")
    /\ LaunchStep(j, "done")
    /\ UNCHANGED <<inst, registry, checkins, rec, op, look, proc>>

\* update_owned_metadata; a refused or failed write is launched_with_warning.
LaunchRecordPid(j) ==
    /\ Launching(j, "running")
    /\ GuardFree(KeyOf(j))
    /\ \/ /\ MergeAllowed(OwnerOf(j), KeyOf(j))
          /\ KeyOf(j) \in owned[OwnerOf(j)]
          /\ Put(KeyOf(j), [reg[KeyOf(j)] EXCEPT !.pid = <<j, 1>>])
       \/ UNCHANGED registry
    /\ LaunchStep(j, "done")
    /\ UNCHANGED <<inst, checkins, rec, op, look, proc>>

\* _record_prestart_failure: the result is saved before the booking goes.
PrestartRecord(j) ==
    /\ Launching(j, "prestart")
    /\ rec' = [rec EXCEPT ![j] = [FirstRecord EXCEPT !.state = "terminal",
                                                     !.outcome = 1]]
    /\ LaunchStep(j, "releasing")
    /\ UNCHANGED <<inst, registry, checkins, op, look, proc>>

\* The metadata is read once beside the lock and, when it names the attempt, once
\* more under it. A first read that fails is taken for the booking of another
\* attempt, a second one for a removal that failed.
PrestartRelease(j) ==
    /\ Launching(j, "releasing")
    /\ \/ /\ Matches(j, FirstRecord) /\ GuardFree(KeyOf(j))
          /\ \/ Remove(KeyOf(j)) /\ LaunchStep(j, "forgetting")
             \/ "unreadable" \in Faults /\ LaunchStep(j, "keeping") /\ UNCHANGED registry
       \/ /\ Matches(j, FirstRecord) => "unreadable" \in Faults
          /\ LaunchStep(j, "closing") /\ UNCHANGED registry
    /\ UNCHANGED <<inst, checkins, rec, op, look, proc>>

\* unregister and the final save, which names no attempt but the launch's own
PrestartClose(j) ==
    /\ launch[j].pc \in {"forgetting", "keeping", "closing"}
    /\ Launching(j, launch[j].pc)
    /\ IF launch[j].pc = "forgetting"
       THEN /\ owned' = [owned EXCEPT ![OwnerOf(j)] = @ \ {KeyOf(j)}]
            /\ failed' = [failed EXCEPT ![OwnerOf(j)] = @ \ {KeyOf(j)}]
       ELSE UNCHANGED checkins
    /\ rec' = [rec EXCEPT ![j] = [FirstRecord EXCEPT !.state = "terminal",
                                                     !.outcome = 1,
                                                     !.active = launch[j].pc = "keeping"]]
    /\ LaunchStep(j, "done")
    /\ UNCHANGED <<inst, registry, op, look, proc>>

-----------------------------------------------------------------------------
(* manage_gpu_job and the monitor's checks: one call at a time per job.     *)

OpStep(j, pc) == op' = [op EXCEPT ![j].pc = pc]
OpDone(j) == op' = [op EXCEPT ![j] = NoOperation]
\* The rest of the call needs only the record it is to save.
OpLast(j, pc) ==
    op' = [op EXCEPT ![j] = [pc |-> pc, srv |-> op[j].srv, write |-> op[j].write,
                             source |-> NoRecord, meta |-> Absent, then |-> "idle"]]
Doing(j, pc) == op[j].pc = pc

\* The job's lock is free and instance s may take it.
MayManage(s, j) ==
    /\ op[j].pc = "idle"
    /\ Serves(s, j)
    /\ \/ launch[j].pc = "done"
       \/ rec[j].state # "launching"
       \/ "early" \in Faults

\* _resolve_job_target: the record as a call sees it, inactive when the booking
\* it names cannot be read or is not its own.
Resolved(j) ==
    {[rec[j] EXCEPT !.active = @ /\ readable /\ Matches(j, rec[j])] :
        readable \in {r \in BOOLEAN : r \/ "unreadable" \in Faults}}

\* What the inspection of a status answer yields, "none" when it has no
\* metadata to inspect.
Observed(j, record) ==
    IF record.active /\ reg[KeyOf(j)].dir = "held"
    THEN Verdicts(reg[KeyOf(j)].pid) ELSE {"none"}

\* Mutant: the record of a finished program is inactive before its release.
StatusRecordTooSoon(j, record, verdict, outcome) ==
    [record EXCEPT !.state = IF outcome # 0 THEN "terminal" ELSE "running",
                   !.outcome = outcome,
                   !.active = @ /\ outcome = 0]

\* The record a status answer saves, from what it has read.
StatusRecord(j, record, verdict, outcome) ==
    LET state == IF outcome # 0 THEN "terminal"
                 ELSE IF ~record.active \/ verdict = "none"
                 THEN IF record.state = "finished" THEN "finished"
                      ELSE IF record.active THEN "launch_unknown" ELSE "gone_unknown"
                 ELSE CASE verdict = "alive" -> "running"
                        [] verdict = "unknown" -> "launch_unknown"
                        [] verdict = "gone" -> "gone_unknown"
    IN [record EXCEPT !.state = state,
                      !.outcome = outcome,
                      !.active = IF state = "finished" THEN rec[j].active ELSE @]

\* Mutant: only the owner frees the GPU.
AfterSaveOfOwner(j, s, record, verdict, outcome) ==
    IF outcome # 0 /\ record.active /\ verdict = "gone" /\ Owns(s, KeyOf(j))
    THEN "release" ELSE "idle"

\* What follows the save of a verified result whose process is gone.
AfterSave(j, s, record, verdict, outcome) ==
    LET k == KeyOf(j) IN
    IF outcome = 0 \/ ~record.active \/ verdict # "gone" THEN "idle"
    ELSE IF Owns(s, k) THEN IF Healthy(s, k) THEN "release" ELSE "idle"
    ELSE IF Matches(j, record) /\ stale[k] /\ reg[k].pid = record.pid
    THEN "cleanup" ELSE "idle"

\* The observations of _job_status_response. The answer that ends a stop or a
\* refused finish goes by the record that call began with.
StatusWith(j, s, record, verdict, outcome) ==
    /\ \/ MayManage(s, j) /\ record \in Resolved(j)
       \/ Doing(j, "look") /\ op[j].srv = s /\ record = op[j].source
    /\ verdict \in Observed(j, record)
    /\ outcome \in OutcomesRead(j, record)
    /\ op' = [op EXCEPT ![j] =
                [pc |-> "save", srv |-> s,
                 write |-> StatusRecord(j, record, verdict, outcome),
                 source |-> NoRecord,
                 meta |-> IF AfterSave(j, s, record, verdict, outcome) = "idle"
                          THEN Absent ELSE reg[KeyOf(j)],
                 then |-> AfterSave(j, s, record, verdict, outcome)]]
    /\ UNCHANGED <<inst, registry, checkins, rec, launch, look, proc>>

StatusLook(j, s) ==
    /\ Serves(s, j)
    /\ \E record \in Resolved(j) \cup {op[j].source},
          verdict \in {"alive", "gone", "unknown", "none"},
          outcome \in Attempt \cup {0} :
            StatusWith(j, s, record, verdict, outcome)

SaveRecord(j) ==
    /\ Doing(j, "save")
    /\ rec' = [rec EXCEPT ![j] = op[j].write]
    /\ IF op[j].then = "idle" THEN OpDone(j) ELSE OpStep(j, op[j].then)
    /\ UNCHANGED <<inst, registry, checkins, launch, look, proc>>

\* The checks of _remove_owned_finished_reservation, under the lock.
MayRelease(j) ==
    /\ MergeAllowed(op[j].srv, KeyOf(j))
    /\ reg[KeyOf(j)].job = j
    /\ reg[KeyOf(j)].att = op[j].write.att
    /\ reg[KeyOf(j)].pid = op[j].meta.pid

\* A finish whose booking changed meanwhile ends with a status answer.
ReleaseOwned(j) ==
    /\ Doing(j, "release")
    /\ GuardFree(KeyOf(j))
    /\ IF MayRelease(j)
       THEN Remove(KeyOf(j)) /\ OpLast(j, "unregister")
       ELSE /\ UNCHANGED registry
            /\ IF op[j].write.state = "finished" THEN OpStep(j, "look") ELSE OpDone(j)
    /\ UNCHANGED <<inst, checkins, rec, launch, look, proc>>

\* The result is verified but the booking is a former instance's.
CleanupFormer(j) ==
    /\ Doing(j, "cleanup")
    /\ GuardFree(KeyOf(j))
    /\ \E verdict \in Verdicts(op[j].meta.pid) :
        IF verdict = "gone" /\ MayQuarantine(KeyOf(j), op[j].meta)
        THEN Remove(KeyOf(j)) /\ OpLast(j, "inactive")
        ELSE UNCHANGED registry /\ OpDone(j)
    /\ UNCHANGED <<inst, checkins, rec, launch, look, proc>>

\* HeartbeatManager.unregister names the key, not the job.
Unregister(j) ==
    /\ Doing(j, "unregister")
    /\ owned' = [owned EXCEPT ![op[j].srv] = @ \ {KeyOf(j)}]
    /\ failed' = [failed EXCEPT ![op[j].srv] = @ \ {KeyOf(j)}]
    /\ OpStep(j, "inactive")
    /\ UNCHANGED <<inst, registry, rec, launch, look, proc>>

\* The last save; a finish ends with a status answer that reads the outcome.
RecordInactive(j) ==
    /\ Doing(j, "inactive")
    /\ \E outcome \in IF op[j].write.state = "finished"
                     THEN OutcomesRead(j, op[j].write) ELSE {op[j].write.outcome} :
          rec' = [rec EXCEPT ![j] =
                    [op[j].write EXCEPT !.active = FALSE, !.outcome = outcome,
                        !.state = IF outcome # 0 THEN "terminal" ELSE @]]
    /\ OpDone(j)
    /\ UNCHANGED <<inst, registry, checkins, launch, look, proc>>

\* _recover_previous_job saves a verified result of a former instance at once,
\* and leaves a fresh booking alone.
RecoverFormer(j, s) ==
    /\ MayManage(s, j)
    /\ OwnerOf(j) # s
    /\ \E outcome \in OutcomesRead(j, rec[j]) \ {0} :
          rec' = [rec EXCEPT ![j] = [@ EXCEPT !.state = "terminal", !.outcome = outcome]]
    /\ UNCHANGED <<inst, registry, checkins, launch, op, look, proc>>

\* _owned_lifecycle_metadata behind a healthy check-in.
MayChange(s, j) ==
    /\ MayManage(s, j)
    /\ Owns(s, KeyOf(j))
    /\ Healthy(s, KeyOf(j))
    /\ reg[KeyOf(j)].job = j
    /\ reg[KeyOf(j)].att = rec[j].att

\* Mutant: a finish releases first and saves later.
FinishUnsaved(j, s) ==
    /\ MayChange(s, j)
    /\ "gone" \in Verdicts(reg[KeyOf(j)].pid)
    /\ op' = [op EXCEPT ![j] =
                [pc |-> "release", srv |-> s,
                 write |-> [rec[j] EXCEPT !.state = "finished"],
                 source |-> rec[j], meta |-> reg[KeyOf(j)], then |-> "idle"]]
    /\ UNCHANGED <<inst, registry, checkins, rec, launch, look, proc>>

\* finish: refused unless the process is gone.
FinishLook(j, s) ==
    /\ MayChange(s, j)
    /\ "gone" \in Verdicts(reg[KeyOf(j)].pid)
    /\ \E record \in Resolved(j) :
        op' = [op EXCEPT ![j] =
                [pc |-> "save", srv |-> s,
                 write |-> [record EXCEPT !.state = "finished"],
                 source |-> record, meta |-> reg[KeyOf(j)],
                 then |-> "release"]]
    /\ UNCHANGED <<inst, registry, checkins, rec, launch, look, proc>>

\* The saves and the check-in of a call that changes nothing else.
OwnerCheckIn(j, record) ==
    /\ record \in Resolved(j)
    /\ GuardFree(KeyOf(j))
    /\ stale' = [stale EXCEPT ![KeyOf(j)] = FALSE]
    /\ rec' = [rec EXCEPT ![j] = record]
    /\ UNCHANGED <<inst, reg, checkins, launch, look, proc>>

\* stop sends TERM, which the program may take any time to obey, and ends with
\* a status answer.
Stop(j, s) ==
    /\ MayChange(s, j)
    /\ "alive" \in Verdicts(reg[KeyOf(j)].pid)
    /\ \E record \in Resolved(j) :
        /\ OwnerCheckIn(j, record)
        /\ op' = [op EXCEPT ![j] = [NoOperation EXCEPT !.pc = "look", !.srv = s,
                                                       !.source = record]]

UpdateCadence(j, s) ==
    /\ MayChange(s, j)
    /\ \E record \in Resolved(j) : OwnerCheckIn(j, record)
    /\ UNCHANGED op

-----------------------------------------------------------------------------
(* retry: claim the booking for a new attempt, start it, acknowledge it.    *)

\* Refused while the former attempt is alive or cannot be inspected. The
\* pending record is the old one with a new attempt and no process.
RetryLook(j, s) ==
    /\ MayChange(s, j)
    /\ "gone" \in Verdicts(reg[KeyOf(j)].pid)
    /\ \E a \in Attempt, record \in Resolved(j) :
        /\ proc[<<j, a>>] = "none" /\ a # record.att
        /\ op' = [op EXCEPT ![j] =
                    [pc |-> "claim", srv |-> s,
                     write |-> [record EXCEPT !.att = a, !.pid = NoPid],
                     source |-> record, meta |-> reg[KeyOf(j)],
                     then |-> "idle"]]
    /\ UNCHANGED <<inst, registry, checkins, rec, launch, look, proc>>

\* _metadata_still_matches_retry_source, then the record, then the metadata.
\* A booking that has changed ends the call, and so does a failed save.
ClaimRecord(j) ==
    /\ Doing(j, "claim")
    /\ GuardFree(KeyOf(j))
    /\ \/ /\ reg[KeyOf(j)] = op[j].meta
          /\ rec' = [rec EXCEPT ![j] = op[j].write] /\ OpStep(j, "claimed")
       \/ OpDone(j) /\ UNCHANGED rec
    /\ UNCHANGED <<inst, registry, checkins, launch, look, proc>>

\* Mutant: the claim leaves the former process id in the metadata.
ClaimKeepsPid(j) ==
    /\ Doing(j, "claimed")
    /\ Put(KeyOf(j), [reg[KeyOf(j)] EXCEPT !.att = op[j].write.att])
    /\ OpStep(j, "spawn")
    /\ UNCHANGED <<inst, checkins, rec, launch, look, proc>>

ClaimMetadata(j) ==
    /\ Doing(j, "claimed")
    /\ Put(KeyOf(j), [reg[KeyOf(j)] EXCEPT !.att = op[j].write.att,
                                           !.pid = NoPid])
    /\ OpStep(j, "spawn")
    /\ UNCHANGED <<inst, checkins, rec, launch, look, proc>>

\* A failed write puts the source record back; when that fails too the record
\* names an attempt the booking does not.
ClaimFails(j) ==
    /\ Doing(j, "claimed")
    /\ \/ rec' = [rec EXCEPT ![j] = op[j].source]
       \/ "torn" \in Faults /\ UNCHANGED rec
    /\ OpDone(j)
    /\ UNCHANGED <<inst, registry, checkins, launch, look, proc>>

RetryProcess(j) == <<j, op[j].write.att>>

RetrySend(j) ==
    /\ Doing(j, "spawn")
    /\ proc' = [proc EXCEPT ![RetryProcess(j)] = "inflight"]
    /\ OpStep(j, "sent")
    /\ UNCHANGED <<inst, registry, checkins, rec, launch, look>>

RetryFailsBeforeStart(j) ==
    /\ Doing(j, "sent")
    /\ proc[RetryProcess(j)] = "inflight"
    /\ proc' = [proc EXCEPT ![RetryProcess(j)] = "gone"]
    /\ OpStep(j, "rollback")
    /\ UNCHANGED <<inst, registry, checkins, rec, launch, look>>

RetryReplyLost(j) ==
    /\ Doing(j, "sent")
    /\ OpDone(j)
    /\ UNCHANGED <<inst, registry, checkins, rec, launch, look, proc>>

RetryAcknowledged(j) ==
    /\ Doing(j, "sent")
    /\ proc[RetryProcess(j)] \notin {"none", "inflight"}
    /\ OpStep(j, "finalize")
    /\ UNCHANGED <<inst, registry, checkins, rec, launch, look, proc>>

\* The booking is still the one this retry claimed, with no process recorded.
StillClaimed(j) ==
    /\ Matches(j, op[j].write)
    /\ reg[KeyOf(j)].pid = NoPid

\* _rollback_retry_claim restores the record, then the metadata; a failed save
\* leaves both as they are ...
RollbackRecord(j) ==
    /\ Doing(j, "rollback")
    /\ GuardFree(KeyOf(j))
    /\ \/ /\ StillClaimed(j)
          /\ rec' = [rec EXCEPT ![j] = op[j].source] /\ OpStep(j, "rolledback")
       \/ OpDone(j) /\ UNCHANGED rec
    /\ UNCHANGED <<inst, registry, checkins, launch, look, proc>>

RollbackMetadata(j) ==
    /\ Doing(j, "rolledback")
    /\ \/ Put(KeyOf(j), op[j].meta)
       \/ "torn" \in Faults /\ UNCHANGED registry
    /\ OpDone(j)
    /\ UNCHANGED <<inst, checkins, rec, launch, look, proc>>

\* ... and _finalize_retry_attempt records the process in the same order.
\* Either write may fail.
FinalizeRecord(j) ==
    /\ Doing(j, "finalize")
    /\ GuardFree(KeyOf(j))
    /\ \/ /\ StillClaimed(j)
          /\ rec' = [rec EXCEPT ![j] = [op[j].write EXCEPT !.pid = RetryProcess(j)]]
          /\ OpStep(j, "finalized")
       \/ OpDone(j) /\ UNCHANGED rec
    /\ UNCHANGED <<inst, registry, checkins, launch, look, proc>>

FinalizeMetadata(j) ==
    /\ Doing(j, "finalized")
    /\ \/ Put(KeyOf(j), [reg[KeyOf(j)] EXCEPT !.pid = RetryProcess(j)])
       \/ UNCHANGED registry
    /\ OpDone(j)
    /\ UNCHANGED <<inst, checkins, rec, launch, look, proc>>

-----------------------------------------------------------------------------
(* Heartbeats, and the stale bookings other instances look into.            *)

Heartbeat(s, k) ==
    /\ inst[s] = "up" /\ k \in owned[s]
    /\ GuardFree(k)
    /\ IF MergeAllowed(s, k)
       THEN /\ stale' = [stale EXCEPT ![k] = FALSE]
            /\ failed' = [failed EXCEPT ![s] = @ \ {k}]
       ELSE /\ failed' = [failed EXCEPT ![s] = @ \cup {k}]
            /\ UNCHANGED stale
    /\ UNCHANGED <<inst, reg, owned, rec, launch, op, look, proc>>

HeartbeatFails(s, k) ==
    /\ "checkin" \in Faults
    /\ inst[s] = "up" /\ k \in owned[s]
    /\ failed' = [failed EXCEPT ![s] = @ \cup {k}]
    /\ UNCHANGED <<inst, registry, owned, rec, launch, op, look, proc>>

\* Ten minutes pass without a check-in: the owner is dead, suspended or cut
\* off from the registry.
Lapse(k) ==
    /\ reg[k].dir = "held" /\ ~stale[k]
    /\ stale' = [stale EXCEPT ![k] = TRUE]
    /\ UNCHANGED <<inst, reg, checkins, rec, launch, op, look, proc>>

\* check_gpus and a launch that finds its directory taken look into a stale
\* booking: they inspect without the lock ...
InspectStale(s, k) ==
    /\ inst[s] = "up" /\ look[s].key = NoKey
    /\ reg[k].dir = "held" /\ stale[k]
    /\ "gone" \in Verdicts(reg[k].pid)
    /\ look' = [look EXCEPT ![s] = [key |-> k, seen |-> reg[k]]]
    /\ UNCHANGED <<inst, registry, checkins, rec, launch, op, proc>>

\* ... then move the directory aside under it.
Quarantine(s) ==
    /\ look[s].key # NoKey
    /\ GuardFree(look[s].key)
    /\ IF MayQuarantine(look[s].key, look[s].seen)
       THEN Remove(look[s].key) ELSE UNCHANGED registry
    /\ look' = [look EXCEPT ![s] = NoCleanup]
    /\ UNCHANGED <<inst, checkins, rec, launch, op, proc>>

-----------------------------------------------------------------------------
(* Backend instances. *)

\* One instance per repository at a time: the launcher's start-up lock.
Start(s) ==
    /\ inst[s] = "new"
    /\ \A t \in Server : inst[t] = "up" => RepoOf[t] # RepoOf[s]
    /\ inst' = [inst EXCEPT ![s] = "up"]
    /\ UNCHANGED <<registry, checkins, rec, launch, op, look, proc>>

\* An instance ends: its memory and its calls are lost, its locks released.
Ends(s, how) ==
    /\ inst' = [inst EXCEPT ![s] = how]
    /\ owned' = [owned EXCEPT ![s] = {}]
    /\ failed' = [failed EXCEPT ![s] = {}]
    /\ launch' = [j \in Job |-> IF OwnerOf(j) = s
                                THEN [launch[j] EXCEPT !.pc = "done"]
                                ELSE launch[j]]
    /\ op' = [j \in Job |-> IF op[j].srv = s THEN NoOperation ELSE op[j]]
    /\ look' = [look EXCEPT ![s] = NoCleanup]
    /\ UNCHANGED <<registry, rec, proc>>

Crash(s) == inst[s] = "up" /\ Ends(s, "dead")

\* Mutant: a finished job need not have released its reservation.
ShutdownUnreleased(s) ==
    /\ inst[s] = "up"
    /\ \A j \in Job : op[j].srv = s => op[j].pc \notin RetryPc
    /\ \A j \in Job : OwnerOf(j) = s =>
        /\ launch[j].pc = "done"
        /\ rec[j].state \in {"none", "terminal", "finished", "gone_unknown"}
    /\ Ends(s, "stopped")

\* shutdown_if_idle: no tool call in progress, and every job of this instance
\* is over and recorded as holding no reservation.
Shutdown(s) ==
    /\ inst[s] = "up"
    /\ \A j \in Job : op[j].srv = s => op[j].pc \notin RetryPc
    /\ \A j \in Job : OwnerOf(j) = s =>
        /\ launch[j].pc = "done"
        /\ rec[j].state \in {"none", "terminal", "finished", "gone_unknown"}
        /\ ~rec[j].active
    /\ Ends(s, "stopped")

-----------------------------------------------------------------------------
(* The GPU host: the managed supervisor and its program. *)

ProcStep(p, from, to) ==
    /\ proc[p] = from
    /\ proc' = [proc EXCEPT ![p] = to]
    /\ UNCHANGED <<inst, registry, checkins, rec, launch, op, look>>

SupervisorStarts(p) == ProcStep(p, "inflight", "running")
CommandLost(p) == ProcStep(p, "inflight", "gone")

\* The program exits and the supervisor renames the outcome into place.
ProgramEnds(p) == ProcStep(p, "running", "ending")
SupervisorExits(p) == ProcStep(p, "ending", "exited")

\* The host goes down, or the supervisor fails before it can write.
HostLost(p) == ProcStep(p, "running", "gone")

\* kill_gpu_process signals the recorded process id, the supervisor's; the
\* program runs in a session of its own.
KillSupervisor(j) ==
    /\ "kill" \in Faults
    /\ op[j].pc = "idle"
    /\ rec[j].active /\ rec[j].pid # NoPid
    /\ inst[OwnerOf(j)] = "up"
    /\ Owns(OwnerOf(j), KeyOf(j)) /\ Matches(j, rec[j])
    /\ reg[KeyOf(j)].pid = rec[j].pid
    /\ \/ ProcStep(rec[j].pid, "running", "orphan")
       \/ ProcStep(rec[j].pid, "ending", "exited")

OrphanEnds(p) == ProcStep(p, "orphan", "gone")

-----------------------------------------------------------------------------

LaunchNext(j) ==
    \/ \E s \in Server, k \in Key : LaunchBegin(j, s, k)
    \/ LaunchWriteMetadata(j) \/ LaunchMetadataFails(j)
    \/ LaunchRecord(j) \/ LaunchRecordFails(j)
    \/ LaunchSend(j) \/ LaunchFailsBeforeStart(j)
    \/ LaunchReplyLost(j) \/ LaunchAcknowledged(j)
    \/ LaunchRecordRunning(j) \/ LaunchRunningUnrecorded(j) \/ LaunchRecordPid(j)
    \/ PrestartRecord(j) \/ PrestartRelease(j) \/ PrestartClose(j)

ManageNext(j) ==
    \/ \E s \in Server : \/ StatusLook(j, s) \/ RecoverFormer(j, s)
                         \/ FinishLook(j, s) \/ Stop(j, s)
                         \/ UpdateCadence(j, s)
    \/ SaveRecord(j) \/ ReleaseOwned(j) \/ CleanupFormer(j)
    \/ Unregister(j) \/ RecordInactive(j)

RetryNext(j) ==
    \/ \E s \in Server : RetryLook(j, s)
    \/ ClaimRecord(j) \/ ClaimMetadata(j) \/ ClaimFails(j)
    \/ RetrySend(j) \/ RetryFailsBeforeStart(j)
    \/ RetryReplyLost(j) \/ RetryAcknowledged(j)
    \/ RollbackRecord(j) \/ RollbackMetadata(j)
    \/ FinalizeRecord(j) \/ FinalizeMetadata(j)

LeaseNext(k) ==
    \/ \E s \in Server : Heartbeat(s, k) \/ HeartbeatFails(s, k) \/ InspectStale(s, k)
    \/ Lapse(k)

ServerNext(s) == Quarantine(s) \/ Start(s) \/ Crash(s) \/ Shutdown(s)

HostNext(p) ==
    \/ SupervisorStarts(p) \/ CommandLost(p) \/ ProgramEnds(p)
    \/ SupervisorExits(p) \/ HostLost(p) \/ OrphanEnds(p)

Next ==
    \/ \E j \in Job : LaunchNext(j) \/ ManageNext(j) \/ RetryNext(j) \/ KillSupervisor(j)
    \/ \E k \in Key : LeaseNext(k)
    \/ \E s \in Server : ServerNext(s)
    \/ \E p \in Process : HostNext(p)

Spec == Init /\ [][Next]_vars

-----------------------------------------------------------------------------
(* What the registry promises: ManagedJobs implements GpuLease.             *)

MayUse(p) == proc[p] \in MayUseGpu
Supervised == {p \in Process : proc[p] \in {"inflight"} \cup SupervisorAlive}

Lease == INSTANCE GpuLease WITH
    Nobody <- NoPid,
    lease <- [k \in Key |-> IF reg[k].dir = "held"
                            THEN <<reg[k].job, reg[k].att>> ELSE NoPid],
    active <- Supervised

\* Every step of the backends, hosts and cleanups is a step of the abstract
\* lease or changes nothing it sees: no lease moves or ends under an attempt
\* that runs or may still start, however calls, crashes and retries interleave.
LeaseSpec == Lease!LeaseSpec

-----------------------------------------------------------------------------
(* Safety.                                                                  *)

\* A GPU never carries two managed programs, started or still to be started
\* by a command in flight: ADR 0004's exclusive reservation, across launches,
\* retries, releases and stale cleanups of all the backends of the user.
OneProgramPerGpu ==
    \A p, q \in Process :
        MayUse(p) /\ MayUse(q) /\ KeyOf(p[1]) = KeyOf(q[1]) => p = q

\* An attempt whose supervisor runs, or whose start command is still in
\* flight, holds the booking of its GPU, even after its backend has died or
\* has lost the launch reply.
LiveAttemptHoldsLease ==
    \A p \in Supervised :
        LET r == reg[KeyOf(p[1])] IN r.dir = "held" /\ <<r.job, r.att>> = p

\* A booking that names a process names the supervisor of the attempt that is
\* booked, so a cleanup never reads the end of a former attempt as the end of
\* the present one.
BookingNamesItsProcess ==
    \A k \in Key : reg[k].pid \in {NoPid, <<reg[k].job, reg[k].att>>}

\* A record that says its reservation is gone tells the truth about the
\* attempt it names: no booking of that attempt is left behind with nobody
\* looking after it (the monitor skips finished, inactive jobs).
InactiveMeansReleased ==
    \A j \in Job :
        rec[j].state # "none" /\ ~rec[j].active
            => ~(/\ reg[KeyOf(j)].dir = "held"
                 /\ <<reg[KeyOf(j)].job, reg[KeyOf(j)].att>> = <<j, rec[j].att>>)

\* A backend that has stopped in good order leaves no booking of its own.
ShutdownLeavesNoBooking ==
    \A k \in Key : reg[k].dir = "held" => inst[reg[k].srv] # "stopped"

\* A live backend sends heartbeats for each booking it made for a job whose
\* launch has got as far as sending the start command.
HeartbeatKept ==
    \A k \in Key : LET r == reg[k] IN
        /\ r.dir = "held" /\ inst[r.srv] = "up"
        /\ launch[r.job].pc \notin {"acquired", "recorded"}
        => k \in owned[r.srv]

-----------------------------------------------------------------------------
(* Why the lease holds: the inductive invariant behind LiveAttemptHoldsLease.*)

\* A call, a launch or a cleanup that is under way names a backend and a GPU,
\* and nothing refers to a job that has not been booked and recorded.
LaunchKnown(j) == IF launch[j].pc = "idle" THEN launch[j] = NoLaunch
                  ELSE KeyOf(j) \in Key /\ OwnerOf(j) \in Server
Unrecorded(j) == launch[j].pc \in {"idle", "created", "acquired"} =>
                    rec[j].state = "none" /\ op[j].pc = "idle"
CallKnown(j) == /\ op[j].pc # "idle" => op[j].srv \in Server
                /\ op[j].pc \in RetryPc => op[j].write.att \in Attempt
JobKnown(j) == LaunchKnown(j) /\ Unrecorded(j) /\ CallKnown(j)

IdsKnown ==
    /\ \A j \in Job : JobKnown(j)
    /\ \A s \in Server : look[s].key # NoKey => look[s].key \in Key

Started(p) == proc[p] \notin {"none", "inflight"}
Ended(p) == proc[p] \in {"orphan", "gone", "exited"}

Booked(j, a) == /\ reg[KeyOf(j)].dir = "held"
                /\ reg[KeyOf(j)].job = j /\ reg[KeyOf(j)].att = a
BookedNoPid(j, a) == Booked(j, a) /\ reg[KeyOf(j)].pid = NoPid

\* What the launch of a job knows: while it runs, the booking is its own, for
\* the first attempt and without a process.
LaunchHolds == {"acquired", "recorded", "sent", "started", "running",
                "prestart", "releasing", "keeping", "closing"}
LaunchSound(j) ==
    LET pc == launch[j].pc p == <<j, 1>> IN
    /\ pc = "created" => reg[KeyOf(j)] = Empty
    /\ pc \in LaunchHolds => BookedNoPid(j, 1) /\ reg[KeyOf(j)].srv = OwnerOf(j)
    /\ pc \in {"idle", "created", "acquired", "recorded"} =>
        \A a \in Attempt : proc[<<j, a>>] = "none"
    /\ pc = "sent" => proc[p] # "none"
    /\ pc \in {"started", "running"} => Started(p)
    /\ pc \in {"prestart", "releasing", "keeping", "closing"} => proc[p] = "gone"

\* What a call knows: it releases a booking, or starts another attempt under
\* it, after it has seen the recorded process ended; a retry keeps its claim
\* until it has recorded the new process or put the old booking back.
CallHolds == {"spawn", "sent", "rollback", "rolledback", "finalize", "finalized"}
CallSound(j) ==
    LET pc == op[j].pc seen == op[j].meta p == <<j, op[j].write.att>> IN
    /\ pc = "release" \/ (pc = "save" /\ op[j].then = "release") =>
        seen.pid # NoPid /\ Ended(seen.pid)
    /\ pc \in RetryPc =>
        /\ launch[j].pc = "done"
        /\ seen.dir = "held" /\ seen.job = j /\ seen.att \in Attempt
        /\ seen.pid = <<j, seen.att>> /\ Ended(seen.pid)
    /\ pc \in {"claim", "claimed", "spawn"} => proc[p] = "none"
    /\ pc = "claimed" => reg[KeyOf(j)] = seen
    /\ pc \in CallHolds => BookedNoPid(j, op[j].write.att)
    /\ pc = "sent" => proc[p] # "none"
    /\ pc \in {"finalize", "finalized"} => Started(p)
    /\ pc \in {"rollback", "rolledback"} => proc[p] = "gone"

LeaseHeld(j) == \A a \in Attempt : <<j, a>> \in Supervised => Booked(j, a)
JobSound(j) == LaunchSound(j) /\ CallSound(j) /\ LeaseHeld(j)

\* A booking was made by the launch of its job, which has not given the key up
\* since, and the process it names is that attempt's and has started.
BookingSound(k) ==
    /\ reg[k].pid # NoPid =>
        /\ reg[k].dir = "held" /\ reg[k].pid = <<reg[k].job, reg[k].att>>
        /\ Started(reg[k].pid)
    /\ reg[k].dir = "held" =>
        /\ reg[k].job \in Job /\ reg[k].att \in Attempt
        /\ KeyOf(reg[k].job) = k
        /\ launch[reg[k].job].pc \notin {"idle", "created", "forgetting"}

\* A stale cleanup goes on only after it has seen the recorded process ended.
CleanupSound(s) ==
    look[s].key # NoKey => look[s].seen.pid # NoPid /\ Ended(look[s].seen.pid)

CreatedAlone ==
    \A i, j \in Job :
        launch[i].pc = "created" /\ launch[j].pc = "created" /\ KeyOf(i) = KeyOf(j)
            => i = j

\* The lease holds because of what every call in progress knows.
LeaseInv ==
    /\ IdsKnown
    /\ \A j \in Job : JobSound(j)
    /\ \A k \in Key : BookingSound(k)
    /\ \A s \in Server : CleanupSound(s)
    /\ CreatedAlone

-----------------------------------------------------------------------------
(* What a step may never do.                                                *)

SameBooking(k) == reg'[k] = reg[k]

\* Nobody changes a booking that has checked in recently once its owner is
\* gone: cleaning up, recovery and other backends wait for it to go stale.
FreshReservationUntouched ==
    [][\A k \in Key :
        reg[k].dir = "held" /\ ~stale[k] /\ ~SameBooking(k)
            => inst[reg[k].srv] = "up"]_vars

\* "Save completion before either owned release or recovery of a stale
\* reservation": the owner gives up the booking of an attempt it tried to start
\* only when the record already carries the attempt's end.
ResultSavedBeforeRelease ==
    [][\A k \in Key : LET r == reg[k] IN
        /\ r.dir = "held" /\ reg'[k].dir = "absent"
        /\ ~stale[k]
        /\ proc[<<r.job, r.att>>] # "none"
        => rec[r.job].att = r.att /\ rec[r.job].state \in {"terminal", "finished"}]_vars

\* A saved result of the present attempt is not lost to a later save.
SavedResultKept ==
    [][\A j \in Job :
        /\ rec[j].outcome # 0 /\ rec[j].outcome = rec[j].att
        /\ rec'[j].att = rec[j].att
        => rec'[j].outcome = rec[j].outcome]_vars

-----------------------------------------------------------------------------
(* Liveness.                                                                *)

\* The monitor thread runs every second and each status answer it starts ends;
\* an inspection of a host that answers eventually answers, and the shared file
\* system eventually shows a result that was written.
AnswerWith(j, s) ==
    /\ Serves(s, j)
    /\ \E record \in Resolved(j) :
        record.active = rec[j].active /\ StatusWith(j, s, record, "gone", rec[j].att)
CleanupGone(j) == CleanupFormer(j) /\ ~SameBooking(KeyOf(j))
CallProceeds(j) ==
    SaveRecord(j) \/ ReleaseOwned(j) \/ CleanupFormer(j) \/ Unregister(j)
    \/ RecordInactive(j) \/ ClaimRecord(j) \/ \E s \in Server : StatusLook(j, s)

Fairness ==
    /\ \A j \in Job : WF_vars(CallProceeds(j))
    /\ \A j \in Job, s \in Server : SF_vars(AnswerWith(j, s))
    /\ \A j \in Job : SF_vars(CleanupGone(j))
    /\ \A k \in Key : WF_vars(Lapse(k) /\ inst[reg[k].srv] # "up")

FairSpec == Spec /\ Fairness

\* A backend of the job's repository is up.
Served(j) == \E s \in Server : Serves(s, j)

\* When a program has ended with a result, and both the record and the booking
\* name its process, the GPU is freed (or a retry takes the booking over)
\* without any user action, by the owner or, when that has died, by a
\* successor, as long as a backend serves the job.
CompletedIsReleased ==
    \A p \in Process :
        LET done == /\ proc[p] = "exited" /\ reg[KeyOf(p[1])].pid = p
                    /\ rec[p[1]].pid = p
        IN done ~> (~done \/ ~Served(p[1]))

=============================================================================
