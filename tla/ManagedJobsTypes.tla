--------------------------- MODULE ManagedJobsTypes ----------------------------
(***************************************************************************)
(* Type correctness of ManagedJobs, for any number of backends,            *)
(* repositories, GPUs, jobs and attempts.                                  *)
(***************************************************************************)
EXTENDS ManagedJobs, TLAPS

-----------------------------------------------------------------------------
(* Type correctness.                                                        *)

\* What Init starts from and null values are of their types.
LEMMA NullTypes ==
    /\ Absent \in Reservation /\ Empty \in Reservation
    /\ NoRecord \in Record /\ FirstRecord \in Record
    /\ NoOperation \in Operation /\ NoLaunch \in Launch /\ NoCleanup \in Cleanup
  <1>1. 1 \in Attempt
    BY ConstantsAssumption DEF Attempt
  <1>2. NoPid \in Process \cup {NoPid}
    OBVIOUS
  <1>3. Absent \in Reservation
    BY DEF Absent, Reservation
  <1>4. Empty \in Reservation
    BY <1>3 DEF Absent, Empty, Reservation
  <1>5. NoRecord \in Record /\ FirstRecord \in Record
    BY <1>1 DEF NoRecord, FirstRecord, Record, Lifecycle
  <1>6. NoOperation \in Operation
    BY <1>3, <1>5 DEF NoOperation, Operation, StatusPc, RetryPc
  <1>7. NoLaunch \in Launch /\ NoCleanup \in Cleanup
    BY <1>3 DEF NoLaunch, Launch, LaunchPc, NoCleanup, Cleanup
  <1> QED
    BY <1>3, <1>4, <1>5, <1>6, <1>7

\* A write to the registry keeps its type.
LEMMA PutType ==
    ASSUME TypeOK, NEW k \in Key, NEW r \in Reservation, Put(k, r)
    PROVE  reg' \in [Key -> Reservation] /\ stale' \in [Key -> BOOLEAN]
  BY DEF TypeOK, Put

\* A record a call resolves is a record, and so is one a status answer saves.
LEMMA ResolvedType ==
    ASSUME TypeOK, NEW j \in Job
    PROVE  Resolved(j) \subseteq Record
  <1>1. rec[j] \in Record /\ Matches(j, rec[j]) \in BOOLEAN
    BY DEF TypeOK, Matches
  <1>2. \A readable \in BOOLEAN :
            [rec[j] EXCEPT !.active = @ /\ readable /\ Matches(j, rec[j])] \in Record
    BY <1>1 DEF Record
  <1> QED
    BY <1>2 DEF Resolved

\* A status answer saves a record.
LEMMA StatusRecordType ==
    ASSUME TypeOK, NEW j \in Job, NEW record \in Record,
           NEW outcome \in Attempt \cup {0},
           NEW verdict \in {"alive", "gone", "unknown", "none"}
    PROVE  StatusRecord(j, record, verdict, outcome) \in Record
  <1>1. rec[j].active \in BOOLEAN
    BY DEF TypeOK, Record
  <1> DEFINE state == IF outcome # 0 THEN "terminal"
                      ELSE IF ~record.active \/ verdict = "none"
                      THEN IF record.state = "finished" THEN "finished"
                           ELSE IF record.active THEN "launch_unknown" ELSE "gone_unknown"
                      ELSE CASE verdict = "alive" -> "running"
                             [] verdict = "unknown" -> "launch_unknown"
                             [] verdict = "gone" -> "gone_unknown"
  <1>2. state \in Lifecycle
    BY DEF Lifecycle
  <1> HIDE DEF state
  <1>3. [record EXCEPT !.state = state, !.outcome = outcome,
            !.active = IF state = "finished" THEN rec[j].active ELSE @] \in Record
    BY <1>1, <1>2 DEF Record
  <1> QED
    BY <1>3 DEF StatusRecord, state

\* So do steps of a launch and of a call.
LEMMA StepType ==
    ASSUME TypeOK, NEW j \in Job
    PROVE  /\ \A pc \in LaunchPc : LaunchStep(j, pc) => launch' \in [Job -> Launch]
           /\ \A pc \in {"idle"} \cup StatusPc \cup RetryPc :
                OpStep(j, pc) => op' \in [Job -> Operation]
           /\ OpDone(j) => op' \in [Job -> Operation]
  <1>1. ASSUME NEW pc \in LaunchPc, LaunchStep(j, pc)
        PROVE  launch' \in [Job -> Launch]
    BY <1>1 DEF TypeOK, LaunchStep, Launch
  <1>2. ASSUME NEW pc \in {"idle"} \cup StatusPc \cup RetryPc, OpStep(j, pc)
        PROVE  op' \in [Job -> Operation]
    BY <1>2 DEF TypeOK, OpStep, Operation
  <1>3. OpDone(j) => op' \in [Job -> Operation]
    BY NullTypes DEF TypeOK, OpDone
  <1> QED
    BY <1>1, <1>2, <1>3

\* What a write to the registry, a step of a launch and a step of a call change.
LEMMA PutValues ==
    ASSUME TypeOK, NEW k \in Key, NEW r, Put(k, r)
    PROVE  reg'[k] = r /\ \A l \in Key \ {k} : reg'[l] = reg[l]
  BY DEF TypeOK, Put

\* What moving a launch on does to each launch.
LEMMA LaunchStepValues ==
    ASSUME TypeOK, NEW j \in Job, NEW pc, LaunchStep(j, pc)
    PROVE  /\ launch'[j].pc = pc
           /\ launch'[j].srv = launch[j].srv /\ launch'[j].key = launch[j].key
           /\ \A i \in Job \ {j} : launch'[i] = launch[i]
  BY DEF TypeOK, LaunchStep, Launch

\* What moving a call on does to each call.
LEMMA OpStepValues ==
    ASSUME TypeOK, NEW j \in Job, NEW pc, OpStep(j, pc)
    PROVE  /\ op'[j].pc = pc /\ op'[j].srv = op[j].srv
           /\ op'[j].write = op[j].write /\ op'[j].source = op[j].source
           /\ op'[j].meta = op[j].meta /\ op'[j].then = op[j].then
           /\ \A i \in Job \ {j} : op'[i] = op[i]
  BY DEF TypeOK, OpStep, Operation

\* What keeping only a call's record does to each call.
LEMMA OpLastValues ==
    ASSUME TypeOK, NEW j \in Job, NEW pc, OpLast(j, pc)
    PROVE  /\ op'[j].pc = pc /\ op'[j].srv = op[j].srv /\ op'[j].write = op[j].write
           /\ \A i \in Job \ {j} : op'[i] = op[i]
           /\ pc \in {"unregister", "inactive"} => op' \in [Job -> Operation]
  BY NullTypes DEF TypeOK, OpLast, Operation, StatusPc

\* What ending a call does to each call.
LEMMA OpDoneValues ==
    ASSUME TypeOK, NEW j \in Job, OpDone(j)
    PROVE  op'[j] = NoOperation /\ \A i \in Job \ {j} : op'[i] = op[i]
  BY DEF TypeOK, OpDone

\* The end of a backend ends its launches and its calls.
LEMMA EndsValues ==
    ASSUME TypeOK, NEW s \in Server, NEW how, Ends(s, how), NEW i \in Job
    PROVE  /\ launch'[i].key = launch[i].key /\ launch'[i].srv = launch[i].srv
           /\ \/ launch'[i] = launch[i]
              \/ launch'[i].pc = "done" /\ launch[i].srv = s
           /\ op'[i] = op[i] \/ op'[i] = NoOperation
  BY DEF TypeOK, Ends, OwnerOf, Launch

\* The steps of a launch keep types.
LEMMA LaunchType ==
    ASSUME TypeOK, NEW j \in Job, LaunchNext(j),
           IdsKnown
    PROVE  TypeOK'
  <1> USE NullTypes, PutType, StepType, ConstantsAssumption
      DEF TypeOK, registry, checkins, LaunchPc, Launching, Remove
  <1>0. launch[j].pc # "idle" => KeyOf(j) \in Key /\ OwnerOf(j) \in Server
    BY DEF IdsKnown, JobKnown, LaunchKnown, Unrecorded, CallKnown
  <1> USE <1>0
  <1>1. ASSUME NEW s \in Server, NEW k \in Key, LaunchBegin(j, s, k)
        PROVE  TypeOK'
    BY <1>1 DEF LaunchBegin, Launch
  <1>2. CASE LaunchWriteMetadata(j)
    <2>1. [dir |-> "held", job |-> j, att |-> 1, srv |-> OwnerOf(j), pid |-> NoPid]
            \in Reservation
      BY <1>2 DEF LaunchWriteMetadata, Reservation, Attempt
    <2> QED
      BY <1>2, <2>1 DEF LaunchWriteMetadata
  <1>3. CASE LaunchMetadataFails(j)
    BY <1>3 DEF LaunchMetadataFails
  <1>4. CASE LaunchRecord(j)
    BY <1>4 DEF LaunchRecord
  <1>5. CASE LaunchRecordFails(j)
    BY <1>5 DEF LaunchRecordFails
  <1>6. CASE LaunchSend(j)
    BY <1>6 DEF LaunchSend, ProcState
  <1>7. CASE LaunchFailsBeforeStart(j)
    BY <1>7 DEF LaunchFailsBeforeStart, ProcState
  <1>8. CASE LaunchReplyLost(j) \/ LaunchAcknowledged(j) \/ LaunchRunningUnrecorded(j)
    BY <1>8 DEF LaunchReplyLost, LaunchAcknowledged, LaunchRunningUnrecorded
  <1>9. CASE LaunchRecordRunning(j)
    <2>1. <<j, 1>> \in Process
      BY DEF Process, Attempt
    <2>2. [FirstRecord EXCEPT !.state = "running", !.pid = <<j, 1>>] \in Record
      BY <2>1 DEF FirstRecord, Record, Lifecycle
    <2> QED
      BY <1>9, <2>2 DEF LaunchRecordRunning
  <1>10. CASE LaunchRecordPid(j)
    <2>1. KeyOf(j) \in Key /\ <<j, 1>> \in Process
      BY <1>10 DEF LaunchRecordPid, Process, Attempt
    <2>2. [reg[KeyOf(j)] EXCEPT !.pid = <<j, 1>>] \in Reservation
      BY <2>1 DEF Reservation
    <2> QED
      BY <1>10, <2>1, <2>2 DEF LaunchRecordPid
  <1>11. CASE PrestartRecord(j)
    <2>1. [FirstRecord EXCEPT !.state = "terminal", !.outcome = 1] \in Record
      BY DEF FirstRecord, Record, Lifecycle, Attempt
    <2> QED
      BY <1>11, <2>1 DEF PrestartRecord
  <1>12. CASE PrestartRelease(j)
    BY <1>12 DEF PrestartRelease
  <1>13. CASE PrestartClose(j)
    <2>1. [FirstRecord EXCEPT !.state = "terminal", !.outcome = 1,
                             !.active = launch[j].pc = "keeping"] \in Record
      BY DEF FirstRecord, Record, Lifecycle, Attempt
    <2>2. owned' \in [Server -> SUBSET Key] /\ failed' \in [Server -> SUBSET Key]
      BY <1>13 DEF PrestartClose
    <2> QED
      BY <1>13, <2>1, <2>2 DEF PrestartClose
  <1> QED
    BY <1>1, <1>2, <1>3, <1>4, <1>5, <1>6, <1>7, <1>8, <1>9, <1>10, <1>11, <1>12,
       <1>13 DEF LaunchNext

\* What a call reads and writes is of its type.
LEMMA ReadTypes ==
    ASSUME TypeOK, NEW j \in Job
    PROVE  /\ rec[j] \in Record /\ op[j] \in Operation
           /\ op[j].write \in Record /\ op[j].source \in Record
           /\ op[j].meta \in Reservation
           /\ rec[j].att \in Attempt \cup {0} /\ op[j].write.att \in Attempt \cup {0}
           /\ op[j].write.outcome \in Attempt \cup {0}
           /\ \A record \in Record : OutcomesRead(j, record) \subseteq Attempt \cup {0}
  <1>1. rec[j] \in Record /\ op[j] \in Operation
    BY DEF TypeOK
  <1>2. /\ op[j].write \in Record /\ op[j].source \in Record
        /\ op[j].meta \in Reservation
    BY <1>1 DEF Operation
  <1>3. \A record \in Record : record.att \in Attempt \cup {0} /\ record.outcome \in Attempt \cup {0}
    BY DEF Record
  <1> QED
    BY <1>1, <1>2, <1>3 DEF OutcomesRead

\* The steps of a status answer, a recovery, a finish and a check-in keep types.
LEMMA ManageType ==
    ASSUME TypeOK, IdsKnown, NEW j \in Job, ManageNext(j)
    PROVE  TypeOK'
  <1> USE NullTypes, PutType, StepType, ReadTypes DEF TypeOK, registry, checkins
  <1>0. op[j].pc # "idle" \/ rec[j].state # "none" => KeyOf(j) \in Key
    BY DEF IdsKnown, JobKnown, LaunchKnown, Unrecorded, CallKnown
  <1>00. op[j].pc # "idle" => op[j].srv \in Server
    BY DEF IdsKnown, JobKnown, LaunchKnown, Unrecorded, CallKnown
  <1> USE <1>0, <1>00
  <1>1. ASSUME NEW s \in Server, StatusLook(j, s)
        PROVE  TypeOK'
    <2>1. PICK record \in Resolved(j) \cup {op[j].source},
               verdict \in {"alive", "gone", "unknown", "none"},
               outcome \in Attempt \cup {0} :
            StatusWith(j, s, record, verdict, outcome)
      BY <1>1 DEF StatusLook
    <2>2. KeyOf(j) \in Key
      BY <1>1 DEF StatusLook, Serves
    <2>3. record \in Record
      BY <2>1, ResolvedType
    <2>4. StatusRecord(j, record, verdict, outcome) \in Record
      BY <2>3, StatusRecordType
    <2>5. AfterSave(j, s, record, verdict, outcome) \in {"idle", "release", "cleanup"}
      BY DEF AfterSave
    <2> DEFINE call == [pc |-> "save", srv |-> s,
                        write |-> StatusRecord(j, record, verdict, outcome),
                        source |-> NoRecord,
                        meta |-> IF AfterSave(j, s, record, verdict, outcome) = "idle"
                                 THEN Absent ELSE reg[KeyOf(j)],
                        then |-> AfterSave(j, s, record, verdict, outcome)]
    <2>6. call \in Operation
      BY <2>2, <2>4, <2>5 DEF Operation, StatusPc
    <2>7. op' = [op EXCEPT ![j] = call]
      BY <2>1 DEF StatusWith
    <2> QED
      BY <2>1, <2>6, <2>7 DEF StatusWith
  <1>2. ASSUME NEW s \in Server, RecoverFormer(j, s)
        PROVE  TypeOK'
    <2>1. PICK outcome \in OutcomesRead(j, rec[j]) :
            rec' = [rec EXCEPT ![j] = [@ EXCEPT !.state = "terminal", !.outcome = outcome]]
      BY <1>2 DEF RecoverFormer
    <2>2. outcome \in Attempt \cup {0}
      BY <2>1
    <2>3. [rec[j] EXCEPT !.state = "terminal", !.outcome = outcome] \in Record
      BY <2>2 DEF Record, Lifecycle
    <2> QED
      BY <1>2, <2>1, <2>3 DEF RecoverFormer
  <1>3. ASSUME NEW s \in Server, FinishLook(j, s)
        PROVE  TypeOK'
    <2>1. KeyOf(j) \in Key
      BY <1>3 DEF FinishLook, MayChange, MayManage, Serves
    <2>2. PICK record \in Resolved(j) :
            op' = [op EXCEPT ![j] =
                    [pc |-> "save", srv |-> s,
                     write |-> [record EXCEPT !.state = "finished"],
                     source |-> record, meta |-> reg[KeyOf(j)], then |-> "release"]]
      BY <1>3 DEF FinishLook
    <2>0. record \in Record
      BY ResolvedType
    <2>3. record \in Record /\ [record EXCEPT !.state = "finished"] \in Record
      BY <2>0 DEF Record, Lifecycle
    <2>4. [pc |-> "save", srv |-> s, write |-> [record EXCEPT !.state = "finished"],
           source |-> record, meta |-> reg[KeyOf(j)], then |-> "release"] \in Operation
      BY <2>1, <2>3 DEF Operation, StatusPc
    <2> QED
      BY <1>3, <2>2, <2>4 DEF FinishLook
  <1>4. ASSUME NEW s \in Server, Stop(j, s)
        PROVE  TypeOK'
    <2>1. PICK record \in Resolved(j) :
            /\ OwnerCheckIn(j, record)
            /\ op' = [op EXCEPT ![j] = [NoOperation EXCEPT !.pc = "look", !.srv = s,
                                                           !.source = record]]
      BY <1>4 DEF Stop
    <2>2. record \in Record
      BY ResolvedType
    <2>3. [NoOperation EXCEPT !.pc = "look", !.srv = s, !.source = record] \in Operation
      BY <2>2 DEF Operation, StatusPc
    <2> QED
      BY <2>1, <2>2, <2>3 DEF OwnerCheckIn
  <1>10. ASSUME NEW s \in Server, UpdateCadence(j, s)
         PROVE  TypeOK'
    BY <1>10, ResolvedType DEF UpdateCadence, OwnerCheckIn
  <1>5. CASE SaveRecord(j)
    <2>1. op[j].then \in {"idle", "release", "cleanup"}
      BY DEF Operation
    <2>2. op' \in [Job -> Operation]
      BY <1>5, <2>1 DEF SaveRecord, StatusPc
    <2> QED
      BY <1>5, <2>2 DEF SaveRecord
  <1>6. CASE ReleaseOwned(j)
    <2>1. KeyOf(j) \in Key
      BY <1>6 DEF ReleaseOwned, Doing
    <2>2. reg' \in [Key -> Reservation] /\ stale' \in [Key -> BOOLEAN]
      BY <1>6, <2>1 DEF ReleaseOwned, Remove
    <2>3. op' \in [Job -> Operation]
      <3>1. OpLast(j, "unregister") \/ OpStep(j, "look") \/ OpDone(j)
        BY <1>6 DEF ReleaseOwned
      <3> QED
        BY <3>1, OpLastValues DEF StatusPc
    <2> QED
      BY <1>6, <2>2, <2>3 DEF ReleaseOwned
  <1>7. CASE CleanupFormer(j)
    <2>1. KeyOf(j) \in Key
      BY <1>7 DEF CleanupFormer, Doing
    <2>2. reg' \in [Key -> Reservation] /\ stale' \in [Key -> BOOLEAN]
      BY <1>7, <2>1 DEF CleanupFormer, Remove
    <2>3. op' \in [Job -> Operation]
      <3>1. OpLast(j, "inactive") \/ OpDone(j)
        BY <1>7 DEF CleanupFormer
      <3> QED
        BY <3>1, OpLastValues
    <2> QED
      BY <1>7, <2>2, <2>3 DEF CleanupFormer
  <1>8. CASE Unregister(j)
    <2>1. op' \in [Job -> Operation]
      BY <1>8 DEF Unregister, StatusPc
    <2>2. owned' \in [Server -> SUBSET Key] /\ failed' \in [Server -> SUBSET Key]
      BY <1>8 DEF Unregister
    <2> QED
      BY <1>8, <2>1, <2>2 DEF Unregister
  <1>9. CASE RecordInactive(j)
    <2>1. PICK outcome \in OutcomesRead(j, op[j].write) \cup {op[j].write.outcome} :
            rec' = [rec EXCEPT ![j] =
                        [op[j].write EXCEPT !.active = FALSE, !.outcome = outcome,
                            !.state = IF outcome # 0 THEN "terminal" ELSE @]]
      BY <1>9 DEF RecordInactive
    <2>2. outcome \in Attempt \cup {0}
      BY <2>1
    <2>3. [op[j].write EXCEPT !.active = FALSE, !.outcome = outcome,
                !.state = IF outcome # 0 THEN "terminal" ELSE @] \in Record
      BY <2>2 DEF Record, Lifecycle
    <2> QED
      BY <1>9, <2>1, <2>3 DEF RecordInactive
  <1> QED
    BY <1>1, <1>2, <1>3, <1>4, <1>5, <1>6, <1>7, <1>8, <1>9, <1>10 DEF ManageNext

\* The steps of a retry keep types.
LEMMA RetryType ==
    ASSUME TypeOK, IdsKnown, NEW j \in Job, RetryNext(j)
    PROVE  TypeOK'
  <1> USE NullTypes, PutType, StepType, ReadTypes DEF TypeOK, registry, checkins
  <1>0. op[j].pc # "idle" \/ rec[j].state # "none" => KeyOf(j) \in Key
    BY DEF IdsKnown, JobKnown, LaunchKnown, Unrecorded, CallKnown
  <1>1. ASSUME NEW s \in Server, RetryLook(j, s)
        PROVE  TypeOK'
    <2>1. KeyOf(j) \in Key
      BY <1>0, <1>1 DEF RetryLook, MayChange, MayManage, Serves
    <2>2. PICK a \in Attempt, record \in Resolved(j) :
            op' = [op EXCEPT ![j] =
                    [pc |-> "claim", srv |-> s,
                     write |-> [record EXCEPT !.att = a, !.pid = NoPid],
                     source |-> record, meta |-> reg[KeyOf(j)],
                     then |-> "idle"]]
      BY <1>1 DEF RetryLook
    <2>0. record \in Record
      BY ResolvedType
    <2>3. record \in Record /\ [record EXCEPT !.att = a, !.pid = NoPid] \in Record
      BY <2>0 DEF Record
    <2>4. [pc |-> "claim", srv |-> s,
           write |-> [record EXCEPT !.att = a, !.pid = NoPid],
           source |-> record, meta |-> reg[KeyOf(j)], then |-> "idle"] \in Operation
      BY <2>1, <2>3 DEF Operation, RetryPc
    <2> QED
      BY <1>1, <2>2, <2>4 DEF RetryLook
  <1>2. CASE ClaimRecord(j)
    BY <1>2 DEF ClaimRecord, RetryPc
  <1>3. CASE ClaimMetadata(j)
    <2>1. [reg[KeyOf(j)] EXCEPT !.att = op[j].write.att, !.pid = NoPid] \in Reservation
      BY <1>0, <1>3 DEF ClaimMetadata, Doing, Reservation
    <2>2. op' \in [Job -> Operation]
      BY <1>3 DEF ClaimMetadata, RetryPc
    <2> QED
      BY <1>0, <1>3, <2>1, <2>2 DEF ClaimMetadata, Doing
  <1>4. CASE ClaimFails(j)
    BY <1>4 DEF ClaimFails
  <1>5. CASE RetrySend(j)
    BY <1>5 DEF RetrySend, ProcState, RetryPc
  <1>6. CASE RetryFailsBeforeStart(j)
    BY <1>6 DEF RetryFailsBeforeStart, ProcState, RetryPc
  <1>7. CASE RetryReplyLost(j) \/ RetryAcknowledged(j)
    BY <1>7 DEF RetryReplyLost, RetryAcknowledged, RetryPc
  <1>8. CASE RollbackRecord(j)
    BY <1>8 DEF RollbackRecord, RetryPc
  <1>9. CASE RollbackMetadata(j)
    BY <1>0, <1>9 DEF RollbackMetadata, Doing
  <1>10. CASE FinalizeRecord(j)
    <2>0. RetryProcess(j) \in Process
      BY <1>10 DEF FinalizeRecord, Doing, RetryProcess, Process, IdsKnown, JobKnown, CallKnown, RetryPc
    <2>1. [op[j].write EXCEPT !.pid = RetryProcess(j)] \in Record
      BY <1>10, <2>0 DEF Record
    <2> QED
      BY <1>10, <2>1 DEF FinalizeRecord, RetryPc
  <1>11. CASE FinalizeMetadata(j)
    <2>0. RetryProcess(j) \in Process
      BY <1>11 DEF FinalizeMetadata, Doing, RetryProcess, Process, IdsKnown, JobKnown, CallKnown, RetryPc
    <2>1. [reg[KeyOf(j)] EXCEPT !.pid = RetryProcess(j)] \in Reservation
      BY <1>0, <1>11, <2>0 DEF FinalizeMetadata, Doing, Reservation
    <2> QED
      BY <1>0, <1>11, <2>1 DEF FinalizeMetadata, Doing
  <1> QED
    BY <1>1, <1>2, <1>3, <1>4, <1>5, <1>6, <1>7, <1>8, <1>9, <1>10, <1>11 DEF RetryNext

\* The steps of heartbeats, cleanups, backends and hosts keep types.
LEMMA OtherTypes ==
    ASSUME TypeOK, IdsKnown,
           \/ \E k \in Key : LeaseNext(k)
           \/ \E s \in Server : ServerNext(s)
           \/ \E p \in Process : HostNext(p)
           \/ \E j \in Job : KillSupervisor(j)
    PROVE  TypeOK'
  <1> USE NullTypes, PutType DEF TypeOK, registry, checkins
  <1>1. ASSUME NEW k \in Key, LeaseNext(k)
        PROVE  TypeOK'
    <2>1. ASSUME NEW s \in Server, Heartbeat(s, k) \/ HeartbeatFails(s, k)
          PROVE  TypeOK'
      <3>1. stale' \in [Key -> BOOLEAN]
        BY <2>1 DEF Heartbeat, HeartbeatFails
      <3>2. failed[s] \subseteq Key
        OBVIOUS
      <3>3. failed' = [failed EXCEPT ![s] = @ \ {k}]
              \/ failed' = [failed EXCEPT ![s] = @ \cup {k}]
        BY <2>1 DEF Heartbeat, HeartbeatFails
      <3>4. failed' \in [Server -> SUBSET Key]
        BY <3>2, <3>3
      <3> QED
        BY <2>1, <3>1, <3>4 DEF Heartbeat, HeartbeatFails
    <2>2. ASSUME NEW s \in Server, InspectStale(s, k)
          PROVE  TypeOK'
      <3>1. [key |-> k, seen |-> reg[k]] \in Cleanup
        BY DEF Cleanup
      <3> QED
        BY <2>2, <3>1 DEF InspectStale
    <2>3. CASE Lapse(k)
      BY <2>3 DEF Lapse
    <2> QED
      BY <1>1, <2>1, <2>2, <2>3 DEF LeaseNext
  <1>2. ASSUME NEW s \in Server, ServerNext(s)
        PROVE  TypeOK'
    <2>1. CASE Quarantine(s)
      BY <2>1 DEF Quarantine, Remove, IdsKnown
    <2>2. CASE Start(s)
      BY <2>2 DEF Start
    <2>3. ASSUME NEW how \in {"stopped", "dead"}, Ends(s, how)
          PROVE  TypeOK'
      BY <2>3 DEF Ends, Launch, LaunchPc
    <2> QED
      BY <1>2, <2>1, <2>2, <2>3 DEF ServerNext, Crash, Shutdown
  <1>3. ASSUME NEW p \in Process, NEW from, NEW to \in ProcState, ProcStep(p, from, to)
        PROVE  TypeOK'
    BY <1>3 DEF ProcStep
  <1>4. ASSUME NEW p \in Process, HostNext(p)
        PROVE  TypeOK'
    BY <1>3, <1>4 DEF HostNext, SupervisorStarts, CommandLost, ProgramEnds,
       SupervisorExits, HostLost, OrphanEnds, ProcState
  <1>5. ASSUME NEW j \in Job, KillSupervisor(j)
        PROVE  TypeOK'
    <2>1. rec[j].pid \in Process
      BY <1>5 DEF KillSupervisor, Record
    <2> QED
      BY <1>3, <1>5, <2>1 DEF KillSupervisor, ProcState
  <1> QED
    BY <1>1, <1>2, <1>4, <1>5

-----------------------------------------------------------------------------
(* The ids a step refers to are known: IdsKnown is preserved.               *)

\* A launch step leaves other jobs, calls and cleanups alone.
LEMMA LaunchIds ==
    ASSUME TypeOK, IdsKnown, NEW j \in Job, LaunchNext(j)
    PROVE  IdsKnown'
  <1> DEFINE Known ==
        /\ UNCHANGED <<op, look>>
        /\ \A i \in Job \ {j} : launch'[i] = launch[i] /\ rec'[i] = rec[i]
        /\ LaunchKnown(j)' /\ Unrecorded(j)'
  <1> SUFFICES Known
    BY DEF IdsKnown, JobKnown, LaunchKnown, Unrecorded, CallKnown, KeyOf, OwnerOf
  <1>0. LaunchKnown(j) /\ Unrecorded(j)
    BY DEF IdsKnown, JobKnown
  <1> USE LaunchStepValues
      DEF TypeOK, LaunchKnown, Unrecorded, KeyOf, OwnerOf, Launching
  <1>1. ASSUME NEW s \in Server, NEW k \in Key, LaunchBegin(j, s, k)
        PROVE  Known
    BY <1>0, <1>1 DEF LaunchBegin
  <1>2. CASE LaunchWriteMetadata(j)
    BY <1>0, <1>2 DEF LaunchWriteMetadata
  <1>3. CASE LaunchMetadataFails(j)
    BY <1>0, <1>3 DEF LaunchMetadataFails, NoLaunch
  <1>4. CASE LaunchRecord(j)
    BY <1>0, <1>4 DEF LaunchRecord
  <1>5. CASE LaunchRecordFails(j)
    BY <1>0, <1>5 DEF LaunchRecordFails
  <1>6. CASE LaunchSend(j)
    BY <1>0, <1>6 DEF LaunchSend
  <1>7. CASE LaunchFailsBeforeStart(j)
    BY <1>0, <1>7 DEF LaunchFailsBeforeStart
  <1>8. CASE LaunchReplyLost(j)
    BY <1>0, <1>8 DEF LaunchReplyLost
  <1>9. CASE LaunchAcknowledged(j)
    BY <1>0, <1>9 DEF LaunchAcknowledged
  <1>10. CASE LaunchRecordRunning(j)
    BY <1>0, <1>10 DEF LaunchRecordRunning
  <1>11. CASE LaunchRunningUnrecorded(j)
    BY <1>0, <1>11 DEF LaunchRunningUnrecorded
  <1>12. CASE LaunchRecordPid(j)
    BY <1>0, <1>12 DEF LaunchRecordPid
  <1>13. CASE PrestartRecord(j)
    BY <1>0, <1>13 DEF PrestartRecord
  <1>14. CASE PrestartRelease(j)
    BY <1>0, <1>14 DEF PrestartRelease
  <1>15. CASE PrestartClose(j)
    BY <1>0, <1>15 DEF PrestartClose
  <1> QED
    BY <1>1, <1>2, <1>3, <1>4, <1>5, <1>6, <1>7, <1>8, <1>9, <1>10, <1>11, <1>12,
       <1>13, <1>14, <1>15 DEF LaunchNext

\* A step of a call leaves other jobs, launches and cleanups alone.
LEMMA ManageIds ==
    ASSUME TypeOK, IdsKnown, NEW j \in Job, ManageNext(j) \/ RetryNext(j)
    PROVE  IdsKnown'
  <1> DEFINE Known ==
        /\ UNCHANGED <<launch, look>>
        /\ \A i \in Job \ {j} : op'[i] = op[i] /\ rec'[i] = rec[i]
        /\ launch[j].pc \notin {"idle", "created", "acquired"}
        /\ CallKnown(j)'
  <1> SUFFICES Known
    BY DEF IdsKnown, JobKnown, LaunchKnown, Unrecorded, CallKnown, KeyOf, OwnerOf
  <1>0. Unrecorded(j) /\ CallKnown(j) /\ op[j].then \in {"idle", "release", "cleanup"}
    BY DEF IdsKnown, JobKnown, TypeOK, Operation
  <1> USE OpStepValues, OpLastValues, OpDoneValues
      DEF TypeOK, Unrecorded, CallKnown, Doing, NoOperation, RetryPc
  <1>1. ASSUME NEW s \in Server, StatusLook(j, s)
        PROVE  Known
    BY <1>0, <1>1 DEF StatusLook, StatusWith, Serves
  <1>2. ASSUME NEW s \in Server, RecoverFormer(j, s)
        PROVE  Known
    BY <1>0, <1>2 DEF RecoverFormer, MayManage, Serves
  <1>3. ASSUME NEW s \in Server, FinishLook(j, s)
        PROVE  Known
    BY <1>0, <1>3 DEF FinishLook, MayChange, MayManage, Serves
  <1>4. ASSUME NEW s \in Server, Stop(j, s)
        PROVE  Known
    <2>1. PICK record \in Resolved(j) :
            /\ OwnerCheckIn(j, record)
            /\ op' = [op EXCEPT ![j] = [NoOperation EXCEPT !.pc = "look", !.srv = s,
                                                           !.source = record]]
      BY <1>4 DEF Stop
    <2>2. op'[j].pc = "look" /\ op'[j].srv = s
      BY <2>1
    <2> QED
      BY <1>0, <1>4, <2>1, <2>2 DEF OwnerCheckIn, Stop, MayChange, MayManage, Serves
  <1>23. ASSUME NEW s \in Server, UpdateCadence(j, s)
         PROVE  Known
    BY <1>0, <1>23 DEF UpdateCadence, OwnerCheckIn, MayChange, MayManage, Serves
  <1>5. CASE SaveRecord(j)
    BY <1>0, <1>5 DEF SaveRecord
  <1>6. CASE ReleaseOwned(j)
    BY <1>0, <1>6 DEF ReleaseOwned
  <1>7. CASE CleanupFormer(j)
    BY <1>0, <1>7 DEF CleanupFormer
  <1>8. CASE Unregister(j)
    BY <1>0, <1>8 DEF Unregister
  <1>9. CASE RecordInactive(j)
    BY <1>0, <1>9 DEF RecordInactive
  <1>10. ASSUME NEW s \in Server, RetryLook(j, s)
         PROVE  Known
    <2>1. PICK a \in Attempt, record \in Resolved(j) :
            op' = [op EXCEPT ![j] =
                    [pc |-> "claim", srv |-> s,
                     write |-> [record EXCEPT !.att = a, !.pid = NoPid],
                     source |-> record, meta |-> reg[KeyOf(j)],
                     then |-> "idle"]]
      BY <1>10 DEF RetryLook
    <2>0. record \in Record
      BY ResolvedType
    <2>2. [record EXCEPT !.att = a, !.pid = NoPid].att = a
      BY <2>0 DEF Record
    <2>3. op'[j].write.att \in Attempt /\ op'[j].srv = s
      BY <2>1, <2>2
    <2>4. launch[j].pc \notin {"idle", "created", "acquired"}
      BY <1>0, <1>10 DEF RetryLook, MayChange, MayManage, Serves
    <2> QED
      BY <1>10, <2>1, <2>3, <2>4 DEF RetryLook
  <1>11. CASE ClaimRecord(j)
    BY <1>0, <1>11 DEF ClaimRecord
  <1>12. CASE ClaimMetadata(j)
    BY <1>0, <1>12 DEF ClaimMetadata
  <1>13. CASE ClaimFails(j)
    BY <1>0, <1>13 DEF ClaimFails
  <1>14. CASE RetrySend(j)
    BY <1>0, <1>14 DEF RetrySend
  <1>15. CASE RetryFailsBeforeStart(j)
    BY <1>0, <1>15 DEF RetryFailsBeforeStart
  <1>16. CASE RetryReplyLost(j)
    BY <1>0, <1>16 DEF RetryReplyLost
  <1>17. CASE RetryAcknowledged(j)
    BY <1>0, <1>17 DEF RetryAcknowledged
  <1>18. CASE RollbackRecord(j)
    BY <1>0, <1>18 DEF RollbackRecord
  <1>19. CASE RollbackMetadata(j)
    BY <1>0, <1>19 DEF RollbackMetadata
  <1>20. CASE FinalizeRecord(j)
    BY <1>0, <1>20 DEF FinalizeRecord
  <1>21. CASE FinalizeMetadata(j)
    BY <1>0, <1>21 DEF FinalizeMetadata
  <1> QED
    BY <1>1, <1>2, <1>3, <1>4, <1>5, <1>6, <1>7, <1>8, <1>9, <1>10, <1>11, <1>12,
       <1>13, <1>14, <1>15, <1>16, <1>17, <1>18, <1>19, <1>20, <1>21, <1>23
       DEF ManageNext, RetryNext

\* Heartbeats, cleanups and hosts touch no job; the end of a backend ends its
\* calls.
LEMMA OtherIds ==
    ASSUME TypeOK, IdsKnown,
           \/ \E k \in Key : LeaseNext(k)
           \/ \E s \in Server : ServerNext(s)
           \/ \E p \in Process : HostNext(p)
           \/ \E j \in Job : KillSupervisor(j)
    PROVE  IdsKnown'
  <1> USE DEF IdsKnown, JobKnown, LaunchKnown, Unrecorded, CallKnown, KeyOf, OwnerOf, TypeOK
  <1>1. ASSUME NEW k \in Key, LeaseNext(k)
        PROVE  IdsKnown'
    BY <1>1 DEF LeaseNext, Heartbeat, HeartbeatFails, InspectStale, Lapse
  <1>2. ASSUME NEW s \in Server, Quarantine(s) \/ Start(s)
        PROVE  IdsKnown'
    BY <1>2 DEF Quarantine, Start, NoCleanup
  <1>3. ASSUME NEW s \in Server, NEW how, Ends(s, how)
        PROVE  IdsKnown'
    <2>1. ASSUME NEW i \in Job
          PROVE  JobKnown(i)'
      <3>1. JobKnown(i)
        OBVIOUS
      <3>2. OwnerOf(i) = s => launch[i].pc # "idle"
        BY <3>1, ConstantsAssumption DEF NoLaunch
      <3> QED
        BY <1>3, <3>1, <3>2, EndsValues DEF Ends, NoOperation, RetryPc
    <2> QED
      BY <1>3, <2>1 DEF Ends, NoCleanup
  <1>4. ASSUME NEW p \in Process, HostNext(p)
        PROVE  IdsKnown'
    BY <1>4 DEF HostNext, ProcStep, SupervisorStarts, CommandLost, ProgramEnds,
       SupervisorExits, HostLost, OrphanEnds
  <1>5. ASSUME NEW j \in Job, KillSupervisor(j)
        PROVE  IdsKnown'
    BY <1>5 DEF KillSupervisor, ProcStep
  <1> QED
    BY <1>1, <1>2, <1>3, <1>4, <1>5 DEF ServerNext, Crash, Shutdown

\* TypeOK and IdsKnown are inductive together.
LEMMA TypeStep ==
    ASSUME TypeOK, IdsKnown, [Next]_vars
    PROVE  TypeOK' /\ IdsKnown'
  <1>1. CASE UNCHANGED vars
    BY <1>1 DEF vars, TypeOK, IdsKnown, JobKnown, LaunchKnown, Unrecorded, CallKnown,
       KeyOf, OwnerOf
  <1>2. CASE Next
    BY <1>2, LaunchType, ManageType, RetryType, OtherTypes, LaunchIds, ManageIds,
       OtherIds DEF Next
  <1> QED
    BY <1>1, <1>2

\* Every variable always has its type, and every launch, call and cleanup names
\* a real backend and GPU.
THEOREM TypeCorrect == Spec => [](TypeOK /\ IdsKnown)
  <1>1. Init => TypeOK
    BY NullTypes DEF Init, TypeOK, ProcState
  <1>2. Init => IdsKnown
    BY DEF Init, IdsKnown, JobKnown, LaunchKnown, Unrecorded, CallKnown,
       NoLaunch, NoRecord, NoOperation, NoCleanup, RetryPc
  <1> QED
    BY <1>1, <1>2, TypeStep, PTL DEF Spec

=============================================================================
