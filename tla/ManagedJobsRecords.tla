-------------------------- MODULE ManagedJobsRecords ---------------------------
(***************************************************************************)
(* Bookings, calls and records agree, for any number of backends, GPUs,    *)
(* jobs and attempts. OwnerInv says whose a booking and a call are: nobody *)
(* but its live owner touches a fresh booking. RecInv says what a record,  *)
(* and the copies that calls under way are to save, know of the booking:   *)
(* inactive means released, a result is saved before the GPU is freed and  *)
(* kept from then on, and a backend that stops leaves no booking.          *)
(*                                                                         *)
(* Each part of RecInv names the faults it does not bear (Readable, Late,  *)
(* Untorn), so that a theorem assumes no more of them than it needs.       *)
(***************************************************************************)
EXTENDS ManagedJobsProofs

-----------------------------------------------------------------------------
(* What bookings, calls and records know of each other.                     *)

\* What can go wrong with a record: metadata that cannot be read, a session
\* that manages a job before its launch has returned, a retry that cannot put
\* back what it has written.
Readable == "unreadable" \notin Faults
Late == "early" \notin Faults
Untorn == "torn" \notin Faults

\* The booking of job j's GPU is the job's own.
Mine(j) == KeyOf(j) \in Key /\ reg[KeyOf(j)].dir = "held" /\ reg[KeyOf(j)].job = j

\* Bookings and calls belong to backends: a booking to the one that launched
\* its job, a call to one that is up, a retry to both.
OwnerSound(j) ==
    /\ launch[j].pc # "idle" => inst[OwnerOf(j)] # "new"
    /\ Mine(j) => reg[KeyOf(j)].srv = OwnerOf(j)
    /\ op[j].pc # "idle" => inst[op[j].srv] = "up"
    /\ op[j].pc \in RetryPc => op[j].srv = OwnerOf(j) /\ op[j].meta.srv = OwnerOf(j)
OwnerInv == \A j \in Job : OwnerSound(j)

\* A record that says inactive is right about the attempt it names.
TrueOf(j, r) == Readable /\ ~r.active => ~(Mine(j) /\ reg[KeyOf(j)].att = r.att)

\* A result of the attempt that the record names is in a copy of it too.
Saves(j, r) == rec[j].outcome # 0 /\ rec[j].outcome = rec[j].att => r.outcome = rec[j].outcome

\* What the launch of a job has left in its record.
Unfinished == {"recorded", "sent", "started", "prestart"}
Releasing == {"releasing", "forgetting", "keeping", "closing"}
LaunchSaved(j) ==
    LET pc == launch[j].pc IN
    /\ rec[j].state = "none" => rec[j] = NoRecord
    /\ pc \in {"running"} \cup Unfinished \cup Releasing =>
          rec[j].state # "none" /\ rec[j].att = 1
    /\ Late /\ pc \in Unfinished => rec[j] = FirstRecord /\ op[j].pc = "idle"
    /\ Readable => pc # "closing"
    /\ Late /\ pc \in Releasing =>
          /\ rec[j].state = "terminal" /\ rec[j].outcome = 1
          /\ op[j].pc \in {"idle", "save"}
          /\ op[j].pc = "save" => op[j].write.state = "terminal" /\ op[j].then = "idle"

\* A finish that has yet to free the GPU, and may end with a status answer.
ToFinish(j) ==
    \/ op[j].pc = "release" /\ op[j].write.state = "finished"
    \/ op[j].pc = "save" /\ op[j].then = "release" /\ op[j].write.state = "finished"

\* A status answer saves a copy of the record, and so does what follows it.
CallSaves(j) ==
    LET pc == op[j].pc w == op[j].write IN
    /\ pc \in StatusPc => rec[j].state # "none"
    /\ pc \in StatusPc \ {"look"} =>
          w.state # "none" /\ w.att = rec[j].att /\ (Late => Saves(j, w))
    /\ pc = "save" => TrueOf(j, w)
    /\ pc = "save" /\ op[j].then = "release" => w.state \in {"terminal", "finished"}
    /\ Late /\ pc = "release" => rec[j].state \in {"terminal", "finished"}
    /\ pc \in {"unregister", "inactive"} => ~Mine(j)

\* The record a call goes on from when it ends with a status answer.
CallReturns(j) ==
    LET source == op[j].source IN
    op[j].pc = "look" \/ ToFinish(j) =>
        /\ source.state # "none" /\ source.att = rec[j].att /\ TrueOf(j, source)
        /\ Late => Saves(j, source)
        /\ op[j].pc # "look" => source.outcome = op[j].write.outcome

\* A retry has the record of the former attempt, and then of the new one.
RetrySaves(j) ==
    LET pc == op[j].pc w == op[j].write source == op[j].source IN
    pc \in RetryPc =>
        /\ w.state # "none" /\ source.state # "none"
        /\ Readable => w.active /\ source.active /\ rec[j].active
        /\ source.att = op[j].meta.att /\ w.att # source.att
        /\ rec[j].state # "none"
        /\ pc \in {"claim", "rolledback"} => rec[j].att = source.att
        /\ pc \in {"claimed", "spawn", "sent", "rollback", "finalize"} => rec[j] = w
        /\ pc = "finalized" => rec[j].att = w.att

\* The record of a live backend's job names the attempt that is booked, but
\* between the two writes of a launch or a retry.
Recorded(j) ==
    /\ Mine(j) /\ inst[OwnerOf(j)] = "up"
    /\ launch[j].pc # "acquired" /\ op[j].pc \notin {"claimed", "rolledback"}
    => rec[j].state # "none" /\ rec[j].att = reg[KeyOf(j)].att

RecordSound(j) ==
    /\ LaunchSaved(j) /\ CallSaves(j) /\ CallReturns(j) /\ RetrySaves(j)
    /\ rec[j].state # "none" => TrueOf(j, rec[j])
    /\ Untorn => Recorded(j)
    /\ Untorn /\ Readable /\ Mine(j) => inst[OwnerOf(j)] # "stopped"
RecInv == \A j \in Job : RecordSound(j)

-----------------------------------------------------------------------------
(* Whose bookings and calls they are.                                       *)

\* A step of one job's launch or call disturbs no other job's owner.
LEMMA OwnerOthers ==
    ASSUME TypeOK, OwnerInv, NEW j \in Job, Acts(j), NEW i \in Job \ {j}
    PROVE  OwnerSound(i)'
  <1>0. OwnerSound(i)
    BY DEF OwnerInv
  <1>1. launch'[i] = launch[i] /\ op'[i] = op[i] /\ UNCHANGED inst
    BY DEF Acts
  <1>2. Mine(i)' => Mine(i) /\ reg'[KeyOf(i)] = reg[KeyOf(i)]
    <2>1. CASE UNCHANGED reg
      BY <1>1, <2>1 DEF Mine, KeyOf
    <2>2. ASSUME NEW k \in Key, Writes(j, k)
          PROVE  Mine(i)' => Mine(i) /\ reg'[KeyOf(i)] = reg[KeyOf(i)]
      BY <1>1, <2>2 DEF Mine, KeyOf, Writes
    <2> QED
      BY <2>1, <2>2 DEF Acts
  <1> QED
    BY <1>0, <1>1, <1>2 DEF OwnerSound, KeyOf, OwnerOf

\* A launch books its GPU for its own backend.
LEMMA OwnerLaunch ==
    ASSUME TypeOK, LeaseInv, OwnerInv, NEW j \in Job, LaunchNext(j)
    PROVE  OwnerSound(j)'
  <1>0. OwnerSound(j) /\ LaunchKnown(j) /\ LaunchSound(j)
    BY DEF OwnerInv, LeaseInv, IdsKnown, JobKnown, JobSound
  <1>1. UNCHANGED <<inst, op>>
    BY DEF LaunchNext, LaunchBegin, LaunchWriteMetadata, LaunchMetadataFails, LaunchRecord,
       LaunchRecordFails, LaunchSend, LaunchFailsBeforeStart, LaunchReplyLost,
       LaunchAcknowledged, LaunchRecordRunning, LaunchRunningUnrecorded,
       LaunchRecordPid, PrestartRecord, PrestartRelease, PrestartClose
  <1>c. op[j].pc \in RetryPc => launch[j].pc = "done"
    BY DEF LeaseInv, JobSound, CallSound
  <1>2. ASSUME NEW s \in Server, NEW k \in Key, LaunchBegin(j, s, k)
        PROVE  OwnerSound(j)'
    <2>1. launch'[j] = [pc |-> "created", srv |-> s, key |-> k] /\ inst[s] = "up"
      BY <1>2 DEF LaunchBegin, TypeOK
    <2>2. reg'[k] = Empty
      BY <1>2, PutValues DEF LaunchBegin
    <2>3. KeyOf(j)' = k /\ OwnerOf(j)' = s
      BY <2>1 DEF KeyOf, OwnerOf
    <2>4. ~Mine(j)'
      BY <2>2, <2>3 DEF Mine, Empty, Absent
    <2>5. launch[j].pc = "idle"
      BY <1>2 DEF LaunchBegin
    <2> QED
      BY <1>0, <1>1, <1>c, <2>1, <2>3, <2>4, <2>5 DEF OwnerSound
  <1>3. ASSUME launch[j].pc # "idle", \E pc : LaunchStep(j, pc),
               Mine(j)' => reg'[KeyOf(j)].srv = OwnerOf(j)
        PROVE  OwnerSound(j)'
    <2>1. KeyOf(j)' = KeyOf(j) /\ OwnerOf(j)' = OwnerOf(j)
      BY <1>3, LaunchStepValues DEF KeyOf, OwnerOf
    <2> QED
      BY <1>0, <1>1, <1>3, <2>1 DEF OwnerSound
  <1>4. ASSUME UNCHANGED reg, launch[j].pc # "idle", \E pc : LaunchStep(j, pc)
        PROVE  OwnerSound(j)'
    <2>1. KeyOf(j)' = KeyOf(j)
      BY <1>4, LaunchStepValues DEF KeyOf
    <2> QED
      BY <1>0, <1>3, <1>4, <2>1 DEF OwnerSound, Mine
  <1>5. ASSUME Remove(KeyOf(j)), launch[j].pc # "idle", \E pc : LaunchStep(j, pc)
        PROVE  OwnerSound(j)'
    <2>1. KeyOf(j)' = KeyOf(j) /\ KeyOf(j) \in Key
      BY <1>0, <1>5, LaunchStepValues DEF KeyOf, LaunchKnown
    <2>2. reg'[KeyOf(j)] = Absent
      BY <1>5, <2>1, PutValues DEF Remove
    <2> QED
      BY <1>3, <1>5, <2>1, <2>2 DEF Mine, Absent
  <1>6. CASE LaunchWriteMetadata(j)
    <2>1. KeyOf(j) \in Key /\ launch[j].pc # "idle" /\ LaunchStep(j, "acquired")
      BY <1>0, <1>6 DEF LaunchWriteMetadata, Launching, LaunchKnown
    <2>2. reg'[KeyOf(j)].srv = OwnerOf(j)
      BY <1>6, <2>1, PutValues DEF LaunchWriteMetadata
    <2> QED
      BY <1>3, <2>1, <2>2
  <1>7. CASE LaunchMetadataFails(j)
    <2>1. launch'[j] = NoLaunch
      BY <1>7 DEF LaunchMetadataFails, TypeOK
    <2>2. launch'[j].pc = "idle" /\ KeyOf(j)' = NoKey /\ launch[j].pc = "created"
      BY <1>7, <2>1 DEF KeyOf, NoLaunch, LaunchMetadataFails, Launching
    <2>3. ~Mine(j)'
      BY <2>2, ConstantsAssumption DEF Mine
    <2> QED
      BY <1>0, <1>1, <1>c, <2>2, <2>3 DEF OwnerSound
  <1>8. CASE LaunchRecordPid(j)
    <2>1. launch[j].pc # "idle" /\ LaunchStep(j, "done") /\ KeyOf(j) \in Key
      BY <1>0, <1>8 DEF LaunchRecordPid, Launching, LaunchKnown
    <2>2. CASE UNCHANGED reg
      BY <1>4, <2>1, <2>2
    <2>3. CASE ~UNCHANGED reg
      <3>1. /\ MergeAllowed(OwnerOf(j), KeyOf(j))
            /\ Put(KeyOf(j), [reg[KeyOf(j)] EXCEPT !.pid = <<j, 1>>])
        BY <1>8, <2>3 DEF LaunchRecordPid, registry
      <3>2. reg'[KeyOf(j)] = [reg[KeyOf(j)] EXCEPT !.pid = <<j, 1>>]
        BY <2>1, <3>1, PutValues
      <3>3. reg'[KeyOf(j)].srv = OwnerOf(j)
        BY <2>1, <3>1, <3>2 DEF MergeAllowed, TypeOK, Reservation
      <3> QED
        BY <1>3, <2>1, <3>3
    <2> QED
      BY <2>2, <2>3
  <1>9. CASE LaunchRecordFails(j)
    BY <1>5, <1>9 DEF LaunchRecordFails, Launching
  <1>10. CASE PrestartRelease(j)
    BY <1>4, <1>5, <1>10 DEF PrestartRelease, Launching, registry
  <1>11. CASE PrestartClose(j)
    BY <1>4, <1>11 DEF PrestartClose, registry
  <1>12. CASE \/ LaunchRecord(j) \/ LaunchSend(j) \/ LaunchFailsBeforeStart(j)
              \/ LaunchReplyLost(j) \/ LaunchAcknowledged(j) \/ LaunchRecordRunning(j)
              \/ LaunchRunningUnrecorded(j) \/ PrestartRecord(j)
    BY <1>4, <1>12 DEF LaunchRecord, LaunchSend, LaunchFailsBeforeStart, LaunchReplyLost,
       LaunchAcknowledged, LaunchRecordRunning, LaunchRunningUnrecorded, PrestartRecord,
       Launching, registry
  <1> QED
    BY <1>2, <1>6, <1>7, <1>8, <1>9, <1>10, <1>11, <1>12 DEF LaunchNext

\* A status answer, a finish or a recovery is its own backend's.
LEMMA OwnerManage ==
    ASSUME TypeOK, LeaseInv, OwnerInv, NEW j \in Job, ManageNext(j)
    PROVE  OwnerSound(j)'
  <1>0. OwnerSound(j) /\ op[j].pc \in {"idle"} \cup StatusPc \cup RetryPc
    BY DEF OwnerInv, TypeOK, Operation
  <1>1. UNCHANGED <<inst, launch>>
    BY ManageActs DEF Acts
  <1>2. Mine(j)' => Mine(j) /\ reg'[KeyOf(j)] = reg[KeyOf(j)]
    <2>1. UNCHANGED reg \/ Remove(KeyOf(j))
      BY DEF ManageNext, StatusLook, StatusWith, RecoverFormer, FinishLook, Stop, UpdateCadence,
       OwnerCheckIn, SaveRecord, ReleaseOwned, CleanupFormer, Unregister, RecordInactive, registry
    <2>2. CASE UNCHANGED reg
      BY <1>1, <2>2 DEF Mine, KeyOf
    <2>3. ASSUME Remove(KeyOf(j)), KeyOf(j) \in Key
          PROVE  ~Mine(j)'
      BY <1>1, <2>3, PutValues DEF Remove, Mine, KeyOf, Absent
    <2>4. ASSUME KeyOf(j) \notin Key
          PROVE  ~Mine(j)'
      BY <1>1, <2>4 DEF Mine, KeyOf
    <2> QED
      BY <2>1, <2>2, <2>3, <2>4
  <1>3. ASSUME op'[j].pc # "idle" => inst[op'[j].srv] = "up", op'[j].pc \notin RetryPc
        PROVE  OwnerSound(j)'
    BY <1>0, <1>1, <1>2, <1>3 DEF OwnerSound, KeyOf, OwnerOf
  <1>4. ASSUME NEW s \in Server, StatusLook(j, s)
        PROVE  OwnerSound(j)'
    <2>1. PICK record, verdict, outcome : StatusWith(j, s, record, verdict, outcome)
      BY <1>4 DEF StatusLook
    <2>2. op'[j].pc = "save" /\ op'[j].srv = s /\ inst[s] = "up"
      BY <1>4, <2>1 DEF StatusLook, StatusWith, Serves, TypeOK
    <2> QED
      BY <1>3, <2>2 DEF RetryPc
  <1>5. ASSUME NEW s \in Server, FinishLook(j, s) \/ Stop(j, s)
        PROVE  OwnerSound(j)'
    <2>0. inst[s] = "up"
      BY <1>5 DEF FinishLook, Stop, MayChange, MayManage, Serves
    <2>1. op'[j].pc \in {"save", "look"} /\ op'[j].srv = s /\ inst[s] = "up"
      <3>1. FinishLook(j, s) => op'[j].pc = "save" /\ op'[j].srv = s
        BY DEF FinishLook, TypeOK
      <3>2. Stop(j, s) => op'[j].pc = "look" /\ op'[j].srv = s
        BY DEF Stop, TypeOK, NoOperation
      <3> QED
        BY <1>5, <2>0, <3>1, <3>2
    <2> QED
      BY <1>3, <2>1 DEF RetryPc
  <1>6. ASSUME NEW s \in Server, RecoverFormer(j, s) \/ UpdateCadence(j, s)
        PROVE  OwnerSound(j)'
    <2>1. UNCHANGED op /\ op[j].pc = "idle"
      BY <1>6 DEF RecoverFormer, UpdateCadence, MayChange, MayManage
    <2> QED
      BY <1>3, <2>1 DEF RetryPc
  <1>7. ASSUME OpDone(j)
        PROVE  OwnerSound(j)'
    BY <1>3, <1>7, OpDoneValues DEF NoOperation, RetryPc
  <1>8. ASSUME NEW pc \in StatusPc, OpStep(j, pc) \/ OpLast(j, pc), op[j].pc # "idle"
        PROVE  OwnerSound(j)'
    <2>1. op'[j].pc = pc /\ op'[j].srv = op[j].srv
      BY <1>8, OpStepValues, OpLastValues
    <2> QED
      BY <1>0, <1>3, <1>8, <2>1 DEF OwnerSound, RetryPc, StatusPc
  <1>9. CASE SaveRecord(j)
    <2>1. op[j].then # "idle" => op[j].then \in StatusPc
      BY ReadTypes DEF Operation, StatusPc
    <2> QED
      BY <1>7, <1>8, <1>9, <2>1 DEF SaveRecord, Doing
  <1>10. CASE ReleaseOwned(j)
    BY <1>7, <1>8, <1>10 DEF ReleaseOwned, Doing, StatusPc
  <1>11. CASE CleanupFormer(j)
    <2>1. OpDone(j) \/ OpLast(j, "inactive")
      BY <1>11 DEF CleanupFormer
    <2> QED
      BY <1>7, <1>8, <1>11, <2>1 DEF CleanupFormer, Doing, StatusPc
  <1>12. CASE Unregister(j)
    BY <1>8, <1>12 DEF Unregister, Doing, StatusPc
  <1>13. CASE RecordInactive(j)
    BY <1>7, <1>13 DEF RecordInactive
  <1> QED
    BY <1>4, <1>5, <1>6, <1>9, <1>10, <1>11, <1>12, <1>13 DEF ManageNext

\* A retry is that of the backend that holds the booking.
LEMMA OwnerRetry ==
    ASSUME TypeOK, LeaseInv, OwnerInv, NEW j \in Job, RetryNext(j)
    PROVE  OwnerSound(j)'
  <1>0. OwnerSound(j)
    BY DEF OwnerInv
  <1>1. UNCHANGED <<inst, launch>>
    BY RetryActs DEF Acts
  <1>2. ASSUME op[j].pc \in RetryPc,
               OpDone(j) \/ (\E pc : OpStep(j, pc)),
               Mine(j)' => reg'[KeyOf(j)].srv = OwnerOf(j)
        PROVE  OwnerSound(j)'
    <2>1. inst[op[j].srv] = "up" /\ op[j].srv = OwnerOf(j) /\ op[j].meta.srv = OwnerOf(j)
      BY <1>0, <1>2 DEF OwnerSound, RetryPc
    <2>2. op'[j].pc = "idle" \/ (op'[j].srv = op[j].srv /\ op'[j].meta = op[j].meta)
      BY <1>2, OpDoneValues, OpStepValues DEF NoOperation
    <2> QED
      BY <1>0, <1>1, <1>2, <2>1, <2>2 DEF OwnerSound, KeyOf, OwnerOf, RetryPc
  <1>3. ASSUME op[j].pc \in RetryPc, OpDone(j) \/ (\E pc : OpStep(j, pc)), UNCHANGED reg
        PROVE  OwnerSound(j)'
    <2>1. Mine(j)' => reg'[KeyOf(j)].srv = OwnerOf(j)
      BY <1>0, <1>1, <1>3 DEF OwnerSound, Mine, KeyOf, OwnerOf
    <2> QED
      BY <1>2, <1>3, <2>1
  <1>4. ASSUME NEW r, op[j].pc \in RetryPc, OpDone(j) \/ (\E pc : OpStep(j, pc)),
               Put(KeyOf(j), r), r.srv = OwnerOf(j)
        PROVE  OwnerSound(j)'
    <2>1. KeyOf(j) \in Key
      BY <1>4, RetryKnows
    <2>2. Mine(j)' => reg'[KeyOf(j)].srv = OwnerOf(j)
      BY <1>4, <2>1, PutValues
    <2> QED
      BY <1>2, <1>4, <2>2
  <1>5. ASSUME NEW s \in Server, RetryLook(j, s)
        PROVE  OwnerSound(j)'
    <2>1. /\ MayManage(s, j) /\ Owns(s, KeyOf(j)) /\ reg[KeyOf(j)].job = j
          /\ UNCHANGED <<inst, launch, reg>>
      BY <1>5 DEF RetryLook, MayChange, registry
    <2>2. s = OwnerOf(j) /\ reg[KeyOf(j)].srv = s /\ inst[s] = "up"
      BY <1>0, <2>1, ManagedKey DEF OwnerSound, Mine, Owns, MayManage, Serves
    <2>3. op'[j].srv = s /\ op'[j].meta = reg[KeyOf(j)]
      BY <1>5 DEF RetryLook, TypeOK
    <2> QED
      BY <1>0, <2>1, <2>2, <2>3 DEF OwnerSound, Mine, KeyOf, OwnerOf
  <1>6. CASE ClaimRecord(j) \/ ClaimFails(j) \/ RetrySend(j) \/ RetryFailsBeforeStart(j)
             \/ RetryReplyLost(j) \/ RetryAcknowledged(j) \/ RollbackRecord(j)
             \/ FinalizeRecord(j)
    BY <1>3, <1>6 DEF ClaimRecord, ClaimFails, RetrySend, RetryFailsBeforeStart, RetryReplyLost,
       RetryAcknowledged, RollbackRecord, FinalizeRecord, Doing, RetryPc, registry
  <1>7. CASE ClaimMetadata(j)
    <2>1. op[j].pc = "claimed" /\ op[j].pc \in RetryPc /\ OpStep(j, "spawn")
      BY <1>7 DEF ClaimMetadata, Doing, RetryPc
    <2> DEFINE r == [reg[KeyOf(j)] EXCEPT !.att = op[j].write.att, !.pid = NoPid]
    <2>2. reg[KeyOf(j)] = op[j].meta /\ op[j].meta.srv = OwnerOf(j)
      BY <1>0, <2>1, RetryKnows DEF CallSound, OwnerSound
    <2>3. r.srv = OwnerOf(j)
      BY <2>1, <2>2, RetryKnows DEF TypeOK, Reservation
    <2>4. Put(KeyOf(j), r)
      BY <1>7 DEF ClaimMetadata
    <2> HIDE DEF r
    <2> QED
      BY <1>4, <2>1, <2>3, <2>4
  <1>8. CASE RollbackMetadata(j)
    <2>1. op[j].pc \in RetryPc /\ OpDone(j)
      BY <1>8 DEF RollbackMetadata, Doing, RetryPc
    <2>2. op[j].meta.srv = OwnerOf(j)
      BY <1>0, <2>1 DEF OwnerSound
    <2> QED
      BY <1>3, <1>4, <1>8, <2>1, <2>2 DEF RollbackMetadata, registry
  <1>9. CASE FinalizeMetadata(j)
    <2>1. op[j].pc = "finalized" /\ op[j].pc \in RetryPc /\ OpDone(j)
      BY <1>9 DEF FinalizeMetadata, Doing, RetryPc
    <2> DEFINE r == [reg[KeyOf(j)] EXCEPT !.pid = RetryProcess(j)]
    <2>2. Booked(j, op[j].write.att) /\ KeyOf(j) \in Key
      BY <2>1, RetryKnows DEF CallSound, CallHolds, BookedNoPid
    <2>3. reg[KeyOf(j)].srv = OwnerOf(j)
      BY <1>0, <2>2 DEF Booked, OwnerSound, Mine
    <2>4. r.srv = OwnerOf(j)
      BY <2>2, <2>3 DEF TypeOK, Reservation
    <2>5. UNCHANGED reg \/ Put(KeyOf(j), r)
      BY <1>9 DEF FinalizeMetadata, registry
    <2> HIDE DEF r
    <2> QED
      BY <1>3, <1>4, <2>1, <2>4, <2>5
  <1> QED
    BY <1>5, <1>6, <1>7, <1>8, <1>9 DEF RetryNext

\* A step that leaves launches and calls alone, and writes no booking but to
\* give it up, disturbs nobody's owner.
LEMMA OwnerStill ==
    ASSUME TypeOK, OwnerInv, UNCHANGED <<inst, launch, op>>,
           UNCHANGED reg \/ \E k \in Key : Remove(k)
    PROVE  OwnerInv'
  <1> SUFFICES ASSUME NEW j \in Job
               PROVE  OwnerSound(j)'
    BY DEF OwnerInv
  <1>1. Mine(j)' => Mine(j) /\ reg'[KeyOf(j)] = reg[KeyOf(j)]
    BY PutValues DEF Remove, Mine, KeyOf, Absent
  <1> QED
    BY <1>1 DEF OwnerInv, OwnerSound, KeyOf, OwnerOf

\* A backend that starts or ends is nobody's but of its own bookings and calls.
LEMMA OwnerServers ==
    ASSUME TypeOK, LeaseInv, OwnerInv, NEW s \in Server, ServerNext(s)
    PROVE  OwnerInv'
  <1>1. CASE Quarantine(s)
    <2>1. look[s].key \in Key
      BY <1>1 DEF Quarantine, LeaseInv, IdsKnown
    <2> QED
      BY <1>1, <2>1, OwnerStill DEF Quarantine, registry
  <1>2. ASSUME Start(s), NEW j \in Job
        PROVE  OwnerSound(j)'
    BY <1>2 DEF Start, TypeOK, OwnerInv, OwnerSound, Mine, KeyOf, OwnerOf, registry
  <1>3. ASSUME NEW how \in {"dead", "stopped"}, Ends(s, how), NEW j \in Job
        PROVE  OwnerSound(j)'
    <2>0. OwnerSound(j) /\ LaunchKnown(j)
      BY DEF OwnerInv, LeaseInv, IdsKnown, JobKnown
    <2>1. UNCHANGED reg /\ \A t \in Server : inst'[t] = IF t = s THEN how ELSE inst[t]
      BY <1>3 DEF Ends, TypeOK, registry
    <2>2. KeyOf(j)' = KeyOf(j) /\ OwnerOf(j)' = OwnerOf(j)
      BY <1>3, EndsValues DEF KeyOf, OwnerOf
    <2>3. launch'[j].pc # "idle" => inst'[OwnerOf(j)] # "new"
      <3>1. launch[j].pc # "idle" => OwnerOf(j) \in Server
        BY <2>0 DEF LaunchKnown
      <3>2. launch'[j].pc # "idle" => launch[j].pc # "idle"
        <4>1. launch'[j] = launch[j] \/ launch[j].srv = s
          BY <1>3, EndsValues
        <4> QED
          BY <2>0, <4>1, ConstantsAssumption DEF LaunchKnown, NoLaunch
      <3> QED
        BY <2>0, <2>1, <3>1, <3>2 DEF OwnerSound
    <2>4. op'[j] = IF op[j].srv = s THEN NoOperation ELSE op[j]
      BY <1>3 DEF Ends
    <2>5. op'[j].pc # "idle" => op'[j] = op[j] /\ op[j].srv \in Server /\ inst'[op[j].srv] = "up"
      BY <2>0, <2>1, <2>4, ManagedKey DEF OwnerSound, NoOperation
    <2>6. (op[j].pc \in RetryPc)' => op[j].pc \in RetryPc /\ op'[j] = op[j]
      BY <2>5 DEF RetryPc
    <2>7. Mine(j)' = Mine(j)
      BY <2>1, <2>2 DEF Mine
    <2> QED
      BY <2>0, <2>1, <2>2, <2>3, <2>5, <2>6, <2>7 DEF OwnerSound
  <1> QED
    BY <1>1, <1>2, <1>3 DEF ServerNext, Crash, Shutdown, OwnerInv

\* Every step leaves bookings and calls with their backends.
LEMMA OwnerStep ==
    ASSUME TypeOK, LeaseInv, OwnerInv, [Next]_vars
    PROVE  OwnerInv'
  <1>1. CASE UNCHANGED vars
    BY <1>1, OwnerStill DEF vars
  <1>2. ASSUME NEW j \in Job, LaunchNext(j) \/ ManageNext(j) \/ RetryNext(j)
        PROVE  OwnerInv'
    <2>1. OwnerSound(j)'
      BY <1>2, OwnerLaunch, OwnerManage, OwnerRetry
    <2>2. Acts(j)
      BY <1>2, LaunchActs, ManageActs, RetryActs
    <2> QED
      BY <2>1, <2>2, OwnerOthers DEF OwnerInv
  <1>3. ASSUME NEW k \in Key, LeaseNext(k)
        PROVE  OwnerInv'
    BY <1>3, OwnerStill DEF LeaseNext, Heartbeat, HeartbeatFails, InspectStale, Lapse, registry
  <1>4. ASSUME NEW p \in Process, HostNext(p)
        PROVE  OwnerInv'
    BY <1>4, OwnerStill DEF HostNext, SupervisorStarts, CommandLost, ProgramEnds,
       SupervisorExits, HostLost, OrphanEnds, ProcStep, registry
  <1>5. ASSUME NEW j \in Job, KillSupervisor(j)
        PROVE  OwnerInv'
    BY <1>5, OwnerStill DEF KillSupervisor, ProcStep, registry
  <1> QED
    BY <1>1, <1>2, <1>3, <1>4, <1>5, OwnerServers DEF Next

\* Bookings and calls belong to backends as OwnerSound says, whatever fails.
THEOREM OwnersKept ==
    ASSUME NoMisread
    PROVE  Spec => [](TypeOK /\ LeaseInv /\ OwnerInv)
  <1>1. Init => OwnerInv
    BY ConstantsAssumption DEF Init, OwnerInv, OwnerSound, Mine, KeyOf, NoLaunch, NoOperation, RetryPc
  <1>2. TypeOK /\ LeaseInv /\ OwnerInv /\ [Next]_vars => OwnerInv'
    BY OwnerStep
  <1> QED
    BY <1>1, <1>2, LeaseInvariant, PTL DEF Spec

-----------------------------------------------------------------------------
(* Who changes a booking that has checked in recently.                      *)

\* A launch that changes a booking is that of its owner.
LEMMA LaunchWrites ==
    ASSUME TypeOK, LeaseInv, OwnerInv, NEW j \in Job, LaunchNext(j), NEW k \in Key,
           reg[k].dir = "held", ~SameBooking(k)
    PROVE  inst[reg[k].srv] = "up"
  <1>0. LaunchKnown(j) /\ LaunchSound(j)
    BY DEF LeaseInv, IdsKnown, JobKnown, JobSound
  <1>1. /\ launch[j].pc \in {"created"} \cup LaunchHolds /\ inst[OwnerOf(j)] = "up"
        /\ \E r : Put(KeyOf(j), r)
    <2>1. ASSUME NEW s \in Server, NEW l \in Key
          PROVE  ~LaunchBegin(j, s, l)
      BY PutValues DEF LaunchBegin, SameBooking
    <2> QED
      BY <2>1 DEF LaunchNext, LaunchWriteMetadata, LaunchMetadataFails, LaunchRecord,
         LaunchRecordFails, LaunchSend, LaunchFailsBeforeStart, LaunchReplyLost, LaunchAcknowledged,
         LaunchRecordRunning, LaunchRunningUnrecorded, LaunchRecordPid, PrestartRecord,
         PrestartRelease, PrestartClose, Launching, LaunchHolds, Remove, registry, SameBooking
  <1>2. KeyOf(j) \in Key
    BY <1>0, <1>1 DEF LaunchKnown, LaunchHolds
  <1>3. k = KeyOf(j)
    BY <1>1, <1>2, PutValues DEF SameBooking
  <1>4. launch[j].pc # "created"
    BY <1>0, <1>3 DEF LaunchSound, Empty, Absent
  <1> QED
    BY <1>0, <1>1, <1>3, <1>4 DEF LaunchSound

\* A status answer or a finish that changes one is its owner's, or finds it stale.
LEMMA ManageWrites ==
    ASSUME TypeOK, LeaseInv, OwnerInv, NEW j \in Job, ManageNext(j), NEW k \in Key,
           ~stale[k], ~SameBooking(k)
    PROVE  inst[reg[k].srv] = "up"
  <1>1. (Remove(KeyOf(j)) /\ ReleaseOwned(j)) \/ (Remove(KeyOf(j)) /\ CleanupFormer(j))
    <2>1. ReleaseOwned(j) \/ CleanupFormer(j)
      BY DEF ManageNext, StatusLook, StatusWith, RecoverFormer, FinishLook, Stop, UpdateCadence,
         OwnerCheckIn, SaveRecord, Unregister, RecordInactive, registry, SameBooking
    <2>2. ReleaseOwned(j) => Remove(KeyOf(j))
      BY DEF ReleaseOwned, registry, SameBooking
    <2>3. CleanupFormer(j) => Remove(KeyOf(j))
      BY DEF CleanupFormer, registry, SameBooking
    <2> QED
      BY <2>1, <2>2, <2>3
  <1>2. op[j].pc # "idle"
    BY <1>1 DEF ReleaseOwned, CleanupFormer, Doing
  <1>3. KeyOf(j) \in Key
    BY <1>2, ManagedKey
  <1>4. k = KeyOf(j)
    BY <1>1, <1>3, PutValues DEF Remove, SameBooking
  <1>5. CASE ReleaseOwned(j)
    <2>1. reg[k].srv = op[j].srv
      BY <1>4, <1>5 DEF ReleaseOwned, MayRelease, MergeAllowed, SameBooking, registry
    <2> QED
      BY <1>2, <2>1 DEF OwnerInv, OwnerSound
  <1>6. CASE CleanupFormer(j)
    BY <1>4, <1>6 DEF CleanupFormer, MayQuarantine, SameBooking, registry
  <1> QED
    BY <1>1, <1>5, <1>6

\* A retry that changes one is its owner's.
LEMMA RetryChanges ==
    ASSUME TypeOK, LeaseInv, OwnerInv, NEW j \in Job, RetryNext(j), NEW k \in Key,
           ~SameBooking(k)
    PROVE  inst[reg[k].srv] = "up"
  <1>1. op[j].pc \in {"claimed", "rolledback", "finalized"} /\ \E r : Put(KeyOf(j), r)
    BY DEF RetryNext, RetryLook, ClaimRecord, ClaimMetadata, ClaimFails, RetrySend,
       RetryFailsBeforeStart, RetryReplyLost, RetryAcknowledged, RollbackRecord,
       RollbackMetadata, FinalizeRecord, FinalizeMetadata, Doing, registry, SameBooking
  <1>2. OwnerSound(j) /\ op[j].pc \in RetryPc
    BY <1>1 DEF OwnerInv, RetryPc
  <1>3. k = KeyOf(j)
    BY <1>1, <1>2, RetryKnows, PutValues DEF SameBooking
  <1>4. reg[k].srv = OwnerOf(j)
    <2>1. CASE op[j].pc = "claimed"
      BY <1>2, <1>3, <2>1, RetryKnows DEF CallSound, OwnerSound
    <2>2. CASE op[j].pc # "claimed"
      <3>1. Booked(j, op[j].write.att)
        BY <1>1, <1>2, <2>2, RetryKnows DEF CallSound, CallHolds, BookedNoPid
      <3> QED
        BY <1>2, <1>3, <3>1, RetryKnows DEF Booked, OwnerSound, Mine
    <2> QED
      BY <2>1, <2>2
  <1> QED
    BY <1>2, <1>4 DEF OwnerSound, RetryPc

\* Once its owner is gone, a booking that has checked in recently is left alone.
LEMMA FreshStep ==
    ASSUME TypeOK, LeaseInv, OwnerInv, [Next]_vars, NEW k \in Key,
           reg[k].dir = "held", ~stale[k], ~SameBooking(k)
    PROVE  inst[reg[k].srv] = "up"
  <1>1. ASSUME NEW j \in Job, LaunchNext(j) \/ ManageNext(j) \/ RetryNext(j)
        PROVE  inst[reg[k].srv] = "up"
    BY <1>1, LaunchWrites, ManageWrites, RetryChanges
  <1>2. ASSUME NEW l \in Key, LeaseNext(l)
        PROVE  FALSE
    BY <1>2 DEF LeaseNext, Heartbeat, HeartbeatFails, InspectStale, Lapse, registry, SameBooking
  <1>3. ASSUME NEW s \in Server, ServerNext(s)
        PROVE  FALSE
    <2>1. CASE Quarantine(s)
      <3>1. look[s].key \in Key /\ stale[look[s].key] /\ Remove(look[s].key)
        BY <2>1 DEF Quarantine, LeaseInv, IdsKnown, MayQuarantine, registry, SameBooking
      <3>2. k = look[s].key
        BY <3>1, PutValues DEF Remove, SameBooking
      <3> QED
        BY <3>1, <3>2
    <2> QED
      BY <1>3, <2>1 DEF ServerNext, Start, Crash, Shutdown, Ends, registry, SameBooking
  <1>4. ASSUME NEW p \in Process, HostNext(p)
        PROVE  FALSE
    BY <1>4 DEF HostNext, SupervisorStarts, CommandLost, ProgramEnds,
       SupervisorExits, HostLost, OrphanEnds, ProcStep, registry, SameBooking
  <1>5. ASSUME NEW j \in Job, KillSupervisor(j)
        PROVE  FALSE
    BY <1>5 DEF KillSupervisor, ProcStep, registry, SameBooking
  <1>6. CASE UNCHANGED vars
    BY <1>6 DEF vars, SameBooking
  <1> QED
    BY <1>1, <1>2, <1>3, <1>4, <1>5, <1>6 DEF Next

\* Nobody but its live owner changes a booking that has checked in recently.
THEOREM FreshKept ==
    ASSUME NoMisread
    PROVE  Spec => FreshReservationUntouched
  <1>1. TypeOK /\ LeaseInv /\ OwnerInv /\ [Next]_vars =>
            [\A k \in Key : reg[k].dir = "held" /\ ~stale[k] /\ ~SameBooking(k)
                                => inst[reg[k].srv] = "up"]_vars
    BY FreshStep
  <1> QED
    BY <1>1, OwnersKept, PTL DEF Spec, FreshReservationUntouched

-----------------------------------------------------------------------------
(* Records tell the truth.                                                  *)

\* Job i's booking stays what it is, unless it is given up.
MineKept(i) ==
    Mine(i)' => Mine(i) /\ KeyOf(i)' = KeyOf(i) /\ reg'[KeyOf(i)].att = reg[KeyOf(i)].att

\* A step that touches neither a job's launch, call and record nor its
\* booking, but to give it up, leaves its record true.
LEMMA RecFrame ==
    ASSUME NEW i \in Job, RecordSound(i), MineKept(i),
           launch'[i] = launch[i], op'[i] = op[i], rec'[i] = rec[i],
           Mine(i)' => inst'[OwnerOf(i)] = inst[OwnerOf(i)]
    PROVE  RecordSound(i)'
  <1>1. LaunchSaved(i)'
    BY DEF RecordSound, LaunchSaved
  <1>2. rec[i].state # "none" => (TrueOf(i, rec[i]))'
    BY DEF RecordSound, TrueOf, MineKept, Readable
  <1>3. CallSaves(i)'
    BY DEF RecordSound, CallSaves, TrueOf, Saves, MineKept, Readable, Late
  <1>4. CallReturns(i)'
    BY DEF RecordSound, CallReturns, ToFinish, TrueOf, Saves, MineKept, Readable, Late
  <1>5. RetrySaves(i)'
    BY DEF RecordSound, RetrySaves
  <1>6. (Untorn => Recorded(i)') /\ (Untorn /\ Readable /\ Mine(i)' => inst'[OwnerOf(i)'] # "stopped")
    BY DEF RecordSound, Recorded, MineKept, OwnerOf
  <1> QED
    BY <1>1, <1>2, <1>3, <1>4, <1>5, <1>6 DEF RecordSound, Untorn, Readable

\* A step of one job's launch or call leaves the others' records true.
LEMMA RecOthers ==
    ASSUME TypeOK, RecInv, NEW j \in Job, Acts(j), NEW i \in Job \ {j}
    PROVE  RecordSound(i)'
  <1>1. launch'[i] = launch[i] /\ op'[i] = op[i] /\ rec'[i] = rec[i] /\ UNCHANGED inst
    BY DEF Acts
  <1>2. MineKept(i)
    <2>1. CASE UNCHANGED reg
      BY <1>1, <2>1 DEF MineKept, Mine, KeyOf
    <2>2. ASSUME NEW k \in Key, Writes(j, k)
          PROVE  MineKept(i)
      BY <1>1, <2>2 DEF MineKept, Mine, KeyOf, Writes
    <2> QED
      BY <2>1, <2>2 DEF Acts
  <1> QED
    BY <1>1, <1>2, RecFrame DEF RecInv

\* A record as a call sees it: a copy that is as true, and carries the result.
Copy(j, r) ==
    /\ r \in Record /\ r.state # "none" /\ r.att = rec[j].att
    /\ TrueOf(j, r) /\ (Late => Saves(j, r))

LEMMA ResolvedCopy ==
    ASSUME TypeOK, LeaseInv, OwnerInv, RecInv, NEW j \in Job, rec[j].state # "none",
           NEW r \in Resolved(j)
    PROVE  /\ Copy(j, r) /\ r.state = rec[j].state /\ r.outcome = rec[j].outcome
           /\ r.active => rec[j].active /\ Matches(j, rec[j])
           /\ Readable /\ Matches(j, rec[j]) /\ rec[j].active => r.active
  <1>1. PICK readable \in BOOLEAN :
          /\ readable \/ ~Readable
          /\ r = [rec[j] EXCEPT !.active = @ /\ readable /\ Matches(j, rec[j])]
    BY DEF Resolved, Readable
  <1>2. r \in Record /\ rec[j] \in Record
    BY ResolvedType, ReadTypes
  <1>3. r.state = rec[j].state /\ r.att = rec[j].att /\ r.outcome = rec[j].outcome
    BY <1>1, <1>2 DEF Record
  <1>4. r.active <=> (rec[j].active /\ readable /\ Matches(j, rec[j]))
    BY <1>1, <1>2 DEF Record
  <1>5. TrueOf(j, r)
    <2> SUFFICES ASSUME Readable, ~r.active, Mine(j), reg[KeyOf(j)].att = r.att
                 PROVE  FALSE
      BY DEF TrueOf
    <2>1. Matches(j, rec[j])
      BY <1>3 DEF Matches, Mine, OwnerInv, OwnerSound
    <2>2. ~rec[j].active
      BY <1>1, <1>4, <2>1
    <2> QED
      BY <1>3, <2>2 DEF RecInv, RecordSound, TrueOf
  <1>6. Saves(j, r)
    BY <1>3 DEF Saves
  <1>7. Copy(j, r)
    BY <1>2, <1>3, <1>5, <1>6 DEF Copy
  <1>8. /\ r.active => rec[j].active /\ Matches(j, rec[j])
        /\ Readable /\ Matches(j, rec[j]) /\ rec[j].active => r.active
    BY <1>1, <1>4
  <1> QED
    BY <1>3, <1>7, <1>8

\* A status answer, a finish or a recovery leaves its job's record true, if it
\* saves a true record of the same attempt and what it goes on from is one.
LEMMA RecManage ==
    ASSUME NEW j \in Job, RecordSound(j), UNCHANGED <<inst, launch>>, MineKept(j),
           rec'[j].state # "none", rec'[j].att = rec[j].att, (TrueOf(j, rec[j]))',
           Late => launch[j].pc \notin Unfinished,
           Late /\ launch[j].pc \in Releasing =>
              /\ rec'[j].state = "terminal" /\ rec'[j].outcome = 1
              /\ op'[j].pc \in {"idle", "save"}
              /\ op'[j].pc = "save" => op'[j].write.state = "terminal" /\ op'[j].then = "idle",
           op[j].pc \notin RetryPc, op'[j].pc \notin RetryPc,
           CallSaves(j)', CallReturns(j)'
    PROVE  RecordSound(j)'
  <1>1. LaunchSaved(j)'
    BY DEF RecordSound, LaunchSaved, Late
  <1>2. RetrySaves(j)'
    BY DEF RetrySaves
  <1>3. (Untorn => Recorded(j)') /\ (Untorn /\ Readable /\ Mine(j)' => inst'[OwnerOf(j)'] # "stopped")
    BY DEF RecordSound, Recorded, MineKept, OwnerOf, RetryPc
  <1> QED
    BY <1>1, <1>2, <1>3 DEF RecordSound, Untorn, Readable

\* A call that has ended has nothing left to save.
LEMMA NothingLeft ==
    ASSUME NEW j \in Job, op'[j].pc = "idle"
    PROVE  CallSaves(j)' /\ CallReturns(j)' /\ op'[j].pc \notin RetryPc
  BY DEF CallSaves, CallReturns, ToFinish, RetryPc, StatusPc

\* A session that waits for the launch manages no job that is being launched.
LEMMA PastLaunch ==
    ASSUME NEW j \in Job, RecordSound(j), Late,
           op[j].pc # "idle" \/ \E s \in Server : MayManage(s, j)
    PROVE  launch[j].pc \notin Unfinished
  BY DEF RecordSound, LaunchSaved, MayManage, FirstRecord, Late, Unfinished

\* While a launch that started nothing frees its GPU, no inspection has an answer.
LEMMA NothingStarted ==
    ASSUME TypeOK, LeaseInv, NEW j \in Job, launch[j].pc \in Releasing
    PROVE  /\ Mine(j) => Verdicts(reg[KeyOf(j)].pid) = {"unknown"}
           /\ launch[j].pc = "forgetting" => ~Mine(j)
  <1>1. Mine(j) => launch[j].pc # "forgetting"
    BY DEF Mine, LeaseInv, BookingSound
  <1>2. launch[j].pc # "forgetting" => reg[KeyOf(j)].pid = NoPid
    BY DEF LeaseInv, JobSound, LaunchSound, LaunchHolds, BookedNoPid, Releasing
  <1> QED
    BY <1>1, <1>2 DEF Verdicts

\* What a status answer saves.
LEMMA StatusRecordValues ==
    ASSUME TypeOK, NEW j \in Job, NEW record \in Record, NEW outcome \in Attempt \cup {0},
           NEW verdict \in {"alive", "gone", "unknown", "none"}, NEW w,
           w = StatusRecord(j, record, verdict, outcome)
    PROVE  /\ w.state # "none" /\ w.att = record.att /\ w.outcome = outcome
           /\ outcome # 0 => w.state = "terminal"
           /\ ~w.active => ~record.active \/ ~rec[j].active
  <1> DEFINE state == IF outcome # 0 THEN "terminal"
                      ELSE IF ~record.active \/ verdict = "none"
                      THEN IF record.state = "finished" THEN "finished"
                           ELSE IF record.active THEN "launch_unknown" ELSE "gone_unknown"
                      ELSE CASE verdict = "alive" -> "running"
                             [] verdict = "unknown" -> "launch_unknown"
                             [] verdict = "gone" -> "gone_unknown"
  <1>1. state # "none" /\ (outcome # 0 => state = "terminal")
    OBVIOUS
  <1>2. w = [record EXCEPT !.state = state, !.outcome = outcome,
                !.active = IF state = "finished" THEN rec[j].active ELSE @]
    BY DEF StatusRecord
  <1> HIDE DEF state
  <1>3. /\ w.state = state /\ w.att = record.att /\ w.outcome = outcome
        /\ w.active = IF state = "finished" THEN rec[j].active ELSE record.active
    BY <1>2 DEF Record
  <1> QED
    BY <1>1, <1>3

\* A status answer goes on from a copy of the record, and saves one.
LEMMA RecStatus ==
    ASSUME TypeOK, LeaseInv, OwnerInv, RecInv, NEW j \in Job, NEW s \in Server, StatusLook(j, s)
    PROVE  RecordSound(j)'
  <1>0. RecordSound(j)
    BY DEF RecInv
  <1> PICK record \in Resolved(j) \cup {op[j].source},
           verdict \in {"alive", "gone", "unknown", "none"}, outcome \in Attempt \cup {0} :
           StatusWith(j, s, record, verdict, outcome)
    BY DEF StatusLook
  <1>1. rec[j].state # "none" /\ op[j].pc \in {"idle", "look"}
    BY DEF StatusLook, Serves, StatusWith, MayManage, Doing
  <1>2. Copy(j, record)
    <2>1. CASE record \in Resolved(j)
      BY <1>1, <2>1, ResolvedCopy
    <2>2. CASE record \notin Resolved(j)
      <3>1. op[j].pc = "look" /\ record = op[j].source
        BY <2>2 DEF StatusWith, Doing
      <3> QED
        BY <1>0, <3>1, ReadTypes DEF Copy, RecordSound, CallReturns
    <2> QED
      BY <2>1, <2>2
  <1> PICK w : w = StatusRecord(j, record, verdict, outcome)
    OBVIOUS
  <1>3. /\ w.state # "none" /\ w.att = rec[j].att /\ w.outcome = outcome
        /\ outcome # 0 => w.state = "terminal"
        /\ ~w.active => ~record.active \/ ~rec[j].active
    BY <1>2, StatusRecordValues DEF Copy
  <1>4. TrueOf(j, w)
    BY <1>0, <1>1, <1>2, <1>3 DEF TrueOf, Copy, RecordSound
  <1>5. Late => Saves(j, w)
    <2>1. outcome \in {record.outcome} \cup {record.att}
      BY DEF StatusWith, OutcomesRead
    <2> QED
      BY <1>2, <1>3, <2>1 DEF Copy, Saves
  <1> DEFINE then == AfterSave(j, s, record, verdict, outcome)
  <1>6. then = "release" => outcome # 0
    BY DEF AfterSave
  <1>7. /\ op'[j].pc = "save" /\ op'[j].write = w /\ op'[j].then = then
        /\ UNCHANGED <<inst, reg, rec, launch>>
    BY DEF StatusWith, TypeOK, registry
  <1>8. Late => launch[j].pc \notin Unfinished
    BY <1>0, PastLaunch DEF StatusWith, Doing
  <1>9. Late /\ launch[j].pc \in Releasing => w.state = "terminal" /\ then = "idle"
    <2> SUFFICES ASSUME Late, launch[j].pc \in Releasing
                 PROVE  w.state = "terminal" /\ then = "idle"
      OBVIOUS
    <2>1. rec[j].outcome = 1 /\ rec[j].att = 1 /\ op[j].pc = "idle"
      BY <1>0, <1>1 DEF RecordSound, LaunchSaved
    <2>2. record \in Resolved(j) /\ record.outcome = 1 /\ record.att = 1
      BY <1>1, <2>1, ResolvedCopy DEF StatusWith, Doing, Copy
    <2>3. outcome = 1
      BY <2>2 DEF StatusWith, OutcomesRead
    <2>4. record.active => Mine(j)
      BY <1>1, <2>2, ResolvedCopy, ManagedKey DEF Matches, Mine, StatusWith, Doing
    <2>5. record.active => verdict # "gone"
      BY <2>4, NothingStarted DEF StatusWith, Observed, Mine
    <2> QED
      BY <1>3, <2>3, <2>5 DEF AfterSave
  <1> HIDE DEF then
  <1>10. CallSaves(j)'
    <2>1. (TrueOf(j, op[j].write))' /\ (Late => (Saves(j, op[j].write))')
      BY <1>4, <1>5, <1>7 DEF TrueOf, Saves, Mine, KeyOf, Readable, Late
    <2> QED
      BY <1>1, <1>3, <1>6, <1>7, <2>1 DEF CallSaves, StatusPc, Late
  <1>11. CallReturns(j)'
    BY <1>3, <1>6, <1>7 DEF CallReturns, ToFinish
  <1>12. MineKept(j) /\ (TrueOf(j, rec[j]))'
    BY <1>0, <1>1, <1>7 DEF MineKept, Mine, KeyOf, TrueOf, RecordSound, Readable
  <1>13. Late /\ launch[j].pc \in Releasing => rec[j].state = "terminal" /\ rec[j].outcome = 1
    BY <1>0 DEF RecordSound, LaunchSaved
  <1> QED
    BY <1>0, <1>1, <1>3, <1>7, <1>8, <1>9, <1>10, <1>11, <1>12, <1>13, RecManage DEF RetryPc

\* A finish saves a copy of the record, and can go on from one.
LEMMA RecFinish ==
    ASSUME TypeOK, LeaseInv, OwnerInv, RecInv, NEW j \in Job, NEW s \in Server, FinishLook(j, s)
    PROVE  RecordSound(j)'
  <1>0. RecordSound(j)
    BY DEF RecInv
  <1>1. /\ rec[j].state # "none" /\ op[j].pc = "idle" /\ MayManage(s, j)
        /\ "gone" \in Verdicts(reg[KeyOf(j)].pid)
        /\ Owns(s, KeyOf(j)) /\ reg[KeyOf(j)].job = j
        /\ UNCHANGED <<inst, reg, rec, launch>>
    BY DEF FinishLook, MayChange, MayManage, Serves, registry
  <1>2. Mine(j)
    BY <1>1, ManagedKey DEF Mine, Owns
  <1> PICK record \in Resolved(j) :
        op' = [op EXCEPT ![j] = [pc |-> "save", srv |-> s,
                                 write |-> [record EXCEPT !.state = "finished"],
                                 source |-> record, meta |-> reg[KeyOf(j)],
                                 then |-> "release"]]
    BY DEF FinishLook
  <1>3. Copy(j, record)
    BY <1>1, ResolvedCopy
  <1> PICK w : w = [record EXCEPT !.state = "finished"]
    OBVIOUS
  <1>4. /\ w.state = "finished" /\ w.att = rec[j].att /\ w.outcome = record.outcome
        /\ ~w.active => ~record.active
    BY <1>3 DEF Copy, Record
  <1>5. /\ op'[j].pc = "save" /\ op'[j].write = w /\ op'[j].source = record
        /\ op'[j].then = "release"
    BY DEF TypeOK
  <1>6. TrueOf(j, w) /\ (Late => Saves(j, w))
    BY <1>3, <1>4 DEF Copy, TrueOf, Saves
  <1>7. launch[j].pc \notin Releasing
    BY <1>1, <1>2, NothingStarted
  <1>8. CallSaves(j)'
    <2>1. (TrueOf(j, op[j].write))' /\ (Late => (Saves(j, op[j].write))')
      BY <1>1, <1>5, <1>6 DEF TrueOf, Saves, Mine, KeyOf, Readable, Late
    <2> QED
      BY <1>1, <1>4, <1>5, <2>1 DEF CallSaves, StatusPc, Late
  <1>9. CallReturns(j)'
    <2>1. (TrueOf(j, op[j].source))' /\ (Late => (Saves(j, op[j].source))')
      BY <1>1, <1>3, <1>5 DEF Copy, TrueOf, Saves, Mine, KeyOf, Readable, Late
    <2> QED
      BY <1>1, <1>3, <1>4, <1>5, <2>1 DEF CallReturns, Copy, Late
  <1>10. MineKept(j) /\ (TrueOf(j, rec[j]))'
    BY <1>0, <1>1 DEF MineKept, Mine, KeyOf, TrueOf, RecordSound, Readable
  <1>11. Late => launch[j].pc \notin Unfinished
    BY <1>0, <1>1, PastLaunch
  <1> QED
    BY <1>0, <1>1, <1>5, <1>7, <1>8, <1>9, <1>10, <1>11, RecManage DEF RetryPc

\* A stop or a change of cadence saves a copy of the record.
LEMMA RecCheckIn ==
    ASSUME TypeOK, LeaseInv, OwnerInv, RecInv, NEW j \in Job, NEW s \in Server,
           Stop(j, s) \/ UpdateCadence(j, s)
    PROVE  RecordSound(j)'
  <1>0. RecordSound(j)
    BY DEF RecInv
  <1>1. /\ rec[j].state # "none" /\ op[j].pc = "idle" /\ MayManage(s, j)
        /\ UNCHANGED <<inst, reg, launch>>
    BY DEF Stop, UpdateCadence, OwnerCheckIn, MayChange, MayManage, Serves
  <1>2. PICK record \in Resolved(j) :
          /\ rec' = [rec EXCEPT ![j] = record]
          /\ \/ UNCHANGED op
             \/ /\ "alive" \in Verdicts(reg[KeyOf(j)].pid)
                /\ op' = [op EXCEPT ![j] = [NoOperation EXCEPT !.pc = "look", !.srv = s,
                                                               !.source = record]]
    BY DEF Stop, UpdateCadence, OwnerCheckIn
  <1>3. Copy(j, record) /\ record.state = rec[j].state /\ record.outcome = rec[j].outcome
    BY <1>1, ResolvedCopy
  <1>4. rec'[j] = record
    BY <1>2 DEF TypeOK
  <1>5. MineKept(j) /\ (TrueOf(j, rec[j]))'
    BY <1>1, <1>3, <1>4 DEF MineKept, Mine, KeyOf, Copy, TrueOf, Readable
  <1>6. Late => launch[j].pc \notin Unfinished
    BY <1>0, <1>1, PastLaunch
  <1>7. Late /\ launch[j].pc \in Releasing => record.state = "terminal" /\ record.outcome = 1
    BY <1>0, <1>3 DEF RecordSound, LaunchSaved
  <1>8. CASE UNCHANGED op
    BY <1>0, <1>1, <1>3, <1>4, <1>5, <1>6, <1>7, <1>8, NothingLeft, RecManage DEF Copy, RetryPc
  <1>9. CASE ~UNCHANGED op
    <2>1. /\ op'[j].pc = "look" /\ op'[j].source = record
          /\ "alive" \in Verdicts(reg[KeyOf(j)].pid)
      <3> PICK o : o = [NoOperation EXCEPT !.pc = "look", !.srv = s, !.source = record]
        OBVIOUS
      <3>1. o.pc = "look" /\ o.source = record
        BY DEF NoOperation
      <3>2. op' = [op EXCEPT ![j] = o] /\ "alive" \in Verdicts(reg[KeyOf(j)].pid)
        BY <1>2, <1>9
      <3> QED
        BY <3>1, <3>2 DEF TypeOK
    <2>2. Mine(j)
      BY <1>1, <1>9, ManagedKey DEF Mine, Stop, UpdateCadence, MayChange, Owns
    <2>3. launch[j].pc \notin Releasing
      BY <2>1, <2>2, NothingStarted
    <2>4. CallSaves(j)'
      BY <1>3, <1>4, <2>1 DEF CallSaves, Copy, StatusPc
    <2>5. CallReturns(j)'
      <3>1. (TrueOf(j, op[j].source))' /\ (Saves(j, op[j].source))'
        BY <1>4, <1>5, <2>1 DEF TrueOf, Saves, Mine, KeyOf
      <3> QED
        BY <1>3, <1>4, <2>1, <3>1 DEF CallReturns, Copy
    <2> QED
      BY <1>0, <1>1, <1>3, <1>4, <1>5, <1>6, <2>1, <2>3, <2>4, <2>5, RecManage DEF Copy, RetryPc
  <1> QED
    BY <1>8, <1>9

\* A recovery saves a result of the attempt that the record names.
LEMMA RecRecover ==
    ASSUME TypeOK, LeaseInv, OwnerInv, RecInv, NEW j \in Job, NEW s \in Server, RecoverFormer(j, s)
    PROVE  RecordSound(j)'
  <1>0. RecordSound(j)
    BY DEF RecInv
  <1>1. /\ rec[j].state # "none" /\ op[j].pc = "idle" /\ MayManage(s, j)
        /\ UNCHANGED <<inst, reg, launch, op>>
    BY DEF RecoverFormer, MayManage, Serves, registry
  <1>2. PICK outcome \in OutcomesRead(j, rec[j]) \ {0} :
          rec' = [rec EXCEPT ![j] = [@ EXCEPT !.state = "terminal", !.outcome = outcome]]
    BY DEF RecoverFormer
  <1>3. /\ rec'[j].state = "terminal" /\ rec'[j].att = rec[j].att /\ rec'[j].outcome = outcome
        /\ ~rec'[j].active => ~rec[j].active
    BY <1>2 DEF TypeOK, Record
  <1>4. MineKept(j) /\ (TrueOf(j, rec[j]))'
    BY <1>0, <1>1, <1>3 DEF MineKept, Mine, KeyOf, RecordSound, TrueOf, Readable
  <1>5. Late => launch[j].pc \notin Unfinished
    BY <1>0, <1>1, PastLaunch
  <1>6. Late /\ launch[j].pc \in Releasing => outcome = 1
    BY <1>0, <1>2 DEF RecordSound, LaunchSaved, OutcomesRead
  <1> QED
    BY <1>0, <1>1, <1>3, <1>4, <1>5, <1>6, NothingLeft, RecManage DEF RetryPc

\* The save of a call leaves the record a copy of what the call goes on with.
LEMMA RecSave ==
    ASSUME TypeOK, RecInv, NEW j \in Job, SaveRecord(j)
    PROVE  RecordSound(j)'
  <1>0. RecordSound(j)
    BY DEF RecInv
  <1> PICK w : w = op[j].write
    OBVIOUS
  <1>1. op[j].pc = "save" /\ rec'[j] = w /\ UNCHANGED <<inst, reg, launch>>
    BY DEF SaveRecord, Doing, TypeOK, registry
  <1>2. /\ w.state # "none" /\ w.att = rec[j].att /\ (Late => Saves(j, w)) /\ TrueOf(j, w)
        /\ op[j].then = "release" => w.state \in {"terminal", "finished"}
    BY <1>0, <1>1 DEF RecordSound, CallSaves, StatusPc
  <1>3. MineKept(j) /\ (TrueOf(j, rec[j]))'
    BY <1>1, <1>2 DEF MineKept, Mine, KeyOf, TrueOf, Readable
  <1>4. Late => launch[j].pc \notin Unfinished
    BY <1>0, <1>1, PastLaunch
  <1>5. Late /\ launch[j].pc \in Releasing =>
          w.state = "terminal" /\ w.outcome = 1 /\ op[j].then = "idle"
    BY <1>0, <1>1, <1>2 DEF RecordSound, LaunchSaved, Saves, Unfinished, Releasing
  <1>6. CASE op[j].then = "idle"
    <2>1. op'[j].pc = "idle"
      BY <1>6, OpDoneValues DEF SaveRecord, NoOperation
    <2> QED
      BY <1>0, <1>1, <1>2, <1>3, <1>4, <1>5, <2>1, NothingLeft, RecManage DEF RetryPc
  <1>7. CASE op[j].then # "idle"
    <2>1. op'[j].pc = op[j].then /\ op'[j].write = w /\ op'[j].source = op[j].source
      BY <1>7, OpStepValues DEF SaveRecord
    <2>2. op[j].then \in {"release", "cleanup"}
      BY <1>7, ReadTypes DEF Operation
    <2>3. CallSaves(j)'
      <3>1. (Saves(j, op[j].write))'
        BY <1>1, <2>1 DEF Saves
      <3> QED
        BY <1>1, <1>2, <2>1, <2>2, <3>1 DEF CallSaves, StatusPc, Late
    <2>4. CallReturns(j)'
      <3> SUFFICES ASSUME op[j].then = "release", w.state = "finished"
                   PROVE  CallReturns(j)'
        BY <2>1, <2>2 DEF CallReturns, ToFinish
      <3>1. /\ op[j].source.state # "none" /\ op[j].source.att = rec[j].att
            /\ TrueOf(j, op[j].source) /\ op[j].source.outcome = w.outcome
        BY <1>0, <1>1 DEF RecordSound, CallReturns, ToFinish
      <3>2. (TrueOf(j, op[j].source))' /\ (Saves(j, op[j].source))'
        BY <1>1, <2>1, <3>1 DEF TrueOf, Saves, Mine, KeyOf, Readable
      <3> QED
        BY <1>1, <1>2, <2>1, <3>1, <3>2 DEF CallReturns
    <2> QED
      BY <1>0, <1>1, <1>2, <1>3, <1>4, <1>5, <1>7, <2>1, <2>2, <2>3, <2>4, RecManage DEF RetryPc
  <1> QED
    BY <1>6, <1>7

\* A booking that is given up is nobody's.
LEMMA GivenUp ==
    ASSUME TypeOK, NEW j \in Job, UNCHANGED launch, KeyOf(j) \in Key,
           UNCHANGED reg \/ Remove(KeyOf(j))
    PROVE  MineKept(j) /\ (Remove(KeyOf(j)) => ~Mine(j)')
  <1>1. Remove(KeyOf(j)) => ~Mine(j)'
    BY PutValues DEF Remove, Mine, KeyOf, Absent
  <1> QED
    BY <1>1 DEF MineKept, Mine, KeyOf

\* A release, a cleanup of a former backend's booking and an unregistration
\* save nothing, and go on when the booking is gone.
LEMMA RecRelease ==
    ASSUME TypeOK, LeaseInv, RecInv, NEW j \in Job,
           ReleaseOwned(j) \/ CleanupFormer(j) \/ Unregister(j)
    PROVE  RecordSound(j)'
  <1>0. RecordSound(j)
    BY DEF RecInv
  <1>1. /\ op[j].pc \in {"release", "cleanup", "unregister"}
        /\ UNCHANGED <<inst, rec, launch>> /\ KeyOf(j) \in Key
        /\ rec[j].state # "none"
    <2>1. op[j].pc \in {"release", "cleanup", "unregister"} /\ UNCHANGED <<inst, rec, launch>>
      BY DEF ReleaseOwned, CleanupFormer, Unregister, Doing
    <2> QED
      BY <1>0, <2>1, ManagedKey DEF RecordSound, CallSaves, StatusPc
  <1>2. UNCHANGED reg \/ Remove(KeyOf(j))
    BY DEF ReleaseOwned, CleanupFormer, Unregister, registry
  <1>3. MineKept(j) /\ (Remove(KeyOf(j)) => ~Mine(j)')
    BY <1>1, <1>2, GivenUp
  <1>4. (TrueOf(j, rec[j]))'
    BY <1>0, <1>1, <1>3 DEF MineKept, RecordSound, TrueOf, Readable
  <1>5. Late => launch[j].pc \notin Unfinished
    BY <1>0, <1>1, PastLaunch
  <1>6. Late => launch[j].pc \notin Releasing
    BY <1>0, <1>1 DEF RecordSound, LaunchSaved
  <1>7. ASSUME CallSaves(j)', CallReturns(j)', op'[j].pc \notin RetryPc
        PROVE  RecordSound(j)'
    BY <1>0, <1>1, <1>3, <1>4, <1>5, <1>6, <1>7, RecManage DEF RetryPc
  <1>8. CASE op'[j].pc = "idle"
    BY <1>7, <1>8, NothingLeft
  <1>9. CASE op'[j].pc = "look" /\ op'[j].source = op[j].source /\ ReleaseOwned(j)
             /\ op[j].write.state = "finished"
    <2>1. op[j].pc = "release" /\ ToFinish(j)
      BY <1>9 DEF ReleaseOwned, Doing, ToFinish
    <2>2. CallReturns(j)'
      BY <1>0, <1>1, <1>3, <1>9, <2>1 DEF RecordSound, CallReturns, ToFinish, TrueOf, Saves,
         MineKept, Readable, Late
    <2>3. CallSaves(j)'
      BY <1>1, <1>9 DEF CallSaves, StatusPc
    <2> QED
      BY <1>7, <1>9, <2>2, <2>3 DEF RetryPc
  <1>10. CASE op'[j].pc \in {"unregister", "inactive"} /\ op'[j].write = op[j].write /\ ~Mine(j)'
    <2>1. CallSaves(j)'
      BY <1>0, <1>1, <1>10 DEF RecordSound, CallSaves, StatusPc, Saves, Late
    <2>2. CallReturns(j)'
      BY <1>10 DEF CallReturns, ToFinish
    <2> QED
      BY <1>7, <1>10, <2>1, <2>2 DEF RetryPc
  <1>11. CASE ReleaseOwned(j)
    <2>1. \/ Remove(KeyOf(j)) /\ OpLast(j, "unregister")
          \/ op[j].write.state = "finished" /\ OpStep(j, "look")
          \/ OpDone(j)
      BY <1>11 DEF ReleaseOwned
    <2> QED
      BY <1>3, <1>8, <1>9, <1>10, <1>11, <2>1, OpLastValues, OpStepValues, OpDoneValues DEF NoOperation
  <1>12. CASE CleanupFormer(j)
    <2>1. (Remove(KeyOf(j)) /\ OpLast(j, "inactive")) \/ OpDone(j)
      BY <1>12 DEF CleanupFormer
    <2> QED
      BY <1>3, <1>8, <1>10, <2>1, OpLastValues, OpDoneValues DEF NoOperation
  <1>13. CASE Unregister(j)
    <2>1. op[j].pc = "unregister" /\ OpStep(j, "inactive") /\ UNCHANGED reg
      BY <1>13 DEF Unregister, Doing, registry
    <2>2. ~Mine(j)
      BY <1>0, <2>1 DEF RecordSound, CallSaves
    <2> QED
      BY <1>3, <1>10, <2>1, <2>2, OpStepValues DEF MineKept
  <1> QED
    BY <1>11, <1>12, <1>13

\* The record says inactive when the booking is gone.
LEMMA RecInactive ==
    ASSUME TypeOK, LeaseInv, RecInv, NEW j \in Job, RecordInactive(j)
    PROVE  RecordSound(j)'
  <1>0. RecordSound(j)
    BY DEF RecInv
  <1> PICK w : w = op[j].write
    OBVIOUS
  <1>1. op[j].pc = "inactive" /\ OpDone(j) /\ UNCHANGED <<inst, launch, reg>>
    BY DEF RecordInactive, Doing, registry
  <1>2. w.state # "none" /\ w.att = rec[j].att /\ ~Mine(j) /\ w \in Record
    BY <1>0, <1>1, ReadTypes DEF RecordSound, CallSaves, StatusPc
  <1>3. \E outcome : rec' = [rec EXCEPT ![j] =
                    [w EXCEPT !.active = FALSE, !.outcome = outcome,
                        !.state = IF outcome # 0 THEN "terminal" ELSE @]]
    BY DEF RecordInactive
  <1>4. rec'[j].state # "none" /\ rec'[j].att = rec[j].att
    <2> PICK outcome : rec' = [rec EXCEPT ![j] =
                    [w EXCEPT !.active = FALSE, !.outcome = outcome,
                        !.state = IF outcome # 0 THEN "terminal" ELSE @]]
      BY <1>3
    <2> QED
      BY <1>2 DEF TypeOK, Record
  <1>5. MineKept(j) /\ ~Mine(j)' /\ (TrueOf(j, rec[j]))'
    BY <1>1, <1>2 DEF MineKept, Mine, KeyOf, TrueOf
  <1>6. Late => launch[j].pc \notin Unfinished
    BY <1>0, <1>1, PastLaunch
  <1>7. Late => launch[j].pc \notin Releasing
    BY <1>0, <1>1 DEF RecordSound, LaunchSaved
  <1>8. op'[j].pc = "idle"
    BY <1>1, OpDoneValues DEF NoOperation
  <1> QED
    BY <1>0, <1>1, <1>4, <1>5, <1>6, <1>7, <1>8, NothingLeft, RecManage DEF RetryPc

\* Status answers, stops, finishes and recoveries keep their job's record true.
LEMMA RecManaged ==
    ASSUME TypeOK, LeaseInv, OwnerInv, RecInv, NEW j \in Job, ManageNext(j)
    PROVE  RecordSound(j)'
  BY RecStatus, RecFinish, RecCheckIn, RecRecover, RecSave, RecRelease, RecInactive DEF ManageNext

\* Before a launch has started its program the job has no record, or its first.
LEMMA RecNew ==
    ASSUME NEW j \in Job, op'[j] = op[j], op[j].pc = "idle",
           rec'[j] = NoRecord \/ rec'[j] = FirstRecord,
           launch'[j].pc \in Unfinished => rec'[j] = FirstRecord,
           launch'[j].pc \in {"idle", "created", "acquired", "done"} \cup Unfinished,
           Mine(j)' => /\ inst'[OwnerOf(j)'] = "up"
                       /\ \/ launch'[j].pc = "acquired"
                          \/ rec'[j] = FirstRecord /\ reg'[KeyOf(j)'].att = 1
    PROVE  RecordSound(j)'
  <1>1. LaunchSaved(j)'
    BY DEF LaunchSaved, NoRecord, FirstRecord, Unfinished, Releasing
  <1>2. rec'[j].state # "none" => rec'[j].active /\ rec'[j].att = 1
    BY DEF NoRecord, FirstRecord
  <1>3. RetrySaves(j)'
    BY DEF RetrySaves, RetryPc
  <1>4. (rec[j].state # "none" => TrueOf(j, rec[j]))'
    BY <1>2 DEF TrueOf
  <1>5. Recorded(j)' /\ (Mine(j)' => inst'[OwnerOf(j)'] # "stopped")
    BY DEF Recorded, FirstRecord
  <1> QED
    BY <1>1, <1>3, <1>4, <1>5, NothingLeft DEF RecordSound

\* Later on a launch that saves nothing leaves the record as true as it was.
LEMMA RecLater ==
    ASSUME NEW j \in Job, RecordSound(j), op'[j] = op[j], rec'[j] = rec[j], UNCHANGED inst,
           launch[j].pc \in {"running"} \cup Unfinished \cup Releasing,
           launch'[j].pc \in {"done"} \cup Unfinished \cup Releasing,
           launch'[j].pc \in Unfinished => launch[j].pc \in Unfinished,
           launch'[j].pc \in Releasing => launch[j].pc \in Releasing,
           Readable => launch'[j].pc # "closing",
           op[j].pc \notin RetryPc, OwnerOf(j)' = OwnerOf(j), MineKept(j)
    PROVE  RecordSound(j)'
  <1>1. LaunchSaved(j)'
    BY DEF RecordSound, LaunchSaved, Late, Unfinished, Releasing
  <1>2. RetrySaves(j)'
    BY DEF RetrySaves
  <1>3. (rec[j].state # "none" => TrueOf(j, rec[j]))'
    BY DEF RecordSound, TrueOf, MineKept, Readable
  <1>4. CallSaves(j)'
    BY DEF RecordSound, CallSaves, TrueOf, Saves, MineKept, Readable, Late
  <1>5. CallReturns(j)'
    BY DEF RecordSound, CallReturns, ToFinish, TrueOf, Saves, MineKept, Readable, Late
  <1>6. (Untorn => Recorded(j)') /\ (Untorn /\ Readable /\ Mine(j)' => inst'[OwnerOf(j)'] # "stopped")
    BY DEF RecordSound, Recorded, MineKept, OwnerOf, Unfinished, Releasing
  <1> QED
    BY <1>1, <1>2, <1>3, <1>4, <1>5, <1>6 DEF RecordSound, Untorn, Readable

\* A record that the launch itself saves is of the first attempt, as are the
\* copies that calls of an impatient session hold.
LEMMA RecOwnCopy ==
    ASSUME NEW j \in Job, RecordSound(j), op'[j] = op[j], UNCHANGED <<inst, reg>>,
           launch[j].pc \in Unfinished \cup Releasing,
           rec'[j].state # "none", rec'[j].att = 1,
           Late => op[j].pc = "idle" \/ (launch[j].pc \in Releasing /\ rec'[j].outcome = 1),
           op[j].pc \notin RetryPc, OwnerOf(j)' = OwnerOf(j), KeyOf(j)' = KeyOf(j),
           LaunchSaved(j)', rec'[j].active \/ ~Mine(j) \/ ~Readable
    PROVE  RecordSound(j)'
  <1>0. rec[j].att = 1 /\ rec[j].state # "none" /\ (Mine(j)' => Mine(j))
    BY DEF RecordSound, LaunchSaved, Mine
  <1>2. RetrySaves(j)'
    BY DEF RetrySaves
  <1>3. (TrueOf(j, rec[j]))'
    BY <1>0 DEF TrueOf, Readable
  <1>4. op[j].pc = "idle" => CallSaves(j)' /\ CallReturns(j)'
    BY NothingLeft
  <1>5. ASSUME op[j].pc # "idle", Late
        PROVE  /\ op[j].pc = "save" /\ op[j].then = "idle"
               /\ op[j].write.outcome = 1 /\ rec'[j].outcome = 1
    BY <1>0, <1>5 DEF RecordSound, LaunchSaved, CallSaves, Saves, StatusPc
  <1>6. CallSaves(j)'
    <2>1. CASE ~Late
      BY <1>0, <2>1 DEF RecordSound, CallSaves, TrueOf, Mine, Readable, Late
    <2>2. CASE Late /\ op[j].pc # "idle"
      BY <1>0, <1>5, <2>2 DEF RecordSound, CallSaves, TrueOf, Saves, Mine, Readable, Late, StatusPc
    <2> QED
      BY <1>4, <2>1, <2>2, NothingLeft
  <1>7. CallReturns(j)'
    <2>1. CASE ~Late
      BY <1>0, <2>1 DEF RecordSound, CallReturns, ToFinish, TrueOf, Mine, Readable, Late
    <2>2. CASE Late /\ op[j].pc # "idle"
      BY <1>5, <2>2 DEF CallReturns, ToFinish
    <2> QED
      BY <1>4, <2>1, <2>2, NothingLeft
  <1>8. (Untorn => Recorded(j)') /\ (Untorn /\ Readable /\ Mine(j)' => inst'[OwnerOf(j)'] # "stopped")
    BY <1>0 DEF RecordSound, Recorded, OwnerOf, Unfinished, Releasing, RetryPc, Mine
  <1> QED
    BY <1>2, <1>3, <1>6, <1>7, <1>8 DEF RecordSound, Untorn, Readable

\* A launch keeps its job's record true.
LEMMA RecLaunched ==
    ASSUME TypeOK, LeaseInv, OwnerInv, RecInv, NEW j \in Job, LaunchNext(j)
    PROVE  RecordSound(j)'
  <1>0. /\ RecordSound(j) /\ LaunchKnown(j) /\ Unrecorded(j) /\ LaunchSound(j) /\ OwnerSound(j)
        /\ op[j].pc \in RetryPc => launch[j].pc = "done"
    BY DEF RecInv, LeaseInv, IdsKnown, JobKnown, JobSound, CallSound, OwnerInv
  <1>1. UNCHANGED <<inst, op>>
    BY LaunchActs DEF LaunchNext, LaunchBegin, LaunchWriteMetadata, LaunchMetadataFails, LaunchRecord,
       LaunchRecordFails, LaunchSend, LaunchFailsBeforeStart, LaunchReplyLost,
       LaunchAcknowledged, LaunchRecordRunning, LaunchRunningUnrecorded,
       LaunchRecordPid, PrestartRecord, PrestartRelease, PrestartClose
  <1>2. launch[j].pc \in {"idle", "created", "acquired"} => op[j].pc = "idle" /\ rec[j] = NoRecord
    BY <1>0 DEF Unrecorded, RecordSound, LaunchSaved
  <1>3. ASSUME NEW s \in Server, NEW k \in Key, LaunchBegin(j, s, k)
        PROVE  RecordSound(j)'
    <2>1. launch'[j] = [pc |-> "created", srv |-> s, key |-> k] /\ launch[j].pc = "idle"
      BY <1>3 DEF LaunchBegin, TypeOK
    <2>2. reg'[k] = Empty /\ rec' = rec
      BY <1>3, PutValues DEF LaunchBegin
    <2>3. launch'[j].pc = "created" /\ ~Mine(j)'
      BY <2>1, <2>2 DEF Mine, KeyOf, Empty, Absent
    <2> QED
      BY <1>1, <1>2, <2>1, <2>2, <2>3, RecNew DEF Unfinished
  <1>4. CASE LaunchWriteMetadata(j)
    <2>1. /\ launch[j].pc = "created" /\ inst[OwnerOf(j)] = "up" /\ rec' = rec
          /\ LaunchStep(j, "acquired")
      BY <1>4 DEF LaunchWriteMetadata, Launching
    <2>2. launch'[j].pc = "acquired" /\ OwnerOf(j)' = OwnerOf(j)
      BY <2>1, LaunchStepValues DEF OwnerOf
    <2> QED
      BY <1>1, <1>2, <2>1, <2>2, RecNew DEF Unfinished
  <1>5. CASE LaunchMetadataFails(j)
    <2>1. launch[j].pc = "created" /\ launch'[j] = NoLaunch /\ rec' = rec
      BY <1>5 DEF LaunchMetadataFails, Launching, TypeOK
    <2>2. launch'[j].pc = "idle" /\ ~Mine(j)'
      BY <2>1, ConstantsAssumption DEF Mine, KeyOf, NoLaunch
    <2> QED
      BY <1>1, <1>2, <2>1, <2>2, RecNew DEF Unfinished
  <1>6. CASE LaunchRecord(j)
    <2>1. /\ launch[j].pc = "acquired" /\ inst[OwnerOf(j)] = "up" /\ rec'[j] = FirstRecord
          /\ LaunchStep(j, "recorded") /\ UNCHANGED reg
      BY <1>6 DEF LaunchRecord, Launching, TypeOK, registry
    <2>2. launch'[j].pc = "recorded" /\ OwnerOf(j)' = OwnerOf(j) /\ KeyOf(j)' = KeyOf(j)
      BY <2>1, LaunchStepValues DEF OwnerOf, KeyOf
    <2>3. reg[KeyOf(j)].att = 1
      BY <1>0, <2>1 DEF LaunchSound, LaunchHolds, BookedNoPid, Booked
    <2> QED
      BY <1>1, <1>2, <2>1, <2>2, <2>3, RecNew DEF Unfinished
  <1>7. CASE LaunchRecordFails(j)
    <2>1. launch[j].pc = "acquired" /\ LaunchStep(j, "done") /\ Remove(KeyOf(j))
      BY <1>7 DEF LaunchRecordFails, Launching
    <2>2. rec'[j] = NoRecord \/ rec'[j] = FirstRecord
      BY <1>7 DEF LaunchRecordFails, TypeOK
    <2>3. launch'[j].pc = "done" /\ KeyOf(j)' = KeyOf(j) /\ KeyOf(j) \in Key
      BY <1>0, <2>1, LaunchStepValues DEF KeyOf, LaunchKnown
    <2>4. ~Mine(j)'
      BY <2>1, <2>3, PutValues DEF Remove, Mine, Absent
    <2> QED
      BY <1>1, <1>2, <2>1, <2>2, <2>3, <2>4, RecNew DEF Unfinished
  <1>8. ASSUME NEW pc \in {"done"} \cup Unfinished \cup Releasing, LaunchStep(j, pc), rec' = rec,
               launch[j].pc \in {"running"} \cup Unfinished \cup Releasing,
               pc \in Unfinished => launch[j].pc \in Unfinished,
               pc \in Releasing => launch[j].pc \in Releasing,
               Readable => pc # "closing",
               UNCHANGED reg \/ MineKept(j)
        PROVE  RecordSound(j)'
    <2>1. launch'[j].pc = pc /\ OwnerOf(j)' = OwnerOf(j) /\ KeyOf(j)' = KeyOf(j)
      BY <1>8, LaunchStepValues DEF OwnerOf, KeyOf
    <2>2. MineKept(j)
      BY <1>8, <2>1 DEF MineKept, Mine
    <2>3. op[j].pc \notin RetryPc
      BY <1>0, <1>8 DEF Unfinished, Releasing
    <2> QED
      BY <1>0, <1>1, <1>8, <2>1, <2>2, <2>3, RecLater
  <1>9. CASE LaunchSend(j) \/ LaunchFailsBeforeStart(j) \/ LaunchReplyLost(j)
             \/ LaunchAcknowledged(j) \/ LaunchRunningUnrecorded(j)
    BY <1>8, <1>9 DEF LaunchSend, LaunchFailsBeforeStart, LaunchReplyLost, LaunchAcknowledged,
       LaunchRunningUnrecorded, Launching, registry, Unfinished, Releasing
  <1>10. CASE LaunchRecordPid(j)
    <2>1. launch[j].pc = "running" /\ LaunchStep(j, "done") /\ rec' = rec /\ KeyOf(j) \in Key
      BY <1>0, <1>10 DEF LaunchRecordPid, Launching, LaunchKnown
    <2> DEFINE r == [reg[KeyOf(j)] EXCEPT !.pid = <<j, 1>>]
    <2>2. UNCHANGED reg \/ Put(KeyOf(j), r)
      BY <1>10 DEF LaunchRecordPid, registry
    <2>3. r.dir = reg[KeyOf(j)].dir /\ r.job = reg[KeyOf(j)].job /\ r.att = reg[KeyOf(j)].att
      BY <2>1 DEF TypeOK, Reservation
    <2>4. KeyOf(j)' = KeyOf(j)
      BY <2>1, LaunchStepValues DEF KeyOf
    <2> HIDE DEF r
    <2>5. MineKept(j)
      BY <2>1, <2>2, <2>3, <2>4, PutValues DEF MineKept, Mine
    <2> QED
      BY <1>8, <2>1, <2>5 DEF Unfinished, Releasing
  <1>11. CASE PrestartRelease(j)
    <2>1. launch[j].pc = "releasing" /\ rec' = rec /\ KeyOf(j) \in Key
      BY <1>0, <1>11 DEF PrestartRelease, Launching, LaunchKnown
    <2>2. \/ Remove(KeyOf(j)) /\ LaunchStep(j, "forgetting")
          \/ UNCHANGED reg /\ LaunchStep(j, "keeping")
          \/ UNCHANGED reg /\ LaunchStep(j, "closing") /\ ~Readable
      <3>1. Matches(j, FirstRecord)
        BY <1>0, <1>11 DEF PrestartRelease, Launching, LaunchSound, LaunchHolds, BookedNoPid,
           Booked, Matches, FirstRecord
      <3> QED
        BY <1>11, <3>1 DEF PrestartRelease, registry, Readable
    <2>3. KeyOf(j)' = KeyOf(j)
      BY <2>2, LaunchStepValues DEF KeyOf
    <2>4. UNCHANGED reg \/ MineKept(j)
      BY <2>1, <2>2, <2>3, PutValues DEF MineKept, Mine, Remove, Absent
    <2> QED
      BY <1>8, <2>1, <2>2, <2>4 DEF Unfinished, Releasing
  <1>12. ASSUME NEW pc \in LaunchPc, LaunchStep(j, pc), UNCHANGED reg,
                launch[j].pc \in Unfinished \cup Releasing,
                rec'[j].state # "none", rec'[j].att = 1,
                Late => op[j].pc = "idle" \/ (launch[j].pc \in Releasing /\ rec'[j].outcome = 1),
                pc \in {"running", "releasing", "done"},
                pc = "releasing" => rec'[j].state = "terminal" /\ rec'[j].outcome = 1
                                    /\ (Late => op[j].pc = "idle"),
                rec'[j].active \/ ~Mine(j) \/ ~Readable
         PROVE  RecordSound(j)'
    <2>1. launch'[j].pc = pc /\ OwnerOf(j)' = OwnerOf(j) /\ KeyOf(j)' = KeyOf(j)
      BY <1>12, LaunchStepValues DEF OwnerOf, KeyOf
    <2>4. Readable' => launch'[j].pc # "closing"
      BY <1>12, <2>1
    <2>2. LaunchSaved(j)'
      BY <1>1, <1>12, <2>1, <2>4 DEF LaunchSaved, Unfinished, Releasing, Late
    <2>3. op[j].pc \notin RetryPc
      BY <1>0, <1>12 DEF Unfinished, Releasing
    <2> QED
      BY <1>0, <1>1, <1>12, <2>1, <2>2, <2>3, RecOwnCopy
  <1>13. Late /\ launch[j].pc \in Unfinished => op[j].pc = "idle"
    BY <1>0 DEF RecordSound, LaunchSaved
  <1>14. CASE LaunchRecordRunning(j)
    <2>1. /\ rec'[j].state = "running" /\ rec'[j].att = 1 /\ rec'[j].active
          /\ launch[j].pc = "started" /\ LaunchStep(j, "running") /\ UNCHANGED reg
      BY <1>14 DEF LaunchRecordRunning, Launching, FirstRecord, TypeOK, registry
    <2> QED
      BY <1>12, <1>13, <2>1 DEF Unfinished, LaunchPc
  <1>15. CASE PrestartRecord(j)
    <2>1. /\ rec'[j].state = "terminal" /\ rec'[j].att = 1 /\ rec'[j].active /\ rec'[j].outcome = 1
          /\ launch[j].pc = "prestart" /\ LaunchStep(j, "releasing") /\ UNCHANGED reg
      BY <1>15 DEF PrestartRecord, Launching, FirstRecord, TypeOK, registry
    <2> QED
      BY <1>12, <1>13, <2>1 DEF Unfinished, LaunchPc
  <1>16. CASE PrestartClose(j)
    <2>1. /\ rec'[j].state = "terminal" /\ rec'[j].att = 1 /\ rec'[j].outcome = 1
          /\ rec'[j].active = (launch[j].pc = "keeping")
          /\ launch[j].pc \in {"forgetting", "keeping", "closing"}
          /\ LaunchStep(j, "done") /\ UNCHANGED reg
      BY <1>16 DEF PrestartClose, FirstRecord, TypeOK, registry
    <2>2. rec'[j].active \/ ~Mine(j) \/ ~Readable
      BY <1>0, <2>1, NothingStarted DEF Releasing, RecordSound, LaunchSaved
    <2> QED
      BY <1>12, <2>1, <2>2 DEF Releasing, LaunchPc
  <1> QED
    BY <1>3, <1>4, <1>5, <1>6, <1>7, <1>9, <1>10, <1>11, <1>14, <1>15, <1>16 DEF LaunchNext

\* A retry leaves its job's record true if what it leaves behind is.
LEMMA RecRetry ==
    ASSUME NEW j \in Job, RecordSound(j), UNCHANGED <<inst, launch>>, launch[j].pc \notin Unfinished,
           launch[j].pc \notin Releasing,
           rec'[j].state # "none", op'[j].pc \in {"idle"} \cup RetryPc,
           RetrySaves(j)', (TrueOf(j, rec[j]))', Untorn => Recorded(j)', Mine(j)' => Mine(j),
           launch[j].pc = "running" => rec'[j].att = 1
    PROVE  RecordSound(j)'
  <1>1. LaunchSaved(j)'
    BY DEF RecordSound, LaunchSaved
  <1>2. CallSaves(j)' /\ CallReturns(j)'
    BY DEF CallSaves, CallReturns, ToFinish, RetryPc, StatusPc
  <1>3. Untorn /\ Readable /\ Mine(j)' => inst'[OwnerOf(j)'] # "stopped"
    BY DEF RecordSound, OwnerOf
  <1> QED
    BY <1>1, <1>2, <1>3 DEF RecordSound, Untorn, Readable

\* A retry begins with the record of the attempt that is booked.
LEMMA RecRetryLook ==
    ASSUME TypeOK, LeaseInv, OwnerInv, RecInv, NEW j \in Job, NEW s \in Server, RetryLook(j, s)
    PROVE  RecordSound(j)'
  <1>0. RecordSound(j) /\ OwnerSound(j)
    BY DEF RecInv, OwnerInv
  <1>1. /\ rec[j].state # "none" /\ op[j].pc = "idle" /\ MayManage(s, j)
        /\ Owns(s, KeyOf(j)) /\ reg[KeyOf(j)].job = j /\ reg[KeyOf(j)].att = rec[j].att
        /\ "gone" \in Verdicts(reg[KeyOf(j)].pid)
        /\ UNCHANGED <<inst, reg, rec, launch>>
    BY DEF RetryLook, MayChange, MayManage, Serves, registry
  <1> PICK a \in Attempt, record \in Resolved(j) :
        /\ a # record.att
        /\ op' = [op EXCEPT ![j] = [pc |-> "claim", srv |-> s,
                                    write |-> [record EXCEPT !.att = a, !.pid = NoPid],
                                    source |-> record, meta |-> reg[KeyOf(j)], then |-> "idle"]]
    BY DEF RetryLook
  <1>2. Mine(j) /\ Matches(j, rec[j])
    BY <1>0, <1>1, ManagedKey DEF Mine, Owns, OwnerSound, Matches
  <1>3. Copy(j, record) /\ (Readable /\ rec[j].active => record.active)
    BY <1>1, <1>2, ResolvedCopy
  <1>4. Readable => rec[j].active /\ record.active
    BY <1>0, <1>1, <1>2, <1>3 DEF RecordSound, TrueOf
  <1> PICK w : w = [record EXCEPT !.att = a, !.pid = NoPid]
    OBVIOUS
  <1>5. w.state # "none" /\ w.att = a /\ (record.active => w.active)
    BY <1>3 DEF Copy, Record
  <1>6. /\ op'[j].pc = "claim" /\ op'[j].write = w /\ op'[j].source = record
        /\ op'[j].meta = reg[KeyOf(j)]
    BY DEF TypeOK
  <1>7. RetrySaves(j)'
    BY <1>1, <1>3, <1>4, <1>5, <1>6 DEF RetrySaves, Copy, RetryPc, Readable
  <1>8. (TrueOf(j, rec[j]))' /\ (Mine(j)' => Mine(j))
    BY <1>0, <1>1 DEF RecordSound, TrueOf, Mine, KeyOf, Readable
  <1>9. Untorn => Recorded(j)'
    BY <1>1 DEF Recorded, Mine, KeyOf, OwnerOf
  <1>10. launch[j].pc \notin Releasing
    BY <1>1, <1>2, NothingStarted
  <1>11. launch[j].pc \notin Unfinished /\ (launch[j].pc = "running" => rec[j].att = 1)
    <2>1. launch[j].pc \in LaunchHolds => reg[KeyOf(j)].pid = NoPid
      BY DEF LeaseInv, JobSound, LaunchSound, BookedNoPid
    <2>2. reg[KeyOf(j)].pid # NoPid
      BY <1>1 DEF Verdicts
    <2> QED
      BY <2>1, <2>2 DEF LaunchHolds, Unfinished
  <1> QED
    BY <1>0, <1>1, <1>6, <1>7, <1>8, <1>9, <1>10, <1>11, RecRetry DEF RetryPc

\* What a retry under way knows of its job's record.
LEMMA RetryRecord ==
    ASSUME TypeOK, LeaseInv, RecInv, NEW j \in Job, op[j].pc \in RetryPc
    PROVE  /\ RecordSound(j) /\ RetrySaves(j) /\ KeyOf(j) \in Key
           /\ launch[j].pc = "done" /\ op[j].pc # "idle"
           /\ reg[KeyOf(j)] \in Reservation
           /\ op[j].pc \notin {"claimed", "rolledback"} => (Untorn => Recorded(j))
           /\ op[j].write \in Record
  <1>1. RecordSound(j) /\ KeyOf(j) \in Key /\ launch[j].pc = "done"
    BY RetryKnows DEF RecInv
  <1>2. op[j].write \in Record
    BY ReadTypes
  <1> QED
    BY <1>1, <1>2 DEF RecordSound, RetryPc, TypeOK

\* A retry goes on with a record of the same attempts.
LEMMA RecRetryGoes ==
    ASSUME TypeOK, LeaseInv, RecInv, NEW j \in Job, op[j].pc \in RetryPc, RetryNext(j)
    PROVE  RecordSound(j)'
  <1>0. /\ RetrySaves(j) /\ KeyOf(j) \in Key /\ launch[j].pc = "done"
        /\ op[j].write \in Record /\ reg[KeyOf(j)] \in Reservation /\ CallSound(j)
        /\ (op[j].pc \notin {"claimed", "rolledback"} => (Untorn => Recorded(j)))
    BY RetryRecord, RetryKnows
  <1>1. UNCHANGED <<inst, launch>>
    BY RetryActs DEF Acts
  <1>2. ASSUME UNCHANGED reg \/ (\E r : Put(KeyOf(j), r) /\ r.job = j /\ r.dir = "held"),
               (reg[KeyOf(j)].job = j /\ reg[KeyOf(j)].dir = "held") \/ UNCHANGED reg,
               rec'[j].state # "none", op'[j].pc \in {"idle"} \cup RetryPc, RetrySaves(j)',
               Readable => rec'[j].active, Untorn => Recorded(j)'
        PROVE  RecordSound(j)'
    <2>1. Mine(j)' => Mine(j)
      BY <1>0, <1>1, <1>2 DEF Mine, KeyOf
    <2>2. (TrueOf(j, rec[j]))'
      BY <1>2 DEF TrueOf, Readable
    <2> QED
      BY <1>0, <1>1, <1>2, <2>1, <2>2, RecRetry, RetryRecord DEF Unfinished, Releasing
  <1>3. ASSUME UNCHANGED <<reg, rec>>, OpDone(j), op[j].pc \notin {"claimed", "rolledback"}
        PROVE  RecordSound(j)'
    <2>1. op'[j].pc = "idle"
      BY <1>3, OpDoneValues DEF NoOperation
    <2>2. Untorn => Recorded(j)'
      BY <1>0, <1>1, <1>3, <2>1 DEF Recorded, Mine, KeyOf, OwnerOf
    <2>3. RetrySaves(j)'
      BY <2>1 DEF RetrySaves, RetryPc
    <2> QED
      BY <1>0, <1>2, <1>3, <2>1, <2>2, <2>3 DEF RetrySaves
  <1>4. CASE ClaimRecord(j)
    <2>1. UNCHANGED reg /\ op[j].pc = "claim"
      BY <1>4 DEF ClaimRecord, Doing, registry
    <2>2. CASE OpDone(j) /\ UNCHANGED rec
      BY <1>3, <2>1, <2>2
    <2>3. CASE rec' = [rec EXCEPT ![j] = op[j].write] /\ OpStep(j, "claimed")
      <3>1. /\ rec'[j] = op[j].write /\ op'[j].pc = "claimed" /\ op'[j].write = op[j].write
            /\ op'[j].source = op[j].source /\ op'[j].meta = op[j].meta
        BY <2>3, OpStepValues DEF TypeOK
      <3>2. RetrySaves(j)'
        BY <1>0, <3>1, <2>1 DEF RetrySaves, RetryPc, Readable
      <3>3. Recorded(j)'
        BY <3>1 DEF Recorded
      <3> QED
        BY <1>0, <1>2, <2>1, <3>1, <3>2, <3>3 DEF RetrySaves, RetryPc
    <2> QED
      BY <1>4, <2>2, <2>3 DEF ClaimRecord
  <1>5. CASE ClaimMetadata(j)
    <2>1. op[j].pc = "claimed" /\ rec' = rec /\ OpStep(j, "spawn")
      BY <1>5 DEF ClaimMetadata, Doing
    <2>2. reg[KeyOf(j)].job = j /\ reg[KeyOf(j)].dir = "held"
      BY <1>0, <2>1 DEF CallSound, RetryPc
    <2> DEFINE r == [reg[KeyOf(j)] EXCEPT !.att = op[j].write.att, !.pid = NoPid]
    <2>3. Put(KeyOf(j), r)
      BY <1>5 DEF ClaimMetadata
    <2>4. r.job = j /\ r.dir = "held" /\ r.att = op[j].write.att
      BY <1>0, <2>2 DEF Reservation
    <2> HIDE DEF r
    <2>5. /\ op'[j].pc = "spawn" /\ op'[j].write = op[j].write
          /\ op'[j].source = op[j].source /\ op'[j].meta = op[j].meta
      BY <2>1, OpStepValues
    <2>6. RetrySaves(j)'
      BY <1>0, <2>1, <2>5 DEF RetrySaves, RetryPc, Readable
    <2>7. reg'[KeyOf(j)].att = op[j].write.att
      BY <1>0, <2>3, <2>4, PutValues
    <2>8. Recorded(j)'
      BY <1>0, <1>1, <2>1, <2>7 DEF Recorded, RetrySaves, RetryPc, KeyOf
    <2> QED
      BY <1>0, <1>2, <2>1, <2>2, <2>3, <2>4, <2>5, <2>6, <2>8 DEF RetrySaves, RetryPc
  <1>6. CASE ClaimFails(j)
    <2>1. op[j].pc = "claimed" /\ OpDone(j) /\ UNCHANGED reg
      BY <1>6 DEF ClaimFails, Doing, registry
    <2>2. op'[j].pc = "idle"
      BY <2>1, OpDoneValues DEF NoOperation
    <2>3. RetrySaves(j)'
      BY <2>2 DEF RetrySaves, RetryPc
    <2>4. CASE rec' = [rec EXCEPT ![j] = op[j].source]
      <3>1. rec'[j] = op[j].source
        BY <2>4 DEF TypeOK
      <3>2. reg[KeyOf(j)].att = op[j].source.att
        BY <1>0, <2>1 DEF CallSound, RetrySaves, RetryPc
      <3>3. Recorded(j)'
        BY <1>0, <1>1, <2>1, <3>1, <3>2 DEF Recorded, RetrySaves, RetryPc, KeyOf
      <3> QED
        BY <1>0, <1>2, <2>1, <2>2, <2>3, <3>1, <3>3 DEF RetrySaves, RetryPc
    <2>5. CASE ~Untorn /\ UNCHANGED rec
      BY <1>0, <1>2, <2>1, <2>2, <2>3, <2>5 DEF RetrySaves, RetryPc
    <2> QED
      BY <1>6, <2>4, <2>5 DEF ClaimFails, Untorn
  <1>7. ASSUME NEW to \in {"sent", "rollback", "finalize"}, OpStep(j, to), UNCHANGED <<reg, rec>>,
               op[j].pc \in {"spawn", "sent"}
        PROVE  RecordSound(j)'
    <2>1. /\ op'[j].pc = to /\ op'[j].write = op[j].write
          /\ op'[j].source = op[j].source /\ op'[j].meta = op[j].meta
      BY <1>7, OpStepValues
    <2>2. RetrySaves(j)'
      BY <1>0, <1>7, <2>1 DEF RetrySaves, RetryPc, Readable
    <2>3. Untorn => Recorded(j)'
      BY <1>0, <1>1, <1>7, <2>1 DEF Recorded, Mine, KeyOf, OwnerOf
    <2> QED
      BY <1>0, <1>2, <1>7, <2>1, <2>2, <2>3 DEF RetrySaves, RetryPc
  <1>8. CASE RetrySend(j) \/ RetryFailsBeforeStart(j) \/ RetryAcknowledged(j)
    BY <1>7, <1>8 DEF RetrySend, RetryFailsBeforeStart, RetryAcknowledged, Doing, registry
  <1>9. CASE RetryReplyLost(j)
    BY <1>3, <1>9 DEF RetryReplyLost, Doing, registry
  <1>10. CASE RollbackRecord(j)
    <2>1. UNCHANGED reg /\ op[j].pc = "rollback"
      BY <1>10 DEF RollbackRecord, Doing, registry
    <2>2. CASE OpDone(j) /\ UNCHANGED rec
      BY <1>3, <2>1, <2>2
    <2>3. CASE rec' = [rec EXCEPT ![j] = op[j].source] /\ OpStep(j, "rolledback")
      <3>1. /\ rec'[j] = op[j].source /\ op'[j].pc = "rolledback" /\ op'[j].write = op[j].write
            /\ op'[j].source = op[j].source /\ op'[j].meta = op[j].meta
        BY <2>3, OpStepValues DEF TypeOK
      <3>2. RetrySaves(j)'
        BY <1>0, <3>1, <2>1 DEF RetrySaves, RetryPc, Readable
      <3>3. Recorded(j)'
        BY <3>1 DEF Recorded
      <3> QED
        BY <1>0, <1>2, <2>1, <3>1, <3>2, <3>3 DEF RetrySaves, RetryPc
    <2> QED
      BY <1>10, <2>2, <2>3 DEF RollbackRecord
  <1>11. CASE RollbackMetadata(j)
    <2>1. op[j].pc = "rolledback" /\ OpDone(j) /\ rec' = rec
      BY <1>11 DEF RollbackMetadata, Doing
    <2>2. op'[j].pc = "idle"
      BY <2>1, OpDoneValues DEF NoOperation
    <2>3. RetrySaves(j)'
      BY <2>2 DEF RetrySaves, RetryPc
    <2>4. /\ op[j].meta.job = j /\ op[j].meta.dir = "held"
          /\ reg[KeyOf(j)].job = j /\ reg[KeyOf(j)].dir = "held"
      BY <1>0, <2>1 DEF CallSound, CallHolds, BookedNoPid, Booked, RetryPc
    <2>5. CASE Put(KeyOf(j), op[j].meta)
      <3>1. reg'[KeyOf(j)].att = op[j].meta.att
        BY <1>0, <2>5, PutValues
      <3>2. Recorded(j)'
        BY <1>0, <1>1, <2>1, <3>1 DEF Recorded, RetrySaves, RetryPc, KeyOf
      <3> QED
        BY <1>0, <1>2, <2>1, <2>2, <2>3, <2>4, <2>5, <3>2 DEF RetrySaves, RetryPc
    <2>6. CASE ~Untorn /\ UNCHANGED reg
      BY <1>0, <1>2, <2>1, <2>2, <2>3, <2>6 DEF RetrySaves, RetryPc
    <2> QED
      BY <1>11, <2>5, <2>6 DEF RollbackMetadata, Untorn, registry
  <1>12. CASE FinalizeRecord(j)
    <2>1. UNCHANGED reg /\ op[j].pc = "finalize"
      BY <1>12 DEF FinalizeRecord, Doing, registry
    <2>2. CASE OpDone(j) /\ UNCHANGED rec
      BY <1>3, <2>1, <2>2
    <2>3. CASE rec' = [rec EXCEPT ![j] = [op[j].write EXCEPT !.pid = RetryProcess(j)]]
               /\ OpStep(j, "finalized")
      <3>1. /\ op'[j].pc = "finalized" /\ op'[j].write = op[j].write
            /\ op'[j].source = op[j].source /\ op'[j].meta = op[j].meta
        BY <2>3, OpStepValues
      <3>2. /\ rec'[j].state = op[j].write.state /\ rec'[j].att = op[j].write.att
            /\ (op[j].write.active => rec'[j].active)
        BY <1>0, <2>3 DEF TypeOK, Record
      <3>3. RetrySaves(j)'
        BY <1>0, <2>1, <3>1, <3>2 DEF RetrySaves, RetryPc, Readable
      <3>4. Untorn => Recorded(j)'
        BY <1>0, <1>1, <2>1, <3>1, <3>2 DEF Recorded, RetrySaves, RetryPc, Mine, KeyOf, OwnerOf
      <3> QED
        BY <1>0, <1>2, <2>1, <3>1, <3>2, <3>3, <3>4 DEF RetrySaves, RetryPc
    <2> QED
      BY <1>12, <2>2, <2>3 DEF FinalizeRecord
  <1>13. CASE FinalizeMetadata(j)
    <2>1. op[j].pc = "finalized" /\ OpDone(j) /\ rec' = rec
      BY <1>13 DEF FinalizeMetadata, Doing
    <2>2. reg[KeyOf(j)].job = j /\ reg[KeyOf(j)].dir = "held" /\ reg[KeyOf(j)].att = op[j].write.att
      BY <1>0, <2>1 DEF CallSound, CallHolds, BookedNoPid, Booked, RetryPc
    <2> DEFINE r == [reg[KeyOf(j)] EXCEPT !.pid = RetryProcess(j)]
    <2>3. UNCHANGED reg \/ Put(KeyOf(j), r)
      BY <1>13 DEF FinalizeMetadata, registry
    <2>4. r.job = j /\ r.dir = "held" /\ r.att = op[j].write.att
      BY <1>0, <2>2 DEF Reservation
    <2> HIDE DEF r
    <2>5. op'[j].pc = "idle"
      BY <2>1, OpDoneValues DEF NoOperation
    <2>6. RetrySaves(j)'
      BY <2>5 DEF RetrySaves, RetryPc
    <2>7. reg'[KeyOf(j)].att = op[j].write.att
      BY <1>0, <2>2, <2>3, <2>4, PutValues
    <2>8. Recorded(j)'
      BY <1>0, <1>1, <2>1, <2>7 DEF Recorded, RetrySaves, RetryPc, KeyOf
    <2> QED
      BY <1>0, <1>2, <2>1, <2>2, <2>3, <2>4, <2>5, <2>6, <2>8 DEF RetrySaves, RetryPc
  <1>14. ASSUME NEW s \in Server
         PROVE  ~RetryLook(j, s)
    BY DEF RetryLook, MayChange, MayManage, RetryPc
  <1> QED
    BY <1>4, <1>5, <1>6, <1>8, <1>9, <1>10, <1>11, <1>12, <1>13, <1>14 DEF RetryNext

\* A retry keeps its job's record true.
LEMMA RecRetried ==
    ASSUME TypeOK, LeaseInv, OwnerInv, RecInv, NEW j \in Job, RetryNext(j)
    PROVE  RecordSound(j)'
  <1>1. op[j].pc \in RetryPc \/ \E s \in Server : RetryLook(j, s)
    BY DEF RetryNext, ClaimRecord, ClaimMetadata, ClaimFails, RetrySend, RetryFailsBeforeStart,
       RetryReplyLost, RetryAcknowledged, RollbackRecord, RollbackMetadata, FinalizeRecord,
       FinalizeMetadata, Doing, RetryPc
  <1> QED
    BY <1>1, RecRetryLook, RecRetryGoes

\* A backend that ends takes its launches and calls along, and one that ends in
\* good order leaves nothing behind.
LEMMA RecServers ==
    ASSUME TypeOK, LeaseInv, OwnerInv, RecInv, NEW s \in Server, ServerNext(s)
    PROVE  RecInv'
  <1>1. CASE Quarantine(s)
    <2> SUFFICES ASSUME NEW j \in Job
                 PROVE  RecordSound(j)'
      BY DEF RecInv
    <2>1. look[s].key \in Key /\ UNCHANGED <<inst, rec, launch, op>>
      BY <1>1 DEF Quarantine, LeaseInv, IdsKnown
    <2>2. UNCHANGED reg \/ Remove(look[s].key)
      BY <1>1 DEF Quarantine, registry
    <2>3. MineKept(j)
      BY <2>1, <2>2, PutValues DEF Remove, MineKept, Mine, KeyOf, Absent
    <2> QED
      BY <2>1, <2>3, RecFrame DEF RecInv
  <1>2. ASSUME Start(s), NEW j \in Job
        PROVE  RecordSound(j)'
    <2>1. /\ UNCHANGED <<reg, rec, launch, op>> /\ inst[s] = "new"
          /\ inst' = [inst EXCEPT ![s] = "up"]
      BY <1>2 DEF Start, registry
    <2>2. MineKept(j)
      BY <2>1 DEF MineKept, Mine, KeyOf
    <2>3. Mine(j)' => inst[OwnerOf(j)] # "new"
      BY <2>1, ConstantsAssumption DEF Mine, KeyOf, LeaseInv, IdsKnown, JobKnown, LaunchKnown,
         NoLaunch, OwnerInv, OwnerSound
    <2>4. Mine(j)' => inst'[OwnerOf(j)] = inst[OwnerOf(j)]
      BY <2>1, <2>3 DEF TypeOK
    <2> QED
      BY <2>1, <2>2, <2>4, RecFrame DEF RecInv
  <1>3. ASSUME NEW how \in {"dead", "stopped"}, Ends(s, how), NEW j \in Job,
               how = "stopped" /\ OwnerOf(j) = s /\ Untorn /\ Readable => ~Mine(j)
        PROVE  RecordSound(j)'
    <2>0. RecordSound(j) /\ OwnerSound(j) /\ LaunchKnown(j)
      BY DEF RecInv, OwnerInv, LeaseInv, IdsKnown, JobKnown
    <2>1. UNCHANGED <<reg, rec>> /\ inst' = [inst EXCEPT ![s] = how]
      BY <1>3 DEF Ends, registry
    <2>2. KeyOf(j)' = KeyOf(j) /\ OwnerOf(j)' = OwnerOf(j)
      BY <1>3, EndsValues DEF KeyOf, OwnerOf
    <2>3. launch'[j] = launch[j] \/ (launch'[j].pc = "done" /\ OwnerOf(j) = s)
      BY <1>3, EndsValues DEF OwnerOf
    <2>4. op'[j] = IF op[j].srv = s THEN NoOperation ELSE op[j]
      BY <1>3 DEF Ends
    <2>5. op'[j] = op[j] \/ op'[j].pc = "idle"
      BY <2>4 DEF NoOperation
    <2>6. Mine(j)' => Mine(j)
      BY <2>1, <2>2 DEF Mine
    <2>7. (rec[j].state # "none" => TrueOf(j, rec[j]))'
      BY <2>0, <2>1, <2>2, <2>6 DEF RecordSound, TrueOf, Readable
    <2>8. LaunchSaved(j)'
      BY <2>0, <2>1, <2>3, <2>5 DEF RecordSound, LaunchSaved, Unfinished, Releasing, Late
    <2>9. CallSaves(j)' /\ CallReturns(j)'
      <3>1. CASE op'[j].pc = "idle"
        BY <3>1, NothingLeft
      <3>2. CASE op'[j] = op[j]
        <4>1. CallSaves(j)'
          BY <2>0, <2>1, <2>2, <2>6, <3>2 DEF RecordSound, CallSaves, TrueOf, Saves, Readable, Late
        <4>2. CallReturns(j)'
          BY <2>0, <2>1, <2>2, <2>6, <3>2 DEF RecordSound, CallReturns, ToFinish, TrueOf, Saves,
             Readable, Late
        <4> QED
          BY <4>1, <4>2
      <3> QED
        BY <2>5, <3>1, <3>2
    <2>10. RetrySaves(j)'
      BY <2>0, <2>1, <2>5 DEF RecordSound, RetrySaves, RetryPc, Readable
    <2>11. Mine(j)' => OwnerOf(j) \in Server
      BY <2>0, <2>6, ConstantsAssumption DEF Mine, KeyOf, LaunchKnown, NoLaunch
    <2>12. Untorn => Recorded(j)'
      <3> SUFFICES ASSUME Untorn, Mine(j)', inst'[OwnerOf(j)'] = "up", launch'[j].pc # "acquired",
                          op'[j].pc \notin {"claimed", "rolledback"}
                   PROVE  rec'[j].state # "none" /\ rec'[j].att = reg'[KeyOf(j)'].att
        BY DEF Recorded
      <3>1. OwnerOf(j) # s /\ inst[OwnerOf(j)] = "up"
        BY <2>1, <2>2, <2>11 DEF TypeOK
      <3>2. launch'[j] = launch[j]
        BY <2>3, <3>1
      <3>3. op[j].pc \notin {"claimed", "rolledback"}
        <4>1. op[j].srv = s => op[j].pc \notin RetryPc
          BY <2>0, <3>1 DEF OwnerSound
        <4> QED
          BY <2>4, <4>1 DEF RetryPc
      <3> QED
        BY <2>0, <2>1, <2>2, <2>6, <3>1, <3>2, <3>3 DEF RecordSound, Recorded
    <2>13. Untorn /\ Readable /\ Mine(j)' => inst'[OwnerOf(j)'] # "stopped"
      BY <1>3, <2>0, <2>1, <2>2, <2>6, <2>11 DEF RecordSound, TypeOK
    <2> QED
      BY <2>7, <2>8, <2>9, <2>10, <2>12, <2>13 DEF RecordSound, Untorn, Readable
  <1>4. ASSUME Shutdown(s), NEW j \in Job, OwnerOf(j) = s, Untorn, Readable
        PROVE  ~Mine(j)
    <2>0. RecordSound(j) /\ OwnerSound(j)
      BY DEF RecInv, OwnerInv
    <2>1. op[j].pc \notin RetryPc
      BY <1>4, <2>0 DEF Shutdown, OwnerSound
    <2>2. Mine(j) => rec[j].state # "none" /\ rec[j].att = reg[KeyOf(j)].att
      BY <1>4, <2>0, <2>1 DEF RecordSound, Recorded, Shutdown, RetryPc
    <2> QED
      BY <1>4, <2>0, <2>2 DEF RecordSound, TrueOf, Shutdown
  <1>5. CASE Crash(s)
    BY <1>3, <1>5 DEF Crash, RecInv
  <1>6. CASE Shutdown(s)
    <2>1. Ends(s, "stopped")
      BY <1>6 DEF Shutdown
    <2> QED
      BY <1>3, <1>4, <1>6, <2>1 DEF RecInv
  <1> QED
    BY <1>1, <1>2, <1>5, <1>6 DEF ServerNext, RecInv

\* Every step leaves every record true.
LEMMA RecStep ==
    ASSUME TypeOK, LeaseInv, OwnerInv, RecInv, [Next]_vars
    PROVE  RecInv'
  <1>1. ASSUME UNCHANGED <<inst, reg, rec, launch, op>>
        PROVE  RecInv'
    <2> SUFFICES ASSUME NEW j \in Job
                 PROVE  RecordSound(j)'
      BY DEF RecInv
    <2> QED
      BY <1>1, RecFrame DEF RecInv, MineKept, Mine, KeyOf
  <1>2. ASSUME NEW j \in Job, LaunchNext(j) \/ ManageNext(j) \/ RetryNext(j)
        PROVE  RecInv'
    <2>1. RecordSound(j)'
      BY <1>2, RecLaunched, RecManaged, RecRetried
    <2>2. Acts(j)
      BY <1>2, LaunchActs, ManageActs, RetryActs
    <2> QED
      BY <2>1, <2>2, RecOthers DEF RecInv
  <1>3. ASSUME NEW k \in Key, LeaseNext(k)
        PROVE  RecInv'
    BY <1>1, <1>3 DEF LeaseNext, Heartbeat, HeartbeatFails, InspectStale, Lapse, registry
  <1>4. ASSUME NEW p \in Process, HostNext(p)
        PROVE  RecInv'
    BY <1>1, <1>4 DEF HostNext, SupervisorStarts, CommandLost, ProgramEnds,
       SupervisorExits, HostLost, OrphanEnds, ProcStep, registry
  <1>5. ASSUME NEW j \in Job, KillSupervisor(j)
        PROVE  RecInv'
    BY <1>1, <1>5 DEF KillSupervisor, ProcStep, registry
  <1>6. CASE UNCHANGED vars
    BY <1>1, <1>6 DEF vars
  <1> QED
    BY <1>2, <1>3, <1>4, <1>5, <1>6, RecServers DEF Next

\* Records are as RecordSound says they are, whatever faults the parts of it
\* that name one allow.
THEOREM RecordsTrue ==
    ASSUME NoMisread
    PROVE  Spec => [](TypeOK /\ LeaseInv /\ OwnerInv /\ RecInv)
  <1>1. Init => RecInv
    <2> SUFFICES ASSUME Init, NEW j \in Job
                 PROVE  RecordSound(j)
      BY DEF RecInv
    <2>1. /\ rec[j] = NoRecord /\ launch[j] = NoLaunch /\ op[j].pc = "idle"
          /\ KeyOf(j) = NoKey
      BY DEF Init, NoOperation, NoLaunch, KeyOf
    <2>2. ~Mine(j) /\ rec[j].state = "none" /\ launch[j].pc = "idle"
      BY <2>1, ConstantsAssumption DEF Mine, NoRecord, NoLaunch
    <2> QED
      BY <2>1, <2>2 DEF RecordSound, LaunchSaved, CallSaves, CallReturns, ToFinish, RetrySaves,
         Recorded, StatusPc, RetryPc, Unfinished, Releasing
  <1>2. TypeOK /\ LeaseInv /\ OwnerInv /\ RecInv /\ [Next]_vars => RecInv'
    BY RecStep
  <1> QED
    BY <1>1, <1>2, OwnersKept, PTL DEF Spec

\* A record that says its reservation is gone tells the truth, as long as
\* metadata can be read.
THEOREM InactiveTrue ==
    ASSUME NoMisread, Readable
    PROVE  Spec => []InactiveMeansReleased
  <1>1. TypeOK /\ LeaseInv /\ RecInv => InactiveMeansReleased
    <2> SUFFICES ASSUME TypeOK, LeaseInv, RecInv, NEW j \in Job,
                        rec[j].state # "none", ~rec[j].active, reg[KeyOf(j)].dir = "held",
                        reg[KeyOf(j)].job = j, reg[KeyOf(j)].att = rec[j].att
                 PROVE  FALSE
      BY DEF InactiveMeansReleased
    <2>1. KeyOf(j) \in Key
      BY DEF LeaseInv, IdsKnown, JobKnown, LaunchKnown, Unrecorded
    <2> QED
      BY <2>1 DEF RecInv, RecordSound, TrueOf, Mine
  <1> QED
    BY <1>1, RecordsTrue, PTL

\* A backend that has stopped in good order leaves no booking of its own, as long
\* as metadata can be read and a failed retry puts back what it has written.
THEOREM ShutdownClean ==
    ASSUME NoMisread, Readable, Untorn
    PROVE  Spec => []ShutdownLeavesNoBooking
  <1>1. TypeOK /\ LeaseInv /\ OwnerInv /\ RecInv => ShutdownLeavesNoBooking
    <2> SUFFICES ASSUME LeaseInv, OwnerInv, RecInv, NEW k \in Key, reg[k].dir = "held"
                 PROVE  inst[reg[k].srv] # "stopped"
      BY DEF ShutdownLeavesNoBooking
    <2> PICK j \in Job : j = reg[k].job
      BY DEF LeaseInv, BookingSound
    <2>1. KeyOf(j) = k /\ Mine(j)
      BY DEF LeaseInv, BookingSound, Mine
    <2> QED
      BY <2>1 DEF OwnerInv, OwnerSound, RecInv, RecordSound
  <1> QED
    BY <1>1, RecordsTrue, PTL

-----------------------------------------------------------------------------
(* What no step does to a result.                                           *)

\* A launch that gives its booking up started nothing, or has saved that.
LEMMA LaunchGivesUp ==
    ASSUME TypeOK, LeaseInv, RecInv, Late, NEW j \in Job, LaunchNext(j), NEW k \in Key,
           reg[k].dir = "held", reg'[k].dir = "absent", proc[<<reg[k].job, reg[k].att>>] # "none"
    PROVE  rec[reg[k].job].att = reg[k].att /\ rec[reg[k].job].state \in {"terminal", "finished"}
  <1>0. LaunchKnown(j) /\ LaunchSound(j) /\ RecordSound(j)
    BY DEF LeaseInv, IdsKnown, JobKnown, JobSound, RecInv
  <1>1. ASSUME NEW s \in Server, NEW l \in Key
        PROVE  ~LaunchBegin(j, s, l)
    BY PutValues DEF LaunchBegin, Empty, Absent
  <1>2. /\ launch[j].pc \in {"created", "acquired", "running", "releasing"}
        /\ \E r : Put(KeyOf(j), r)
    BY <1>1 DEF LaunchNext, LaunchWriteMetadata, LaunchMetadataFails, LaunchRecord,
       LaunchRecordFails, LaunchSend, LaunchFailsBeforeStart, LaunchReplyLost, LaunchAcknowledged,
       LaunchRecordRunning, LaunchRunningUnrecorded, LaunchRecordPid, PrestartRecord,
       PrestartRelease, PrestartClose, Launching, Remove, registry
  <1>3. KeyOf(j) \in Key
    BY <1>0, <1>2 DEF LaunchKnown
  <1>4. k = KeyOf(j)
    BY <1>2, <1>3, PutValues
  <1>5. launch[j].pc # "created"
    BY <1>0, <1>4 DEF LaunchSound, Empty, Absent
  <1>6. reg[k].job = j /\ reg[k].att = 1
    BY <1>0, <1>2, <1>4, <1>5 DEF LaunchSound, LaunchHolds, BookedNoPid, Booked
  <1>7. launch[j].pc # "acquired"
    <2>1. 1 \in Attempt
      BY ConstantsAssumption DEF Attempt
    <2> QED
      BY <1>0, <1>6, <2>1 DEF LaunchSound
  <1>8. launch[j].pc # "running"
    <2> SUFFICES ASSUME launch[j].pc = "running"
                 PROVE  FALSE
      OBVIOUS
    <2>1. LaunchRecordPid(j)
      BY <1>1 DEF LaunchNext, LaunchWriteMetadata, LaunchMetadataFails, LaunchRecord,
         LaunchRecordFails, LaunchSend, LaunchFailsBeforeStart, LaunchReplyLost, LaunchAcknowledged,
         LaunchRecordRunning, LaunchRunningUnrecorded, PrestartRecord,
         PrestartRelease, PrestartClose, Launching
    <2> DEFINE r == [reg[k] EXCEPT !.pid = <<j, 1>>]
    <2>2. reg'[k] = r
      BY <1>4, <2>1, PutValues DEF LaunchRecordPid, registry
    <2>3. r.dir = "held"
      BY DEF TypeOK, Reservation
    <2> QED
      BY <2>2, <2>3
  <1> QED
    BY <1>0, <1>2, <1>5, <1>6, <1>7, <1>8 DEF RecordSound, LaunchSaved, Releasing

\* A finish or a status answer gives up the booking of the attempt whose result
\* it has saved, or finds it stale.
LEMMA ManageGivesUp ==
    ASSUME TypeOK, LeaseInv, RecInv, Late, NEW j \in Job, ManageNext(j), NEW k \in Key,
           ~stale[k], ~SameBooking(k)
    PROVE  rec[reg[k].job].att = reg[k].att /\ rec[reg[k].job].state \in {"terminal", "finished"}
  <1>1. ReleaseOwned(j) \/ CleanupFormer(j)
    BY DEF ManageNext, StatusLook, StatusWith, RecoverFormer, FinishLook, Stop, UpdateCadence,
       OwnerCheckIn, SaveRecord, Unregister, RecordInactive, registry, SameBooking
  <1>2. ReleaseOwned(j) => Remove(KeyOf(j)) /\ MayRelease(j)
    BY DEF ReleaseOwned, registry, SameBooking
  <1>3. CleanupFormer(j) => Remove(KeyOf(j)) /\ stale[KeyOf(j)]
    BY DEF CleanupFormer, MayQuarantine, registry, SameBooking
  <1>4. op[j].pc # "idle"
    BY <1>1 DEF ReleaseOwned, CleanupFormer, Doing
  <1>5. KeyOf(j) \in Key
    BY <1>4, ManagedKey
  <1>6. k = KeyOf(j)
    BY <1>1, <1>2, <1>3, <1>5, PutValues DEF Remove, SameBooking
  <1>7. ReleaseOwned(j)
    BY <1>1, <1>3, <1>6
  <1>8. op[j].pc = "release" /\ reg[k].job = j /\ reg[k].att = op[j].write.att
    BY <1>2, <1>6, <1>7 DEF ReleaseOwned, MayRelease, Doing
  <1> QED
    BY <1>8 DEF RecInv, RecordSound, CallSaves, StatusPc

\* A retry gives no booking up.
LEMMA RetryHolds ==
    ASSUME TypeOK, LeaseInv, NEW j \in Job, RetryNext(j), NEW k \in Key, reg[k].dir = "held"
    PROVE  reg'[k].dir = "held"
  <1>1. CASE UNCHANGED reg
    BY <1>1
  <1>2. CASE ClaimMetadata(j) \/ RollbackMetadata(j) \/ FinalizeMetadata(j)
    <2>1. op[j].pc \in RetryPc /\ KeyOf(j) \in Key
      BY <1>2, RetryKnows DEF ClaimMetadata, RollbackMetadata, FinalizeMetadata, Doing, RetryPc
    <2>2. op[j].meta.dir = "held"
      BY <2>1, RetryKnows DEF CallSound
    <2> SUFFICES ASSUME k = KeyOf(j)
                 PROVE  reg'[k].dir = "held"
      BY <1>2, <2>1, PutValues DEF ClaimMetadata, RollbackMetadata, FinalizeMetadata, registry
    <2>3. CASE ClaimMetadata(j)
      <3> DEFINE r == [reg[k] EXCEPT !.att = op[j].write.att, !.pid = NoPid]
      <3>1. reg'[k] = r
        BY <2>3, PutValues DEF ClaimMetadata
      <3>2. r.dir = "held"
        BY DEF TypeOK, Reservation
      <3> QED
        BY <3>1, <3>2
    <2>4. CASE RollbackMetadata(j)
      BY <2>2, <2>4, PutValues DEF RollbackMetadata, registry
    <2>5. CASE FinalizeMetadata(j)
      <3> DEFINE r == [reg[k] EXCEPT !.pid = RetryProcess(j)]
      <3>1. reg'[k] = r \/ reg'[k] = reg[k]
        BY <2>5, PutValues DEF FinalizeMetadata, registry
      <3>2. r.dir = "held"
        BY DEF TypeOK, Reservation
      <3> QED
        BY <3>1, <3>2
    <2> QED
      BY <1>2, <2>3, <2>4, <2>5
  <1> QED
    BY <1>1, <1>2 DEF RetryNext, RetryLook, ClaimRecord, ClaimFails, RetrySend,
       RetryFailsBeforeStart, RetryReplyLost, RetryAcknowledged, RollbackRecord,
       FinalizeRecord, registry

\* An attempt's end is saved before its booking is given up, unless it is stale.
LEMMA SavedStep ==
    ASSUME TypeOK, LeaseInv, RecInv, Late, [Next]_vars, NEW k \in Key,
           reg[k].dir = "held", reg'[k].dir = "absent", ~stale[k],
           proc[<<reg[k].job, reg[k].att>>] # "none"
    PROVE  rec[reg[k].job].att = reg[k].att /\ rec[reg[k].job].state \in {"terminal", "finished"}
  <1>0. ~SameBooking(k)
    BY DEF SameBooking
  <1>1. ASSUME NEW j \in Job, LaunchNext(j) \/ ManageNext(j) \/ RetryNext(j)
        PROVE  /\ rec[reg[k].job].att = reg[k].att
               /\ rec[reg[k].job].state \in {"terminal", "finished"}
    BY <1>0, <1>1, LaunchGivesUp, ManageGivesUp, RetryHolds
  <1>2. ASSUME NEW l \in Key, LeaseNext(l)
        PROVE  FALSE
    BY <1>0, <1>2 DEF LeaseNext, Heartbeat, HeartbeatFails, InspectStale, Lapse, registry, SameBooking
  <1>3. ASSUME NEW s \in Server, ServerNext(s)
        PROVE  FALSE
    <2>1. CASE Quarantine(s)
      <3>1. look[s].key \in Key /\ stale[look[s].key] /\ Remove(look[s].key)
        BY <1>0, <2>1 DEF Quarantine, LeaseInv, IdsKnown, MayQuarantine, registry, SameBooking
      <3>2. k = look[s].key
        BY <1>0, <3>1, PutValues DEF Remove, SameBooking
      <3> QED
        BY <3>1, <3>2
    <2> QED
      BY <1>0, <1>3, <2>1 DEF ServerNext, Start, Crash, Shutdown, Ends, registry, SameBooking
  <1>4. ASSUME NEW p \in Process, HostNext(p)
        PROVE  FALSE
    BY <1>0, <1>4 DEF HostNext, SupervisorStarts, CommandLost, ProgramEnds,
       SupervisorExits, HostLost, OrphanEnds, ProcStep, registry, SameBooking
  <1>5. ASSUME NEW j \in Job, KillSupervisor(j)
        PROVE  FALSE
    BY <1>0, <1>5 DEF KillSupervisor, ProcStep, registry, SameBooking
  <1>6. CASE UNCHANGED vars
    BY <1>0, <1>6 DEF vars, SameBooking
  <1> QED
    BY <1>1, <1>2, <1>3, <1>4, <1>5, <1>6 DEF Next

\* The end of an attempt is saved before its booking is given up, when sessions
\* wait for the launch to return.
THEOREM SavedFirst ==
    ASSUME NoMisread, Late
    PROVE  Spec => ResultSavedBeforeRelease
  <1>1. TypeOK /\ LeaseInv /\ OwnerInv /\ RecInv /\ [Next]_vars =>
          [\A k \in Key : LET r == reg[k] IN
            /\ r.dir = "held" /\ reg'[k].dir = "absent"
            /\ ~stale[k]
            /\ proc[<<r.job, r.att>>] # "none"
            => rec[r.job].att = r.att /\ rec[r.job].state \in {"terminal", "finished"}]_vars
    BY SavedStep
  <1> QED
    BY <1>1, RecordsTrue, PTL DEF Spec, ResultSavedBeforeRelease

\* A launch that saves the record knows of no other result than its own.
LEMMA LaunchResult ==
    ASSUME TypeOK, LeaseInv, RecInv, Late, NEW j \in Job, LaunchNext(j),
           rec[j].outcome # 0, rec[j].outcome = rec[j].att
    PROVE  rec'[j].outcome = rec[j].outcome
  <1>0. RecordSound(j) /\ Unrecorded(j)
    BY DEF RecInv, LeaseInv, IdsKnown, JobKnown
  <1>1. launch[j].pc \notin {"acquired", "started", "prestart"}
    BY <1>0 DEF Unrecorded, RecordSound, LaunchSaved, NoRecord, FirstRecord, Unfinished
  <1>2. CASE PrestartClose(j)
    <2>1. launch[j].pc \in Releasing /\ rec'[j].outcome = 1
      BY <1>2 DEF PrestartClose, FirstRecord, TypeOK, Releasing
    <2> QED
      BY <1>0, <2>1 DEF RecordSound, LaunchSaved
  <1>3. CASE ~PrestartClose(j)
    <2>1. rec' = rec
      BY <1>1, <1>3 DEF LaunchNext, LaunchBegin, LaunchWriteMetadata, LaunchMetadataFails,
         LaunchRecord, LaunchRecordFails, LaunchSend, LaunchFailsBeforeStart, LaunchReplyLost,
         LaunchAcknowledged, LaunchRecordRunning, LaunchRunningUnrecorded, LaunchRecordPid,
         PrestartRecord, PrestartRelease, Launching
    <2> QED
      BY <2>1
  <1> QED
    BY <1>2, <1>3

\* What a call saves carries the result that the record holds.
LEMMA ManageResult ==
    ASSUME TypeOK, LeaseInv, OwnerInv, RecInv, Late, NEW j \in Job, ManageNext(j),
           rec[j].outcome # 0, rec[j].outcome = rec[j].att
    PROVE  rec'[j].outcome = rec[j].outcome
  <1>0. RecordSound(j)
    BY DEF RecInv
  <1>1. ASSUME NEW s \in Server, Stop(j, s) \/ UpdateCadence(j, s)
        PROVE  rec'[j].outcome = rec[j].outcome
    <2>1. PICK record \in Resolved(j) : rec' = [rec EXCEPT ![j] = record]
      BY <1>1 DEF Stop, UpdateCadence, OwnerCheckIn
    <2>2. record.outcome = rec[j].outcome
      BY <1>1, ResolvedCopy DEF Stop, UpdateCadence, MayChange, MayManage, Serves
    <2> QED
      BY <2>1, <2>2 DEF TypeOK
  <1>2. ASSUME NEW s \in Server, RecoverFormer(j, s)
        PROVE  rec'[j].outcome = rec[j].outcome
    <2>1. PICK outcome \in OutcomesRead(j, rec[j]) \ {0} :
            rec' = [rec EXCEPT ![j] = [@ EXCEPT !.state = "terminal", !.outcome = outcome]]
      BY <1>2 DEF RecoverFormer
    <2>2. rec'[j].outcome = outcome
      BY <2>1 DEF TypeOK, Record
    <2> QED
      BY <2>2 DEF OutcomesRead
  <1>3. CASE SaveRecord(j)
    <2>1. rec'[j].outcome = op[j].write.outcome /\ op[j].pc = "save"
      BY <1>3 DEF SaveRecord, Doing, TypeOK
    <2> QED
      BY <1>0, <2>1 DEF RecordSound, CallSaves, Saves, StatusPc
  <1>4. CASE RecordInactive(j)
    <2> PICK w : w = op[j].write
      OBVIOUS
    <2>1. w \in Record /\ w.att = rec[j].att /\ w.outcome = rec[j].outcome
      BY <1>0, <1>4, ReadTypes DEF RecordInactive, Doing, RecordSound, CallSaves, Saves, StatusPc
    <2>2. PICK outcome \in OutcomesRead(j, w) \cup {w.outcome} :
            rec' = [rec EXCEPT ![j] = [w EXCEPT !.active = FALSE, !.outcome = outcome,
                                         !.state = IF outcome # 0 THEN "terminal" ELSE @]]
      BY <1>4 DEF RecordInactive
    <2>3. rec'[j].outcome = outcome
      BY <2>1, <2>2 DEF TypeOK, Record
    <2> QED
      BY <2>1, <2>3 DEF OutcomesRead
  <1>5. ASSUME NEW s \in Server, StatusLook(j, s) \/ FinishLook(j, s)
        PROVE  rec' = rec
    BY <1>5 DEF StatusLook, StatusWith, FinishLook
  <1>6. CASE ReleaseOwned(j) \/ CleanupFormer(j) \/ Unregister(j)
    BY <1>6 DEF ReleaseOwned, CleanupFormer, Unregister
  <1> QED
    BY <1>1, <1>2, <1>3, <1>4, <1>5, <1>6 DEF ManageNext

\* A retry that saves the record of the same attempt saves its result.
LEMMA RetryResult ==
    ASSUME TypeOK, LeaseInv, RecInv, NEW j \in Job, RetryNext(j), rec'[j].att = rec[j].att
    PROVE  rec'[j].outcome = rec[j].outcome
  <1>0. op[j].pc \in RetryPc => RetrySaves(j) /\ op[j].write \in Record
    BY RetryRecord
  <1>1. CASE ClaimRecord(j) \/ ClaimFails(j) \/ RollbackRecord(j)
    <2>1. /\ op[j].pc \in {"claim", "claimed", "rollback"}
          /\ \/ rec' = rec
             \/ op[j].pc = "claim" /\ rec' = [rec EXCEPT ![j] = op[j].write]
             \/ op[j].pc # "claim" /\ rec' = [rec EXCEPT ![j] = op[j].source]
      BY <1>1 DEF ClaimRecord, ClaimFails, RollbackRecord, Doing
    <2>2. op[j].write.att # op[j].source.att
      BY <1>0, <2>1 DEF RetrySaves, RetryPc
    <2>3. CASE op[j].pc = "claim"
      BY <1>0, <2>1, <2>2, <2>3 DEF RetrySaves, RetryPc, TypeOK
    <2>4. CASE op[j].pc # "claim"
      BY <1>0, <2>1, <2>2, <2>4 DEF RetrySaves, RetryPc, TypeOK
    <2> QED
      BY <2>3, <2>4
  <1>2. CASE FinalizeRecord(j)
    <2>1. op[j].pc = "finalize" /\ rec[j] = op[j].write /\ op[j].write \in Record
      BY <1>0, <1>2 DEF FinalizeRecord, Doing, RetrySaves, RetryPc
    <2>2. \/ rec' = rec
          \/ rec' = [rec EXCEPT ![j] = [op[j].write EXCEPT !.pid = RetryProcess(j)]]
      BY <1>2 DEF FinalizeRecord
    <2> QED
      BY <2>1, <2>2 DEF TypeOK, Record
  <1> QED
    BY <1>1, <1>2 DEF RetryNext, RetryLook, ClaimMetadata, RetrySend, RetryFailsBeforeStart,
       RetryReplyLost, RetryAcknowledged, RollbackMetadata, FinalizeMetadata

\* A saved result of the present attempt survives every later save, when
\* sessions wait for the launch to return.
THEOREM ResultKept ==
    ASSUME NoMisread, Late
    PROVE  Spec => SavedResultKept
  <1>1. ASSUME TypeOK, LeaseInv, OwnerInv, RecInv, Next, NEW j \in Job,
               rec[j].outcome # 0, rec[j].outcome = rec[j].att, rec'[j].att = rec[j].att
        PROVE  rec'[j].outcome = rec[j].outcome
    <2>1. ASSUME NEW i \in Job, LaunchNext(i) \/ ManageNext(i) \/ RetryNext(i)
          PROVE  rec'[j].outcome = rec[j].outcome
      <3>1. CASE i = j
        BY <1>1, <2>1, <3>1, LaunchResult, ManageResult, RetryResult
      <3>2. CASE i # j
        <4>1. Acts(i)
          BY <1>1, <2>1, LaunchActs, ManageActs, RetryActs
        <4> QED
          BY <3>2, <4>1 DEF Acts
      <3> QED
        BY <3>1, <3>2
    <2>2. ASSUME NEW k \in Key, LeaseNext(k)
          PROVE  rec' = rec
      BY <2>2 DEF LeaseNext, Heartbeat, HeartbeatFails, InspectStale, Lapse
    <2>3. ASSUME NEW s \in Server, ServerNext(s)
          PROVE  rec' = rec
      BY <2>3 DEF ServerNext, Quarantine, Start, Crash, Shutdown, Ends
    <2>4. ASSUME NEW p \in Process, HostNext(p)
          PROVE  rec' = rec
      BY <2>4 DEF HostNext, SupervisorStarts, CommandLost, ProgramEnds,
         SupervisorExits, HostLost, OrphanEnds, ProcStep
    <2>5. ASSUME NEW i \in Job, KillSupervisor(i)
          PROVE  rec' = rec
      BY <2>5 DEF KillSupervisor, ProcStep
    <2> QED
      BY <1>1, <2>1, <2>2, <2>3, <2>4, <2>5 DEF Next
  <1>2. TypeOK /\ LeaseInv /\ OwnerInv /\ RecInv /\ [Next]_vars =>
          [\A j \in Job :
            /\ rec[j].outcome # 0 /\ rec[j].outcome = rec[j].att
            /\ rec'[j].att = rec[j].att
            => rec'[j].outcome = rec[j].outcome]_vars
    BY <1>1
  <1> QED
    BY <1>2, RecordsTrue, PTL DEF Spec, SavedResultKept

=============================================================================
