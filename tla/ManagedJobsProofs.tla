--------------------------- MODULE ManagedJobsProofs ----------------------------
(***************************************************************************)
(* The lease holds, for any number of backends, repositories, GPUs, jobs   *)
(* and attempts: LeaseInv is inductive, so an attempt that runs or may     *)
(* still start holds the booking of its GPU, and ManagedJobs implements    *)
(* GpuLease.                                                               *)
(***************************************************************************)
EXTENDS ManagedJobsTypes

\* An inspection command that fails is not read as a missing process.
NoMisread == \A code \in HostFaultCodes : ~ReadsAsMissing(code)

\* What has ended or started stays so.
Monotone == \A p \in Process : (Ended(p) => Ended(p)') /\ (Started(p) => Started(p)')

\* A job whose launch, call or supervisor relies on the booking of its GPU.
Depends(i) ==
    \/ launch[i].pc \in {"created"} \cup LaunchHolds
    \/ op[i].pc \in {"claimed"} \cup CallHolds
    \/ \E a \in Attempt : <<i, a>> \in Supervised

\* A step that leaves a job alone.
Kept(i) ==
    /\ launch'[i] = launch[i] /\ op'[i] = op[i]
    /\ \A a \in Attempt : proc'[<<i, a>>] = proc[<<i, a>>]
    /\ reg'[KeyOf(i)] = reg[KeyOf(i)] \/ ~Depends(i)

-----------------------------------------------------------------------------
(* Who relies on a booking.                                                 *)

\* The process that is booked has started.
LEMMA BookedStarted ==
    ASSUME TypeOK, LeaseInv, NEW k \in Key, reg[k].pid # NoPid
    PROVE  reg[k].pid \in Process /\ Started(reg[k].pid)
  BY DEF TypeOK, Reservation, LeaseInv, BookingSound

\* A booking whose process reads as gone has a process, which has ended.
LEMMA GoneEnded ==
    ASSUME TypeOK, LeaseInv, NoMisread, NEW k \in Key, "gone" \in Verdicts(reg[k].pid)
    PROVE  reg[k].pid # NoPid /\ reg[k].pid \in Process /\ Ended(reg[k].pid)
  <1>1. reg[k].pid # NoPid
    BY DEF Verdicts
  <1>2. proc[reg[k].pid] \notin SupervisorAlive
    BY <1>1 DEF Verdicts, NoMisread
  <1>3. reg[k].pid \in Process /\ Started(reg[k].pid)
    BY <1>1, BookedStarted
  <1>4. proc[reg[k].pid] \in ProcState
    BY <1>3 DEF TypeOK
  <1> QED
    BY <1>1, <1>2, <1>3, <1>4 DEF Started, Ended, SupervisorAlive, ProcState

\* A job that relies on a booking made it: the directory is still empty, or it
\* holds the job's own metadata.
LEMMA DependsBooked ==
    ASSUME TypeOK, LeaseInv, NEW i \in Job, Depends(i)
    PROVE  /\ KeyOf(i) \in Key
           /\ \/ launch[i].pc = "created" /\ reg[KeyOf(i)] = Empty
              \/ reg[KeyOf(i)].dir = "held" /\ reg[KeyOf(i)].job = i
  <1>1. JobKnown(i) /\ JobSound(i)
    BY DEF LeaseInv, IdsKnown
  <1>2. CASE launch[i].pc \in {"created"} \cup LaunchHolds
    BY <1>1, <1>2 DEF JobKnown, LaunchKnown, JobSound, LaunchSound, BookedNoPid,
       Booked, LaunchHolds
  <1>3. CASE op[i].pc \in {"claimed"} \cup CallHolds
    <2>1. launch[i].pc = "done"
      BY <1>1, <1>3 DEF JobSound, CallSound, RetryPc, CallHolds
    <2> QED
      BY <1>1, <1>3, <2>1 DEF JobKnown, LaunchKnown, JobSound, CallSound,
         BookedNoPid, Booked, RetryPc
  <1>4. CASE \E a \in Attempt : <<i, a>> \in Supervised
    <2>1. PICK a \in Attempt : <<i, a>> \in Supervised
      BY <1>4
    <2>2. Booked(i, a)
      BY <1>1, <2>1 DEF JobSound, LeaseHeld
    <2>3. launch[i].pc # "idle"
      BY <1>1, <2>1 DEF JobSound, LaunchSound, Supervised, SupervisorAlive
    <2> QED
      BY <1>1, <2>2, <2>3 DEF Booked, JobKnown, LaunchKnown
  <1> QED
    BY <1>2, <1>3, <1>4 DEF Depends

\* Nobody else relies on a booking that a job relies on.
LEMMA OwnBooking ==
    ASSUME TypeOK, LeaseInv, NEW j \in Job, Depends(j), NEW i \in Job \ {j},
           KeyOf(i) = KeyOf(j)
    PROVE  ~Depends(i)
  BY DependsBooked DEF LeaseInv, CreatedAlone, Empty, Absent

\* Nobody relies on a booking whose process has ended, between two writes
\* under its lock apart.
LEMMA EndedBooking ==
    ASSUME TypeOK, LeaseInv, NEW k \in Key, GuardFree(k),
           reg[k].pid # NoPid, Ended(reg[k].pid), NEW i \in Job, KeyOf(i) = k
    PROVE  ~Depends(i)
  <1>1. JobKnown(i) /\ JobSound(i) /\ BookingSound(k)
    BY DEF LeaseInv, IdsKnown
  <1>2. launch[i].pc \notin {"created"} \cup LaunchHolds
    BY <1>1 DEF JobSound, LaunchSound, BookedNoPid, Empty, Absent
  <1>3. op[i].pc \notin {"claimed"} \cup CallHolds
    BY <1>1 DEF JobSound, CallSound, BookedNoPid, GuardFree
  <1>4. ASSUME NEW a \in Attempt, <<i, a>> \in Supervised
        PROVE  FALSE
    <2>1. Booked(i, a)
      BY <1>1, <1>4 DEF JobSound, LeaseHeld
    <2>2. reg[k].pid = <<i, a>>
      BY <1>1, <2>1 DEF BookingSound, Booked
    <2> QED
      BY <1>4, <2>2 DEF Ended, Supervised, SupervisorAlive
  <1> QED
    BY <1>2, <1>3, <1>4 DEF Depends

\* Nobody relies on a directory that is not there.
LEMMA AbsentFree ==
    ASSUME TypeOK, LeaseInv, NEW i \in Job, reg[KeyOf(i)].dir = "absent"
    PROVE  ~Depends(i)
  BY DependsBooked DEF Empty, Absent

\* A job that a step leaves alone stays sound.
LEMMA KeptSound ==
    ASSUME TypeOK, LeaseInv, NEW i \in Job, Kept(i), Monotone
    PROVE  JobSound(i)'
  <1>1. JobSound(i) /\ JobKnown(i) /\ op[i].meta \in Reservation
    BY ReadTypes DEF LeaseInv, IdsKnown
  <1>2. op[i].meta.pid \in Process \cup {NoPid}
    BY <1>1 DEF Reservation
  <1>3. LaunchSound(i)'
    <2>1. 1 \in Attempt
      BY ConstantsAssumption DEF Attempt
    <2>2. Depends(i) => reg'[KeyOf(i)] = reg[KeyOf(i)]
      BY DEF Kept
    <2>3. launch[i].pc \in {"created"} \cup LaunchHolds => Depends(i)
      BY DEF Depends
    <2>4. UNCHANGED <<launch[i], proc[<<i, 1>>]>>
      BY <2>1 DEF Kept
    <2> QED
      BY <1>1, <2>2, <2>3, <2>4 DEF Kept, JobSound, LaunchSound, BookedNoPid, Booked,
         Started, KeyOf, OwnerOf
  <1>4. CallSound(i)'
    <2>1. UNCHANGED <<launch[i], op[i]>>
      BY DEF Kept
    <2>2. op[i].pc \in {"claimed"} \cup CallHolds => reg'[KeyOf(i)] = reg[KeyOf(i)]
      BY DEF Kept, Depends
    <2>3. op[i].pc \in RetryPc =>
            proc'[<<i, op[i].write.att>>] = proc[<<i, op[i].write.att>>]
      BY <1>1 DEF Kept, JobKnown, CallKnown
    <2>4. op[i].meta.pid # NoPid /\ Ended(op[i].meta.pid) => Ended(op[i].meta.pid)'
      BY <1>2, <2>1 DEF Monotone, Ended
    <2>5. CallSound(i)
      BY <1>1 DEF JobSound
    <2>6. op[i].pc \in RetryPc => op[i].meta.pid # NoPid
      BY <2>5, ConstantsAssumption DEF CallSound, NoPid
    <2> QED
      BY <2>1, <2>2, <2>3, <2>4, <2>5, <2>6 DEF CallSound, BookedNoPid, Booked, Started,
         CallHolds, RetryPc, KeyOf
  <1>5. LeaseHeld(i)'
    BY <1>1 DEF Kept, JobSound, LeaseHeld, Booked, Supervised, Depends, KeyOf, Process
  <1> QED
    BY <1>3, <1>4, <1>5 DEF JobSound

\* So does a booking.
LEMMA KeptBooking ==
    ASSUME TypeOK, LeaseInv, NEW k \in Key, reg'[k] = reg[k], Monotone,
           reg[k].dir = "held" =>
            /\ launch'[reg[k].job].key = launch[reg[k].job].key
            /\ launch'[reg[k].job].pc \notin {"idle", "created", "forgetting"}
    PROVE  BookingSound(k)'
  <1>1. BookingSound(k) /\ reg[k].pid \in Process \cup {NoPid}
    BY DEF LeaseInv, TypeOK, Reservation
  <1>2. reg[k].pid # NoPid => Started(reg[k].pid)'
    BY <1>1 DEF BookingSound, Monotone
  <1> QED
    BY <1>1, <1>2 DEF BookingSound, KeyOf, Started

-----------------------------------------------------------------------------
(* Steps of one job.                                                        *)

\* A step of job j and its processes, which may write the booking of its GPU.
ActsFor(j) ==
    /\ \A i \in Job \ {j} : launch'[i] = launch[i] /\ op'[i] = op[i]
    /\ \A i \in Job \ {j}, a \in Attempt : proc'[<<i, a>>] = proc[<<i, a>>]
    /\ \A k \in Key \ {KeyOf(j)} : reg'[k] = reg[k]
    /\ UNCHANGED look

\* A step that leaves the GPU hosts alone starts and ends no process.
LEMMA NoEnd ==
    ASSUME UNCHANGED proc
    PROVE  Monotone
  BY DEF Monotone, Ended, Started

\* A step of one job keeps the invariant when it leaves that job and the
\* booking of its GPU sound, and takes the booking from nobody else.
LEMMA JobStep ==
    ASSUME TypeOK, LeaseInv, IdsKnown', NEW j \in Job, ActsFor(j), Monotone,
           \/ reg'[KeyOf(j)] = reg[KeyOf(j)]
           \/ \A i \in Job \ {j} : KeyOf(i) = KeyOf(j) => ~Depends(i),
           launch'[j].pc # "created" \/ UNCHANGED launch[j],
           \A k \in Key : k = KeyOf(j) => BookingSound(k)',
           JobSound(j)'
    PROVE  LeaseInv'
  <1>1. ASSUME NEW i \in Job \ {j}
        PROVE  JobSound(i)'
    <2>1. Depends(i) => KeyOf(i) \in Key
      BY DependsBooked
    <2>2. Kept(i)
      BY <2>1 DEF ActsFor, Kept
    <2> QED
      BY <2>2, KeptSound
  <1>2. ASSUME NEW k \in Key \ {KeyOf(j)}
        PROVE  BookingSound(k)'
    <2>1. BookingSound(k)
      BY DEF LeaseInv
    <2>2. reg[k].dir = "held" => reg[k].job \in Job \ {j}
      BY <2>1 DEF BookingSound
    <2> QED
      BY <2>1, <2>2, KeptBooking DEF ActsFor, BookingSound
  <1>3. ASSUME NEW s \in Server
        PROVE  CleanupSound(s)'
    <2>1. CleanupSound(s) /\ look[s].seen.pid \in Process \cup {NoPid}
      BY DEF LeaseInv, TypeOK, Cleanup, Reservation
    <2> QED
      BY <2>1 DEF CleanupSound, ActsFor, Monotone, Ended
  <1>4. CreatedAlone'
    BY DEF LeaseInv, CreatedAlone, ActsFor, KeyOf
  <1> QED
    BY <1>1, <1>2, <1>3, <1>4 DEF LeaseInv

\* A step of one job that writes no booking and frees no key.
LEMMA QuietStep ==
    ASSUME TypeOK, LeaseInv, IdsKnown', NEW j \in Job, ActsFor(j), Monotone,
           UNCHANGED reg,
           \/ UNCHANGED launch[j]
           \/ /\ launch'[j].key = launch[j].key
              /\ launch'[j].pc \notin {"idle", "created", "forgetting"},
           JobSound(j)'
    PROVE  LeaseInv'
  <1>1. ASSUME NEW k \in Key, k = KeyOf(j)
        PROVE  BookingSound(k)'
    <2>1. BookingSound(k)
      BY DEF LeaseInv
    <2>2. reg[k].dir = "held" =>
            /\ launch'[reg[k].job].key = launch[reg[k].job].key
            /\ launch'[reg[k].job].pc \notin {"idle", "created", "forgetting"}
      BY <2>1 DEF BookingSound, ActsFor
    <2> QED
      BY <2>2, KeptBooking
  <1> QED
    BY <1>1, JobStep

\* A step of one job's call that writes no booking.
LEMMA CallStep ==
    ASSUME TypeOK, LeaseInv, IdsKnown', NEW j \in Job, UNCHANGED <<reg, launch, look, proc>>,
           \A i \in Job \ {j} : op'[i] = op[i],
           CallSound(j)'
    PROVE  LeaseInv'
  <1>1. JobSound(j)
    BY DEF LeaseInv
  <1>2. JobSound(j)'
    BY <1>1 DEF JobSound, LaunchSound, LeaseHeld, BookedNoPid, Booked, Started, Supervised,
       KeyOf, OwnerOf
  <1> QED
    BY <1>2, NoEnd, QuietStep DEF ActsFor

-----------------------------------------------------------------------------
(* A launch.                                                                *)

\* The directory is new: nobody relies on it.
LEMMA BeginKeeps ==
    ASSUME TypeOK, LeaseInv, IdsKnown', NEW j \in Job, NEW s \in Server, NEW k \in Key,
           LaunchBegin(j, s, k)
    PROVE  LeaseInv'
  <1>1. /\ launch'[j] = [pc |-> "created", srv |-> s, key |-> k]
        /\ \A i \in Job \ {j} : launch'[i] = launch[i]
        /\ reg'[k] = Empty /\ \A l \in Key \ {k} : reg'[l] = reg[l]
        /\ UNCHANGED <<op, look, proc>>
    BY PutValues DEF LaunchBegin, TypeOK
  <1>2. \A i \in Job : KeyOf(i) = k => ~Depends(i)
    BY AbsentFree DEF LaunchBegin
  <1>3. JobKnown(j) /\ JobSound(j) /\ op[j].pc = "idle"
    BY DEF LaunchBegin, LeaseInv, IdsKnown, JobKnown, Unrecorded
  <1>4. ASSUME NEW i \in Job \ {j}
        PROVE  JobSound(i)'
    <2>1. Depends(i) => KeyOf(i) \in Key
      BY DependsBooked
    <2>2. Kept(i)
      BY <1>1, <1>2, <2>1 DEF Kept
    <2> QED
      BY <1>1, <2>2, KeptSound, NoEnd
  <1>5. JobSound(j)'
    <2>1. \A a \in Attempt : proc[<<j, a>>] = "none"
      BY <1>3 DEF LaunchBegin, JobSound, LaunchSound
    <2>2. LaunchSound(j)'
      BY <1>1, <2>1 DEF LaunchSound, LaunchHolds, KeyOf
    <2>3. CallSound(j)' /\ LeaseHeld(j)'
      BY <1>1, <1>3, <2>1 DEF CallSound, CallHolds, RetryPc, LeaseHeld, Supervised,
         SupervisorAlive
    <2> QED
      BY <2>2, <2>3 DEF JobSound
  <1>6. ASSUME NEW l \in Key
        PROVE  BookingSound(l)'
    <2>1. CASE l = k
      BY <1>1, <2>1 DEF BookingSound, Empty, Absent
    <2>2. CASE l # k
      <3>1. BookingSound(l)
        BY DEF LeaseInv
      <3>2. reg[l].dir = "held" => reg[l].job \in Job \ {j}
        BY <3>1 DEF BookingSound, LaunchBegin
      <3> QED
        BY <1>1, <2>2, <3>1, <3>2, KeptBooking, NoEnd DEF BookingSound
    <2> QED
      BY <2>1, <2>2
  <1>7. ASSUME NEW t \in Server
        PROVE  CleanupSound(t)'
    BY <1>1 DEF LeaseInv, CleanupSound, Ended
  <1>8. CreatedAlone'
    <2>1. ASSUME NEW i \in Job \ {j}, launch[i].pc = "created"
          PROVE  KeyOf(i) # k
      BY <1>2, <2>1 DEF Depends
    <2> QED
      BY <1>1, <2>1 DEF LeaseInv, CreatedAlone, KeyOf
  <1> QED
    BY <1>4, <1>5, <1>6, <1>7, <1>8 DEF LeaseInv

\* A step of the launch leaves a call sound that starts no attempt.
LEMMA CallFrame ==
    ASSUME TypeOK, LeaseInv, NEW j \in Job, op'[j] = op[j], op[j].pc \notin RetryPc,
           Monotone
    PROVE  CallSound(j)'
  <1>1. CallSound(j) /\ op[j].meta.pid \in Process \cup {NoPid}
    BY ReadTypes DEF LeaseInv, JobSound, Reservation
  <1> QED
    BY <1>1 DEF CallSound, CallHolds, RetryPc, Monotone, Ended

\* A command that leaves, or is known to have started nothing, ends nothing.
LEMMA CommandValues ==
    ASSUME TypeOK, NEW p \in Process, NEW to \in ProcState, proc[p] \in {"none", "inflight"},
           proc' = [proc EXCEPT ![p] = to]
    PROVE  /\ proc'[p] = to /\ \A q \in Process \ {p} : proc'[q] = proc[q]
           /\ Monotone
  BY DEF TypeOK, Monotone, Ended, Started

\* A step of the launch that writes no booking and keeps its key.
LEMMA LaunchQuiet ==
    ASSUME TypeOK, LeaseInv, IdsKnown', NEW j \in Job, op[j].pc \notin RetryPc,
           NEW pc, LaunchStep(j, pc), pc \notin {"idle", "created", "forgetting"},
           UNCHANGED <<reg, op, look>>, Monotone,
           \A q \in Process : q[1] # j => proc'[q] = proc[q],
           LaunchSound(j)', LeaseHeld(j)'
    PROVE  LeaseInv'
  <1>1. /\ launch'[j].pc = pc /\ launch'[j].key = launch[j].key
        /\ \A i \in Job \ {j} : launch'[i] = launch[i]
    BY LaunchStepValues
  <1>2. CallSound(j)'
    BY CallFrame
  <1>3. ActsFor(j)
    BY <1>1 DEF ActsFor, Process
  <1> QED
    BY <1>1, <1>2, <1>3, QuietStep DEF JobSound

\* The steps that follow write the launch's own booking or nothing.
LEMMA LaunchKeeps ==
    ASSUME TypeOK, LeaseInv, IdsKnown', NEW j \in Job, LaunchNext(j)
    PROVE  LeaseInv'
  <1>1. ASSUME NEW s \in Server, NEW l \in Key, LaunchBegin(j, s, l)
        PROVE  LeaseInv'
    BY <1>1, BeginKeeps
  <1>2. ASSUME NEW k \in Key, k = KeyOf(j), launch[j].pc \notin {"idle", "done"}
        PROVE  LeaseInv'
    <2>0. /\ JobKnown(j) /\ JobSound(j) /\ 1 \in Attempt
          /\ op[j].pc \notin RetryPc
      BY <1>2, ConstantsAssumption
      DEF LeaseInv, IdsKnown, Attempt, JobSound, CallSound
    <2>00. \A i \in Job \ {j} : Depends(j) /\ KeyOf(i) = KeyOf(j) => ~Depends(i)
      BY OwnBooking
    <2>1. CASE LaunchWriteMetadata(j)
      <3>1. Depends(j) /\ \A a \in Attempt : proc[<<j, a>>] = "none"
        BY <2>0, <2>1 DEF LaunchWriteMetadata, Launching, Depends, JobSound, LaunchSound
      <3>2. /\ reg'[k] = [dir |-> "held", job |-> j, att |-> 1, srv |-> OwnerOf(j),
                          pid |-> NoPid]
            /\ \A l \in Key \ {k} : reg'[l] = reg[l]
            /\ launch'[j].pc = "acquired" /\ launch'[j].srv = OwnerOf(j)
            /\ launch'[j].key = k /\ \A i \in Job \ {j} : launch'[i] = launch[i]
            /\ UNCHANGED <<op, look, proc>>
        BY <1>2, <2>1, PutValues, LaunchStepValues DEF LaunchWriteMetadata, KeyOf, OwnerOf
      <3>3. LaunchSound(j)'
        BY <3>1, <3>2 DEF LaunchSound, LaunchHolds, BookedNoPid, Booked, KeyOf, OwnerOf
      <3>4. LeaseHeld(j)'
        BY <3>1, <3>2 DEF LeaseHeld, Supervised, SupervisorAlive
      <3>5. BookingSound(k)'
        BY <2>0, <3>2 DEF BookingSound, KeyOf
      <3> QED
        BY <1>2, <2>0, <2>00, <3>1, <3>2, <3>3, <3>4, <3>5, NoEnd, CallFrame, JobStep
        DEF ActsFor, JobSound
    <2>2. CASE LaunchMetadataFails(j)
      <3>1. Depends(j) /\ \A a \in Attempt : proc[<<j, a>>] = "none"
        BY <2>0, <2>2 DEF LaunchMetadataFails, Launching, Depends, JobSound, LaunchSound
      <3>2. /\ reg'[k] = Absent /\ \A l \in Key \ {k} : reg'[l] = reg[l]
            /\ launch'[j] = NoLaunch /\ \A i \in Job \ {j} : launch'[i] = launch[i]
            /\ UNCHANGED <<op, look, proc>>
        BY <1>2, <2>2, PutValues DEF LaunchMetadataFails, Remove, TypeOK
      <3>3. LaunchSound(j)' /\ LeaseHeld(j)'
        BY <3>1, <3>2 DEF LaunchSound, LaunchHolds, NoLaunch, LeaseHeld, Supervised,
           SupervisorAlive
      <3>4. BookingSound(k)' /\ launch'[j].pc # "created"
        BY <3>2 DEF BookingSound, Absent, NoLaunch
      <3> QED
        BY <1>2, <2>0, <2>00, <3>1, <3>2, <3>3, <3>4, NoEnd, CallFrame, JobStep
        DEF ActsFor, JobSound
    <2>3. CASE LaunchRecord(j)
      <3>1. launch'[j].pc = "recorded" /\ KeyOf(j)' = KeyOf(j) /\ OwnerOf(j)' = OwnerOf(j)
        BY <2>3, LaunchStepValues DEF LaunchRecord, KeyOf, OwnerOf
      <3>2. LaunchSound(j)' /\ LeaseHeld(j)'
        BY <2>0, <2>3, <3>1 DEF LaunchRecord, Launching, registry, JobSound, LaunchSound,
           LaunchHolds, BookedNoPid, Booked, LeaseHeld, Supervised
      <3> QED
        BY <2>0, <2>3, <3>2, NoEnd, LaunchQuiet DEF LaunchRecord, registry
    <2>4. CASE LaunchRecordFails(j)
      <3>1. Depends(j) /\ \A a \in Attempt : proc[<<j, a>>] = "none"
        BY <2>0, <2>4 DEF LaunchRecordFails, Launching, Depends, LaunchHolds, JobSound,
           LaunchSound
      <3>2. /\ reg'[k] = Absent /\ \A l \in Key \ {k} : reg'[l] = reg[l]
            /\ launch'[j].pc = "done" /\ \A i \in Job \ {j} : launch'[i] = launch[i]
            /\ UNCHANGED <<op, look, proc>>
        BY <1>2, <2>4, PutValues, LaunchStepValues DEF LaunchRecordFails, Remove
      <3>3. LaunchSound(j)' /\ LeaseHeld(j)'
        BY <3>1, <3>2 DEF LaunchSound, LaunchHolds, LeaseHeld, Supervised, SupervisorAlive
      <3>4. BookingSound(k)'
        BY <3>2 DEF BookingSound, Absent
      <3> QED
        BY <1>2, <2>0, <2>00, <3>1, <3>2, <3>3, <3>4, NoEnd, CallFrame, JobStep
        DEF ActsFor, JobSound
    <2>5. CASE LaunchSend(j)
      <3>1. \A a \in Attempt : proc[<<j, a>>] = "none"
        BY <2>0, <2>5 DEF LaunchSend, Launching, JobSound, LaunchSound
      <3>2. /\ proc'[<<j, 1>>] = "inflight" /\ Monotone
            /\ \A q \in Process \ {<<j, 1>>} : proc'[q] = proc[q]
        BY <2>0, <2>5, <3>1, CommandValues DEF LaunchSend, Process, ProcState
      <3>3. launch'[j].pc = "sent" /\ KeyOf(j)' = KeyOf(j) /\ OwnerOf(j)' = OwnerOf(j)
        BY <2>5, LaunchStepValues DEF LaunchSend, KeyOf, OwnerOf
      <3>4. BookedNoPid(j, 1)' /\ reg'[KeyOf(j)].srv = OwnerOf(j)
        BY <2>0, <2>5, <3>3 DEF LaunchSend, Launching, registry, JobSound, LaunchSound,
           LaunchHolds, BookedNoPid, Booked
      <3>5. LaunchSound(j)'
        BY <2>5, <3>2, <3>3, <3>4 DEF LaunchSend, registry, LaunchSound
      <3>6. LeaseHeld(j)'
        BY <3>1, <3>2, <3>4 DEF LeaseHeld, Supervised, SupervisorAlive, BookedNoPid, Process
      <3> QED
        BY <2>0, <2>5, <3>2, <3>5, <3>6, LaunchQuiet DEF LaunchSend, registry
    <2>6. CASE LaunchFailsBeforeStart(j)
      <3>1. /\ proc'[<<j, 1>>] = "gone" /\ Monotone
            /\ \A q \in Process \ {<<j, 1>>} : proc'[q] = proc[q]
        <4>1. <<j, 1>> \in Process /\ proc[<<j, 1>>] \in {"none", "inflight"}
          BY <2>0, <2>6 DEF LaunchFailsBeforeStart, Process
        <4>2. proc' = [proc EXCEPT ![<<j, 1>>] = "gone"]
          BY <2>6 DEF LaunchFailsBeforeStart
        <4> QED
          BY <4>1, <4>2, CommandValues DEF ProcState
      <3>2. launch'[j].pc = "prestart" /\ KeyOf(j)' = KeyOf(j) /\ OwnerOf(j)' = OwnerOf(j)
        BY <2>6, LaunchStepValues DEF LaunchFailsBeforeStart, KeyOf, OwnerOf
      <3>3. BookedNoPid(j, 1)' /\ reg'[KeyOf(j)].srv = OwnerOf(j)
        BY <2>0, <2>6, <3>2 DEF LaunchFailsBeforeStart, Launching, registry, JobSound,
           LaunchSound, LaunchHolds, BookedNoPid, Booked
      <3>4. LaunchSound(j)'
        BY <2>6, <3>1, <3>2, <3>3 DEF LaunchFailsBeforeStart, registry, LaunchSound
      <3>5. LeaseHeld(j)'
        BY <2>0, <2>6, <3>1, <3>2 DEF LaunchFailsBeforeStart, registry, JobSound, LeaseHeld,
           Supervised, SupervisorAlive, Booked, Process
      <3> QED
        BY <2>0, <2>6, <3>1, <3>4, <3>5, LaunchQuiet DEF LaunchFailsBeforeStart, registry
    <2>7. CASE LaunchReplyLost(j) \/ LaunchRunningUnrecorded(j)
      <3>1. LaunchStep(j, "done") /\ UNCHANGED <<reg, op, look, proc>>
        BY <2>7 DEF LaunchReplyLost, LaunchRunningUnrecorded, registry
      <3>2. launch'[j].pc = "done" /\ KeyOf(j)' = KeyOf(j)
        BY <3>1, LaunchStepValues DEF KeyOf
      <3>3. LaunchSound(j)' /\ LeaseHeld(j)'
        BY <2>0, <3>1, <3>2 DEF JobSound, LaunchSound, LaunchHolds, LeaseHeld, Supervised,
           Booked
      <3> QED
        BY <2>0, <3>1, <3>3, NoEnd, LaunchQuiet
    <2>8. CASE LaunchAcknowledged(j) \/ LaunchRecordRunning(j)
      <3>1. PICK pc \in {"started", "running"} : LaunchStep(j, pc)
        BY <2>8 DEF LaunchAcknowledged, LaunchRecordRunning
      <3>2. /\ launch[j].pc \in LaunchHolds /\ Started(<<j, 1>>)
            /\ UNCHANGED <<reg, op, look, proc>>
        BY <2>0, <2>8 DEF LaunchAcknowledged, LaunchRecordRunning, Launching, registry,
           JobSound, LaunchSound, LaunchHolds, Started
      <3>3. launch'[j].pc = pc /\ KeyOf(j)' = KeyOf(j) /\ OwnerOf(j)' = OwnerOf(j)
        BY <3>1, LaunchStepValues DEF KeyOf, OwnerOf
      <3>4. LaunchSound(j)' /\ LeaseHeld(j)'
        BY <2>0, <3>1, <3>2, <3>3 DEF JobSound, LaunchSound, LaunchHolds, BookedNoPid,
           Booked, Started, LeaseHeld, Supervised
      <3> QED
        BY <2>0, <3>1, <3>2, <3>4, NoEnd, LaunchQuiet
    <2>9. CASE LaunchRecordPid(j)
      <3>1. /\ BookedNoPid(j, 1) /\ Started(<<j, 1>>) /\ LeaseHeld(j) /\ Depends(j)
            /\ BookingSound(k) /\ reg[k] \in Reservation
        BY <1>2, <2>0, <2>9 DEF LaunchRecordPid, Launching, JobSound, LaunchSound,
           LaunchHolds, Depends, LeaseInv, TypeOK
      <3>2. /\ launch'[j].pc = "done" /\ launch'[j].key = k
            /\ \A i \in Job \ {j} : launch'[i] = launch[i]
            /\ UNCHANGED <<op, look, proc>>
        BY <1>2, <2>9, LaunchStepValues DEF LaunchRecordPid, KeyOf
      <3>3. /\ reg'[k] = reg[k] \/ reg'[k] = [reg[k] EXCEPT !.pid = <<j, 1>>]
            /\ \A l \in Key \ {k} : reg'[l] = reg[l]
        BY <1>2, <2>9, PutValues DEF LaunchRecordPid, registry
      <3>4. /\ reg'[k].dir = "held" /\ reg'[k].job = j /\ reg'[k].att = 1
            /\ reg'[k].pid \in {NoPid, <<j, 1>>}
        BY <1>2, <3>1, <3>3 DEF BookedNoPid, Booked, Reservation
      <3>5. LaunchSound(j)'
        BY <3>2 DEF LaunchSound, LaunchHolds
      <3>6. LeaseHeld(j)'
        BY <1>2, <3>1, <3>2, <3>4 DEF LeaseHeld, Booked, BookedNoPid, Supervised, KeyOf
      <3>7. BookingSound(k)'
        BY <2>0, <3>1, <3>2, <3>4 DEF BookingSound, Started, KeyOf
      <3> QED
        BY <1>2, <2>0, <2>00, <3>1, <3>2, <3>3, <3>5, <3>6, <3>7, NoEnd, CallFrame, JobStep
        DEF ActsFor, JobSound
    <2>10. CASE PrestartRecord(j)
      <3>1. launch'[j].pc = "releasing" /\ KeyOf(j)' = KeyOf(j) /\ OwnerOf(j)' = OwnerOf(j)
        BY <2>10, LaunchStepValues DEF PrestartRecord, KeyOf, OwnerOf
      <3>2. LaunchSound(j)' /\ LeaseHeld(j)'
        BY <2>0, <2>10, <3>1 DEF PrestartRecord, Launching, registry, JobSound, LaunchSound,
           LaunchHolds, BookedNoPid, Booked, LeaseHeld, Supervised
      <3> QED
        BY <2>0, <2>10, <3>2, NoEnd, LaunchQuiet DEF PrestartRecord, registry
    <2>11. ASSUME LaunchStep(j, "forgetting"), Remove(k), UNCHANGED <<op, look, proc>>,
                  launch[j].pc = "releasing"
           PROVE  LeaseInv'
      <3>1. /\ Depends(j) /\ Booked(j, 1) /\ reg[k].srv = OwnerOf(j)
            /\ proc[<<j, 1>>] = "gone" /\ LeaseHeld(j)
        BY <1>2, <2>0, <2>11 DEF Depends, LaunchHolds, JobSound, LaunchSound, BookedNoPid
      <3>2. Remove(k) /\ LaunchStep(j, "forgetting") /\ UNCHANGED <<op, look, proc>>
        BY <2>11
      <3>3. /\ reg'[k] = Absent /\ \A l \in Key \ {k} : reg'[l] = reg[l]
            /\ launch'[j].pc = "forgetting" /\ \A i \in Job \ {j} : launch'[i] = launch[i]
        BY <3>2, PutValues, LaunchStepValues DEF Remove
      <3>4. LaunchSound(j)' /\ BookingSound(k)'
        BY <3>3 DEF LaunchSound, LaunchHolds, BookingSound, Absent
      <3>5. LeaseHeld(j)'
        BY <3>1, <3>2 DEF LeaseHeld, Supervised, SupervisorAlive, Booked
      <3> QED
        BY <1>2, <2>0, <2>00, <3>1, <3>2, <3>3, <3>4, <3>5, NoEnd, CallFrame, JobStep
        DEF ActsFor, JobSound
    <2>14. CASE PrestartRelease(j)
      <3>1. launch[j].pc = "releasing" /\ UNCHANGED <<op, look, proc>>
        BY <2>14 DEF PrestartRelease, Launching
      <3>2. ASSUME NEW pc \in {"keeping", "closing"}, LaunchStep(j, pc), UNCHANGED reg
            PROVE  LeaseInv'
        <4>1. launch'[j].pc = pc /\ KeyOf(j)' = KeyOf(j) /\ OwnerOf(j)' = OwnerOf(j)
          BY <3>2, LaunchStepValues DEF KeyOf, OwnerOf
        <4>2. LaunchSound(j)' /\ LeaseHeld(j)'
          BY <2>0, <3>1, <3>2, <4>1 DEF JobSound, LaunchSound, LaunchHolds, BookedNoPid, Booked,
             LeaseHeld, Supervised
        <4> QED
          BY <2>0, <3>1, <3>2, <4>2, NoEnd, LaunchQuiet
      <3> QED
        BY <1>2, <2>11, <2>14, <3>1, <3>2 DEF PrestartRelease, registry
    <2>12. CASE PrestartClose(j)
      <3>1. LaunchStep(j, "done") /\ UNCHANGED <<reg, op, look, proc>>
        BY <2>12 DEF PrestartClose, registry
      <3>2. launch'[j].pc = "done" /\ KeyOf(j)' = KeyOf(j)
        BY <3>1, LaunchStepValues DEF KeyOf
      <3>3. LaunchSound(j)' /\ LeaseHeld(j)'
        BY <2>0, <3>1, <3>2 DEF JobSound, LaunchSound, LaunchHolds, LeaseHeld, Supervised,
           Booked
      <3> QED
        BY <2>0, <3>1, <3>3, NoEnd, LaunchQuiet
    <2>13. ~\E s \in Server, l \in Key : LaunchBegin(j, s, l)
      BY <1>2 DEF LaunchBegin
    <2> QED
      BY <2>1, <2>2, <2>3, <2>4, <2>5, <2>6, <2>7, <2>8, <2>9, <2>10, <2>12, <2>13, <2>14
      DEF LaunchNext
  <1>3. ASSUME \A s \in Server, l \in Key : ~LaunchBegin(j, s, l)
        PROVE  launch[j].pc \notin {"idle", "done"} /\ KeyOf(j) \in Key
    <2>1. launch[j].pc \notin {"idle", "done"}
      BY <1>3
      DEF LaunchNext, Launching, LaunchWriteMetadata, LaunchMetadataFails, LaunchRecord,
          LaunchRecordFails, LaunchSend, LaunchFailsBeforeStart, LaunchReplyLost,
          LaunchAcknowledged, LaunchRecordRunning, LaunchRunningUnrecorded,
          LaunchRecordPid, PrestartRecord, PrestartRelease, PrestartClose
    <2> QED
      BY <2>1 DEF LeaseInv, IdsKnown, JobKnown, LaunchKnown
  <1> QED
    BY <1>1, <1>2, <1>3

-----------------------------------------------------------------------------
(* The calls on a job.                                                      *)

\* A step that touches no booking, process, launch, call or cleanup.
LEMMA StillStep ==
    ASSUME TypeOK, LeaseInv, IdsKnown', UNCHANGED <<reg, launch, op, look, proc>>
    PROVE  LeaseInv'
  BY DEF LeaseInv, JobSound, LaunchSound, CallSound, LeaseHeld, BookedNoPid, Booked,
     BookingSound, CleanupSound, CreatedAlone, Supervised, Started, Ended, KeyOf, OwnerOf

\* A call that releases nothing and starts no attempt relies on nothing.
LEMMA PlainCall ==
    ASSUME NEW j \in Job, op'[j].pc \notin {"save", "release"} \cup RetryPc
    PROVE  CallSound(j)'
  BY DEF CallSound, CallHolds, RetryPc

\* The booking of a process that has ended may go, under its lock.
LEMMA ReleaseStep ==
    ASSUME TypeOK, LeaseInv, IdsKnown', NEW j \in Job, NEW k \in Key, k = KeyOf(j),
           GuardFree(k), reg[k].pid # NoPid, Ended(reg[k].pid),
           Remove(k), UNCHANGED <<launch, look, proc>>,
           \A i \in Job \ {j} : op'[i] = op[i],
           op'[j].pc \notin {"save", "release"} \cup RetryPc
    PROVE  LeaseInv'
  <1>1. reg'[k] = Absent /\ \A l \in Key \ {k} : reg'[l] = reg[l]
    BY PutValues DEF Remove
  <1>2. \A i \in Job : KeyOf(i) = k => ~Depends(i)
    BY EndedBooking
  <1>3. LaunchSound(j)'
    <2>1. launch[j].pc \notin {"created"} \cup LaunchHolds
      BY <1>2 DEF Depends
    <2>2. LaunchSound(j)
      BY DEF LeaseInv, JobSound
    <2> QED
      BY <2>1, <2>2 DEF LaunchSound, LaunchHolds, Started
  <1>4. LeaseHeld(j)'
    BY <1>2 DEF LeaseHeld, Depends, Supervised
  <1>5. CallSound(j)' /\ BookingSound(k)'
    BY <1>1, PlainCall DEF BookingSound, Absent
  <1>6. ActsFor(j) /\ UNCHANGED launch[j]
    BY <1>1 DEF ActsFor
  <1> QED
    BY <1>2, <1>3, <1>4, <1>5, <1>6, NoEnd, JobStep DEF JobSound

\* A job that has a record has a key.
LEMMA ManagedKey ==
    ASSUME TypeOK, LeaseInv, NEW j \in Job
    PROVE  /\ \A s \in Server : MayManage(s, j) => KeyOf(j) \in Key /\ op[j].pc = "idle"
           /\ op[j].pc # "idle" => KeyOf(j) \in Key /\ op[j].srv \in Server
  BY DEF LeaseInv, IdsKnown, JobKnown, LaunchKnown, Unrecorded, CallKnown, MayManage, Serves

\* The steps of status, stop, finish and cadence calls keep every job's lease.
LEMMA ManageKeeps ==
    ASSUME TypeOK, LeaseInv, IdsKnown', NoMisread, NEW j \in Job, ManageNext(j)
    PROVE  LeaseInv'
  <1>0. CallSound(j) /\ op[j] \in Operation
    BY DEF LeaseInv, JobSound, TypeOK
  <1>1. ASSUME NEW s \in Server, StatusLook(j, s)
        PROVE  LeaseInv'
    <2>1. KeyOf(j) \in Key
      BY <1>1, ManagedKey DEF StatusLook, Serves, LeaseInv, IdsKnown, JobKnown, Unrecorded,
         LaunchKnown
    <2>2. PICK record \in Resolved(j) \cup {op[j].source},
               verdict \in {"alive", "gone", "unknown", "none"},
               outcome \in Attempt \cup {0} :
            StatusWith(j, s, record, verdict, outcome)
      BY <1>1 DEF StatusLook
    <2>3. /\ op'[j].pc = "save" /\ op'[j].then = AfterSave(j, s, record, verdict, outcome)
          /\ op'[j].then = "release" => op'[j].meta = reg[KeyOf(j)]
          /\ \A i \in Job \ {j} : op'[i] = op[i]
          /\ UNCHANGED <<reg, launch, look, proc>>
      BY <2>2 DEF StatusWith, TypeOK, registry
    <2>4. op'[j].then = "release" =>
            op'[j].meta.pid # NoPid /\ Ended(op'[j].meta.pid)
      <3> SUFFICES ASSUME op'[j].then = "release"
                   PROVE  op'[j].meta.pid # NoPid /\ Ended(op'[j].meta.pid)
        OBVIOUS
      <3>1. verdict = "gone" /\ record.active /\ Owns(s, KeyOf(j))
        BY <2>3 DEF AfterSave
      <3>2. "gone" \in Verdicts(reg[KeyOf(j)].pid)
        BY <2>2, <3>1 DEF StatusWith, Observed, Owns
      <3> QED
        BY <2>1, <2>3, <3>2, GoneEnded
    <2>5. CallSound(j)'
      BY <2>3, <2>4 DEF CallSound, CallHolds, RetryPc, Ended
    <2> QED
      BY <2>3, <2>5, CallStep
  <1>2. ASSUME NEW s \in Server, FinishLook(j, s)
        PROVE  LeaseInv'
    <2>1. KeyOf(j) \in Key
      BY <1>2, ManagedKey DEF FinishLook, MayChange
    <2>2. /\ op'[j].pc = "save" /\ op'[j].meta = reg[KeyOf(j)]
          /\ \A i \in Job \ {j} : op'[i] = op[i]
          /\ UNCHANGED <<reg, launch, look, proc>>
      BY <1>2 DEF FinishLook, TypeOK, registry
    <2>3. op'[j].meta.pid # NoPid /\ Ended(op'[j].meta.pid)
      BY <1>2, <2>1, <2>2, GoneEnded DEF FinishLook
    <2>4. CallSound(j)'
      BY <2>2, <2>3 DEF CallSound, CallHolds, RetryPc, Ended
    <2> QED
      BY <2>2, <2>4, CallStep
  <1>3. ASSUME NEW s \in Server, Stop(j, s)
        PROVE  LeaseInv'
    <2>1. /\ op'[j].pc = "look" /\ \A i \in Job \ {j} : op'[i] = op[i]
          /\ UNCHANGED <<reg, launch, look, proc>>
      BY <1>3 DEF Stop, OwnerCheckIn, TypeOK, NoOperation
    <2>2. CallSound(j)'
      BY <2>1, PlainCall DEF RetryPc
    <2> QED
      BY <2>1, <2>2, CallStep
  <1>4. ASSUME NEW s \in Server, RecoverFormer(j, s) \/ UpdateCadence(j, s)
        PROVE  LeaseInv'
    BY <1>4, StillStep DEF RecoverFormer, UpdateCadence, OwnerCheckIn, registry
  <1>5. CASE SaveRecord(j)
    <2>1. /\ \A i \in Job \ {j} : op'[i] = op[i]
          /\ UNCHANGED <<reg, launch, look, proc>>
      BY <1>5, OpStepValues, OpDoneValues DEF SaveRecord, registry
    <2>2. CallSound(j)'
      <3>1. CASE op[j].then = "idle"
        BY <1>5, <3>1, OpDoneValues, PlainCall DEF SaveRecord, NoOperation, RetryPc
      <3>2. CASE op[j].then # "idle"
        <4>1. /\ op[j].then \in {"release", "cleanup"}
              /\ op'[j].pc = op[j].then /\ op'[j].meta = op[j].meta
          BY <1>0, <1>5, <3>2, OpStepValues DEF SaveRecord, Operation
        <4> QED
          BY <1>0, <1>5, <2>1, <4>1 DEF SaveRecord, Doing, CallSound, CallHolds, RetryPc,
             Ended
      <3> QED
        BY <3>1, <3>2
    <2> QED
      BY <2>1, <2>2, CallStep
  <1>6. ASSUME NEW k \in Key, k = KeyOf(j), ReleaseOwned(j)
        PROVE  LeaseInv'
    <2>1. CASE MayRelease(j)
      <3>1. GuardFree(k) /\ Remove(k) /\ OpLast(j, "unregister")
        BY <1>6, <2>1 DEF ReleaseOwned
      <3>2. reg[k].pid # NoPid /\ Ended(reg[k].pid)
        BY <1>0, <1>6, <2>1 DEF ReleaseOwned, Doing, CallSound, MayRelease
      <3>3. op'[j].pc = "unregister" /\ \A i \in Job \ {j} : op'[i] = op[i]
        BY <3>1, OpLastValues
      <3> QED
        BY <1>6, <3>1, <3>2, <3>3, ReleaseStep DEF ReleaseOwned, RetryPc
    <2>2. CASE ~MayRelease(j)
      <3>1. /\ op'[j].pc \in {"look", "idle"} /\ \A i \in Job \ {j} : op'[i] = op[i]
            /\ UNCHANGED <<reg, launch, look, proc>>
        BY <1>6, <2>2, OpStepValues, OpDoneValues DEF ReleaseOwned, registry, NoOperation
      <3>2. CallSound(j)'
        BY <3>1, PlainCall DEF RetryPc
      <3> QED
        BY <3>1, <3>2, CallStep
    <2> QED
      BY <2>1, <2>2
  <1>7. ASSUME NEW k \in Key, k = KeyOf(j), CleanupFormer(j)
        PROVE  LeaseInv'
    <2>1. PICK verdict \in Verdicts(op[j].meta.pid) :
            IF verdict = "gone" /\ MayQuarantine(KeyOf(j), op[j].meta)
            THEN Remove(KeyOf(j)) /\ OpLast(j, "inactive")
            ELSE UNCHANGED registry /\ OpDone(j)
      BY <1>7 DEF CleanupFormer
    <2>2. CASE verdict = "gone" /\ MayQuarantine(KeyOf(j), op[j].meta)
      <3>1. GuardFree(k) /\ Remove(k) /\ OpLast(j, "inactive") /\ reg[k] = op[j].meta
        BY <1>7, <2>1, <2>2 DEF CleanupFormer, MayQuarantine
      <3>2. reg[k].pid # NoPid /\ Ended(reg[k].pid)
        BY <2>1, <2>2, <3>1, GoneEnded
      <3>3. op'[j].pc = "inactive" /\ \A i \in Job \ {j} : op'[i] = op[i]
        BY <3>1, OpLastValues
      <3> QED
        BY <1>7, <3>1, <3>2, <3>3, ReleaseStep DEF CleanupFormer, RetryPc
    <2>3. CASE ~(verdict = "gone" /\ MayQuarantine(KeyOf(j), op[j].meta))
      <3>1. /\ op'[j].pc = "idle" /\ \A i \in Job \ {j} : op'[i] = op[i]
            /\ UNCHANGED <<reg, launch, look, proc>>
        BY <1>7, <2>1, <2>3, OpDoneValues DEF CleanupFormer, registry, NoOperation
      <3>2. CallSound(j)'
        BY <3>1, PlainCall DEF RetryPc
      <3> QED
        BY <3>1, <3>2, CallStep
    <2> QED
      BY <2>2, <2>3
  <1>8. CASE Unregister(j) \/ RecordInactive(j)
    <2>1. /\ op'[j].pc \in {"inactive", "idle"} /\ \A i \in Job \ {j} : op'[i] = op[i]
          /\ UNCHANGED <<reg, launch, look, proc>>
      <3>1. /\ OpStep(j, "inactive") \/ OpDone(j)
            /\ UNCHANGED <<reg, launch, look, proc>>
        BY <1>8 DEF Unregister, RecordInactive, registry
      <3> QED
        BY <3>1, OpStepValues, OpDoneValues DEF NoOperation
    <2>2. CallSound(j)'
      BY <2>1, PlainCall DEF RetryPc
    <2> QED
      BY <2>1, <2>2, CallStep
  <1>9. ReleaseOwned(j) \/ CleanupFormer(j) => KeyOf(j) \in Key
    BY ManagedKey DEF ReleaseOwned, CleanupFormer, Doing
  <1> QED
    BY <1>1, <1>2, <1>3, <1>4, <1>5, <1>6, <1>7, <1>8, <1>9 DEF ManageNext

-----------------------------------------------------------------------------
(* A retry.                                                                 *)

\* What a retry knows of its own booking.
LEMMA RetryKnows ==
    ASSUME TypeOK, LeaseInv, NEW j \in Job, op[j].pc \in RetryPc
    PROVE  /\ KeyOf(j) \in Key /\ launch[j].pc = "done" /\ CallSound(j) /\ LeaseHeld(j)
           /\ op[j].write.att \in Attempt /\ RetryProcess(j) \in Process
           /\ op[j].meta.pid \in Process /\ Ended(op[j].meta.pid)
  <1>1. JobKnown(j) /\ JobSound(j)
    BY DEF LeaseInv, IdsKnown
  <1> QED
    BY <1>1 DEF JobKnown, LaunchKnown, CallKnown, JobSound, CallSound, RetryProcess,
       Process, RetryPc

\* A claim is made on a booking whose process has ended.
LEMMA LookKeeps ==
    ASSUME TypeOK, LeaseInv, IdsKnown', NoMisread, NEW j \in Job, NEW s \in Server,
           RetryLook(j, s)
    PROVE  LeaseInv'
  <1>1. PICK a \in Attempt, record \in Resolved(j) :
            /\ proc[<<j, a>>] = "none" /\ a # record.att
            /\ op' = [op EXCEPT ![j] =
                    [pc |-> "claim", srv |-> s,
                     write |-> [record EXCEPT !.att = a, !.pid = NoPid],
                     source |-> record, meta |-> reg[KeyOf(j)],
                     then |-> "idle"]]
    BY DEF RetryLook
  <1>2. [record EXCEPT !.att = a, !.pid = NoPid].att = a
    <2>1. record \in Record
      BY ResolvedType
    <2> QED
      BY <2>1 DEF Record
  <1>3. /\ op'[j].pc = "claim" /\ op'[j].meta = reg[KeyOf(j)] /\ op'[j].write.att = a
        /\ \A i \in Job \ {j} : op'[i] = op[i]
    BY <1>1, <1>2 DEF TypeOK
  <1>4. UNCHANGED <<reg, launch, look, proc>> /\ KeyOf(j) \in Key
    BY ManagedKey DEF RetryLook, MayChange, registry
  <1>5. /\ reg[KeyOf(j)].dir = "held" /\ reg[KeyOf(j)].job = j
        /\ reg[KeyOf(j)].pid # NoPid /\ Ended(reg[KeyOf(j)].pid)
    BY <1>4, GoneEnded DEF RetryLook, MayChange, Owns
  <1>6. /\ reg[KeyOf(j)].att \in Attempt
        /\ reg[KeyOf(j)].pid = <<j, reg[KeyOf(j)].att>>
        /\ launch[j].pc \notin {"idle", "created", "forgetting"}
    BY <1>4, <1>5 DEF LeaseInv, BookingSound
  <1>7. launch[j].pc = "done"
    <2>1. LaunchSound(j) /\ launch[j].pc \in LaunchPc
      BY DEF LeaseInv, JobSound, TypeOK, Launch
    <2> QED
      BY <1>5, <1>6, <2>1 DEF LaunchSound, LaunchHolds, BookedNoPid, LaunchPc
  <1>8. CallSound(j)'
    BY <1>1, <1>3, <1>4, <1>5, <1>6, <1>7 DEF CallSound, CallHolds, RetryPc, Ended
  <1> QED
    BY <1>3, <1>4, <1>8, CallStep

\* A step of a retry that writes no booking.
LEMMA RetryStep ==
    ASSUME TypeOK, LeaseInv, IdsKnown', NEW j \in Job, op[j].pc \in RetryPc,
           NEW pc \in {"claimed", "finalize", "rolledback", "finalized"}, OpStep(j, pc),
           UNCHANGED <<reg, launch, look, proc>>,
           pc = "claimed" => op[j].pc = "claim" /\ reg[KeyOf(j)] = op[j].meta,
           pc = "finalize" => op[j].pc = "sent" /\ Started(RetryProcess(j)),
           pc = "rolledback" => op[j].pc = "rollback",
           pc = "finalized" => op[j].pc = "finalize"
    PROVE  LeaseInv'
  <1>1. /\ op'[j].pc = pc /\ op'[j].meta = op[j].meta /\ op'[j].write = op[j].write
        /\ \A i \in Job \ {j} : op'[i] = op[i]
    BY OpStepValues
  <1>2. CallSound(j)'
    BY <1>1, RetryKnows DEF CallSound, CallHolds, RetryPc, BookedNoPid, Booked, Started,
       Ended, KeyOf, RetryProcess
  <1> QED
    BY <1>1, <1>2, CallStep

\* A retry that ends, and writes no booking.
LEMMA RetryEnds ==
    ASSUME TypeOK, LeaseInv, IdsKnown', NEW j \in Job, OpDone(j),
           UNCHANGED <<reg, launch, look, proc>>
    PROVE  LeaseInv'
  <1>1. op'[j].pc = "idle" /\ \A i \in Job \ {j} : op'[i] = op[i]
    BY OpDoneValues DEF NoOperation
  <1>2. CallSound(j)'
    BY <1>1, PlainCall DEF RetryPc
  <1> QED
    BY <1>1, <1>2, CallStep

\* A start command of a retry leaves, or is known to have started nothing.
LEMMA RetryCommand ==
    ASSUME TypeOK, LeaseInv, IdsKnown', NEW j \in Job, op[j].pc \in {"spawn", "sent"},
           NEW to \in {"inflight", "gone"}, proc[RetryProcess(j)] \in {"none", "inflight"},
           proc' = [proc EXCEPT ![RetryProcess(j)] = to],
           OpStep(j, IF to = "gone" THEN "rollback" ELSE "sent"),
           UNCHANGED <<reg, launch, look>>
    PROVE  LeaseInv'
  <1>0. op[j].pc \in RetryPc
    BY DEF RetryPc
  <1>1. /\ launch[j].pc = "done" /\ CallSound(j) /\ LeaseHeld(j)
        /\ op[j].write.att \in Attempt /\ RetryProcess(j) \in Process
        /\ op[j].meta.pid \in Process
    BY <1>0, RetryKnows
  <1>2. /\ proc'[RetryProcess(j)] = to /\ Monotone
        /\ \A q \in Process \ {RetryProcess(j)} : proc'[q] = proc[q]
    <2>1. to \in ProcState
      BY DEF ProcState
    <2> QED
      BY <1>1, <2>1, CommandValues
  <1>3. /\ op'[j].pc = IF to = "gone" THEN "rollback" ELSE "sent"
        /\ op'[j].meta = op[j].meta /\ op'[j].write = op[j].write
        /\ \A i \in Job \ {j} : op'[i] = op[i]
    BY OpStepValues
  <1>4. CallSound(j)'
    <2>1. BookedNoPid(j, op[j].write.att)
      BY <1>1 DEF CallSound, CallHolds
    <2>2. Ended(op[j].meta.pid)'
      BY <1>0, <1>2, RetryKnows, <1>3 DEF Monotone, Ended
    <2>3. /\ op[j].meta.dir = "held" /\ op[j].meta.job = j /\ op[j].meta.att \in Attempt
          /\ op[j].meta.pid = <<j, op[j].meta.att>>
      BY <1>0, <1>1 DEF CallSound
    <2> QED
      BY <1>1, <1>2, <1>3, <2>1, <2>2, <2>3 DEF CallSound, CallHolds, RetryPc, BookedNoPid, Booked,
         KeyOf, RetryProcess, Ended
  <1>5. LeaseHeld(j)'
    BY <1>1, <1>2 DEF LeaseHeld, CallSound, CallHolds, BookedNoPid, Booked, Supervised,
       Process, RetryProcess, KeyOf
  <1>6. LaunchSound(j)'
    BY <1>1 DEF LaunchSound, LaunchHolds
  <1>7. ActsFor(j)
    BY <1>2, <1>3 DEF ActsFor, Process, RetryProcess
  <1> QED
    BY <1>2, <1>4, <1>5, <1>6, <1>7, QuietStep DEF JobSound

\* A step of a retry that writes its own booking.
LEMMA RetryWrites ==
    ASSUME TypeOK, LeaseInv, IdsKnown', NEW j \in Job, op[j].pc \in {"claimed"} \cup CallHolds,
           NEW k \in Key, k = KeyOf(j), NEW r, Put(k, r), UNCHANGED <<launch, look, proc>>,
           \A i \in Job \ {j} : op'[i] = op[i],
           r.dir = "held", r.job = j, r.att \in Attempt,
           r.pid # NoPid => r.pid = <<j, r.att>> /\ Started(r.pid),
           \A a \in Attempt : <<j, a>> \in Supervised => a = r.att,
           CallSound(j)'
    PROVE  LeaseInv'
  <1>0. op[j].pc \in RetryPc /\ Depends(j)
    BY DEF RetryPc, CallHolds, Depends
  <1>1. reg'[k] = r /\ \A l \in Key \ {k} : reg'[l] = reg[l]
    BY PutValues
  <1>2. launch[j].pc = "done"
    BY <1>0, RetryKnows
  <1>3. LaunchSound(j)'
    BY <1>2 DEF LaunchSound, LaunchHolds
  <1>4. LeaseHeld(j)'
    BY <1>1 DEF LeaseHeld, Supervised, Booked, KeyOf
  <1>5. BookingSound(k)'
    BY <1>1, <1>2 DEF BookingSound, Started, KeyOf
  <1>6. ActsFor(j)
    BY <1>1 DEF ActsFor
  <1> QED
    BY <1>0, <1>1, <1>3, <1>4, <1>5, <1>6, NoEnd, OwnBooking, JobStep DEF JobSound

\* The steps of a retry keep every job's lease.
LEMMA RetryKeeps ==
    ASSUME TypeOK, LeaseInv, IdsKnown', NoMisread, NEW j \in Job, RetryNext(j)
    PROVE  LeaseInv'
  <1>0. op[j].pc \in RetryPc =>
            /\ KeyOf(j) \in Key /\ launch[j].pc = "done" /\ CallSound(j) /\ LeaseHeld(j)
            /\ op[j].write.att \in Attempt /\ RetryProcess(j) \in Process
            /\ op[j].meta.pid \in Process /\ Ended(op[j].meta.pid)
            /\ reg[KeyOf(j)] \in Reservation
    BY RetryKnows DEF TypeOK
  <1>1. ASSUME NEW s \in Server, RetryLook(j, s)
        PROVE  LeaseInv'
    BY <1>1, LookKeeps
  <1>2. CASE ClaimRecord(j)
    <2>1. op[j].pc \in RetryPc /\ UNCHANGED <<reg, launch, look, proc>>
      BY <1>2 DEF ClaimRecord, Doing, RetryPc, registry
    <2>2. CASE reg[KeyOf(j)] = op[j].meta /\ OpStep(j, "claimed")
      BY <1>2, <2>1, <2>2, RetryStep DEF ClaimRecord, Doing
    <2>3. CASE OpDone(j)
      BY <1>2, <2>1, <2>3, RetryEnds DEF ClaimRecord
    <2> QED
      BY <1>2, <2>2, <2>3 DEF ClaimRecord
  <1>3. CASE ClaimMetadata(j)
    <2> DEFINE r == [reg[KeyOf(j)] EXCEPT !.att = op[j].write.att, !.pid = NoPid]
    <2>1. op[j].pc = "claimed" /\ op[j].pc \in RetryPc
      BY <1>3 DEF ClaimMetadata, Doing, RetryPc
    <2>2. /\ reg[KeyOf(j)] = op[j].meta /\ op[j].meta.dir = "held" /\ op[j].meta.job = j
          /\ op[j].meta.att \in Attempt /\ op[j].meta.pid = <<j, op[j].meta.att>>
          /\ proc[RetryProcess(j)] = "none"
      BY <1>0, <2>1 DEF CallSound, RetryProcess
    <2>3. /\ r.dir = "held" /\ r.job = j /\ r.att = op[j].write.att /\ r.pid = NoPid
      BY <1>0, <2>1, <2>2 DEF Reservation
    <2>4. /\ op'[j].pc = "spawn" /\ op'[j].meta = op[j].meta /\ op'[j].write = op[j].write
          /\ \A i \in Job \ {j} : op'[i] = op[i]
      BY <1>3, OpStepValues DEF ClaimMetadata
    <2>5. Put(KeyOf(j), r) /\ UNCHANGED <<launch, look, proc>>
      BY <1>3 DEF ClaimMetadata
    <2>6. reg'[KeyOf(j)] = r
      BY <1>0, <2>1, <2>5, PutValues
    <2> HIDE DEF r
    <2>7. CallSound(j)'
      BY <1>0, <2>1, <2>2, <2>3, <2>4, <2>5, <2>6
      DEF CallSound, CallHolds, RetryPc, BookedNoPid, Booked, KeyOf, RetryProcess, Ended
    <2>8. \A a \in Attempt : <<j, a>> \notin Supervised
      BY <1>0, <2>1, <2>2 DEF LeaseHeld, Booked, Supervised, SupervisorAlive, Ended
    <2> QED
      BY <1>0, <2>1, <2>3, <2>4, <2>5, <2>7, <2>8, RetryWrites
  <1>4. CASE ClaimFails(j) \/ RetryReplyLost(j)
    BY <1>4, RetryEnds DEF ClaimFails, RetryReplyLost, registry
  <1>5. CASE RetrySend(j)
    <2>1. op[j].pc = "spawn" /\ proc[RetryProcess(j)] = "none"
      BY <1>0, <1>5 DEF RetrySend, Doing, CallSound, RetryPc, RetryProcess
    <2> QED
      BY <1>5, <2>1, RetryCommand DEF RetrySend, registry
  <1>6. CASE RetryFailsBeforeStart(j)
    BY <1>6, RetryCommand DEF RetryFailsBeforeStart, Doing, registry
  <1>7. CASE RetryAcknowledged(j)
    BY <1>7, RetryStep DEF RetryAcknowledged, Doing, RetryPc, Started, registry
  <1>8. CASE RollbackRecord(j)
    BY <1>8, RetryStep, RetryEnds DEF RollbackRecord, Doing, RetryPc, registry
  <1>9. CASE RollbackMetadata(j)
    <2>1. op[j].pc = "rolledback" /\ op[j].pc \in RetryPc
      BY <1>9 DEF RollbackMetadata, Doing, RetryPc
    <2>2. CASE UNCHANGED registry
      BY <1>9, <2>2, RetryEnds DEF RollbackMetadata, registry
    <2>3. CASE Put(KeyOf(j), op[j].meta)
      <3>1. /\ op[j].meta.dir = "held" /\ op[j].meta.job = j
            /\ op[j].meta.att \in Attempt /\ op[j].meta.pid = <<j, op[j].meta.att>>
            /\ proc[RetryProcess(j)] = "gone" /\ Booked(j, op[j].write.att)
        BY <1>0, <2>1 DEF CallSound, CallHolds, RetryProcess, BookedNoPid
      <3>2. \A a \in Attempt : <<j, a>> \notin Supervised
        BY <1>0, <2>1, <3>1 DEF LeaseHeld, Booked, Supervised, SupervisorAlive, RetryProcess
      <3>3. Started(op[j].meta.pid)
        BY <1>0, <2>1 DEF Started, Ended
      <3>4. /\ CallSound(j)' /\ \A i \in Job \ {j} : op'[i] = op[i]
            /\ UNCHANGED <<launch, look, proc>>
        BY <1>9, OpDoneValues, PlainCall DEF RollbackMetadata, NoOperation, RetryPc
      <3> QED
        BY <1>0, <2>1, <2>3, <3>1, <3>2, <3>3, <3>4, RetryWrites DEF CallHolds
    <2> QED
      BY <1>9, <2>2, <2>3 DEF RollbackMetadata
  <1>10. CASE FinalizeRecord(j)
    BY <1>10, RetryStep, RetryEnds DEF FinalizeRecord, Doing, RetryPc, registry
  <1>11. CASE FinalizeMetadata(j)
    <2> DEFINE r == [reg[KeyOf(j)] EXCEPT !.pid = RetryProcess(j)]
    <2>1. op[j].pc = "finalized" /\ op[j].pc \in RetryPc
      BY <1>11 DEF FinalizeMetadata, Doing, RetryPc
    <2>2. CASE UNCHANGED registry
      BY <1>11, <2>2, RetryEnds DEF FinalizeMetadata, registry
    <2>3. CASE Put(KeyOf(j), r)
      <3>1. Booked(j, op[j].write.att) /\ Started(RetryProcess(j))
        BY <1>0, <2>1 DEF CallSound, CallHolds, RetryProcess, BookedNoPid
      <3>2. /\ r.dir = "held" /\ r.job = j /\ r.att = op[j].write.att
            /\ r.pid = <<j, r.att>> /\ r.pid = RetryProcess(j)
        BY <1>0, <2>1, <3>1 DEF Reservation, Booked, RetryProcess
      <3>3. \A a \in Attempt : <<j, a>> \in Supervised => a = r.att
        BY <1>0, <2>1, <3>1, <3>2 DEF LeaseHeld, Booked
      <3>4. /\ CallSound(j)' /\ \A i \in Job \ {j} : op'[i] = op[i]
            /\ UNCHANGED <<launch, look, proc>>
        BY <1>11, OpDoneValues, PlainCall DEF FinalizeMetadata, NoOperation, RetryPc
      <3> HIDE DEF r
      <3> QED
        BY <1>0, <2>1, <2>3, <3>1, <3>2, <3>3, <3>4, RetryWrites DEF CallHolds
    <2> QED
      BY <1>11, <2>2, <2>3 DEF FinalizeMetadata
  <1> QED
    BY <1>1, <1>2, <1>3, <1>4, <1>5, <1>6, <1>7, <1>8, <1>9, <1>10, <1>11 DEF RetryNext

-----------------------------------------------------------------------------
(* The GPU hosts, the stale cleanups and the backends.                      *)

\* A supervisor that starts or ends.
LEMMA ProcKeeps ==
    ASSUME TypeOK, LeaseInv, IdsKnown', NEW p \in Process,
           NEW from \in MayUseGpu, NEW to \in {"running", "ending", "orphan", "gone", "exited"},
           ProcStep(p, from, to), from = "orphan" => to = "gone",
           to \in SupervisorAlive => from \in {"inflight"} \cup SupervisorAlive
    PROVE  LeaseInv'
  <1>1. PICK j \in Job, b \in Attempt : p = <<j, b>>
    BY DEF Process
  <1>2. /\ proc[p] = from /\ proc'[p] = to /\ \A q \in Process \ {p} : proc'[q] = proc[q]
        /\ UNCHANGED <<reg, launch, op, look>>
    BY DEF ProcStep, TypeOK, registry
  <1>3. Monotone
    BY <1>2 DEF Monotone, Ended, Started, MayUseGpu
  <1>4. JobSound(j) /\ JobKnown(j) /\ 1 \in Attempt
    BY ConstantsAssumption DEF LeaseInv, IdsKnown, Attempt
  <1>5. ASSUME NEW a \in Attempt
        PROVE  /\ proc[<<j, a>>] \in {"none", "gone"} => proc'[<<j, a>>] = proc[<<j, a>>]
               /\ proc[<<j, a>>] # "none" => proc'[<<j, a>>] # "none"
               /\ Started(<<j, a>>) => Started(<<j, a>>)'
    <2>1. CASE <<j, a>> = p
      BY <1>2, <2>1 DEF MayUseGpu, Started
    <2>2. CASE <<j, a>> # p
      BY <1>2, <2>2 DEF Process, Started
    <2> QED
      BY <2>1, <2>2
  <1>6. LaunchSound(j)' /\ CallSound(j)'
    <2>1. LaunchSound(j)'
      <3>1. launch[j].pc \in {"idle", "created", "acquired", "recorded"} =>
                \A a \in Attempt : proc'[<<j, a>>] = "none"
        BY <1>4, <1>5 DEF JobSound, LaunchSound
      <3>2. /\ launch[j].pc = "sent" => proc'[<<j, 1>>] # "none"
            /\ launch[j].pc \in {"started", "running"} => Started(<<j, 1>>)'
            /\ launch[j].pc \in {"prestart", "releasing", "keeping", "closing"} =>
                  proc'[<<j, 1>>] = "gone"
        BY <1>4, <1>5 DEF JobSound, LaunchSound
      <3> QED
        BY <1>2, <1>4, <3>1, <3>2 DEF JobSound, LaunchSound, BookedNoPid, Booked, KeyOf,
           OwnerOf
    <2>2. CallSound(j) /\ op[j].meta \in Reservation
      BY <1>4, ReadTypes DEF JobSound
    <2>3. op[j].meta.pid # NoPid /\ Ended(op[j].meta.pid) => Ended(op[j].meta.pid)'
      BY <1>2, <1>3, <2>2 DEF Monotone, Reservation, Ended
    <2>4. op[j].pc \in RetryPc => op[j].write.att \in Attempt /\ op[j].meta.pid # NoPid
      BY <2>2, RetryKnows, ConstantsAssumption DEF NoPid, Process
    <2>5. CallSound(j)'
      <3> DEFINE a == op[j].write.att
      <3>1. op[j].pc \in {"claim", "claimed", "spawn"} => proc'[<<j, a>>] = "none"
        BY <1>5, <2>2, <2>4 DEF CallSound, RetryPc
      <3>2. /\ op[j].pc = "sent" => proc'[<<j, a>>] # "none"
            /\ op[j].pc \in {"finalize", "finalized"} => Started(<<j, a>>)'
            /\ op[j].pc \in {"rollback", "rolledback"} => proc'[<<j, a>>] = "gone"
        BY <1>2, <1>5, <2>2, <2>4 DEF CallSound, RetryPc, Started
      <3> QED
        BY <1>2, <2>2, <2>3, <2>4, <3>1, <3>2 DEF CallSound, BookedNoPid, Booked, KeyOf, Started
    <2> QED
      BY <2>1, <2>5
  <1>7. LeaseHeld(j)'
    <2>1. \A a \in Attempt : <<j, a>> \in Supervised' => <<j, a>> \in Supervised
      BY <1>1, <1>2 DEF Supervised, SupervisorAlive, Process
    <2> QED
      BY <1>2, <1>4, <2>1 DEF JobSound, LeaseHeld, Booked, KeyOf
  <1>8. ActsFor(j)
    BY <1>1, <1>2 DEF ActsFor, Process
  <1> QED
    BY <1>2, <1>3, <1>6, <1>7, <1>8, QuietStep DEF JobSound

\* What happens on the GPU hosts keeps every job's lease.
LEMMA HostKeeps ==
    ASSUME TypeOK, LeaseInv, IdsKnown',
           \/ \E p \in Process : HostNext(p)
           \/ \E j \in Job : KillSupervisor(j)
    PROVE  LeaseInv'
  <1>1. ASSUME NEW p \in Process, HostNext(p)
        PROVE  LeaseInv'
    BY <1>1, ProcKeeps
    DEF HostNext, SupervisorStarts, CommandLost, ProgramEnds, SupervisorExits, HostLost,
        OrphanEnds, MayUseGpu, SupervisorAlive
  <1>2. ASSUME NEW j \in Job, KillSupervisor(j)
        PROVE  LeaseInv'
    <2>1. rec[j].pid \in Process
      BY <1>2 DEF KillSupervisor, TypeOK, Record
    <2> QED
      BY <1>2, <2>1, ProcKeeps DEF KillSupervisor, MayUseGpu, SupervisorAlive
  <1> QED
    BY <1>1, <1>2

\* A stale cleanup finds the recorded process ended, and then takes the booking
\* only if it is the one inspected.
LEMMA CleanupKeeps ==
    ASSUME TypeOK, LeaseInv, IdsKnown', NoMisread, NEW s \in Server,
           Quarantine(s) \/ \E k \in Key : InspectStale(s, k)
    PROVE  LeaseInv'
  <1>1. ASSUME NEW k \in Key, InspectStale(s, k)
        PROVE  LeaseInv'
    <2>1. /\ look'[s] = [key |-> k, seen |-> reg[k]]
          /\ \A t \in Server \ {s} : look'[t] = look[t]
          /\ UNCHANGED <<reg, launch, op, proc>>
      BY <1>1 DEF InspectStale, TypeOK, registry
    <2>2. reg[k].pid # NoPid /\ Ended(reg[k].pid)
      BY <1>1, GoneEnded DEF InspectStale
    <2>3. ASSUME NEW t \in Server
          PROVE  CleanupSound(t)'
      BY <2>1, <2>2 DEF LeaseInv, CleanupSound, Ended
    <2> QED
      BY <2>1, <2>3 DEF LeaseInv, JobSound, LaunchSound, CallSound, LeaseHeld, BookedNoPid,
         Booked, BookingSound, CreatedAlone, Supervised, Started, Ended, KeyOf, OwnerOf
  <1>2. CASE Quarantine(s)
    <2>1. /\ look'[s].key = NoKey /\ \A t \in Server \ {s} : look'[t] = look[t]
          /\ UNCHANGED <<launch, op, proc>>
      BY <1>2 DEF Quarantine, NoCleanup, TypeOK
    <2>2. ASSUME NEW t \in Server
          PROVE  CleanupSound(t)'
      BY <2>1 DEF LeaseInv, CleanupSound, Ended
    <2>3. PICK k \in Key : k = look[s].key
      BY <1>2 DEF Quarantine, LeaseInv, IdsKnown
    <2>4. CASE MayQuarantine(k, look[s].seen)
      <3>1. GuardFree(k) /\ reg[k] = look[s].seen /\ Remove(k)
        BY <1>2, <2>3, <2>4 DEF Quarantine, MayQuarantine
      <3>2. reg[k].pid # NoPid /\ Ended(reg[k].pid)
        BY <2>3, <3>1, <1>2 DEF Quarantine, LeaseInv, CleanupSound
      <3>3. reg'[k] = Absent /\ \A l \in Key \ {k} : reg'[l] = reg[l]
        BY <3>1, PutValues DEF Remove
      <3>4. ASSUME NEW i \in Job
            PROVE  JobSound(i)'
        <4>1. KeyOf(i) = k => ~Depends(i)
          BY <3>1, <3>2, EndedBooking
        <4>2. Depends(i) => KeyOf(i) \in Key
          BY DependsBooked
        <4>3. Kept(i)
          BY <2>1, <3>3, <4>1, <4>2 DEF Kept
        <4> QED
          BY <2>1, <4>3, KeptSound, NoEnd
      <3>5. ASSUME NEW l \in Key
            PROVE  BookingSound(l)'
        <4>1. CASE l = k
          BY <3>3, <4>1 DEF BookingSound, Absent
        <4>2. CASE l # k
          BY <2>1, <3>3, <4>2, KeptBooking, NoEnd DEF LeaseInv, BookingSound
        <4> QED
          BY <4>1, <4>2
      <3>6. CreatedAlone'
        BY <2>1 DEF LeaseInv, CreatedAlone, KeyOf
      <3> QED
        BY <2>2, <3>4, <3>5, <3>6 DEF LeaseInv
    <2>5. CASE ~MayQuarantine(k, look[s].seen)
      <3>1. UNCHANGED reg
        BY <1>2, <2>3, <2>5 DEF Quarantine, registry
      <3> QED
        BY <2>1, <2>2, <3>1 DEF LeaseInv, JobSound, LaunchSound, CallSound, LeaseHeld,
           BookedNoPid, Booked, BookingSound, CreatedAlone, Supervised, Started, Ended, KeyOf,
           OwnerOf
    <2> QED
      BY <2>4, <2>5
  <1> QED
    BY <1>1, <1>2

\* The end of a backend changes no booking: what its calls knew is no longer
\* relied on.
LEMMA EndsKeeps ==
    ASSUME TypeOK, LeaseInv, IdsKnown', NEW s \in Server, NEW how, Ends(s, how)
    PROVE  LeaseInv'
  <1>1. UNCHANGED <<reg, proc>> /\ \A t \in Server : look'[t] = look[t] \/ look'[t].key = NoKey
    BY DEF Ends, registry, TypeOK, NoCleanup
  <1>2. \A i \in Job :
            /\ launch'[i].key = launch[i].key
            /\ launch'[i] = launch[i] \/ launch'[i].pc = "done"
            /\ op'[i] = op[i] \/ op'[i] = NoOperation
    BY EndsValues
  <1>3. ASSUME NEW i \in Job
        PROVE  JobSound(i)'
    <2>1. JobSound(i) /\ UNCHANGED KeyOf(i)
      BY <1>2 DEF LeaseInv, KeyOf
    <2>2. LaunchSound(i)'
      BY <1>1, <1>2, <2>1 DEF JobSound, LaunchSound, LaunchHolds, BookedNoPid, Booked, KeyOf,
         OwnerOf, Started
    <2>3. CallSound(i)'
      <3>1. CASE op'[i] = op[i]
        BY <1>1, <1>2, <2>1, <3>1 DEF JobSound, CallSound, BookedNoPid, Booked, Started, Ended
      <3>2. CASE op'[i] = NoOperation
        BY <3>2, PlainCall DEF NoOperation, RetryPc
      <3> QED
        BY <1>2, <3>1, <3>2
    <2>4. LeaseHeld(i)'
      BY <1>1, <2>1 DEF JobSound, LeaseHeld, Booked, Supervised
    <2> QED
      BY <2>2, <2>3, <2>4 DEF JobSound
  <1>4. ASSUME NEW k \in Key
        PROVE  BookingSound(k)'
    <2>1. BookingSound(k)
      BY DEF LeaseInv
    <2>2. reg[k].dir = "held" =>
            /\ launch'[reg[k].job].key = launch[reg[k].job].key
            /\ launch'[reg[k].job].pc \notin {"idle", "created", "forgetting"}
      BY <1>2, <2>1 DEF BookingSound
    <2> QED
      BY <1>1, <2>2, NoEnd, KeptBooking
  <1>5. ASSUME NEW t \in Server
        PROVE  CleanupSound(t)'
    BY <1>1 DEF LeaseInv, CleanupSound, Ended
  <1>6. CreatedAlone'
    BY <1>2 DEF LeaseInv, CreatedAlone, KeyOf
  <1> QED
    BY <1>3, <1>4, <1>5, <1>6 DEF LeaseInv

-----------------------------------------------------------------------------
(* The invariant.                                                           *)

\* Every step of the system keeps the inductive invariant.
LEMMA LeaseStep ==
    ASSUME TypeOK, LeaseInv, NoMisread, [Next]_vars
    PROVE  LeaseInv'
  <1>0. IdsKnown'
    BY TypeStep DEF LeaseInv
  <1>1. CASE UNCHANGED vars
    BY <1>0, <1>1, StillStep DEF vars
  <1>2. ASSUME NEW j \in Job, LaunchNext(j) \/ ManageNext(j) \/ RetryNext(j)
        PROVE  LeaseInv'
    BY <1>0, <1>2, LaunchKeeps, ManageKeeps, RetryKeeps
  <1>3. ASSUME NEW k \in Key, LeaseNext(k)
        PROVE  LeaseInv'
    <2>1. ASSUME NEW s \in Server, Heartbeat(s, k) \/ HeartbeatFails(s, k) \/ Lapse(k)
          PROVE  LeaseInv'
      BY <1>0, <2>1, StillStep DEF Heartbeat, HeartbeatFails, Lapse, registry
    <2>2. CASE Lapse(k)
      BY <1>0, <2>2, StillStep DEF Lapse
    <2> QED
      BY <1>0, <1>3, <2>1, <2>2, CleanupKeeps DEF LeaseNext
  <1>4. ASSUME NEW s \in Server, ServerNext(s)
        PROVE  LeaseInv'
    <2>1. CASE Start(s)
      BY <1>0, <2>1, StillStep DEF Start, registry
    <2> QED
      BY <1>0, <1>4, <2>1, CleanupKeeps, EndsKeeps DEF ServerNext, Crash, Shutdown
  <1> QED
    BY <1>0, <1>1, <1>2, <1>3, <1>4, HostKeeps DEF Next

\* The initial state satisfies the inductive invariant.
LEMMA LeaseInit ==
    ASSUME Init
    PROVE  TypeOK /\ LeaseInv
  <1>1. TypeOK /\ IdsKnown
    BY NullTypes DEF Init, TypeOK, IdsKnown, JobKnown, LaunchKnown, Unrecorded, CallKnown,
       NoLaunch, NoRecord, NoOperation, NoCleanup, RetryPc, ProcState
  <1>2. \A j \in Job : JobSound(j)
    BY DEF Init, JobSound, LaunchSound, LaunchHolds, CallSound, CallHolds, RetryPc, LeaseHeld,
       Supervised, SupervisorAlive, NoLaunch, NoOperation, Process
  <1>3. \A k \in Key : BookingSound(k)
    BY DEF Init, BookingSound, Absent
  <1>4. (\A s \in Server : CleanupSound(s)) /\ CreatedAlone
    BY DEF Init, CleanupSound, NoCleanup, CreatedAlone, NoLaunch
  <1> QED
    BY <1>1, <1>2, <1>3, <1>4 DEF LeaseInv

\* What every launch, call, booking and cleanup knows stays true, if no failed
\* inspection is read as a missing process.
THEOREM LeaseInvariant ==
    ASSUME NoMisread
    PROVE  Spec => [](TypeOK /\ LeaseInv)
  <1>1. Init => TypeOK /\ LeaseInv
    BY LeaseInit
  <1>2. TypeOK /\ LeaseInv /\ [Next]_vars => (TypeOK /\ LeaseInv)'
    BY LeaseStep, TypeStep DEF LeaseInv
  <1> QED
    BY <1>1, <1>2, PTL DEF Spec

\* An attempt that runs, or may still start, holds the booking of its GPU.
THEOREM LeaseSafe ==
    ASSUME NoMisread
    PROVE  Spec => []LiveAttemptHoldsLease
  <1>1. TypeOK /\ LeaseInv => LiveAttemptHoldsLease
    <2> SUFFICES ASSUME LeaseInv, NEW p \in Supervised
                 PROVE  LET r == reg[KeyOf(p[1])] IN r.dir = "held" /\ <<r.job, r.att>> = p
      BY DEF LiveAttemptHoldsLease
    <2>1. PICK j \in Job, a \in Attempt : p = <<j, a>>
      BY DEF Supervised, Process
    <2>2. Booked(j, a)
      BY <2>1 DEF LeaseInv, JobSound, LeaseHeld
    <2> QED
      BY <2>1, <2>2 DEF Booked
  <1> QED
    BY <1>1, LeaseInvariant, PTL

\* A booking that names a process names that of the attempt booked.
THEOREM BookingTrue ==
    ASSUME NoMisread
    PROVE  Spec => []BookingNamesItsProcess
  <1>1. TypeOK /\ LeaseInv => BookingNamesItsProcess
    BY DEF LeaseInv, BookingSound, BookingNamesItsProcess
  <1> QED
    BY <1>1, LeaseInvariant, PTL

-----------------------------------------------------------------------------
(* Exclusive use of a GPU.                                                  *)

\* No program has outlived its supervisor.
NoOrphans == \A p \in Process : proc[p] # "orphan"

\* Without kills no step leaves a program without its supervisor.
LEMMA NoOrphansStep ==
    ASSUME TypeOK, LeaseInv, NoOrphans, "kill" \notin Faults, [Next]_vars
    PROVE  NoOrphans'
  <1>1. ASSUME UNCHANGED proc
        PROVE  NoOrphans'
    BY <1>1 DEF NoOrphans
  <1>2. ASSUME NEW p \in Process, NEW from, NEW to, ProcStep(p, from, to), to # "orphan"
        PROVE  NoOrphans'
    BY <1>2 DEF ProcStep, NoOrphans, TypeOK
  <1>3. ASSUME NEW p \in Process, NEW to \in {"inflight", "gone"},
               proc' = [proc EXCEPT ![p] = to]
        PROVE  NoOrphans'
    BY <1>3 DEF NoOrphans, TypeOK
  <1>4. ASSUME NEW j \in Job, LaunchNext(j)
        PROVE  NoOrphans'
    <2>1. 1 \in Attempt /\ <<j, 1>> \in Process
      BY ConstantsAssumption DEF Attempt, Process
    <2>2. \/ UNCHANGED proc
          \/ \E to \in {"inflight", "gone"} : proc' = [proc EXCEPT ![<<j, 1>>] = to]
      BY <1>4
      DEF LaunchNext, LaunchBegin, LaunchWriteMetadata, LaunchMetadataFails, LaunchRecord,
          LaunchRecordFails, LaunchSend, LaunchFailsBeforeStart, LaunchReplyLost,
          LaunchAcknowledged, LaunchRecordRunning, LaunchRunningUnrecorded,
          LaunchRecordPid, PrestartRecord, PrestartRelease, PrestartClose
    <2> QED
      BY <1>1, <1>3, <2>1, <2>2
  <1>5. ASSUME NEW j \in Job, ManageNext(j)
        PROVE  NoOrphans'
    BY <1>1, <1>5
    DEF ManageNext, StatusLook, StatusWith, RecoverFormer, FinishLook, Stop, UpdateCadence,
        OwnerCheckIn, SaveRecord, ReleaseOwned, CleanupFormer, Unregister, RecordInactive
  <1>6. ASSUME NEW j \in Job, RetryNext(j)
        PROVE  NoOrphans'
    <2>1. \/ UNCHANGED proc
          \/ /\ op[j].pc \in RetryPc
             /\ \E to \in {"inflight", "gone"} : proc' = [proc EXCEPT ![RetryProcess(j)] = to]
      BY <1>6
      DEF RetryNext, RetryLook, ClaimRecord, ClaimMetadata, ClaimFails, RetrySend,
          RetryFailsBeforeStart, RetryReplyLost, RetryAcknowledged, RollbackRecord,
          RollbackMetadata, FinalizeRecord, FinalizeMetadata, Doing, RetryPc
    <2> QED
      BY <1>1, <1>3, <2>1, RetryKnows
  <1>7. ASSUME NEW k \in Key, LeaseNext(k)
        PROVE  NoOrphans'
    BY <1>1, <1>7 DEF LeaseNext, Heartbeat, HeartbeatFails, InspectStale, Lapse
  <1>8. ASSUME NEW s \in Server, ServerNext(s)
        PROVE  NoOrphans'
    BY <1>1, <1>8 DEF ServerNext, Quarantine, Start, Crash, Shutdown, Ends
  <1>9. ASSUME NEW p \in Process, HostNext(p)
        PROVE  NoOrphans'
    BY <1>2, <1>9
    DEF HostNext, SupervisorStarts, CommandLost, ProgramEnds, SupervisorExits, HostLost,
        OrphanEnds
  <1>10. CASE UNCHANGED vars
    BY <1>1, <1>10 DEF vars
  <1> QED
    BY <1>4, <1>5, <1>6, <1>7, <1>8, <1>9, <1>10 DEF Next, KillSupervisor

\* A GPU never carries two managed programs, if no failed inspection is read as
\* a missing process and nobody kills a supervisor under its program.
THEOREM ExclusiveUse ==
    ASSUME NoMisread, "kill" \notin Faults
    PROVE  Spec => []OneProgramPerGpu
  <1>1. TypeOK /\ LeaseInv /\ NoOrphans => OneProgramPerGpu
    <2> SUFFICES ASSUME LeaseInv, NoOrphans, NEW p \in Process, NEW q \in Process,
                        MayUse(p), MayUse(q), KeyOf(p[1]) = KeyOf(q[1])
                 PROVE  p = q
      BY DEF OneProgramPerGpu
    <2>1. p \in Supervised /\ q \in Supervised
      BY DEF NoOrphans, MayUse, MayUseGpu, Supervised, SupervisorAlive
    <2>2. PICK j \in Job, a \in Attempt : p = <<j, a>>
      BY DEF Process
    <2>3. PICK i \in Job, b \in Attempt : q = <<i, b>>
      BY DEF Process
    <2>4. Booked(j, a) /\ Booked(i, b)
      BY <2>1, <2>2, <2>3 DEF LeaseInv, JobSound, LeaseHeld
    <2> QED
      BY <2>2, <2>3, <2>4 DEF Booked
  <1>2. Init => NoOrphans
    BY DEF Init, NoOrphans
  <1>3. TypeOK /\ LeaseInv /\ NoOrphans /\ [Next]_vars => NoOrphans'
    BY NoOrphansStep
  <1> QED
    BY <1>1, <1>2, <1>3, LeaseInvariant, PTL DEF Spec

-----------------------------------------------------------------------------
(* What a step of one job's launch or call touches.                         *)

\* A write to the booking of one GPU: the booking is given up, or is not made
\* yet, or is job j's, before and after.
Writes(j, k) ==
    /\ \A l \in Key \ {k} : reg'[l] = reg[l]
    /\ \/ reg'[k].dir # "held"
       \/ /\ k = KeyOf(j) /\ reg'[k].job = j
          /\ reg[k].dir = "held" => reg[k].job = j

Acts(j) ==
    /\ UNCHANGED <<inst, look>>
    /\ \A i \in Job \ {j} : launch'[i] = launch[i] /\ op'[i] = op[i] /\ rec'[i] = rec[i]
    /\ launch[j].pc \notin {"idle", "created"} => KeyOf(j)' = KeyOf(j) /\ OwnerOf(j)' = OwnerOf(j)
    /\ UNCHANGED reg \/ \E k \in Key : Writes(j, k)

\* A launch writes the booking of its GPU and no other.
LEMMA LaunchActs ==
    ASSUME TypeOK, LeaseInv, NEW j \in Job, LaunchNext(j)
    PROVE  Acts(j)
  <1>0. LaunchKnown(j) /\ LaunchSound(j)
    BY DEF LeaseInv, IdsKnown, JobKnown, JobSound
  <1>1. /\ UNCHANGED <<inst, look, op>>
        /\ \A i \in Job \ {j} : launch'[i] = launch[i] /\ rec'[i] = rec[i]
        /\ launch[j].pc \notin {"idle", "created"} => KeyOf(j)' = KeyOf(j) /\ OwnerOf(j)' = OwnerOf(j)
    <2>1. UNCHANGED <<inst, look, op>>
      BY DEF LaunchNext, LaunchBegin, LaunchWriteMetadata, LaunchMetadataFails, LaunchRecord,
         LaunchRecordFails, LaunchSend, LaunchFailsBeforeStart, LaunchReplyLost,
         LaunchAcknowledged, LaunchRecordRunning, LaunchRunningUnrecorded,
         LaunchRecordPid, PrestartRecord, PrestartRelease, PrestartClose
    <2>2. UNCHANGED rec \/ \E r : rec' = [rec EXCEPT ![j] = r]
      BY DEF LaunchNext, LaunchBegin, LaunchWriteMetadata, LaunchMetadataFails, LaunchRecord,
         LaunchRecordFails, LaunchSend, LaunchFailsBeforeStart, LaunchReplyLost,
         LaunchAcknowledged, LaunchRecordRunning, LaunchRunningUnrecorded,
         LaunchRecordPid, PrestartRecord, PrestartRelease, PrestartClose
    <2>3. \A i \in Job \ {j} : rec'[i] = rec[i]
      BY <2>2 DEF TypeOK
    <2>4. \/ launch[j].pc \in {"idle", "created"} /\ \E l : launch' = [launch EXCEPT ![j] = l]
          \/ \E pc : LaunchStep(j, pc)
      BY DEF LaunchNext, LaunchBegin, LaunchWriteMetadata, LaunchMetadataFails, LaunchRecord,
         LaunchRecordFails, LaunchSend, LaunchFailsBeforeStart, LaunchReplyLost,
         LaunchAcknowledged, LaunchRecordRunning, LaunchRunningUnrecorded, Launching,
         LaunchRecordPid, PrestartRecord, PrestartRelease, PrestartClose
    <2>5. CASE launch[j].pc \in {"idle", "created"} /\ \E l : launch' = [launch EXCEPT ![j] = l]
      BY <2>1, <2>3, <2>5 DEF TypeOK
    <2>6. CASE \E pc : LaunchStep(j, pc)
      BY <2>1, <2>3, <2>6, LaunchStepValues DEF KeyOf, OwnerOf
    <2> QED
      BY <2>4, <2>5, <2>6
  <1>2. \/ UNCHANGED reg
        \/ (\E s \in Server, k \in Key : LaunchBegin(j, s, k)) \/ LaunchWriteMetadata(j)
        \/ launch[j].pc # "idle" /\ Remove(KeyOf(j))
        \/ LaunchRecordPid(j)
    BY DEF LaunchNext, LaunchMetadataFails, LaunchRecord, Launching, registry,
       LaunchRecordFails, LaunchSend, LaunchFailsBeforeStart, LaunchReplyLost,
       LaunchAcknowledged, LaunchRecordRunning, LaunchRunningUnrecorded,
       PrestartRecord, PrestartRelease, PrestartClose
  <1>3. ASSUME NEW s \in Server, NEW k \in Key, LaunchBegin(j, s, k)
        PROVE  Writes(j, k)
    BY <1>3, PutValues DEF LaunchBegin, Writes, Empty, Absent
  <1>4. ASSUME LaunchWriteMetadata(j)
        PROVE  Writes(j, KeyOf(j)) /\ KeyOf(j) \in Key
    <2>1. KeyOf(j) \in Key /\ reg[KeyOf(j)].dir = "empty"
      BY <1>0, <1>4 DEF LaunchWriteMetadata, Launching, LaunchKnown, LaunchSound, Empty, Absent
    <2> QED
      BY <1>4, <2>1, PutValues DEF LaunchWriteMetadata, Writes
  <1>5. ASSUME launch[j].pc # "idle", Remove(KeyOf(j))
        PROVE  Writes(j, KeyOf(j)) /\ KeyOf(j) \in Key
    BY <1>0, <1>5, PutValues DEF LaunchKnown, Remove, Writes, Absent
  <1>6. ASSUME LaunchRecordPid(j), ~UNCHANGED reg
        PROVE  Writes(j, KeyOf(j)) /\ KeyOf(j) \in Key
    <2>1. /\ KeyOf(j) \in Key /\ reg[KeyOf(j)].dir = "held" /\ reg[KeyOf(j)].job = j
          /\ reg[KeyOf(j)] \in Reservation
      BY <1>0, <1>6 DEF LaunchRecordPid, Launching, LaunchKnown, LaunchSound, LaunchHolds,
         BookedNoPid, Booked, TypeOK
    <2> DEFINE r == [reg[KeyOf(j)] EXCEPT !.pid = <<j, 1>>]
    <2>2. Put(KeyOf(j), r)
      BY <1>6 DEF LaunchRecordPid, registry
    <2>3. r.job = j
      BY <2>1 DEF Reservation
    <2> HIDE DEF r
    <2> QED
      BY <2>1, <2>2, <2>3, PutValues DEF Writes
  <1> QED
    BY <1>1, <1>2, <1>3, <1>4, <1>5, <1>6 DEF Acts

\* A status answer, a finish or a recovery writes it only to give it up.
LEMMA ManageActs ==
    ASSUME TypeOK, LeaseInv, NEW j \in Job, ManageNext(j)
    PROVE  Acts(j) /\ UNCHANGED <<launch, proc>>
  <1>1. UNCHANGED <<inst, look, launch, proc>>
    BY DEF ManageNext, StatusLook, StatusWith, RecoverFormer, FinishLook, Stop, UpdateCadence,
       OwnerCheckIn, SaveRecord, ReleaseOwned, CleanupFormer, Unregister, RecordInactive
  <1>2. UNCHANGED rec \/ \E r : rec' = [rec EXCEPT ![j] = r]
    BY DEF ManageNext, StatusLook, StatusWith, RecoverFormer, FinishLook, Stop, UpdateCadence,
       OwnerCheckIn, SaveRecord, ReleaseOwned, CleanupFormer, Unregister, RecordInactive
  <1>c. ASSUME CleanupFormer(j)
        PROVE  (UNCHANGED reg /\ OpDone(j)) \/ (Remove(KeyOf(j)) /\ OpLast(j, "inactive"))
    BY <1>c DEF CleanupFormer, registry
  <1>3. ASSUME NEW i \in Job \ {j}
        PROVE  op'[i] = op[i]
    <2>1. ASSUME NEW s \in Server, StatusLook(j, s)
          PROVE  op'[i] = op[i]
      <3>1. PICK record, verdict, outcome : StatusWith(j, s, record, verdict, outcome)
        BY <2>1 DEF StatusLook
      <3> QED
        BY <3>1 DEF StatusWith, TypeOK
    <2>3. ASSUME NEW s \in Server, FinishLook(j, s) \/ Stop(j, s)
          PROVE  op'[i] = op[i]
      BY <2>3 DEF FinishLook, Stop, TypeOK
    <2>4. ASSUME NEW s \in Server, RecoverFormer(j, s) \/ UpdateCadence(j, s)
          PROVE  op'[i] = op[i]
      BY <2>4 DEF RecoverFormer, UpdateCadence
    <2>2. CASE SaveRecord(j) \/ ReleaseOwned(j) \/ CleanupFormer(j) \/ Unregister(j) \/ RecordInactive(j)
      <3>1. \/ OpDone(j) \/ OpStep(j, op[j].then) \/ OpLast(j, "unregister") \/ OpStep(j, "look")
            \/ OpLast(j, "inactive") \/ OpStep(j, "inactive")
        BY <1>c, <2>2 DEF SaveRecord, ReleaseOwned, Unregister, RecordInactive
      <3> QED
        BY <3>1, OpDoneValues, OpStepValues, OpLastValues
    <2> QED
      BY <2>1, <2>2, <2>3, <2>4 DEF ManageNext
  <1>4. UNCHANGED reg \/ (Remove(KeyOf(j)) /\ op[j].pc \in StatusPc)
    <2>1. CASE CleanupFormer(j)
      BY <1>c, <2>1 DEF CleanupFormer, Doing, StatusPc
    <2>2. CASE ReleaseOwned(j)
      BY <2>2 DEF ReleaseOwned, Doing, StatusPc, registry
    <2> QED
      BY <2>1, <2>2 DEF ManageNext, StatusLook, StatusWith, RecoverFormer, FinishLook, Stop,
         UpdateCadence, OwnerCheckIn, SaveRecord, Unregister, RecordInactive, registry
  <1>5. ASSUME Remove(KeyOf(j)), op[j].pc \in StatusPc
        PROVE  Writes(j, KeyOf(j)) /\ KeyOf(j) \in Key
    <2>1. KeyOf(j) \in Key
      BY <1>5, ManagedKey DEF StatusPc
    <2> QED
      BY <1>5, <2>1, PutValues DEF Remove, Writes, Absent
  <1>6. \A i \in Job \ {j} : rec'[i] = rec[i]
    BY <1>2 DEF TypeOK
  <1> QED
    BY <1>1, <1>3, <1>4, <1>5, <1>6 DEF Acts, KeyOf, OwnerOf

\* A retry writes the booking it has claimed, which stays its job's.
LEMMA RetryActs ==
    ASSUME TypeOK, LeaseInv, NEW j \in Job, RetryNext(j)
    PROVE  Acts(j) /\ UNCHANGED launch
  <1>0. op[j].pc \in RetryPc => KeyOf(j) \in Key /\ reg[KeyOf(j)] \in Reservation /\ CallSound(j)
    BY RetryKnows DEF TypeOK
  <1>1. UNCHANGED <<inst, look, launch>>
    BY DEF RetryNext, RetryLook, ClaimRecord, ClaimMetadata, ClaimFails, RetrySend,
       RetryFailsBeforeStart, RetryReplyLost, RetryAcknowledged, RollbackRecord,
       RollbackMetadata, FinalizeRecord, FinalizeMetadata
  <1>2. UNCHANGED rec \/ \E r : rec' = [rec EXCEPT ![j] = r]
    BY DEF RetryNext, RetryLook, ClaimRecord, ClaimMetadata, ClaimFails, RetrySend,
       RetryFailsBeforeStart, RetryReplyLost, RetryAcknowledged, RollbackRecord,
       RollbackMetadata, FinalizeRecord, FinalizeMetadata
  <1>3. \E o : op' = [op EXCEPT ![j] = o]
    BY DEF RetryNext, RetryLook, ClaimRecord, ClaimMetadata, ClaimFails, RetrySend,
       RetryFailsBeforeStart, RetryReplyLost, RetryAcknowledged, RollbackRecord,
       RollbackMetadata, FinalizeRecord, FinalizeMetadata, OpDone, OpStep
  <1>4. UNCHANGED reg \/ ClaimMetadata(j) \/ RollbackMetadata(j) \/ FinalizeMetadata(j)
    BY DEF RetryNext, RetryLook, ClaimRecord, ClaimFails, RetrySend,
       RetryFailsBeforeStart, RetryReplyLost, RetryAcknowledged, RollbackRecord,
       FinalizeRecord, registry
  <1>5. ASSUME NEW r \in Reservation, Put(KeyOf(j), r), r.job = j, KeyOf(j) \in Key,
               reg[KeyOf(j)].job = j
        PROVE  Writes(j, KeyOf(j))
    BY <1>5, PutValues DEF Writes
  <1>6. ASSUME ClaimMetadata(j)
        PROVE  Writes(j, KeyOf(j)) /\ KeyOf(j) \in Key
    <2>1. /\ KeyOf(j) \in Key /\ reg[KeyOf(j)].job = j /\ reg[KeyOf(j)] \in Reservation
          /\ op[j].write.att \in Attempt
      BY <1>0, <1>6, RetryKnows DEF ClaimMetadata, Doing, RetryPc, CallSound
    <2> DEFINE r == [reg[KeyOf(j)] EXCEPT !.att = op[j].write.att, !.pid = NoPid]
    <2>2. r \in Reservation /\ r.job = j
      BY <2>1 DEF Reservation
    <2>3. Put(KeyOf(j), r)
      BY <1>6 DEF ClaimMetadata
    <2> HIDE DEF r
    <2> QED
      BY <1>5, <2>1, <2>2, <2>3
  <1>7. ASSUME RollbackMetadata(j), ~UNCHANGED reg
        PROVE  Writes(j, KeyOf(j)) /\ KeyOf(j) \in Key
    <2>1. /\ KeyOf(j) \in Key /\ reg[KeyOf(j)].job = j
          /\ op[j].meta.job = j /\ op[j].meta \in Reservation
      BY <1>0, <1>7, ReadTypes DEF RollbackMetadata, Doing, RetryPc, CallSound, CallHolds, BookedNoPid,
         Booked
    <2>2. Put(KeyOf(j), op[j].meta)
      BY <1>7 DEF RollbackMetadata, registry
    <2> QED
      BY <1>5, <2>1, <2>2
  <1>8. ASSUME FinalizeMetadata(j), ~UNCHANGED reg
        PROVE  Writes(j, KeyOf(j)) /\ KeyOf(j) \in Key
    <2>1. /\ KeyOf(j) \in Key /\ reg[KeyOf(j)].job = j /\ reg[KeyOf(j)] \in Reservation
          /\ RetryProcess(j) \in Process
      BY <1>0, <1>8, RetryKnows DEF FinalizeMetadata, Doing, RetryPc, CallSound, CallHolds, BookedNoPid,
         Booked
    <2> DEFINE r == [reg[KeyOf(j)] EXCEPT !.pid = RetryProcess(j)]
    <2>2. r \in Reservation /\ r.job = j
      BY <2>1 DEF Reservation
    <2>3. Put(KeyOf(j), r)
      BY <1>8 DEF FinalizeMetadata, registry
    <2> HIDE DEF r
    <2> QED
      BY <1>5, <2>1, <2>2, <2>3
  <1>9. \A i \in Job \ {j} : op'[i] = op[i] /\ rec'[i] = rec[i]
    BY <1>2, <1>3 DEF TypeOK
  <1> QED
    BY <1>1, <1>4, <1>6, <1>7, <1>8, <1>9 DEF Acts, KeyOf, OwnerOf

-----------------------------------------------------------------------------
(* The abstract lease.                                                      *)

\* The attempt that a GPU is leased to.
LeaseOf(k) == IF reg[k].dir = "held" THEN <<reg[k].job, reg[k].att>> ELSE NoPid

\* A step that starts and ends no program, and writes one booking without giving
\* it to another job, moves or ends a lease that is not in use, or grants one.
LEMMA LeaseMoves ==
    ASSUME TypeOK, LeaseInv, TypeOK', LeaseInv', UNCHANGED proc, NEW k \in Key,
           \A l \in Key \ {k} : reg'[l] = reg[l],
           \A i \in Job : reg[k].dir = "held" /\ reg[k].job = i => KeyOf(i)' = k,
           reg[k].dir = "held" /\ reg'[k].dir = "held" => reg'[k].job = reg[k].job
    PROVE  [Lease!LeaseNext]_(Lease!leases)
  <1> DEFINE lease == [l \in Key |-> IF reg[l].dir = "held"
                                     THEN <<reg[l].job, reg[l].att>> ELSE NoPid]
  <1>1. Supervised' = Supervised
    BY DEF Supervised
  <1>2. lease[k] = LeaseOf(k) /\ lease' = [lease EXCEPT ![k] = LeaseOf(k)']
    BY DEF LeaseOf
  <1>3. LeaseOf(k) # NoPid =>
            /\ reg[k].dir = "held" /\ LeaseOf(k) = <<reg[k].job, reg[k].att>>
            /\ reg[k].job \in Job /\ reg[k].att \in Attempt
    BY DEF LeaseOf, LeaseInv, BookingSound
  <1>4. LeaseOf(k)' # NoPid =>
            /\ reg'[k].dir = "held" /\ LeaseOf(k)' = <<reg'[k].job, reg'[k].att>>
            /\ reg'[k].job \in Job /\ reg'[k].att \in Attempt
    BY DEF LeaseOf, LeaseInv, BookingSound
  <1>5. CASE LeaseOf(k)' = LeaseOf(k)
    <2>1. lease' = lease
      BY <1>2, <1>5
    <2> QED
      BY <1>1, <2>1 DEF Lease!leases
  <1>6. CASE LeaseOf(k)' # LeaseOf(k) /\ LeaseOf(k) = NoPid
    <2>1. LeaseOf(k)' \in Job \X Attempt
      BY <1>4, <1>6
    <2> PICK h \in Job \X Attempt : h = LeaseOf(k)'
      BY <2>1
    <2>2. Lease!Grant(k, h)
      BY <1>1, <1>2, <1>6 DEF Lease!Grant
    <2> QED
      BY <2>2 DEF Lease!LeaseNext, Lease!Holder
  <1>7. CASE LeaseOf(k)' # LeaseOf(k) /\ LeaseOf(k) # NoPid
    <2>1. LeaseOf(k) \notin Supervised
      <3> SUFFICES ASSUME LeaseOf(k) \in Supervised
                   PROVE  FALSE
        OBVIOUS
      <3> PICK j \in Job : j = reg[k].job
        BY <1>3, <1>7
      <3> PICK a \in Attempt : a = reg[k].att
        BY <1>3, <1>7
      <3>0. LeaseHeld(j)' /\ KeyOf(j)' = k
        BY <1>3, <1>7 DEF LeaseInv, JobSound
      <3>1. LeaseHeld(j)' /\ KeyOf(j)' = k /\ <<j, a>> \in Supervised'
        BY <1>1, <1>3, <1>7, <3>0
      <3>2. Booked(j, a)'
        BY <3>1 DEF LeaseHeld
      <3>3. reg'[k].dir = "held" /\ reg'[k].job = j /\ reg'[k].att = a
        BY <3>1, <3>2 DEF Booked
      <3> QED
        BY <1>3, <1>7, <3>3 DEF LeaseOf
    <2>2. CASE LeaseOf(k)' = NoPid
      <3>1. Lease!Release(k)
        BY <1>1, <1>2, <1>7, <2>1, <2>2 DEF Lease!Release
      <3> QED
        BY <3>1 DEF Lease!LeaseNext
    <2>3. CASE LeaseOf(k)' # NoPid
      <3>1. LeaseOf(k)' \in Job \X Attempt
        BY <1>4, <2>3
      <3> PICK h \in Job \X Attempt : h = LeaseOf(k)'
        BY <3>1
      <3>2. LeaseOf(k)[1] = h[1]
        BY <1>3, <1>4, <1>7, <2>3
      <3>3. Lease!Transfer(k, h)
        BY <1>1, <1>2, <1>7, <2>1, <3>2 DEF Lease!Transfer
      <3> QED
        BY <3>3 DEF Lease!LeaseNext, Lease!Holder
    <2> QED
      BY <2>2, <2>3
  <1> QED
    BY <1>5, <1>6, <1>7

\* A step that writes no booking, and starts or ends one program, begins or ends
\* the use of a lease.
LEMMA LeaseUsed ==
    ASSUME TypeOK, LeaseInv, TypeOK', LeaseInv', UNCHANGED reg,
           NEW j \in Job, NEW a \in Attempt, KeyOf(j)' = KeyOf(j),
           \A p \in Process \ {<<j, a>>} : proc'[p] = proc[p]
    PROVE  [Lease!LeaseNext]_(Lease!leases)
  <1> DEFINE lease == [l \in Key |-> IF reg[l].dir = "held"
                                     THEN <<reg[l].job, reg[l].att>> ELSE NoPid]
             p == <<j, a>>
             k == KeyOf(j)
  <1>1. lease' = lease /\ p \in Process
    BY DEF Process
  <1>2. CASE p \in Supervised <=> p \in Supervised'
    <2>1. Supervised' = Supervised
      BY <1>1, <1>2 DEF Supervised
    <2> QED
      BY <1>1, <2>1 DEF Lease!leases
  <1>3. CASE p \in Supervised /\ p \notin Supervised'
    <2>1. Supervised' = Supervised \ {p}
      BY <1>1, <1>3 DEF Supervised
    <2>2. Lease!End(p)
      BY <1>1, <1>3, <2>1 DEF Lease!End
    <2> QED
      BY <2>2 DEF Lease!LeaseNext, Lease!Holder
  <1>4. CASE p \notin Supervised /\ p \in Supervised'
    <2>1. Supervised' = Supervised \cup {p}
      BY <1>1, <1>4 DEF Supervised
    <2>2. Booked(j, a)' /\ k \in Key
      <3>1. LeaseHeld(j)'
        BY DEF LeaseInv, JobSound
      <3>2. LaunchSound(j)' /\ JobKnown(j)'
        BY DEF LeaseInv, JobSound, IdsKnown
      <3>3. launch'[j].pc # "idle"
        BY <1>4, <3>2 DEF LaunchSound, Supervised, SupervisorAlive
      <3> QED
        BY <1>4, <3>1, <3>2, <3>3 DEF LeaseHeld, JobKnown, LaunchKnown
    <2>3. lease[k] = p
      BY <2>2 DEF Booked
    <2>4. Lease!Begin(k, p)
      BY <1>1, <1>4, <2>1, <2>3 DEF Lease!Begin
    <2> QED
      BY <2>2, <2>4 DEF Lease!LeaseNext, Lease!Holder
  <1> QED
    BY <1>2, <1>3, <1>4

\* A step of one job that starts and ends no program is one of the lease.
LEMMA JobLease ==
    ASSUME TypeOK, LeaseInv, TypeOK', LeaseInv', NEW j \in Job, Acts(j), UNCHANGED proc
    PROVE  [Lease!LeaseNext]_(Lease!leases)
  <1>1. CASE UNCHANGED reg
    BY <1>1 DEF Lease!leases, Supervised
  <1>2. ASSUME NEW k \in Key, Writes(j, k)
        PROVE  [Lease!LeaseNext]_(Lease!leases)
    <2>1. \A i \in Job : reg[k].dir = "held" /\ reg[k].job = i => KeyOf(i)' = k
      <3> SUFFICES ASSUME NEW i \in Job, reg[k].dir = "held", reg[k].job = i
                   PROVE  KeyOf(i)' = k
        OBVIOUS
      <3>1. KeyOf(i) = k /\ launch[i].pc \notin {"idle", "created"}
        BY DEF LeaseInv, BookingSound
      <3> QED
        BY <3>1 DEF Acts, KeyOf
    <2>2. reg[k].dir = "held" /\ reg'[k].dir = "held" => reg'[k].job = reg[k].job
      BY <1>2 DEF Writes
    <2>3. \A l \in Key \ {k} : reg'[l] = reg[l]
      BY <1>2 DEF Writes
    <2> QED
      BY <2>1, <2>2, <2>3, LeaseMoves
  <1> QED
    BY <1>1, <1>2 DEF Acts

\* Every step of the system is one of the lease, or changes nothing of it.
LEMMA LeaseImplemented ==
    ASSUME TypeOK, LeaseInv, TypeOK', LeaseInv', [Next]_vars
    PROVE  [Lease!LeaseNext]_(Lease!leases)
  <1>1. ASSUME UNCHANGED <<reg, proc>>
        PROVE  [Lease!LeaseNext]_(Lease!leases)
    BY <1>1 DEF Lease!leases, Supervised
  <1>2. ASSUME NEW j \in Job, NEW a \in Attempt, NEW to, proc' = [proc EXCEPT ![<<j, a>>] = to],
               UNCHANGED reg, KeyOf(j)' = KeyOf(j)
        PROVE  [Lease!LeaseNext]_(Lease!leases)
    <2>1. \A p \in Process \ {<<j, a>>} : proc'[p] = proc[p]
      BY <1>2 DEF TypeOK
    <2> QED
      BY <1>2, <2>1, LeaseUsed
  <1>3. ASSUME NEW j \in Job, LaunchNext(j)
        PROVE  [Lease!LeaseNext]_(Lease!leases)
    <2>1. CASE LaunchSend(j) \/ LaunchFailsBeforeStart(j)
      <3>1. KeyOf(j)' = KeyOf(j)
        BY <1>3, <2>1, LaunchActs DEF LaunchSend, LaunchFailsBeforeStart, Launching, Acts
      <3>2. UNCHANGED reg /\ \E to : proc' = [proc EXCEPT ![<<j, 1>>] = to]
        BY <2>1 DEF LaunchSend, LaunchFailsBeforeStart, registry
      <3>3. 1 \in Attempt
        BY ConstantsAssumption DEF Attempt
      <3> QED
        BY <1>2, <3>1, <3>2, <3>3
    <2>2. CASE ~(LaunchSend(j) \/ LaunchFailsBeforeStart(j))
      <3>1. UNCHANGED proc
        BY <1>3, <2>2 DEF LaunchNext, LaunchBegin, LaunchWriteMetadata, LaunchMetadataFails,
           LaunchRecord, LaunchRecordFails, LaunchReplyLost, LaunchAcknowledged,
           LaunchRecordRunning, LaunchRunningUnrecorded, LaunchRecordPid, PrestartRecord,
           PrestartRelease, PrestartClose
      <3> QED
        BY <1>3, <3>1, LaunchActs, JobLease
    <2> QED
      BY <2>1, <2>2
  <1>4. ASSUME NEW j \in Job, ManageNext(j)
        PROVE  [Lease!LeaseNext]_(Lease!leases)
    BY <1>4, ManageActs, JobLease
  <1>5. ASSUME NEW j \in Job, RetryNext(j)
        PROVE  [Lease!LeaseNext]_(Lease!leases)
    <2>1. CASE RetrySend(j) \/ RetryFailsBeforeStart(j)
      <3>1. /\ UNCHANGED <<reg, launch>> /\ op[j].pc \in RetryPc
            /\ \E to : proc' = [proc EXCEPT ![RetryProcess(j)] = to]
        BY <2>1 DEF RetrySend, RetryFailsBeforeStart, registry, Doing, RetryPc
      <3>2. op[j].write.att \in Attempt
        BY <3>1, RetryKnows
      <3> PICK a \in Attempt : a = op[j].write.att
        BY <3>2
      <3>3. \E to : proc' = [proc EXCEPT ![<<j, a>>] = to]
        BY <3>1 DEF RetryProcess
      <3> QED
        BY <1>2, <3>1, <3>3 DEF KeyOf
    <2>2. CASE ~(RetrySend(j) \/ RetryFailsBeforeStart(j))
      <3>1. UNCHANGED proc
        BY <1>5, <2>2 DEF RetryNext, RetryLook, ClaimRecord, ClaimMetadata, ClaimFails,
           RetryReplyLost, RetryAcknowledged, RollbackRecord, RollbackMetadata, FinalizeRecord,
           FinalizeMetadata
      <3> QED
        BY <1>5, <3>1, RetryActs, JobLease
    <2> QED
      BY <2>1, <2>2
  <1>6. ASSUME NEW k \in Key, LeaseNext(k)
        PROVE  [Lease!LeaseNext]_(Lease!leases)
    BY <1>1, <1>6 DEF LeaseNext, Heartbeat, HeartbeatFails, InspectStale, Lapse, registry
  <1>7. ASSUME NEW s \in Server, ServerNext(s)
        PROVE  [Lease!LeaseNext]_(Lease!leases)
    <2>1. CASE Quarantine(s)
      <3>1. look[s].key \in Key /\ UNCHANGED <<launch, proc>>
        BY <2>1 DEF Quarantine, LeaseInv, IdsKnown
      <3> PICK k \in Key : k = look[s].key
        BY <3>1
      <3>2. UNCHANGED reg \/ Remove(k)
        BY <2>1 DEF Quarantine, registry
      <3>3. CASE Remove(k)
        <4>1. reg'[k].dir = "absent" /\ \A l \in Key \ {k} : reg'[l] = reg[l]
          BY <3>3, PutValues DEF Remove, Absent
        <4>2. \A i \in Job : reg[k].dir = "held" /\ reg[k].job = i => KeyOf(i)' = k
          BY <3>1 DEF LeaseInv, BookingSound, KeyOf
        <4> QED
          BY <3>1, <4>1, <4>2, LeaseMoves
      <3> QED
        BY <1>1, <3>1, <3>2, <3>3
    <2>2. CASE ~Quarantine(s)
      BY <1>1, <1>7, <2>2 DEF ServerNext, Start, Crash, Shutdown, Ends, registry
    <2> QED
      BY <2>1, <2>2
  <1>8. ASSUME NEW p \in Process, NEW from, NEW to, ProcStep(p, from, to)
        PROVE  [Lease!LeaseNext]_(Lease!leases)
    <2> PICK j \in Job, a \in Attempt : p = <<j, a>>
      BY DEF Process
    <2>1. proc' = [proc EXCEPT ![<<j, a>>] = to] /\ UNCHANGED <<reg, launch>>
      BY <1>8 DEF ProcStep, registry
    <2> QED
      BY <1>2, <2>1 DEF KeyOf
  <1>9. ASSUME NEW p \in Process, HostNext(p)
        PROVE  [Lease!LeaseNext]_(Lease!leases)
    BY <1>8, <1>9 DEF HostNext, SupervisorStarts, CommandLost, ProgramEnds, SupervisorExits,
       HostLost, OrphanEnds
  <1>10. ASSUME NEW j \in Job, KillSupervisor(j)
         PROVE  [Lease!LeaseNext]_(Lease!leases)
    <2>1. rec[j].pid \in Process
      BY <1>10 DEF KillSupervisor, TypeOK, Record
    <2> QED
      BY <1>8, <1>10, <2>1 DEF KillSupervisor
  <1>11. CASE UNCHANGED vars
    BY <1>1, <1>11 DEF vars
  <1> QED
    BY <1>3, <1>4, <1>5, <1>6, <1>7, <1>9, <1>10, <1>11 DEF Next

\* ManagedJobs implements GpuLease: no lease moves or ends under an attempt that
\* runs or may still start, if no failed inspection is read as a missing process.
THEOREM LeaseKept ==
    ASSUME NoMisread
    PROVE  Spec => LeaseSpec
  <1>1. Init => Lease!LeaseInit
    BY DEF Init, Lease!LeaseInit, Absent, Supervised, SupervisorAlive
  <1>2. TypeOK /\ LeaseInv /\ (TypeOK /\ LeaseInv)' /\ [Next]_vars
            => [Lease!LeaseNext]_(Lease!leases)
    BY LeaseImplemented
  <1> QED
    BY <1>1, <1>2, LeaseInvariant, PTL DEF Spec, LeaseSpec, Lease!LeaseSpec

=============================================================================
