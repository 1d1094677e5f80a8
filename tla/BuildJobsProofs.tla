---------------------------- MODULE BuildJobsProofs ----------------------------
(***************************************************************************)
(* Proofs about builds, for any number of callers and attempts and with    *)
(* all the faults of the model: one attempt runs at a time, the GPU of a   *)
(* GPU-assisted attempt is booked until the attempt is proven gone, and    *)
(* each attempt is a group as HostGroup describes it.                      *)
(*                                                                         *)
(* Inv is inductive. What it says of hosts is kept by every step there     *)
(* (OnHost), which moreover leaves gone what has gone and stops being      *)
(* pending only once (HostKept); what it says of calls is proved per step  *)
(* of a call, from what the caller has in hand at that step (Holds).       *)
(***************************************************************************)
EXTENDS BuildJobs, Integers, TLAPS

-----------------------------------------------------------------------------
(* The inductive invariant.                                                 *)

\* An attempt of which nothing runs or will run, and one whose launch command is
\* on its way or has arrived, and that is not yet gone.
Gone(a) == Inspected(a) = "gone"
Pending(a) == request[a] \in {"inflight", "arrived"} /\ ~Gone(a)

\* Code of the build runs only after the identities of its processes are saved.
SoundWorker(w) ==
    /\ w.sup # "none"
    /\ w.ns = "released" => w.file = "running"
    /\ w.sup \in {"boot", "starting", "ready", "spawned"} => w.ns # "released"
    /\ w.sup = "running" => w.file = "running"
WorkerSound ==
    \A a \in Attempt : IF request[a] = "arrived" THEN SoundWorker(worker[a])
                       ELSE worker[a] = NoWorker

\* The record names the newest attempt, and a result only of an attempt that has gone.
RecSound ==
    /\ rec.att = 0 => rec = NoRecord
    /\ rec.outcome # "none" => Gone(rec.att)
    /\ \A a \in Attempt : /\ Pending(a) => rec.att = a
                          /\ request[a] # "none" => a <= rec.att

\* Two callers at most: one that launches the job, and the one that holds the lock.
Alone ==
    /\ \A c, d \in Caller : op[c].action = "launch" /\ op[d].action = "launch" => c = d
    /\ \A c \in Caller : /\ op[c].pc = "idle" => op[c] = Idle
                         /\ lock = c <=> op[c].pc # "idle" /\ op[c].action # "launch"

Judging == {"save", "release", "remove", "released", "act", "stop", "stopped"}
Preparing == {"reserve", "probe", "register"}
Late == {"sent", "describe", "launched"}

\* A call that manages the job is about the attempt of the record.
Judges(o) ==
    o.pc \in Judging =>
        /\ o.action # "launch" /\ rec.att # 0 /\ o.write.att = rec.att
        /\ o.seen = "gone" \/ o.pc \in {"release", "remove", "released"} => Gone(rec.att)
        /\ o.pc = "remove" /\ Launching => early

\* A launch in preparation is about the next attempt, whose command was never sent.
Prepares(o) ==
    o.pc \in Preparing =>
        /\ o.write.att = rec.att + 1 /\ (o.action = "launch" <=> rec.att = 0)
        /\ rec.att # 0 => Gone(rec.att)
        /\ request[o.write.att] = "none"

\* A launch whose command is sent is about the attempt of the record; of the first
\* attempt of the job, once its command is sent, the record may know a newer one.
Launches(o) ==
    o.pc \in Late \cup {"send"} =>
        /\ IF o.action = "launch" THEN rec.att # 0 /\ o.write.att = 1
           ELSE rec.att > 1 /\ o.write.att = rec.att
        /\ o.pc = "send" => o.write.att = rec.att /\ request[o.write.att] = "none"

Holds(o) ==
    /\ o.pc # "idle" => o.write.att \in Attempt
    /\ o.write.outcome # "none" => Gone(o.write.att)
    /\ ~OwnerUp => o.action = "status" /\ o.pc \in {"idle", "save"}
    /\ Judges(o) /\ Prepares(o) /\ Launches(o)
CallSound == \A c \in Caller : Holds(op[c])

\* A launch has its booking, unless an early call has released it.
Has(o) ==
    /\ o.pc \in {"probe", "register", "send"} => booking = o.write.att
    /\ o.pc \in {"sent", "describe"} =>
           booking = o.write.att \/ (o.action = "launch" /\ early)

\* A GPU-assisted attempt has its GPU while it may run, and from before its launch.
Pended == \A a \in Attempt : Pending(a) => booking = a \/ Misdescribed
Described == booking \in Attempt => named = booking \/ early
Booked ==
    OnGpu => /\ Pended /\ Described /\ (stale => ~OwnerUp)
             /\ \A c \in Caller : Has(op[c])

Inv == TypeOK /\ WorkerSound /\ RecSound /\ Alone /\ CallSound /\ Booked

-----------------------------------------------------------------------------
(* An attempt on its host.                                                  *)

GoneWorker(w) ==
    /\ w.file # "none"
    /\ w.sup \in {"none", "dead"}
    /\ w.file = "running" => ~w.bwrap /\ w.ns = "none"

LEMMA GoneMeans == ASSUME NEW a PROVE Gone(a) <=> GoneWorker(worker[a])
  BY DEF Gone, GoneWorker, Inspected, AnyAlive, SupervisorUp

LEMMA GoneMeansNext == ASSUME NEW a PROVE Gone(a)' <=> GoneWorker(worker'[a])
  BY DEF Gone, GoneWorker, Inspected, AnyAlive, SupervisorUp

LEMMA NothingRuns ==
    /\ NoWorker \in Worker /\ ~GoneWorker(NoWorker) /\ NoWorker.outcome = "none"
    /\ NoWorker.ns = "none" /\ NoWorker.sup = "none" /\ NoWorker.file = "none"
  BY DEF NoWorker, Worker, Stage, GoneWorker

\* What a step may do to a worker that has been started.
Moves(w, new) ==
    /\ new \in Worker /\ SoundWorker(new)
    /\ GoneWorker(w) => GoneWorker(new) /\ new.outcome = w.outcome

\* A step on the host of attempt a: the command arrives or is lost, or a worker that
\* was started moves on.
Starts(a) ==
    /\ request[a] = "inflight" /\ request' = [request EXCEPT ![a] = "arrived"]
    /\ \E new \in Worker : SoundWorker(new) /\ Become(a, new)
Loses(a) ==
    /\ request[a] = "inflight" /\ request' = [request EXCEPT ![a] = "lost"]
    /\ UNCHANGED worker
Advances(a) ==
    /\ request[a] = "arrived" /\ UNCHANGED request
    /\ \E new : Moves(worker[a], new) /\ Become(a, new)
OnHost(a) == Starts(a) \/ Loses(a) \/ Advances(a)

HostTyped ==
    /\ worker \in [Attempt -> Worker]
    /\ request \in [Attempt -> {"none", "inflight", "arrived", "lost"}]

\* A worker that does anything has been started.
LEMMA Started ==
    ASSUME HostTyped, WorkerSound, NEW a \in Attempt,
           worker[a].sup # "none" \/ worker[a].ns # "none" \/ worker[a].bwrap
    PROVE  /\ request[a] = "arrived" /\ SoundWorker(worker[a]) /\ worker[a] \in Worker
  BY DEF HostTyped, WorkerSound, NoWorker

LEMMA DeliverMoves ==
    ASSUME HostTyped, WorkerSound, NEW a \in Attempt, Deliver(a)
    PROVE  OnHost(a)
  <1> DEFINE new == [worker[a] EXCEPT !.sup = "boot"]
  <1>1. worker[a] = NoWorker /\ request[a] = "inflight"
    BY DEF WorkerSound, Deliver
  <1>2. new \in Worker /\ SoundWorker(new)
    <2>1. worker[a] \in Worker /\ worker[a].ns = "none"
      BY <1>1, NothingRuns
    <2> QED
      BY <2>1 DEF Worker, Stage, SoundWorker
  <1>3. \/ request' = [request EXCEPT ![a] = "arrived"] /\ Become(a, new)
        \/ request' = [request EXCEPT ![a] = "lost"] /\ UNCHANGED worker
    BY DEF Deliver
  <1> HIDE DEF new
  <1> QED
    BY <1>1, <1>2, <1>3 DEF OnHost, Starts, Loses

LEMMA ReceiptMoves ==
    ASSUME HostTyped, WorkerSound, NEW a \in Attempt, WriteReceipt(a)
    PROVE  OnHost(a)
  <1> DEFINE w == worker[a]
             new == [w EXCEPT !.file = "receipt"]
  <1>1. w \in Worker /\ SoundWorker(w) /\ w.file = "none"
    BY DEF HostTyped, WorkerSound, WriteReceipt
  <1>2. Moves(w, new)
    BY <1>1 DEF Moves, Worker, SoundWorker, GoneWorker
  <1>3. request[a] = "arrived" /\ UNCHANGED request /\ Become(a, new)
    BY DEF WriteReceipt
  <1> HIDE DEF new
  <1> QED
    BY <1>2, <1>3 DEF OnHost, Advances

\* While the supervisor runs, the attempt is not gone.
LEMMA SupervisedMoves ==
    ASSUME NEW w, w.sup \notin {"none", "dead"}, NEW new \in Worker, SoundWorker(new)
    PROVE  Moves(w, new)
  BY DEF Moves, GoneWorker

LEMMA SuperviseMoves ==
    ASSUME HostTyped, WorkerSound, NEW a \in Attempt, Supervise(a)
    PROVE  OnHost(a)
  <1> DEFINE w == worker[a]
  <1>1. w.sup \notin {"none", "dead"}
    BY DEF Supervise
  <1>2. w \in Worker /\ SoundWorker(w) /\ request[a] = "arrived" /\ UNCHANGED request
    BY <1>1, Started DEF Supervise
  <1>3. \E new \in Worker : SoundWorker(new) /\ Become(a, new)
    <2>1. CASE w.sup = "boot"
      <3> DEFINE new == [w EXCEPT !.sup = "starting", !.file = "starting"]
      <3>1. new \in Worker /\ SoundWorker(new)
        BY <1>2, <2>1 DEF Worker, Stage, SoundWorker
      <3>2. Become(a, new)
        BY <2>1 DEF Supervise
      <3> QED
        BY <3>1, <3>2
    <2>2. CASE w.sup = "starting"
      <3> DEFINE new == [w EXCEPT !.sup = "ready"]
      <3>1. new \in Worker /\ SoundWorker(new)
        BY <1>2, <2>2 DEF Worker, Stage, SoundWorker
      <3>2. Become(a, new)
        BY <2>2 DEF Supervise
      <3> QED
        BY <3>1, <3>2
    <2>3. CASE w.sup = "ready"
      <3> DEFINE new == [w EXCEPT !.sup = "spawned", !.bwrap = TRUE, !.ns = "blocked"]
      <3>1. new \in Worker /\ SoundWorker(new)
        BY <1>2, <2>3 DEF Worker, Stage, SoundWorker
      <3>2. Become(a, new)
        BY <2>3 DEF Supervise
      <3> QED
        BY <3>1, <3>2
    <2>4. CASE w.sup = "spawned"
      <3> DEFINE new == [w EXCEPT !.sup = "running", !.file = "running"]
      <3>1. new \in Worker /\ SoundWorker(new)
        BY <1>2, <2>4 DEF Worker, Stage, SoundWorker
      <3>2. Become(a, new)
        BY <2>4 DEF Supervise
      <3> QED
        BY <3>1, <3>2
    <2>5. CASE w.sup = "running"
      <3> DEFINE new == [w EXCEPT !.sup = "waiting", !.ns = IF w.bwrap THEN "released" ELSE w.ns]
      <3>1. new \in Worker /\ SoundWorker(new)
        BY <1>2, <2>5 DEF Worker, Stage, SoundWorker
      <3>2. Become(a, new)
        BY <2>5 DEF Supervise
      <3> QED
        BY <3>1, <3>2
    <2>6. CASE w.sup = "waiting"
      <3> DEFINE new == [w EXCEPT !.sup = "draining"]
      <3>1. new \in Worker /\ SoundWorker(new)
        BY <1>2, <2>6 DEF Worker, Stage, SoundWorker
      <3>2. Become(a, new)
        BY <2>6 DEF Supervise
      <3> QED
        BY <3>1, <3>2
    <2>7. CASE w.sup \in {"failing", "draining"}
      <3>1. PICK outcome \in {"success", "failure"} :
               Become(a, [w EXCEPT !.sup = "concluded", !.outcome = outcome])
        BY <2>7 DEF Supervise
      <3>2. /\ [w EXCEPT !.sup = "concluded", !.outcome = outcome] \in Worker
            /\ SoundWorker([w EXCEPT !.sup = "concluded", !.outcome = outcome])
        BY <1>2 DEF Worker, Stage, SoundWorker
      <3> QED
        BY <3>1, <3>2
    <2>8. CASE w.sup = "concluded"
      <3> DEFINE new == [w EXCEPT !.sup = "dead", !.stop = FALSE]
      <3>1. new \in Worker /\ SoundWorker(new)
        BY <1>2, <2>8 DEF Worker, Stage, SoundWorker
      <3>2. Become(a, new)
        BY <2>8 DEF Supervise
      <3> QED
        BY <3>1, <3>2
    <2> QED
      BY <2>1, <2>2, <2>3, <2>4, <2>5, <2>6, <2>7, <2>8 DEF Supervise
  <1> QED
    BY <1>1, <1>2, <1>3, SupervisedMoves DEF OnHost, Advances

LEMMA FailsMoves ==
    ASSUME HostTyped, WorkerSound, NEW a \in Attempt, SuperviseFails(a) \/ Killed(a)
    PROVE  OnHost(a)
  <1> DEFINE w == worker[a]
             failing == [w EXCEPT !.sup = "failing", !.bwrap = FALSE]
             dead == [w EXCEPT !.sup = "dead", !.stop = FALSE]
  <1>1. w.sup \notin {"none", "dead"} /\ UNCHANGED request
    BY DEF SuperviseFails, Killed, SupervisorUp
  <1>2. w \in Worker /\ SoundWorker(w) /\ request[a] = "arrived"
    BY <1>1, Started
  <1>3. failing \in Worker /\ SoundWorker(failing) /\ dead \in Worker /\ SoundWorker(dead)
    BY <1>2 DEF Worker, Stage, SoundWorker
  <1>4. Become(a, failing) \/ Become(a, dead)
    BY DEF SuperviseFails, Killed
  <1> HIDE DEF failing, dead
  <1>5. \E new \in Worker : SoundWorker(new) /\ Become(a, new)
    BY <1>3, <1>4
  <1> QED
    BY <1>1, <1>2, <1>5, SupervisedMoves DEF OnHost, Advances

LEMMA NamespaceMoves ==
    ASSUME HostTyped, WorkerSound, NEW a \in Attempt, NamespaceStep(a)
    PROVE  OnHost(a)
  <1> DEFINE w == worker[a]
             empty == [w EXCEPT !.ns = "none"]
             bare == [w EXCEPT !.bwrap = FALSE]
  <1>1. (w.ns # "none" \/ w.bwrap) /\ UNCHANGED request
    BY DEF NamespaceStep
  <1>2. w \in Worker /\ SoundWorker(w) /\ request[a] = "arrived"
    BY <1>1, Started
  <1>3. Moves(w, empty) /\ Moves(w, bare)
    BY <1>2 DEF Moves, Worker, SoundWorker, GoneWorker
  <1>4. Become(a, empty) \/ Become(a, bare)
    BY DEF NamespaceStep
  <1> HIDE DEF empty, bare
  <1> QED
    BY <1>1, <1>2, <1>3, <1>4 DEF OnHost, Advances

\* A stop signal; it does nothing to a worker that was not started.
LEMMA SignalMoves ==
    ASSUME HostTyped, WorkerSound, NEW a \in Attempt, Become(a, StopSignal(a)), UNCHANGED request
    PROVE  OnHost(a) \/ UNCHANGED <<worker, request>>
  <1> DEFINE w == worker[a]
  <1>1. CASE SupervisorUp(a)
    <2>1. w \in Worker /\ SoundWorker(w) /\ request[a] = "arrived" /\ w.sup \notin {"none", "dead"}
      BY <1>1, Started DEF SupervisorUp
    <2>2. Terminated(w) \in Worker /\ SoundWorker(Terminated(w))
      BY <2>1 DEF Terminated, Worker, Stage, SoundWorker
    <2>3. Become(a, Terminated(w))
      BY <1>1 DEF StopSignal
    <2> QED
      BY <2>1, <2>2, <2>3, SupervisedMoves DEF OnHost, Advances
  <1>2. CASE ~SupervisorUp(a) /\ w.file = "running"
    <2> DEFINE empty == [w EXCEPT !.ns = "none"]
    <2>1. w \in Worker /\ SoundWorker(w) /\ request[a] = "arrived"
      BY <1>2 DEF HostTyped, WorkerSound, NoWorker
    <2>2. Moves(w, empty)
      BY <2>1 DEF Moves, Worker, SoundWorker, GoneWorker
    <2>3. Become(a, empty)
      BY <1>2 DEF StopSignal
    <2> HIDE DEF empty
    <2> QED
      BY <2>1, <2>2, <2>3 DEF OnHost, Advances
  <1>3. CASE ~SupervisorUp(a) /\ w.file # "running"
    BY <1>3 DEF StopSignal, Become, HostTyped
  <1> QED
    BY <1>1, <1>2, <1>3

\* What a step on the hosts leaves as it was.
HostKept ==
    \A b \in Attempt :
        /\ Gone(b) => Gone(b)' /\ worker'[b].outcome = worker[b].outcome
        /\ Pending(b)' => Pending(b)
        /\ request'[b] = "none" <=> request[b] = "none"

LEMMA HostMoves ==
    ASSUME HostTyped, WorkerSound, NEW a \in Attempt, OnHost(a)
    PROVE  HostTyped' /\ WorkerSound' /\ HostKept
  <1>1. CASE Starts(a)
    <2>1. worker[a] = NoWorker /\ request[a] = "inflight"
      BY <1>1 DEF Starts, WorkerSound
    <2>2. PICK new \in Worker : SoundWorker(new) /\ worker' = [worker EXCEPT ![a] = new]
      BY <1>1 DEF Starts, Become
    <2>3. request' = [request EXCEPT ![a] = "arrived"]
      BY <1>1 DEF Starts
    <2>4. HostTyped' /\ WorkerSound'
      BY <2>2, <2>3 DEF HostTyped, WorkerSound
    <2>5. /\ worker'[a] = new /\ request'[a] = "arrived"
          /\ \A b \in Attempt : b # a => worker'[b] = worker[b] /\ request'[b] = request[b]
      BY <2>2, <2>3 DEF HostTyped
    <2>6. ~Gone(a) /\ \A b \in Attempt : b # a => (Gone(b)' <=> Gone(b))
      BY <2>1, <2>5, NothingRuns, GoneMeans, GoneMeansNext
    <2>7. HostKept
      BY <2>1, <2>5, <2>6 DEF HostKept, Pending
    <2> QED
      BY <2>4, <2>7
  <1>2. CASE Loses(a)
    <2>1. worker[a] = NoWorker /\ request[a] = "inflight"
      BY <1>2 DEF Loses, WorkerSound
    <2>2. request' = [request EXCEPT ![a] = "lost"] /\ worker' = worker
      BY <1>2 DEF Loses
    <2>3. HostTyped' /\ WorkerSound'
      BY <2>1, <2>2 DEF HostTyped, WorkerSound
    <2>4. /\ request'[a] = "lost"
          /\ \A b \in Attempt : b # a => request'[b] = request[b]
          /\ \A b \in Attempt : Gone(b)' <=> Gone(b)
      BY <2>2, GoneMeans, GoneMeansNext DEF HostTyped
    <2>5. HostKept
      BY <2>1, <2>2, <2>4 DEF HostKept, Pending
    <2> QED
      BY <2>3, <2>5
  <1>3. CASE Advances(a)
    <2>1. PICK new : Moves(worker[a], new) /\ worker' = [worker EXCEPT ![a] = new]
      BY <1>3 DEF Advances, Become
    <2>2. request[a] = "arrived" /\ request' = request
      BY <1>3 DEF Advances
    <2>3. HostTyped' /\ WorkerSound'
      BY <2>1, <2>2 DEF HostTyped, WorkerSound, Moves
    <2>4. worker'[a] = new /\ \A b \in Attempt : b # a => worker'[b] = worker[b]
      BY <2>1 DEF HostTyped
    <2>5. \A b \in Attempt : Gone(b) => Gone(b)' /\ worker'[b].outcome = worker[b].outcome
      BY <2>1, <2>4, GoneMeans, GoneMeansNext DEF Moves
    <2>6. \A b \in Attempt : Pending(b)' => Pending(b)
      BY <2>2, <2>5 DEF Pending
    <2>7. HostKept
      BY <2>2, <2>5, <2>6 DEF HostKept
    <2> QED
      BY <2>3, <2>7
  <1> QED
    BY <1>1, <1>2, <1>3 DEF OnHost

LEMMA HostStill ==
    ASSUME HostTyped, WorkerSound, UNCHANGED <<worker, request>>
    PROVE  HostTyped' /\ WorkerSound' /\ HostKept
  <1>1. \A b \in Attempt : Gone(b)' <=> Gone(b)
    BY GoneMeans, GoneMeansNext
  <1> QED
    BY <1>1 DEF HostTyped, WorkerSound, HostKept, Pending

-----------------------------------------------------------------------------
(* Types of the backend.                                                    *)

RecTyped == rec \in Record /\ mode \in {"cpu_only", "gpu_assisted"}
LeaseTyped == /\ booking \in Free..Foreign /\ named \in Attempt \cup {0}
              /\ stale \in BOOLEAN /\ beating \in BOOLEAN /\ early \in BOOLEAN
OpTyped == op \in [Caller -> Operation]
LockTyped == lock \in Caller \cup {NoCaller}

LEMMA TypeParts ==
    TypeOK <=> /\ HostTyped /\ RecTyped /\ LeaseTyped /\ OpTyped /\ LockTyped
               /\ faults \subseteq Faults
  BY DEF TypeOK, HostTyped, RecTyped, LeaseTyped, OpTyped, LockTyped

LEMMA InvParts ==
    ASSUME Inv
    PROVE  /\ HostTyped /\ RecTyped /\ OpTyped /\ LockTyped /\ WorkerSound /\ RecSound
           /\ Alone /\ CallSound /\ Booked
  BY TypeParts DEF Inv

LEMMA AttemptFacts ==
    /\ MaxAttempts \in Nat \ {0} /\ 1 \in Attempt /\ 0 \notin Attempt
    /\ Attempt \subseteq Int /\ Attempt \subseteq Free..Foreign
    /\ Free \in Free..Foreign /\ Foreign \in Free..Foreign
    /\ Free \notin Attempt /\ Foreign \notin Attempt /\ Free # Foreign
  BY BuildJobsAssumption DEF Attempt, Free, Foreign

LEMMA NullTypes ==
    /\ NoRecord \in Record /\ Idle \in Operation
    /\ Idle.pc = "idle" /\ Idle.action = "status" /\ Idle.seen = "unknown"
    /\ Idle.write = NoRecord /\ NoRecord.att = 0 /\ NoRecord.outcome = "none"
    /\ NoRecord.active = FALSE
  BY DEF NoRecord, Record, Idle, Operation, Pc

\* A record of an attempt, and what the inspection makes of it.
LEMMA SeenEffect ==
    ASSUME HostTyped, NEW r \in Record, r.att \in Attempt
    PROVE  /\ Inspected(r.att) \in {"unknown", "alive", "gone"}
           /\ Seen(r) \in Record /\ Seen(r).att = r.att
           /\ Seen(r).outcome # "none" => Gone(r.att) \/ r.outcome # "none"
  <1>1. Inspected(r.att) \in {"unknown", "alive", "gone"}
    BY DEF Inspected
  <1>2. worker[r.att].outcome \in {"none", "success", "failure"}
    BY DEF HostTyped, Worker
  <1>3. CASE Inspected(r.att) = "alive"
    <2>1. Seen(r) = [r EXCEPT !.state = "running"]
      BY <1>3 DEF Seen
    <2> QED
      BY <1>1, <2>1 DEF Record
  <1>4. CASE Inspected(r.att) = "unknown"
    <2>1. Seen(r) = [r EXCEPT !.state = "launch_unknown"]
      BY <1>4 DEF Seen
    <2> QED
      BY <1>1, <2>1 DEF Record
  <1>5. CASE Inspected(r.att) = "gone" /\ worker[r.att].outcome = "none"
    <2>1. Seen(r) = [r EXCEPT !.state = "gone_unknown"]
      BY <1>5 DEF Seen
    <2> QED
      BY <1>1, <1>5, <2>1 DEF Record, Gone
  <1>6. CASE Inspected(r.att) = "gone" /\ worker[r.att].outcome # "none"
    <2>1. Seen(r) = [r EXCEPT !.state = worker[r.att].outcome, !.outcome = worker[r.att].outcome]
      BY <1>6 DEF Seen
    <2> QED
      BY <1>1, <1>2, <1>6, <2>1 DEF Record, Gone
  <1> QED
    BY <1>1, <1>3, <1>4, <1>5, <1>6

-----------------------------------------------------------------------------
(* What a step of one call does to the calls.                               *)

\* An idle call has nothing in hand.
LEMMA IdleHolds == Holds(Idle) /\ Holds(Idle)' /\ Has(Idle) /\ Has(Idle)'
  BY NullTypes DEF Holds, Judges, Prepares, Launches, Has, Judging, Preparing, Late

LEMMA RecAtt ==
    ASSUME Inv
    PROVE  /\ rec \in Record /\ rec.att \in Attempt \cup {0} /\ rec.att \in Int
           /\ rec.att # 0 <=> rec.att \in Attempt
  <1>1. rec \in Record /\ rec.att \in Attempt \cup {0}
    BY InvParts DEF RecTyped, Record
  <1> PICK r : r = rec.att
    OBVIOUS
  <1>2. r \in Int /\ (r # 0 <=> r \in Attempt)
    BY <1>1, BuildJobsAssumption DEF Attempt
  <1> QED
    BY <1>1, <1>2

\* What a caller at work knows.
LEMMA CallKnown ==
    ASSUME Inv, NEW c \in Caller, op[c].pc # "idle"
    PROVE  /\ HostTyped /\ RecTyped /\ OpTyped /\ LockTyped /\ WorkerSound /\ RecSound
           /\ Alone /\ Booked /\ Holds(op[c])
           /\ op[c] \in Operation /\ op[c].write \in Record /\ op[c].write.att \in Attempt
  <1>1. op[c] \in Operation /\ op[c].write \in Record
    BY TypeParts DEF Inv, OpTyped, Operation
  <1>2. Holds(op[c])
    BY DEF Inv, CallSound
  <1> QED
    BY <1>1, <1>2, TypeParts DEF Inv, Holds

\* Of two callers at work, one launches the job and the other does not.
LEMMA OneLaunches ==
    ASSUME Inv, NEW c \in Caller, NEW d \in Caller, d # c,
           op[c].pc # "idle", op[d].pc # "idle"
    PROVE  op[c].action = "launch" <=> op[d].action # "launch"
  <1>1. Alone
    BY InvParts
  <1>2. lock = c <=> op[c].action # "launch"
    BY <1>1 DEF Alone
  <1>3. lock = d <=> op[d].action # "launch"
    BY <1>1 DEF Alone
  <1>4. ~(op[c].action = "launch" /\ op[d].action = "launch")
    BY <1>1 DEF Alone
  <1> QED
    BY <1>2, <1>3, <1>4

LEMMA FaultUp ==
    ASSUME NEW kind, kind # "crash", Fault(kind)
    PROVE  OwnerUp' <=> OwnerUp
  BY DEF Fault, OwnerUp

\* What another caller has in hand stays true.
LEMMA HeldByOther ==
    ASSUME Inv, NEW d \in Caller, op'[d] = op[d],
           \A b \in Attempt : Gone(b) => Gone(b)',
           OwnerUp' <=> OwnerUp, early => early',
           op[d].pc = "remove" /\ Launching' => Launching,
           \/ op[d].pc = "idle"
           \/ rec'.att = rec.att
           \/ rec'.att # 0 /\ op[d].pc \in Late /\ op[d].action = "launch",
           op[d].pc \in Preparing \cup {"send"} /\ request[op[d].write.att] = "none" =>
               request'[op[d].write.att] = "none"
    PROVE  Holds(op[d])'
  <1>1. CASE op[d].pc = "idle"
    <2>1. op[d] = Idle /\ op'[d] = Idle
      BY <1>1, InvParts DEF Alone
    <2> QED
      BY <2>1, IdleHolds
  <1>2. CASE op[d].pc # "idle"
    <2> PICK o : o = op[d]
      OBVIOUS
    <2> PICK r : r = rec.att
      OBVIOUS
    <2>1. Holds(op[d]) /\ o.write.att \in Attempt /\ o.pc # "idle" /\ op'[d] = o
      BY <1>2, CallKnown
    <2>2. r # 0 => r \in Attempt
      BY RecAtt
    <2>3. r # 0 /\ Gone(r) => Gone(r)'
      BY <2>2
    <2>4. Gone(o.write.att) => Gone(o.write.att)'
      BY <2>1
    <2>5. Judges(op[d])'
      <3>1. CASE o.pc \in Judging
        <4>1. rec'.att = r /\ Judges(op[d])
          BY <2>1, <3>1 DEF Holds, Judging, Late
        <4>2. /\ o.action # "launch" /\ r # 0 /\ o.write.att = r
              /\ (o.seen = "gone" \/ o.pc \in {"release", "remove", "released"} => Gone(r))
              /\ (o.pc = "remove" /\ Launching => early)
          BY <3>1, <4>1 DEF Judges
        <4> QED
          BY <2>1, <2>3, <4>1, <4>2 DEF Judges, Gone
      <3>2. CASE o.pc \notin Judging
        BY <2>1, <3>2 DEF Judges
      <3> QED
        BY <3>1, <3>2
    <2>6. Prepares(op[d])'
      <3>1. CASE o.pc \in Preparing
        <4>1. rec'.att = r /\ Prepares(op[d])
          BY <2>1, <3>1 DEF Holds, Preparing, Late
        <4>2. /\ o.write.att = r + 1 /\ (o.action = "launch" <=> r = 0)
              /\ (r # 0 => Gone(r)) /\ request[o.write.att] = "none"
          BY <3>1, <4>1 DEF Prepares
        <4>3. request'[o.write.att] = "none"
          BY <3>1, <4>2
        <4> QED
          BY <2>1, <2>3, <4>1, <4>2, <4>3 DEF Prepares, Gone
      <3>2. CASE o.pc \notin Preparing
        BY <2>1, <3>2 DEF Prepares
      <3> QED
        BY <3>1, <3>2
    <2>7. Launches(op[d])'
      <3>1. CASE o.pc = "send"
        <4>1. rec'.att = r /\ Launches(op[d])
          BY <2>1, <3>1 DEF Holds, Late
        <4>2. /\ (IF o.action = "launch" THEN r # 0 /\ o.write.att = 1 ELSE r > 1)
              /\ o.write.att = r /\ request[o.write.att] = "none"
          BY <3>1, <4>1 DEF Launches
        <4>3. request'[o.write.att] = "none"
          BY <3>1, <4>2
        <4> QED
          BY <2>1, <4>1, <4>2, <4>3 DEF Launches
      <3>2. CASE o.pc \in Late
        <4>1. Launches(op[d])
          BY <2>1 DEF Holds
        <4>2. IF o.action = "launch" THEN r # 0 /\ o.write.att = 1 ELSE r > 1 /\ o.write.att = r
          BY <3>2, <4>1 DEF Launches
        <4>3. o.pc # "send" /\ (o.action # "launch" => rec'.att = r) /\ (r # 0 => rec'.att # 0)
          BY <2>1, <3>2 DEF Late
        <4> QED
          BY <2>1, <4>2, <4>3 DEF Launches
      <3>3. CASE o.pc \notin Late \cup {"send"}
        BY <2>1, <3>3 DEF Launches
      <3> QED
        BY <3>1, <3>2, <3>3
    <2>8. ~OwnerUp' => o.action = "status" /\ o.pc \in {"idle", "save"}
      BY <2>1 DEF Holds
    <2>9. o.write.outcome # "none" => Gone(o.write.att)'
      BY <2>1, <2>4 DEF Holds
    <2> QED
      BY <2>1, <2>5, <2>6, <2>7, <2>8, <2>9 DEF Holds
  <1> QED
    BY <1>1, <1>2

\* All calls hold what they should after a step of one of them, or of none, that keeps
\* the attempt of the record and sends no command.
LEMMA CallsHold ==
    ASSUME Inv, NEW S \in SUBSET Caller, \A d \in Caller \ S : op'[d] = op[d],
           \A c \in S : Holds(op[c])',
           HostKept, Launching' => Launching, early => early', OwnerUp' <=> OwnerUp,
           rec'.att = rec.att
    PROVE  CallSound'
  <1>1. ASSUME NEW d \in Caller, d \notin S PROVE Holds(op[d])'
    <2>1. \A b \in Attempt : Gone(b) => Gone(b)'
      BY DEF HostKept
    <2>2. op[d].pc \in Preparing \cup {"send"} => op[d].write.att \in Attempt
      BY CallKnown DEF Preparing
    <2>3. op[d].pc \in Preparing \cup {"send"} /\ request[op[d].write.att] = "none" =>
              request'[op[d].write.att] = "none"
      BY <2>2 DEF HostKept
    <2> QED
      BY <1>1, <2>1, <2>3, HeldByOther
  <1> QED
    BY <1>1 DEF CallSound

\* The calls after one of them has ended, or gone on.
LEMMA EndEffect ==
    ASSUME OpTyped, LockTyped, Alone, NEW c \in Caller, op[c].pc # "idle", End(c)
    PROVE  /\ OpTyped' /\ LockTyped' /\ Alone' /\ op'[c] = Idle
           /\ \A d \in Caller : d # c => op'[d] = op[d]
           /\ Launching' => Launching
  <1>1. op'[c] = Idle /\ \A d \in Caller : d # c => op'[d] = op[d]
    BY DEF End, OpTyped
  <1>2. OpTyped' /\ LockTyped'
    BY NullTypes DEF End, OpTyped, LockTyped
  <1>3. Alone'
    <2>1. \A d, e \in Caller : op'[d].action = "launch" /\ op'[e].action = "launch" => d = e
      BY <1>1, NullTypes DEF Alone
    <2>2. ASSUME NEW d \in Caller
          PROVE  lock' = d <=> op'[d].pc # "idle" /\ op'[d].action # "launch"
      <3>1. CASE d = c
        BY <1>1, <3>1, NullTypes, BuildJobsAssumption DEF End
      <3>2. CASE d # c
        BY <1>1, <3>2, BuildJobsAssumption DEF End, Alone
      <3> QED
        BY <3>1, <3>2
    <2>3. \A d \in Caller : op'[d].pc = "idle" => op'[d] = Idle
      BY <1>1 DEF Alone
    <2> QED
      BY <2>1, <2>2, <2>3 DEF Alone
  <1>4. Launching' => Launching
    BY <1>1, NullTypes DEF Launching
  <1> QED
    BY <1>1, <1>2, <1>3, <1>4

LEMMA ContinueEffect ==
    ASSUME OpTyped, LockTyped, Alone, NEW c \in Caller, op[c].pc # "idle",
           NEW pc \in Pc \ {"idle"}, NEW write \in Record, Continue(c, pc, write)
    PROVE  /\ OpTyped' /\ LockTyped' /\ Alone'
           /\ op'[c].pc = pc /\ op'[c].write = write
           /\ op'[c].action = op[c].action /\ op'[c].seen = op[c].seen
           /\ \A d \in Caller : d # c => op'[d] = op[d]
           /\ Launching' => Launching
  <1>1. /\ op'[c].pc = pc /\ op'[c].write = write
        /\ op'[c].action = op[c].action /\ op'[c].seen = op[c].seen
        /\ \A d \in Caller : d # c => op'[d] = op[d]
        /\ UNCHANGED lock
    BY DEF OpTyped, Operation, Continue
  <1>2. [op[c] EXCEPT !.pc = pc, !.write = write] \in Operation
    BY DEF OpTyped, Operation
  <1>3. OpTyped' /\ LockTyped'
    BY <1>2 DEF Continue, OpTyped, LockTyped
  <1>4. \A d \in Caller : op'[d].action = op[d].action
    BY <1>1
  <1>5. Alone'
    <2>1. \A d \in Caller : d # c => op'[d] = op[d] /\ (op[d].pc = "idle" => op[d] = Idle)
      BY <1>1 DEF Alone
    <2>2. \A d \in Caller : op'[d].pc # "idle" <=> op[d].pc # "idle"
      BY <1>1
    <2> QED
      BY <1>1, <1>4, <2>1, <2>2 DEF Alone
  <1>6. Launching' => Launching
    BY <1>4 DEF Launching
  <1> QED
    BY <1>1, <1>3, <1>5, <1>6

-----------------------------------------------------------------------------
(* What a step does to the record and the booking.                          *)

\* The record is kept, or saved with what is known of the same attempt.
LEMMA RecKept ==
    ASSUME RecTyped, RecSound, HostKept, UNCHANGED rec
    PROVE  RecSound'
  <1>1. rec.outcome # "none" => rec.att \in Attempt
    BY NullTypes DEF RecTyped, RecSound, Record
  <1> QED
    BY <1>1 DEF RecSound, HostKept

LEMMA RecSaved ==
    ASSUME RecSound, HostKept, NEW r, rec' = r, r.att = rec.att, rec.att \in Attempt,
           r.outcome # "none" => Gone(rec.att)
    PROVE  RecSound'
  BY AttemptFacts DEF RecSound, HostKept

\* No attempt is pending once the attempt of the record has gone.
LEMMA NonePending ==
    ASSUME RecSound, rec.att \in Attempt => Gone(rec.att)
    PROVE  \A a \in Attempt : ~Pending(a)
  BY DEF RecSound, Pending

\* The booking is kept, and a call that steps has what it should.
LEMMA BookedStays ==
    ASSUME Inv, NEW S \in SUBSET Caller, \A d \in Caller \ S : op'[d] = op[d],
           OnGpu => Described' /\ \A c \in S : Has(op[c])',
           HostKept, UNCHANGED <<mode, booking, stale>>,
           early => early', OwnerUp' <=> OwnerUp
    PROVE  Booked'
  <1> SUFFICES ASSUME OnGpu
               PROVE  Pended' /\ Described' /\ (stale' => ~OwnerUp')
                      /\ \A c \in Caller : Has(op[c])'
    BY DEF Booked, OnGpu
  <1>1. Pended /\ Described /\ (stale => ~OwnerUp) /\ \A c \in Caller : Has(op[c])
    BY InvParts DEF Booked
  <1>2. Pended'
    BY <1>1 DEF Pended, HostKept, Misdescribed
  <1>3. Described' /\ (stale' => ~OwnerUp')
    BY <1>1
  <1>4. ASSUME NEW d \in Caller, d \notin S PROVE Has(op[d])'
    <2>1. op'[d] = op[d] /\ Has(op[d])
      BY <1>1, <1>4
    <2> QED
      BY <2>1 DEF Has
  <1> QED
    BY <1>2, <1>3, <1>4

LEMMA BookedKept ==
    ASSUME Inv, NEW S \in SUBSET Caller, \A d \in Caller \ S : op'[d] = op[d],
           OnGpu => \A c \in S : Has(op[c])',
           HostKept, UNCHANGED <<mode, booking, named, stale>>,
           early => early', OwnerUp' <=> OwnerUp
    PROVE  Booked'
  <1>1. OnGpu => Described'
    BY InvParts DEF Booked, Described
  <1> QED
    BY <1>1, BookedStays

\* All that a step has to keep, but for the types of the lease and the faults.
Safe == HostTyped' /\ RecTyped' /\ OpTyped' /\ LockTyped'
        /\ WorkerSound' /\ RecSound' /\ Alone' /\ CallSound' /\ Booked'

\* What a step leaves alone that does not change the booking.
Steady == UNCHANGED <<mode, booking, named, stale>> /\ (early => early') /\ (OwnerUp' <=> OwnerUp)

\* The record after a step that saves at most what is known of its attempt.
SavesKnown ==
    \/ rec' = rec
    \/ rec' \in Record /\ rec'.att = rec.att /\ rec.att \in Attempt
       /\ (rec'.outcome # "none" => Gone(rec.att))

LEMMA RecSafe ==
    ASSUME Inv, HostKept, SavesKnown, UNCHANGED mode
    PROVE  RecTyped' /\ RecSound' /\ rec'.att = rec.att
  BY InvParts, RecKept, RecSaved DEF RecTyped, SavesKnown

\* A call ends, and has saved at most what it had in hand.
LEMMA EndStep ==
    ASSUME Inv, NEW c \in Caller, op[c].pc # "idle", End(c), UNCHANGED host, Steady, SavesKnown
    PROVE  Safe
  <1>1. HostTyped' /\ WorkerSound' /\ HostKept
    BY InvParts, HostStill DEF host
  <1>2. /\ OpTyped' /\ LockTyped' /\ Alone' /\ op'[c] = Idle /\ (Launching' => Launching)
        /\ \A d \in Caller \ {c} : op'[d] = op[d]
    BY InvParts, EndEffect
  <1>3. RecTyped' /\ RecSound' /\ rec'.att = rec.att
    BY <1>1, RecSafe DEF Steady
  <1>4. {c} \in SUBSET Caller /\ \A d \in {c} : Holds(op[d])' /\ Has(op[d])'
    BY <1>2, IdleHolds
  <1>5. CallSound'
    <2>1. (early => early') /\ (OwnerUp' <=> OwnerUp) /\ \A d \in {c} : Holds(op[d])'
      BY <1>4 DEF Steady
    <2> QED
      BY <1>1, <1>2, <1>3, <1>4, <2>1, CallsHold
  <1>6. Booked'
    <2>1. /\ UNCHANGED <<mode, booking, named, stale>> /\ (early => early') /\ (OwnerUp' <=> OwnerUp)
          /\ OnGpu => \A d \in {c} : Has(op[d])'
      BY <1>4 DEF Steady
    <2> QED
      BY <1>1, <1>2, <1>4, <2>1, BookedKept
  <1> QED
    BY <1>1, <1>2, <1>3, <1>5, <1>6 DEF Safe

-----------------------------------------------------------------------------
(* Calls that manage the job.                                               *)

\* What such a caller knows: it acts while its backend is up, but for a status call.
LEMMA InHand ==
    ASSUME Inv, NEW c \in Caller, op[c].pc \in Judging
    PROVE  /\ op[c].pc # "idle" /\ op[c].write \in Record /\ op[c].write.att = rec.att
           /\ rec.att \in Attempt /\ op[c].action # "launch"
           /\ op[c].write.outcome # "none" => Gone(rec.att)
           /\ op[c].seen = "gone" \/ op[c].pc \in {"release", "remove", "released"} => Gone(rec.att)
           /\ op[c].pc = "remove" /\ Launching => early
           /\ op[c].pc # "save" \/ op[c].action # "status" => OwnerUp
  <1>1. op[c].pc # "idle"
    BY DEF Judging
  <1>2. Holds(op[c]) /\ Judges(op[c]) /\ op[c].write \in Record /\ op[c].write.att \in Attempt
    BY <1>1, CallKnown DEF Holds
  <1>3. /\ op[c].action # "launch" /\ op[c].write.att = rec.att
        /\ op[c].seen = "gone" \/ op[c].pc \in {"release", "remove", "released"} => Gone(rec.att)
        /\ op[c].pc = "remove" /\ Launching => early
    BY <1>2 DEF Judges
  <1>4. op[c].pc # "save" \/ op[c].action # "status" => OwnerUp
    BY <1>1, <1>2 DEF Holds
  <1> QED
    BY <1>1, <1>2, <1>3, <1>4 DEF Holds

\* A call goes on with what it had in hand.
LEMMA JudgingMoves ==
    ASSUME Inv, NEW c \in Caller, op[c].pc \in Judging, NEW pc \in Judging,
           NEW write \in Record, Continue(c, pc, write), write.att = op[c].write.att,
           write.outcome # "none" => Gone(rec.att), OwnerUp,
           pc \in {"release", "remove", "released"} => Gone(rec.att),
           pc = "remove" /\ Launching => early',
           HostTyped', WorkerSound', HostKept, UNCHANGED mode,
           early => early', OwnerUp' <=> OwnerUp, SavesKnown,
           OnGpu /\ Has(op[c])' => Booked'
    PROVE  Safe
  <1>1. op[c].pc # "idle" /\ rec.att \in Attempt /\ pc \in Pc \ {"idle"}
    BY InHand DEF Judging, Pc
  <1>2. RecTyped' /\ RecSound' /\ rec'.att = rec.att
    BY RecSafe
  <1>3. /\ OpTyped' /\ LockTyped' /\ Alone'
        /\ op'[c].pc = pc /\ op'[c].write = write
        /\ op'[c].action = op[c].action /\ op'[c].seen = op[c].seen
        /\ \A d \in Caller \ {c} : op'[d] = op[d]
        /\ Launching' => Launching
    BY <1>1, InvParts, ContinueEffect
  <1>4. Gone(rec.att) => Gone(rec.att)'
    BY <1>1, <1>2 DEF HostKept, Gone
  <1>5. Holds(op[c])'
    <2>1. /\ op'[c].write.att = rec'.att /\ rec'.att # 0 /\ op'[c].action # "launch"
          /\ rec'.att \in Attempt
          /\ op'[c].seen = "gone" => Gone(rec.att)
      BY <1>1, <1>2, <1>3, InHand, AttemptFacts
    <2>2. Judges(op[c])'
      BY <1>3, <1>4, <2>1 DEF Judges
    <2>3. Prepares(op[c])' /\ Launches(op[c])'
      BY <1>3 DEF Prepares, Launches, Judging, Preparing, Late
    <2>4. op'[c].write.outcome # "none" => Gone(op[c].write.att)'
      BY <1>3, <1>4, <2>1 DEF Gone
    <2>5. OwnerUp' /\ op'[c].write.att \in Attempt
      BY <2>1
    <2> QED
      BY <2>2, <2>3, <2>4, <2>5 DEF Holds
  <1>6. CallSound'
    <2>1. {c} \in SUBSET Caller /\ \A d \in {c} : Holds(op[d])'
      BY <1>5
    <2> QED
      BY <1>2, <1>3, <2>1, CallsHold
  <1>7. Booked'
    <2>1. Has(op[c])'
      BY <1>3 DEF Has, Judging
    <2>2. ~OnGpu => Booked'
      BY DEF Booked, OnGpu
    <2> QED
      BY <2>1, <2>2
  <1> QED
    BY <1>2, <1>3, <1>6, <1>7 DEF Safe

LEMMA JudgingStep ==
    ASSUME Inv, NEW c \in Caller, op[c].pc \in Judging, NEW pc \in Judging,
           NEW write \in Record, Continue(c, pc, write), write.att = op[c].write.att,
           write.outcome # "none" => Gone(rec.att), OwnerUp,
           pc \in {"release", "remove", "released"} => Gone(rec.att),
           pc = "remove" /\ Launching => early',
           HostTyped', WorkerSound', HostKept, Steady, SavesKnown
    PROVE  Safe
  <1>1. /\ UNCHANGED <<mode, booking, named, stale>> /\ (early => early') /\ (OwnerUp' <=> OwnerUp)
    BY DEF Steady
  <1>2. ASSUME Has(op[c])' PROVE Booked'
    <2>1. \A d \in Caller \ {c} : op'[d] = op[d]
      BY InvParts DEF Continue, OpTyped
    <2>2. {c} \in SUBSET Caller /\ (OnGpu => \A d \in {c} : Has(op[d])')
      BY <1>2
    <2> QED
      BY <1>1, <2>1, <2>2, BookedKept
  <1> QED
    BY <1>1, <1>2, JudgingMoves

LEMMA StillHost ==
    ASSUME Inv, UNCHANGED host
    PROVE  HostTyped' /\ WorkerSound' /\ HostKept
  BY InvParts, HostStill DEF host

LEMMA SteadyLease ==
    ASSUME UNCHANGED <<mode, lease, early>>,
           UNCHANGED faults \/ Fault("error") \/ Fault("release")
    PROVE  Steady
  BY FaultUp DEF Steady, lease, OwnerUp

\* A call of manage goes on, or ends, after it has saved what it had in hand.
LEMMA ProceedStep ==
    ASSUME Inv, NEW c \in Caller, op[c].pc \in Judging, rec' = op[c].write,
           Proceed(c), UNCHANGED host, Steady
    PROVE  Safe
  <1> DEFINE w == op[c].write
  <1>1. /\ op[c].pc # "idle" /\ w \in Record /\ w.att = rec.att /\ rec.att \in Attempt
        /\ w.outcome # "none" => Gone(rec.att)
        /\ op[c].action # "status" => OwnerUp
    BY InHand
  <1>2. SavesKnown
    BY <1>1 DEF SavesKnown
  <1>3. ASSUME End(c) PROVE Safe
    BY <1>1, <1>2, <1>3, EndStep
  <1>4. ASSUME op[c].action # "status", Continue(c, "act", w) PROVE Safe
    <2>1. "act" \in Judging
      BY DEF Judging
    <2> QED
      BY <1>1, <1>2, <1>4, <2>1, StillHost, JudgingStep
  <1> QED
    BY <1>3, <1>4 DEF Proceed

LEMMA SaveSeenSafe ==
    ASSUME Inv, NEW c \in Caller, SaveSeen(c)
    PROVE  Safe
  <1> DEFINE w == op[c].write
  <1>1. op[c].pc \in Judging /\ rec' = w /\ UNCHANGED host /\ Steady
    BY SteadyLease DEF SaveSeen, Judging
  <1>2. ASSUME op[c].seen = "gone", OwnerUp, Continue(c, "release", w) PROVE Safe
    <2>1. "release" \in Judging
      BY DEF Judging
    <2>2. /\ w \in Record /\ w.att = rec.att /\ rec.att \in Attempt
          /\ (w.outcome # "none" => Gone(rec.att)) /\ Gone(rec.att)
      BY <1>1, <1>2, InHand
    <2>3. SavesKnown
      BY <1>1, <2>2 DEF SavesKnown
    <2> QED
      BY <1>1, <1>2, <2>1, <2>2, <2>3, StillHost, JudgingStep
  <1>3. ASSUME Proceed(c) PROVE Safe
    BY <1>1, <1>3, ProceedStep
  <1> QED
    BY <1>2, <1>3 DEF SaveSeen

LEMMA ReleaseSafe ==
    ASSUME Inv, NEW c \in Caller, Release(c)
    PROVE  Safe
  <1> DEFINE w == op[c].write
  <1>1. op[c].pc \in Judging /\ op[c].pc = "release" /\ OwnerUp /\ UNCHANGED host /\ SavesKnown
    BY DEF Release, At, Judging, SavesKnown
  <1>2. Steady
    BY DEF Release, Steady, OwnerUp
  <1>3. ASSUME Continue(c, "remove", w), early' = (early \/ Launching) PROVE Safe
    <2>1. "remove" \in Judging
      BY DEF Judging
    <2>2. w \in Record /\ (w.outcome # "none" => Gone(rec.att)) /\ Gone(rec.att)
      BY <1>1, InHand
    <2> QED
      BY <1>1, <1>2, <1>3, <2>1, <2>2, StillHost, JudgingStep
  <1>4. ASSUME End(c) PROVE Safe
    BY <1>1, <1>2, <1>4, InHand, EndStep
  <1> QED
    BY <1>3, <1>4 DEF Release

LEMMA SaveReleasedSafe ==
    ASSUME Inv, NEW c \in Caller, SaveReleased(c)
    PROVE  Safe
  <1>1. op[c].pc \in Judging /\ rec' = op[c].write /\ Proceed(c) /\ UNCHANGED host /\ Steady
    BY SteadyLease DEF SaveReleased, At, Judging
  <1> QED
    BY <1>1, ProceedStep

LEMMA SaveStoppingSafe ==
    ASSUME Inv, NEW c \in Caller, SaveStopping(c)
    PROVE  Safe
  <1>1. op[c].pc \in Judging /\ rec' = op[c].write /\ End(c) /\ UNCHANGED host /\ Steady
    BY SteadyLease DEF SaveStopping, At, Judging
  <1>2. SavesKnown
    BY <1>1, InHand DEF SavesKnown
  <1> QED
    BY <1>1, <1>2, InHand, EndStep

LEMMA CallFailsSafe ==
    ASSUME Inv, NEW c \in Caller, CallFails(c)
    PROVE  Safe
  <1>1. op[c].pc # "idle" /\ rec' = rec /\ End(c) /\ UNCHANGED host
    BY DEF CallFails
  <1>2. Steady
    BY SteadyLease DEF CallFails
  <1> QED
    BY <1>1, <1>2, EndStep DEF SavesKnown

LEMMA RemoveSafe ==
    ASSUME Inv, NEW c \in Caller, Remove(c)
    PROVE  Safe
  <1> DEFINE w == op[c].write
             given == [w EXCEPT !.active = FALSE]
  <1>1. /\ op[c].pc = "remove" /\ OwnerUp /\ UNCHANGED <<host, mode, named, stale, early>>
        /\ rec' = rec
    BY DEF Remove, At
  <1>2. SavesKnown
    BY <1>1 DEF SavesKnown
  <1>3. /\ op[c].pc # "idle" /\ op[c].pc \in Judging /\ w \in Record /\ w.att = rec.att
        /\ rec.att \in Attempt /\ (w.outcome # "none" => Gone(rec.att)) /\ Gone(rec.att)
        /\ (Launching => early) /\ op[c].action # "launch"
    BY <1>1, InHand DEF Judging
  <1>4. given \in Record /\ given.att = w.att /\ given.outcome = w.outcome
    BY <1>3 DEF Record
  <1>5. HostTyped' /\ WorkerSound' /\ HostKept
    BY <1>1, StillHost
  <1>6. ASSUME Continue(c, "released", given), booking' = Free, UNCHANGED faults PROVE Safe
    <2>1. "released" \in Judging
      BY DEF Judging
    <2>2. OwnerUp' <=> OwnerUp
      BY <1>6 DEF OwnerUp
    <2>3. ASSUME OnGpu, Has(op[c])' PROVE Booked'
      <3>1. \A a \in Attempt : ~Pending(a)'
        BY <1>3, <1>5, InvParts, NonePending DEF HostKept
      <3>2. Pended' /\ Described' /\ (stale' => ~OwnerUp')
        BY <1>1, <1>6, <2>2, <2>3, <3>1, AttemptFacts, InvParts DEF Pended, Described, Booked
      <3>3. ASSUME NEW d \in Caller, d # c PROVE Has(op[d])'
        <4>1. op'[d] = op[d]
          BY <1>6, <3>3, InvParts DEF Continue, OpTyped
        <4>2. op[d].pc \notin {"probe", "register", "send"}
          <5> SUFFICES ASSUME op[d].pc \in {"probe", "register", "send"} PROVE FALSE
            OBVIOUS
          <5>1. Holds(op[d]) /\ op[d].action = "launch"
            BY <1>3, <3>3, CallKnown, OneLaunches
          <5>2. op[d].pc = "send"
            BY <1>3, <5>1, AttemptFacts DEF Holds, Prepares, Preparing
          <5>3. request[rec.att] = "none"
            BY <5>1, <5>2 DEF Holds, Launches
          <5> QED
            BY <1>3, <5>3, InvParts, GoneMeans, NothingRuns DEF WorkerSound
        <4>3. op[d].pc \in {"sent", "describe"} => op[d].action = "launch" /\ early
          <5>1. op[d].pc \in {"sent", "describe"} => op[d].action = "launch"
            BY <1>3, <3>3, OneLaunches
          <5> QED
            BY <1>3, <5>1 DEF Launching
        <4> QED
          BY <1>1, <4>1, <4>2, <4>3 DEF Has
      <3> QED
        BY <2>3, <3>2, <3>3 DEF Booked
    <2> HIDE DEF given
    <2> QED
      BY <1>1, <1>2, <1>3, <1>4, <1>5, <1>6, <2>1, <2>2, <2>3, JudgingMoves
  <1>7. ASSUME End(c), UNCHANGED booking, Fault("release") PROVE Safe
    <2>1. Steady
      BY <1>1, <1>7, FaultUp DEF Steady
    <2> QED
      BY <1>1, <1>2, <1>3, <1>7, <2>1, EndStep
  <1> QED
    BY <1>6, <1>7 DEF Remove

LEMMA StopSafe ==
    ASSUME Inv, NEW c \in Caller, Stop(c)
    PROVE  Safe
  <1> DEFINE w == op[c].write
             stopping == [w EXCEPT !.state = "stopping"]
  <1>1. /\ op[c].pc = "stop" /\ OwnerUp /\ Become(w.att, StopSignal(w.att))
        /\ Continue(c, "stopped", stopping) /\ UNCHANGED request /\ SavesKnown
    BY DEF Stop, At, SavesKnown
  <1>2. Steady
    BY SteadyLease DEF Stop
  <1>3. /\ op[c].pc # "idle" /\ op[c].pc \in Judging /\ w \in Record /\ w.att = rec.att
        /\ w.att \in Attempt /\ (w.outcome # "none" => Gone(rec.att))
    BY <1>1, InHand DEF Judging
  <1>4. stopping \in Record /\ stopping.att = w.att /\ stopping.outcome = w.outcome
    BY <1>3 DEF Record
  <1>5. HostTyped' /\ WorkerSound' /\ HostKept
    <2>1. HostTyped /\ WorkerSound
      BY InvParts
    <2>2. OnHost(w.att) \/ UNCHANGED <<worker, request>>
      BY <1>1, <1>3, <2>1, SignalMoves
    <2> QED
      BY <1>3, <2>1, <2>2, HostMoves, HostStill
  <1>6. "stopped" \in Judging
    BY DEF Judging
  <1> HIDE DEF stopping
  <1> QED
    BY <1>1, <1>2, <1>3, <1>4, <1>5, <1>6, JudgingStep

-----------------------------------------------------------------------------
(* A launch before its command is sent.                                     *)

LEMMA Unstarted ==
    ASSUME WorkerSound, NEW a \in Attempt, request[a] # "arrived"
    PROVE  ~Gone(a)
  BY GoneMeans, NothingRuns DEF WorkerSound

\* What the caller that prepares a launch knows.
LEMMA InPreparation ==
    ASSUME Inv, NEW c \in Caller, op[c].pc \in Preparing
    PROVE  /\ op[c].pc # "idle" /\ op[c].write \in Record /\ op[c].write.att \in Attempt
           /\ op[c].write.att = rec.att + 1 /\ (rec.att \in Attempt => Gone(rec.att))
           /\ request[op[c].write.att] = "none" /\ op[c].write.outcome = "none"
           /\ (op[c].action = "launch" <=> rec.att = 0) /\ OwnerUp
           /\ \A a \in Attempt : ~Pending(a)
  <1>1. op[c].pc # "idle"
    BY DEF Preparing
  <1>2. Holds(op[c]) /\ op[c].write \in Record /\ op[c].write.att \in Attempt /\ WorkerSound
    BY <1>1, CallKnown
  <1>3. /\ op[c].write.att = rec.att + 1 /\ (op[c].action = "launch" <=> rec.att = 0)
        /\ (rec.att # 0 => Gone(rec.att)) /\ request[op[c].write.att] = "none"
    BY <1>2 DEF Holds, Prepares
  <1>4. op[c].write.outcome = "none"
    BY <1>2, <1>3, Unstarted DEF Holds
  <1>5. OwnerUp
    BY <1>2 DEF Holds, Preparing
  <1>6. rec.att \in Attempt => Gone(rec.att)
    BY <1>3, AttemptFacts
  <1>7. \A a \in Attempt : ~Pending(a)
    BY <1>6, InvParts, NonePending
  <1> QED
    BY <1>1, <1>2, <1>3, <1>4, <1>5, <1>6, <1>7

\* The other caller, if there is one, launches the first attempt of the job, whose
\* command has been sent.
LEMMA BesidePreparing ==
    ASSUME Inv, NEW c \in Caller, op[c].pc \in Preparing,
           NEW d \in Caller, d # c, op[d].pc # "idle"
    PROVE  /\ op[d].action = "launch" /\ op[d].pc \in Late /\ op[d].write.att = 1
           /\ op[c].write.att # 1 /\ rec.att # 0
  <1>1. Holds(op[d]) /\ op[d].pc \in Pc
    BY CallKnown DEF Operation
  <1>2. op[c].action = "launch" <=> op[d].action # "launch"
    BY OneLaunches DEF Preparing
  <1>3. op[c].action = "launch" <=> rec.att = 0
    BY InPreparation
  <1>4. rec.att # 0
    <2> SUFFICES ASSUME rec.att = 0 PROVE FALSE
      OBVIOUS
    <2>1. op[d].pc \notin Judging
      BY <1>1 DEF Holds, Judges
    <2>2. op[d].pc \notin Preparing
      BY <1>1, <1>2, <1>3 DEF Holds, Prepares
    <2>3. op[d].pc \notin Late \cup {"send"}
      BY <1>1 DEF Holds, Launches
    <2> QED
      BY <1>1, <2>1, <2>2, <2>3 DEF Pc, Judging, Preparing, Late
  <1>5. op[d].action = "launch"
    BY <1>2, <1>3, <1>4
  <1>6. op[d].pc \notin Judging /\ op[d].pc \notin Preparing
    BY <1>1, <1>4, <1>5 DEF Holds, Judges, Prepares
  <1>7. op[d].pc \in Late \cup {"send"} /\ op[d].write.att = 1
    <2>1. op[d].pc \in Late \cup {"send"}
      BY <1>1, <1>6 DEF Pc, Judging, Preparing, Late
    <2> QED
      BY <1>1, <1>5, <2>1 DEF Holds, Launches
  <1>8. op[d].pc # "send"
    <2> SUFFICES ASSUME op[d].pc = "send" PROVE FALSE
      OBVIOUS
    <2>1. request[rec.att] = "none"
      BY <1>1 DEF Holds, Launches
    <2>2. rec.att \in Attempt /\ Gone(rec.att)
      BY <1>4, RecAtt, InPreparation
    <2> QED
      BY <2>1, <2>2, InvParts, Unstarted
  <1>9. op[c].write.att # 1
    <2> PICK r : r = rec.att
      OBVIOUS
    <2>1. r \in Int /\ r # 0 /\ op[c].write.att = r + 1
      BY <1>4, RecAtt, InPreparation
    <2> QED
      BY <2>1
  <1> QED
    BY <1>4, <1>5, <1>7, <1>8, <1>9

\* What it holds and has stays true.
LEMMA BesideHolds ==
    ASSUME Inv, NEW c \in Caller, op[c].pc \in Preparing,
           NEW d \in Caller, d # c, op'[d] = op[d], HostKept,
           early => early', OwnerUp' <=> OwnerUp,
           rec' = rec \/ rec' = op[c].write
    PROVE  Holds(op[d])'
  <1>1. \A b \in Attempt : Gone(b) => Gone(b)'
    BY DEF HostKept
  <1>2. op[d].pc # "idle" => op[d].pc \in Late /\ op[d].action = "launch"
    BY BesidePreparing
  <1>3. rec'.att # 0 \/ rec'.att = rec.att
    BY InPreparation, AttemptFacts
  <1>4. op[d].pc \notin Preparing \cup {"send", "remove"}
    BY <1>2 DEF Late, Preparing
  <1> QED
    BY <1>1, <1>2, <1>3, <1>4, HeldByOther

LEMMA BesideHas ==
    ASSUME Inv, NEW c \in Caller, op[c].pc \in Preparing,
           NEW d \in Caller, d # c, op'[d] = op[d], OnGpu, early => early',
           UNCHANGED booking \/ booking = Free \/ booking = op[c].write.att
    PROVE  Has(op[d])'
  <1>1. Has(op[d])
    BY InvParts DEF Booked
  <1>2. CASE op[d].pc = "idle"
    BY <1>2 DEF Has
  <1>3. CASE op[d].pc # "idle"
    <2>1. /\ op[d].action = "launch" /\ op[d].pc \in Late /\ op[d].write.att = 1
          /\ op[c].write.att # 1
      BY <1>3, BesidePreparing
    <2>2. Free # 1
      BY AttemptFacts
    <2>3. op[d].pc \in {"sent", "describe"} => booking = 1 \/ early
      BY <1>1, <2>1 DEF Has
    <2>4. op[d].pc \notin {"probe", "register", "send"}
      BY <2>1 DEF Late
    <2>5. op[d].pc \in {"sent", "describe"} => booking' = 1 \/ early'
      BY <2>1, <2>2, <2>3
    <2> QED
      BY <2>1, <2>4, <2>5 DEF Has
  <1> QED
    BY <1>2, <1>3

\* The booking while no attempt may run.
LEMMA BookedAnew ==
    ASSUME Inv, \A a \in Attempt : ~Pending(a), HostKept, UNCHANGED mode,
           OnGpu => /\ booking' \in Attempt => named' = booking' \/ early'
                    /\ stale' => ~OwnerUp'
                    /\ \A d \in Caller : Has(op[d])'
    PROVE  Booked'
  <1>1. \A a \in Attempt : ~Pending(a)'
    BY DEF HostKept
  <1>2. OnGpu' = OnGpu
    BY DEF OnGpu
  <1> QED
    BY <1>1, <1>2 DEF Booked, Pended, Described

\* A launch of the next attempt is prepared: no attempt may run.
LEMMA PreparingStep ==
    ASSUME Inv, NEW c \in Caller, op[c].pc # "idle", NEW pc \in Preparing,
           NEW write \in Record, Continue(c, pc, write),
           write.att \in Attempt, write.att = rec.att + 1, write.outcome = "none",
           request[write.att] = "none", rec.att \in Attempt => Gone(rec.att),
           op[c].action = "launch" <=> rec.att = 0,
           OnGpu /\ pc \in {"probe", "register"} => booking' = write.att,
           OnGpu => /\ booking' \in Attempt => named' = booking' \/ early'
                    /\ stale' => ~OwnerUp'
                    /\ \A d \in Caller \ {c} : op'[d] = op[d] => Has(op[d])',
           UNCHANGED <<host, rec, mode, early, faults>>, OwnerUp
    PROVE  Safe
  <1>1. HostTyped' /\ WorkerSound' /\ HostKept
    BY StillHost
  <1>2. RecTyped' /\ RecSound' /\ rec'.att = rec.att
    BY <1>1, RecSafe DEF SavesKnown
  <1>3. OwnerUp' <=> OwnerUp
    BY DEF OwnerUp
  <1>4. pc \in Pc \ {"idle"}
    BY DEF Preparing, Pc
  <1>5. /\ OpTyped' /\ LockTyped' /\ Alone'
        /\ op'[c].pc = pc /\ op'[c].write = write /\ op'[c].action = op[c].action
        /\ \A d \in Caller \ {c} : op'[d] = op[d]
        /\ Launching' => Launching
    BY <1>4, InvParts, ContinueEffect
  <1>6. Holds(op[c])'
    <2> PICK r : r = rec.att
      OBVIOUS
    <2>1. r # 0 => Gone(r)'
      BY <1>1, RecAtt DEF HostKept
    <2>2. request' = request
      BY DEF host
    <2>3. Prepares(op[c])'
      BY <1>2, <1>5, <2>1, <2>2 DEF Prepares, Gone
    <2>4. Judges(op[c])' /\ Launches(op[c])'
      BY <1>5 DEF Judges, Launches, Judging, Preparing, Late
    <2> QED
      BY <1>3, <1>5, <2>3, <2>4 DEF Holds
  <1>7. CallSound'
    <2>1. {c} \in SUBSET Caller /\ \A d \in {c} : Holds(op[d])'
      BY <1>6
    <2> QED
      BY <1>1, <1>2, <1>3, <1>5, <2>1, CallsHold
  <1>8. Booked'
    <2>1. \A a \in Attempt : ~Pending(a)
      BY InvParts, NonePending
    <2>2. OnGpu => Has(op[c])'
      BY <1>5 DEF Has, Preparing
    <2>3. OnGpu => \A d \in Caller : Has(op[d])'
      BY <1>5, <2>2
    <2> QED
      BY <1>1, <2>1, <2>3, BookedAnew
  <1> QED
    BY <1>1, <1>2, <1>5, <1>7, <1>8 DEF Safe

\* The record names the attempt whose launch was prepared.
LEMMA RecNext ==
    ASSUME Inv, NEW c \in Caller, op[c].pc \in Preparing, rec' = op[c].write,
           HostKept, UNCHANGED mode
    PROVE  RecTyped' /\ RecSound'
  <1> PICK w : w = op[c].write
    OBVIOUS
  <1> PICK r : r = rec.att
    OBVIOUS
  <1>1. /\ w \in Record /\ w.att \in Attempt /\ w.att = r + 1 /\ w.outcome = "none"
        /\ \A a \in Attempt : ~Pending(a)
    BY InPreparation
  <1>2. r \in Int /\ w.att # 0 /\ Attempt \subseteq Int
    BY <1>1, RecAtt, AttemptFacts
  <1>3. \A a \in Attempt : request'[a] # "none" => a <= r
    BY InvParts DEF RecSound, HostKept
  <1>4. \A a \in Attempt : request'[a] # "none" => a <= w.att
    BY <1>1, <1>2, <1>3
  <1>5. \A a \in Attempt : ~Pending(a)'
    BY <1>1 DEF HostKept
  <1> QED
    BY <1>1, <1>2, <1>4, <1>5, InvParts DEF RecTyped, RecSound

\* A launch is given up before its command is sent, its attempt registered perhaps.
LEMMA GivenUp ==
    ASSUME Inv, NEW c \in Caller, op[c].pc \in Preparing, End(c),
           UNCHANGED <<host, mode, named, stale, early>>, OwnerUp' <=> OwnerUp,
           rec' = rec \/ rec' = op[c].write,
           OnGpu => \/ UNCHANGED booking
                    \/ booking' = Free /\ op[c].pc \in {"probe", "register"}
    PROVE  Safe
  <1>1. op[c].pc # "idle" /\ \A a \in Attempt : ~Pending(a)
    BY InPreparation
  <1>2. HostTyped' /\ WorkerSound' /\ HostKept
    BY StillHost
  <1>3. RecTyped' /\ RecSound'
    <2>1. CASE rec' = rec
      BY <1>2, <2>1, RecSafe DEF SavesKnown
    <2>2. CASE rec' = op[c].write
      BY <1>2, <2>2, RecNext
    <2> QED
      BY <2>1, <2>2
  <1>4. /\ OpTyped' /\ LockTyped' /\ Alone' /\ op'[c] = Idle
        /\ \A d \in Caller : d # c => op'[d] = op[d]
    BY <1>1, InvParts, EndEffect
  <1>5. CallSound'
    <2>1. Holds(op[c])'
      BY <1>4, IdleHolds
    <2>2. ASSUME NEW d \in Caller, d # c PROVE Holds(op[d])'
      BY <1>2, <1>4, <2>2, BesideHolds
    <2> QED
      BY <2>1, <2>2 DEF CallSound
  <1>6. Booked'
    <2>1. ASSUME OnGpu
          PROVE  /\ booking' \in Attempt => named' = booking' \/ early'
                 /\ stale' => ~OwnerUp'
      BY <2>1, InvParts, AttemptFacts DEF Booked, Described
    <2>2. ASSUME OnGpu, NEW d \in Caller, d # c PROVE Has(op[d])'
      <3>1. op[c].pc \in {"probe", "register"} => booking = op[c].write.att
        BY <2>2, InvParts DEF Booked, Has
      <3> QED
        BY <1>4, <2>2, <3>1, BesideHas
    <2>3. Has(op[c])'
      BY <1>4, IdleHolds
    <2> QED
      BY <1>1, <1>2, <2>1, <2>2, <2>3, BookedAnew
  <1> QED
    BY <1>2, <1>3, <1>4, <1>5, <1>6 DEF Safe

LEMMA ActSafe ==
    ASSUME Inv, NEW c \in Caller, Act(c)
    PROVE  Safe
  <1> DEFINE o == op[c]
             w == o.write
             retried == [NoRecord EXCEPT !.att = w.att + 1, !.state = "launching"]
             finished == [w EXCEPT !.state = "finished"]
  <1>1. o.pc = "act" /\ UNCHANGED <<host, mode, lease, faults, early>>
    BY DEF Act
  <1>2. Steady
    BY <1>1, SteadyLease
  <1>3. /\ o.pc # "idle" /\ o.pc \in Judging /\ w \in Record /\ w.att = rec.att /\ OwnerUp
        /\ rec.att \in Attempt /\ (w.outcome # "none" => Gone(rec.att))
        /\ (o.seen = "gone" => Gone(rec.att)) /\ o.action # "launch"
    BY <1>1, InHand DEF Judging
  <1>4. ASSUME Continue(c, "stop", w), UNCHANGED rec PROVE Safe
    <2>1. "stop" \in Judging /\ SavesKnown
      BY <1>4 DEF Judging, SavesKnown
    <2> QED
      BY <1>1, <1>2, <1>3, <1>4, <2>1, StillHost, JudgingStep
  <1>5. ASSUME o.seen = "gone", w.att < MaxAttempts, Continue(c, "reserve", retried), UNCHANGED rec
        PROVE  Safe
    <2>1. w.att + 1 \in Attempt /\ rec.att # 0 /\ w.att + 1 > rec.att
      BY <1>3, <1>5, BuildJobsAssumption DEF Attempt
    <2>2. retried \in Record /\ retried.att = rec.att + 1 /\ retried.outcome = "none"
      BY <1>3, <2>1, NullTypes DEF NoRecord, Record
    <2>3. request[retried.att] = "none"
      <3>1. \A a \in Attempt : request[a] # "none" => a <= rec.att
        BY InvParts DEF RecSound
      <3>2. rec.att + 1 \in Attempt /\ ~(rec.att + 1 <= rec.att)
        BY <1>3, <2>1, BuildJobsAssumption DEF Attempt
      <3> QED
        BY <2>2, <3>1, <3>2
    <2>4. "reserve" \in Preparing /\ retried.att \in Attempt
      BY <1>3, <2>1, <2>2 DEF Preparing
    <2>5. ASSUME OnGpu
          PROVE  /\ booking' \in Attempt => named' = booking' \/ early'
                 /\ stale' => ~OwnerUp'
                 /\ \A d \in Caller \ {c} : op'[d] = op[d] => Has(op[d])'
      BY <1>1, <2>5, InvParts DEF Booked, Described, Has, lease, OwnerUp
    <2> HIDE DEF retried
    <2> QED
      BY <1>1, <1>3, <1>5, <2>1, <2>2, <2>3, <2>4, <2>5, PreparingStep
  <1>6. ASSUME o.seen = "gone", End(c), rec' = finished PROVE Safe
    <2>1. finished \in Record /\ finished.att = rec.att /\ finished.outcome = w.outcome
      BY <1>3 DEF Record
    <2>2. SavesKnown
      BY <1>3, <1>6, <2>1 DEF SavesKnown
    <2> QED
      BY <1>1, <1>2, <1>3, <1>6, <2>2, EndStep
  <1>7. ASSUME End(c), UNCHANGED rec PROVE Safe
    BY <1>1, <1>2, <1>3, <1>7, EndStep DEF SavesKnown
  <1> QED
    BY <1>4, <1>5, <1>6, <1>7 DEF Act

LEMMA ReserveSafe ==
    ASSUME Inv, NEW c \in Caller, Reserve(c)
    PROVE  Safe
  <1> DEFINE w == op[c].write
  <1>1. op[c].pc \in Preparing /\ UNCHANGED <<host, rec, mode, early, faults>>
    BY DEF Reserve, At, Preparing
  <1>2. ASSUME NEW d \in Caller \ {c}, op'[d] = op[d], OnGpu, booking = Free
        PROVE  Has(op[d])'
    BY <1>1, <1>2, BesideHas
  <1>3. ASSUME ~OnGpu, Continue(c, "register", w) PROVE Safe
    <2>1. "register" \in Preparing
      BY DEF Preparing
    <2> QED
      BY <1>1, <1>3, <2>1, InPreparation, PreparingStep
  <1>4. ASSUME booking = Free, booking' = w.att, named' = w.att, stale' = FALSE,
               Continue(c, "probe", w)
        PROVE  Safe
    <2>1. "probe" \in Preparing
      BY DEF Preparing
    <2> QED
      BY <1>1, <1>2, <1>4, <2>1, InPreparation, PreparingStep
  <1>5. ASSUME End(c), UNCHANGED <<booking, named, stale>> PROVE Safe
    BY <1>1, <1>5, GivenUp DEF OwnerUp
  <1> QED
    BY <1>3, <1>4, <1>5 DEF Reserve

LEMMA ProbeSafe ==
    ASSUME Inv, NEW c \in Caller, Probe(c)
    PROVE  Safe
  <1> DEFINE w == op[c].write
             active == [w EXCEPT !.active = TRUE]
  <1>1. /\ op[c].pc \in Preparing /\ op[c].pc = "probe"
        /\ UNCHANGED <<host, rec, mode, named, stale, early, faults>>
    BY DEF Probe, At, Preparing
  <1>2. ASSUME Continue(c, "register", active), UNCHANGED booking PROVE Safe
    <2>1. "register" \in Preparing
      BY DEF Preparing
    <2>2. active \in Record /\ active.att = w.att /\ active.outcome = w.outcome
      BY <1>1, InPreparation DEF Record
    <2>3. OnGpu => booking' = w.att
      BY <1>1, <1>2, InvParts DEF Booked, Has
    <2>4. ASSUME OnGpu
          PROVE  /\ booking' \in Attempt => named' = booking' \/ early'
                 /\ stale' => ~OwnerUp'
                 /\ \A d \in Caller \ {c} : op'[d] = op[d] => Has(op[d])'
      BY <1>1, <1>2, <2>4, InvParts DEF Booked, Described, Has, OwnerUp
    <2> HIDE DEF active
    <2> QED
      BY <1>1, <1>2, <2>1, <2>2, <2>3, <2>4, InPreparation, PreparingStep
  <1>3. ASSUME End(c), booking' = Free PROVE Safe
    BY <1>1, <1>3, GivenUp DEF OwnerUp
  <1> QED
    BY <1>2, <1>3 DEF Probe

LEMMA RegisterSafe ==
    ASSUME Inv, NEW c \in Caller, Register(c)
    PROVE  Safe
  <1> DEFINE w == op[c].write
  <1>1. /\ op[c].pc \in Preparing /\ op[c].pc = "register"
        /\ UNCHANGED <<host, mode, named, stale, early>>
    BY DEF Register, At, Preparing
  <1>2. ASSUME rec' = w, Continue(c, "send", w), UNCHANGED <<booking, faults>> PROVE Safe
    <2>1. /\ op[c].pc # "idle" /\ w \in Record /\ w.att \in Attempt /\ w.att = rec.att + 1
          /\ request[w.att] = "none" /\ w.outcome = "none" /\ OwnerUp
          /\ (op[c].action = "launch" <=> rec.att = 0) /\ \A a \in Attempt : ~Pending(a)
      BY <1>1, InPreparation
    <2>2. HostTyped' /\ WorkerSound' /\ HostKept
      BY <1>1, StillHost
    <2>3. RecTyped' /\ RecSound'
      BY <1>1, <1>2, <2>2, RecNext
    <2>4. "send" \in Pc \ {"idle"}
      BY DEF Pc
    <2>5. /\ OpTyped' /\ LockTyped' /\ Alone'
          /\ op'[c].pc = "send" /\ op'[c].write = w /\ op'[c].action = op[c].action
          /\ \A d \in Caller : d # c => op'[d] = op[d]
      BY <1>2, <2>1, <2>4, InvParts, ContinueEffect
    <2>6. OwnerUp' <=> OwnerUp
      BY <1>2 DEF OwnerUp
    <2>7. Holds(op[c])'
      <3>1. IF op'[c].action = "launch" THEN rec'.att # 0 /\ op'[c].write.att = 1
            ELSE rec'.att > 1 /\ op'[c].write.att = rec'.att
        <4> PICK r : r = rec.att
          OBVIOUS
        <4>1. r \in Attempt \cup {0}
          BY RecAtt
        <4>2. r = 0 \/ (r \in Int /\ r >= 1)
          BY <4>1, BuildJobsAssumption DEF Attempt
        <4>3. (op[c].action = "launch" <=> r = 0) /\ w.att = r + 1
          BY <2>1
        <4>4. rec'.att = w.att /\ op'[c].write.att = w.att
          BY <1>2, <2>5
        <4>5. IF op[c].action = "launch" THEN w.att # 0 /\ w.att = 1 ELSE w.att > 1
          BY <4>2, <4>3
        <4> QED
          BY <2>5, <4>4, <4>5
      <3>2. request'[op'[c].write.att] = "none" /\ op'[c].write.att = rec'.att
        BY <1>1, <1>2, <2>1, <2>5 DEF host
      <3>3. Launches(op[c])'
        BY <2>5, <3>1, <3>2 DEF Launches
      <3>4. Judges(op[c])' /\ Prepares(op[c])'
        BY <2>5 DEF Judges, Prepares, Judging, Preparing
      <3> QED
        BY <2>1, <2>5, <2>6, <3>3, <3>4 DEF Holds
    <2>8. CallSound'
      <3>1. ASSUME NEW d \in Caller, d # c PROVE Holds(op[d])'
        BY <1>1, <1>2, <2>2, <2>5, <2>6, <3>1, BesideHolds
      <3> QED
        BY <2>7, <3>1 DEF CallSound
    <2>9. Booked'
      <3>1. ASSUME OnGpu
            PROVE  /\ booking' \in Attempt => named' = booking' \/ early'
                   /\ stale' => ~OwnerUp'
                   /\ Has(op[c])'
        BY <1>1, <1>2, <2>5, <2>6, <3>1, InvParts DEF Booked, Described, Has
      <3>2. ASSUME OnGpu, NEW d \in Caller, d # c PROVE Has(op[d])'
        BY <1>1, <1>2, <2>5, <3>2, BesideHas
      <3> QED
        BY <1>1, <2>1, <2>2, <3>1, <3>2, BookedAnew
    <2> QED
      BY <2>2, <2>3, <2>5, <2>8, <2>9 DEF Safe
  <1>3. ASSUME End(c), Fault("error"), booking' = (IF OnGpu THEN Free ELSE booking),
               rec' = w \/ UNCHANGED rec
        PROVE  Safe
    <2>1. OwnerUp' <=> OwnerUp
      BY <1>3, FaultUp
    <2> QED
      BY <1>1, <1>3, <2>1, GivenUp
  <1> QED
    BY <1>2, <1>3 DEF Register

-----------------------------------------------------------------------------
(* A launch once its attempt is registered.                                 *)

LEMMA InFlight ==
    ASSUME Inv, NEW c \in Caller, op[c].pc \in Late \cup {"send"}
    PROVE  /\ op[c].pc # "idle" /\ op[c].write \in Record /\ op[c].write.att \in Attempt
           /\ rec.att \in Attempt /\ OwnerUp
           /\ IF op[c].action = "launch" THEN op[c].write.att = 1
              ELSE rec.att > 1 /\ op[c].write.att = rec.att
           /\ op[c].pc = "send" => op[c].write.att = rec.att /\ request[op[c].write.att] = "none"
           /\ op[c].write.outcome # "none" => Gone(op[c].write.att)
  <1>1. op[c].pc # "idle"
    BY DEF Late
  <1>2. /\ Holds(op[c]) /\ op[c].write \in Record /\ op[c].write.att \in Attempt
        /\ 0 \notin Attempt
    BY <1>1, CallKnown, AttemptFacts
  <1>3. /\ IF op[c].action = "launch" THEN rec.att # 0 /\ op[c].write.att = 1
           ELSE rec.att > 1 /\ op[c].write.att = rec.att
        /\ op[c].pc = "send" => op[c].write.att = rec.att /\ request[op[c].write.att] = "none"
    BY <1>2 DEF Holds, Launches
  <1>4. rec.att \in Attempt
    BY <1>2, <1>3, RecAtt
  <1>5. OwnerUp
    BY <1>1, <1>2 DEF Holds, Late
  <1> QED
    BY <1>1, <1>2, <1>3, <1>4, <1>5 DEF Holds

LEMMA SendSafe ==
    ASSUME Inv, NEW c \in Caller, Send(c)
    PROVE  Safe
  <1> DEFINE w == op[c].write
  <1>1. /\ op[c].pc = "send" /\ UNCHANGED <<worker, rec, mode, booking, named, stale, early, faults>>
        /\ request' = [request EXCEPT ![w.att] = "inflight"] /\ Continue(c, "sent", w)
    BY DEF Send, At, lease
  <1>2. op[c].pc \in Late \cup {"send"}
    BY <1>1
  <1> PICK a \in Attempt : a = w.att
    BY <1>2, InFlight
  <1>3. /\ op[c].pc # "idle" /\ w \in Record /\ a = rec.att /\ OwnerUp /\ request[a] = "none"
        /\ (IF op[c].action = "launch" THEN a = 1 ELSE a > 1)
        /\ (w.outcome # "none" => Gone(a))
    BY <1>1, <1>2, InFlight
  <1>4. /\ request'[a] = "inflight"
        /\ \A b \in Attempt : b # a => request'[b] = request[b]
    BY <1>1, <1>3, InvParts DEF HostTyped
  <1>5. HostTyped' /\ WorkerSound'
    BY <1>1, <1>3, <1>4, InvParts DEF HostTyped, WorkerSound
  <1>6. \A b \in Attempt : (Gone(b)' <=> Gone(b)) /\ (b # a => (Pending(b)' <=> Pending(b)))
    BY <1>1, <1>4, GoneMeans, GoneMeansNext DEF Pending
  <1>7. RecTyped' /\ RecSound'
    <2>1. RecTyped /\ RecSound /\ a <= a
      BY InvParts DEF Attempt
    <2>2. rec.outcome # "none" => rec.att \in Attempt
      BY <1>3
    <2> QED
      BY <1>1, <1>3, <1>4, <1>6, <2>1, <2>2 DEF RecTyped, RecSound
  <1>8. "sent" \in Pc \ {"idle"}
    BY DEF Pc
  <1>9. /\ OpTyped' /\ LockTyped' /\ Alone'
        /\ op'[c].pc = "sent" /\ op'[c].write = w /\ op'[c].action = op[c].action
        /\ \A d \in Caller : d # c => op'[d] = op[d]
        /\ Launching' => Launching
    BY <1>1, <1>3, <1>8, InvParts, ContinueEffect
  <1>10. OwnerUp' <=> OwnerUp
    BY <1>1 DEF OwnerUp
  <1>11. Holds(op[c])'
    <2>1. Launches(op[c])'
      BY <1>1, <1>3, <1>9, AttemptFacts DEF Launches
    <2>2. Judges(op[c])' /\ Prepares(op[c])'
      BY <1>9 DEF Judges, Prepares, Judging, Preparing
    <2>3. op'[c].write.outcome # "none" => Gone(op[c].write.att)'
      BY <1>3, <1>6, <1>9 DEF Gone
    <2> QED
      BY <1>3, <1>9, <1>10, <2>1, <2>2, <2>3 DEF Holds
  <1>12. ASSUME NEW d \in Caller, d # c PROVE Holds(op[d])'
    <2>1. op[d].pc \notin Preparing
      <3> SUFFICES ASSUME op[d].pc \in Preparing PROVE FALSE
        OBVIOUS
      <3>1. op[c].pc \in Late
        BY <1>3, <1>12, BesidePreparing
      <3> QED
        BY <1>1, <3>1 DEF Late
    <2>2. op[d].pc # "send"
      <3> SUFFICES ASSUME op[d].pc = "send" PROVE FALSE
        OBVIOUS
      <3>1. /\ op[d].write.att = rec.att
            /\ IF op[d].action = "launch" THEN op[d].write.att = 1 ELSE rec.att > 1
        BY InFlight
      <3>2. op[c].action = "launch" <=> op[d].action # "launch"
        BY <1>3, <1>12, OneLaunches
      <3> PICK n \in Attempt : n = rec.att
        BY <1>3
      <3>3. n = 1 /\ n > 1
        BY <1>3, <3>1, <3>2
      <3> QED
        BY <3>3, AttemptFacts
    <2>3. \A b \in Attempt : Gone(b) => Gone(b)'
      BY <1>6
    <2> QED
      BY <1>1, <1>9, <1>10, <1>12, <2>1, <2>2, <2>3, HeldByOther
  <1>13. CallSound'
    BY <1>11, <1>12 DEF CallSound
  <1>14. Booked'
    <2> SUFFICES ASSUME OnGpu
                 PROVE  Pended' /\ Described' /\ (stale' => ~OwnerUp')
                        /\ \A d \in Caller : Has(op[d])'
      BY <1>1 DEF Booked, OnGpu
    <2>1. Pended /\ Described /\ (stale => ~OwnerUp) /\ \A d \in Caller : Has(op[d])
      BY InvParts DEF Booked
    <2>2. booking = a
      BY <1>1, <2>1 DEF Has
    <2>3. Pended'
      BY <1>1, <1>6, <1>10, <2>1, <2>2 DEF Pended, Misdescribed
    <2>4. Described' /\ (stale' => ~OwnerUp')
      BY <1>1, <1>10, <2>1 DEF Described
    <2>5. Has(op[c])'
      BY <1>1, <1>9, <2>2 DEF Has
    <2>6. ASSUME NEW d \in Caller, d # c PROVE Has(op[d])'
      BY <1>1, <1>9, <2>1, <2>6 DEF Has
    <2> QED
      BY <2>3, <2>4, <2>5, <2>6
  <1> QED
    BY <1>5, <1>7, <1>9, <1>13, <1>14 DEF Safe

\* A launch whose command was sent goes on.
LEMMA LateStep ==
    ASSUME Inv, NEW c \in Caller, op[c].pc \in {"sent", "describe"},
           NEW pc \in {"describe", "launched"}, NEW write \in Record, Continue(c, pc, write),
           write.att = op[c].write.att, write.outcome = op[c].write.outcome,
           UNCHANGED <<host, rec, mode, booking, stale, early, faults>>,
           OnGpu => Described'
    PROVE  Safe
  <1>1. HostTyped' /\ WorkerSound' /\ HostKept
    BY StillHost
  <1>2. RecTyped' /\ RecSound' /\ rec'.att = rec.att
    BY <1>1, RecSafe DEF SavesKnown
  <1>3. OwnerUp' <=> OwnerUp
    BY DEF OwnerUp
  <1>4. op[c].pc \in Late \cup {"send"} /\ op[c].pc # "idle" /\ pc \in Pc \ {"idle"}
    BY DEF Late, Pc
  <1>5. /\ OpTyped' /\ LockTyped' /\ Alone'
        /\ op'[c].pc = pc /\ op'[c].write = write /\ op'[c].action = op[c].action
        /\ \A d \in Caller \ {c} : op'[d] = op[d]
        /\ Launching' => Launching
    BY <1>4, InvParts, ContinueEffect
  <1>6. Holds(op[c])'
    <2>1. /\ write.att \in Attempt /\ rec.att \in Attempt /\ OwnerUp
          /\ IF op[c].action = "launch" THEN write.att = 1
             ELSE rec.att > 1 /\ write.att = rec.att
          /\ write.outcome # "none" => Gone(write.att)
      BY <1>4, InFlight
    <2>2. Launches(op[c])'
      BY <1>5, <2>1, AttemptFacts DEF Launches
    <2>3. Judges(op[c])' /\ Prepares(op[c])'
      BY <1>5 DEF Judges, Prepares, Judging, Preparing
    <2>4. write.outcome # "none" => Gone(write.att)'
      BY <1>1, <2>1 DEF HostKept
    <2>5. op'[c].write.outcome # "none" => Gone(op[c].write.att)'
      BY <1>5, <2>4 DEF Gone
    <2> QED
      BY <1>3, <1>5, <2>1, <2>2, <2>3, <2>5 DEF Holds
  <1>7. CallSound'
    <2>1. {c} \in SUBSET Caller /\ \A d \in {c} : Holds(op[d])'
      BY <1>6
    <2> QED
      BY <1>1, <1>2, <1>3, <1>5, <2>1, CallsHold
  <1>8. Booked'
    <2>1. OnGpu => Has(op[c])'
      <3>1. OnGpu => Has(op[c])
        BY InvParts DEF Booked
      <3> QED
        BY <1>5, <3>1 DEF Has
    <2>2. {c} \in SUBSET Caller /\ (OnGpu => \A d \in {c} : Has(op[d])')
      BY <2>1
    <2> QED
      BY <1>1, <1>3, <1>5, <2>2, BookedStays
  <1> QED
    BY <1>1, <1>2, <1>5, <1>7, <1>8 DEF Safe

LEMMA ReplySafe ==
    ASSUME Inv, NEW c \in Caller, Reply(c)
    PROVE  Safe
  <1> DEFINE w == op[c].write
             started == [w EXCEPT !.state = "running"]
             unknown == [w EXCEPT !.state = "launch_unknown"]
  <1>1. /\ op[c].pc = "sent"
        /\ UNCHANGED <<host, rec, mode, booking, named, stale, early, faults>>
        /\ \E pc \in {"describe", "launched"}, write \in {started, unknown} : Continue(c, pc, write)
    BY DEF Reply, Answered, At
  <1>2. w \in Record
    BY <1>1, InFlight DEF Late
  <1>3. \A write \in {started, unknown} :
           write \in Record /\ write.att = w.att /\ write.outcome = w.outcome
    BY <1>2 DEF Record
  <1> HIDE DEF started, unknown
  <1>4. OnGpu => Described'
    BY <1>1, InvParts DEF Booked, Described
  <1> QED
    BY <1>1, <1>3, <1>4, LateStep

LEMMA DescribeSafe ==
    ASSUME Inv, NEW c \in Caller, Describe(c)
    PROVE  Safe
  <1> DEFINE w == op[c].write
  <1>1. /\ op[c].pc = "describe"
        /\ UNCHANGED <<host, rec, mode, booking, stale, beating, early, faults>>
    BY DEF Describe, At
  <1>2. op[c].pc # "idle" /\ w \in Record
    BY <1>1, InFlight DEF Late
  <1>3. ASSUME named' = w.att, Continue(c, "launched", w) PROVE Safe
    <2>1. ASSUME OnGpu PROVE Described'
      <3>1. booking = w.att \/ early
        BY <1>1, <2>1, InvParts DEF Booked, Has
      <3> QED
        BY <1>1, <1>3, <3>1 DEF Described
    <2> QED
      BY <1>1, <1>2, <1>3, <2>1, LateStep
  <1>4. ASSUME End(c), UNCHANGED named PROVE Safe
    <2>1. Steady /\ SavesKnown
      BY <1>1, <1>4 DEF Steady, SavesKnown, OwnerUp
    <2> QED
      BY <1>1, <1>2, <1>4, <2>1, EndStep
  <1> QED
    BY <1>3, <1>4 DEF Describe

LEMMA SaveLaunchedSafe ==
    ASSUME Inv, NEW c \in Caller, SaveLaunched(c)
    PROVE  Safe
  <1> DEFINE w == op[c].write
  <1>1. /\ op[c].pc = "launched" /\ rec' = (IF rec.att = w.att THEN w ELSE rec) /\ End(c)
        /\ UNCHANGED host /\ Steady
    BY SteadyLease DEF SaveLaunched, At
  <1>2. /\ op[c].pc # "idle" /\ w \in Record /\ rec.att \in Attempt
        /\ (w.outcome # "none" => Gone(w.att))
    BY <1>1, InFlight DEF Late
  <1>3. SavesKnown
    BY <1>1, <1>2 DEF SavesKnown
  <1> QED
    BY <1>1, <1>2, <1>3, EndStep

-----------------------------------------------------------------------------
(* A new call.                                                              *)

\* A caller at rest begins a call; it gets the lock unless it launches the job.
LEMMA BeginEffect ==
    ASSUME Inv, NEW c \in Caller, op[c].pc = "idle",
           NEW o \in Operation, o.pc # "idle", op' = [op EXCEPT ![c] = o],
           \/ o.action # "launch" /\ lock = NoCaller /\ lock' = c
           \/ o.action = "launch" /\ ~Launching /\ lock' = lock
    PROVE  /\ OpTyped' /\ LockTyped' /\ Alone' /\ op'[c] = o
           /\ \A d \in Caller \ {c} : op'[d] = op[d]
           /\ o.action # "launch" => (Launching' => Launching)
  <1>1. OpTyped /\ LockTyped /\ Alone
    BY InvParts
  <1>2. op'[c] = o /\ \A d \in Caller \ {c} : op'[d] = op[d]
    BY <1>1 DEF OpTyped
  <1>3. OpTyped' /\ LockTyped'
    BY <1>1 DEF OpTyped, LockTyped
  <1>4. \A d, e \in Caller : op'[d].action = "launch" /\ op'[e].action = "launch" => d = e
    BY <1>1, <1>2 DEF Alone, Launching
  <1>5. \A d \in Caller : op'[d].pc = "idle" => op'[d] = Idle
    BY <1>1, <1>2 DEF Alone
  <1>6. ASSUME NEW d \in Caller
        PROVE  lock' = d <=> op'[d].pc # "idle" /\ op'[d].action # "launch"
    <2>1. lock = d <=> op[d].pc # "idle" /\ op[d].action # "launch"
      BY <1>1 DEF Alone
    <2>2. d # NoCaller
      BY BuildJobsAssumption
    <2> QED
      BY <1>2, <2>1, <2>2
  <1>7. o.action # "launch" => (Launching' => Launching)
    BY <1>2 DEF Launching
  <1> QED
    BY <1>2, <1>3, <1>4, <1>5, <1>6, <1>7 DEF Alone

LEMMA SubmitSafe ==
    ASSUME Inv, NEW c \in Caller, Submit(c)
    PROVE  Safe
  <1> DEFINE first == [NoRecord EXCEPT !.att = 1, !.state = "launching"]
             call == [Idle EXCEPT !.pc = "reserve", !.action = "launch", !.write = first]
  <1>1. /\ op[c].pc = "idle" /\ OwnerUp /\ rec = NoRecord /\ ~Launching
        /\ op' = [op EXCEPT ![c] = call] /\ UNCHANGED <<host, rec, mode, lock>> /\ Steady
    BY SteadyLease DEF Submit, At
  <1>2. first \in Record /\ first.att = 1 /\ first.outcome = "none"
    BY AttemptFacts DEF NoRecord, Record
  <1> HIDE DEF first
  <1>3. /\ call \in Operation /\ call.pc = "reserve" /\ call.action = "launch"
        /\ call.write = first
    BY <1>2 DEF Idle, Operation, Pc
  <1> HIDE DEF call
  <1>4. rec.att = 0
    BY <1>1, NullTypes
  <1>5. HostTyped' /\ WorkerSound' /\ HostKept
    BY <1>1, StillHost
  <1>6. RecTyped' /\ RecSound' /\ rec'.att = rec.att
    BY <1>1, <1>5, RecSafe DEF SavesKnown, Steady
  <1>7. /\ OpTyped' /\ LockTyped' /\ Alone' /\ op'[c] = call
        /\ \A d \in Caller \ {c} : op'[d] = op[d]
    BY <1>1, <1>3, BeginEffect
  <1>8. OwnerUp' /\ (OwnerUp' <=> OwnerUp) /\ (early => early') /\ request' = request
    BY <1>1 DEF Steady, host
  <1>9. Holds(op[c])'
    <2>1. 1 \in Attempt /\ request[1] = "none"
      BY <1>4, InvParts, AttemptFacts DEF RecSound
    <2>2. Prepares(op[c])'
      BY <1>2, <1>3, <1>4, <1>6, <1>7, <1>8, <2>1 DEF Prepares
    <2>3. Judges(op[c])' /\ Launches(op[c])'
      BY <1>3, <1>7 DEF Judges, Launches, Judging, Late
    <2> QED
      BY <1>2, <1>3, <1>7, <1>8, <2>1, <2>2, <2>3 DEF Holds
  <1>10. ASSUME NEW d \in Caller, d # c PROVE Holds(op[d])'
    <2>1. op[d].pc = "idle"
      <3> SUFFICES ASSUME op[d].pc # "idle" PROVE FALSE
        OBVIOUS
      <3>1. Holds(op[d]) /\ op[d].pc \in Pc /\ op[d].action # "launch"
        BY <1>1, CallKnown DEF Launching, Operation
      <3>2. op[d].pc \notin Judging
        BY <1>4, <3>1 DEF Holds, Judges
      <3>3. op[d].pc \notin Preparing
        BY <1>4, <3>1 DEF Holds, Prepares
      <3>4. op[d].pc \notin Late \cup {"send"}
        BY <1>4, <3>1 DEF Holds, Launches
      <3> QED
        BY <3>1, <3>2, <3>3, <3>4 DEF Pc, Judging, Preparing, Late
    <2>2. \A b \in Attempt : Gone(b) => Gone(b)'
      BY <1>5 DEF HostKept
    <2>3. op'[d] = op[d] /\ op[d].pc \notin Preparing \cup {"send", "remove"}
      BY <1>7, <1>10, <2>1 DEF Preparing
    <2> QED
      BY <1>8, <2>1, <2>2, <2>3, HeldByOther
  <1>11. CallSound'
    BY <1>9, <1>10 DEF CallSound
  <1>12. Booked'
    <2>1. Has(op[c])'
      BY <1>3, <1>7 DEF Has
    <2>2. {c} \in SUBSET Caller /\ (OnGpu => \A d \in {c} : Has(op[d])')
      BY <2>1
    <2> QED
      BY <1>1, <1>5, <1>7, <1>8, <2>2, BookedKept DEF Steady
  <1> QED
    BY <1>5, <1>6, <1>7, <1>11, <1>12 DEF Safe

LEMMA ManageSafe ==
    ASSUME Inv, NEW c \in Caller, NEW action \in {"status", "stop", "finish", "retry"},
           Manage(c, action)
    PROVE  Safe
  <1> DEFINE call == [Idle EXCEPT !.action = action, !.write = rec]
             done == [call EXCEPT !.pc = "release"]
             judged == [call EXCEPT !.pc = "save", !.write = Seen(rec), !.seen = Inspected(rec.att)]
  <1>1. /\ rec # NoRecord /\ op[c].pc = "idle" /\ lock = NoCaller /\ lock' = c
        /\ UNCHANGED <<host, rec, mode>> /\ Steady /\ (action # "status" => OwnerUp)
    BY SteadyLease DEF Manage, Locked
  <1>2. \/ op' = [op EXCEPT ![c] = done] /\ rec.outcome # "none" /\ OwnerUp
        \/ op' = [op EXCEPT ![c] = judged]
    BY DEF Manage
  <1>3. rec \in Record /\ rec.att \in Attempt /\ (rec.outcome # "none" => Gone(rec.att))
    BY <1>1, InvParts DEF RecTyped, RecSound, Record
  <1>4. /\ Inspected(rec.att) \in {"unknown", "alive", "gone"}
        /\ Seen(rec) \in Record /\ Seen(rec).att = rec.att
        /\ Seen(rec).outcome # "none" => Gone(rec.att)
    BY <1>3, InvParts, SeenEffect
  <1>5. HostTyped' /\ WorkerSound' /\ HostKept
    BY <1>1, StillHost
  <1>6. RecTyped' /\ RecSound' /\ rec'.att = rec.att
    BY <1>1, <1>5, RecSafe DEF SavesKnown
  <1>7. /\ done \in Operation /\ done.pc = "release" /\ done.action = action
        /\ done.write = rec /\ done.seen = "unknown"
    BY <1>3 DEF Idle, Operation, Pc
  <1>8. /\ judged \in Operation /\ judged.pc = "save" /\ judged.action = action
        /\ judged.write = Seen(rec) /\ judged.seen = Inspected(rec.att)
    BY <1>3, <1>4 DEF Idle, Operation, Pc
  <1> HIDE DEF done, judged
  <1>9. PICK o \in Operation :
            /\ op' = [op EXCEPT ![c] = o] /\ o.pc \in {"release", "save"} /\ o.action = action
            /\ o.write \in Record /\ o.write.att = rec.att
            /\ (o.write.outcome # "none" => Gone(rec.att))
            /\ (o.pc = "release" \/ o.seen = "gone" => Gone(rec.att))
            /\ (o.pc = "release" => OwnerUp)
    <2>1. CASE op' = [op EXCEPT ![c] = done] /\ rec.outcome # "none" /\ OwnerUp
      BY <1>3, <1>7, <2>1
    <2>2. CASE op' = [op EXCEPT ![c] = judged]
      BY <1>4, <1>8, <2>2 DEF Gone
    <2> QED
      BY <1>2, <2>1, <2>2
  <1>10. /\ OpTyped' /\ LockTyped' /\ Alone' /\ op'[c] = o
         /\ \A d \in Caller \ {c} : op'[d] = op[d]
         /\ Launching' => Launching
    BY <1>1, <1>9, BeginEffect
  <1>11. (OwnerUp' <=> OwnerUp) /\ (early => early')
    BY <1>1 DEF Steady
  <1>12. Holds(op[c])'
    <2>1. Gone(rec.att) => Gone(rec.att)'
      BY <1>3, <1>5, <1>6 DEF HostKept, Gone
    <2>2. rec'.att = rec.att /\ rec.att # 0 /\ op'[c].write.att = rec'.att /\ rec'.att \in Attempt
      BY <1>3, <1>6, <1>9, <1>10, AttemptFacts
    <2>3. op'[c].action # "launch" /\ op'[c].pc \in {"release", "save"}
      BY <1>9, <1>10
    <2>4. Judges(op[c])'
      BY <1>9, <1>10, <2>1, <2>2, <2>3 DEF Judges
    <2>5. Prepares(op[c])' /\ Launches(op[c])'
      BY <2>3 DEF Prepares, Launches, Preparing, Late
    <2>6. op'[c].write.outcome # "none" => Gone(op[c].write.att)'
      BY <1>9, <1>10, <2>1, <2>2 DEF Gone
    <2>7. ~OwnerUp' => op'[c].action = "status" /\ op'[c].pc = "save"
      BY <1>1, <1>9, <1>10, <1>11
    <2> QED
      BY <2>2, <2>4, <2>5, <2>6, <2>7 DEF Holds
  <1>13. CallSound'
    <2>1. {c} \in SUBSET Caller /\ \A d \in {c} : Holds(op[d])'
      BY <1>12
    <2> QED
      BY <1>5, <1>6, <1>10, <1>11, <2>1, CallsHold
  <1>14. Booked'
    <2>1. Has(op[c])'
      BY <1>9, <1>10 DEF Has
    <2>2. {c} \in SUBSET Caller /\ (OnGpu => \A d \in {c} : Has(op[d])')
      BY <2>1
    <2>3. UNCHANGED <<mode, booking, named, stale>>
      BY <1>1 DEF Steady
    <2> QED
      BY <1>5, <1>10, <1>11, <2>2, <2>3, BookedKept
  <1> QED
    BY <1>5, <1>6, <1>10, <1>13, <1>14 DEF Safe

-----------------------------------------------------------------------------
(* Steps that no caller takes.                                              *)

\* What the calls have in hand stays true while nobody takes a step of a call.
LEMMA CallsKept ==
    ASSUME Inv, HostKept, UNCHANGED <<rec, op, lock>>, early => early', OwnerUp' <=> OwnerUp
    PROVE  OpTyped' /\ LockTyped' /\ Alone' /\ CallSound'
  <1>1. Launching' => Launching
    BY DEF Launching
  <1>2. /\ {} \in SUBSET Caller /\ \A d \in Caller \ {} : op'[d] = op[d]
        /\ \A d \in {} : Holds(op[d])'
    OBVIOUS
  <1>3. CallSound'
    BY <1>1, <1>2, CallsHold
  <1>4. OpTyped' /\ LockTyped' /\ Alone'
    BY InvParts DEF OpTyped, LockTyped, Alone
  <1> QED
    BY <1>3, <1>4

LEMMA HostSafe ==
    ASSUME Inv, NEW a \in Attempt, OnHost(a), UNCHANGED Backend, OwnerUp' <=> OwnerUp
    PROVE  Safe /\ HostKept
  <1>1. HostTyped' /\ WorkerSound' /\ HostKept
    BY InvParts, HostMoves
  <1>2. UNCHANGED <<rec, mode, booking, named, stale, lock, op, early>>
    BY DEF Backend, lease
  <1>3. RecTyped' /\ RecSound'
    BY <1>1, <1>2, RecSafe DEF SavesKnown
  <1>4. OpTyped' /\ LockTyped' /\ Alone' /\ CallSound'
    BY <1>1, <1>2, CallsKept
  <1>5. Booked'
    <2>1. /\ {} \in SUBSET Caller /\ \A d \in Caller \ {} : op'[d] = op[d]
          /\ OnGpu => \A d \in {} : Has(op[d])'
      BY <1>2
    <2> QED
      BY <1>1, <1>2, <2>1, BookedKept
  <1> QED
    BY <1>1, <1>3, <1>4, <1>5 DEF Safe

LEMMA OwnerDiesSafe ==
    ASSUME Inv, OwnerDies
    PROVE  Safe
  <1>1. /\ UNCHANGED <<host, rec, mode, booking, named, stale, early>>
        /\ op' = [c \in Caller |-> Idle] /\ lock' = NoCaller /\ ~OwnerUp'
    BY DEF OwnerDies, Fault, OwnerUp
  <1>2. HostTyped' /\ WorkerSound' /\ HostKept
    BY <1>1, StillHost
  <1>3. RecTyped' /\ RecSound'
    BY <1>1, <1>2, RecSafe DEF SavesKnown
  <1>4. OpTyped' /\ LockTyped' /\ \A c \in Caller : op'[c] = Idle
    BY <1>1, NullTypes DEF OpTyped, LockTyped
  <1>5. Alone' /\ CallSound'
    BY <1>1, <1>4, NullTypes, IdleHolds, BuildJobsAssumption DEF Alone, CallSound
  <1>6. Booked'
    <2> SUFFICES ASSUME OnGpu
                 PROVE  Pended' /\ Described' /\ \A c \in Caller : Has(op[c])'
      BY <1>1 DEF Booked, OnGpu
    <2>1. Pended /\ Described
      BY InvParts DEF Booked
    <2>2. Pended' /\ Described'
      BY <1>1, <1>2, <2>1 DEF Pended, Described, HostKept, Misdescribed
    <2>3. \A c \in Caller : Has(op[c])'
      BY <1>4, IdleHolds
    <2> QED
      BY <2>2, <2>3
  <1> QED
    BY <1>2, <1>3, <1>4, <1>5, <1>6 DEF Safe

\* The registry frees the GPU of an attempt that has gone, or of one that the launch of
\* a former one described as its own before its backend died.
LEMMA RegistrySafe ==
    ASSUME Inv, Registry
    PROVE  Safe
  <1>1. UNCHANGED <<host, rec, mode, named, lock, op, faults, early>> /\ (OwnerUp' <=> OwnerUp)
    BY DEF Registry, OwnerUp
  <1>2. HostTyped' /\ WorkerSound' /\ HostKept
    BY <1>1, StillHost
  <1>3. RecTyped' /\ RecSound'
    BY <1>1, <1>2, RecSafe DEF SavesKnown
  <1>4. OpTyped' /\ LockTyped' /\ Alone' /\ CallSound'
    BY <1>1, <1>2, CallsKept
  <1>5. Booked'
    <2> SUFFICES ASSUME OnGpu
                 PROVE  Pended' /\ Described' /\ (stale' => ~OwnerUp')
                        /\ \A c \in Caller : Has(op[c])'
      BY <1>1 DEF Booked, OnGpu
    <2>1. Pended /\ Described /\ (stale => ~OwnerUp) /\ \A c \in Caller : Has(op[c])
      BY InvParts DEF Booked
    <2>2. stale' => ~OwnerUp'
      BY <1>1, <2>1 DEF Registry
    <2>3. CASE UNCHANGED booking
      <3>1. Pended' /\ Described'
        BY <1>1, <1>2, <2>1, <2>3 DEF Pended, Described, HostKept, Misdescribed
      <3>2. \A c \in Caller : Has(op[c])'
        BY <1>1, <2>1, <2>3 DEF Has
      <3> QED
        BY <2>2, <3>1, <3>2
    <2>4. CASE booking' \notin Attempt /\ booking \notin Attempt
      <3>1. \A a \in Attempt : Pending(a) => Misdescribed
        BY <2>1, <2>4 DEF Pended
      <3>2. Pended' /\ Described'
        BY <1>1, <1>2, <2>4, <3>1 DEF Pended, Described, HostKept, Misdescribed
      <3>3. ASSUME NEW c \in Caller PROVE Has(op[c])'
        <4>1. op[c].pc # "idle" => op[c].write.att \in Attempt
          BY CallKnown
        <4>2. Has(op[c])
          BY <2>1
        <4>3. /\ op[c].pc \notin {"probe", "register", "send"}
              /\ op[c].pc \in {"sent", "describe"} => op[c].action = "launch" /\ early
          BY <2>4, <4>1, <4>2 DEF Has
        <4> QED
          BY <1>1, <4>3 DEF Has
      <3> QED
        BY <2>2, <3>2, <3>3
    <2>5. CASE booking \in Attempt /\ booking' = Free /\ stale /\ Gone(named)
      <3>1. ~OwnerUp /\ (named = booking \/ Misdescribed)
        BY <2>1, <2>5 DEF Described, Misdescribed
      <3>2. \A a \in Attempt : Pending(a) => Misdescribed
        BY <2>1, <2>5, <3>1 DEF Pended, Pending
      <3>3. Pended' /\ Described'
        BY <1>1, <1>2, <2>5, <3>2, AttemptFacts DEF Pended, Described, HostKept, Misdescribed
      <3>4. ASSUME NEW c \in Caller PROVE Has(op[c])'
        <4>1. Holds(op[c])
          BY InvParts DEF CallSound
        <4>2. op[c].pc \in {"idle", "save"}
          BY <3>1, <4>1 DEF Holds
        <4> QED
          BY <1>1, <4>2 DEF Has
      <3> QED
        BY <2>2, <3>3, <3>4
    <2> QED
      BY <2>3, <2>4, <2>5, AttemptFacts DEF Registry, Gone
  <1> QED
    BY <1>2, <1>3, <1>4, <1>5 DEF Safe

-----------------------------------------------------------------------------
(* Every step.                                                              *)

\* The steps of the hosts, and those of the backend and the registry.
HostStep == \E a \in Attempt : \/ Deliver(a) \/ WriteReceipt(a) \/ Supervise(a)
                               \/ SuperviseFails(a) \/ Killed(a) \/ NamespaceStep(a)

LEMMA HostStepMoves ==
    ASSUME Inv, HostStep
    PROVE  UNCHANGED Backend /\ (OwnerUp' <=> OwnerUp) /\ \E a \in Attempt : OnHost(a)
  <1>1. PICK a \in Attempt : \/ Deliver(a) \/ WriteReceipt(a) \/ Supervise(a)
                             \/ SuperviseFails(a) \/ Killed(a) \/ NamespaceStep(a)
    BY DEF HostStep
  <1>2. UNCHANGED Backend
    BY <1>1 DEF Deliver, WriteReceipt, Supervise, SuperviseFails, Killed, NamespaceStep
  <1>3. OnHost(a)
    BY <1>1, InvParts, DeliverMoves, ReceiptMoves, SuperviseMoves, FailsMoves, NamespaceMoves
  <1>4. UNCHANGED faults \/ Fault("build") \/ Fault("linger") \/ Fault("kill")
    BY <1>1 DEF Deliver, WriteReceipt, Supervise, SuperviseFails, Killed, NamespaceStep
  <1>5. OwnerUp' <=> OwnerUp
    BY <1>4, FaultUp DEF OwnerUp
  <1> QED
    BY <1>2, <1>3, <1>5

LEMMA NextSafe ==
    ASSUME Inv, Next
    PROVE  Safe
  <1>1. ASSUME NEW c \in Caller, CallStep(c) PROVE Safe
    BY <1>1, SaveSeenSafe, ReleaseSafe, RemoveSafe, SaveReleasedSafe, ActSafe, StopSafe,
       SaveStoppingSafe, ReserveSafe, ProbeSafe, RegisterSafe, SendSafe, ReplySafe,
       DescribeSafe, SaveLaunchedSafe DEF CallStep
  <1>2. ASSUME NEW c \in Caller, Submit(c) \/ CallFails(c) PROVE Safe
    BY <1>2, SubmitSafe, CallFailsSafe
  <1>3. ASSUME NEW c \in Caller, NEW action \in {"status", "stop", "finish", "retry"},
               Manage(c, action)
        PROVE  Safe
    BY <1>3, ManageSafe
  <1>4. ASSUME HostStep PROVE Safe
    BY <1>4, HostStepMoves, HostSafe
  <1>5. ASSUME OwnerDies \/ Registry PROVE Safe
    BY <1>5, OwnerDiesSafe, RegistrySafe
  <1> QED
    BY <1>1, <1>2, <1>3, <1>4, <1>5 DEF Next, HostStep

\* The booking and the faults keep their types.
TimesTyped == LeaseTyped /\ faults \subseteq Faults

LEMMA FaultTyped ==
    ASSUME TimesTyped, NEW kind, Fault(kind)
    PROVE  faults' \subseteq Faults
  BY DEF TimesTyped, Fault

LEMMA CallTimes ==
    ASSUME Inv, NEW c \in Caller, CallStep(c) \/ Submit(c) \/ CallFails(c)
    PROVE  TimesTyped'
  <1>1. TimesTyped
    BY TypeParts DEF Inv, TimesTyped
  <1>2. op[c].pc # "idle" => op[c].write.att \in Attempt /\ op[c].write.att \in Free..Foreign
    BY CallKnown, AttemptFacts
  <1>3. ASSUME UNCHANGED <<lease, early>>, UNCHANGED faults \/ Fault("error") \/ Fault("release")
        PROVE  TimesTyped'
    BY <1>1, <1>3, FaultTyped DEF TimesTyped, LeaseTyped, lease
  <1>4. CASE SaveSeen(c) \/ SaveReleased(c) \/ Act(c) \/ Stop(c) \/ SaveStopping(c) \/ Send(c)
             \/ SaveLaunched(c) \/ Submit(c)
    BY <1>3, <1>4 DEF SaveSeen, SaveReleased, Act, Stop, SaveStopping, Send, SaveLaunched, Submit
  <1>5. CASE CallFails(c)
    BY <1>3, <1>5 DEF CallFails
  <1>6. CASE Release(c)
    BY <1>1, <1>6 DEF Release, TimesTyped, LeaseTyped, Launching
  <1>7. CASE Remove(c)
    BY <1>1, <1>7, FaultTyped, AttemptFacts DEF Remove, TimesTyped, LeaseTyped
  <1>8. CASE Reserve(c)
    BY <1>1, <1>2, <1>8 DEF Reserve, At, TimesTyped, LeaseTyped
  <1>9. CASE Probe(c)
    BY <1>1, <1>9, AttemptFacts DEF Probe, TimesTyped, LeaseTyped
  <1>10. CASE Register(c)
    BY <1>1, <1>10, FaultTyped, AttemptFacts DEF Register, TimesTyped, LeaseTyped
  <1>11. CASE Reply(c)
    BY <1>1, <1>11 DEF Reply, Answered, TimesTyped, LeaseTyped
  <1>12. CASE Describe(c)
    BY <1>1, <1>2, <1>12 DEF Describe, At, TimesTyped, LeaseTyped
  <1> QED
    BY <1>4, <1>5, <1>6, <1>7, <1>8, <1>9, <1>10, <1>11, <1>12 DEF CallStep

LEMMA NextTimes ==
    ASSUME Inv, Next
    PROVE  TimesTyped'
  <1>1. TimesTyped
    BY TypeParts DEF Inv, TimesTyped
  <1>2. ASSUME NEW c \in Caller, NEW action \in {"status", "stop", "finish", "retry"},
               Manage(c, action)
        PROVE  TimesTyped'
    BY <1>1, <1>2 DEF Manage, TimesTyped, LeaseTyped, lease
  <1>3. ASSUME NEW a \in Attempt, Deliver(a) \/ WriteReceipt(a) \/ Supervise(a)
               \/ SuperviseFails(a) \/ Killed(a) \/ NamespaceStep(a)
        PROVE  TimesTyped'
    <2>1. UNCHANGED <<lease, early>>
      BY <1>3 DEF Deliver, WriteReceipt, Supervise, SuperviseFails, Killed, NamespaceStep, Backend
    <2>2. faults' \subseteq Faults
      BY <1>1, <1>3, FaultTyped
      DEF Deliver, WriteReceipt, Supervise, SuperviseFails, Killed, NamespaceStep, TimesTyped
    <2> QED
      BY <1>1, <2>1, <2>2 DEF TimesTyped, LeaseTyped, lease
  <1>4. CASE OwnerDies
    BY <1>1, <1>4, FaultTyped DEF OwnerDies, TimesTyped, LeaseTyped
  <1>5. CASE Registry
    BY <1>1, <1>5, AttemptFacts DEF Registry, TimesTyped, LeaseTyped
  <1> QED
    BY <1>2, <1>3, <1>4, <1>5, CallTimes DEF Next

-----------------------------------------------------------------------------
(* The invariant, and what follows from it.                                 *)

LEMMA InvInit == BuildInit => Inv
  <1> SUFFICES ASSUME BuildInit PROVE Inv
    OBVIOUS
  <1>1. /\ worker = [a \in Attempt |-> NoWorker] /\ request = [a \in Attempt |-> "none"]
        /\ rec = NoRecord /\ mode \in {"cpu_only", "gpu_assisted"} /\ booking = Free
        /\ named = 0 /\ early = FALSE /\ stale = FALSE /\ beating = FALSE /\ lock = NoCaller /\ faults = {}
        /\ op = [c \in Caller |-> Idle]
    BY DEF BuildInit
  <1>2. HostTyped /\ WorkerSound
    BY <1>1, NothingRuns DEF HostTyped, WorkerSound
  <1>3. RecTyped /\ LeaseTyped /\ OpTyped /\ LockTyped /\ faults \subseteq Faults
    BY <1>1, NullTypes, AttemptFacts DEF RecTyped, LeaseTyped, OpTyped, LockTyped
  <1>4. RecSound
    BY <1>1, NullTypes DEF RecSound, Pending
  <1>5. Alone /\ CallSound
    BY <1>1, NullTypes, IdleHolds, BuildJobsAssumption DEF Alone, CallSound
  <1>6. Booked
    BY <1>1, IdleHolds, AttemptFacts DEF Booked, Pended, Described, Pending
  <1> QED
    BY <1>2, <1>3, <1>4, <1>5, <1>6, TypeParts DEF Inv

LEMMA InvStutters ==
    ASSUME Inv, UNCHANGED builds
    PROVE  Inv' /\ HostKept
  <1>1. /\ UNCHANGED <<worker, request, rec, mode, booking, named, stale, beating, lock, op>>
        /\ UNCHANGED <<faults, early>> /\ (OwnerUp' <=> OwnerUp)
    BY DEF builds, OwnerUp
  <1>2. HostTyped' /\ WorkerSound' /\ HostKept
    BY <1>1, InvParts, HostStill
  <1>3. RecTyped' /\ RecSound'
    BY <1>1, <1>2, RecSafe DEF SavesKnown
  <1>4. OpTyped' /\ LockTyped' /\ Alone' /\ CallSound'
    BY <1>1, <1>2, CallsKept
  <1>5. Booked'
    <2>1. /\ {} \in SUBSET Caller /\ \A d \in Caller \ {} : op'[d] = op[d]
          /\ OnGpu => \A d \in {} : Has(op[d])'
      BY <1>1
    <2> QED
      BY <1>1, <1>2, <2>1, BookedKept
  <1>6. TypeOK'
    BY <1>1 DEF Inv, TypeOK
  <1> QED
    BY <1>2, <1>3, <1>4, <1>5, <1>6 DEF Inv

LEMMA InvNext == Inv /\ [Next]_builds => Inv'
  <1>1. ASSUME Inv, Next PROVE Inv'
    <2>1. Safe
      BY <1>1, NextSafe
    <2>2. TimesTyped'
      BY <1>1, NextTimes
    <2>3. TypeOK'
      BY <2>1, <2>2 DEF Safe, TypeOK, HostTyped, RecTyped, OpTyped, LockTyped, TimesTyped,
                        LeaseTyped
    <2> QED
      BY <2>1, <2>3 DEF Safe, Inv
  <1> QED
    BY <1>1, InvStutters

\* The invariant holds in every reachable state.
THEOREM Invariance == Spec => []Inv
  BY InvInit, InvNext, PTL DEF Spec

\* Every variable always has its type.
THEOREM TypesHold == Spec => []TypeOK
  <1>1. Inv => TypeOK
    BY DEF Inv
  <1> QED
    BY <1>1, Invariance, PTL

\* The attempt that is on its way to the host, supervised, or running code there is the
\* one that the record names, however calls, lost replies and faults interleave.
THEOREM OneAttemptAtATime == Spec => []OneAttemptRuns
  <1>1. Inv => OneAttemptRuns
    <2> SUFFICES ASSUME Inv, NEW a \in Attempt,
                        request[a] = "inflight" \/ SupervisorUp(a) \/ worker[a].ns = "released"
                 PROVE  rec.att = a
      BY DEF OneAttemptRuns
    <2>1. ~Gone(a)
      BY InvParts, GoneMeans, NothingRuns DEF WorkerSound, SoundWorker, GoneWorker, SupervisorUp
    <2>2. request[a] \in {"inflight", "arrived"}
      BY InvParts, NothingRuns DEF WorkerSound, SupervisorUp
    <2> QED
      BY <2>1, <2>2, InvParts DEF RecSound, Pending
  <1> QED
    BY <1>1, Invariance, PTL

\* From its launch command until it is proven gone, a GPU-assisted attempt has its GPU
\* booked, unless a call released the GPU while the launch of the job had not returned and
\* the backend has died since.
THEOREM BookedWhilePending == Spec => []BookedUntilGone
  <1>1. Inv => BookedUntilGone
    BY InvParts DEF Booked, Pended, BookedUntilGone, Pending, Gone
  <1> QED
    BY <1>1, Invariance, PTL

-----------------------------------------------------------------------------
(* Each attempt is a group of HostGroup.                                    *)

\* No step brings an attempt back that has gone, or changes its outcome.
LEMMA GoneStays ==
    ASSUME Inv, [Next]_builds, NEW a \in Attempt, Gone(a)
    PROVE  Gone(a)' /\ worker'[a].outcome = worker[a].outcome
  <1>1. ASSUME UNCHANGED worker PROVE Gone(a)' /\ worker'[a].outcome = worker[a].outcome
    BY <1>1, GoneMeans, GoneMeansNext
  <1>2. ASSUME HostStep PROVE Gone(a)' /\ worker'[a].outcome = worker[a].outcome
    BY <1>2, HostStepMoves, HostSafe DEF HostKept
  <1>3. ASSUME NEW c \in Caller, Stop(c)
        PROVE  Gone(a)' /\ worker'[a].outcome = worker[a].outcome
    <2> DEFINE b == op[c].write.att
    <2>1. op[c].pc = "stop" /\ Become(b, StopSignal(b)) /\ UNCHANGED request
      BY <1>3 DEF Stop, At
    <2>2. b \in Attempt
      BY <2>1, InHand DEF Judging
    <2>3. OnHost(b) \/ UNCHANGED <<worker, request>>
      BY <2>1, <2>2, InvParts, SignalMoves
    <2>4. HostKept
      BY <2>2, <2>3, InvParts, HostMoves, HostStill
    <2> QED
      BY <2>4 DEF HostKept
  <1>4. CASE \E c \in Caller : \/ CallStep(c) /\ ~Stop(c)
                               \/ Submit(c) \/ CallFails(c)
    <2>1. UNCHANGED worker
      BY <1>4 DEF CallStep, SaveSeen, Release, Remove, SaveReleased, Act, SaveStopping,
                  Reserve, Probe, Register, Send, Reply, Describe, SaveLaunched, Submit,
                  CallFails, host
    <2> QED
      BY <1>1, <2>1
  <1>5. CASE \E c \in Caller, action \in {"status", "stop", "finish", "retry"} : Manage(c, action)
    BY <1>1, <1>5 DEF Manage, host
  <1>6. CASE OwnerDies \/ Registry
    BY <1>1, <1>6 DEF OwnerDies, Registry, host
  <1>7. CASE UNCHANGED builds
    BY <1>1, <1>7 DEF builds
  <1> QED
    BY <1>2, <1>3, <1>4, <1>5, <1>6, <1>7 DEF Next, HostStep, CallStep

\* What of a worker its group shows.
LEMMA GroupFacts ==
    ASSUME Inv, NEW a \in Attempt
    PROVE  /\ Inspected(a) \in {"unknown", "alive", "gone"}
           /\ Inspected(a) = "gone" => worker[a].ns # "released"
           /\ worker[a].outcome \in {"none", "success", "failure"}
  <1>1. Inspected(a) \in {"unknown", "alive", "gone"}
    BY DEF Inspected
  <1>2. worker[a] \in Worker
    BY InvParts DEF HostTyped
  <1>3. worker[a].ns = "released" => worker[a].file = "running"
    BY InvParts, NothingRuns DEF WorkerSound, SoundWorker
  <1>4. Gone(a) => worker[a].ns # "released"
    BY <1>3, GoneMeans DEF GoneWorker
  <1> QED
    BY <1>1, <1>2, <1>4 DEF Gone, Worker

LEMMA GroupFactsNext ==
    ASSUME Inv', NEW a \in Attempt
    PROVE  /\ Inspected(a)' \in {"unknown", "alive", "gone"}
           /\ Inspected(a)' = "gone" => worker'[a].ns # "released"
           /\ worker'[a].outcome \in {"none", "success", "failure"}
  <1>1. Inspected(a)' \in {"unknown", "alive", "gone"}
    BY DEF Inspected
  <1>2. worker'[a] \in Worker
    BY DEF Inv, TypeOK
  <1>3. worker'[a].ns = "released" => worker'[a].file = "running"
    BY NothingRuns DEF Inv, WorkerSound, SoundWorker
  <1>4. Gone(a)' => worker'[a].ns # "released"
    BY <1>3, GoneMeansNext DEF GoneWorker
  <1> QED
    BY <1>1, <1>2, <1>4 DEF Gone, Worker

LEMMA GroupStarts ==
    ASSUME BuildInit, NEW a \in Attempt
    PROVE  Group(a)!GroupInit
  BY DEF BuildInit, Group!GroupInit, Inspected, NoWorker

LEMMA GroupStep ==
    ASSUME Inv, [Next]_builds, NEW a \in Attempt
    PROVE  [Group(a)!GroupNext]_(Group(a)!group)
  <1>1. /\ Inspected(a) \in {"unknown", "alive", "gone"}
        /\ Inspected(a) = "gone" => worker[a].ns # "released"
    BY GroupFacts
  <1>2. /\ Inspected(a)' \in {"unknown", "alive", "gone"}
        /\ Inspected(a)' = "gone" => worker'[a].ns # "released"
        /\ worker'[a].outcome \in {"none", "success", "failure"}
    BY InvNext, GroupFactsNext
  <1>3. Inspected(a) = "gone" => Inspected(a)' = "gone" /\ worker'[a].outcome = worker[a].outcome
    BY GoneStays DEF Gone
  <1>4. CASE Inspected(a) = "gone"
    BY <1>1, <1>2, <1>3, <1>4 DEF Group!group
  <1>5. CASE Inspected(a) # "gone" /\ Inspected(a)' # "gone"
    <2>1. Group(a)!Work
      BY <1>2, <1>5 DEF Group!Work
    <2> QED
      BY <2>1 DEF Group!GroupNext
  <1>6. CASE Inspected(a) # "gone" /\ Inspected(a)' = "gone"
    <2>1. Group(a)!Vanish
      BY <1>2, <1>6 DEF Group!Vanish
    <2> QED
      BY <2>1 DEF Group!GroupNext
  <1> QED
    BY <1>4, <1>5, <1>6

\* Every attempt is a group of HostGroup: an inspection that answers gone is final,
\* and no code of the build runs from then on.
THEOREM EveryAttemptIsAGroup == Spec => GroupSpec
  <1>1. BuildInit => \A a \in Attempt : Group(a)!GroupInit
    BY GroupStarts
  <1>2. Inv /\ [Next]_builds => [\A a \in Attempt : [Group(a)!GroupNext]_(Group(a)!group)]_builds
    BY GroupStep
  <1> QED
    BY <1>1, <1>2, Invariance, PTL DEF Spec, GroupSpec
=============================================================================
