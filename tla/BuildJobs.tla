------------------------------- MODULE BuildJobs -------------------------------
(***************************************************************************)
(* Artifact builds: the build manager of the backend, with the job record, *)
(* the per-job control lock, the booking of the GPU and its heartbeat; and *)
(* the build worker on the execution host, a supervisor that runs the      *)
(* recipe in a bubblewrap namespace and leaves an outcome behind.          *)
(*                                                                         *)
(* One job, managed by concurrent calls, with its attempts one after the   *)
(* other. Calls that manage it take its lock, the launch of a new job does *)
(* not: the job can be managed from the moment it is registered. The       *)
(* backend may die, and another one then only observes. A supervisor may   *)
(* be killed or asked to terminate at any step; the kernel takes           *)
(* bubblewrap with it, and the namespace with bubblewrap, in their own     *)
(* time. An inspection reads the worker's files and the process table in   *)
(* one step.                                                               *)
(***************************************************************************)
EXTENDS Naturals, FiniteSets

CONSTANTS
    Caller,        \* threads that manage the job: tool calls and the monitor
    NoCaller,
    MaxAttempts,   \* bound: attempts of the job
    Faults,        \* what may go wrong, each kind once:
                   \*   error   a call ends with an exception between two steps
                   \*   release a reservation is not removed, or its removal
                   \*           not recorded
                   \*   crash   the backend dies
                   \*   build   the supervisor raises an exception
                   \*   linger  the namespace outlives the wait for its end
                   \*   kill    the supervisor is killed
    MaxFaults      \* bound: kinds of fault in one behaviour

FaultKind == {"error", "release", "crash", "build", "linger", "kill"}

ASSUME BuildJobsAssumption ==
    /\ NoCaller \notin Caller /\ MaxAttempts \in Nat \ {0}
    /\ Faults \subseteq FaultKind /\ MaxFaults \in Nat

VARIABLES
    worker,    \* per attempt, the processes and files on the host
    request,   \* per attempt, the launch command on its way to the host
    rec,       \* the job record
    mode,      \* build_mode
    booking,   \* the attempt that has the GPU, Free or Foreign
    named,     \* the attempt whose processes the booking's metadata describes
    stale,     \* the booking's last heartbeat is too old
    beating,   \* the backend sends heartbeats for the GPU
    lock,      \* who holds the job's control lock
    op,        \* what each caller is doing
    faults,    \* the kinds of fault that have occurred
    early      \* history, which only the properties read: the GPU was released
               \* while the launch of the job had not returned

lease == <<booking, named, stale, beating>>
host == <<worker, request>>
builds == <<worker, request, rec, mode, booking, named, stale, beating, lock, op, faults, early>>

-----------------------------------------------------------------------------

Attempt == 1..MaxAttempts
Free == 0
Foreign == MaxAttempts + 1

\* The supervisor: none until Popen, boot before it has saved anything, ready
\* once it handles SIGTERM, spawned once bubblewrap runs, waiting once the build
\* is released; draining and failing before outcome.json, concluded after it.
Stage == {"none", "boot", "starting", "ready", "spawned", "running", "waiting",
          "draining", "failing", "concluded", "dead"}
Worker == [sup: Stage, file: {"none", "receipt", "starting", "running"}, bwrap: BOOLEAN, ns: {"none", "blocked", "released"}, stop: BOOLEAN,
           outcome: {"none", "success", "failure"}]
NoWorker == [sup |-> "none", file |-> "none", bwrap |-> FALSE,
             ns |-> "none", stop |-> FALSE, outcome |-> "none"]

Record == [att: Attempt \cup {0}, active: BOOLEAN, outcome: {"none", "success", "failure"},
           state: {"none", "launching", "running", "launch_unknown", "gone_unknown",
                   "success", "failure", "stopping", "finished"}]
NoRecord == [att |-> 0, active |-> FALSE, outcome |-> "none", state |-> "none"]

Pc == {"idle", "save", "release", "remove", "released", "act", "stop",
       "stopped", "reserve", "probe", "register", "send", "sent", "describe", "launched"}
Operation == [pc: Pc, action: {"launch", "status", "stop", "finish", "retry"},
              write: Record, seen: {"unknown", "alive", "gone"}]
Idle == [pc |-> "idle", action |-> "status", write |-> NoRecord, seen |-> "unknown"]

TypeOK ==
    /\ worker \in [Attempt -> Worker]
    /\ request \in [Attempt -> {"none", "inflight", "arrived", "lost"}]
    /\ rec \in Record /\ mode \in {"cpu_only", "gpu_assisted"}
    /\ booking \in Free..Foreign /\ named \in Attempt \cup {0}
    /\ stale \in BOOLEAN /\ beating \in BOOLEAN
    /\ lock \in Caller \cup {NoCaller} /\ op \in [Caller -> Operation]
    /\ faults \subseteq Faults /\ early \in BOOLEAN

BuildInit ==
    /\ worker = [a \in Attempt |-> NoWorker] /\ request = [a \in Attempt |-> "none"]
    /\ rec = NoRecord /\ mode \in {"cpu_only", "gpu_assisted"}
    /\ booking = Free /\ named = 0 /\ stale = FALSE /\ beating = FALSE
    /\ lock = NoCaller /\ op = [c \in Caller |-> Idle] /\ faults = {} /\ early = FALSE

Fault(kind) ==
    /\ kind \in Faults \ faults /\ Cardinality(faults) < MaxFaults
    /\ faults' = faults \cup {kind}
OwnerUp == "crash" \notin faults
OnGpu == mode = "gpu_assisted"
SupervisorUp(a) == worker[a].sup \notin {"none", "dead"}

-----------------------------------------------------------------------------
(* The inspection of an attempt.                                            *)

\* Mutant: only the supervisor is asked for.
SupervisorOnly(a) == SupervisorUp(a)

\* The supervisor, and the processes whose identity the saved state has.
AnyAlive(a) ==
    \/ SupervisorUp(a)
    \/ worker[a].file = "running" /\ (worker[a].bwrap \/ worker[a].ns # "none")

Inspected(a) ==
    IF worker[a].file = "none" THEN "unknown"
    ELSE IF AnyAlive(a) THEN "alive" ELSE "gone"

-----------------------------------------------------------------------------
(* The build worker.                                                        *)

Become(a, new) == worker' = [worker EXCEPT ![a] = new]
Backend == <<rec, mode, lease, lock, op, early>>

\* rpc launch: the supervisor is started, late perhaps, or not at all when the
\* command is lost or refused.
Deliver(a) ==
    /\ request[a] = "inflight"
    /\ \/ /\ request' = [request EXCEPT ![a] = "arrived"]
          /\ Become(a, [worker[a] EXCEPT !.sup = "boot"])
       \/ request' = [request EXCEPT ![a] = "lost"] /\ UNCHANGED worker
    /\ UNCHANGED <<Backend, faults>>

WriteReceipt(a) ==
    /\ request[a] = "arrived" /\ worker[a].file = "none"
    /\ Become(a, [worker[a] EXCEPT !.file = "receipt"])
    /\ UNCHANGED <<request, Backend, faults>>

\* supervise, from one visible effect to the next.
Supervise(a) ==
    /\ LET w == worker[a]
       IN \/ w.sup = "boot" /\ Become(a, [w EXCEPT !.sup = "starting", !.file = "starting"])
          \/ w.sup = "starting" /\ Become(a, [w EXCEPT !.sup = "ready"])
          \/ w.sup = "ready" /\ Become(a, [w EXCEPT !.sup = "spawned", !.bwrap = TRUE, !.ns = "blocked"])
          \* The identities are saved before the build is let go.
          \/ w.sup = "spawned" /\ Become(a, [w EXCEPT !.sup = "running", !.file = "running"])
          \/ w.sup = "running" /\ Become(a, [w EXCEPT !.sup = "waiting",
                                           !.ns = IF w.bwrap THEN "released" ELSE w.ns])
          \/ w.sup = "waiting" /\ ~w.bwrap /\ Become(a, [w EXCEPT !.sup = "draining"])
          \* outcome.json: exit code zero, no stop, no error, and an artifact.
          \/ /\ w.sup = "failing" \/ (w.sup = "draining" /\ w.ns = "none")
             /\ \E outcome \in {"success", "failure"} :
                   /\ outcome = "success" => w.sup = "draining" /\ ~w.stop
                   /\ Become(a, [w EXCEPT !.sup = "concluded", !.outcome = outcome])
          \/ w.sup = "concluded" /\ Become(a, [w EXCEPT !.sup = "dead", !.stop = FALSE])
    /\ UNCHANGED <<request, Backend, faults>>

SuperviseFails(a) ==
    /\ \/ worker[a].sup \in {"ready", "spawned", "running"} /\ Fault("build")
       \/ worker[a].sup = "draining" /\ worker[a].ns # "none" /\ Fault("linger")
    /\ Become(a, [worker[a] EXCEPT !.sup = "failing", !.bwrap = FALSE])
    /\ UNCHANGED <<request, Backend>>

Killed(a) ==
    /\ SupervisorUp(a) /\ Fault("kill") /\ Become(a, [worker[a] EXCEPT !.sup = "dead", !.stop = FALSE])
    /\ UNCHANGED <<request, Backend>>

\* The build returns, and bubblewrap after it; bubblewrap dies with its parent,
\* and the namespace with bubblewrap.
NamespaceStep(a) ==
    /\ LET w == worker[a]
       IN \/ /\ w.ns = "released" \/ (w.ns = "blocked" /\ ~w.bwrap)
             /\ Become(a, [w EXCEPT !.ns = "none"])
          \/ w.bwrap /\ (w.ns = "none" \/ w.sup = "dead") /\ Become(a, [w EXCEPT !.bwrap = FALSE])
    /\ UNCHANGED <<request, Backend, faults>>

\* SIGTERM: before the handler is installed it kills, before bubblewrap runs it
\* is only remembered, and then it takes bubblewrap down.
Terminated(w) ==
    IF w.sup \in {"boot", "starting"} THEN [w EXCEPT !.sup = "dead"]
    ELSE [w EXCEPT !.stop = TRUE, !.bwrap = FALSE]

\* rpc stop: the supervisor, or the namespace whose supervisor is lost.
StopSignal(a) ==
    CASE SupervisorUp(a) -> Terminated(worker[a])
      [] ~SupervisorUp(a) /\ worker[a].file = "running" -> [worker[a] EXCEPT !.ns = "none"]
      [] OTHER -> worker[a]

-----------------------------------------------------------------------------
(* The build manager.                                                       *)

At(c, pc) == OwnerUp /\ op[c].pc = pc
Continue(c, pc, write) ==
    op' = [op EXCEPT ![c] = [@ EXCEPT !.pc = pc, !.write = write]] /\ UNCHANGED lock
End(c) == op' = [op EXCEPT ![c] = Idle] /\ lock' = IF lock = c THEN NoCaller ELSE lock

\* The launch of the job has not returned.
Launching == \E c \in Caller : op[c].action = "launch"

Submit(c) ==
    /\ At(c, "idle") /\ rec = NoRecord /\ ~Launching
    /\ op' = [op EXCEPT ![c] = [Idle EXCEPT !.pc = "reserve", !.action = "launch",
                        !.write = [NoRecord EXCEPT !.att = 1, !.state = "launching"]]]
    /\ UNCHANGED <<host, rec, mode, lease, lock, faults, early>>

\* Mutant: manage reads the record without its lock.
Unlocked(c) == op[c].pc = "idle"

\* The job's lock in the store, and the flock of control.lock under it.
Locked(c) == op[c].pc = "idle" /\ lock = NoCaller

\* Mutant: a status call of a job with a result has nothing to do.
ReadOnly(r) == FALSE

\* A result is saved, but its GPU is not yet released.
ReleaseLeft(r) == r.active

\* Mutant: the state of the processes is saved as the outcome.
AnswerKept(r) == [r EXCEPT !.outcome = Inspected(r.att)]

\* What an inspection makes of the record.
Seen(r) ==
    LET answer == Inspected(r.att)
        outcome == worker[r.att].outcome
    IN CASE answer = "alive" -> [r EXCEPT !.state = "running"]
         [] answer = "unknown" -> [r EXCEPT !.state = "launch_unknown"]
         [] answer = "gone" /\ outcome = "none" -> [r EXCEPT !.state = "gone_unknown"]
         [] answer = "gone" /\ outcome # "none" ->
               [r EXCEPT !.state = outcome, !.outcome = outcome]

\* manage: with the lock, and the record read under it. A status call of a job
\* with a result needs no inspection.
Manage(c, action) ==
    /\ rec # NoRecord
    /\ Locked(c) /\ (action # "status" => OwnerUp)
    /\ LET call == [Idle EXCEPT !.action = action, !.write = rec]
       IN IF action = "status" /\ rec.outcome # "none"
          THEN /\ ReleaseLeft(rec) /\ OwnerUp
               /\ op' = [op EXCEPT ![c] = [call EXCEPT !.pc = "release"]]
          ELSE op' = [op EXCEPT ![c] = [call EXCEPT !.pc = "save", !.write = Seen(rec),
                                                    !.seen = Inspected(rec.att)]]
    /\ lock' = c
    /\ UNCHANGED <<host, rec, mode, lease, faults, early>>

\* A status call is done, another one goes on to what it was asked.
Proceed(c) ==
    IF op[c].action = "status" THEN End(c) ELSE Continue(c, "act", op[c].write)

SaveSeen(c) ==
    /\ op[c].pc = "save" /\ rec' = op[c].write
    /\ IF op[c].seen = "gone" /\ rec'.active /\ OwnerUp
       THEN Continue(c, "release", op[c].write)
       ELSE Proceed(c)
    /\ UNCHANGED <<host, mode, lease, faults, early>>

\* release: an exception unless this backend holds the booking and beats for
\* it. The heartbeat ends before the reservation is removed.
Release(c) ==
    /\ At(c, "release")
    /\ IF booking = op[c].write.att /\ beating
       THEN /\ beating' = FALSE /\ Continue(c, "remove", op[c].write)
            /\ early' = (early \/ Launching)
       ELSE End(c) /\ UNCHANGED <<beating, early>>
    /\ UNCHANGED <<host, rec, mode, booking, named, stale, faults>>

Remove(c) ==
    /\ At(c, "remove")
    /\ \/ /\ booking = op[c].write.att /\ booking' = Free
          /\ Continue(c, "released", [op[c].write EXCEPT !.active = FALSE])
          /\ UNCHANGED faults
       \/ End(c) /\ Fault("release") /\ UNCHANGED booking
    /\ UNCHANGED <<host, rec, mode, named, stale, beating, early>>

SaveReleased(c) ==
    /\ At(c, "released") /\ rec' = op[c].write /\ Proceed(c)
    /\ UNCHANGED <<host, mode, lease, faults, early>>

\* finish and retry need proof that the attempt has gone, a stop that it runs.
Act(c) ==
    /\ op[c].pc = "act"
    /\ LET o == op[c]
           retried == [NoRecord EXCEPT !.att = o.write.att + 1, !.state = "launching"]
       IN CASE o.action = "stop" /\ o.seen = "alive" -> Continue(c, "stop", o.write) /\ UNCHANGED rec
            [] o.action = "retry" /\ o.seen = "gone" /\ o.write.att < MaxAttempts ->
                  Continue(c, "reserve", retried) /\ UNCHANGED rec
            [] o.action = "finish" /\ o.seen = "gone" ->
                  End(c) /\ rec' = [o.write EXCEPT !.state = "finished"]
            [] OTHER -> End(c) /\ UNCHANGED rec
    /\ UNCHANGED <<host, mode, lease, faults, early>>

Stop(c) ==
    /\ At(c, "stop") /\ Become(op[c].write.att, StopSignal(op[c].write.att))
    /\ Continue(c, "stopped", [op[c].write EXCEPT !.state = "stopping"])
    /\ UNCHANGED <<request, rec, mode, lease, faults, early>>

SaveStopping(c) ==
    /\ At(c, "stopped") /\ rec' = op[c].write /\ End(c)
    /\ UNCHANGED <<host, mode, lease, faults, early>>

-----------------------------------------------------------------------------
(* launch, of a new job without its lock, of a retry with it.               *)

Reserve(c) ==
    /\ At(c, "reserve")
    /\ IF ~OnGpu
       THEN Continue(c, "register", op[c].write) /\ UNCHANGED <<booking, named, stale>>
       ELSE IF booking = Free
       THEN /\ booking' = op[c].write.att /\ named' = op[c].write.att /\ stale' = FALSE
            /\ Continue(c, "probe", op[c].write)
       ELSE End(c) /\ UNCHANGED <<booking, named, stale>>
    /\ UNCHANGED <<host, rec, mode, beating, faults, early>>

\* The GPU is looked at, and the heartbeat starts; or the booking is undone.
Probe(c) ==
    /\ At(c, "probe")
    /\ \/ /\ beating' = TRUE /\ UNCHANGED booking
          /\ Continue(c, "register", [op[c].write EXCEPT !.active = TRUE])
       \/ booking' = Free /\ End(c) /\ UNCHANGED beating
    /\ UNCHANGED <<host, rec, mode, named, stale, faults, early>>

\* The attempt is registered; when that fails, after it was saved perhaps, its
\* booking is undone and the record remains as it is.
Register(c) ==
    /\ At(c, "register")
    /\ \/ rec' = op[c].write /\ Continue(c, "send", op[c].write) /\ UNCHANGED <<booking, beating, faults>>
       \/ /\ Fault("error") /\ End(c) /\ beating' = FALSE
          /\ booking' = (IF OnGpu THEN Free ELSE booking)
          /\ rec' = op[c].write \/ UNCHANGED rec
    /\ UNCHANGED <<host, mode, named, stale, early>>

Send(c) ==
    /\ At(c, "send") /\ request' = [request EXCEPT ![op[c].write.att] = "inflight"]
    /\ Continue(c, "sent", op[c].write)
    /\ UNCHANGED <<worker, rec, mode, lease, faults, early>>

\* Mutant: a launch without a reply is undone.
UndoneWithoutReply(c) ==
    \/ /\ worker[op[c].write.att].file # "none" /\ UNCHANGED <<booking, beating>>
       /\ Continue(c, "launched", [op[c].write EXCEPT !.state = "running"])
    \/ booking' = Free /\ beating' = FALSE /\ End(c)

\* Without a reply the build may run or start later: everything is kept.
Answered(c) ==
    /\ \/ /\ worker[op[c].write.att].file # "none"
          /\ Continue(c, IF OnGpu THEN "describe" ELSE "launched",
                      [op[c].write EXCEPT !.state = "running"])
       \/ Continue(c, "launched", [op[c].write EXCEPT !.state = "launch_unknown"])
    /\ UNCHANGED <<booking, beating>>

Reply(c) ==
    /\ At(c, "sent") /\ Answered(c)
    /\ UNCHANGED <<host, rec, mode, named, stale, faults, early>>

\* update_owned_metadata, without an expected identity: any booking of the GPU that
\* this backend holds and beats for is described as the launch's. Else the launch
\* ends with an exception.
Describe(c) ==
    /\ At(c, "describe")
    /\ IF beating /\ booking \in Attempt
       THEN named' = op[c].write.att /\ Continue(c, "launched", op[c].write)
       ELSE End(c) /\ UNCHANGED named
    /\ UNCHANGED <<host, rec, mode, booking, stale, beating, faults, early>>

\* The launch saves its own copy, whatever was saved meanwhile; the store only
\* refuses a copy that names another attempt than the record.
SaveLaunched(c) ==
    /\ At(c, "launched") /\ lock \in {c, NoCaller}
    /\ rec' = (IF rec.att = op[c].write.att THEN op[c].write ELSE rec)
    /\ End(c)
    /\ UNCHANGED <<host, mode, lease, faults, early>>

\* An exception ends a call between two steps.
CallFails(c) ==
    /\ \/ /\ op[c].pc \in {"save", "act", "release", "stop", "stopped", "describe", "launched"}
          /\ Fault("error")
       \/ op[c].pc = "released" /\ Fault("release")
    /\ End(c)
    /\ UNCHANGED <<host, rec, mode, lease, early>>

OwnerDies ==
    /\ rec # NoRecord /\ Fault("crash") /\ beating' = FALSE
    /\ op' = [c \in Caller |-> Idle] /\ lock' = NoCaller
    /\ UNCHANGED <<host, rec, mode, booking, named, stale, early>>

\* A booking without heartbeats grows stale; a backend that looks for a GPU
\* quarantines it if the attempt that its metadata describes has gone. Other
\* backends use free GPUs.
Registry ==
    /\ \/ booking \in Attempt /\ ~beating /\ ~OwnerUp /\ ~stale /\ stale' = TRUE /\ UNCHANGED booking
       \/ booking \in Attempt /\ stale /\ Inspected(named) = "gone" /\ booking' = Free /\ UNCHANGED stale
       \/ OnGpu /\ booking = Free /\ booking' = Foreign /\ UNCHANGED stale
       \/ booking = Foreign /\ booking' = Free /\ UNCHANGED stale
    /\ UNCHANGED <<host, rec, mode, named, beating, lock, op, faults, early>>

-----------------------------------------------------------------------------

CallStep(c) ==
    \/ SaveSeen(c) \/ Release(c) \/ Remove(c) \/ SaveReleased(c) \/ Act(c)
    \/ Stop(c) \/ SaveStopping(c) \/ Reserve(c) \/ Probe(c) \/ Register(c) \/ Send(c)
    \/ Reply(c) \/ Describe(c) \/ SaveLaunched(c)

Next ==
    \/ \E c \in Caller : Submit(c) \/ CallStep(c) \/ CallFails(c)
    \/ \E c \in Caller, action \in {"status", "stop", "finish", "retry"} : Manage(c, action)
    \/ \E a \in Attempt : \/ Deliver(a) \/ WriteReceipt(a) \/ Supervise(a)
                          \/ SuperviseFails(a) \/ Killed(a) \/ NamespaceStep(a)
    \/ OwnerDies \/ Registry

Spec == BuildInit /\ [][Next]_builds

\* The monitor keeps asking for the status and gets the lock in turn, and a call
\* goes on; nothing obliges a build to end.
FairSpec ==
    /\ Spec /\ \A c \in Caller : WF_builds(CallStep(c))
    /\ SF_builds(\E c \in Caller : Manage(c, "status"))

-----------------------------------------------------------------------------
(* Properties.                                                              *)

\* Each attempt is a group as HostGroup has it: an inspection answers gone only
\* when no code of the build runs or will run, whichever of the supervisor,
\* bubblewrap and the namespace died first, and its result then stays.
Group(a) == INSTANCE HostGroup WITH
    answer <- Inspected(a),
    result <- IF Inspected(a) = "gone" THEN worker[a].outcome ELSE "none",
    busy <- worker[a].ns = "released"
GroupSpec ==
    /\ \A a \in Attempt : Group(a)!GroupInit
    /\ [][\A a \in Attempt : [Group(a)!GroupNext]_(Group(a)!group)]_builds

\* Simultaneous calls cannot fork or forget work: an attempt that is on its way
\* to the host, supervised, or running code there is the one the record names.
OneAttemptRuns ==
    \A a \in Attempt :
        request[a] = "inflight" \/ SupervisorUp(a) \/ worker[a].ns = "released" => rec.att = a

\* The launch of a former attempt may have described the booking as its own, and
\* the backend that would have looked after it has died.
Misdescribed == early /\ ~OwnerUp

\* A GPU-assisted attempt has its GPU booked from the launch command until it
\* is proven gone, through lost replies, late starts and failed calls.
BookedUntilGone ==
    \A a \in Attempt :
        OnGpu /\ request[a] \in {"inflight", "arrived"} /\ Inspected(a) # "gone" =>
            booking = a \/ Misdescribed

\* The result of an attempt is saved and its GPU given back, although the launch may
\* save an older copy afterwards, unless the backend dies or a release is cut short.
\* The record says so, unless that copy was older than the release.
ResultDelivered ==
    \A a \in Attempt :
        (rec.att = a /\ Inspected(a) = "gone" /\ worker[a].outcome # "none") ~>
            \/ rec.att # a
            \/ rec.outcome = worker[a].outcome /\ booking # a /\ (~rec.active \/ early)
            \/ faults \cap {"crash", "release"} # {}
=============================================================================
