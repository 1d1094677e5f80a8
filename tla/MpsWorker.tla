------------------------------- MODULE MpsWorker -------------------------------
(***************************************************************************)
(* One MPS sweep on its GPU host: the supervisor that owns a private MPS   *)
(* service and runs a bounded number of cases, the case processes, the     *)
(* request queue through which the backend controls them, and the          *)
(* inspection that decides whether the whole group is gone.                *)
(*                                                                         *)
(* The supervisor may be killed between any two of its steps, so what it   *)
(* knows (mem) is kept apart from what state.json holds (disk). One action *)
(* is what the supervisor does up to its next save, its next look at       *)
(* another process, or its next effect on one. An inspection reads         *)
(* state.json and the process table in one step, and a case does not die   *)
(* between Popen and the reading of its identity.                          *)
(***************************************************************************)
EXTENDS Naturals, Sequences, FiniteSets

CONSTANTS
    Cases,           \* the declared runs
    MaxConcurrent,   \* cases that may run together
    NoCase,          \* the selector of a request for the whole sweep
    MaxAttempts,     \* bound: attempts of a case
    MaxRequests,     \* bound: requests accepted
    Faults,          \* what may go wrong, each kind once:
                     \*   attach   a client falls back to ordinary CUDA
                     \*   boot     a client fails before it is ready
                     \*   crash    a client dies natively
                     \*   refuse   MPS does not confirm a teardown
                     \*   service  the private MPS service dies
                     \*   gpu      MPS reports a shared fault
                     \*   spawn    a case cannot be started
                     \*   start, stop   so for the service
                     \*   timeout  an MPS control command does not return
                     \*   term     the supervisor is asked to terminate
                     \*   kill     the supervisor is killed
    MaxFaults        \* bound: kinds of fault in one behaviour

FaultKind == {"attach", "boot", "crash", "refuse", "service", "gpu", "spawn",
              "start", "stop", "timeout", "term", "kill"}

ASSUME MpsWorkerAssumption ==
    /\ IsFiniteSet(Cases) /\ NoCase \notin Cases
    /\ MaxConcurrent \in Nat \ {0} /\ MaxAttempts \in Nat \ {0}
    /\ MaxRequests \in Nat /\ MaxFaults \in Nat /\ Faults \subseteq FaultKind

VARIABLES
    mem,        \* the supervisor's state dictionary
    disk,       \* state.json
    stopping,   \* the supervisor's stopping flag, never saved
    at,         \* where the supervisor is
    client,     \* each attempt's process, with its two pipes
    service,    \* the processes of the private MPS service that run
    queue,      \* requests.json
    receipt,    \* what the launch left: launch.json or launch_failed.json
    faults      \* the kinds of fault that have occurred

worker == <<mem, disk, stopping, at, client, service, queue, receipt, faults>>
world == <<client, service, queue, receipt, faults>>

-----------------------------------------------------------------------------

Attempt == 1..MaxAttempts
Ended == {"succeeded", "failed", "cancelled"}
CaseState == {"waiting", "launching", "running"} \cup Ended

\* process: the identity of the attempt's process is recorded. pending_exit is
\* the exit code the supervisor waits to return, "none" until it has one.
CaseRecord == [state: CaseState, attempt: Attempt, process: BOOLEAN,
               connected: BOOLEAN, gpu_cleared: BOOLEAN,
               stop_requested: BOOLEAN, pending_exit: {"none", "zero", "other"}]

\* new_case: a record without gpu_cleared counts as cleared while it has no
\* process.
NewCase == [state |-> "waiting", attempt |-> 1, process |-> FALSE,
            connected |-> FALSE, gpu_cleared |-> TRUE,
            stop_requested |-> FALSE, pending_exit |-> "none"]

\* daemon and server: their identities are recorded. applied counts the
\* requests applied, which are applied in order.
Phase == {"absent", "running", "closing", "gone", "unknown"}
SweepState == [phase: Phase, launching: BOOLEAN, daemon: BOOLEAN,
               server: BOOLEAN, paused: BOOLEAN, applied: 0..MaxRequests,
               outcome: {"none", "success", "failure"},
               cases: [Cases -> CaseRecord]]
NewSweep == [phase |-> "running", launching |-> FALSE, daemon |-> FALSE,
             server |-> FALSE, paused |-> FALSE, applied |-> 0,
             outcome |-> "none", cases |-> [c \in Cases |-> NewCase]]

\* A case process: its stage, whether it holds a CUDA context on the private
\* server, an unread report and command, and whether its exit code is zero.
Stage == {"none", "boot", "ready", "script", "parked", "leaving", "exited"}
Process == [stage: Stage, mps: BOOLEAN, report: {"none", "ready", "aborted", "done"},
            command: {"none", "A", "R", "E"}, zero: BOOLEAN]
NoProcess == [stage |-> "none", mps |-> FALSE, report |-> "none",
              command |-> "none", zero |-> FALSE]

Request == [action: {"stop", "retry"}, case: Cases \cup {NoCase},
            expected: Attempt \cup {0}]

\* absent until Popen, dead once it has gone; the others are places in
\* supervise, those of the second line at one case of its loop.
Pc == {"absent", "save", "intend", "start", "started", "loop", "closing",
       "closed", "exit", "dead"}
CasePc == {"spawn", "spawned", "case", "receipt", "permit", "poll"}

TypeOK ==
    /\ mem \in SweepState /\ disk \in SweepState
    /\ stopping \in BOOLEAN
    /\ at \in [pc: Pc \cup CasePc, case: Cases \cup {NoCase}, ready: BOOLEAN]
    /\ client \in [Cases -> [Attempt -> Process]]
    /\ service \in [daemon: BOOLEAN, server: BOOLEAN]
    /\ queue \in Seq(Request) /\ Len(queue) <= MaxRequests
    /\ receipt \in {"none", "launched", "failed"}
    /\ faults \subseteq Faults

WorkerInit ==
    /\ mem = NewSweep
    /\ disk = [NewSweep EXCEPT !.phase = "absent"]
    /\ stopping = FALSE
    /\ at = [pc |-> "absent", case |-> NoCase, ready |-> FALSE]
    /\ client = [c \in Cases |-> [a \in Attempt |-> NoProcess]]
    /\ service = [daemon |-> FALSE, server |-> FALSE]
    /\ queue = <<>>
    /\ receipt = "none"
    /\ faults = {}

-----------------------------------------------------------------------------

Alive(c, a) == client[c][a].stage \notin {"none", "exited"}
ParentUp == at.pc \notin {"absent", "dead"}
Proc(c) == client[c][mem.cases[c].attempt]

Fault(kind) ==
    /\ kind \in Faults \ faults
    /\ Cardinality(faults) < MaxFaults
    /\ faults' = faults \cup {kind}

Goto(pc) == at' = [pc |-> pc, case |-> NoCase, ready |-> FALSE]
GotoCase(pc, c, ready) == at' = [pc |-> pc, case |-> c, ready |-> ready]
Resume(pc) == IF pc = "permit" THEN GotoCase(pc, at.case, at.ready) ELSE Goto(pc)

\* A save at the end of a step: state.json becomes what the step left in memory.
Save == disk' = mem'

\* The clients the private server knows.
Clients == {p \in Cases \X Attempt : Alive(p[1], p[2]) /\ client[p[1]][p[2]].mps}

\* The cases in the loop's table of processes, between two visits.
Running == {c \in Cases : mem.cases[c].state \in {"launching", "running"}}

\* cancel_waiting.
Cancelled(case) == [case EXCEPT !.state = "cancelled", !.gpu_cleared = TRUE,
                                !.stop_requested = TRUE]

-----------------------------------------------------------------------------
(* The inspection: inspect, from state.json and the process table.          *)

\* A saved state that validation refuses.
Malformed(s) ==
    \/ \E c \in Cases : s.cases[c].connected /\ ~s.server
    \/ \E c \in Cases :
          s.cases[c].state \in {"running", "succeeded", "failed"} /\ ~s.cases[c].process

\* The processes whose identity is in the saved state and which run.
LiveKnown(s) ==
    \/ ParentUp
    \/ s.daemon /\ service.daemon
    \/ s.server /\ service.server
    \/ \E c \in Cases : s.cases[c].process /\ Alive(c, s.cases[c].attempt)

\* Mutant: a case is known to run by its identity only.
PendingService(s) ==
    \/ s.launching
    \/ ~s.server /\ \E c \in Cases : s.cases[c].process /\ ~s.cases[c].gpu_cleared

\* What the saved state says may run without its identity being known.
Pending(s) ==
    \/ s.launching
    \/ \E c \in Cases : s.cases[c].state = "launching" /\ ~s.cases[c].process
    \/ ~s.server /\ \E c \in Cases : s.cases[c].process /\ ~s.cases[c].gpu_cleared

Observed ==
    IF disk.phase = "absent" THEN IF receipt = "failed" THEN "gone" ELSE "unknown"
    ELSE IF Malformed(disk) THEN "error"
    ELSE IF ~LiveKnown(disk) /\ ~Pending(disk) THEN "gone"
    ELSE IF ParentUp /\ disk.phase = "running" THEN "alive"
    ELSE "unknown"

-----------------------------------------------------------------------------
(* Start, failure and death of the supervisor.                              *)

\* rpc launch: the supervisor is started, or a receipt says it was not.
Launch ==
    /\ receipt = "none"
    /\ \/ receipt' = "launched" /\ Goto("save") /\ UNCHANGED faults
       \/ receipt' = "failed" /\ Fault("spawn") /\ UNCHANGED at
    /\ UNCHANGED <<mem, disk, stopping, client, service, queue>>

\* Where the supervisor goes on after a save with nothing else in its step.
AfterSave == [save |-> "intend", started |-> "loop", spawned |-> "loop",
              receipt |-> "permit"]

\* Mutant: the receipt of a teardown is left to the next save.
SaveLater ==
    /\ at.pc \in DOMAIN AfterSave
    /\ Resume(AfterSave[at.pc])
    /\ IF at.pc = "receipt" THEN UNCHANGED disk ELSE disk' = mem
    /\ UNCHANGED <<mem, stopping, world>>

SaveState ==
    /\ at.pc \in DOMAIN AfterSave
    /\ Resume(AfterSave[at.pc])
    /\ disk' = mem
    /\ UNCHANGED <<mem, stopping, world>>

StartIntent ==
    /\ at.pc = "intend" /\ Goto("start")
    /\ mem' = [mem EXCEPT !.launching = TRUE] /\ Save
    /\ UNCHANGED <<stopping, world>>

\* MpsControl.start.
StartService ==
    /\ at.pc = "start" /\ Goto("started")
    /\ service' = [service EXCEPT !.daemon = TRUE]
    /\ mem' = [mem EXCEPT !.launching = FALSE, !.daemon = TRUE]
    /\ UNCHANGED <<disk, stopping, client, queue, receipt, faults>>

\* The handler around supervise: mark the sweep unknown and leave everything
\* as it is, but for a service that no case has used, if it can be stopped.
Fail ==
    /\ LET failed == [mem EXCEPT !.phase = "unknown", !.paused = TRUE]
       IN \/ mem' = failed /\ UNCHANGED service
          \/ /\ mem.daemon /\ \A c \in Cases : mem.cases[c].state = "waiting"
             /\ mem' = [failed EXCEPT !.launching = FALSE,
                                      !.cases = [c \in Cases |-> Cancelled(@[c])]]
             /\ service' = [daemon |-> FALSE, server |-> FALSE]
          \/ /\ at.pc = "start"     \* the daemon runs and does not answer
             /\ mem' = [failed EXCEPT !.daemon = TRUE]
             /\ service' = [service EXCEPT !.daemon = TRUE]
    /\ Save /\ Goto("exit")
    /\ UNCHANGED <<stopping, client, queue, receipt>>

\* A start or a Popen that fails, and a control command that does not return
\* in time, which the loop takes for no failure of MPS.
SuperviseFails ==
    /\ \/ at.pc \in {"start", "spawn"} /\ Fault(at.pc)
       \/ at.pc \in {"loop", "case", "closing"} /\ Fault("timeout")
    /\ Fail

\* SIGTERM asks for what a stop of the sweep asks for.
Terminated ==
    /\ ParentUp /\ Fault("term") /\ stopping' = TRUE
    /\ UNCHANGED <<mem, disk, at, client, service, queue, receipt>>

Exit ==
    /\ at.pc = "exit" /\ Goto("dead")
    /\ UNCHANGED <<mem, disk, stopping, world>>

Killed ==
    /\ ParentUp /\ Fault("kill") /\ Goto("dead")
    /\ UNCHANGED <<mem, disk, stopping, client, service, queue, receipt>>

-----------------------------------------------------------------------------
(* The loop: requests, health, the cases that run, the cases that wait.     *)

\* Mutant: a stop leaves the cases that run alone.
StoppedIfWaiting(case) ==
    IF case.state = "waiting" THEN Cancelled(case) ELSE case

Stopped(case) ==
    CASE case.state = "waiting" -> Cancelled(case)
      [] case.state \in {"launching", "running"} ->
            [case EXCEPT !.stop_requested = TRUE]
      [] OTHER -> case

\* A request on one case: an attempt that has changed since makes it void.
Applied(r, case) ==
    CASE case.attempt # r.expected -> case
      [] case.attempt = r.expected /\ r.action = "stop" -> Stopped(case)
      [] case.attempt = r.expected /\ r.action = "retry" /\ case.state \in Ended ->
            [NewCase EXCEPT !.attempt = r.expected + 1, !.gpu_cleared = FALSE]
      [] OTHER -> case

\* A retry of a case that is not safely gone ends the supervisor.
UnsafeRetry(r, case) ==
    /\ r.action = "retry" /\ case.attempt = r.expected /\ case.state \in Ended
    /\ \/ case.process /\ Alive(r.case, case.attempt)
       \/ ~case.gpu_cleared

ApplyRequest ==
    /\ at.pc = "loop" /\ mem.applied < Len(queue)
    /\ LET r == queue[mem.applied + 1]
           whole == r.case = NoCase
       IN IF ~whole /\ UnsafeRetry(r, mem.cases[r.case]) THEN Fail /\ UNCHANGED faults
          ELSE /\ mem' = [mem EXCEPT !.applied = @ + 1,
                    !.cases = [c \in Cases |-> IF c = r.case THEN Applied(r, @[c]) ELSE @[c]]]
               /\ stopping' = (stopping \/ whole)
               /\ Save /\ UNCHANGED <<at, world>>

\* health: a daemon that has gone, a client that lost its connection, or a
\* fault of the service; and the server's identity, when there is one.
Unhealthy ==
    \/ ~service.daemon
    \/ \E c \in Cases : /\ mem.cases[c].connected /\ ~mem.cases[c].gpu_cleared
                        /\ Alive(c, mem.cases[c].attempt) /\ ~Proc(c).mps

CheckHealth ==
    /\ at.pc = "loop"
    /\ \/ /\ (Unhealthy /\ UNCHANGED faults) \/ Fault("gpu")
          /\ mem' = [mem EXCEPT !.paused = TRUE] /\ stopping' = TRUE
          /\ mem' # mem \/ ~stopping
          /\ Save
       \/ /\ ~Unhealthy /\ service.server /\ ~mem.server
          /\ mem' = [mem EXCEPT !.server = TRUE]
          /\ UNCHANGED <<disk, stopping, faults>>
    /\ UNCHANGED <<at, client, service, queue, receipt>>

\* While it stops, the loop cancels what waits and marks what runs.
CancelAll ==
    /\ at.pc = "loop" /\ stopping
    /\ mem' = [mem EXCEPT !.cases = [c \in Cases |-> Stopped(@[c])]]
    /\ mem' # mem
    /\ UNCHANGED <<disk, stopping, at, client, service, queue, receipt, faults>>

\* The CUDA contexts of a case are to be torn down.
Due(case) ==
    /\ case.pending_exit # "none" \/ case.stop_requested
    /\ case.connected /\ ~case.gpu_cleared

SetProc(c, p) == client' = [client EXCEPT ![c][mem.cases[c].attempt] = p]

\* A client that dies after it reported ready leaves a command pipe that cannot
\* be written, and a daemon that has gone cannot list its clients.
ReadReportFails(c) ==
    /\ at.pc = "loop" /\ c \in Running
    /\ Proc(c).report = "ready" /\ (Proc(c).stage = "exited" \/ ~service.daemon)
    /\ Fail /\ UNCHANGED faults

\* What a report does to the case, and what the client is told: to leave when
\* it has not attached to the private server, to run when it has. The end of a
\* script is not saved yet.
Attached(p) == p.mps /\ service.server
Reported(case, p) ==
    CASE p.report = "ready" /\ ~Attached(p) -> [case EXCEPT !.pending_exit = "other"]
      [] p.report = "ready" /\ Attached(p) ->
            [case EXCEPT !.state = "running", !.connected = TRUE]
      [] p.report = "aborted" ->
            [case EXCEPT !.gpu_cleared = TRUE, !.pending_exit = "other"]
      [] p.report = "done" ->
            [case EXCEPT !.pending_exit = IF p.zero THEN "zero" ELSE "other"]
      [] OTHER -> case
Told(p) ==
    [p EXCEPT !.report = "none",
              !.command = IF p.report # "ready" THEN @ ELSE IF Attached(p) THEN "R" ELSE "A"]

\* One visit of a running case: its report pipe, which is readable without a
\* report once its writer has exited.
ReadReport(c) ==
    /\ at.pc = "loop" /\ c \in Running
    /\ LET p == Proc(c)
           case == mem.cases[c]
           ready == p.report # "none" \/ p.stage = "exited"
       IN /\ ready \/ case.stop_requested \/ case.pending_exit # "none"
          /\ mem' = [mem EXCEPT !.cases[c] = Reported(case, p),
                                !.server = @ \/ (p.report = "ready" /\ Attached(p))]
          /\ IF p.report \in {"ready", "aborted"} THEN Save ELSE UNCHANGED disk
          /\ SetProc(c, Told(p)) /\ GotoCase("case", c, ready)
    /\ UNCHANGED <<stopping, service, queue, receipt, faults>>

\* A connected case that is done or to be stopped loses its CUDA contexts
\* first. A teardown that is refused pauses the sweep and is tried again.
Terminate ==
    /\ at.pc = "case"
    /\ LET c == at.case
           due == Due(mem.cases[c])
           possible == Alive(c, mem.cases[c].attempt) /\ Attached(Proc(c))
       IN \/ /\ due /\ possible /\ GotoCase("receipt", c, at.ready)
             /\ SetProc(c, [Proc(c) EXCEPT !.mps = FALSE])
             /\ mem' = [mem EXCEPT !.cases[c].gpu_cleared = TRUE]
             /\ UNCHANGED <<disk, faults>>
          \/ /\ due /\ GotoCase("poll", c, at.ready)
             /\ IF possible THEN Fault("refuse") ELSE UNCHANGED faults
             /\ mem' = [mem EXCEPT !.paused = TRUE] /\ Save
             /\ UNCHANGED client
          \/ ~due /\ GotoCase("poll", c, at.ready) /\ UNCHANGED <<mem, disk, client, faults>>
    /\ UNCHANGED <<stopping, service, queue, receipt>>

\* SIGKILL for a case to be stopped, leave to exit for one that is done; a dead
\* one has closed its command pipe, and that pauses the sweep.
Permit ==
    /\ at.pc = "permit" /\ GotoCase("poll", at.case, at.ready)
    /\ LET p == Proc(at.case)
           stop == mem.cases[at.case].stop_requested
           dead == p.stage = "exited"
       IN /\ IF dead THEN UNCHANGED client
             ELSE SetProc(at.case, IF stop THEN [p EXCEPT !.stage = "exited", !.zero = FALSE]
                                   ELSE [p EXCEPT !.command = "E"])
          /\ mem' = [mem EXCEPT !.paused = @ \/ (dead /\ ~stop)] /\ Save
    /\ UNCHANGED <<stopping, service, queue, receipt, faults>>

\* Mutant: the exit code stands for the state.
EndState(case, p) == case.pending_exit

FinalState(case, p) ==
    IF case.stop_requested THEN "cancelled"
    ELSE IF p.zero /\ case.pending_exit # "other" THEN "succeeded" ELSE "failed"

\* poll and finish_case. An exit without confirmed teardown stops the sweep.
Poll ==
    /\ at.pc = "poll" /\ Goto("loop")
    /\ LET c == at.case
           case == mem.cases[c]
       IN IF Proc(c).stage = "exited" /\ at.ready
          THEN /\ mem' = [mem EXCEPT !.cases[c].state = FinalState(case, Proc(c)),
                                     !.paused = @ \/ ~case.gpu_cleared]
               /\ stopping' = (stopping \/ ~case.gpu_cleared)
               /\ Save
          ELSE UNCHANGED <<mem, disk, stopping>>
    /\ UNCHANGED world

\* Mutant: only the cases whose script runs take room.
RoomForScripts ==
    Cardinality({c \in Cases : mem.cases[c].state = "running"}) < MaxConcurrent

HasRoom == Cardinality(Running) < MaxConcurrent

\* Admission: the intent to launch is saved before Popen.
LaunchIntent(c) ==
    /\ at.pc = "loop" /\ ~stopping /\ ~mem.paused
    /\ mem.cases[c].state = "waiting" /\ HasRoom
    /\ mem' = [mem EXCEPT !.cases[c].state = "launching", !.cases[c].gpu_cleared = FALSE]
    /\ Save /\ GotoCase("spawn", c, FALSE)
    /\ UNCHANGED <<stopping, world>>

Spawn ==
    /\ at.pc = "spawn" /\ GotoCase("spawned", at.case, FALSE)
    /\ SetProc(at.case, [NoProcess EXCEPT !.stage = "boot"])
    /\ mem' = [mem EXCEPT !.cases[at.case].process = TRUE]
    /\ UNCHANGED <<disk, stopping, service, queue, receipt, faults>>

\* Mutant: the queue is closed on what the loop has read of it.
ReadOnce == TRUE

QueueIsDone == mem.applied = Len(queue)

\* With the request lock held: nothing runs or waits, every request is applied.
Close ==
    /\ at.pc = "loop" /\ Goto("closing")
    /\ (\A c \in Cases : mem.cases[c].state \in Ended) /\ QueueIsDone
    /\ mem' = [mem EXCEPT !.phase = "closing"] /\ Save
    /\ UNCHANGED <<stopping, world>>

\* MpsControl.stop: refused while a client is left; a service that does not
\* exit in time ends the supervisor.
StopService ==
    /\ at.pc = "closing"
    /\ \/ /\ Clients = {} /\ service.daemon /\ Goto("closed")
          /\ service' = [daemon |-> FALSE, server |-> FALSE]
          /\ UNCHANGED <<mem, disk, stopping, client, queue, receipt, faults>>
       \/ (IF Clients = {} /\ service.daemon THEN Fault("stop") ELSE UNCHANGED faults) /\ Fail

\* Mutant: only a failed case spoils the result.
NoneFailed == \A c \in Cases : mem.cases[c].state # "failed"

AllSucceeded ==
    (\A c \in Cases : mem.cases[c].state = "succeeded") /\ ~mem.paused

SaveOutcome ==
    /\ at.pc = "closed" /\ Goto("exit")
    /\ mem' = [mem EXCEPT !.phase = "gone",
                          !.outcome = IF AllSucceeded THEN "success" ELSE "failure"]
    /\ Save /\ UNCHANGED <<stopping, world>>

VisitCase(c) == ReadReport(c) \/ ReadReportFails(c)

Supervise ==
    \/ SaveState \/ StartIntent \/ StartService \/ SuperviseFails \/ Exit
    \/ ApplyRequest \/ CheckHealth \/ CancelAll
    \/ \E c \in Cases : VisitCase(c) \/ LaunchIntent(c)
    \/ Terminate \/ Permit \/ Poll \/ Spawn
    \/ Close \/ StopService \/ SaveOutcome

-----------------------------------------------------------------------------
(* A case process: case_main. A pipe whose other end has closed takes no    *)
(* report, and reads as the end of the file.                                *)

Reporting(report) == IF ParentUp THEN report ELSE "none"

Become(c, a, p) ==
    /\ client' = [client EXCEPT ![c][a] = p]
    /\ UNCHANGED <<mem, disk, stopping, at, queue, receipt>>

\* CUDA is initialised, or not. The first client of the daemon makes it start
\* the server; a client that falls back to ordinary CUDA is ready too. Without
\* a supervisor to report to, the process leaves.
Boot(c, a) ==
    /\ client[c][a].stage = "boot"
    /\ LET p == client[c][a]
           initialised == [p EXCEPT !.stage = IF ParentUp THEN "ready" ELSE "leaving",
                                    !.mps = ParentUp, !.report = Reporting("ready")]
       IN \/ /\ service.daemon /\ Become(c, a, initialised)
             /\ service' = [service EXCEPT !.server = TRUE] /\ UNCHANGED faults
          \/ /\ ParentUp /\ Fault("attach")
             /\ Become(c, a, [initialised EXCEPT !.mps = FALSE]) /\ UNCHANGED service
          \/ /\ IF service.daemon THEN Fault("boot") ELSE UNCHANGED faults
             /\ Become(c, a, [p EXCEPT !.stage = "leaving", !.report = Reporting("aborted")])
             /\ UNCHANGED service

\* The answer to ready: run, or release the unused context and leave, which is
\* what the end of the pipe means too.
Command(c, a) ==
    /\ client[c][a].stage = "ready"
    /\ LET p == client[c][a]
       IN \/ p.command = "R" /\ Become(c, a, [p EXCEPT !.stage = "script", !.command = "none"])
          \/ /\ p.command = "A" \/ ~ParentUp
             /\ p.command # "R"
             /\ Become(c, a, [p EXCEPT !.stage = "leaving", !.mps = FALSE, !.command = "none",
                    !.report = IF p.command = "A" THEN Reporting("aborted") ELSE "none"])
    /\ UNCHANGED <<service, faults>>

\* The guarded script returns or raises; the process keeps its context and
\* waits to be let go.
ScriptEnds(c, a) ==
    /\ client[c][a].stage = "script"
    /\ \E zero \in BOOLEAN :
          Become(c, a, [client[c][a] EXCEPT !.stage = "parked", !.zero = zero,
                                            !.report = Reporting("done")])
    /\ UNCHANGED <<service, faults>>

\* A process that finds its command pipe closed without E waits for ever.
Leave(c, a) ==
    /\ \/ client[c][a].stage = "leaving"
       \/ client[c][a].stage = "parked" /\ client[c][a].command = "E"
    /\ Become(c, a, [client[c][a] EXCEPT !.stage = "exited"])
    /\ UNCHANGED <<service, faults>>

Crash(c, a) ==
    /\ Alive(c, a) /\ Fault("crash")
    /\ Become(c, a, [client[c][a] EXCEPT !.stage = "exited", !.zero = FALSE])
    /\ UNCHANGED service

\* The service takes the contexts of its clients with it.
ServiceDies ==
    /\ service.daemon /\ Fault("service")
    /\ service' = [daemon |-> FALSE, server |-> FALSE]
    /\ client' = [c \in Cases |-> [a \in Attempt |-> [client[c][a] EXCEPT !.mps = FALSE]]]
    /\ UNCHANGED <<mem, disk, stopping, at, queue, receipt>>

-----------------------------------------------------------------------------
(* Control, from the backend: rpc stop and retry, with the request lock.    *)

Acceptable(r) ==
    /\ Observed = "alive"
    /\ r.case = NoCase => r.action = "stop" /\ r.expected = 0
    /\ r.case # NoCase => r.expected = disk.cases[r.case].attempt
    /\ r.action = "retry" =>
          LET case == disk.cases[r.case]
          IN /\ case.state \in Ended /\ case.gpu_cleared
             /\ ~(case.process /\ Alive(r.case, r.expected))
             /\ r.expected < MaxAttempts

Accept(r) ==
    /\ Len(queue) < MaxRequests /\ Acceptable(r)
    /\ queue' = Append(queue, r)
    /\ UNCHANGED <<mem, disk, stopping, at, client, service, receipt, faults>>

\* cleanup_orphan, for a stop of the whole sweep whose supervisor has gone: a
\* group that the saved state does not describe completely is left alone.
StartupFailed ==
    disk.launching /\ disk.daemon /\ \A c \in Cases : disk.cases[c].state = "waiting"

CompleteGroup ==
    /\ disk.phase # "absent" /\ Observed # "error" /\ ~ParentUp
    /\ disk.launching => StartupFailed /\ Clients = {}
    /\ \A c \in Cases : disk.cases[c].state = "launching" => disk.cases[c].process

\* One case that runs: its contexts and the receipt, then SIGKILL.
OrphanTerminate(c) ==
    /\ CompleteGroup /\ disk.cases[c].process /\ ~disk.cases[c].gpu_cleared
    /\ LET a == disk.cases[c].attempt
       IN /\ Alive(c, a) /\ client[c][a].mps /\ service.server
          /\ client' = [client EXCEPT ![c][a].mps = FALSE]
    /\ disk' = [disk EXCEPT !.cases[c].gpu_cleared = TRUE, !.server = TRUE]
    /\ UNCHANGED <<mem, stopping, at, service, queue, receipt, faults>>

OrphanKill(c) ==
    /\ CompleteGroup /\ disk.cases[c].process /\ disk.cases[c].gpu_cleared
    /\ Alive(c, disk.cases[c].attempt)
    /\ client' = [client EXCEPT ![c][disk.cases[c].attempt].stage = "exited",
                                ![c][disk.cases[c].attempt].zero = FALSE]
    /\ UNCHANGED <<mem, disk, stopping, at, service, queue, receipt, faults>>

\* Then the service, and the saved state says gone.
OrphanFinish ==
    /\ CompleteGroup /\ disk.phase # "gone"
    /\ \A c \in Cases : ~(disk.cases[c].process /\ Alive(c, disk.cases[c].attempt))
    /\ service.daemon => Clients = {}
    /\ service' = [daemon |-> FALSE, server |-> FALSE]
    /\ LET ended(case) == IF case.state \in Ended THEN case
                          ELSE [case EXCEPT !.state = "cancelled"]
       IN disk' = [disk EXCEPT !.phase = "gone", !.paused = FALSE, !.launching = FALSE,
                               !.server = @ \/ service.server,
                               !.cases = [c \in Cases |-> ended(@[c])]]
    /\ UNCHANGED <<mem, stopping, at, client, queue, receipt, faults>>

-----------------------------------------------------------------------------

ClientStep(c, a) == Boot(c, a) \/ Command(c, a) \/ Leave(c, a)

Next ==
    \/ Launch \/ Supervise \/ Terminated \/ Killed \/ ServiceDies
    \/ \E c \in Cases, a \in Attempt : ClientStep(c, a) \/ ScriptEnds(c, a) \/ Crash(c, a)
    \/ \E r \in Request : Accept(r)
    \/ \E c \in Cases : OrphanTerminate(c) \/ OrphanKill(c)
    \/ OrphanFinish

Spec == WorkerInit /\ [][Next]_worker

\* The supervisor visits every case in each turn of its loop; a case process
\* goes on, but nothing obliges a script to end.
FairSpec ==
    /\ Spec /\ WF_worker(Supervise)
    /\ SF_worker(ApplyRequest) /\ SF_worker(CancelAll) /\ SF_worker(Close)
    /\ \A c \in Cases : SF_worker(VisitCase(c))
    /\ \A c \in Cases, a \in Attempt : WF_worker(ClientStep(c, a))

-----------------------------------------------------------------------------
(* Properties.                                                              *)

GroupRuns ==
    \/ service.daemon \/ service.server
    \/ \E c \in Cases, a \in Attempt : Alive(c, a)

\* Abstractly, a group: an inspection that raises an error tells nothing. An
\* answer gone is right and stays right, whatever crashed before it, and the
\* outcome is written once, after the last client and the service have gone.
Group == INSTANCE HostGroup WITH
    answer <- IF Observed = "error" THEN "unknown" ELSE Observed,
    result <- disk.outcome,
    busy <- GroupRuns
GroupSpec == Group!GroupSpec

\* The limit holds for the processes that exist, through every stop, retry,
\* failure and lost supervisor, and no case has two processes.
Bounded ==
    LET live == {p \in Cases \X Attempt : Alive(p[1], p[2])}
    IN /\ Cardinality(live) <= MaxConcurrent
       /\ \A p, q \in live : p[1] = q[1] => p = q

\* A process whose script has run exits only with the teardown of its CUDA
\* contexts recorded on disk, unless it dies by itself; whoever lets it go or
\* kills it, the supervisor or the owner after the supervisor's death.
TeardownFirst ==
    [][\A c \in Cases, a \in Attempt :
          /\ client[c][a].stage \in {"script", "parked"}
          /\ client'[c][a].stage = "exited" /\ "crash" \notin faults' \ faults
          => LET case == disk.cases[c]
             IN case.attempt = a /\ case.gpu_cleared]_worker

\* A request that the backend was told is queued has been applied when the
\* supervisor stops serving the queue in good order.
AcceptedIsApplied == mem.phase \in {"closing", "gone"} => mem.applied = Len(queue)

\* Success is claimed only when every case's last attempt returned zero, and
\* nothing paused the sweep.
SuccessIsEarned ==
    disk.outcome = "success" =>
        /\ ~disk.paused
        /\ \A c \in Cases : LET p == client[c][disk.cases[c].attempt]
                            IN p.stage = "exited" /\ p.zero

SharedFaults == Faults \ {"attach", "boot"}

\* A case that fails by itself, before its script or in it, does not pause the
\* sweep: that takes a fault that others share.
IsolatedFailureStaysLocal == disk.paused => faults \cap SharedFaults # {}

\* An accepted stop of the sweep ends the whole group, even when no script ever
\* returns, unless the supervisor, the service or a teardown fails.
StopEndsSweep ==
    (\E i \in DOMAIN queue : queue[i].case = NoCase) ~>
        (Observed = "gone" \/ ~(faults \subseteq {"boot", "gpu", "term"}))

=============================================================================
