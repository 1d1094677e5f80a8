# Verification of gpu-mcp

TLA+ models of [gpu-mcp](../src/README.md), checked with TLC and proved with
TLAPS. gpu-mcp lets several coding-agent sessions run Python programs on shared
GPUs: a backend per repository books a GPU in a registry that all repositories
of a user share, starts a supervised program on the GPU's host, keeps the
booking alive, watches the program without being asked, saves its result, tells
the session that started it, and frees the GPU.

All paths below are relative to the repository. `PROJECT.json` maps every
definition to the lines it models and lists the runs, mutants, findings,
hazards and theorems.

## The system

| Component | State it keeps | Operations | What makes it correct |
|---|---|---|---|
| Managed-job lifecycle (`gpu_mcp_backend.py`, `gpu_mcp_codex_runtime.py`) | calls in progress, the monitor's timers | `run_python_on_gpu`, `manage_gpu_job` (status, stop, finish, retry, update_cadence), `kill_gpu_process`, monitor pass, recovery of a former instance's job | one program per GPU; no release while a program runs or may start; result saved before release; a completed job's GPU is freed in the end |
| Reservation registry (`gpu_mcp_reservations.py`) | one directory per booked GPU with `metadata.json`, a lock file per GPU, a quarantine | acquire, remove, quarantine, atomic write, lock | a booking changes hands only through its owner, or when stale and proved over |
| HeartbeatManager (`gpu_mcp_backend.py`) | the keys this process keeps alive, their check-in errors | register, unregister, heartbeat, merge of owned metadata | every live booking is kept alive; no foreign booking is written |
| Supervisor and inspection (`gpu_mcp_backend.py`) | process, outcome file | start, end, write outcome; inspect; signal | "gone" only for a process that has ended |
| Job store and notifications (`gpu_mcp_codex_state.py`, `_runtime.py`, `_daemon.py`) | `jobs` and `events` tables, a lock per job; the conversation's history in the Codex daemon | save, notice, delivery, explicit retry, clear | a result and its notice are one transaction; no notice sent twice, for a former attempt, or after it was overtaken; every result reaches its owner |
| Launcher and host (`gpu_mcp_codex_launcher.py`, `_host.py`) | `startup.lock`, `backend.json`, the count of calls under way | ensure_backend, relay, admission, stop_if_idle, update of the code | one backend per repository; no busy backend is stopped or replaced |
| MPS sweeps: worker (`gpu_mcp_mps_worker.py`) | `state.json`, the request queue, pipes to the case processes, a private MPS service | supervise, start a case, read its reports, tear down its contexts, apply requests, close, inspect, clean up an orphan | bounded concurrency; a request is applied or refused; "gone" is true and final; contexts are torn down before a client goes |
| MPS sweeps: manager (`gpu_mcp_mps.py`) | the job record, the booking, the heartbeat | launch, status, stop and retry of cases, finish, release | the GPU is booked until the whole group is gone; the result is saved first and not lost |
| Policy and approval (`gpu_mcp_policy*.py`, `gpu_mcp_config.py`) | approved hash, loaded policy, reload tokens | preview, reload, reject, approval by the doctor, refusal of a stale policy | only what a person approved takes effect |
| Builds (`gpu_mcp_builds.py`, `_build_worker.py`) | build record, control lock per job, booking; on the host `state.json`, `outcome.json`, supervisor, bubblewrap, namespace | launch, status, stop, finish, retry; supervise, inspect, stop | one attempt at a time; the GPU of an assisted build is booked until its namespace is gone; the result is saved |
| Script guard (`gpu_mcp_guard.py`, `gpu_mcp_safe_runner.py`) | none | syntactic scan, audit hooks | not a state machine |
| Installation, upgrade, doctor, terminal and display modules | files, screens | run by a person, one at a time | not modelled |

How they interact: sessions call the backend over HTTP; calls that name a job
take that job's lock (a thread lock plus `flock`) and so do the monitor and the
delivery thread; a launch runs outside it. Backends of different repositories
never talk: they meet in the registry, where each GPU has a lock file that
guards changes to its metadata, but not the first acquisition. The program's
supervisor meets the backend only through its process id and its outcome file;
a sweep or a build through a small command over SSH that starts it, leaves it a
request, or inspects its files and processes. Sessions find the backend through
`backend.json`, or start one under `startup.lock`.
A backend can crash at any step; its successor has the database and the
registry but none of its memory, and may not act as the owner of its bookings.

What is hard: steps of several backends interleave between a check and the lock
it is repeated under; every two-file update (record, then metadata) can be cut
in half; a lost SSH reply leaves a program that may or may not start; a
shared file system shows results late; process death is inferred from a failed
command. In a sweep or a build several processes die in any order while a saved
state says who they were; a loop with many steps per turn works from what it read
at the turn's start; files may be edited between the steps of a policy reload;
and an update of the code races with calls that are on their way.
`PROJECT.json` lists these under "hazards" at their lines.

## Modules

| Module | Content |
|---|---|
| `GpuLease` | What the registry promises: a GPU is leased to one attempt at a time; a lease moves to another attempt of the same job, or ends, only while its holder's program is not running and will not start. |
| `ManagedJobs` | The lifecycle: backends, registry, heartbeats, records, launches, calls, stale cleanups, supervisors; its properties; the inductive invariant. |
| `ManagedJobsTypes` | Proof of type correctness. |
| `ManagedJobsProofs` | Proof of the lease invariant, of what follows from it, and that `ManagedJobs` implements `GpuLease`. |
| `ManagedJobsRecords` | What bookings, calls and saved records know of each other, as an inductive invariant; proof of the properties about records, results and shutdown. |
| `MCManagedJobs` | Constants, symmetry and the bound of one run for TLC. |
| `Notifications` | One job's notices: the events table, the saves that fill it, the delivery thread, and the conversation at the other end of a connection that loses replies. |
| `NotificationsProofs` | Proof that a notice arrives once, of its types, and of what no delivery ever does. |
| `HostGroup` | What a backend relies on from a group of processes it started on a host: "gone" is said only when nothing of the group runs or will run again, and a result is written once, by a group that has stopped working. |
| `MpsWorker` | One sweep on its host: the supervisor's loop, the case processes, the MPS service, the request queue, the inspection, the cleanup of an orphan. Implements `HostGroup`. |
| `MpsWorkerProofs` | Proof of its invariants, of the order of teardown, and that it implements `HostGroup`. |
| `MpsManager` | The backend's side of a sweep: launch, calls, record, booking, heartbeat; the sweep itself is a `HostGroup`. |
| `MpsManagerProofs` | Proof that the GPU is booked until the sweep is gone and that the result is saved first. |
| `BuildJobs` | Both sides of a build: concurrent calls under the control lock, the booking, and supervisor, bubblewrap and namespace. Each attempt implements `HostGroup`. |
| `BuildJobsProofs` | Proof that one attempt runs at a time, with its booking, and implements `HostGroup`. |
| `SharedBackend` | Sessions that find, start, update and stop the backend of a repository; admission and idle stop; preview, approval and reload of the policy. |
| `SharedBackendProofs` | The inductive invariant of `SharedBackend` and the proof of its four properties. |
| `MCMps`, `MCSharedBackend` | Symmetry sets for TLC. |

`MpsWorker` and `MpsManager` meet in `HostGroup`: the first is proved to
implement it, the second is built on it, so the manager's properties hold over
whatever the worker may do. `ManagedJobs` and `Notifications` meet in the
record: the first follows the booking, the second the events.

### How ManagedJobs corresponds to the code

| Variable | Code |
|---|---|
| `inst` | a backend process, `SERVER_INSTANCE_ID`; `stopped` is a clean shutdown, `dead` a crash |
| `reg` | `<registry>/<key>/metadata.json`: job, attempt, `server_instance_id`, `remote_pid`; `"empty"` is a directory without metadata |
| `stale` | `last_heartbeat_at` is older than 600 s |
| `owned`, `failed` | `HeartbeatManager._owned` and the keys whose check-in carries an error |
| `rec` | the record in `JobStore`: `job_lifecycle`, `active_attempt_id`, `active_reservation`, `remote_pid`, `outcome` |
| `launch` | how far the `run_python_on_gpu` call of a job has come, and its GPU and backend |
| `op` | the call that holds the job's lock: what it has read (`meta`, `source`), what it will save (`write`) and what comes next |
| `look` | a stale cleanup of `check_gpus` or of a launch, between inspection and lock |
| `proc` | the supervisor and program of each attempt; a process id is named by its attempt, as the process fingerprint is |

An action is one indivisible step: one system call on the registry, one
database transaction, or one section under the per-GPU lock that makes a single
write. Where such a section makes two writes (claim, rollback and finalize of a
retry) they are two actions, and `GuardFree` keeps other lock holders out
between them; a crash or a failed write can come between them. What a call reads
before it takes the lock is kept in `op` or `look` and used later, stale or not.
A status answer is: read and inspect (`StatusLook`), save (`SaveRecord`),
release (`ReleaseOwned`) or clean up (`CleanupFormer`), drop the heartbeat
(`Unregister`), save again (`RecordInactive`). A crash loses `owned`, `op`,
`look` and the launch, and keeps `reg`, `rec` and `proc`.

`Faults` names what else may go wrong in an instance: metadata that cannot be
read, by a status answer or by a launch that failed before its start
(`unreadable`), failed check-ins (`checkin`), KILL of a supervisor (`kill`),
a session that manages a job before its launch has returned (`early`), and a
retry whose write failed and which cannot put record and metadata back either
(`torn`: record and booking then name different attempts).

Abstracted: hosts and GPU indices are one key; succeeded and failed are one
state, `terminal`; times are "fresh" or "stale"; the poll discipline (when a
check is due) is left out, so a check may come at any time; output, titles and
cadences are left out. Bounds: `MaxAttempts` attempts per job; each backend
instance starts once, each job is launched once.

### How Notifications corresponds to the code

| Variable | Code |
|---|---|
| `rec` | the job's record: attempt, `job_lifecycle`, `active_reservation`, `verification_pending_since`, whose `outcome` it holds |
| `event` | the `events` table: a row per event id, here <<attempt, kind, time>>; its `state`, with pending and archived as `unsent`, sending and uncertain as `in_doubt`, superseded and resolved as `retired` |
| `call` | the call that holds the job's lock, the event `deliver_once` has in hand and its `previous_state` |
| `truth` | what has become of each attempt's program |
| `up`, `owner`, `crashes` | a backend runs; it is the instance that launched the job |
| `inbox`, `asked` | how often the conversation has received each event, and its owner has asked for it again |

The module keeps what notices depend on and takes the rest of the lifecycle as
`ManagedJobs` describes it: a status answer finds any verdict that the truth
allows, a retry may start, fail, or lose its reply. `Save` and
`clear_old_events` are two transactions; every save of `CodexRuntime.persist` is
followed by the second unless a crash comes between, so `SaveThen` is one action
with that crash as an alternative. A delivery is: verification of an unsent
uncertainty (a status answer), the intent saved (`PrepareSend`), the request and
its answer (`Request`); or the look for a receipt. `Unsaved` names the kinds of
event whose answer "accepted" may arrive and then fail to be saved, which puts the
event back as it was found. A session may ask for the status of its job before the
launch has returned; the launch's answer and the save of its own copy are then one
step. Milestones, MPS case failures,
the delivery timers and a policy that awaits review are left out.

### How MpsWorker corresponds to the code

| Variable | Code |
|---|---|
| `mem`, `disk` | the supervisor's `state` and the `state.json` of its last `save()`: per case its state, attempt, process, `connected`, `gpu_cleared`, `pending_exit`, `stop_requested`; `service_launching`, daemon and server; `paused`, `reason`, `requests_applied`, `outcome` |
| `at` | where the supervisor is: in its start, in the loop, at which case and at which step of that case's turn |
| `stopping` | `stopping[0]` |
| `client` | per case and attempt the process `case_main`: its stage, whether it is attached to MPS, the report and the command in its pipes |
| `service` | the private MPS daemon and server |
| `queue` | the request file, written under the request lock |
| `receipt` | the reply file of the launch command |

An action is what the supervisor does up to its next `save()`, or up to its next
effect on another process or look at one; after each of them it may be killed.
The client moves between any two. An inspection is one step. `Observed` is
`inspect`, as a function of `disk` and the processes; `CompleteGroup` and the
actions named `Orphan...` are what the backend's stop does once the supervisor is
gone. Left out: logs, the GPU probe's numbers, the text of the reasons, and a
crash of the control host. A case process dies by itself, not between `Popen`
and the reading of its identity.

### How MpsManager corresponds to the code

`call` is the launching call, which takes the job's lock only to save; `op` the
call that holds the lock, with the copy of the record it works on (`write`) and
what its inspection answered. `request` is the launch command, which the host may
execute after its caller gave up. `booking` tells a reservation whose metadata
names the sweep (`described`) from one that does not. `answer`, `result` and
`busy` are the group. `OtherJob` and `CleanUp` are the other users of the
registry, and `other` is a successor backend, which observes and saves but
controls nothing. Left out: update_cadence, and metadata that cannot be read.

### How BuildJobs corresponds to the code

`worker` holds, per attempt, the supervisor's stage, which file is there (`file`:
the launch receipt, or `state.json` without and with the identities of bubblewrap
and namespace), bubblewrap, the namespace and `outcome.json`; a receipt that is
written after `state.json` changes nothing that an inspection or a reply reads.
`op` is what each caller is doing and the copy of the record it works on; `lock` is
the job's lock in the store and the flock of `control.lock` under it. `named` is the
attempt whose process and `build_spec` the booking's metadata describes, which the
stale cleanup looks for. Stop signals are single steps, as are inspections.

The launch of a new job holds neither lock, and a session can reach the job as soon
as it is registered: `list_gpu_jobs` shows it, and a call without a job id goes to
the only open job of the session. So `Manage` is enabled while the launch sends its
command (`Send`), waits for the reply (`Reply`), describes the booking (`Describe`)
and saves its own copy of the record (`SaveLaunched`); a status answer, a stop, a
finish or a retry may come between any two of these. Of saves that are overtaken, the
store refuses those that name another attempt than the record
(`gpu_mcp_codex_state.py:192`), the rest overwrite. `early` is a history variable:
a call released the GPU while the launch had not returned. Only the properties read
it. A registration that fails may leave the record of the attempt, with its booking
undone.

Left out: mounts, the socket filter, the source checks, update_cadence, staging of
the artifact (its presence is one of the conditions for success), the stdio mode
without the store, other jobs of the same backend on the same GPU.

### How SharedBackend corresponds to the code

`op` is what the relay of each session is doing: `ensure_backend` (`ensure`,
`ask`, `drain`, `await`), sending, and in the backend admission, the call and the
steps of a reload. `lock` is `startup.lock`, `listed` is `backend.json`, `store`
the approved hash, `token` the pending reloads. `consent` and `abandoned` are
history variables that only the properties read. A policy and its hash are one
value. What an operational call does is another module's; here it may leave an
active job. A call may fail at any point because its backend ends. Two reloads
may overlap, but each of the two assignments of a reload is one step here, while
`_apply_policy` sets its globals one by one. Left out: approvals of other
repositories in the same store, credentials, the wire protocol.

## Runs

`CHECK_DEADLOCK FALSE` because the system may stop: every backend can end for
good, every job be told, every sweep and build be over.

| Run | Instance | Shows |
|---|---|---|
| `restart` | 1 job, 2 attempts, 1 GPU, 2 backends of one repository, no extra faults | `LeaseSpec` (ManagedJobs implements GpuLease), `ResultSavedBeforeRelease`, `SavedResultKept`, `InactiveMeansReleased`, `ShutdownLeavesNoBooking`, and, under `FairSpec`, `CompletedIsReleased` |
| `shared` | 2 jobs, 1 attempt each, 1 GPU, the backends of 2 repositories, at most 2 calls and stale cleanups under way beside the launches (`MCFewCalls`); symmetry | `OneProgramPerGpu`, `FreshReservationUntouched` |
| `faults` | as `restart`, with every fault of `Faults`, unreadable metadata in launches and status answers included | `TypeOK`, `LiveAttemptHoldsLease`, `BookingNamesItsProcess`, the inductive invariant `LeaseInv` |
| `unregister_other` | 2 jobs, 1 attempt each, 1 GPU | a finding, see below |
| `notify_attempts` | 2 attempts, 1 crash, 1 retry of a notice by its owner, one time, accepted answers are saved | `TypeOK`, `AtMostOnce`, the inductive invariant `OnceInv` it follows from, `OldAttemptSilent`, `AcceptedKept` |
| `notify_episodes` | 1 attempt, 2 times, no crash, polls and alerts (at most one of them in the table), accepted answers that fail to be saved | `OvertakenNotSent` and, under `LiveSpec`, `ResultReachesOwner` |
| `mps_worker` | 2 cases, 1 at a time, 2 attempts, 2 requests, 2 faults of 10 kinds, symmetry | `TypeOK`, `Bounded`, `AcceptedIsApplied`, `SuccessIsEarned`, `TeardownFirst`, and `GroupSpec`: MpsWorker implements HostGroup |
| `mps_stop` | the same with 1 request and 1 fault, no symmetry | `StopEndsSweep` under `FairSpec` |
| `mps_abort` | 2 cases at a time, a client that does not attach | a finding, see below |
| `mps_manager` | 1 sweep, each of 4 kinds of fault once | `TypeOK`, `BookedUntilGone`, `InactiveMeansReleased`, `ResultSavedBeforeRelease`, and `ResultDelivered` under `FairSpec` |
| `builds` | 2 callers, 2 attempts, both build modes, 1 fault of 6 kinds, calls before the launch has returned | `TypeOK`, `OneAttemptRuns`, `BookedUntilGone`, `GroupSpec` (each attempt implements HostGroup), and `ResultDelivered` under `FairSpec` |
| `backend` | 2 sessions, 2 policies, 2 backends, 2 tokens with room for 1, 2 edits, 3 calls; symmetry | `TypeOK`, `OneBackend`, `IdleStopSparesWork`, `PolicyIsEarned` |

A third call at the same time, on the same booking, waits for the same per-GPU
lock as the two that are under way, and rereads the metadata as they do. One GPU
is enough because nothing couples two keys: every action reads and
writes the registry, lock and heartbeat entry of one key. Two jobs are the
contention for it; two attempts are what a retry adds, and a third attempt only
repeats it. Of notices, two attempts and a crash between the two transactions of
a save make the stale rows that delivery must skip; two times are an episode of
uncertainty before and after its grace. Events do not influence each other but
through the delivery thread, so one poll or alert is enough; what is
promised of a result is promised of a backend that stays up, so that run has no
crash. In the passing runs
of `Notifications` a conversation is not archived while a delivery is in doubt
(`SetAside = FALSE`), and in `notify_attempts` no save of an accepted answer fails
(`Unsaved = {}`); see the remarks for what happens otherwise. Two backends
are an owner and a successor, or two repositories. The proofs do not depend on
these bounds.

Two cases and room for one make a case wait while another runs, and a retry
start beside it; two requests are a stop after a retry or a retry that is
refused; two faults are, say, a client that fails and a supervisor that is killed
while it deals with that, or a service that dies and a teardown that fails. A
third case would only wait. Two callers of a build are the launch, or a session, and
whoever manages the job meanwhile: the locks admit no third one. Two attempts are the
only neighbours a retry has; one fault at a time, since each
fault already meets every interleaving of the two callers and of the processes
on the host. Two sessions are a starter and one who meets it, two backends an old
and a new one; with one pending token allowed, the second preview evicts the
first; two edits change a policy between preview and reload, or change it and
change it back; three calls are, say, a preview, its reload, and another
session's work.

### Fairness

`FairSpec` assumes that a status answer that has begun goes on (weak fairness:
it is straight-line code in a live thread), that a monitor, which runs every
second in each backend, again and again gets the answer "gone" with the result
visible when that answer is possible (strong fairness: a host that answers
eventually answers, NFS eventually shows a file), that a cleanup which may
remove the booking eventually does, and that a booking nobody keeps alive grows
stale. Nothing is assumed of sessions, launches, retries, starts of backends or
programs: none of them has to happen, and a booking whose live owner is cut off
need not lapse. `CompletedIsReleased` holds as long as a backend serves the job.

`LiveSpec` assumes that a call which holds the job's lock goes on (straight-line
code with timeouts), and, for the event of a result: that the delivery thread,
which goes through the list of pending events without end, gets the lock when it
is free again and again (the monitor sleeps between its passes), that preparing
the delivery does not fail for ever, that its conversation is not archived for
ever, and that not every request is refused. An exchange may always end without
a reply. Nothing is assumed of sessions, programs or time.

`MpsWorker!FairSpec` assumes of the supervisor, a loop that sleeps 50 ms per turn,
that it goes on (weak fairness) and that each turn comes by every case, the
request queue, the stop flag and the closing test: the model leaves their order
within a turn open, so each of them gets strong fairness. The processes it
starts are scheduled: a client boots, obeys a command it has read, and leaves. It
does not assume that a script ends, so a stop must reach a script that never
returns. `StopEndsSweep` excepts the faults after which the supervisor is gone or
keeps the sweep paused; the cleanup of orphans is a call somebody has to make.

`MpsManager!FairSpec` assumes that calls go on (each step is code with a
timeout), that the monitor of each live backend checks the sweep again and again
(strong fairness, since another call may hold the lock when it comes by), that a
sweep with a result ends, and that a booking without heartbeats grows stale.
`BuildJobs!FairSpec` assumes the first two. Its `ResultDelivered` asks for the saved
result and the freed GPU; that the record is inactive in the end as well it asks only
if no call released the GPU before the launch returned. Nothing is assumed of builds, other
jobs or sessions. `SharedBackend` has safety properties only, and no fairness.

## Proofs

`ManagedJobsTypes!TypeCorrect` proves `Spec => [](TypeOK /\ IdsKnown)`.

`ManagedJobsProofs` proves, for any number of backends, repositories, GPUs, jobs
and attempts:

- `LeaseInvariant`: `Spec => [](TypeOK /\ LeaseInv)`,
- `LeaseSafe` and `BookingTrue`: its consequences `LiveAttemptHoldsLease` and
  `BookingNamesItsProcess`,
- `ExclusiveUse`: `OneProgramPerGpu`,
- `LeaseKept`: `Spec => LeaseSpec`, `ManagedJobs` implements `GpuLease`.

They assume `NoMisread`, that no exit code of a failing inspection reads as
"process missing"; `ExclusiveUse` also assumes that nobody uses
`kill_gpu_process` with KILL. The remarks say what the code does in these two
cases. All other faults are allowed.

`LiveAttemptHoldsLease` is not inductive: that an attempt which runs holds the
booking survives a release only because the call that releases has seen the
recorded process end, that this is still the process of the booked attempt when
the lock is taken, and that a claimed retry cannot be overtaken. `LeaseInv`
states what each call in progress knows at each of its steps:

- `LaunchSound`: until its last write a launch still has the booking it made,
  for attempt 1 and without a process id (this is why no other backend can free
  it: without a process id the inspection answers "unknown");
- `CallSound`: a release or a retry has seen the booked process ended, a retry's
  new attempt has not been started before it is claimed, and the claim stays in
  place until the process is recorded or the old booking restored;
- `LeaseHeld`: a live attempt holds its booking;
- `BookingSound`: a booking names no process or that of its attempt, and belongs
  to a launch that has not given it up. A launch that failed before its start gives
  its booking up only by removing it: when the metadata cannot be read at that point
  it records the job as inactive and keeps the booking, which then holds for an
  attempt that never ran;
- `CleanupSound`: a stale cleanup under way has seen the process it names ended;
- `CreatedAlone`: an empty directory belongs to one launch.

The proof has a lemma per action or group of actions; most actions leave all but
one conjunct alone, and frame lemmas (`ProcEffect`, `CallFrame`, ...) say so
once. `ExclusiveUse` adds the auxiliary invariant `NoOrphans`.
`LeaseKept` needs `LeaseInv` for the steps that free or hand over a booking: that
the former holder's program has ended, or was never started, is what the call
that takes the step knows (`LeaseMoves`, `LeaseUsed`). Which actions move a
booking at all, and how, is said once (`LaunchActs`, `ManageActs`, `RetryActs`);
every other step is a stutter, or the step of a program, of `GpuLease`.

`ManagedJobsRecords` proves, on the same assumption `NoMisread` and with the
faults each theorem names left out:

- `OwnersKept`: `Spec => [](TypeOK /\ LeaseInv /\ OwnerInv)`, and from it
  `FreshKept`: `FreshReservationUntouched`, with every fault,
- `RecordsTrue`: `Spec => [](TypeOK /\ LeaseInv /\ OwnerInv /\ RecInv)`,
- `InactiveTrue`: `InactiveMeansReleased`, if metadata can be read,
- `ShutdownClean`: `ShutdownLeavesNoBooking`, if moreover no retry is torn,
- `SavedFirst` and `ResultKept`: `ResultSavedBeforeRelease` and
  `SavedResultKept`, if sessions wait for a launch to return before they manage
  its job.

`OwnerInv` says whose a booking, a call and a retry are; a fresh booking is
changed only by a call of its owner, which is up. `RecInv` says what the record,
and the copies of it that calls under way are going to save, know: what a launch
has saved at each of its steps (`LaunchSaved`), that a status answer saves a copy
of the attempt on record that keeps its result and is right about the booking
when it says inactive (`CallSaves`, `CallReturns`), where the record stands
between the two writes of a retry (`RetrySaves`), and that the record of a live
backend's job names the booked attempt (`Recorded`). None of the four properties
is inductive without them: a save may come long after what it saves was read, so
each needs that nothing else could have changed the record or the booking in
between, which is the lock of the job, the absence of early calls, or the fact
that a booking once gone does not come back for the same attempt. Each part of
`RecInv` names the faults it does not bear (`Readable`, `Late`, `Untorn`), so a
theorem assumes no more than it uses. TLC checked each strengthening on the
instances of the runs before it was proved.

`NotificationsProofs` proves, for any number of attempts, times, crashes,
notices and retries asked for, and on the assumptions `~SetAside` and
`Unsaved = {}` (the code sends a notice again whose acceptance it could not save):

- `OnceInvariant`: `Spec => []OnceInv`,
- `ReceivedOnce`: its consequence `AtMostOnce`.

`AtMostOnce` is not inductive: whether the next request is one too many depends
on what the table says. `OnceInv` adds that an event that reads as unsent has
arrived no more often than it was asked for again (`TableSound`), and, of a call
that has an event in hand, that the state it will restore when it fails is still
true, that a request leaves only after its event reads as in doubt, and that an
event found in doubt stays so (`CallSound`). A save can only retire rows and add
rows of events that have never arrived; `KeptSound` says so once for all saves
and notices.

A second invariant, `Known` (`KnownInvariant`), needs no assumption, `SetAside` and
`Unsaved` included: the types, that a job without a record has no attempt, and that the
delivery works for an attempt on record with an event of the table
(`CallKnown`). From it follow

- `NoticeTypes`: `TypeOK`,
- `DeliveredStays`: `AcceptedKept`,
- `FormerAttemptsSilent` and `OvertakenSilent`: `OldAttemptSilent` and
  `OvertakenNotSent`: the request is sent by the call that holds the job's lock
  since it compared the event with the record, and nobody saves in between.

`BuildJobsProofs` proves, for any number of callers, attempts and faults and
without a further assumption:

- `Invariance`: `Spec => []Inv`, with its consequences `TypesHold` (`TypeOK`),
  `OneAttemptAtATime` (`OneAttemptRuns`) and `BookedWhilePending`
  (`BookedUntilGone`),
- `EveryAttemptIsAGroup`: `GroupSpec`, each attempt implements `HostGroup`.

`OneAttemptRuns` rests on `RecSound`: an attempt that runs or may still start is
the one on record. A retry keeps that because the next attempt is recorded and
sent only by a caller that has seen the recorded one gone. At most two callers are
at work: the launch of the job, and the one that holds the lock (`Alone`). `Holds`
says what each of them has in hand at each of its steps: a call that judges works on
the attempt of the record (`Judges`), a launch in preparation on the next one, whose
command was never sent (`Prepares`), a launch whose command is sent on the recorded
one, except the launch of the job, which is about the first attempt while early calls
may have recorded a newer one (`Launches`). This survives the steps on the host
because gone is final there (`HostKept`, from what the files of an attempt say of its
processes, `WorkerSound`), and those of the other caller because beside a preparation
there is at most the launch of the first attempt, which saves nothing of another
attempt. `Booked` adds that a pending attempt, and one about to be sent, has the
booking, and that the booking is described as what it is unless a call released the
GPU early; with a backend that stays up its metadata does not matter, since nobody
cleans up a booking that is kept alive.

`MpsManagerProofs` proves `Invariance` and from it `ManagerTypes` (`TypeOK`),
`GpuBookedUntilGone` (`BookedUntilGone`), `GivenUpMeansReleased`
(`InactiveMeansReleased`) and `ResultIsSavedFirst` (`ResultSavedBeforeRelease`),
without a further assumption. `BookedUntilGone` needs that a call which has been
told "gone" works on a copy of the record of a sweep that stays gone (`OpSound`),
that a launch gives its booking up only when its command has not left or was
refused (`LaunchSound`, `GroupSound`), and that a saved result is that of the
sweep (`TrueOutcome`).

`MpsWorkerProofs` proves, for any number of cases and requests, any limit of
concurrency and every fault:

- `Invariance`: `Spec => []Inv`, with its consequences `WorkerTypes` (`TypeOK`),
  `QueueServed` (`AcceptedIsApplied`), `SuccessIsTrue` (`SuccessIsEarned`) and
  `LimitHolds` (`Bounded`),
- `TornDownBeforeExit`: `TeardownFirst`,
- `SweepIsAGroup`: `GroupSpec`, the sweep implements `HostGroup`.

All of it turns on what a supervisor that is killed leaves on disk. `KnownOnDisk`
and `ServiceKnown`: a process that runs is named in `state.json`, or the saved
state says that it may have been launched; `Supervised`:
whatever runs is the current attempt of a case that the supervisor's memory has
as launching or running, and no more run than the limit allows; `LaunchSound` and
`PlaceSound`: what is saved, and what is not yet started, at each point of the
supervisor's start, of a case's turn and of the closing; `LetGo`: who has been told to
leave has its contexts torn down; `OutcomeSound` and `SucceededSound`: an outcome
is written after the last process has ended, and what a success means. For the
refinement, `GoneMeans` says that "gone" is answered only when nothing runs and
the supervisor has ended or was refused, so that nothing can start any more.

`SharedBackendProofs` proves, for any finite number of sessions and any number
of policies, processes, tokens, edits and calls, all four invariants of
`SharedBackend`, without a further assumption:

- `Invariance`: `Spec => []Inv`,
- `SharedTypes`, `PolicyEarned`, `IdleStop`, `OneSharedBackend`: its consequences
  `TypeOK`, `PolicyIsEarned`, `IdleStopSparesWork`, `OneBackend`.

None of the four is inductive, and each needs something else:

- `TypeOK` bounds the count of calls in a backend by the number of sessions;
  this follows only from what the count means (`Counted`): it equals the number
  of sessions whose call has been admitted and has not ended, which in turn
  needs that a call in a backend is connected to a process that runs (`Placed`);
- `IdleStopSparesWork` follows from `Counted` and `StopsIdle`: a backend agrees
  to stop at zero calls and admits none afterwards, so none is inside;
- `PolicyIsEarned`: between the steps of a reload the file may change, so what
  counts is what the reload carries (`Shown`): the token's candidate was shown
  and agreed to when the call was made, and the file is compared with it at each
  of the three times it is read;
- `OneBackend`: the lock is held exactly by the session that replaces or starts a
  backend (`LockHeld`), and, unless one was left behind, the backend that runs is
  listed in `backend.json`, or awaited by the holder of the lock (`OneStarts`):
  whoever finds none listed under the lock is right that there is none.

A step of one session is described once for all actions (`Sound`: what it does
to its own connection, the lock and the counts), and the four parts of `Base` are
proved from that description.

Model-checked only: the liveness properties `CompletedIsReleased`,
`ResultReachesOwner`, `ResultDelivered` (of `MpsManager` and of `BuildJobs`) and
`StopEndsSweep`, since the prover has no ENABLED; and the two runs that end with a
counterexample. Every other property of a passing run is a theorem. The
runs of properties that hold only without some fault leave that fault out, and
some of them more, to stay small; the theorems name exactly what they exclude.

## Findings

Two runs end with a counterexample.

1. `unregister_other`: after a release, the late `unregister` of the key drops
   the heartbeat of the next job on the same GPU (`gpu_mcp_backend.py:3306`).
2. `mps_abort`: the supervisor answers a client that did not attach and polls it
   in the same turn. If the client has given up its context, reported that and
   exited by then, its report is read no more: the exit counts as one without
   teardown, and the whole sweep is paused and stopped, although `docs/mps.md`
   says that such a failure fails only that case (`gpu_mcp_mps_worker.py:555`).

### Remarks

Met while modelling; no run of this project shows them. The first six contradict
the documentation.

- A retry starts from a copy of the former record: until the next status answer
  it reads as terminal with the former attempt's result
  (`gpu_mcp_backend.py:2655`; `docs/adr/0008`, line 346).
- One failed read of `metadata.json` makes a status answer save the job as
  holding no reservation; the GPU stays booked (`gpu_mcp_backend.py:2269`;
  `docs/adr/0008`, line 189). A launch that failed before its start does the same
  (`gpu_mcp_backend.py:2588`). `InactiveMeansReleased` is checked without it.
- A retry whose metadata write fails, and which cannot put the record back
  either, leaves record and booking naming different attempts; a status answer
  then finds no reservation of the recorded attempt, the job reads as inactive,
  and a backend that stops leaves the booking to the stale cleanup
  (`gpu_mcp_backend.py:2469`). `ShutdownLeavesNoBooking` is checked and proved
  without it.
- KILL of the supervisor leaves its program, in a session of its own, on a GPU
  that is then freed (`gpu_mcp_backend.py:4094`; `README.md`, line 22).
- The text "exit code: 1", looked for as "no such process", is also in exit codes
  10-19 and 100-199 (`gpu_mcp_backend.py:1855`; `docs/adr/0008`, line 189).
- A delivery in doubt becomes `archived` with its conversation, which no longer
  says that it may have arrived; it is sent again afterwards
  (`gpu_mcp_codex_daemon.py:190`; `docs/adr/0008`, line 282).
- An uncertainty that changes and comes back within an episode meets the event
  retired when it first changed, and is never announced
  (`gpu_mcp_codex_state.py:236`; `docs/adr/0008`, line 280).
- MPS: a client that dies right after it has reported ready makes the `os.write`
  of the answer raise outside any `try`, and so does a control command that times
  out (`subprocess.TimeoutExpired` is neither a RuntimeError nor an OSError): the
  supervisor ends and leaves the other cases as orphans.
- MPS: a supervisor killed between the launch intent and the saved process leaves
  a sweep whose inspection answers "unknown" for good, as does a cleanup that says
  "stopped" of a case that never had a server: the GPU stays booked. So does a
  crash of the backend between booking and the launch command.
- Builds: `release` ends the heartbeat before it removes the reservation; if the
  removal, or the save after it, fails, later releases raise and the job can be
  neither finished nor retried. `ResultDelivered` excepts this (fault `release`).
- Builds: the launch holds no lock of the job. A call that comes before it returns may
  save the result and release the GPU; the launch then saves its own copy, active and
  without a result (`gpu_mcp_builds.py:284`, or 276 after a lost reply). The next
  status answer saves the result again, but its release raises, since the booking is
  gone: the record stays active, and the job can be neither finished nor retried.
  `ResultDelivered` excepts the record's `active` then.
- Builds: the launch records its process id without an expected identity
  (`gpu_mcp_builds.py:281`). If an early call released the GPU and a retry booked it
  again, the new booking is described as the former attempt's; should the backend die
  later, the stale cleanup finds that attempt gone and frees the GPU of one that runs.
  `BookedUntilGone` excepts exactly this (`Misdescribed`).
- Builds: an exception between registering an attempt and saving it undoes the booking
  and leaves the record of an attempt whose command was never sent; inspections then
  answer "unknown" for good (`gpu_mcp_builds.py:260`).
- A notice whose acceptance cannot be saved is put back as it was found and sent again
  (`gpu_mcp_codex_runtime.py:482`).
- Builds: TERM before bubblewrap runs is only remembered; the build runs to its
  end and is then recorded as a failure. A build of a former backend is released
  by the stale cleanup alone, and its record stays active.
- Policy: the globals of `_apply_policy` and the active hash are set without a
  lock, so overlapping reloads and admitted calls can see a mixture; the approval
  store is read, changed and written without a lock, which can lose another
  repository's approval (that repository is then in quarantine).
- Launcher: a launcher that times out, or is killed, while its child starts
  releases the lock; the next one may start a second backend. `OneBackend` excepts
  this (`abandoned`).

## Not modelled

update_cadence of sweeps and builds (times only); unreadable metadata in
`MpsManager`; the wire protocol, credentials and command line of the host; the
mounts and the socket filter of builds; milestones and MPS case failures as
notices, and delivery while a policy awaits review; the script guard, which has
no states; display and terminal modules, which change no job state; upgrade, SSH
recovery and doctor, which a person runs one at a time (the doctor's approval is
an action of `SharedBackend`).

## Plan

Done: the lifecycle and its lease, notices, sweeps, builds, the shared backend
and its policy, with proofs of all their safety properties. Next, in order:

1. `MpsManager` composed with `MpsWorker` by name: what the manager's theorems
   say of a sweep, stated over the worker's processes.
2. `Notifications`: milestones, MPS case failures and the delivery that runs
   while a policy awaits review.
3. The recovery over SSH and the upgrade, whose steps meet a running backend only
   through `startup.lock` and `backend.json`.
