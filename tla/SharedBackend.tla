----------------------------- MODULE SharedBackend -----------------------------
(***************************************************************************)
(* The backend that the sessions of one repository share: the launcher and *)
(* relay of each session, which find a backend or start one; the admission *)
(* of calls and the idle stop, which an update of the installed code asks  *)
(* for; and the policy, which is verified at the start, previewed, reloaded*)
(* or rejected with one-time tokens, and compared with gpu-mcp.toml before *)
(* each operational call.                                                  *)
(*                                                                         *)
(* Everything runs on one control host, and a session makes one call at a  *)
(* time. Protocol version, runtime settings and policy path are the same   *)
(* for all. A policy and its hash are one value, so equal hashes mean equal*)
(* policies. The approval store has one entry, that of this repository.    *)
(* What an operational call does is left to the modules of the jobs: here  *)
(* it may leave one active job behind, whose end its backend observes.     *)
(***************************************************************************)
EXTENDS Naturals, FiniteSets

CONSTANTS
    Session,      \* sessions of the repository, each with its relay
    NoSession,
    Policy,       \* contents of gpu-mcp.toml that are valid policies
    NoPolicy,     \* no policy: a missing or invalid file, none active
    MaxPending,   \* POLICY_RELOAD_MAX_PENDING
    MaxBackends,  \* bound: backend processes
    MaxTokens,    \* bound: reload tokens
    MaxEdits,     \* bound: edits of gpu-mcp.toml
    MaxCalls      \* bound: calls that the sessions make

ASSUME SharedBackendAssumption ==
    /\ IsFiniteSet(Session) /\ NoSession \notin Session /\ NoPolicy \notin Policy
    /\ {MaxPending, MaxBackends, MaxTokens} \subseteq Nat \ {0}
    /\ {MaxEdits, MaxCalls} \subseteq Nat

VARIABLES
    file,       \* gpu-mcp.toml
    edits,
    store,      \* the approved hash
    consent,    \* history: policies that a human has agreed to
    installed,  \* the version of the installed code
    listed,     \* the backend that backend.json names, 0 for none
    lock,       \* who holds startup.lock
    abandoned,  \* history: a launcher has left the backend it was starting
    backend,    \* the backend processes, in the order of their start
    token,      \* the reload tokens, in the order of their previews
    asked,      \* number of calls so far
    op          \* what each session is doing

disk == <<file, edits, store, consent, asked>>
launch == <<installed, listed, lock, abandoned>>
shared == <<file, edits, store, consent, installed, listed, lock, abandoned, backend, token,
            asked, op>>

-----------------------------------------------------------------------------

Backend == 1..MaxBackends
Token == 1..MaxTokens
Version == {1, 2}

Phase == {"none", "booting", "listed", "serving", "stopping", "dead"}
Process == [phase: Phase, code: Version, policy: Policy \cup {NoPolicy},
            hash: Policy \cup {NoPolicy}, pending: SUBSET Token,
            calls: 0..Cardinality(Session), job: BOOLEAN]
NoProcess == [phase |-> "none", code |-> 1, policy |-> NoPolicy, hash |-> NoPolicy,
              pending |-> {}, calls |-> 0, job |-> FALSE]

\* A token shows its candidate to the human, as a change of the base.
Preview == [candidate: Policy \cup {NoPolicy}, base: Policy \cup {NoPolicy}]
NoPreview == [candidate |-> NoPolicy, base |-> NoPolicy]

Pc == {"idle", "ensure", "ask", "drain", "await", "send", "admit", "run",
       "approve", "apply", "activate"}
InBackend == {"admit", "run", "approve", "apply", "activate"}
Kind == {"work", "preview", "reload", "reject"}
Operation == [pc: Pc, kind: Kind, to: 0..MaxBackends, new: 0..MaxBackends,
              token: Token \cup {0}, candidate: Policy \cup {NoPolicy}]
NoOperation == [pc |-> "idle", kind |-> "work", to |-> 0, new |-> 0, token |-> 0,
                candidate |-> NoPolicy]

TypeOK ==
    /\ file \in Policy \cup {NoPolicy} /\ store \in Policy \cup {NoPolicy}
    /\ edits \in 0..MaxEdits /\ consent \subseteq Policy /\ installed \in Version
    /\ listed \in 0..MaxBackends /\ lock \in Session \cup {NoSession} /\ abandoned \in BOOLEAN
    /\ backend \in [Backend -> Process] /\ token \in [Token -> Preview]
    /\ asked \in 0..MaxCalls /\ op \in [Session -> Operation]

SharedInit ==
    /\ file \in Policy \cup {NoPolicy} /\ edits = 0
    /\ \E approved \in {{}} \cup {{p} : p \in Policy} :
          /\ consent = approved
          /\ store = IF approved = {} THEN NoPolicy ELSE CHOOSE p \in approved : TRUE
    /\ installed = 1 /\ listed = 0 /\ lock = NoSession /\ abandoned = FALSE
    /\ backend = [b \in Backend |-> NoProcess] /\ token = [t \in Token |-> NoPreview]
    /\ asked = 0 /\ op = [s \in Session |-> NoOperation]

Exists(b) == b # 0 /\ backend[b].phase \notin {"none", "dead"}

-----------------------------------------------------------------------------
(* Finding or starting a backend: forward and ensure_backend.               *)

Go(s, pc) == op' = [op EXCEPT ![s].pc = pc]

\* A connection keeps the backend it knows for its next call.
Return(s) == op' = [op EXCEPT ![s] = [NoOperation EXCEPT !.to = op[s].to]]

\* ensure_backend returns a backend and the lock is released.
Connect(s, b) ==
    /\ op' = [op EXCEPT ![s] = [@ EXCEPT !.pc = "send", !.to = b, !.new = 0]]
    /\ lock' = NoSession

\* It raises an exception.
GiveUp(s) == Return(s) /\ lock' = NoSession

\* A tool call reaches the relay; a human decides on a token that exists.
Call(s, kind, t) ==
    /\ op[s].pc = "idle" /\ asked < MaxCalls /\ asked' = asked + 1
    /\ IF kind \in {"reload", "reject"} THEN t # 0 /\ token[t] # NoPreview ELSE t = 0
    /\ op' = [op EXCEPT ![s] = [@ EXCEPT !.pc = IF Exists(op[s].to) THEN "send" ELSE "ensure",
                                         !.kind = kind, !.token = t]]
    /\ consent' = IF kind = "reload" THEN consent \cup {token[t].candidate} ELSE consent
    /\ UNCHANGED <<file, edits, store, launch, backend, token>>

\* Mutant: nobody waits for the lock.
LockIgnored == TRUE

LockIsFree == lock = NoSession

\* A backend that does not serve yet cannot be verified.
Look(s) ==
    /\ op[s].pc = "ensure" /\ LockIsFree /\ Exists(listed)
    /\ IF backend[listed].phase = "listed" THEN GiveUp(s)
       ELSE IF backend[listed].code = installed THEN Connect(s, listed)
       ELSE op' = [op EXCEPT ![s] = [@ EXCEPT !.pc = "ask", !.new = listed]] /\ lock' = s
    /\ UNCHANGED <<disk, installed, listed, abandoned, backend, token>>

\* Mutant: calls under way do not count.
JobsGone(b) == ~backend[b].job

\* shutdown_if_idle: neither a call nor an active job.
Idle(b) == backend[b].calls = 0 /\ ~backend[b].job

Stopping(b) == [backend EXCEPT ![b].phase = "stopping"]

\* stop_if_idle, for new code: a refusal keeps the old backend.
AskToStop(s) ==
    /\ op[s].pc = "ask"
    /\ LET b == op[s].new
       IN CASE ~Exists(b) -> GiveUp(s) /\ UNCHANGED backend
            [] Exists(b) /\ Idle(b) -> Go(s, "drain") /\ backend' = Stopping(b) /\ UNCHANGED lock
            [] Exists(b) /\ ~Idle(b) -> Connect(s, b) /\ UNCHANGED backend
    /\ UNCHANGED <<disk, installed, listed, abandoned, token>>

\* The wait for the end of the stopping backend takes too long.
DrainTimeout(s) ==
    /\ op[s].pc = "drain" /\ Exists(op[s].new) /\ GiveUp(s)
    /\ UNCHANGED <<disk, installed, listed, abandoned, backend, token>>

Unused == {b \in Backend : backend[b].phase = "none"}

\* No live backend is listed, or the old one has ended: a child is started.
Spawn(s) ==
    /\ \/ op[s].pc = "ensure" /\ LockIsFree /\ ~Exists(listed)
       \/ op[s].pc = "drain" /\ ~Exists(op[s].new)
    /\ lock' = s
    /\ \E b \in Unused :
          /\ \A c \in Unused : b <= c
          /\ backend' = [backend EXCEPT ![b] = [NoProcess EXCEPT !.phase = "booting"]]
          /\ op' = [op EXCEPT ![s] = [@ EXCEPT !.pc = "await", !.new = b]]
    /\ UNCHANGED <<disk, installed, listed, abandoned, token>>

\* The child answers, or has ended, or takes longer than the timeout and is
\* left to itself.
Await(s) ==
    /\ op[s].pc = "await"
    /\ LET b == op[s].new
       IN \/ listed = b /\ backend[b].phase \in {"serving", "stopping"} /\ Connect(s, b)
             /\ UNCHANGED abandoned
          \/ backend[b].phase = "dead" /\ GiveUp(s) /\ UNCHANGED abandoned
          \/ Exists(b) /\ GiveUp(s) /\ abandoned' = TRUE
    /\ UNCHANGED <<disk, installed, listed, backend, token>>

\* A launcher dies, and its lock with it.
LauncherDies(s) ==
    /\ lock = s /\ lock' = NoSession /\ op' = [op EXCEPT ![s] = NoOperation]
    /\ abandoned' = (abandoned \/ op[s].pc = "await")
    /\ UNCHANGED <<disk, installed, listed, backend, token>>

-----------------------------------------------------------------------------
(* The backend process.                                                     *)

\* The policy in the file, if it is the approved one; else the quarantine.
Verified == IF file = store THEN file ELSE NoPolicy

\* Import, then run_shared, which writes backend.json, then the service.
Load(b) ==
    /\ backend[b].phase = "booting" /\ listed' = b
    /\ backend' = [backend EXCEPT ![b] = [@ EXCEPT !.phase = "listed", !.code = installed,
                                                   !.policy = Verified, !.hash = Verified]]
    /\ UNCHANGED <<disk, installed, lock, abandoned, token, op>>

Serve(b) ==
    /\ backend[b].phase = "listed" /\ backend' = [backend EXCEPT ![b].phase = "serving"]
    /\ UNCHANGED <<disk, launch, token, op>>

\* A process ends: a stop, a failed start or a crash. Its calls fail.
End(b) ==
    /\ Exists(b)
    /\ backend' = [backend EXCEPT ![b] = [NoProcess EXCEPT !.phase = "dead"]]
    /\ op' = [s \in Session |-> CASE op[s].to # b -> op[s]
                                 [] op[s].to = b /\ op[s].pc \in InBackend -> NoOperation
                                 [] OTHER -> [op[s] EXCEPT !.to = 0]]
    /\ UNCHANGED <<disk, launch, token>>

\* The human stops an idle backend from the command line.
HumanStops(b) ==
    /\ backend[b].phase = "serving" /\ Idle(b) /\ backend' = Stopping(b)
    /\ UNCHANGED <<disk, launch, token, op>>

JobEnds(b) ==
    /\ backend[b].phase = "serving" /\ backend[b].job
    /\ backend' = [backend EXCEPT ![b].job = FALSE]
    /\ UNCHANGED <<disk, launch, token, op>>

-----------------------------------------------------------------------------
(* A call in the backend.                                                   *)

\* Mutant: a call that ends is still counted.
StillCounted(b) == backend[b].calls

OneLess(b) == backend[b].calls - 1

Leave(s, b, p) == Return(s) /\ backend' = [backend EXCEPT ![b] = [p EXCEPT !.calls = OneLess(b)]]

\* The gate of an operational call: the active policy is the one in the file.
Send(s) ==
    /\ op[s].pc = "send"
    /\ LET b == op[s].to
       IN IF Exists(b)
             /\ (op[s].kind = "work" => backend[b].policy # NoPolicy /\ backend[b].hash = file)
          THEN Go(s, "admit")
          ELSE Return(s)
    /\ UNCHANGED <<disk, launch, backend, token>>

Admit(s) ==
    /\ op[s].pc = "admit"
    /\ LET b == op[s].to
       IN IF backend[b].phase = "stopping" THEN Return(s) /\ UNCHANGED backend
          ELSE Go(s, "run") /\ backend' = [backend EXCEPT ![b].calls = @ + 1]
    /\ UNCHANGED <<disk, launch, token>>

Work(s) ==
    /\ op[s].pc = "run" /\ op[s].kind = "work"
    /\ LET b == op[s].to
       IN \E job \in BOOLEAN : Leave(s, b, [backend[b] EXCEPT !.job = @ \/ job])
    /\ UNCHANGED <<disk, launch, token>>

\* preview_policy_reload: beyond the cap, the oldest token goes.
PreviewReload(s) ==
    /\ op[s].pc = "run" /\ op[s].kind = "preview"
    /\ LET b == op[s].to
           free == {t \in Token : token[t] = NoPreview}
       IN IF file = NoPolicy \/ free = {} THEN Leave(s, b, backend[b]) /\ UNCHANGED token
          ELSE \E t \in free :
               /\ \A u \in free : t <= u
               /\ token' = [token EXCEPT ![t] = [candidate |-> file, base |-> backend[b].hash]]
               /\ LET kept == backend[b].pending \cup {t}
                  IN Leave(s, b, [backend[b] EXCEPT !.pending =
                         {u \in kept : Cardinality({v \in kept : v > u}) < MaxPending}])
    /\ UNCHANGED <<disk, launch>>

\* A token is too old.
Expire(b, t) ==
    /\ t \in backend[b].pending /\ backend' = [backend EXCEPT ![b].pending = @ \ {t}]
    /\ UNCHANGED <<disk, launch, token, op>>

Reject(s) ==
    /\ op[s].pc = "run" /\ op[s].kind = "reject"
    /\ LET b == op[s].to IN Leave(s, b, [backend[b] EXCEPT !.pending = @ \ {op[s].token}])
    /\ UNCHANGED <<disk, launch, token>>

\* Mutant: the file is not compared with the preview.
AnyValidFile(t) == file # NoPolicy

AsPreviewed(t) == file = token[t].candidate

\* reload_policy: the token is taken, and the file loaded and compared.
Reload(s) ==
    /\ op[s].pc = "run" /\ op[s].kind = "reload"
    /\ LET b == op[s].to
           t == op[s].token
           taken == [backend[b] EXCEPT !.pending = @ \ {t}]
       IN IF t \in backend[b].pending /\ token[t].base = backend[b].hash /\ AsPreviewed(t)
          THEN /\ op' = [op EXCEPT ![s] = [@ EXCEPT !.pc = "approve", !.candidate = file]]
               /\ backend' = [backend EXCEPT ![b] = taken]
          ELSE Leave(s, b, taken)
    /\ UNCHANGED <<disk, launch, token>>

\* approve_policy, which loads the file again.
Approve(s) ==
    /\ op[s].pc = "approve"
    /\ IF file = op[s].candidate
       THEN store' = file /\ Go(s, "apply") /\ UNCHANGED backend
       ELSE Leave(s, op[s].to, backend[op[s].to]) /\ UNCHANGED store
    /\ UNCHANGED <<file, edits, asked, consent, launch, token>>

\* The file is read once more before _apply_policy.
Apply(s) ==
    /\ op[s].pc = "apply"
    /\ LET b == op[s].to
       IN IF file = op[s].candidate
          THEN Go(s, "activate") /\ backend' = [backend EXCEPT ![b].policy = file]
          ELSE Leave(s, b, backend[b])
    /\ UNCHANGED <<disk, launch, token>>

\* The hash follows, and all pending tokens end.
Activate(s) ==
    /\ op[s].pc = "activate"
    /\ LET b == op[s].to
       IN Leave(s, b, [backend[b] EXCEPT !.hash = op[s].candidate, !.pending = {}])
    /\ UNCHANGED <<disk, launch, token>>

-----------------------------------------------------------------------------
(* The environment.                                                         *)

Edit ==
    /\ edits < MaxEdits /\ edits' = edits + 1
    /\ \E content \in (Policy \cup {NoPolicy}) \ {file} : file' = content
    /\ UNCHANGED <<store, consent, asked, launch, backend, token, op>>

\* gpu_mcp_doctor.py approve-policy, by a human.
DoctorApproves ==
    /\ file # NoPolicy /\ store # file /\ store' = file /\ consent' = consent \cup {file}
    /\ UNCHANGED <<file, edits, asked, launch, backend, token, op>>

Update ==
    /\ installed = 1 /\ installed' = 2
    /\ UNCHANGED <<disk, listed, lock, abandoned, backend, token, op>>

Next ==
    \/ \E s \in Session : \/ \E kind \in Kind, t \in Token \cup {0} : Call(s, kind, t)
                          \/ Look(s) \/ AskToStop(s) \/ DrainTimeout(s)
                          \/ Spawn(s) \/ Await(s) \/ LauncherDies(s)
                          \/ Send(s) \/ Admit(s) \/ Work(s) \/ PreviewReload(s)
                          \/ Reject(s) \/ Reload(s) \/ Approve(s)
                          \/ Apply(s) \/ Activate(s)
    \/ \E b \in Backend : Load(b) \/ Serve(b) \/ End(b) \/ HumanStops(b) \/ JobEnds(b)
    \/ \E b \in Backend, t \in Token : Expire(b, t)
    \/ Edit \/ DoctorApproves \/ Update

Spec == SharedInit /\ [][Next]_shared

-----------------------------------------------------------------------------
(* Properties.                                                              *)

\* One automatically started backend per repository, whatever sessions connect,
\* stop and update at the same time; except when a launcher has left behind the
\* backend that it was starting.
OneBackend == abandoned \/ Cardinality({b \in Backend : Exists(b)}) <= 1

\* A backend that has agreed to stop runs no call and owns no active job, though
\* calls may be on their way to it.
IdleStopSparesWork ==
    \A b \in Backend :
        backend[b].phase = "stopping" =>
            /\ ~backend[b].job
            /\ \A s \in Session : op[s].to = b => op[s].pc \notin InBackend \ {"admit"}

\* Never use an unapproved policy: whatever is active, or would be at the next
\* start, a human has agreed to, although the file may be edited between the
\* steps of a reload.
PolicyIsEarned ==
    /\ store # NoPolicy => store \in consent
    /\ \A b \in Backend : backend[b].policy # NoPolicy => backend[b].policy \in consent
=============================================================================
