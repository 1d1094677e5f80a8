-------------------------- MODULE SharedBackendProofs --------------------------
(***************************************************************************)
(* Proofs about the shared backend, for any number of sessions, policies,  *)
(* backend processes, tokens, edits and calls: only what a human agreed to *)
(* becomes active, an idle stop spares the calls under way, and no second  *)
(* backend starts unless a launcher has left one behind.                   *)
(*                                                                         *)
(* Inv is inductive. Base is proved from what a step of one session does   *)
(* (Sound): to connections, to startup.lock and to the counts of calls.    *)
(* PolicyIsEarned needs to know what reloads under way carry (Shown); and  *)
(* OneBackend, who may be waiting for the one that runs (OneStarts).       *)
(***************************************************************************)
EXTENDS SharedBackend, Integers, FiniteSetTheorems, TLAPS

-----------------------------------------------------------------------------
(* The inductive invariant.                                                 *)

Choice == Policy \cup {NoPolicy}

\* TypeOK, but for the bound of the counts of calls, which Counted gives.
Shape == [phase: Phase, code: Version, policy: Choice, hash: Choice,
          pending: SUBSET Token, calls: Int, job: BOOLEAN]
DiskTyped ==
    /\ file \in Choice /\ store \in Choice /\ consent \subseteq Policy
    /\ edits \in 0..MaxEdits /\ asked \in 0..MaxCalls
ListTyped == installed \in Version /\ listed \in 0..MaxBackends
LockTyped == lock \in Session \cup {NoSession}
BackendTyped == backend \in [Backend -> Shape]
TokenTyped == token \in [Token -> Preview]
OpTyped == op \in [Session -> Operation]
Typed ==
    /\ DiskTyped /\ ListTyped /\ LockTyped /\ abandoned \in BOOLEAN
    /\ BackendTyped /\ TokenTyped /\ OpTyped

\* Sessions whose call the backend has admitted, and is counting.
Admitted == {"run", "approve", "apply", "activate"}
Inside(b) == {s \in Session : op[s].to = b /\ op[s].pc \in Admitted}
Counted == \A b \in Backend : backend[b].calls = Cardinality(Inside(b))

\* A connection is to a backend that runs; calls in a backend have one.
Placed ==
    \A s \in Session : /\ op[s].to # 0 => Exists(op[s].to)
                       /\ op[s].pc \in InBackend => op[s].to # 0

\* startup.lock is held by the session that starts or replaces a backend.
Starting == {"ask", "drain", "await"}
LockHeld == \A s \in Session : lock = s <=> op[s].pc \in Starting

\* What humans were shown, what they agreed to, and what a reload carries on.
Offered == \A t \in Token : token[t] = NoPreview \/ token[t].candidate \in Policy
Late == {"approve", "apply", "activate"}
Honest(s) ==
    /\ op[s].kind \in {"reload", "reject"} => op[s].token \in Token
    /\ op[s].kind = "reload" => /\ token[op[s].token] # NoPreview
                                /\ token[op[s].token].candidate \in consent
    /\ op[s].pc \in Late => op[s].candidate \in consent
Shown == Offered /\ \A s \in Session : Honest(s)

\* A backend that has agreed to stop has no job.
StopsIdle ==
    \A b \in Backend : backend[b].phase = "stopping" =>
        ~backend[b].job /\ backend[b].calls = 0

\* Unless one was left behind, the only backend there is is listed, or awaited by
\* the session that holds the lock.
Awaited(b) == \E s \in Session : op[s].pc = "await" /\ op[s].new = b
One ==
    /\ \A b, c \in Backend : Exists(b) /\ Exists(c) => b = c
    /\ \A b \in Backend : Exists(b) => listed = b \/ Awaited(b)
    /\ \A s \in Session : /\ op[s].pc \in {"ask", "drain"} => op[s].new = listed
                          /\ op[s].pc = "await" => op[s].new \in Backend
OneStarts == ~abandoned => One

Base == Counted /\ Placed /\ LockHeld /\ StopsIdle

Inv == Typed /\ Base /\ Shown /\ PolicyIsEarned /\ OneStarts

-----------------------------------------------------------------------------
(* Types.                                                                   *)

\* A session that has a connection is connected to a backend.
LEMMA InsideKnown ==
    ASSUME OpTyped, BackendTyped, NEW s \in Session, op[s].to # 0
    PROVE  op[s].to \in Backend /\ backend[op[s].to] \in Shape
  <1>1. op[s] \in Operation
    BY DEF OpTyped
  <1>2. op[s].to \in 0..MaxBackends
    BY <1>1 DEF Operation
  <1> QED
    BY <1>2, SharedBackendAssumption DEF BackendTyped, Backend

\* Null values are of their types.
LEMMA NullTypes ==
    /\ NoProcess \in Shape /\ NoPreview \in Preview /\ NoOperation \in Operation
    /\ NoPolicy \in Choice
  BY SharedBackendAssumption
     DEF NoProcess, Shape, NoPreview, Preview, NoOperation, Operation, Choice, Phase, Version,
         Pc, Kind, Token

\* The bounds are natural numbers.
LEMMA Bounds ==
    /\ MaxBackends \in Nat /\ MaxTokens \in Nat /\ MaxEdits \in Nat /\ MaxCalls \in Nat
    /\ Backend \subseteq 0..MaxBackends /\ 0 \in 0..MaxBackends /\ 0 \notin Backend
  BY SharedBackendAssumption DEF Backend

LEMMA TypedInit == ASSUME SharedInit PROVE Typed
  <1>1. store \in Choice /\ consent \subseteq Policy
    BY DEF SharedInit, Choice
  <1>2. /\ edits = 0 /\ listed = 0 /\ asked = 0 /\ installed = 1
        /\ lock = NoSession /\ file \in Choice
    BY DEF SharedInit, Choice
  <1>3. DiskTyped /\ ListTyped /\ LockTyped
    BY <1>1, <1>2, Bounds DEF DiskTyped, ListTyped, LockTyped, Version
  <1>4. abandoned \in BOOLEAN
    BY Zenon DEF SharedInit
  <1>5. BackendTyped /\ TokenTyped /\ OpTyped
    BY NullTypes DEF SharedInit, BackendTyped, TokenTyped, OpTyped
  <1> QED
    BY <1>3, <1>4, <1>5 DEF Typed

\* What replaces a session's operation.
LEMMA PutOp ==
    ASSUME OpTyped, NEW s \in Session, NEW o \in Operation, op' = [op EXCEPT ![s] = o]
    PROVE  OpTyped'
  BY DEF OpTyped

LEMMA GoTyped ==
    ASSUME OpTyped, NEW s \in Session, NEW pc \in Pc, Go(s, pc)
    PROVE  OpTyped'
  <1>1. [op[s] EXCEPT !.pc = pc] \in Operation
    BY DEF OpTyped, Operation
  <1> QED
    BY <1>1, PutOp DEF Go

LEMMA ReturnTyped ==
    ASSUME OpTyped, NEW s \in Session, Return(s)
    PROVE  OpTyped'
  <1>1. [NoOperation EXCEPT !.to = op[s].to] \in Operation
    BY NullTypes DEF OpTyped, Operation
  <1> QED
    BY <1>1, PutOp DEF Return

LEMMA GiveUpTyped ==
    ASSUME OpTyped, NEW s \in Session, GiveUp(s)
    PROVE  OpTyped' /\ LockTyped'
  BY ReturnTyped DEF GiveUp, LockTyped

LEMMA ConnectTyped ==
    ASSUME OpTyped, NEW s \in Session, NEW b \in 0..MaxBackends, Connect(s, b)
    PROVE  OpTyped' /\ LockTyped'
  <1>1. [op[s] EXCEPT !.pc = "send", !.to = b, !.new = 0] \in Operation
    BY Bounds DEF OpTyped, Operation, Pc
  <1> QED
    BY <1>1, PutOp DEF Connect, LockTyped

\* What replaces the record of a process.
LEMMA PutBackend ==
    ASSUME BackendTyped, NEW b, NEW p \in Shape, backend' = [backend EXCEPT ![b] = p]
    PROVE  BackendTyped'
  BY DEF BackendTyped

LEMMA LeaveTyped ==
    ASSUME OpTyped, BackendTyped, NEW s \in Session, op[s].to # 0,
           NEW p \in Shape, Leave(s, op[s].to, p)
    PROVE  OpTyped' /\ BackendTyped'
  <1>1. backend[op[s].to] \in Shape
    BY InsideKnown
  <1>2. [p EXCEPT !.calls = OneLess(op[s].to)] \in Shape
    BY <1>1 DEF Shape, OneLess
  <1> QED
    BY <1>2, ReturnTyped, PutBackend DEF Leave

\* A call of a session that touches neither the file nor the launch.
LEMMA DiskKept == ASSUME DiskTyped, UNCHANGED disk PROVE DiskTyped'
  BY DEF DiskTyped, disk

LEMMA LaunchKept ==
    ASSUME ListTyped, LockTyped, UNCHANGED launch
    PROVE  ListTyped' /\ LockTyped'
  BY DEF ListTyped, LockTyped, launch

LEMMA TokenKept == ASSUME TokenTyped, UNCHANGED token PROVE TokenTyped'
  BY DEF TokenTyped

LEMMA BackendKept == ASSUME BackendTyped, UNCHANGED backend PROVE BackendTyped'
  BY DEF BackendTyped

LEMMA OpKept == ASSUME OpTyped, UNCHANGED op PROVE OpTyped'
  BY DEF OpTyped

LEMMA AbandonedKept ==
    ASSUME abandoned \in BOOLEAN, UNCHANGED launch \/ UNCHANGED abandoned
    PROVE  abandoned' \in BOOLEAN
  BY Zenon DEF launch

-----------------------------------------------------------------------------

LEMMA CallTyped ==
    ASSUME Typed, Shown, NEW s \in Session, NEW kind \in Kind, NEW t \in Token \cup {0},
           Call(s, kind, t)
    PROVE  Typed'
  <1>1. OpTyped'
    <2>1. [op[s] EXCEPT !.pc = IF Exists(op[s].to) THEN "send" ELSE "ensure",
                        !.kind = kind, !.token = t] \in Operation
      BY DEF Typed, OpTyped, Operation, Pc
    <2> QED
      BY <2>1, PutOp DEF Typed, Call
  <1>2. DiskTyped'
    <2>1. asked' \in 0..MaxCalls
      BY Bounds DEF Typed, DiskTyped, Call
    <2>2. kind = "reload" => token[t].candidate \in Policy
      BY DEF Call, Shown, Offered
    <2> QED
      BY <2>1, <2>2 DEF Typed, DiskTyped, Call
  <1> QED
    BY <1>1, <1>2, LaunchKept, TokenKept, BackendKept, AbandonedKept DEF Typed, Call

LEMMA LookTyped == ASSUME Typed, NEW s \in Session, Look(s) PROVE Typed'
  <1>1. OpTyped' /\ LockTyped'
    <2>1. CASE GiveUp(s)
      BY <2>1, GiveUpTyped DEF Typed
    <2>2. CASE Connect(s, listed)
      BY <2>2, ConnectTyped DEF Typed, ListTyped
    <2>3. CASE /\ op' = [op EXCEPT ![s] = [@ EXCEPT !.pc = "ask", !.new = listed]]
               /\ lock' = s
      <3>1. [op[s] EXCEPT !.pc = "ask", !.new = listed] \in Operation
        BY DEF Typed, OpTyped, ListTyped, Operation, Pc
      <3> QED
        BY <2>3, <3>1, PutOp DEF Typed, LockTyped
    <2> QED
      BY <2>1, <2>2, <2>3 DEF Look
  <1> QED
    BY <1>1, DiskKept, TokenKept, BackendKept, AbandonedKept DEF Typed, Look, ListTyped

LEMMA AskToStopTyped == ASSUME Typed, NEW s \in Session, AskToStop(s) PROVE Typed'
  <1> DEFINE b == op[s].new
  <1>1. b \in 0..MaxBackends
    BY DEF Typed, OpTyped, Operation
  <1>2. CASE ~Exists(b)
    BY <1>2, GiveUpTyped, DiskKept, TokenKept, BackendKept, AbandonedKept
       DEF Typed, AskToStop, ListTyped
  <1>3. CASE Exists(b) /\ Idle(b)
    <2>1. b \in Backend
      BY <1>1, <1>3, SharedBackendAssumption DEF Exists, Backend
    <2>2. [backend[b] EXCEPT !.phase = "stopping"] \in Shape
      BY <2>1 DEF Typed, BackendTyped, Shape, Phase
    <2>3. BackendTyped'
      BY <1>3, <2>2, PutBackend DEF Typed, AskToStop, Stopping
    <2>4. OpTyped' /\ LockTyped'
      BY <1>3, GoTyped DEF Typed, AskToStop, Pc, LockTyped
    <2> QED
      BY <2>3, <2>4, DiskKept, TokenKept, AbandonedKept DEF Typed, AskToStop, ListTyped
  <1>4. CASE Exists(b) /\ ~Idle(b)
    BY <1>1, <1>4, ConnectTyped, DiskKept, TokenKept, BackendKept, AbandonedKept
       DEF Typed, AskToStop, ListTyped
  <1> QED
    BY <1>2, <1>3, <1>4

LEMMA DrainTimeoutTyped == ASSUME Typed, NEW s \in Session, DrainTimeout(s) PROVE Typed'
  BY GiveUpTyped, DiskKept, TokenKept, BackendKept, AbandonedKept DEF Typed, DrainTimeout, ListTyped

LEMMA SpawnTyped == ASSUME Typed, NEW s \in Session, Spawn(s) PROVE Typed'
  <1>1. PICK b \in Unused :
            /\ backend' = [backend EXCEPT ![b] = [NoProcess EXCEPT !.phase = "booting"]]
            /\ op' = [op EXCEPT ![s] = [@ EXCEPT !.pc = "await", !.new = b]]
    BY DEF Spawn
  <1>2. b \in 0..MaxBackends
    BY Bounds DEF Unused
  <1>3. [op[s] EXCEPT !.pc = "await", !.new = b] \in Operation
    BY <1>2 DEF Typed, OpTyped, Operation, Pc
  <1>4. [NoProcess EXCEPT !.phase = "booting"] \in Shape
    BY NullTypes DEF Shape, Phase
  <1>5. OpTyped' /\ BackendTyped' /\ LockTyped'
    BY <1>1, <1>3, <1>4, PutOp, PutBackend DEF Typed, LockTyped, Spawn
  <1> QED
    BY <1>5, DiskKept, TokenKept, AbandonedKept DEF Typed, ListTyped, Spawn

LEMMA AwaitTyped == ASSUME Typed, NEW s \in Session, Await(s) PROVE Typed'
  <1>1. op[s].new \in 0..MaxBackends
    BY DEF Typed, OpTyped, Operation
  <1>2. GiveUp(s) \/ Connect(s, op[s].new)
    BY DEF Await
  <1>3. OpTyped' /\ LockTyped'
    BY <1>1, <1>2, GiveUpTyped, ConnectTyped DEF Typed
  <1>4. abandoned' \in BOOLEAN
    BY Zenon DEF Await, Typed
  <1> QED
    BY <1>3, <1>4, DiskKept, TokenKept, BackendKept DEF Typed, ListTyped, Await

LEMMA LauncherDiesTyped == ASSUME Typed, NEW s \in Session, LauncherDies(s) PROVE Typed'
  <1>1. abandoned' \in BOOLEAN
    BY Zenon DEF LauncherDies, Typed
  <1> QED
    BY <1>1, NullTypes, PutOp, DiskKept, TokenKept, BackendKept
       DEF Typed, ListTyped, LockTyped, LauncherDies

-----------------------------------------------------------------------------

\* A process writes nothing but its own record.
LEMMA ProcessTyped ==
    ASSUME Typed, NEW b, NEW p \in Shape, backend' = [backend EXCEPT ![b] = p],
           UNCHANGED <<disk, launch, token, op>>
    PROVE  Typed'
  BY PutBackend, DiskKept, LaunchKept, TokenKept, OpKept, AbandonedKept DEF Typed

LEMMA LoadTyped == ASSUME Typed, NEW b \in Backend, Load(b) PROVE Typed'
  <1>1. Verified \in Choice
    BY NullTypes DEF Verified, Typed, DiskTyped
  <1>2. [backend[b] EXCEPT !.phase = "listed", !.code = installed,
                           !.policy = Verified, !.hash = Verified] \in Shape
    BY <1>1 DEF Typed, BackendTyped, ListTyped, Shape, Phase
  <1>3. BackendTyped' /\ ListTyped'
    BY <1>2, PutBackend, Bounds DEF Load, Typed, ListTyped
  <1> QED
    BY <1>3, DiskKept, TokenKept, OpKept, AbandonedKept DEF Typed, LockTyped, Load

LEMMA ServeTyped == ASSUME Typed, NEW b \in Backend, Serve(b) PROVE Typed'
  <1>1. [backend[b] EXCEPT !.phase = "serving"] \in Shape
    BY DEF Typed, BackendTyped, Shape, Phase
  <1> QED
    BY <1>1, ProcessTyped DEF Serve

LEMMA HumanStopsTyped == ASSUME Typed, NEW b \in Backend, HumanStops(b) PROVE Typed'
  <1>1. [backend[b] EXCEPT !.phase = "stopping"] \in Shape
    BY DEF Typed, BackendTyped, Shape, Phase
  <1> QED
    BY <1>1, ProcessTyped DEF HumanStops, Stopping

LEMMA JobEndsTyped == ASSUME Typed, NEW b \in Backend, JobEnds(b) PROVE Typed'
  <1>1. [backend[b] EXCEPT !.job = FALSE] \in Shape
    BY DEF Typed, BackendTyped, Shape
  <1> QED
    BY <1>1, ProcessTyped DEF JobEnds

LEMMA ExpireTyped ==
    ASSUME Typed, NEW b \in Backend, NEW t \in Token, Expire(b, t)
    PROVE  Typed'
  <1>1. [backend[b] EXCEPT !.pending = @ \ {t}] \in Shape
    BY DEF Typed, BackendTyped, Shape
  <1> QED
    BY <1>1, ProcessTyped DEF Expire

LEMMA EndTyped == ASSUME Typed, NEW b \in Backend, End(b) PROVE Typed'
  <1>1. [NoProcess EXCEPT !.phase = "dead"] \in Shape
    BY NullTypes DEF Shape, Phase
  <1>2. BackendTyped'
    BY <1>1, PutBackend DEF Typed, End
  <1>3. \A s \in Session : op'[s] \in {op[s], NoOperation, [op[s] EXCEPT !.to = 0]}
    BY DEF End
  <1>4. \A s \in Session : [op[s] EXCEPT !.to = 0] \in Operation
    BY Bounds DEF Typed, OpTyped, Operation
  <1>5. OpTyped'
    BY <1>3, <1>4, NullTypes DEF Typed, OpTyped, End
  <1> QED
    BY <1>2, <1>5, DiskKept, LaunchKept, TokenKept, AbandonedKept DEF Typed, End

-----------------------------------------------------------------------------

LEMMA SendTyped == ASSUME Typed, NEW s \in Session, Send(s) PROVE Typed'
  <1>1. Go(s, "admit") \/ Return(s)
    BY DEF Send
  <1>2. OpTyped'
    BY <1>1, GoTyped, ReturnTyped DEF Typed, Pc
  <1> QED
    BY <1>2, DiskKept, LaunchKept, TokenKept, BackendKept, AbandonedKept DEF Typed, Send

LEMMA AdmitTyped == ASSUME Typed, Placed, NEW s \in Session, Admit(s) PROVE Typed'
  <1> DEFINE b == op[s].to
  <1>1. b # 0 /\ b \in Backend /\ backend[b] \in Shape
    BY InsideKnown DEF Typed, Placed, Admit, InBackend
  <1>2. CASE backend[b].phase = "stopping"
    BY <1>2, ReturnTyped, DiskKept, LaunchKept, TokenKept, BackendKept, AbandonedKept
       DEF Typed, Admit
  <1>3. CASE backend[b].phase # "stopping"
    <2>1. [backend[b] EXCEPT !.calls = backend[b].calls + 1] \in Shape
      BY <1>1 DEF Shape
    <2>2. Go(s, "run") /\ backend' = [backend EXCEPT ![b].calls = backend[b].calls + 1]
      BY <1>1, <1>3 DEF Admit, Typed, BackendTyped
    <2>3. OpTyped' /\ BackendTyped'
      BY <2>1, <2>2, GoTyped, PutBackend DEF Typed, Pc
    <2> QED
      BY <2>3, DiskKept, LaunchKept, TokenKept, AbandonedKept DEF Typed, Admit
  <1> QED
    BY <1>2, <1>3

LEMMA WorkTyped == ASSUME Typed, Placed, NEW s \in Session, Work(s) PROVE Typed'
  <1> DEFINE b == op[s].to
  <1>1. b # 0 /\ b \in Backend /\ backend[b] \in Shape
    BY InsideKnown DEF Typed, Placed, Work, InBackend
  <1>2. PICK job \in BOOLEAN : Leave(s, b, [backend[b] EXCEPT !.job = @ \/ job])
    BY DEF Work
  <1>3. [backend[b] EXCEPT !.job = @ \/ job] \in Shape
    BY <1>1 DEF Shape
  <1>4. OpTyped' /\ BackendTyped'
    BY <1>1, <1>2, <1>3, LeaveTyped DEF Typed
  <1> QED
    BY <1>4, DiskKept, LaunchKept, TokenKept, AbandonedKept DEF Typed, Work

LEMMA PreviewReloadTyped ==
    ASSUME Typed, Placed, NEW s \in Session, PreviewReload(s)
    PROVE  Typed'
  <1> DEFINE b == op[s].to
             free == {t \in Token : token[t] = NoPreview}
  <1>1. b # 0 /\ b \in Backend /\ backend[b] \in Shape
    BY InsideKnown DEF Typed, Placed, PreviewReload, InBackend
  <1>2. CASE file = NoPolicy \/ free = {}
    <2>1. Leave(s, b, backend[b]) /\ UNCHANGED token
      BY <1>2 DEF PreviewReload
    <2> QED
      BY <1>1, <2>1, LeaveTyped, DiskKept, LaunchKept, TokenKept, AbandonedKept
         DEF Typed, PreviewReload
  <1>3. CASE ~(file = NoPolicy \/ free = {})
    <2> DEFINE kept(t) == backend[b].pending \cup {t}
               pending(t) == {u \in kept(t) : Cardinality({v \in kept(t) : v > u}) < MaxPending}
    <2>1. PICK t \in free :
             /\ token' = [token EXCEPT ![t] = [candidate |-> file, base |-> backend[b].hash]]
             /\ Leave(s, b, [backend[b] EXCEPT !.pending = pending(t)])
      BY <1>3 DEF PreviewReload
    <2>2. pending(t) \subseteq Token
      BY <1>1 DEF Shape
    <2> HIDE DEF pending
    <2>3. [backend[b] EXCEPT !.pending = pending(t)] \in Shape
      BY <1>1, <2>2 DEF Shape
    <2>4. OpTyped' /\ BackendTyped'
      BY <1>1, <2>1, <2>3, LeaveTyped DEF Typed
    <2>5. TokenTyped'
      BY <1>1, <2>1 DEF Typed, TokenTyped, DiskTyped, Preview, Shape, Choice
    <2> QED
      BY <2>4, <2>5, DiskKept, LaunchKept, AbandonedKept DEF Typed, PreviewReload
  <1> QED
    BY <1>2, <1>3

\* A session whose call is in a backend knows it, and its record.
LEMMA InBackendKnown ==
    ASSUME Typed, Placed, NEW s \in Session, op[s].pc \in InBackend
    PROVE  op[s].to # 0 /\ op[s].to \in Backend /\ backend[op[s].to] \in Shape
  BY InsideKnown DEF Typed, Placed

LEMMA RejectTyped == ASSUME Typed, Placed, NEW s \in Session, Reject(s) PROVE Typed'
  <1> DEFINE b == op[s].to
  <1>1. b # 0 /\ b \in Backend /\ backend[b] \in Shape
    BY InBackendKnown DEF Reject, InBackend
  <1>2. [backend[b] EXCEPT !.pending = @ \ {op[s].token}] \in Shape
    BY <1>1 DEF Shape
  <1>3. OpTyped' /\ BackendTyped'
    BY <1>1, <1>2, LeaveTyped DEF Typed, Reject
  <1> QED
    BY <1>3, DiskKept, LaunchKept, TokenKept, AbandonedKept DEF Typed, Reject

LEMMA ReloadTyped == ASSUME Typed, Placed, NEW s \in Session, Reload(s) PROVE Typed'
  <1> DEFINE b == op[s].to
             taken == [backend[b] EXCEPT !.pending = @ \ {op[s].token}]
  <1>1. b # 0 /\ b \in Backend /\ backend[b] \in Shape
    BY InBackendKnown DEF Reload, InBackend
  <1>2. taken \in Shape
    BY <1>1 DEF Shape
  <1>3. \/ Leave(s, b, taken)
        \/ /\ op' = [op EXCEPT ![s] = [@ EXCEPT !.pc = "approve", !.candidate = file]]
           /\ backend' = [backend EXCEPT ![b] = taken]
    BY DEF Reload
  <1> HIDE DEF taken
  <1>4. [op[s] EXCEPT !.pc = "approve", !.candidate = file] \in Operation
    BY DEF Typed, OpTyped, DiskTyped, Operation, Choice, Pc
  <1>5. OpTyped' /\ BackendTyped'
    BY <1>1, <1>2, <1>3, <1>4, LeaveTyped, PutOp, PutBackend DEF Typed
  <1> QED
    BY <1>5, DiskKept, LaunchKept, TokenKept, AbandonedKept DEF Typed, Reload

LEMMA ApproveTyped == ASSUME Typed, Placed, NEW s \in Session, Approve(s) PROVE Typed'
  <1>1. op[s].to # 0 /\ op[s].to \in Backend /\ backend[op[s].to] \in Shape
    BY InBackendKnown DEF Approve, InBackend
  <1>2. \/ Leave(s, op[s].to, backend[op[s].to])
        \/ Go(s, "apply") /\ UNCHANGED backend
    BY DEF Approve
  <1>3. OpTyped' /\ BackendTyped'
    BY <1>1, <1>2, LeaveTyped, GoTyped, BackendKept DEF Typed, Pc
  <1>4. DiskTyped'
    BY DEF Typed, DiskTyped, Approve
  <1> QED
    BY <1>3, <1>4, LaunchKept, TokenKept, AbandonedKept DEF Typed, Approve

LEMMA ApplyTyped == ASSUME Typed, Placed, NEW s \in Session, Apply(s) PROVE Typed'
  <1> DEFINE b == op[s].to
  <1>1. b # 0 /\ b \in Backend /\ backend[b] \in Shape
    BY InBackendKnown DEF Apply, InBackend
  <1>2. \/ Leave(s, b, backend[b])
        \/ Go(s, "activate") /\ backend' = [backend EXCEPT ![b].policy = file]
    BY DEF Apply
  <1>3. [backend[b] EXCEPT !.policy = file] \in Shape
    BY <1>1 DEF Shape, Typed, DiskTyped
  <1>4. OpTyped' /\ BackendTyped'
    BY <1>1, <1>2, <1>3, LeaveTyped, GoTyped, PutBackend DEF Typed, Pc
  <1> QED
    BY <1>4, DiskKept, LaunchKept, TokenKept, AbandonedKept DEF Typed, Apply

LEMMA ActivateTyped == ASSUME Typed, Placed, NEW s \in Session, Activate(s) PROVE Typed'
  <1> DEFINE b == op[s].to
  <1>1. b # 0 /\ b \in Backend /\ backend[b] \in Shape
    BY InBackendKnown DEF Activate, InBackend
  <1>2. op[s].candidate \in Choice
    BY DEF Typed, OpTyped, Operation, Choice
  <1>3. [backend[b] EXCEPT !.hash = op[s].candidate, !.pending = {}] \in Shape
    BY <1>1, <1>2 DEF Shape
  <1>4. OpTyped' /\ BackendTyped'
    BY <1>1, <1>3, LeaveTyped DEF Typed, Activate
  <1> QED
    BY <1>4, DiskKept, LaunchKept, TokenKept, AbandonedKept DEF Typed, Activate

\* What happens outside the backends.
LEMMA EnvironmentTyped ==
    ASSUME Typed, Edit \/ DoctorApproves \/ Update
    PROVE  Typed'
  <1>1. CASE Edit
    <2>1. DiskTyped'
      BY <1>1, Bounds DEF Typed, DiskTyped, Choice, Edit
    <2> QED
      BY <1>1, <2>1, LaunchKept, TokenKept, BackendKept, OpKept, AbandonedKept DEF Typed, Edit
  <1>2. CASE DoctorApproves
    <2>1. DiskTyped'
      BY <1>2 DEF Typed, DiskTyped, Choice, DoctorApproves
    <2> QED
      BY <1>2, <2>1, LaunchKept, TokenKept, BackendKept, OpKept, AbandonedKept
         DEF Typed, DoctorApproves
  <1>3. CASE Update
    <2>1. ListTyped' /\ LockTyped'
      BY <1>3 DEF Typed, ListTyped, LockTyped, Version, Update
    <2> QED
      BY <1>3, <2>1, DiskKept, TokenKept, BackendKept, OpKept, AbandonedKept DEF Typed, Update
  <1> QED
    BY <1>1, <1>2, <1>3

\* Every step keeps the types.
LEMMA TypedNext == ASSUME Typed, Placed, Shown, [Next]_shared PROVE Typed'
  <1>1. CASE UNCHANGED shared
    BY <1>1, OpKept, DiskKept, LaunchKept, TokenKept, BackendKept, AbandonedKept
       DEF Typed, shared, disk, launch
  <1>2. ASSUME NEW s \in Session,
               \/ \E kind \in Kind, t \in Token \cup {0} : Call(s, kind, t)
               \/ Look(s) \/ AskToStop(s) \/ DrainTimeout(s)
               \/ Spawn(s) \/ Await(s) \/ LauncherDies(s)
        PROVE  Typed'
    BY <1>2, CallTyped, LookTyped, AskToStopTyped, DrainTimeoutTyped, SpawnTyped, AwaitTyped,
       LauncherDiesTyped
  <1>3. ASSUME NEW s \in Session,
               \/ Send(s) \/ Admit(s) \/ Work(s) \/ PreviewReload(s)
               \/ Reject(s) \/ Reload(s) \/ Approve(s)
               \/ Apply(s) \/ Activate(s)
        PROVE  Typed'
    BY <1>3, SendTyped, AdmitTyped, WorkTyped, PreviewReloadTyped, RejectTyped, ReloadTyped,
       ApproveTyped, ApplyTyped, ActivateTyped
  <1>4. ASSUME NEW b \in Backend,
               \/ Load(b) \/ Serve(b) \/ End(b) \/ HumanStops(b) \/ JobEnds(b)
               \/ \E t \in Token : Expire(b, t)
        PROVE  Typed'
    BY <1>4, LoadTyped, ServeTyped, EndTyped, HumanStopsTyped, JobEndsTyped, ExpireTyped
  <1> QED
    BY <1>1, <1>2, <1>3, <1>4, EnvironmentTyped DEF Next

-----------------------------------------------------------------------------
(* What the operators that actions share do to a session's operation.      *)

\* No other session's operation changes.
Alone(s) == \A r \in Session : r # s => op'[r] = op[r]

LEMMA GoEffect ==
    ASSUME OpTyped, NEW s \in Session, NEW pc, Go(s, pc)
    PROVE  /\ Alone(s)
           /\ op'[s].pc = pc /\ op'[s].to = op[s].to /\ op'[s].new = op[s].new
           /\ op'[s].kind = op[s].kind /\ op'[s].token = op[s].token
           /\ op'[s].candidate = op[s].candidate
  BY DEF Go, Alone, OpTyped, Operation

LEMMA ReturnEffect ==
    ASSUME OpTyped, NEW s \in Session, Return(s)
    PROVE  /\ Alone(s)
           /\ op'[s].pc = "idle" /\ op'[s].to = op[s].to /\ op'[s].kind = "work"
  BY DEF Return, Alone, OpTyped, NoOperation

LEMMA ConnectEffect ==
    ASSUME OpTyped, NEW s \in Session, NEW b, Connect(s, b)
    PROVE  /\ Alone(s) /\ lock' = NoSession
           /\ op'[s].pc = "send" /\ op'[s].to = b
           /\ op'[s].kind = op[s].kind /\ op'[s].token = op[s].token
  BY DEF Connect, Alone, OpTyped, Operation

LEMMA GiveUpEffect ==
    ASSUME OpTyped, NEW s \in Session, GiveUp(s)
    PROVE  /\ Alone(s) /\ lock' = NoSession
           /\ op'[s].pc = "idle" /\ op'[s].to = op[s].to /\ op'[s].kind = "work"
  BY ReturnEffect DEF GiveUp

LEMMA LeaveEffect ==
    ASSUME Typed, NEW s \in Session, NEW b \in Backend, NEW p \in Shape, Leave(s, b, p)
    PROVE  /\ Alone(s)
           /\ op'[s].pc = "idle" /\ op'[s].to = op[s].to /\ op'[s].kind = "work"
           /\ \A c \in Backend : c # b => backend'[c] = backend[c]
           /\ backend'[b].calls = backend[b].calls - 1
           /\ backend'[b].phase = p.phase /\ backend'[b].job = p.job
           /\ backend'[b].policy = p.policy
  <1>1. /\ \A c \in Backend : c # b => backend'[c] = backend[c]
        /\ backend'[b] = [p EXCEPT !.calls = OneLess(b)]
    BY DEF Leave, Typed, BackendTyped
  <1>2. /\ backend'[b].calls = backend[b].calls - 1
        /\ backend'[b].phase = p.phase /\ backend'[b].job = p.job
        /\ backend'[b].policy = p.policy
    BY <1>1 DEF OneLess, Shape
  <1> QED
    BY <1>1, <1>2, ReturnEffect DEF Leave, Typed

-----------------------------------------------------------------------------
(* What a step of one session does to connections, to the lock, and to the *)
(* counts of calls.                                                        *)

LocksOwn(s) ==
    /\ lock' = s <=> op'[s].pc \in Starting
    /\ \A r \in Session : r # s => (lock' = r <=> lock = r)

\* A backend counts the session if its call is inside.
Counts(s) ==
    \A c \in Backend :
        backend'[c].calls = backend[c].calls
                            + (IF op'[s].to = c /\ op'[s].pc \in Admitted THEN 1 ELSE 0)
                            - (IF op[s].to = c /\ op[s].pc \in Admitted THEN 1 ELSE 0)

\* Only an idle backend agrees to stop, and only a call inside changes its jobs.
StopsOnly(s) ==
    \A c \in Backend : backend'[c].phase = "stopping" =>
        \/ op[s].to = c /\ op[s].pc \in Admitted /\ backend[c].phase = "stopping"
        \/ /\ backend'[c].calls = backend[c].calls /\ backend'[c].job = backend[c].job
           /\ (backend[c].phase = "stopping" \/ Idle(c))

Connects(s) ==
    /\ \A c \in Backend : Exists(c) => Exists(c)'
    /\ (op[s].to # 0 => Exists(op[s].to))'
    /\ op'[s].pc \in InBackend => op'[s].to # 0
    /\ op[s].pc \in InBackend => \A c \in Backend : Exists(c)' => Exists(c)

Sound(s) == Alone(s) /\ LocksOwn(s) /\ Counts(s) /\ StopsOnly(s) /\ Connects(s)

\* A session outside the backends changes none of them.
LEMMA OutsideSound ==
    ASSUME Typed, NEW s \in Session, UNCHANGED backend, Alone(s), LocksOwn(s),
           op[s].pc \notin Admitted, op'[s].pc \notin Admitted,
           op'[s].to = 0 \/ Exists(op'[s].to),
           op'[s].pc = "admit" => op'[s].to # 0
    PROVE  Sound(s)
  <1>1. \A c \in Backend : backend[c].calls \in Int
    BY DEF Typed, BackendTyped, Shape
  <1>2. Counts(s)
    BY <1>1 DEF Counts
  <1>3. StopsOnly(s)
    BY DEF StopsOnly
  <1>4. \A c : Exists(c) <=> Exists(c)'
    BY DEF Exists
  <1>5. (op[s].to # 0 => Exists(op[s].to))'
    BY DEF Exists
  <1>6. op'[s].pc \in InBackend => op'[s].to # 0
    BY DEF InBackend, Admitted
  <1> QED
    BY <1>2, <1>3, <1>4, <1>5, <1>6 DEF Sound, Connects

\* The lock is kept, or released by its holder, or taken when it is free.
LEMMA LockKept ==
    ASSUME LockHeld, NEW s \in Session, UNCHANGED lock,
           op[s].pc \in Starting <=> op'[s].pc \in Starting
    PROVE  LocksOwn(s)
  BY DEF LocksOwn, LockHeld

LEMMA LockReleased ==
    ASSUME LockHeld, NEW s \in Session, lock' = NoSession, op'[s].pc \notin Starting,
           lock = s \/ lock = NoSession
    PROVE  LocksOwn(s)
  BY SharedBackendAssumption DEF LocksOwn, LockHeld

LEMMA LockTaken ==
    ASSUME LockHeld, NEW s \in Session, lock' = s, op'[s].pc \in Starting,
           lock = s \/ lock = NoSession
    PROVE  LocksOwn(s)
  BY SharedBackendAssumption DEF LocksOwn, LockHeld

LEMMA CallSound ==
    ASSUME Typed, Placed, LockHeld, NEW s \in Session, NEW kind \in Kind,
           NEW t \in Token \cup {0}, Call(s, kind, t)
    PROVE  Sound(s)
  <1>1. /\ Alone(s) /\ op'[s].to = op[s].to
        /\ op'[s].pc \in {"send", "ensure"} /\ op[s].pc = "idle"
    BY DEF Call, Alone, Typed, OpTyped, Operation
  <1>2. LocksOwn(s)
    BY <1>1, LockKept DEF Call, launch, Starting
  <1> QED
    BY <1>1, <1>2, OutsideSound DEF Call, Placed, Admitted

LEMMA LookSound ==
    ASSUME Typed, Placed, LockHeld, NEW s \in Session, Look(s)
    PROVE  Sound(s)
  <1>1. /\ op[s].pc = "ensure" /\ lock = NoSession /\ Exists(listed) /\ UNCHANGED backend
    BY DEF Look, LockIsFree
  <1>2. CASE GiveUp(s)
    <2>1. LocksOwn(s)
      BY <1>1, <1>2, GiveUpEffect, LockReleased DEF Starting, Typed
    <2> QED
      BY <1>1, <1>2, <2>1, GiveUpEffect, OutsideSound DEF Typed, Placed, Admitted
  <1>3. CASE Connect(s, listed)
    <2>1. LocksOwn(s)
      BY <1>1, <1>3, ConnectEffect, LockReleased DEF Starting, Typed
    <2> QED
      BY <1>1, <1>3, <2>1, ConnectEffect, OutsideSound DEF Typed, Admitted
  <1>4. CASE op' = [op EXCEPT ![s] = [@ EXCEPT !.pc = "ask", !.new = listed]] /\ lock' = s
    <2>1. Alone(s) /\ op'[s].pc = "ask" /\ op'[s].to = op[s].to
      BY <1>4 DEF Alone, Typed, OpTyped, Operation
    <2>2. LocksOwn(s)
      BY <1>1, <1>4, <2>1, LockTaken DEF Starting
    <2> QED
      BY <1>1, <2>1, <2>2, OutsideSound DEF Placed, Admitted
  <1> QED
    BY <1>2, <1>3, <1>4 DEF Look

LEMMA DrainTimeoutSound ==
    ASSUME Typed, Placed, LockHeld, NEW s \in Session, DrainTimeout(s)
    PROVE  Sound(s)
  <1>1. op[s].pc = "drain" /\ lock = s /\ GiveUp(s) /\ UNCHANGED backend
    BY DEF DrainTimeout, LockHeld, Starting
  <1>2. LocksOwn(s)
    BY <1>1, GiveUpEffect, LockReleased DEF Starting, Typed
  <1> QED
    BY <1>1, <1>2, GiveUpEffect, OutsideSound DEF Typed, Placed, Admitted

LEMMA AwaitSound ==
    ASSUME Typed, Placed, LockHeld, NEW s \in Session, Await(s)
    PROVE  Sound(s)
  <1>1. op[s].pc = "await" /\ lock = s /\ UNCHANGED backend
    BY DEF Await, LockHeld, Starting
  <1>2. \/ GiveUp(s)
        \/ /\ Connect(s, op[s].new)
           /\ backend[op[s].new].phase \in {"serving", "stopping"}
    BY Zenon DEF Await
  <1>3. CASE GiveUp(s)
    <2>1. LocksOwn(s)
      BY <1>1, <1>3, GiveUpEffect, LockReleased DEF Starting, Typed
    <2> QED
      BY <1>1, <1>3, <2>1, GiveUpEffect, OutsideSound DEF Typed, Placed, Admitted
  <1>4. CASE Connect(s, op[s].new) /\ backend[op[s].new].phase \in {"serving", "stopping"}
    <2>1. LocksOwn(s)
      BY <1>1, <1>4, ConnectEffect, LockReleased DEF Starting, Typed
    <2>2. op'[s].to = 0 \/ Exists(op'[s].to)
      BY <1>4, ConnectEffect DEF Exists, Typed
    <2> QED
      BY <1>1, <1>4, <2>1, <2>2, ConnectEffect, OutsideSound DEF Typed, Admitted
  <1> QED
    BY <1>2, <1>3, <1>4

LEMMA LauncherDiesSound ==
    ASSUME Typed, Placed, LockHeld, NEW s \in Session, LauncherDies(s)
    PROVE  Sound(s)
  <1>1. op[s].pc \in Starting /\ lock = s /\ lock' = NoSession /\ UNCHANGED backend
    BY DEF LauncherDies, LockHeld
  <1>2. Alone(s) /\ op'[s].pc = "idle" /\ op'[s].to = 0
    BY DEF LauncherDies, Alone, Typed, OpTyped, NoOperation
  <1>3. LocksOwn(s)
    BY <1>1, <1>2, LockReleased DEF Starting
  <1> QED
    BY <1>1, <1>2, <1>3, OutsideSound DEF Starting, Admitted

LEMMA SendSound ==
    ASSUME Typed, Placed, LockHeld, NEW s \in Session, Send(s)
    PROVE  Sound(s)
  <1>1. op[s].pc = "send" /\ UNCHANGED <<backend, lock>>
    BY DEF Send, launch
  <1>2. (Go(s, "admit") /\ Exists(op[s].to)) \/ Return(s)
    BY DEF Send
  <1>3. /\ Alone(s) /\ op'[s].to = op[s].to /\ op'[s].pc \in {"admit", "idle"}
        /\ op'[s].pc = "admit" => op[s].to # 0
    BY <1>2, GoEffect, ReturnEffect DEF Typed, Exists
  <1>4. LocksOwn(s)
    BY <1>1, <1>3, LockKept DEF Starting
  <1> QED
    BY <1>1, <1>3, <1>4, OutsideSound DEF Placed, Admitted

LEMMA AskToStopSound ==
    ASSUME Typed, Placed, LockHeld, NEW s \in Session, AskToStop(s)
    PROVE  Sound(s)
  <1> DEFINE b == op[s].new
  <1>1. op[s].pc = "ask" /\ lock = s
    BY DEF AskToStop, LockHeld, Starting
  <1>2. CASE ~Exists(b)
    <2>1. GiveUp(s) /\ UNCHANGED backend
      BY <1>2 DEF AskToStop
    <2>2. LocksOwn(s)
      BY <1>1, <2>1, GiveUpEffect, LockReleased DEF Starting, Typed
    <2> QED
      BY <1>1, <2>1, <2>2, GiveUpEffect, OutsideSound DEF Typed, Placed, Admitted
  <1>3. CASE Exists(b) /\ Idle(b)
    <2>1. Go(s, "drain") /\ backend' = Stopping(b) /\ UNCHANGED lock
      BY <1>3 DEF AskToStop
    <2>2. /\ Alone(s) /\ op'[s].pc = "drain" /\ op'[s].to = op[s].to
      BY <2>1, GoEffect DEF Typed
    <2>3. LocksOwn(s)
      BY <1>1, <2>1, <2>2, LockKept DEF Starting
    <2>4. \A c \in Backend : /\ backend[c].calls \in Int
                             /\ backend'[c].calls = backend[c].calls
                             /\ backend'[c].job = backend[c].job
                             /\ backend'[c].phase = IF c = b THEN "stopping" ELSE backend[c].phase
      BY <2>1 DEF Stopping, Typed, BackendTyped, Shape
    <2>5. Counts(s)
      BY <1>1, <2>2, <2>4 DEF Counts, Admitted
    <2>6. StopsOnly(s)
      BY <1>3, <2>4 DEF StopsOnly
    <2>7. \A c \in Backend : Exists(c) => Exists(c)'
      BY <2>4 DEF Exists
    <2>8. (op[s].to # 0 => Exists(op[s].to))'
      <3>1. op[s].to # 0 => Exists(op[s].to) /\ op[s].to \in Backend
        BY InsideKnown DEF Placed, Typed
      <3> QED
        BY <2>2, <2>4, <3>1 DEF Exists
    <2> QED
      BY <1>1, <2>2, <2>3, <2>5, <2>6, <2>7, <2>8 DEF Sound, Connects, InBackend
  <1>4. CASE Exists(b) /\ ~Idle(b)
    <2>1. Connect(s, b) /\ UNCHANGED backend
      BY <1>4 DEF AskToStop
    <2>2. LocksOwn(s)
      BY <1>1, <2>1, ConnectEffect, LockReleased DEF Starting, Typed
    <2> QED
      BY <1>1, <1>4, <2>1, <2>2, ConnectEffect, OutsideSound DEF Typed, Admitted
  <1> QED
    BY <1>2, <1>3, <1>4

\* A process that does not run counts no call.
LEMMA GoneUncounted ==
    ASSUME Counted, Placed, NEW b \in Backend, ~Exists(b)
    PROVE  backend[b].calls = 0
  <1>1. Inside(b) = {}
    BY Bounds DEF Inside, Placed
  <1> QED
    BY <1>1, FS_EmptySet DEF Counted

LEMMA SpawnSound ==
    ASSUME Typed, Counted, Placed, LockHeld, NEW s \in Session, Spawn(s)
    PROVE  Sound(s)
  <1>1. op[s].pc \in {"ensure", "drain"} /\ (lock = s \/ lock = NoSession) /\ lock' = s
    BY DEF Spawn, LockIsFree, LockHeld, Starting
  <1>2. PICK b \in Unused :
            /\ backend' = [backend EXCEPT ![b] = [NoProcess EXCEPT !.phase = "booting"]]
            /\ op' = [op EXCEPT ![s] = [@ EXCEPT !.pc = "await", !.new = b]]
    BY DEF Spawn
  <1>3. Alone(s) /\ op'[s].pc = "await" /\ op'[s].to = op[s].to
    BY <1>2 DEF Alone, Typed, OpTyped, Operation
  <1>4. LocksOwn(s)
    BY <1>1, <1>3, LockTaken DEF Starting
  <1>5. b \in Backend /\ ~Exists(b) /\ backend[b].calls = 0
    BY GoneUncounted DEF Unused, Exists
  <1>6. \A c \in Backend : /\ backend[c].calls \in Int
                           /\ backend'[c].calls = backend[c].calls
                           /\ c # b => backend'[c] = backend[c]
    BY <1>2, <1>5 DEF Typed, BackendTyped, Shape, NoProcess
  <1>7. backend'[b].phase = "booting"
    BY <1>2, <1>5 DEF Typed, BackendTyped, NoProcess
  <1>8. Counts(s)
    BY <1>1, <1>3, <1>6 DEF Counts, Admitted
  <1>9. StopsOnly(s)
    BY <1>6, <1>7 DEF StopsOnly
  <1>10. \A c \in Backend : Exists(c) => Exists(c)'
    BY <1>6, <1>7 DEF Exists
  <1>11. (op[s].to # 0 => Exists(op[s].to))'
    <2>1. op[s].to # 0 => Exists(op[s].to) /\ op[s].to \in Backend
      BY InsideKnown DEF Placed, Typed
    <2> QED
      BY <1>3, <1>5, <1>6, <2>1 DEF Exists
  <1> QED
    BY <1>1, <1>3, <1>4, <1>8, <1>9, <1>10, <1>11 DEF Sound, Connects, InBackend

\* A call enters its backend, goes on in it, or leaves it.
LEMMA AdmitSound ==
    ASSUME Typed, Placed, LockHeld, NEW s \in Session, Admit(s)
    PROVE  Sound(s)
  <1> DEFINE b == op[s].to
  <1>1. /\ op[s].pc = "admit" /\ UNCHANGED lock
        /\ b # 0 /\ b \in Backend /\ Exists(b)
    BY InBackendKnown DEF Admit, InBackend, launch, Placed
  <1>2. CASE backend[b].phase = "stopping"
    <2>1. Return(s) /\ UNCHANGED backend
      BY <1>2 DEF Admit
    <2>2. LocksOwn(s)
      BY <1>1, <2>1, ReturnEffect, LockKept DEF Starting, Typed
    <2> QED
      BY <1>1, <2>1, <2>2, ReturnEffect, OutsideSound DEF Typed, Admitted
  <1>3. CASE backend[b].phase # "stopping"
    <2>1. Go(s, "run") /\ backend' = [backend EXCEPT ![b].calls = @ + 1]
      BY <1>3 DEF Admit
    <2>2. Alone(s) /\ op'[s].pc = "run" /\ op'[s].to = b
      BY <2>1, GoEffect DEF Typed
    <2>3. LocksOwn(s)
      BY <1>1, <2>2, LockKept DEF Starting
    <2>4. /\ \A c \in Backend : c # b => backend'[c] = backend[c]
          /\ backend'[b].phase = backend[b].phase
          /\ backend'[b].calls = backend[b].calls + 1
          /\ \A c \in Backend : backend[c].calls \in Int
      BY <1>1, <2>1 DEF Typed, BackendTyped, Shape
    <2>5. Counts(s)
      BY <1>1, <2>2, <2>4 DEF Counts, Admitted
    <2>6. StopsOnly(s)
      BY <1>3, <2>4 DEF StopsOnly
    <2>7. \A c \in Backend : Exists(c) <=> Exists(c)'
      BY <2>4 DEF Exists
    <2>8. Connects(s)
      BY <1>1, <2>2, <2>7 DEF Connects
    <2> QED
      BY <2>2, <2>3, <2>5, <2>6, <2>8 DEF Sound
  <1> QED
    BY <1>2, <1>3

LEMMA StaySound ==
    ASSUME Typed, Placed, LockHeld, NEW s \in Session, UNCHANGED lock,
           op[s].pc \in Admitted, op'[s].pc \in Admitted, op'[s].to = op[s].to, Alone(s),
           NEW p, backend' = [backend EXCEPT ![op[s].to] = p],
           p.phase = backend[op[s].to].phase, p.calls = backend[op[s].to].calls
    PROVE  Sound(s)
  <1> DEFINE b == op[s].to
  <1>1. b # 0 /\ b \in Backend /\ Exists(b)
    BY InBackendKnown DEF Admitted, InBackend, Placed
  <1>2. LocksOwn(s)
    BY LockKept DEF Starting, Admitted
  <1>3. \A c \in Backend : /\ c # b => backend'[c] = backend[c]
                           /\ backend[c].calls \in Int
                           /\ backend'[c].calls = backend[c].calls
                           /\ backend'[c].phase = backend[c].phase
    BY <1>1 DEF Typed, BackendTyped, Shape
  <1>4. Counts(s)
    BY <1>3 DEF Counts
  <1>5. StopsOnly(s)
    BY <1>3 DEF StopsOnly
  <1>6. \A c \in Backend : Exists(c) <=> Exists(c)'
    BY <1>3 DEF Exists
  <1>7. Connects(s)
    BY <1>1, <1>6 DEF Connects
  <1> QED
    BY <1>2, <1>4, <1>5, <1>7 DEF Sound

LEMMA LeaveSound ==
    ASSUME Typed, Placed, LockHeld, NEW s \in Session, UNCHANGED lock,
           op[s].pc \in Admitted, NEW p \in Shape, Leave(s, op[s].to, p),
           p.phase = backend[op[s].to].phase
    PROVE  Sound(s)
  <1> DEFINE b == op[s].to
  <1>1. b # 0 /\ b \in Backend /\ Exists(b)
    BY InBackendKnown DEF Admitted, InBackend, Placed
  <1>2. /\ Alone(s) /\ op'[s].pc = "idle" /\ op'[s].to = b
        /\ \A c \in Backend : c # b => backend'[c] = backend[c]
        /\ backend'[b].calls = backend[b].calls - 1
        /\ backend'[b].phase = backend[b].phase
    BY <1>1, LeaveEffect
  <1>3. LocksOwn(s)
    BY <1>2, LockKept DEF Starting, Admitted
  <1>4. \A c \in Backend : backend[c].calls \in Int
    BY DEF Typed, BackendTyped, Shape
  <1>5. Counts(s)
    BY <1>2, <1>4 DEF Counts, Admitted
  <1>6. StopsOnly(s)
    BY <1>2 DEF StopsOnly
  <1>7. \A c \in Backend : Exists(c) <=> Exists(c)'
    BY <1>2 DEF Exists
  <1>8. Connects(s)
    BY <1>1, <1>2, <1>7 DEF Connects
  <1> QED
    BY <1>2, <1>3, <1>5, <1>6, <1>8 DEF Sound

LEMMA WorkSound ==
    ASSUME Typed, Placed, LockHeld, NEW s \in Session, Work(s)
    PROVE  Sound(s)
  <1> DEFINE b == op[s].to
  <1>1. op[s].pc \in Admitted /\ UNCHANGED lock /\ backend[b] \in Shape
    BY InBackendKnown DEF Work, launch, Admitted, InBackend
  <1>2. PICK job \in BOOLEAN : Leave(s, b, [backend[b] EXCEPT !.job = @ \/ job])
    BY DEF Work
  <1>3. /\ [backend[b] EXCEPT !.job = @ \/ job] \in Shape
        /\ [backend[b] EXCEPT !.job = @ \/ job].phase = backend[b].phase
    BY <1>1 DEF Shape
  <1> QED
    BY <1>1, <1>2, <1>3, LeaveSound

\* A preview leaves its backend with other pending tokens.
LEMMA PreviewLeaves ==
    ASSUME Typed, Placed, NEW s \in Session, PreviewReload(s)
    PROVE  \E q \in SUBSET Token :
               LET p == [backend[op[s].to] EXCEPT !.pending = q]
               IN p \in Shape /\ Leave(s, op[s].to, p)
  <1> DEFINE b == op[s].to
             free == {t \in Token : token[t] = NoPreview}
  <1>1. backend[b] \in Shape
    BY InBackendKnown DEF PreviewReload, InBackend
  <1>2. \A q \in SUBSET Token : [backend[b] EXCEPT !.pending = q] \in Shape
    BY <1>1 DEF Shape
  <1>3. CASE file = NoPolicy \/ free = {}
    <2>1. Leave(s, b, backend[b])
      BY <1>3 DEF PreviewReload
    <2>2. /\ backend[b].pending \in SUBSET Token
          /\ [backend[b] EXCEPT !.pending = backend[b].pending] = backend[b]
      BY <1>1 DEF Shape
    <2> QED
      BY <1>2, <2>1, <2>2
  <1>4. CASE ~(file = NoPolicy \/ free = {})
    <2> DEFINE kept(t) == backend[b].pending \cup {t}
               pending(t) == {u \in kept(t) : Cardinality({v \in kept(t) : v > u}) < MaxPending}
    <2>1. PICK t \in free : Leave(s, b, [backend[b] EXCEPT !.pending = pending(t)])
      BY <1>4 DEF PreviewReload
    <2>2. pending(t) \in SUBSET Token
      BY <1>1 DEF Shape
    <2> HIDE DEF pending
    <2> QED
      BY <1>2, <2>1, <2>2
  <1> QED
    BY <1>3, <1>4

LEMMA PreviewReloadSound ==
    ASSUME Typed, Placed, LockHeld, NEW s \in Session, PreviewReload(s)
    PROVE  Sound(s)
  <1> DEFINE b == op[s].to
  <1>1. op[s].pc \in Admitted /\ UNCHANGED lock /\ backend[b] \in Shape
    BY InBackendKnown DEF PreviewReload, launch, Admitted, InBackend
  <1>2. PICK q \in SUBSET Token : /\ [backend[b] EXCEPT !.pending = q] \in Shape
                                  /\ Leave(s, b, [backend[b] EXCEPT !.pending = q])
    BY PreviewLeaves
  <1>3. [backend[b] EXCEPT !.pending = q].phase = backend[b].phase
    BY <1>1 DEF Shape
  <1> QED
    BY <1>1, <1>2, <1>3, LeaveSound

LEMMA RejectSound ==
    ASSUME Typed, Placed, LockHeld, NEW s \in Session, Reject(s)
    PROVE  Sound(s)
  <1> DEFINE p == [backend[op[s].to] EXCEPT !.pending = @ \ {op[s].token}]
  <1>1. op[s].pc \in Admitted /\ UNCHANGED lock /\ backend[op[s].to] \in Shape
    BY InBackendKnown DEF Reject, launch, Admitted, InBackend
  <1>2. p \in Shape /\ p.phase = backend[op[s].to].phase
    BY <1>1 DEF Shape
  <1>3. Leave(s, op[s].to, p)
    BY DEF Reject
  <1> QED
    BY <1>1, <1>2, <1>3, LeaveSound

\* A reload goes on to the approval, or leaves the backend; the token is gone.
LEMMA ReloadSound ==
    ASSUME Typed, Placed, LockHeld, NEW s \in Session, Reload(s)
    PROVE  Sound(s)
  <1> DEFINE p == [backend[op[s].to] EXCEPT !.pending = @ \ {op[s].token}]
  <1>1. op[s].pc \in Admitted /\ UNCHANGED lock /\ backend[op[s].to] \in Shape
    BY InBackendKnown DEF Reload, launch, Admitted, InBackend
  <1>2. /\ p \in Shape /\ p.phase = backend[op[s].to].phase
        /\ p.calls = backend[op[s].to].calls
    BY <1>1 DEF Shape
  <1>3. \/ Leave(s, op[s].to, p)
        \/ /\ op' = [op EXCEPT ![s] = [@ EXCEPT !.pc = "approve", !.candidate = file]]
           /\ backend' = [backend EXCEPT ![op[s].to] = p]
    BY DEF Reload
  <1> HIDE DEF p
  <1>4. CASE Leave(s, op[s].to, p)
    BY <1>1, <1>2, <1>4, LeaveSound
  <1>5. CASE /\ op' = [op EXCEPT ![s] = [@ EXCEPT !.pc = "approve", !.candidate = file]]
             /\ backend' = [backend EXCEPT ![op[s].to] = p]
    <2>1. Alone(s) /\ op'[s].pc \in Admitted /\ op'[s].to = op[s].to
      BY <1>5 DEF Alone, Typed, OpTyped, Operation, Admitted
    <2> QED
      BY <1>1, <1>2, <1>5, <2>1, StaySound
  <1> QED
    BY <1>3, <1>4, <1>5

LEMMA ApproveSound ==
    ASSUME Typed, Placed, LockHeld, NEW s \in Session, Approve(s)
    PROVE  Sound(s)
  <1>1. /\ op[s].pc \in Admitted /\ UNCHANGED lock /\ backend[op[s].to] \in Shape
        /\ op[s].to \in Backend
    BY InBackendKnown DEF Approve, launch, Admitted, InBackend
  <1>2. CASE Leave(s, op[s].to, backend[op[s].to])
    BY <1>1, <1>2, LeaveSound
  <1>3. CASE Go(s, "apply") /\ UNCHANGED backend
    <2>1. Alone(s) /\ op'[s].pc \in Admitted /\ op'[s].to = op[s].to
      BY <1>3, GoEffect DEF Typed, Admitted
    <2>2. backend' = [backend EXCEPT ![op[s].to] = backend[op[s].to]]
      BY <1>1, <1>3 DEF Typed, BackendTyped
    <2> QED
      BY <1>1, <2>1, <2>2, StaySound
  <1> QED
    BY <1>2, <1>3 DEF Approve

LEMMA ApplySound ==
    ASSUME Typed, Placed, LockHeld, NEW s \in Session, Apply(s)
    PROVE  Sound(s)
  <1> DEFINE p == [backend[op[s].to] EXCEPT !.policy = file]
  <1>1. /\ op[s].pc \in Admitted /\ UNCHANGED lock /\ backend[op[s].to] \in Shape
        /\ op[s].to \in Backend
    BY InBackendKnown DEF Apply, launch, Admitted, InBackend
  <1>2. CASE Leave(s, op[s].to, backend[op[s].to])
    BY <1>1, <1>2, LeaveSound
  <1>3. CASE Go(s, "activate") /\ backend' = [backend EXCEPT ![op[s].to] = p]
    <2>1. Alone(s) /\ op'[s].pc \in Admitted /\ op'[s].to = op[s].to
      BY <1>3, GoEffect DEF Typed, Admitted
    <2>2. p.phase = backend[op[s].to].phase /\ p.calls = backend[op[s].to].calls
      BY <1>1 DEF Shape
    <2> HIDE DEF p
    <2> QED
      BY <1>1, <1>3, <2>1, <2>2, StaySound
  <1> QED
    BY <1>2, <1>3 DEF Apply

LEMMA ActivateSound ==
    ASSUME Typed, Placed, LockHeld, NEW s \in Session, Activate(s)
    PROVE  Sound(s)
  <1> DEFINE p == [backend[op[s].to] EXCEPT !.hash = op[s].candidate, !.pending = {}]
  <1>1. op[s].pc \in Admitted /\ UNCHANGED lock /\ backend[op[s].to] \in Shape
    BY InBackendKnown DEF Activate, launch, Admitted, InBackend
  <1>2. op[s].candidate \in Choice
    BY DEF Typed, OpTyped, Operation, Choice
  <1>3. p \in Shape /\ p.phase = backend[op[s].to].phase
    BY <1>1, <1>2 DEF Shape
  <1>4. Leave(s, op[s].to, p)
    BY DEF Activate
  <1> QED
    BY <1>1, <1>3, <1>4, LeaveSound

\* The steps of a session.
SessionStep(s) ==
    \/ \E kind \in Kind, t \in Token \cup {0} : Call(s, kind, t)
    \/ Look(s) \/ AskToStop(s) \/ DrainTimeout(s)
    \/ Spawn(s) \/ Await(s) \/ LauncherDies(s)
    \/ Send(s) \/ Admit(s) \/ Work(s) \/ PreviewReload(s)
    \/ Reject(s) \/ Reload(s) \/ Approve(s)
    \/ Apply(s) \/ Activate(s)

LEMMA SessionSound ==
    ASSUME Typed, Counted, Placed, LockHeld, NEW s \in Session, SessionStep(s)
    PROVE  Sound(s)
  BY CallSound, LookSound, AskToStopSound, DrainTimeoutSound, SpawnSound, AwaitSound,
     LauncherDiesSound, SendSound, AdmitSound, WorkSound, PreviewReloadSound, RejectSound,
     ReloadSound, ApproveSound, ApplySound, ActivateSound DEF SessionStep

-----------------------------------------------------------------------------
(* A sound step keeps connections, lock and counts right.                  *)

LEMMA PlacedStep ==
    ASSUME Typed, Placed, NEW s \in Session, Alone(s), Connects(s)
    PROVE  Placed'
  <1>1. ASSUME NEW r \in Session, r # s, op[r].to # 0
        PROVE  Exists(op[r].to)'
    <2>1. op[r].to \in Backend /\ Exists(op[r].to)
      BY <1>1, InsideKnown DEF Typed, Placed
    <2>2. op'[r] = op[r]
      BY <1>1 DEF Alone
    <2>3. Exists(op[r].to) => backend'[op[r].to].phase \notin {"none", "dead"}
      BY <2>1 DEF Connects, Exists
    <2> QED
      BY <2>1, <2>2, <2>3 DEF Exists
  <1>2. ASSUME NEW r \in Session
        PROVE  (/\ op[r].to # 0 => Exists(op[r].to)
                /\ op[r].pc \in InBackend => op[r].to # 0)'
    <2>1. CASE r = s
      BY <2>1 DEF Connects
    <2>2. CASE r # s
      <3>1. op'[r] = op[r]
        BY <2>2 DEF Alone
      <3> QED
        BY <2>2, <3>1, <1>1 DEF Placed
    <2> QED
      BY <2>1, <2>2
  <1> QED
    BY <1>2 DEF Placed

LEMMA LockStep ==
    ASSUME LockHeld, NEW s \in Session, Alone(s), LocksOwn(s)
    PROVE  LockHeld'
  BY DEF LockHeld, Alone, LocksOwn

LEMMA InsideFinite == ASSUME NEW b PROVE IsFiniteSet(Inside(b))
  BY SharedBackendAssumption, FS_Subset DEF Inside

LEMMA CountedStep ==
    ASSUME Counted, NEW s \in Session, Alone(s), Counts(s)
    PROVE  Counted'
  <1> SUFFICES ASSUME NEW c \in Backend
               PROVE  backend'[c].calls = Cardinality(Inside(c)')
    BY DEF Counted
  <1> DEFINE before == op[s].to = c /\ op[s].pc \in Admitted
             after == op'[s].to = c /\ op'[s].pc \in Admitted
  <1>1. /\ backend[c].calls = Cardinality(Inside(c)) /\ IsFiniteSet(Inside(c))
        /\ Cardinality(Inside(c)) \in Nat
    BY InsideFinite, FS_CardinalityType DEF Counted
  <1>2. /\ s \in Inside(c) <=> before
        /\ Inside(c)' = {r \in Inside(c) : r # s} \cup (IF after THEN {s} ELSE {})
    BY DEF Inside, Alone
  <1>3. backend'[c].calls = backend[c].calls + (IF after THEN 1 ELSE 0)
                                             - (IF before THEN 1 ELSE 0)
    BY DEF Counts
  <1> HIDE DEF before, after
  <1>4. CASE before <=> after
    <2>1. Inside(c)' = Inside(c)
      BY <1>2, <1>4
    <2> QED
      BY <1>1, <1>3, <1>4, <2>1
  <1>5. CASE before /\ ~after
    <2>1. Inside(c)' = Inside(c) \ {s} /\ s \in Inside(c)
      BY <1>2, <1>5
    <2>2. Cardinality(Inside(c) \ {s}) = Cardinality(Inside(c)) - 1
      BY <1>1, <2>1, FS_RemoveElement
    <2> QED
      BY <1>1, <1>3, <1>5, <2>1, <2>2
  <1>6. CASE ~before /\ after
    <2>1. Inside(c)' = Inside(c) \cup {s} /\ s \notin Inside(c)
      BY <1>2, <1>6
    <2>2. Cardinality(Inside(c) \cup {s}) = Cardinality(Inside(c)) + 1
      BY <1>1, <2>1, FS_AddElement
    <2> QED
      BY <1>1, <1>3, <1>6, <2>1, <2>2
  <1> QED
    BY <1>4, <1>5, <1>6

\* A stopping backend counts no call, so none is inside.
LEMMA StoppingEmpty ==
    ASSUME Counted, StopsIdle, NEW b \in Backend, backend[b].phase = "stopping"
    PROVE  Inside(b) = {}
  BY InsideFinite, FS_EmptySet DEF Counted, StopsIdle

LEMMA StopsStep ==
    ASSUME Counted, StopsIdle, NEW s \in Session, StopsOnly(s)
    PROVE  StopsIdle'
  <1> SUFFICES ASSUME NEW c \in Backend, backend'[c].phase = "stopping"
               PROVE  ~backend'[c].job /\ backend'[c].calls = 0
    BY DEF StopsIdle
  <1>1. CASE op[s].to = c /\ op[s].pc \in Admitted /\ backend[c].phase = "stopping"
    BY <1>1, StoppingEmpty DEF Inside
  <1>2. CASE /\ backend'[c].calls = backend[c].calls /\ backend'[c].job = backend[c].job
             /\ (backend[c].phase = "stopping" \/ Idle(c))
    BY <1>2 DEF StopsIdle, Idle
  <1> QED
    BY <1>1, <1>2 DEF StopsOnly

-----------------------------------------------------------------------------
(* The same for the steps of a process.                                    *)

LEMMA ProcessKeeps ==
    ASSUME Typed, Counted, Placed, LockHeld, StopsIdle,
           NEW b \in Backend,
           NEW p, backend' = [backend EXCEPT ![b] = p], UNCHANGED <<lock, op>>,
           Exists(b) => p.phase \notin {"none", "dead"}, p.calls = backend[b].calls,
           p.phase = "stopping" => ~p.job /\ p.calls = 0
    PROVE  Counted' /\ Placed' /\ LockHeld' /\ StopsIdle'
  <1>1. \A c \in Backend : /\ backend'[c] = IF c = b THEN p ELSE backend[c]
                           /\ backend'[c].calls = backend[c].calls
                           /\ Exists(c) => Exists(c)'
    BY DEF Typed, BackendTyped, Exists
  <1>2. \A c : Inside(c)' = Inside(c)
    BY DEF Inside
  <1>3. Counted'
    BY <1>1, <1>2 DEF Counted
  <1>4. \A s \in Session : op[s].to # 0 => Exists(op[s].to)'
    <2>1. \A s \in Session : op[s].to # 0 => op[s].to \in Backend
      BY InsideKnown DEF Typed
    <2> QED
      BY <1>1, <2>1 DEF Placed
  <1>5. Placed'
    BY <1>4 DEF Placed, Exists
  <1>6. LockHeld'
    BY DEF LockHeld
  <1>7. StopsIdle'
    BY <1>1 DEF StopsIdle
  <1> QED
    BY <1>3, <1>5, <1>6, <1>7

LEMMA EndKeeps ==
    ASSUME Typed, Counted, Placed, LockHeld, StopsIdle, NEW b \in Backend, End(b)
    PROVE  Counted' /\ Placed' /\ LockHeld' /\ StopsIdle'
  <1>1. \A c \in Backend :
           backend'[c] = IF c = b THEN [NoProcess EXCEPT !.phase = "dead"] ELSE backend[c]
    BY DEF Typed, BackendTyped, End
  <1>2. \A s \in Session :
           /\ op[s].to # b => op'[s] = op[s]
           /\ op[s].to = b => op'[s].to = 0 /\ op'[s].pc \notin InBackend
           /\ op'[s].pc \in Starting <=> op[s].pc \in Starting
    BY DEF End, NoOperation, InBackend, Starting, Typed, OpTyped, Operation
  <1>3. Inside(b)' = {} /\ \A c \in Backend : c # b => Inside(c)' = Inside(c)
    BY <1>2, Bounds DEF Inside
  <1>4. Counted'
    <2>1. Cardinality(Inside(b)') = 0 /\ backend'[b].calls = 0
      BY <1>1, <1>3, FS_EmptySet DEF NoProcess
    <2> QED
      BY <1>1, <1>3, <2>1 DEF Counted
  <1>5. Placed'
    <2>1. \A s \in Session : op[s].to # 0 => op[s].to \in Backend
      BY InsideKnown DEF Typed
    <2> QED
      BY <1>1, <1>2, <2>1 DEF Placed, Exists
  <1>6. LockHeld'
    BY <1>2 DEF LockHeld, End, launch
  <1>7. StopsIdle'
    BY <1>1 DEF StopsIdle, NoProcess
  <1> QED
    BY <1>4, <1>5, <1>6, <1>7

ProcessStep(b) ==
    \/ Load(b) \/ Serve(b) \/ HumanStops(b) \/ JobEnds(b)
    \/ \E t \in Token : Expire(b, t)

LEMMA ProcessBase ==
    ASSUME Typed, Base, NEW b \in Backend, ProcessStep(b)
    PROVE  Base'
  <1>1. backend[b] \in Shape /\ (backend[b].phase = "stopping" =>
                                    ~backend[b].job /\ backend[b].calls = 0)
    BY DEF Typed, BackendTyped, Base, StopsIdle
  <1>2. CASE Load(b)
    <2> DEFINE p == [backend[b] EXCEPT !.phase = "listed", !.code = installed,
                                       !.policy = Verified, !.hash = Verified]
    <2>1. p.phase = "listed" /\ p.calls = backend[b].calls
      BY <1>1 DEF Shape
    <2>2. backend' = [backend EXCEPT ![b] = p] /\ UNCHANGED <<lock, op>>
      BY <1>2 DEF Load
    <2> HIDE DEF p
    <2> QED
      BY <2>1, <2>2, ProcessKeeps DEF Base
  <1>3. CASE Serve(b)
    <2> DEFINE p == [backend[b] EXCEPT !.phase = "serving"]
    <2>1. p.phase = "serving" /\ p.calls = backend[b].calls
      BY <1>1 DEF Shape
    <2>2. backend' = [backend EXCEPT ![b] = p] /\ UNCHANGED <<lock, op>>
      BY <1>3 DEF Serve, launch
    <2> HIDE DEF p
    <2> QED
      BY <2>1, <2>2, ProcessKeeps DEF Base
  <1>4. CASE HumanStops(b)
    <2> DEFINE p == [backend[b] EXCEPT !.phase = "stopping"]
    <2>1. p.phase = "stopping" /\ p.calls = backend[b].calls /\ p.job = backend[b].job
      BY <1>1 DEF Shape
    <2>2. Idle(b) /\ backend' = [backend EXCEPT ![b] = p] /\ UNCHANGED <<lock, op>>
      BY <1>4 DEF HumanStops, Stopping, launch
    <2>3. ~p.job /\ p.calls = 0
      BY <2>1, <2>2 DEF Idle
    <2> HIDE DEF p
    <2> QED
      BY <2>1, <2>2, <2>3, ProcessKeeps DEF Base
  <1>5. CASE JobEnds(b)
    <2> DEFINE p == [backend[b] EXCEPT !.job = FALSE]
    <2>1. p.phase = backend[b].phase /\ p.calls = backend[b].calls /\ ~p.job
      BY <1>1 DEF Shape
    <2>2. backend' = [backend EXCEPT ![b] = p] /\ UNCHANGED <<lock, op>>
      BY <1>5 DEF JobEnds, launch
    <2>3. (Exists(b) => p.phase \notin {"none", "dead"})
          /\ (p.phase = "stopping" => ~p.job /\ p.calls = 0)
      BY <1>1, <2>1 DEF Exists
    <2> HIDE DEF p
    <2> QED
      BY <2>1, <2>2, <2>3, ProcessKeeps DEF Base
  <1>6. ASSUME NEW t \in Token, Expire(b, t)
        PROVE  Base'
    <2> DEFINE p == [backend[b] EXCEPT !.pending = @ \ {t}]
    <2>1. p.phase = backend[b].phase /\ p.calls = backend[b].calls /\ p.job = backend[b].job
      BY <1>1 DEF Shape
    <2>2. backend' = [backend EXCEPT ![b] = p] /\ UNCHANGED <<lock, op>>
      BY <1>6 DEF Expire, launch
    <2>3. (Exists(b) => p.phase \notin {"none", "dead"})
          /\ (p.phase = "stopping" => ~p.job /\ p.calls = 0)
      BY <1>1, <2>1 DEF Exists
    <2> HIDE DEF p
    <2> QED
      BY <2>1, <2>2, <2>3, ProcessKeeps DEF Base
  <1> QED
    BY <1>2, <1>3, <1>4, <1>5, <1>6 DEF ProcessStep

LEMMA SessionBase ==
    ASSUME Typed, Base, NEW s \in Session, SessionStep(s)
    PROVE  Base'
  <1>1. Sound(s)
    BY SessionSound DEF Base
  <1> QED
    BY <1>1, PlacedStep, LockStep, CountedStep, StopsStep DEF Sound, Base

\* Nothing that Base speaks of changes.
LEMMA BaseKept == ASSUME Base, UNCHANGED <<backend, op, lock>> PROVE Base'
  <1>1. \A b : Inside(b)' = Inside(b)
    BY DEF Inside
  <1>2. Counted' /\ Placed' /\ LockHeld' /\ StopsIdle'
    BY <1>1 DEF Base, Counted, Placed, Exists, LockHeld, StopsIdle
  <1> QED
    BY <1>2 DEF Base

\* The environment, and stuttering, change neither processes nor sessions.
OutsideStep == Edit \/ DoctorApproves \/ Update \/ UNCHANGED shared

\* A step is that of a session, of a process, the end of a process, or outside.
LEMMA Steps ==
    ASSUME [Next]_shared
    PROVE  \/ \E s \in Session : SessionStep(s)
           \/ \E b \in Backend : ProcessStep(b) \/ End(b)
           \/ OutsideStep
  BY DEF Next, SessionStep, ProcessStep, OutsideStep

LEMMA BaseNext == ASSUME Typed, Base, [Next]_shared PROVE Base'
  <1>1. CASE OutsideStep
    <2>1. UNCHANGED <<backend, op, lock>>
      BY <1>1 DEF OutsideStep, Edit, DoctorApproves, Update, shared, launch
    <2> QED
      BY <2>1, BaseKept
  <1>2. ASSUME NEW b \in Backend, End(b)
        PROVE  Base'
    BY <1>2, EndKeeps DEF Base
  <1> QED
    BY <1>1, <1>2, SessionBase, ProcessBase, Steps

-----------------------------------------------------------------------------
(* What is agreed to, stored and active.                                   *)

\* Nothing is unsaid, and nothing that was not agreed to is stored or activated.
Grows ==
    /\ consent \subseteq consent' /\ (store' = store \/ store' \in consent')
    /\ \A b \in Backend : backend'[b].policy \in {backend[b].policy, NoPolicy} \cup consent'
    /\ \A t \in Token : \/ token'[t] = token[t]
                        \/ token[t] = NoPreview /\ token'[t].candidate \in Policy

LEMMA EarnedStep == ASSUME PolicyIsEarned, Grows PROVE PolicyIsEarned'
  <1>1. store' # NoPolicy => store' \in consent'
    BY DEF PolicyIsEarned, Grows
  <1>2. \A b \in Backend : backend'[b].policy # NoPolicy => backend'[b].policy \in consent'
    BY DEF PolicyIsEarned, Grows
  <1> QED
    BY <1>1, <1>2 DEF PolicyIsEarned

LEMMA OfferedStep == ASSUME Offered, Grows PROVE Offered'
  BY DEF Offered, Grows

LEMMA HonestKept ==
    ASSUME Grows, NEW s \in Session, Honest(s), op'[s] = op[s]
    PROVE  Honest(s)'
  BY DEF Honest, Grows

\* A step of a session that neither asks for a reload nor takes one further.
Quiet(s) ==
    /\ UNCHANGED <<store, consent, token>>
    /\ \A b \in Backend : backend'[b].policy \in {backend[b].policy, NoPolicy}
    /\ op'[s].pc \notin Late
    /\ \/ op'[s].kind = "work"
       \/ op'[s].kind = op[s].kind /\ op'[s].token = op[s].token

LEMMA QuietStep ==
    ASSUME NEW s \in Session, Honest(s), Quiet(s)
    PROVE  Grows /\ Honest(s)'
  BY DEF Quiet, Honest, Grows

\* The steps of a session outside the backends.
LEMMA OutsideQuiet ==
    ASSUME Typed, NEW s \in Session,
           \/ Look(s) \/ DrainTimeout(s) \/ Await(s) \/ LauncherDies(s) \/ Send(s)
    PROVE  Quiet(s)
  <1>1. UNCHANGED <<store, consent, token, backend>>
    BY DEF Look, DrainTimeout, Await, LauncherDies, Send, disk
  <1>2. CASE Look(s)
    <2>1. CASE op' = [op EXCEPT ![s] = [@ EXCEPT !.pc = "ask", !.new = listed]]
      BY <1>1, <2>1 DEF Quiet, Late, Typed, OpTyped, Operation
    <2> QED
      BY <1>1, <1>2, <2>1, GiveUpEffect, ConnectEffect DEF Look, Quiet, Late, Typed
  <1>3. CASE DrainTimeout(s) \/ Await(s)
    <2>1. GiveUp(s) \/ Connect(s, op[s].new)
      BY <1>3 DEF DrainTimeout, Await
    <2> QED
      BY <1>1, <2>1, GiveUpEffect, ConnectEffect DEF Quiet, Late, Typed
  <1>4. CASE LauncherDies(s)
    <2>1. op'[s] = NoOperation
      BY <1>4 DEF LauncherDies, Typed, OpTyped
    <2> QED
      BY <1>1, <2>1 DEF Quiet, Late, NoOperation
  <1>5. CASE Send(s)
    <2>1. Go(s, "admit") \/ Return(s)
      BY <1>5 DEF Send
    <2> QED
      BY <1>1, <2>1, GoEffect, ReturnEffect DEF Quiet, Late, Typed
  <1> QED
    BY <1>2, <1>3, <1>4, <1>5

LEMMA AskToStopQuiet ==
    ASSUME Typed, NEW s \in Session, AskToStop(s)
    PROVE  Quiet(s)
  <1>1. UNCHANGED <<store, consent, token>>
    BY DEF AskToStop, disk
  <1>2. \/ GiveUp(s) /\ UNCHANGED backend
        \/ Connect(s, op[s].new) /\ UNCHANGED backend
        \/ Go(s, "drain") /\ backend' = Stopping(op[s].new)
    BY DEF AskToStop
  <1>3. \A b \in Backend : backend'[b].policy = backend[b].policy
    BY <1>2 DEF Stopping, Typed, BackendTyped, Shape
  <1> QED
    BY <1>1, <1>2, <1>3, GiveUpEffect, ConnectEffect, GoEffect DEF Quiet, Late, Typed

LEMMA SpawnQuiet ==
    ASSUME Typed, NEW s \in Session, Spawn(s)
    PROVE  Quiet(s)
  <1>1. UNCHANGED <<store, consent, token>>
    BY DEF Spawn, disk
  <1>2. PICK b \in Unused :
            /\ backend' = [backend EXCEPT ![b] = [NoProcess EXCEPT !.phase = "booting"]]
            /\ op' = [op EXCEPT ![s] = [@ EXCEPT !.pc = "await", !.new = b]]
    BY DEF Spawn
  <1>3. /\ op'[s].pc = "await" /\ op'[s].kind = op[s].kind /\ op'[s].token = op[s].token
    BY <1>2 DEF Typed, OpTyped, Operation
  <1>4. \A c \in Backend : backend'[c].policy \in {backend[c].policy, NoPolicy}
    BY <1>2 DEF Typed, BackendTyped, NoProcess
  <1> QED
    BY <1>1, <1>3, <1>4 DEF Quiet, Late

LEMMA AdmitQuiet ==
    ASSUME Typed, NEW s \in Session, Admit(s)
    PROVE  Quiet(s)
  <1>1. UNCHANGED <<store, consent, token>>
    BY DEF Admit, disk
  <1>2. \/ Return(s) /\ UNCHANGED backend
        \/ Go(s, "run") /\ backend' = [backend EXCEPT ![op[s].to].calls = @ + 1]
    BY DEF Admit
  <1>3. \A c \in Backend : backend'[c].policy = backend[c].policy
    BY <1>2 DEF Typed, BackendTyped, Shape
  <1> QED
    BY <1>1, <1>2, <1>3, ReturnEffect, GoEffect DEF Quiet, Late, Typed

\* A call that leaves its backend with the policy it had.
LEMMA LeaveQuiet ==
    ASSUME Typed, NEW s \in Session, NEW b \in Backend, NEW p \in Shape, Leave(s, b, p),
           p.policy = backend[b].policy, UNCHANGED <<store, consent, token>>
    PROVE  Quiet(s)
  <1>1. \A c \in Backend : backend'[c].policy = backend[c].policy
    BY LeaveEffect
  <1> QED
    BY <1>1, LeaveEffect DEF Quiet, Late

LEMMA WorkRejectQuiet ==
    ASSUME Typed, Placed, NEW s \in Session, Work(s) \/ Reject(s)
    PROVE  Quiet(s)
  <1> DEFINE b == op[s].to
  <1>1. b \in Backend /\ backend[b] \in Shape /\ UNCHANGED <<store, consent, token>>
    BY InBackendKnown DEF Work, Reject, InBackend, disk
  <1>2. CASE Work(s)
    <2>1. PICK job \in BOOLEAN : Leave(s, b, [backend[b] EXCEPT !.job = @ \/ job])
      BY <1>2 DEF Work
    <2>2. /\ [backend[b] EXCEPT !.job = @ \/ job] \in Shape
          /\ [backend[b] EXCEPT !.job = @ \/ job].policy = backend[b].policy
      BY <1>1 DEF Shape
    <2> QED
      BY <1>1, <2>1, <2>2, LeaveQuiet
  <1>3. CASE Reject(s)
    <2> DEFINE p == [backend[b] EXCEPT !.pending = @ \ {op[s].token}]
    <2>1. Leave(s, b, p)
      BY <1>3 DEF Reject
    <2>2. p \in Shape /\ p.policy = backend[b].policy
      BY <1>1 DEF Shape
    <2> QED
      BY <1>1, <2>1, <2>2, LeaveQuiet
  <1> QED
    BY <1>2, <1>3

LEMMA CallHonest ==
    ASSUME Typed, Shown, NEW s \in Session, NEW kind \in Kind,
           NEW t \in Token \cup {0}, Call(s, kind, t)
    PROVE  Grows /\ Honest(s)'
  <1>1. /\ op'[s].kind = kind /\ op'[s].token = t /\ op'[s].pc \notin Late
        /\ UNCHANGED <<store, token, backend>>
    BY DEF Call, Late, Typed, OpTyped, Operation
  <1>2. kind \in {"reload", "reject"} => t \in Token /\ token[t] # NoPreview
    BY DEF Call
  <1>3. consent' = IF kind = "reload" THEN consent \cup {token[t].candidate} ELSE consent
    BY DEF Call
  <1>4. Grows
    BY <1>1, <1>3 DEF Grows
  <1>5. Honest(s)'
    BY <1>1, <1>2, <1>3 DEF Honest
  <1> QED
    BY <1>4, <1>5

LEMMA PreviewHonest ==
    ASSUME Typed, Placed, NEW s \in Session, PreviewReload(s)
    PROVE  Grows /\ Honest(s)'
  <1> DEFINE b == op[s].to
  <1>1. b \in Backend /\ backend[b] \in Shape /\ UNCHANGED <<store, consent>>
    BY InBackendKnown DEF PreviewReload, InBackend, disk
  <1>2. PICK q \in SUBSET Token : /\ [backend[b] EXCEPT !.pending = q] \in Shape
                                  /\ Leave(s, b, [backend[b] EXCEPT !.pending = q])
    BY PreviewLeaves
  <1>3. [backend[b] EXCEPT !.pending = q].policy = backend[b].policy
    BY <1>1 DEF Shape
  <1>4. /\ \A c \in Backend : backend'[c].policy = backend[c].policy
        /\ op'[s].pc = "idle" /\ op'[s].kind = "work"
    BY <1>1, <1>2, <1>3, LeaveEffect
  <1>5. \A t \in Token : \/ token'[t] = token[t]
                         \/ token[t] = NoPreview /\ token'[t].candidate \in Policy
    <2>1. CASE UNCHANGED token
      BY <2>1
    <2>2. ASSUME file # NoPolicy, NEW t \in Token, token[t] = NoPreview,
                 token' = [token EXCEPT ![t] = [candidate |-> file, base |-> backend[b].hash]]
          PROVE  \A u \in Token : \/ token'[u] = token[u]
                                  \/ token[u] = NoPreview /\ token'[u].candidate \in Policy
      BY <2>2 DEF Typed, TokenTyped, DiskTyped, Choice
    <2> QED
      BY <2>1, <2>2 DEF PreviewReload
  <1> QED
    BY <1>1, <1>4, <1>5 DEF Grows, Honest, Late

\* What a reload found in the file is what the human was shown.
LEMMA ReloadHonest ==
    ASSUME Typed, Placed, NEW s \in Session, Honest(s), Reload(s)
    PROVE  Grows /\ Honest(s)'
  <1> DEFINE b == op[s].to
             p == [backend[b] EXCEPT !.pending = @ \ {op[s].token}]
  <1>1. b \in Backend /\ backend[b] \in Shape /\ UNCHANGED <<store, consent, token>>
    BY InBackendKnown DEF Reload, InBackend, disk
  <1>2. p \in Shape /\ p.policy = backend[b].policy
    BY <1>1 DEF Shape
  <1>3. \/ Leave(s, b, p)
        \/ /\ op' = [op EXCEPT ![s] = [@ EXCEPT !.pc = "approve", !.candidate = file]]
           /\ backend' = [backend EXCEPT ![b] = p]
           /\ file = token[op[s].token].candidate
    BY DEF Reload, AsPreviewed
  <1> HIDE DEF p
  <1>4. CASE Leave(s, b, p)
    BY <1>1, <1>2, <1>4, LeaveQuiet, QuietStep
  <1>5. CASE /\ op' = [op EXCEPT ![s] = [@ EXCEPT !.pc = "approve", !.candidate = file]]
             /\ backend' = [backend EXCEPT ![b] = p]
             /\ file = token[op[s].token].candidate
    <2>1. /\ op'[s].kind = op[s].kind /\ op'[s].token = op[s].token
          /\ op'[s].candidate = token[op[s].token].candidate
      BY <1>5 DEF Typed, OpTyped, Operation
    <2>2. op[s].kind = "reload"
      BY DEF Reload
    <2>3. \A c \in Backend : backend'[c].policy = backend[c].policy
      BY <1>1, <1>2, <1>5 DEF Typed, BackendTyped
    <2> QED
      BY <1>1, <2>1, <2>2, <2>3 DEF Grows, Honest
  <1> QED
    BY <1>3, <1>4, <1>5

\* What is stored is what the reload found.
LEMMA ApproveHonest ==
    ASSUME Typed, Placed, NEW s \in Session, Honest(s), Approve(s)
    PROVE  Grows /\ Honest(s)'
  <1>1. /\ op[s].to \in Backend /\ backend[op[s].to] \in Shape
        /\ UNCHANGED <<consent, token>>
    BY InBackendKnown DEF Approve, InBackend
  <1>2. CASE Leave(s, op[s].to, backend[op[s].to]) /\ UNCHANGED store
    BY <1>1, <1>2, LeaveQuiet, QuietStep
  <1>3. CASE /\ file = op[s].candidate /\ store' = file /\ Go(s, "apply")
             /\ UNCHANGED backend
    <2>1. op[s].candidate \in consent
      BY DEF Honest, Approve, Late
    <2>2. Honest(s)'
      BY <1>1, <1>3, <2>1, GoEffect DEF Honest, Typed
    <2> QED
      BY <1>1, <1>3, <2>1, <2>2 DEF Grows
  <1> QED
    BY <1>2, <1>3 DEF Approve

\* What becomes active is what was stored.
LEMMA ApplyHonest ==
    ASSUME Typed, Placed, NEW s \in Session, Honest(s), Apply(s)
    PROVE  Grows /\ Honest(s)'
  <1>1. /\ op[s].to \in Backend /\ backend[op[s].to] \in Shape
        /\ UNCHANGED <<store, consent, token>>
    BY InBackendKnown DEF Apply, InBackend, disk
  <1>2. CASE Leave(s, op[s].to, backend[op[s].to])
    BY <1>1, <1>2, LeaveQuiet, QuietStep
  <1>3. CASE /\ file = op[s].candidate /\ Go(s, "activate")
             /\ backend' = [backend EXCEPT ![op[s].to].policy = file]
    <2>1. op[s].candidate \in consent
      BY DEF Honest, Apply, Late
    <2>2. \A c \in Backend : backend'[c].policy \in {backend[c].policy, file}
      BY <1>3 DEF Typed, BackendTyped, Shape
    <2>3. Honest(s)'
      BY <1>1, <1>3, <2>1, GoEffect DEF Honest, Typed
    <2> QED
      BY <1>1, <1>3, <2>1, <2>2, <2>3 DEF Grows
  <1> QED
    BY <1>2, <1>3 DEF Apply

LEMMA ActivateQuiet ==
    ASSUME Typed, Placed, NEW s \in Session, Activate(s)
    PROVE  Quiet(s)
  <1> DEFINE p == [backend[op[s].to] EXCEPT !.hash = op[s].candidate, !.pending = {}]
  <1>1. /\ op[s].to \in Backend /\ backend[op[s].to] \in Shape
        /\ UNCHANGED <<store, consent, token>>
    BY InBackendKnown DEF Activate, InBackend, disk
  <1>2. op[s].candidate \in Choice
    BY DEF Typed, OpTyped, Operation, Choice
  <1>3. p \in Shape /\ p.policy = backend[op[s].to].policy
    BY <1>1, <1>2 DEF Shape
  <1>4. Leave(s, op[s].to, p)
    BY DEF Activate
  <1> QED
    BY <1>1, <1>3, <1>4, LeaveQuiet

\* Every step of a session is honest.
LEMMA SessionHonest ==
    ASSUME Typed, Placed, Shown, NEW s \in Session, SessionStep(s)
    PROVE  Grows /\ Honest(s)'
  <1>1. Honest(s)
    BY DEF Shown
  <1>2. CASE \E kind \in Kind, t \in Token \cup {0} : Call(s, kind, t)
    BY <1>2, CallHonest
  <1>3. CASE PreviewReload(s) \/ Reload(s) \/ Approve(s) \/ Apply(s)
    BY <1>1, <1>3, PreviewHonest, ReloadHonest, ApproveHonest, ApplyHonest
  <1>4. CASE \/ Look(s) \/ AskToStop(s) \/ DrainTimeout(s) \/ Spawn(s) \/ Await(s)
             \/ LauncherDies(s) \/ Send(s) \/ Admit(s) \/ Work(s) \/ Reject(s) \/ Activate(s)
    <2>1. Quiet(s)
      BY <1>4, OutsideQuiet, AskToStopQuiet, SpawnQuiet, AdmitQuiet, WorkRejectQuiet,
         ActivateQuiet
    <2> QED
      BY <1>1, <2>1, QuietStep
  <1> QED
    BY <1>2, <1>3, <1>4 DEF SessionStep

\* A process starts with the stored policy or none; else it keeps the one it has.
LEMMA ProcessHonest ==
    ASSUME Typed, PolicyIsEarned, NEW b \in Backend, ProcessStep(b)
    PROVE  Grows /\ UNCHANGED op
  <1>1. UNCHANGED <<store, consent, token, op>>
    BY DEF ProcessStep, Load, Serve, HumanStops, JobEnds, Expire, disk
  <1>2. CASE Load(b)
    <2>1. Verified \in {NoPolicy} \cup consent
      BY DEF Verified, PolicyIsEarned
    <2>2. \A c \in Backend : backend'[c].policy \in {backend[c].policy, Verified}
      BY <1>2 DEF Load, Typed, BackendTyped, Shape
    <2> QED
      BY <1>1, <2>1, <2>2 DEF Grows
  <1>3. CASE ~Load(b)
    <2>1. \/ backend' = [backend EXCEPT ![b].phase = "serving"]
          \/ backend' = [backend EXCEPT ![b].phase = "stopping"]
          \/ backend' = [backend EXCEPT ![b].job = FALSE]
          \/ \E t \in Token : backend' = [backend EXCEPT ![b].pending = @ \ {t}]
      BY <1>3 DEF ProcessStep, Serve, HumanStops, Stopping, JobEnds, Expire
    <2>2. \A c \in Backend : backend'[c].policy = backend[c].policy
      BY <2>1 DEF Typed, BackendTyped, Shape
    <2> QED
      BY <1>1, <2>2 DEF Grows
  <1> QED
    BY <1>2, <1>3

LEMMA EndHonest ==
    ASSUME Typed, Shown, NEW b \in Backend, End(b)
    PROVE  Grows /\ \A s \in Session : Honest(s)'
  <1>1. UNCHANGED <<store, consent, token>>
    BY DEF End, disk
  <1>2. \A c \in Backend : backend'[c].policy \in {backend[c].policy, NoPolicy}
    BY DEF End, Typed, BackendTyped, NoProcess
  <1>3. \A s \in Session : \/ op'[s].pc = "idle" /\ op'[s].kind = "work"
                           \/ /\ op'[s].pc = op[s].pc /\ op'[s].kind = op[s].kind
                              /\ op'[s].token = op[s].token
                              /\ op'[s].candidate = op[s].candidate
    BY DEF End, NoOperation, Typed, OpTyped, Operation
  <1>4. \A s \in Session : Honest(s)'
    BY <1>1, <1>3 DEF Shown, Honest, Late
  <1> QED
    BY <1>1, <1>2, <1>4 DEF Grows

LEMMA OutsideHonest == ASSUME Typed, OutsideStep PROVE Grows /\ UNCHANGED op
  BY DEF OutsideStep, Edit, DoctorApproves, Update, shared, disk, launch, Grows

LEMMA HonestUnmoved ==
    ASSUME Shown, Grows, UNCHANGED op
    PROVE  \A s \in Session : Honest(s)'
  <1> SUFFICES ASSUME NEW s \in Session PROVE Honest(s)'
    OBVIOUS
  <1> QED
    BY HonestKept DEF Shown

LEMMA HonestNext ==
    ASSUME Typed, Base, Shown, PolicyIsEarned, [Next]_shared
    PROVE  Shown' /\ PolicyIsEarned'
  <1>1. ASSUME NEW r \in Session, SessionStep(r)
        PROVE  Grows /\ \A s \in Session : Honest(s)'
    <2>1. Grows /\ Honest(r)' /\ Alone(r)
      BY <1>1, SessionHonest, SessionSound DEF Base, Sound
    <2>2. ASSUME NEW s \in Session, s # r
          PROVE  Honest(s)'
      BY <2>1, <2>2, HonestKept DEF Alone, Shown
    <2> QED
      BY <2>1, <2>2
  <1>2. ASSUME NEW b \in Backend, ProcessStep(b)
        PROVE  Grows /\ \A s \in Session : Honest(s)'
    BY <1>2, ProcessHonest, HonestUnmoved
  <1>3. ASSUME NEW b \in Backend, End(b)
        PROVE  Grows /\ \A s \in Session : Honest(s)'
    BY <1>3, EndHonest
  <1>4. ASSUME OutsideStep
        PROVE  Grows /\ \A s \in Session : Honest(s)'
    BY <1>4, OutsideHonest, HonestUnmoved
  <1>5. Grows /\ \A s \in Session : Honest(s)'
    BY <1>1, <1>2, <1>3, <1>4, Steps
  <1>6. Offered' /\ PolicyIsEarned'
    BY <1>5, OfferedStep, EarnedStep DEF Shown
  <1> QED
    BY <1>5, <1>6 DEF Shown

-----------------------------------------------------------------------------
(* No second backend is started.                                           *)

LEMMA OneSession ==
    ASSUME One, NEW s \in Session
    PROVE  /\ op[s].pc \in {"ask", "drain"} => op[s].new = listed
           /\ op[s].pc = "await" => op[s].new \in Backend
  BY DEF One

\* A step that starts no backend, and awaits one no more only if there is no need.
LEMMA OneKept ==
    ASSUME One, NEW s \in Session, Alone(s), UNCHANGED listed,
           \A b \in Backend : Exists(b)' => Exists(b),
           op'[s].pc = "await" => op[s].pc = "await" /\ op'[s].new = op[s].new,
           op'[s].pc \in {"ask", "drain"} => op'[s].new = listed,
           op[s].pc = "await" => \/ op'[s].pc = "await"
                                 \/ ~Exists(op[s].new)
                                 \/ listed = op[s].new
    PROVE  One'
  <1>1. \A b, c \in Backend : Exists(b)' /\ Exists(c)' => b = c
    BY DEF One
  <1>2. ASSUME NEW b \in Backend, Exists(b)'
        PROVE  listed' = b \/ Awaited(b)'
    <2>1. CASE listed = b
      BY <2>1
    <2>2. ASSUME NEW r \in Session, op[r].pc = "await", op[r].new = b
          PROVE  listed' = b \/ Awaited(b)'
      <3>1. CASE r # s
        BY <2>2, <3>1 DEF Alone, Awaited
      <3>2. CASE r = s
        BY <1>2, <2>2, <3>2 DEF Awaited
      <3> QED
        BY <3>1, <3>2
    <2> QED
      BY <1>2, <2>1, <2>2 DEF One, Awaited
  <1>3. ASSUME NEW r \in Session
        PROVE  /\ op'[r].pc \in {"ask", "drain"} => op'[r].new = listed'
               /\ op'[r].pc = "await" => op'[r].new \in Backend
    <2>1. CASE r # s
      BY <2>1, OneSession DEF Alone
    <2>2. CASE r = s
      BY <2>2, OneSession
    <2> QED
      BY <2>1, <2>2
  <1> QED
    BY <1>1, <1>2, <1>3 DEF One

\* No session awaits a backend while another session, or none, holds the lock.
LEMMA NoneAwaited ==
    ASSUME One, LockHeld, NEW b \in Backend, Exists(b), ~Exists(listed),
           \A r \in Session : lock = r => op[r].pc # "await"
    PROVE  FALSE
  BY DEF One, Awaited, LockHeld, Starting

LEMMA SpawnOne ==
    ASSUME Typed, LockHeld, One, NEW s \in Session, Spawn(s)
    PROVE  One'
  <1>1. ~Exists(listed) /\ \A r \in Session : lock = r => op[r].pc # "await"
    <2>1. CASE op[s].pc = "ensure" /\ LockIsFree /\ ~Exists(listed)
      BY <2>1, SharedBackendAssumption DEF LockIsFree
    <2>2. CASE op[s].pc = "drain" /\ ~Exists(op[s].new)
      BY <2>2, OneSession DEF LockHeld, Starting
    <2> QED
      BY <2>1, <2>2 DEF Spawn
  <1>2. \A b \in Backend : ~Exists(b)
    BY <1>1, NoneAwaited
  <1>3. PICK b \in Unused :
            /\ backend' = [backend EXCEPT ![b] = [NoProcess EXCEPT !.phase = "booting"]]
            /\ op' = [op EXCEPT ![s] = [@ EXCEPT !.pc = "await", !.new = b]]
    BY DEF Spawn
  <1>4. b \in Backend /\ \A c \in Backend : c # b => backend'[c] = backend[c]
    BY <1>3 DEF Unused, Typed, BackendTyped
  <1>5. \A c \in Backend : Exists(c)' => c = b
    BY <1>2, <1>4 DEF Exists
  <1>6. /\ op'[s].pc = "await" /\ op'[s].new = b
        /\ \A r \in Session : r # s => op'[r] = op[r]
    BY <1>3 DEF Typed, OpTyped, Operation
  <1>7. Awaited(b)'
    BY <1>6 DEF Awaited
  <1>8. \A r \in Session : /\ op'[r].pc \in {"ask", "drain"} => op'[r].new = listed'
                           /\ op'[r].pc = "await" => op'[r].new \in Backend
    BY <1>4, <1>6, OneSession DEF Spawn
  <1> QED
    BY <1>5, <1>7, <1>8 DEF One

LEMMA LookOne ==
    ASSUME Typed, One, NEW s \in Session, Look(s)
    PROVE  One'
  <1>1. op[s].pc = "ensure" /\ UNCHANGED <<listed, backend>>
    BY DEF Look
  <1>2. \A b \in Backend : Exists(b)' => Exists(b)
    BY <1>1 DEF Exists
  <1>3. CASE op' = [op EXCEPT ![s] = [@ EXCEPT !.pc = "ask", !.new = listed]]
    <2>1. Alone(s) /\ op'[s].pc = "ask" /\ op'[s].new = listed
      BY <1>3 DEF Alone, Typed, OpTyped, Operation
    <2> QED
      BY <1>1, <1>2, <2>1, OneKept
  <1>4. CASE GiveUp(s) \/ Connect(s, listed)
    <2>1. Alone(s) /\ op'[s].pc \in {"idle", "send"}
      BY <1>4, GiveUpEffect, ConnectEffect DEF Typed
    <2> QED
      BY <1>1, <1>2, <2>1, OneKept
  <1> QED
    BY <1>3, <1>4 DEF Look

LEMMA AskToStopOne ==
    ASSUME Typed, One, NEW s \in Session, AskToStop(s)
    PROVE  One'
  <1>1. op[s].pc = "ask" /\ UNCHANGED listed
    BY DEF AskToStop
  <1>2. \/ GiveUp(s) /\ UNCHANGED backend
        \/ Connect(s, op[s].new) /\ UNCHANGED backend
        \/ Exists(op[s].new) /\ Go(s, "drain") /\ backend' = Stopping(op[s].new)
    BY DEF AskToStop
  <1>3. \A b \in Backend : Exists(b)' => Exists(b)
    BY <1>2 DEF Exists, Stopping, Typed, BackendTyped
  <1>4. /\ Alone(s)
        /\ \/ op'[s].pc \in {"idle", "send"}
           \/ op'[s].pc = "drain" /\ op'[s].new = op[s].new
    BY <1>2, GiveUpEffect, ConnectEffect, GoEffect DEF Typed
  <1>5. op'[s].pc = "drain" => op'[s].new = listed
    BY <1>1, <1>4, OneSession
  <1> QED
    BY <1>1, <1>3, <1>4, <1>5, OneKept

\* A launcher that gives up its wait leaves the backend behind.
LEMMA AwaitOne ==
    ASSUME Typed, One, NEW s \in Session, Await(s), ~abandoned'
    PROVE  One'
  <1>1. op[s].pc = "await" /\ UNCHANGED <<listed, backend>>
    BY DEF Await
  <1>2. \/ listed = op[s].new /\ Connect(s, op[s].new)
        \/ backend[op[s].new].phase = "dead" /\ GiveUp(s)
    BY Zenon DEF Await
  <1>3. Alone(s) /\ op'[s].pc \in {"idle", "send"}
    BY <1>2, GiveUpEffect, ConnectEffect DEF Typed
  <1>4. listed = op[s].new \/ ~Exists(op[s].new)
    BY <1>2 DEF Exists
  <1>5. \A b \in Backend : Exists(b)' => Exists(b)
    BY <1>1 DEF Exists
  <1> QED
    BY <1>1, <1>3, <1>4, <1>5, OneKept

LEMMA LauncherDiesOne ==
    ASSUME Typed, One, NEW s \in Session, LauncherDies(s), ~abandoned'
    PROVE  One'
  <1>1. op[s].pc # "await"
    BY Zenon DEF LauncherDies
  <1>2. Alone(s) /\ op'[s].pc = "idle" /\ UNCHANGED <<listed, backend>>
    BY DEF LauncherDies, Alone, Typed, OpTyped, NoOperation
  <1>3. \A b \in Backend : Exists(b)' => Exists(b)
    BY <1>2 DEF Exists
  <1> QED
    BY <1>1, <1>2, <1>3, OneKept

LEMMA DrainTimeoutOne ==
    ASSUME Typed, One, NEW s \in Session, DrainTimeout(s)
    PROVE  One'
  <1>1. op[s].pc = "drain" /\ GiveUp(s) /\ UNCHANGED <<listed, backend>>
    BY DEF DrainTimeout
  <1>2. \A b \in Backend : Exists(b)' => Exists(b)
    BY <1>1 DEF Exists
  <1> QED
    BY <1>1, <1>2, GiveUpEffect, OneKept DEF Typed

LEMMA CallSendOne ==
    ASSUME Typed, One, NEW s \in Session,
           Send(s) \/ \E kind \in Kind, t \in Token \cup {0} : Call(s, kind, t)
    PROVE  One'
  <1>1. op[s].pc \in {"idle", "send"} /\ UNCHANGED <<listed, backend>>
    BY DEF Call, Send, launch
  <1>2. Alone(s) /\ op'[s].pc \in {"idle", "send", "ensure", "admit"}
    <2>1. CASE Send(s)
      BY <2>1, GoEffect, ReturnEffect DEF Send, Typed
    <2>2. CASE \E kind \in Kind, t \in Token \cup {0} : Call(s, kind, t)
      BY <2>2 DEF Call, Alone, Typed, OpTyped, Operation
    <2> QED
      BY <2>1, <2>2
  <1>3. \A b \in Backend : Exists(b)' => Exists(b)
    BY <1>1 DEF Exists
  <1> QED
    BY <1>1, <1>2, <1>3, OneKept

\* A call in a backend neither starts nor awaits one.
LEMMA InsideOne ==
    ASSUME LockHeld, One, NEW s \in Session, Sound(s), op[s].pc \in InBackend, UNCHANGED launch
    PROVE  One'
  <1>1. Alone(s) /\ op[s].pc \notin Starting /\ op'[s].pc \notin Starting
    BY DEF Sound, LocksOwn, LockHeld, launch, InBackend, Starting
  <1>2. UNCHANGED listed /\ \A b \in Backend : Exists(b)' => Exists(b)
    BY DEF Sound, Connects, launch
  <1> QED
    BY <1>1, <1>2, OneKept DEF Starting

LEMMA SessionOne ==
    ASSUME Typed, Base, One, NEW s \in Session, SessionStep(s), ~abandoned'
    PROVE  One'
  <1>1. Sound(s)
    BY SessionSound DEF Base
  <1>2. CASE \/ Admit(s) \/ Work(s) \/ PreviewReload(s) \/ Reject(s) \/ Reload(s)
             \/ Approve(s) \/ Apply(s) \/ Activate(s)
    <2>1. op[s].pc \in InBackend /\ UNCHANGED launch
      BY <1>2 DEF InBackend, Admit, Work, PreviewReload, Reject, Reload, Approve, Apply, Activate
    <2> QED
      BY <1>1, <2>1, InsideOne DEF Base
  <1> QED
    BY <1>2, CallSendOne, LookOne, AskToStopOne, DrainTimeoutOne, SpawnOne, AwaitOne,
       LauncherDiesOne DEF SessionStep, Base

-----------------------------------------------------------------------------

\* The backend that lists itself is the one that was awaited.
LEMMA LoadOne ==
    ASSUME Typed, LockHeld, One, NEW b \in Backend, Load(b)
    PROVE  One'
  <1>1. Exists(b) /\ listed' = b /\ UNCHANGED op
    BY Bounds DEF Load, Exists
  <1>2. \A c \in Backend : Exists(c)' => Exists(c)
    BY <1>1 DEF Load, Exists, Typed, BackendTyped
  <1>3. \A c \in Backend : Exists(c) => c = b
    BY <1>1 DEF One
  <1>4. ASSUME NEW s \in Session, op[s].pc \in {"ask", "drain"}
        PROVE  listed = b
    <2>1. \A r \in Session : op[r].pc = "await" => FALSE
      BY <1>4 DEF LockHeld, Starting
    <2> QED
      BY <1>1, <2>1 DEF One, Awaited
  <1>5. \A s \in Session : /\ op[s].pc \in {"ask", "drain"} => op[s].new = b
                           /\ op[s].pc = "await" => op[s].new \in Backend
    BY <1>4, OneSession
  <1> QED
    BY <1>1, <1>2, <1>3, <1>5 DEF One

\* Other steps of a process start no backend and change no session's wait.
LEMMA ProcessOne ==
    ASSUME One, UNCHANGED listed, \A b \in Backend : Exists(b)' => Exists(b),
           \A s \in Session : \/ op'[s].pc = op[s].pc /\ op'[s].new = op[s].new
                              \/ op'[s].pc = "idle" /\ op[s].pc \notin Starting
    PROVE  One'
  <1>1. \A b \in Backend : Awaited(b) => Awaited(b)'
    BY DEF Awaited, Starting
  <1>2. \A b \in Backend : Exists(b)' => listed' = b \/ Awaited(b)'
    BY <1>1 DEF One
  <1>3. \A s \in Session : /\ op'[s].pc \in {"ask", "drain"} => op'[s].new = listed'
                           /\ op'[s].pc = "await" => op'[s].new \in Backend
    BY OneSession
  <1>4. \A b, c \in Backend : Exists(b)' /\ Exists(c)' => b = c
    BY DEF One
  <1> QED
    BY <1>2, <1>3, <1>4 DEF One

LEMMA ProcessStepOne ==
    ASSUME Typed, LockHeld, One, NEW b \in Backend, ProcessStep(b) \/ End(b)
    PROVE  One'
  <1>1. CASE Load(b)
    BY <1>1, LoadOne
  <1>2. CASE End(b)
    <2>1. UNCHANGED listed /\ \A c \in Backend : Exists(c)' => Exists(c)
      BY <1>2 DEF End, launch, Exists, Typed, BackendTyped, NoProcess
    <2>2. \A s \in Session : \/ op'[s].pc = op[s].pc /\ op'[s].new = op[s].new
                             \/ op'[s].pc = "idle" /\ op[s].pc \notin Starting
      BY <1>2 DEF End, NoOperation, InBackend, Starting, Typed, OpTyped, Operation
    <2> QED
      BY <2>1, <2>2, ProcessOne
  <1>3. CASE ProcessStep(b) /\ ~Load(b)
    <2>1. UNCHANGED <<listed, op>>
      BY <1>3 DEF ProcessStep, Serve, HumanStops, JobEnds, Expire, launch
    <2>2. \/ backend[b].phase = "listed" /\ backend' = [backend EXCEPT ![b].phase = "serving"]
          \/ backend[b].phase = "serving" /\ backend' = [backend EXCEPT ![b].phase = "stopping"]
          \/ backend' = [backend EXCEPT ![b].job = FALSE]
          \/ \E t \in Token : backend' = [backend EXCEPT ![b].pending = @ \ {t}]
      BY <1>3 DEF ProcessStep, Serve, HumanStops, Stopping, JobEnds, Expire
    <2>3. \A c \in Backend : Exists(c)' => Exists(c)
      BY <2>2 DEF Exists, Typed, BackendTyped, Shape
    <2> QED
      BY <2>1, <2>3, ProcessOne
  <1> QED
    BY <1>1, <1>2, <1>3

LEMMA OutsideOne == ASSUME One, OutsideStep PROVE One'
  <1>1. UNCHANGED <<listed, backend, op>>
    BY DEF OutsideStep, Edit, DoctorApproves, Update, shared, launch
  <1>2. \A b \in Backend : Exists(b)' => Exists(b)
    BY <1>1 DEF Exists
  <1> QED
    BY <1>1, <1>2, ProcessOne

\* A launcher that has left a backend behind has done so for good.
LEMMA StaysAbandoned == ASSUME [Next]_shared, abandoned PROVE abandoned'
  BY Zenon DEF Next, shared, launch, Call, Look, AskToStop, DrainTimeout, Spawn, Await,
     LauncherDies, Send, Admit, Work, PreviewReload, Reject, Reload, Approve, Apply, Activate, Load, Serve,
     End, HumanStops, JobEnds, Expire, Edit, DoctorApproves, Update

LEMMA OneNext == ASSUME Typed, Base, OneStarts, [Next]_shared PROVE OneStarts'
  <1> SUFFICES ASSUME ~abandoned'
               PROVE  One'
    BY Zenon DEF OneStarts
  <1>1. One
    BY Zenon, StaysAbandoned DEF OneStarts
  <1> QED
    BY <1>1, SessionOne, ProcessStepOne, OutsideOne, Steps DEF Base

-----------------------------------------------------------------------------
(* The theorems: the inductive invariant, and what follows from it.        *)

LEMMA InitInv == ASSUME SharedInit PROVE Inv
  <1>1. Typed
    BY TypedInit
  <1>2. /\ \A b \in Backend : backend[b] = NoProcess
        /\ \A s \in Session : op[s] = NoOperation
        /\ \A t \in Token : token[t] = NoPreview
        /\ lock = NoSession
    BY DEF SharedInit
  <1>3. Counted
    <2>1. \A b \in Backend : Inside(b) = {}
      BY <1>2 DEF Inside, Admitted, NoOperation
    <2> QED
      BY <1>2, <2>1, FS_EmptySet DEF Counted, NoProcess
  <1>4. Placed /\ LockHeld /\ StopsIdle
    BY <1>2, SharedBackendAssumption
       DEF Placed, LockHeld, Starting, InBackend, StopsIdle, NoOperation, NoProcess
  <1>5. Shown
    BY <1>2 DEF Shown, Offered, Honest, Late, NoOperation
  <1>6. PolicyIsEarned
    <2>1. store # NoPolicy => store \in consent
      BY DEF SharedInit
    <2> QED
      BY <1>2, <2>1 DEF PolicyIsEarned, NoProcess
  <1>7. One
    BY <1>2 DEF One, Exists, NoProcess, NoOperation
  <1> QED
    BY <1>1, <1>3, <1>4, <1>5, <1>6, <1>7 DEF Inv, Base, OneStarts

LEMMA InvNext == ASSUME Inv, [Next]_shared PROVE Inv'
  BY TypedNext, BaseNext, HonestNext, OneNext DEF Inv, Base

\* The invariant holds of every state.
THEOREM Invariance == Spec => []Inv
  BY InitInv, InvNext, PTL DEF Spec

\* The counts of calls are within the number of sessions.
LEMMA InvTypeOK == ASSUME Inv PROVE TypeOK
  <1>1. \A b \in Backend : backend[b].calls \in 0..Cardinality(Session)
    <2> SUFFICES ASSUME NEW b \in Backend
                 PROVE  backend[b].calls \in 0..Cardinality(Session)
      OBVIOUS
    <2>1. Cardinality(Session) \in Nat /\ Cardinality(Inside(b)) \in Nat
          /\ Cardinality(Inside(b)) <= Cardinality(Session)
      BY InsideFinite, FS_Subset, FS_CardinalityType, SharedBackendAssumption DEF Inside
    <2> QED
      BY <2>1 DEF Inv, Base, Counted
  <1>2. backend \in [Backend -> Process]
    BY <1>1 DEF Inv, Typed, BackendTyped, Shape, Process, Choice
  <1>3. abandoned \in BOOLEAN
    BY Zenon DEF Inv, Typed
  <1>4. /\ file \in Policy \cup {NoPolicy} /\ store \in Policy \cup {NoPolicy}
        /\ edits \in 0..MaxEdits /\ consent \subseteq Policy /\ installed \in Version
        /\ listed \in 0..MaxBackends /\ lock \in Session \cup {NoSession}
        /\ token \in [Token -> Preview] /\ asked \in 0..MaxCalls /\ op \in [Session -> Operation]
    BY DEF Inv, Typed, DiskTyped, ListTyped, LockTyped, TokenTyped, OpTyped, Choice
  <1> QED
    BY <1>2, <1>3, <1>4 DEF TypeOK

\* Every variable keeps its type, the counts of the calls in a backend included:
\* they stay between zero and the number of sessions.
THEOREM SharedTypes == Spec => []TypeOK
  BY Invariance, InvTypeOK, PTL

\* Whatever is active in a backend, or stored for the next start, a human has agreed
\* to, whatever edits of the file, previews, reloads and restarts come in between.
THEOREM PolicyEarned == Spec => []PolicyIsEarned
  <1>1. Inv => PolicyIsEarned
    BY DEF Inv
  <1> QED
    BY <1>1, Invariance, PTL

LEMMA InvIdleStop == ASSUME Inv PROVE IdleStopSparesWork
  <1> SUFFICES ASSUME NEW b \in Backend, backend[b].phase = "stopping"
               PROVE  /\ ~backend[b].job
                      /\ \A s \in Session : op[s].to = b => op[s].pc \notin InBackend \ {"admit"}
    BY DEF IdleStopSparesWork
  <1>1. ~backend[b].job /\ Inside(b) = {}
    BY StoppingEmpty DEF Inv, Base, StopsIdle
  <1> QED
    BY <1>1 DEF Inside, InBackend, Admitted

\* A backend that has agreed to stop runs no call and owns no active job.
THEOREM IdleStop == Spec => []IdleStopSparesWork
  BY Invariance, InvIdleStop, PTL

LEMMA InvOneBackend == ASSUME Inv PROVE OneBackend
  <1> DEFINE running == {b \in Backend : Exists(b)}
  <1> SUFFICES ASSUME ~abandoned
               PROVE  Cardinality(running) <= 1
    BY Zenon DEF OneBackend
  <1>1. One
    BY Zenon DEF Inv, OneStarts
  <1>2. CASE running = {}
    BY <1>2, FS_EmptySet
  <1>3. ASSUME NEW b \in running
        PROVE  Cardinality(running) <= 1
    <2>1. running = {b}
      BY <1>1, <1>3 DEF One
    <2> QED
      BY <2>1, FS_Singleton
  <1> QED
    BY <1>2, <1>3

\* There is one backend at most, whatever sessions look for one, start one, stop one for
\* an update and die, unless a launcher has left behind the one that it was starting.
THEOREM OneSharedBackend == Spec => []OneBackend
  BY Invariance, InvOneBackend, PTL

=============================================================================
