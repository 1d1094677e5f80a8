---------------------------- MODULE MpsWorkerProofs ----------------------------
(***************************************************************************)
(* What holds of an MPS sweep on its GPU host for every set of cases,      *)
(* every limit, every number of attempts and requests, and every kind of   *)
(* fault. The supervisor may be killed between any two of its steps, so    *)
(* the argument relates three views: the processes that exist, what the    *)
(* supervisor has in memory, and what state.json says. Supervised bounds   *)
(* the first by the second, KnownOnDisk and ServiceKnown by the third,     *)
(* and PlaceSound says where in supervise the second and the third agree.  *)
(***************************************************************************)
EXTENDS MpsWorker, Integers, FiniteSetTheorems, TLAPS

-----------------------------------------------------------------------------
(* The inductive invariant.                                                 *)

RunState == {"launching", "running"}

\* A request that was accepted can be applied.
QueueSound ==
    \A i \in DOMAIN queue :
       queue[i].action = "retry" =>
          queue[i].case \in Cases /\ queue[i].expected \in Attempt /\ queue[i].expected < MaxAttempts

Typed == /\ TypeOK /\ QueueSound
         /\ at.pc \in CasePc => at.case \in Cases

\* Before the launch nothing runs; without state.json nothing was started.
LaunchSound ==
    /\ receipt = "launched" <=> at.pc # "absent"
    /\ at.pc \in {"absent", "save"} => mem = NewSweep
    /\ disk.phase = "absent" =>
          at.pc \in {"absent", "save", "dead"} /\ mem = NewSweep /\ ~service.daemon
    /\ at.pc = "absent" => disk.phase = "absent"

\* Where the supervisor is, what it knows, and what it has saved.
PlaceSound ==
    /\ at.pc \in {"intend", "start", "spawn", "permit", "closing", "closed", "exit"} => disk = mem
    /\ at.pc \in {"start", "started"} => disk.launching
    /\ at.pc = "spawn" => mem.cases[at.case].state = "launching"
    /\ at.pc \in {"receipt", "permit"} => mem.cases[at.case].gpu_cleared
    /\ at.pc \in {"closing", "closed"} =>
          mem.phase = "closing" /\ \A c \in Cases : mem.cases[c].state \in Ended
    /\ at.pc = "closed" => ~service.daemon
    /\ mem.phase # "running" => at.pc \in {"closing", "closed", "exit", "dead"}
    /\ ParentUp /\ disk.phase = "running" => mem.phase = "running"

\* The supervisor knows every process that runs.
Supervised ==
    /\ \A c \in Cases, a \in Attempt :
          Alive(c, a) => /\ a = mem.cases[c].attempt /\ mem.cases[c].process
                         /\ mem.cases[c].state \in RunState
    /\ Cardinality(Running) <= MaxConcurrent

\* Every process that runs is known on disk, or may be.
KnownOnDisk ==
    \A c \in Cases, a \in Attempt :
       Alive(c, a) => /\ disk.cases[c].attempt = a
                      /\ disk.cases[c].process \/ disk.cases[c].state = "launching"

ServiceKnown ==
    /\ service.server => service.daemon
    /\ service.daemon => mem.daemon /\ (disk.daemon \/ disk.launching)

\* A process is let go with the teardown of its contexts saved.
LetGo ==
    \A c \in Cases, a \in Attempt :
       Alive(c, a) /\ client[c][a].command = "E" =>
          mem.cases[c].gpu_cleared /\ disk.cases[c].gpu_cleared

OutcomeSound ==
    /\ mem.outcome # "none" => at.pc \in {"exit", "dead"}
    /\ disk.outcome # "none" => disk.phase = "gone" /\ at.pc \in {"exit", "dead"} /\ ~GroupRuns

SucceededSound ==
    \A c \in Cases : mem.cases[c].state = "succeeded" => Proc(c).stage = "exited" /\ Proc(c).zero

Inv == /\ Typed /\ LaunchSound /\ PlaceSound /\ Supervised /\ KnownOnDisk /\ ServiceKnown
       /\ LetGo /\ OutcomeSound /\ SucceededSound /\ SuccessIsEarned /\ AcceptedIsApplied

\* What a step of the supervisor that ends no case leaves of it: a case that runs
\* goes on with its attempt, its process and its teardown, no case starts, and
\* none succeeds.
Keeps(m, n) ==
    /\ m.state \in RunState =>
          /\ n.state \in RunState /\ n.attempt = m.attempt
          /\ m.process => n.process
          /\ m.gpu_cleared => n.gpu_cleared
    /\ n.state \in RunState => m.state \in RunState
    /\ n.state = "succeeded" => m.state = "succeeded" /\ n.attempt = m.attempt

-----------------------------------------------------------------------------
(* Types, in parts.                                                         *)

MemTyped == mem \in SweepState /\ disk \in SweepState
AtTyped ==
    /\ at \in [pc: Pc \cup CasePc, case: Cases \cup {NoCase}, ready: BOOLEAN]
    /\ at.pc \in CasePc => at.case \in Cases
ClientTyped == client \in [Cases -> [Attempt -> Process]]
OuterTyped ==
    /\ service \in [daemon: BOOLEAN, server: BOOLEAN]
    /\ queue \in Seq(Request) /\ Len(queue) <= MaxRequests /\ QueueSound
    /\ receipt \in {"none", "launched", "failed"}
    /\ faults \subseteq Faults /\ stopping \in BOOLEAN

LEMMA TypeParts == Typed <=> MemTyped /\ AtTyped /\ ClientTyped /\ OuterTyped
  BY DEF Typed, TypeOK, MemTyped, AtTyped, ClientTyped, OuterTyped

LEMMA TypePartsNext ==
    ASSUME MemTyped', AtTyped', ClientTyped', OuterTyped'
    PROVE  Typed'
  BY DEF Typed, TypeOK, MemTyped, AtTyped, ClientTyped, OuterTyped

LEMMA FaultTyped ==
    ASSUME faults \subseteq Faults, NEW kind, Fault(kind)
    PROVE  faults' \subseteq Faults
  BY DEF Fault

LEMMA AttemptFacts == 1 \in Attempt /\ Attempt \subseteq Nat
  BY MpsWorkerAssumption DEF Attempt

LEMMA NewFacts ==
    /\ NewCase \in CaseRecord /\ NewSweep \in SweepState
    /\ [NewSweep EXCEPT !.phase = "absent"] \in SweepState
    /\ \A c \in Cases : NewSweep.cases[c] = NewCase
  <1>1. NewCase \in CaseRecord
    BY AttemptFacts DEF NewCase, CaseRecord, CaseState
  <1>2. NewSweep \in SweepState
    BY <1>1, MpsWorkerAssumption DEF NewSweep, SweepState, Phase
  <1>3. [NewSweep EXCEPT !.phase = "absent"] \in SweepState
    BY <1>2 DEF SweepState, Phase
  <1>4. \A c \in Cases : NewSweep.cases[c] = NewCase
    BY DEF NewSweep
  <1> QED
    BY <1>1, <1>2, <1>3, <1>4

\* A sweep's state with one case changed.
LEMMA CaseSet ==
    ASSUME NEW s \in SweepState, NEW c \in Cases, NEW x \in CaseRecord,
           NEW t, t = [s EXCEPT !.cases[c] = x]
    PROVE  /\ t \in SweepState /\ t.cases[c] = x /\ \A d \in Cases \ {c} : t.cases[d] = s.cases[d]
           /\ t.phase = s.phase /\ t.launching = s.launching /\ t.daemon = s.daemon
           /\ t.server = s.server /\ t.paused = s.paused /\ t.applied = s.applied
           /\ t.outcome = s.outcome
  <1>1. s.cases \in [Cases -> CaseRecord]
    BY DEF SweepState
  <1> DEFINE f == [s.cases EXCEPT ![c] = x]
  <1>2. f \in [Cases -> CaseRecord] /\ f[c] = x /\ \A d \in Cases \ {c} : f[d] = s.cases[d]
    BY <1>1
  <1>3. t = [s EXCEPT !.cases = f]
    OBVIOUS
  <1> HIDE DEF f
  <1>4. /\ t \in SweepState /\ t.cases = f
        /\ t.phase = s.phase /\ t.launching = s.launching /\ t.daemon = s.daemon
        /\ t.server = s.server /\ t.paused = s.paused /\ t.applied = s.applied
        /\ t.outcome = s.outcome
    BY <1>2, <1>3 DEF SweepState
  <1> QED
    BY <1>2, <1>4

SetClient(c, a, p) == client' = [client EXCEPT ![c][a] = p]

LEMMA ClientSet ==
    ASSUME ClientTyped, NEW c \in Cases, NEW a \in Attempt, NEW p \in Process, SetClient(c, a, p)
    PROVE  /\ ClientTyped' /\ client'[c][a] = p
           /\ \A d \in Cases, b \in Attempt : <<d, b>> # <<c, a>> => client'[d][b] = client[d][b]
  <1>1. client[c] \in [Attempt -> Process]
    BY DEF ClientTyped
  <1> DEFINE g == [client[c] EXCEPT ![a] = p]
  <1>2. g \in [Attempt -> Process] /\ g[a] = p /\ \A b \in Attempt \ {a} : g[b] = client[c][b]
    BY <1>1
  <1>3. client' = [client EXCEPT ![c] = g]
    BY DEF SetClient
  <1> HIDE DEF g
  <1>4. client'[c] = g /\ \A d \in Cases \ {c} : client'[d] = client[d]
    BY <1>3 DEF ClientTyped
  <1>5. ClientTyped'
    BY <1>2, <1>3 DEF ClientTyped
  <1> QED
    BY <1>2, <1>4, <1>5

-----------------------------------------------------------------------------
(* What the operators on a case return.                                     *)

LEMMA CancelledFacts ==
    ASSUME NEW m \in CaseRecord
    PROVE  Cancelled(m) \in CaseRecord /\ (m.state = "waiting" => Keeps(m, Cancelled(m)))
  BY DEF Cancelled, CaseRecord, CaseState, Ended, RunState, Keeps

LEMMA StoppedFacts ==
    ASSUME NEW m \in CaseRecord
    PROVE  Stopped(m) \in CaseRecord /\ Keeps(m, Stopped(m))
  <1>1. CASE m.state = "waiting"
    BY <1>1, CancelledFacts DEF Stopped
  <1>2. CASE m.state \in RunState
    <2>1. Stopped(m) = [m EXCEPT !.stop_requested = TRUE]
      BY <1>2 DEF Stopped, RunState
    <2> QED
      BY <2>1 DEF CaseRecord, Keeps
  <1>3. CASE m.state # "waiting" /\ m.state \notin RunState
    BY <1>3 DEF Stopped, RunState, Keeps
  <1> QED
    BY <1>1, <1>2, <1>3

LEMMA AppliedFacts ==
    ASSUME NEW r \in Request, NEW m \in CaseRecord,
           r.action = "retry" => r.expected \in Attempt /\ r.expected < MaxAttempts
    PROVE  Applied(r, m) \in CaseRecord /\ Keeps(m, Applied(r, m))
  <1>1. CASE m.attempt = r.expected /\ r.action = "stop"
    BY <1>1, StoppedFacts DEF Applied
  <1>2. CASE m.attempt = r.expected /\ r.action = "retry" /\ m.state \in Ended
    <2>1. Applied(r, m) = [NewCase EXCEPT !.attempt = r.expected + 1, !.gpu_cleared = FALSE]
      BY <1>2 DEF Applied
    <2>2. r.expected + 1 \in Attempt
      BY <1>2, MpsWorkerAssumption DEF Attempt
    <2> QED
      BY <1>2, <2>1, <2>2 DEF NewCase, CaseRecord, CaseState, Ended, RunState, Keeps
  <1>3. CASE /\ ~(m.attempt = r.expected /\ r.action = "stop")
             /\ ~(m.attempt = r.expected /\ r.action = "retry" /\ m.state \in Ended)
    <2>1. Applied(r, m) = m
      BY <1>3 DEF Applied
    <2> QED
      BY <2>1 DEF Keeps
  <1> QED
    BY <1>1, <1>2, <1>3

LEMMA ReportedFacts ==
    ASSUME NEW m \in CaseRecord, NEW p \in Process, m.state \in RunState
    PROVE  Reported(m, p) \in CaseRecord /\ Keeps(m, Reported(m, p))
  <1>1. CASE p.report = "ready" /\ ~Attached(p)
    <2>1. Reported(m, p) = [m EXCEPT !.pending_exit = "other"]
      BY <1>1 DEF Reported
    <2> QED
      BY <2>1 DEF CaseRecord, Keeps
  <1>2. CASE p.report = "ready" /\ Attached(p)
    <2>1. Reported(m, p) = [m EXCEPT !.state = "running", !.connected = TRUE]
      BY <1>2 DEF Reported
    <2> QED
      BY <2>1 DEF CaseRecord, CaseState, RunState, Keeps
  <1>3. CASE p.report = "aborted"
    <2>1. Reported(m, p) = [m EXCEPT !.gpu_cleared = TRUE, !.pending_exit = "other"]
      BY <1>3 DEF Reported
    <2> QED
      BY <2>1 DEF CaseRecord, Keeps
  <1>4. CASE p.report = "done"
    <2>1. Reported(m, p) = [m EXCEPT !.pending_exit = IF p.zero THEN "zero" ELSE "other"]
      BY <1>4 DEF Reported
    <2> QED
      BY <2>1 DEF CaseRecord, Keeps
  <1>5. CASE p.report = "none"
    BY <1>5 DEF Reported, Keeps
  <1> QED
    BY <1>1, <1>2, <1>3, <1>4, <1>5 DEF Process

LEMMA ToldFacts ==
    ASSUME NEW p \in Process
    PROVE  /\ Told(p) \in Process /\ Told(p).stage = p.stage /\ Told(p).zero = p.zero
           /\ Told(p).command = "E" => p.command = "E"
  <1> DEFINE k == IF p.report # "ready" THEN p.command ELSE IF Attached(p) THEN "R" ELSE "A"
  <1>1. k \in {"none", "A", "R", "E"} /\ (k = "E" => p.command = "E")
    BY DEF Process
  <1>2. Told(p) = [p EXCEPT !.report = "none", !.command = k]
    BY DEF Told
  <1> HIDE DEF k
  <1> QED
    BY <1>1, <1>2 DEF Process

-----------------------------------------------------------------------------
(* Steps of the supervisor, by what they leave alone.                       *)

Loop == {"loop"} \cup CasePc

\* A step of the loop: what it saves is what it has, and a place that relies on
\* a save is reached by one.
LoopTurn ==
    /\ at.pc \in Loop /\ at'.pc \in Loop
    /\ mem'.phase = mem.phase /\ mem'.outcome = mem.outcome /\ mem'.daemon = mem.daemon
    /\ disk' = disk \/ disk' = mem'
    /\ UNCHANGED <<service, queue, receipt>>
    /\ at'.pc \in {"spawn", "permit"} => disk' = mem'
    /\ at'.pc = "spawn" => mem'.cases[at'.case].state = "launching"
    /\ at'.pc \in {"receipt", "permit"} => mem'.cases[at'.case].gpu_cleared

\* A case ends when its process has exited, and succeeds if that returned zero.
Ends(c) ==
    /\ Proc(c).stage = "exited"
    /\ mem'.cases[c].state \in Ended /\ mem'.cases[c].attempt = mem.cases[c].attempt
    /\ mem'.cases[c].state = "succeeded" => Proc(c).zero

\* A case is launched when there is room for it.
Starts(c) ==
    /\ mem.cases[c].state = "waiting" /\ mem'.cases[c].state = "launching"
    /\ Cardinality(Running) < MaxConcurrent
    /\ \A d \in Cases \ {c} : mem'.cases[d] = mem.cases[d]

CasesKept == \A c \in Cases : Keeps(mem.cases[c], mem'.cases[c]) \/ Ends(c) \/ Starts(c)

\* The process of a case that is to be launched, on disk too.
Born(c, a) ==
    /\ a = mem'.cases[c].attempt /\ mem'.cases[c].process /\ mem'.cases[c].state \in RunState
    /\ a = disk'.cases[c].attempt /\ disk'.cases[c].state = "launching"
    /\ client'[c][a].command # "E"

\* No other process comes to life, and none is let go before its teardown is saved.
ClientsKept ==
    \A c \in Cases, a \in Attempt :
       \/ Born(c, a)
       \/ /\ Alive(c, a)' => Alive(c, a)
          /\ client[c][a].stage = "exited" =>
                client'[c][a].stage = "exited" /\ client'[c][a].zero = client[c][a].zero
          /\ client'[c][a].command = "E" =>
                \/ client[c][a].command = "E"
                \/ mem'.cases[c].gpu_cleared /\ disk'.cases[c].gpu_cleared

LEMMA LoopPlace ==
    at.pc \in Loop => /\ at.pc \notin {"absent", "save", "intend", "start", "started", "closing",
                                       "closed", "exit", "dead"}
                      /\ ParentUp
  BY DEF Loop, CasePc, ParentUp

LEMMA LoopTurnInv ==
    ASSUME Inv, LoopTurn
    PROVE  /\ LaunchSound' /\ PlaceSound' /\ ServiceKnown' /\ OutcomeSound'
           /\ SuccessIsEarned' /\ AcceptedIsApplied'
  <1>1. /\ at.pc \notin {"absent", "save", "intend", "start", "started", "closing", "closed", "exit", "dead"}
        /\ at'.pc \notin {"absent", "save", "intend", "start", "started", "closing", "closed", "exit", "dead"}
        /\ ParentUp /\ ParentUp'
    BY DEF LoopTurn, Loop, CasePc, ParentUp
  <1>2. /\ mem.phase = "running" /\ mem'.phase = "running" /\ mem.outcome = "none" /\ mem'.outcome = "none"
        /\ disk.outcome = "none" /\ disk'.outcome = "none" /\ disk.phase # "absent" /\ disk'.phase # "absent"
        /\ receipt' = "launched"
    BY <1>1 DEF Inv, LaunchSound, PlaceSound, OutcomeSound, LoopTurn
  <1>3. LaunchSound' /\ OutcomeSound' /\ SuccessIsEarned' /\ AcceptedIsApplied'
    BY <1>1, <1>2 DEF LaunchSound, OutcomeSound, SuccessIsEarned, AcceptedIsApplied
  <1>4. PlaceSound'
    BY <1>1, <1>2 DEF PlaceSound, LoopTurn
  <1>5. ServiceKnown'
    BY DEF Inv, ServiceKnown, LoopTurn
  <1> QED
    BY <1>3, <1>4, <1>5

LEMMA RunningShrinks ==
    ASSUME Supervised, Running' \subseteq Running
    PROVE  Cardinality(Running') <= MaxConcurrent
  <1>1. IsFiniteSet(Running)
    BY MpsWorkerAssumption, FS_Subset DEF Running
  <1>2. Cardinality(Running') <= Cardinality(Running) /\ IsFiniteSet(Running')
    BY <1>1, FS_Subset
  <1> QED
    BY <1>1, <1>2, FS_CardinalityType, MpsWorkerAssumption DEF Supervised

LEMMA RunningGrows ==
    ASSUME CasesKept, NEW c \in Cases, Starts(c)
    PROVE  Cardinality(Running') <= MaxConcurrent
  <1>1. IsFiniteSet(Running)
    BY MpsWorkerAssumption, FS_Subset DEF Running
  <1>2. Running' \subseteq Running \cup {c}
    BY DEF Running, Starts
  <1>3. IsFiniteSet(Running \cup {c}) /\ Cardinality(Running \cup {c}) <= Cardinality(Running) + 1
    <2>1. c \notin Running
      BY DEF Running, Starts
    <2>2. Cardinality(Running \cup {c}) = Cardinality(Running) + 1 /\ IsFiniteSet(Running \cup {c})
      BY <1>1, <2>1, FS_AddElement
    <2> QED
      BY <1>1, <2>2, FS_CardinalityType
  <1>4. Cardinality(Running') <= Cardinality(Running \cup {c}) /\ Cardinality(Running') \in Nat
    BY <1>2, <1>3, FS_Subset, FS_CardinalityType
  <1> QED
    BY <1>1, <1>3, <1>4, FS_CardinalityType, MpsWorkerAssumption DEF Starts

LEMMA CasesKeptInv ==
    ASSUME Inv, CasesKept, ClientsKept, disk' = disk \/ disk' = mem'
    PROVE  Supervised' /\ KnownOnDisk' /\ LetGo' /\ SucceededSound'
  <1>1. Cardinality(Running') <= MaxConcurrent
    <2>1. CASE \E c \in Cases : Starts(c)
      BY <2>1, RunningGrows
    <2>2. CASE \A c \in Cases : ~Starts(c)
      <3>1. Running' \subseteq Running
        BY <2>2 DEF CasesKept, Keeps, Ends, Ended, Running, RunState
      <3> QED
        BY <3>1, RunningShrinks DEF Inv
    <2> QED
      BY <2>1, <2>2
  <1>2. ASSUME NEW c \in Cases, NEW a \in Attempt, Alive(c, a)'
        PROVE  /\ a = mem'.cases[c].attempt /\ mem'.cases[c].process /\ mem'.cases[c].state \in RunState
               /\ disk'.cases[c].attempt = a
               /\ disk'.cases[c].process \/ disk'.cases[c].state = "launching"
               /\ client'[c][a].command = "E" =>
                     mem'.cases[c].gpu_cleared /\ disk'.cases[c].gpu_cleared
    <2>1. CASE Born(c, a)
      BY <2>1 DEF Born
    <2>2. CASE ~Born(c, a)
      <3>1. Alive(c, a)
        BY <1>2, <2>2 DEF ClientsKept
      <3>2. /\ a = mem.cases[c].attempt /\ mem.cases[c].process /\ mem.cases[c].state \in RunState
            /\ disk.cases[c].attempt = a
            /\ disk.cases[c].process \/ disk.cases[c].state = "launching"
            /\ client[c][a].command = "E" => mem.cases[c].gpu_cleared /\ disk.cases[c].gpu_cleared
        BY <3>1 DEF Inv, Supervised, KnownOnDisk, LetGo
      <3>3. Keeps(mem.cases[c], mem'.cases[c])
        BY <3>1, <3>2 DEF CasesKept, Ends, Starts, Proc, Alive, RunState
      <3>4. client'[c][a].command = "E" =>
               \/ client[c][a].command = "E"
               \/ mem'.cases[c].gpu_cleared /\ disk'.cases[c].gpu_cleared
        BY <2>2 DEF ClientsKept
      <3> QED
        BY <3>2, <3>3, <3>4 DEF Keeps
    <2> QED
      BY <2>1, <2>2
  <1>3. Supervised' /\ KnownOnDisk' /\ LetGo'
    BY <1>1, <1>2 DEF Supervised, KnownOnDisk, LetGo
  <1>4. ASSUME NEW c \in Cases, mem'.cases[c].state = "succeeded"
        PROVE  Proc(c)'.stage = "exited" /\ Proc(c)'.zero
    <2>1. /\ mem'.cases[c].attempt = mem.cases[c].attempt /\ mem.cases[c].attempt \in Attempt
          /\ Proc(c).stage = "exited" /\ Proc(c).zero
      BY <1>4, TypeParts DEF CasesKept, Keeps, Ends, Starts, Inv, SucceededSound, MemTyped, SweepState,
         CaseRecord
    <2>2. ~Born(c, mem.cases[c].attempt)
      BY <1>4 DEF Born, RunState
    <2> QED
      BY <2>1, <2>2 DEF Proc, ClientsKept
  <1> QED
    BY <1>3, <1>4 DEF SucceededSound

LEMMA LoopInv ==
    ASSUME Inv, Typed', LoopTurn, CasesKept, ClientsKept
    PROVE  Inv'
  <1>1. disk' = disk \/ disk' = mem'
    BY DEF LoopTurn
  <1> QED
    BY <1>1, LoopTurnInv, CasesKeptInv DEF Inv

\* A case keeps what it has in a step that leaves it alone.
LEMMA KeepsItself ==
    ASSUME NEW m
    PROVE  Keeps(m, m)
  BY DEF Keeps

LEMMA SameClients ==
    ASSUME client' = client
    PROVE  ClientsKept
  BY DEF ClientsKept, Alive

-----------------------------------------------------------------------------
(* Steps of the loop.                                                       *)

LEMMA LoopAt ==
    ASSUME Inv
    PROVE  /\ MemTyped /\ AtTyped /\ ClientTyped /\ OuterTyped
           /\ mem.cases \in [Cases -> CaseRecord] /\ disk.cases \in [Cases -> CaseRecord]
           /\ \A c \in Cases : mem.cases[c] \in CaseRecord /\ mem.cases[c].attempt \in Attempt
                               /\ Proc(c) \in Process
  <1>1. MemTyped /\ AtTyped /\ ClientTyped /\ OuterTyped
    BY TypeParts DEF Inv
  <1>2. mem.cases \in [Cases -> CaseRecord] /\ disk.cases \in [Cases -> CaseRecord]
    BY <1>1 DEF MemTyped, SweepState
  <1>3. \A c \in Cases : mem.cases[c] \in CaseRecord /\ mem.cases[c].attempt \in Attempt
    BY <1>2 DEF CaseRecord
  <1> QED
    BY <1>1, <1>2, <1>3 DEF ClientTyped, Proc

LEMMA GotoFacts ==
    ASSUME NEW pc \in Pc, Goto(pc)
    PROVE  AtTyped' /\ at'.pc = pc
  BY DEF Goto, AtTyped, Pc, CasePc

LEMMA GotoCaseFacts ==
    ASSUME NEW pc \in CasePc, NEW c \in Cases, NEW b \in BOOLEAN, GotoCase(pc, c, b)
    PROVE  AtTyped' /\ at'.pc = pc /\ at'.case = c
  BY DEF GotoCase, AtTyped

\* The supervisor moves on and saves what it has.
LEMMA SavedInLoop ==
    ASSUME Inv, SaveState, at.pc \in {"spawned", "receipt"}
    PROVE  Inv'
  <1> USE DEF world
  <1>1. mem' = mem /\ disk' = mem /\ UNCHANGED <<stopping, client, service, queue, receipt, faults>>
    BY DEF SaveState
  <1>2. /\ AtTyped' /\ at'.pc \in {"loop", "permit"}
        /\ at'.pc = "permit" => at.pc = "receipt" /\ at'.case = at.case
    <2>1. CASE at.pc = "spawned"
      <3>1. Goto("loop")
        BY <2>1 DEF SaveState, AfterSave, Resume
      <3> QED
        BY <3>1, GotoFacts DEF Pc
    <2>2. CASE at.pc = "receipt"
      <3>1. GotoCase("permit", at.case, at.ready) /\ at.case \in Cases /\ at.ready \in BOOLEAN
        BY <2>2, LoopAt DEF SaveState, AfterSave, Resume, AtTyped, CasePc
      <3> QED
        BY <2>2, <3>1, GotoCaseFacts DEF CasePc
    <2> QED
      BY <2>1, <2>2
  <1>3. LoopTurn
    BY <1>1, <1>2 DEF LoopTurn, Loop, CasePc, Inv, PlaceSound
  <1>4. Typed'
    BY <1>1, <1>2, LoopAt, TypePartsNext DEF MemTyped, ClientTyped, OuterTyped, QueueSound
  <1> QED
    BY <1>1, <1>3, <1>4, LoopInv, SameClients, KeepsItself DEF CasesKept

LEMMA ApplyInv ==
    ASSUME Inv, at.pc = "loop", mem.applied < Len(queue),
           NEW r, r = queue[mem.applied + 1],
           mem' = [mem EXCEPT !.applied = @ + 1,
                    !.cases = [c \in Cases |-> IF c = r.case THEN Applied(r, @[c]) ELSE @[c]]],
           stopping' = (stopping \/ r.case = NoCase), disk' = mem', UNCHANGED <<at, world>>
    PROVE  Inv'
  <1> USE DEF world
  <1>1. /\ mem.applied \in Nat /\ mem.applied + 1 \in DOMAIN queue
        /\ mem.applied + 1 \in 0..MaxRequests /\ r \in Request
        /\ r.action = "retry" => r.expected \in Attempt /\ r.expected < MaxAttempts
    BY LoopAt, MpsWorkerAssumption DEF MemTyped, SweepState, OuterTyped, QueueSound
  <1> DEFINE f == [c \in Cases |-> IF c = r.case THEN Applied(r, mem.cases[c]) ELSE mem.cases[c]]
  <1>2. /\ f \in [Cases -> CaseRecord]
        /\ \A c \in Cases : Keeps(mem.cases[c], f[c])
    BY <1>1, LoopAt, AppliedFacts, KeepsItself
  <1>3. mem' = [mem EXCEPT !.applied = @ + 1, !.cases = f]
    OBVIOUS
  <1> HIDE DEF f
  <1>4. /\ mem' \in SweepState /\ mem'.cases = f
        /\ mem'.phase = mem.phase /\ mem'.outcome = mem.outcome /\ mem'.daemon = mem.daemon
    BY <1>1, <1>2, <1>3, LoopAt DEF MemTyped, SweepState
  <1>5. Typed' /\ ClientsKept
    BY <1>4, LoopAt, TypePartsNext, SameClients DEF MemTyped, AtTyped, ClientTyped, OuterTyped, QueueSound
  <1>6. LoopTurn
    BY <1>4 DEF LoopTurn, Loop
  <1>7. CasesKept
    BY <1>2, <1>4 DEF CasesKept
  <1> QED
    BY <1>5, <1>6, <1>7, LoopInv

LEMMA CheckHealthInv ==
    ASSUME Inv, CheckHealth
    PROVE  Inv'
  <1>1. /\ at.pc = "loop" /\ UNCHANGED <<at, client, service, queue, receipt>>
        /\ stopping' \in BOOLEAN /\ faults' \subseteq Faults /\ (disk' = disk \/ disk' = mem')
        /\ mem' = [mem EXCEPT !.paused = TRUE] \/ mem' = [mem EXCEPT !.server = TRUE]
    BY LoopAt, FaultTyped DEF CheckHealth, Save, OuterTyped
  <1>2. /\ mem' \in SweepState /\ mem'.cases = mem.cases /\ mem'.phase = mem.phase
        /\ mem'.outcome = mem.outcome /\ mem'.daemon = mem.daemon
    BY <1>1, LoopAt DEF MemTyped, SweepState
  <1>3. Typed' /\ ClientsKept
    BY <1>1, <1>2, LoopAt, TypePartsNext, SameClients DEF MemTyped, AtTyped, ClientTyped, OuterTyped, QueueSound
  <1>4. LoopTurn /\ CasesKept
    BY <1>1, <1>2, KeepsItself DEF LoopTurn, Loop, CasesKept
  <1> QED
    BY <1>3, <1>4, LoopInv

LEMMA CancelAllInv ==
    ASSUME Inv, CancelAll
    PROVE  Inv'
  <1> DEFINE f == [c \in Cases |-> Stopped(mem.cases[c])]
  <1>1. f \in [Cases -> CaseRecord] /\ \A c \in Cases : Keeps(mem.cases[c], f[c])
    BY LoopAt, StoppedFacts
  <1>2. at.pc = "loop" /\ mem' = [mem EXCEPT !.cases = f]
        /\ UNCHANGED <<disk, stopping, at, client, service, queue, receipt, faults>>
    BY DEF CancelAll
  <1> HIDE DEF f
  <1>3. /\ mem' \in SweepState /\ mem'.cases = f
        /\ mem'.phase = mem.phase /\ mem'.outcome = mem.outcome /\ mem'.daemon = mem.daemon
    BY <1>1, <1>2, LoopAt DEF MemTyped, SweepState
  <1>4. Typed' /\ ClientsKept
    BY <1>2, <1>3, LoopAt, TypePartsNext, SameClients DEF MemTyped, AtTyped, ClientTyped, OuterTyped, QueueSound
  <1>5. LoopTurn /\ CasesKept
    BY <1>1, <1>2, <1>3 DEF LoopTurn, Loop, CasesKept
  <1> QED
    BY <1>4, <1>5, LoopInv

\* A step at one case of the loop changes the record of that case.
LEMMA OneCase ==
    ASSUME Inv, NEW c \in Cases, NEW x \in CaseRecord, mem'.cases[c] = x,
           \A d \in Cases \ {c} : mem'.cases[d] = mem.cases[d],
           Keeps(mem.cases[c], x)
    PROVE  CasesKept
  BY KeepsItself DEF CasesKept

\* A step on the process of a case changes nothing for the others.
LEMMA OneClient ==
    ASSUME Inv, NEW c \in Cases, NEW p \in Process, SetProc(c, p)
    PROVE  /\ ClientTyped' /\ client'[c][mem.cases[c].attempt] = p
           /\ \A d \in Cases, b \in Attempt :
                 <<d, b>> # <<c, mem.cases[c].attempt>> => client'[d][b] = client[d][b]
  <1>1. ClientTyped /\ mem.cases[c].attempt \in Attempt
    BY LoopAt
  <1> PICK a \in Attempt : a = mem.cases[c].attempt
    BY <1>1
  <1>2. SetClient(c, a, p)
    BY DEF SetProc, SetClient
  <1>3. /\ ClientTyped' /\ client'[c][a] = p
        /\ \A d \in Cases, b \in Attempt : <<d, b>> # <<c, a>> => client'[d][b] = client[d][b]
    BY <1>1, <1>2, ClientSet
  <1> QED
    BY <1>3

\* Its process stays what it is, or dies.
LEMMA OneClientKept ==
    ASSUME Inv, NEW c \in Cases, NEW p \in Process, SetProc(c, p),
           \/ p.stage = Proc(c).stage /\ p.zero = Proc(c).zero
           \/ p.stage = "exited" /\ Proc(c).stage # "exited",
           p.command = "E" => \/ Proc(c).command = "E"
                              \/ mem'.cases[c].gpu_cleared /\ disk'.cases[c].gpu_cleared
    PROVE  ClientsKept
  BY OneClient DEF ClientsKept, Alive, Proc

LEMMA ReadReportInv ==
    ASSUME Inv, NEW c \in Cases, ReadReport(c)
    PROVE  Inv'
  <1> DEFINE x == Reported(mem.cases[c], Proc(c))
             t == [mem EXCEPT !.cases[c] = x]
             b == mem.server \/ (Proc(c).report = "ready" /\ Attached(Proc(c)))
  <1>1. /\ at.pc = "loop" /\ c \in Running /\ SetProc(c, Told(Proc(c)))
        /\ mem' = [t EXCEPT !.server = b] /\ (disk' = disk \/ disk' = mem')
        /\ UNCHANGED <<stopping, service, queue, receipt, faults>>
    BY DEF ReadReport, Save
  <1>2. PICK ready \in BOOLEAN : GotoCase("case", c, ready)
    <2>1. GotoCase("case", c, Proc(c).report # "none" \/ Proc(c).stage = "exited")
      BY DEF ReadReport
    <2> QED
      BY <2>1
  <1>3. AtTyped' /\ at'.pc = "case" /\ at'.case = c
    BY <1>2, GotoCaseFacts DEF CasePc
  <1>4. x \in CaseRecord /\ Keeps(mem.cases[c], x)
    BY <1>1, LoopAt, ReportedFacts DEF Running, RunState
  <1> HIDE DEF x
  <1>5. /\ t \in SweepState /\ t.cases[c] = x /\ \A d \in Cases \ {c} : t.cases[d] = mem.cases[d]
        /\ t.phase = mem.phase /\ t.daemon = mem.daemon /\ t.outcome = mem.outcome
        /\ t.server = mem.server
    BY <1>4, LoopAt, CaseSet DEF MemTyped
  <1>6. b \in BOOLEAN
    BY LoopAt DEF MemTyped, SweepState
  <1> HIDE DEF t, b
  <1>7. /\ mem' \in SweepState /\ mem'.cases = t.cases
        /\ mem'.phase = mem.phase /\ mem'.daemon = mem.daemon /\ mem'.outcome = mem.outcome
    BY <1>1, <1>5, <1>6 DEF SweepState
  <1>8. ClientTyped' /\ ClientsKept
    <2> PICK p \in Process : p = Told(Proc(c))
      BY LoopAt, ToldFacts
    <2>1. SetProc(c, p) /\ p.stage = Proc(c).stage /\ p.zero = Proc(c).zero
          /\ (p.command = "E" => Proc(c).command = "E")
      BY <1>1, LoopAt, ToldFacts
    <2> QED
      BY <2>1, OneClient, OneClientKept
  <1>9. Typed'
    BY <1>1, <1>3, <1>7, <1>8, LoopAt, TypePartsNext DEF MemTyped, OuterTyped, QueueSound
  <1>10. LoopTurn
    BY <1>1, <1>3, <1>7 DEF LoopTurn, Loop, CasePc
  <1>11. CasesKept
    BY <1>4, <1>5, <1>7, OneCase
  <1> QED
    BY <1>8, <1>9, <1>10, <1>11, LoopInv

\* A teardown that MPS confirms is recorded, one that it refuses pauses the sweep.
LEMMA TerminateInv ==
    ASSUME Inv, Terminate
    PROVE  Inv'
  <1>0. at.pc = "case" /\ at.case \in Cases
    BY LoopAt DEF Terminate, AtTyped, CasePc
  <1> PICK c \in Cases : c = at.case
    BY <1>0
  <1>1. /\ at.pc = "case" /\ c \in Cases /\ at.ready \in BOOLEAN
        /\ UNCHANGED <<stopping, service, queue, receipt>>
    BY LoopAt DEF Terminate, AtTyped, CasePc
  <1>2. /\ Proc(c) \in Process /\ mem.cases[c] \in CaseRecord /\ mem \in SweepState
    BY <1>1, LoopAt DEF MemTyped
  <1>3. ASSUME GotoCase("receipt", c, at.ready), SetProc(c, [Proc(c) EXCEPT !.mps = FALSE]),
               mem' = [mem EXCEPT !.cases[c].gpu_cleared = TRUE], UNCHANGED <<disk, faults>>
        PROVE  Inv'
    <2>0. [mem.cases[c] EXCEPT !.gpu_cleared = TRUE] \in CaseRecord /\ [Proc(c) EXCEPT !.mps = FALSE] \in Process
      BY <1>2 DEF CaseRecord, Process
    <2> PICK x \in CaseRecord : x = [mem.cases[c] EXCEPT !.gpu_cleared = TRUE]
      BY <2>0
    <2> PICK p \in Process : p = [Proc(c) EXCEPT !.mps = FALSE]
      BY <2>0
    <2>1. /\ x \in CaseRecord /\ x.gpu_cleared /\ Keeps(mem.cases[c], x)
      BY <1>2 DEF CaseRecord, Keeps
    <2>2. mem' = [mem EXCEPT !.cases[c] = x]
      BY <1>3
    <2>3. p \in Process /\ p.stage = Proc(c).stage /\ p.zero = Proc(c).zero /\ p.command = Proc(c).command
      BY <1>2 DEF Process
    <2>4. SetProc(c, p)
      BY <1>3
    <2>5. /\ mem' \in SweepState /\ mem'.cases[c] = x
          /\ \A d \in Cases \ {c} : mem'.cases[d] = mem.cases[d]
          /\ mem'.phase = mem.phase /\ mem'.daemon = mem.daemon /\ mem'.outcome = mem.outcome
      BY <1>1, <1>2, <2>1, <2>2, CaseSet
    <2>6. AtTyped' /\ at'.pc = "receipt" /\ at'.case = c
      BY <1>1, <1>3, GotoCaseFacts DEF CasePc
    <2>7. ClientTyped' /\ ClientsKept
      BY <1>1, <2>3, <2>4, OneClient, OneClientKept
    <2>8. Typed'
      BY <1>1, <1>3, <2>5, <2>6, <2>7, LoopAt, TypePartsNext DEF MemTyped, OuterTyped, QueueSound
    <2>9. LoopTurn
      BY <1>1, <1>3, <2>1, <2>5, <2>6 DEF LoopTurn, Loop, CasePc
    <2>10. CasesKept
      BY <1>1, <2>1, <2>5, OneCase
    <2> QED
      BY <2>7, <2>8, <2>9, <2>10, LoopInv
  <1>4. ASSUME GotoCase("poll", c, at.ready), faults' \subseteq Faults, UNCHANGED client,
               mem' = mem \/ mem' = [mem EXCEPT !.paused = TRUE], disk' = disk \/ disk' = mem'
        PROVE  Inv'
    <2>1. /\ mem' \in SweepState /\ mem'.cases = mem.cases
          /\ mem'.phase = mem.phase /\ mem'.daemon = mem.daemon /\ mem'.outcome = mem.outcome
      BY <1>2, <1>4 DEF SweepState
    <2>2. AtTyped' /\ at'.pc = "poll" /\ at'.case = c
      BY <1>1, <1>4, GotoCaseFacts DEF CasePc
    <2>3. Typed' /\ ClientsKept
      BY <1>1, <1>4, <2>1, <2>2, LoopAt, SameClients, TypePartsNext
         DEF MemTyped, ClientTyped, OuterTyped, QueueSound
    <2>4. LoopTurn /\ CasesKept
      BY <1>1, <1>4, <2>1, <2>2, KeepsItself DEF LoopTurn, Loop, CasePc, CasesKept
    <2> QED
      BY <2>3, <2>4, LoopInv
  <1>5. \/ /\ GotoCase("receipt", c, at.ready) /\ SetProc(c, [Proc(c) EXCEPT !.mps = FALSE])
           /\ mem' = [mem EXCEPT !.cases[c].gpu_cleared = TRUE] /\ UNCHANGED <<disk, faults>>
        \/ /\ GotoCase("poll", c, at.ready) /\ UNCHANGED client
           /\ Fault("refuse") \/ UNCHANGED faults
           /\ \/ mem' = [mem EXCEPT !.paused = TRUE] /\ disk' = mem'
              \/ UNCHANGED <<mem, disk>>
    BY DEF Terminate, Save
  <1>6. (Fault("refuse") \/ UNCHANGED faults) => faults' \subseteq Faults
    BY LoopAt, FaultTyped DEF OuterTyped
  <1> QED
    BY <1>3, <1>4, <1>5, <1>6

\* A process is let go, or killed, with its teardown saved.
LEMMA PermitInv ==
    ASSUME Inv, Permit
    PROVE  Inv'
  <1>0. at.pc = "permit" /\ at.case \in Cases
    BY LoopAt DEF Permit, AtTyped, CasePc
  <1> PICK c \in Cases : c = at.case
    BY <1>0
  <1>1. /\ at.pc = "permit" /\ c \in Cases /\ at.ready \in BOOLEAN
        /\ GotoCase("poll", c, at.ready) /\ disk' = mem'
        /\ UNCHANGED <<stopping, service, queue, receipt, faults>>
    BY LoopAt DEF Permit, Save, AtTyped, CasePc
  <1>2. Proc(c) \in Process /\ mem \in SweepState /\ mem.cases[c].gpu_cleared
    BY <1>1, LoopAt DEF Inv, PlaceSound, MemTyped
  <1>3. PICK b \in BOOLEAN : mem' = [mem EXCEPT !.paused = b]
    <2>1. mem.paused \in BOOLEAN
      BY <1>2 DEF SweepState
    <2> QED
      BY <2>1 DEF Permit
  <1>4. /\ mem' \in SweepState /\ mem'.cases = mem.cases
        /\ mem'.phase = mem.phase /\ mem'.daemon = mem.daemon /\ mem'.outcome = mem.outcome
    BY <1>2, <1>3 DEF SweepState
  <1>5. AtTyped' /\ at'.pc = "poll" /\ at'.case = c
    BY <1>1, GotoCaseFacts DEF CasePc
  <1>6. ClientTyped' /\ ClientsKept
    <2>1. CASE client' = client
      BY <2>1, LoopAt, SameClients DEF ClientTyped
    <2>2. CASE Proc(c).stage # "exited" /\ SetProc(c, [Proc(c) EXCEPT !.stage = "exited", !.zero = FALSE])
      <3>1. [Proc(c) EXCEPT !.stage = "exited", !.zero = FALSE] \in Process
        BY <1>2 DEF Process, Stage
      <3> PICK p \in Process : p = [Proc(c) EXCEPT !.stage = "exited", !.zero = FALSE]
        BY <3>1
      <3>2. SetProc(c, p) /\ p.stage = "exited" /\ p.command = Proc(c).command
        BY <1>2, <2>2 DEF Process
      <3> QED
        BY <2>2, <3>2, OneClient, OneClientKept
    <2>3. CASE SetProc(c, [Proc(c) EXCEPT !.command = "E"])
      <3>1. [Proc(c) EXCEPT !.command = "E"] \in Process
        BY <1>2 DEF Process
      <3> PICK p \in Process : p = [Proc(c) EXCEPT !.command = "E"]
        BY <3>1
      <3>2. mem'.cases[c].gpu_cleared /\ disk'.cases[c].gpu_cleared
        BY <1>1, <1>2, <1>4
      <3>3. SetProc(c, p) /\ p.stage = Proc(c).stage /\ p.zero = Proc(c).zero
        BY <1>2, <2>3 DEF Process
      <3> QED
        BY <3>2, <3>3, OneClient, OneClientKept
    <2> QED
      BY <2>1, <2>2, <2>3 DEF Permit
  <1>7. Typed'
    BY <1>1, <1>4, <1>5, <1>6, LoopAt, TypePartsNext DEF MemTyped, OuterTyped, QueueSound
  <1>8. LoopTurn /\ CasesKept
    BY <1>1, <1>4, <1>5, KeepsItself DEF LoopTurn, Loop, CasePc, CasesKept
  <1> QED
    BY <1>6, <1>7, <1>8, LoopInv

\* A case ends with the exit of its process.
LEMMA PollInv ==
    ASSUME Inv, Poll
    PROVE  Inv'
  <1> USE DEF world
  <1>0. at.pc = "poll" /\ at.case \in Cases
    BY LoopAt DEF Poll, AtTyped, CasePc
  <1> PICK c \in Cases : c = at.case
    BY <1>0
  <1>1. Goto("loop") /\ UNCHANGED <<client, service, queue, receipt, faults>>
    BY DEF Poll
  <1>2. AtTyped' /\ at'.pc = "loop"
    BY <1>1, GotoFacts DEF Pc
  <1>3. mem \in SweepState /\ mem.cases[c] \in CaseRecord /\ stopping \in BOOLEAN
    BY LoopAt DEF MemTyped, OuterTyped
  <1>4. CASE UNCHANGED <<mem, disk, stopping>>
    <2>1. Typed' /\ LoopTurn /\ CasesKept /\ ClientsKept
      BY <1>0, <1>1, <1>2, <1>4, LoopAt, SameClients, KeepsItself, TypePartsNext
         DEF MemTyped, ClientTyped, OuterTyped, QueueSound, LoopTurn, Loop, CasePc, CasesKept
    <2> QED
      BY <2>1, LoopInv
  <1>5. CASE /\ Proc(c).stage = "exited" /\ disk' = mem'
             /\ mem' = [mem EXCEPT !.cases[c].state = FinalState(mem.cases[c], Proc(c)),
                                   !.paused = @ \/ ~mem.cases[c].gpu_cleared]
             /\ stopping' = (stopping \/ ~mem.cases[c].gpu_cleared)
    <2>1. /\ FinalState(mem.cases[c], Proc(c)) \in Ended
          /\ FinalState(mem.cases[c], Proc(c)) = "succeeded" => Proc(c).zero
      BY DEF FinalState, Ended
    <2>2. [mem.cases[c] EXCEPT !.state = FinalState(mem.cases[c], Proc(c))] \in CaseRecord
      BY <1>3, <2>1 DEF CaseRecord, CaseState
    <2> PICK x \in CaseRecord : x = [mem.cases[c] EXCEPT !.state = FinalState(mem.cases[c], Proc(c))]
      BY <2>2
    <2>3. x.state = FinalState(mem.cases[c], Proc(c)) /\ x.attempt = mem.cases[c].attempt
      BY <1>3 DEF CaseRecord
    <2> DEFINE t == [mem EXCEPT !.cases[c] = x]
               b == mem.paused \/ ~mem.cases[c].gpu_cleared
    <2>4. mem' = [t EXCEPT !.paused = b] /\ b \in BOOLEAN
      BY <1>3, <1>5 DEF SweepState
    <2>5. /\ t \in SweepState /\ t.cases[c] = x
          /\ \A d \in Cases \ {c} : t.cases[d] = mem.cases[d]
          /\ t.phase = mem.phase /\ t.daemon = mem.daemon /\ t.outcome = mem.outcome
      BY <1>3, CaseSet
    <2> HIDE DEF t, b
    <2>6. /\ mem' \in SweepState /\ mem'.cases = t.cases
          /\ mem'.phase = mem.phase /\ mem'.daemon = mem.daemon /\ mem'.outcome = mem.outcome
      BY <2>4, <2>5 DEF SweepState
    <2>7. Typed' /\ ClientsKept
      BY <1>1, <1>2, <1>3, <1>5, <2>6, LoopAt, SameClients, TypePartsNext
         DEF MemTyped, ClientTyped, OuterTyped, QueueSound
    <2>8. LoopTurn
      BY <1>0, <1>1, <1>2, <1>5, <2>6 DEF LoopTurn, Loop, CasePc
    <2>9. CasesKept
      BY <1>5, <2>1, <2>3, <2>5, <2>6, KeepsItself DEF CasesKept, Ends
    <2> QED
      BY <2>7, <2>8, <2>9, LoopInv
  <1> QED
    BY <1>4, <1>5 DEF Poll, Save

LEMMA LaunchIntentInv ==
    ASSUME Inv, NEW c \in Cases, LaunchIntent(c)
    PROVE  Inv'
  <1> USE DEF world
  <1>1. /\ at.pc = "loop" /\ mem.cases[c].state = "waiting" /\ Cardinality(Running) < MaxConcurrent
        /\ mem' = [mem EXCEPT !.cases[c].state = "launching", !.cases[c].gpu_cleared = FALSE]
        /\ disk' = mem' /\ GotoCase("spawn", c, FALSE)
        /\ UNCHANGED <<stopping, client, service, queue, receipt, faults>>
    BY DEF LaunchIntent, HasRoom, Save
  <1>2. AtTyped' /\ at'.pc = "spawn" /\ at'.case = c
    BY <1>1, GotoCaseFacts DEF CasePc
  <1>3. mem \in SweepState /\ mem.cases[c] \in CaseRecord
    BY LoopAt DEF MemTyped
  <1>4. [mem.cases[c] EXCEPT !.state = "launching", !.gpu_cleared = FALSE] \in CaseRecord
    BY <1>3 DEF CaseRecord, CaseState
  <1> PICK x \in CaseRecord : x = [mem.cases[c] EXCEPT !.state = "launching", !.gpu_cleared = FALSE]
    BY <1>4
  <1>5. x.state = "launching"
    BY <1>3 DEF CaseRecord
  <1>6. mem' = [mem EXCEPT !.cases[c] = x]
    BY <1>1, <1>3 DEF SweepState
  <1>7. /\ mem' \in SweepState /\ mem'.cases[c] = x
        /\ \A d \in Cases \ {c} : mem'.cases[d] = mem.cases[d]
        /\ mem'.phase = mem.phase /\ mem'.daemon = mem.daemon /\ mem'.outcome = mem.outcome
    BY <1>3, <1>6, CaseSet
  <1>8. Typed' /\ ClientsKept
    BY <1>1, <1>2, <1>7, LoopAt, SameClients, TypePartsNext
       DEF MemTyped, ClientTyped, OuterTyped, QueueSound
  <1>9. LoopTurn
    <2>1. at.pc = "loop" /\ disk' = mem' /\ UNCHANGED <<service, queue, receipt>>
      BY <1>1
    <2>2. mem'.cases[at'.case].state = "launching"
      BY <1>2, <1>5, <1>7
    <2> QED
      BY <1>2, <1>7, <2>1, <2>2 DEF LoopTurn, Loop, CasePc
  <1>10. CasesKept
    BY <1>1, <1>5, <1>7, KeepsItself DEF CasesKept, Starts
  <1> QED
    BY <1>8, <1>9, <1>10, LoopInv

\* The process of a case starts, known on disk by the intent to launch it.
LEMMA SpawnInv ==
    ASSUME Inv, Spawn
    PROVE  Inv'
  <1>0. at.pc = "spawn" /\ at.case \in Cases
    BY LoopAt DEF Spawn, AtTyped, CasePc
  <1> PICK c \in Cases : c = at.case
    BY <1>0
  <1>1. /\ GotoCase("spawned", c, FALSE) /\ SetProc(c, [NoProcess EXCEPT !.stage = "boot"])
        /\ mem' = [mem EXCEPT !.cases[c].process = TRUE]
        /\ UNCHANGED <<disk, stopping, service, queue, receipt, faults>>
    BY DEF Spawn
  <1>2. AtTyped' /\ at'.pc = "spawned" /\ at'.case = c
    BY <1>1, GotoCaseFacts DEF CasePc
  <1>3. /\ mem \in SweepState /\ mem.cases[c] \in CaseRecord /\ mem.cases[c].attempt \in Attempt
        /\ disk = mem /\ mem.cases[c].state = "launching"
    BY <1>0, LoopAt DEF MemTyped, Inv, PlaceSound
  <1>4. /\ [mem.cases[c] EXCEPT !.process = TRUE] \in CaseRecord
        /\ [NoProcess EXCEPT !.stage = "boot"] \in Process
    BY <1>3 DEF CaseRecord, NoProcess, Process, Stage
  <1> PICK x \in CaseRecord : x = [mem.cases[c] EXCEPT !.process = TRUE]
    BY <1>4
  <1> PICK p \in Process : p = [NoProcess EXCEPT !.stage = "boot"]
    BY <1>4
  <1>5. /\ x.state = "launching" /\ x.attempt = mem.cases[c].attempt /\ x.process
        /\ Keeps(mem.cases[c], x) /\ p.command # "E"
    BY <1>3 DEF CaseRecord, RunState, Keeps, NoProcess
  <1>6. mem' = [mem EXCEPT !.cases[c] = x] /\ SetProc(c, p)
    BY <1>1, <1>3 DEF SweepState
  <1>7. /\ mem' \in SweepState /\ mem'.cases[c] = x
        /\ \A d \in Cases \ {c} : mem'.cases[d] = mem.cases[d]
        /\ mem'.phase = mem.phase /\ mem'.daemon = mem.daemon /\ mem'.outcome = mem.outcome
    BY <1>3, <1>6, CaseSet
  <1>8. /\ ClientTyped' /\ client'[c][mem.cases[c].attempt] = p
        /\ \A d \in Cases, b \in Attempt :
              <<d, b>> # <<c, mem.cases[c].attempt>> => client'[d][b] = client[d][b]
    BY <1>6, OneClient
  <1>9. Born(c, mem.cases[c].attempt)
    BY <1>1, <1>3, <1>5, <1>7, <1>8 DEF Born, RunState
  <1>10. ClientsKept
    BY <1>8, <1>9 DEF ClientsKept, Alive
  <1>11. Typed'
    BY <1>1, <1>2, <1>7, <1>8, LoopAt, TypePartsNext DEF MemTyped, OuterTyped, QueueSound
  <1>12. LoopTurn /\ CasesKept
    BY <1>0, <1>1, <1>2, <1>5, <1>7, OneCase DEF LoopTurn, Loop, CasePc
  <1> QED
    BY <1>10, <1>11, <1>12, LoopInv

-----------------------------------------------------------------------------
(* Before the loop, after it, and the supervisor's failure and death.       *)

LEMMA UpFacts ==
    ASSUME Inv, at.pc \notin {"absent", "exit", "dead"}
    PROVE  /\ ParentUp /\ receipt = "launched" /\ mem.outcome = "none" /\ disk.outcome = "none"
           /\ mem.phase # "absent" /\ (at.pc # "save" => disk.phase # "absent")
  <1>1. ParentUp /\ receipt = "launched" /\ mem.outcome = "none" /\ disk.outcome = "none"
    BY DEF ParentUp, Inv, LaunchSound, OutcomeSound
  <1>2. at.pc # "save" => disk.phase # "absent"
    BY DEF Inv, LaunchSound
  <1>3. mem.phase # "absent"
    BY <1>2 DEF Inv, LaunchSound, PlaceSound, NewSweep
  <1> QED
    BY <1>1, <1>2, <1>3

\* The handler around supervise saves what it marks.
LEMMA FailInv ==
    ASSUME Inv, Fail, faults' \subseteq Faults, at.pc \in Loop \cup {"start", "closing"}
    PROVE  Inv'
  <1>1. /\ Goto("exit") /\ disk' = mem' /\ UNCHANGED <<stopping, client, queue, receipt>>
    BY DEF Fail, Save
  <1>2. AtTyped' /\ at'.pc = "exit"
    BY <1>1, GotoFacts DEF Pc
  <1>3. /\ mem \in SweepState /\ service \in [daemon: BOOLEAN, server: BOOLEAN]
        /\ receipt = "launched" /\ mem.outcome = "none"
    BY LoopAt, UpFacts, LoopPlace DEF MemTyped, OuterTyped
  <1> DEFINE failed == [mem EXCEPT !.phase = "unknown", !.paused = TRUE]
  <1>4. /\ failed \in SweepState /\ failed.phase = "unknown" /\ failed.outcome = "none"
        /\ failed.daemon = mem.daemon /\ failed.cases = mem.cases
    BY <1>3 DEF SweepState, Phase
  <1> DEFINE f == [c \in Cases |-> Cancelled(mem.cases[c])]
  <1>5. \/ mem' = failed /\ UNCHANGED service
        \/ /\ \A c \in Cases : mem.cases[c].state = "waiting"
           /\ mem' = [failed EXCEPT !.launching = FALSE, !.cases = f]
           /\ service' = [daemon |-> FALSE, server |-> FALSE]
        \/ /\ mem' = [failed EXCEPT !.daemon = TRUE]
           /\ service' = [service EXCEPT !.daemon = TRUE]
    BY <1>3 DEF Fail, SweepState
  <1>6. f \in [Cases -> CaseRecord]
    BY LoopAt, CancelledFacts
  <1>7. \A c \in Cases : mem.cases[c].state = "waiting" => Keeps(mem.cases[c], f[c])
    BY LoopAt, CancelledFacts
  <1> HIDE DEF failed, f
  <1>8. /\ mem' \in SweepState /\ mem'.phase = "unknown" /\ mem'.outcome = "none"
        /\ CasesKept
        /\ service' \in [daemon: BOOLEAN, server: BOOLEAN]
        /\ service'.server => service'.daemon
        /\ service'.daemon => mem'.daemon
    <2>1. CASE mem' = failed /\ UNCHANGED service
      BY <1>3, <1>4, <2>1, KeepsItself DEF CasesKept, Inv, ServiceKnown
    <2>2. CASE /\ \A c \in Cases : mem.cases[c].state = "waiting"
               /\ mem' = [failed EXCEPT !.launching = FALSE, !.cases = f]
               /\ service' = [daemon |-> FALSE, server |-> FALSE]
      <3>1. mem' \in SweepState /\ mem'.phase = "unknown" /\ mem'.outcome = "none" /\ mem'.cases = f
        BY <1>4, <1>6, <2>2 DEF SweepState
      <3> QED
        BY <1>7, <2>2, <3>1 DEF CasesKept
    <2>3. CASE mem' = [failed EXCEPT !.daemon = TRUE] /\ service' = [service EXCEPT !.daemon = TRUE]
      <3>1. /\ mem' \in SweepState /\ mem'.phase = "unknown" /\ mem'.outcome = "none"
            /\ mem'.cases = mem.cases /\ mem'.daemon
        BY <1>4, <2>3 DEF SweepState
      <3> QED
        BY <1>3, <2>3, <3>1, KeepsItself DEF CasesKept
    <2> QED
      BY <1>5, <2>1, <2>2, <2>3
  <1>9. Typed'
    BY <1>1, <1>2, <1>8, LoopAt, TypePartsNext DEF MemTyped, ClientTyped, OuterTyped, QueueSound
  <1>10. Supervised' /\ KnownOnDisk' /\ LetGo' /\ SucceededSound'
    BY <1>1, <1>8, CasesKeptInv, SameClients
  <1>11. LaunchSound' /\ PlaceSound' /\ ServiceKnown' /\ OutcomeSound' /\ SuccessIsEarned' /\ AcceptedIsApplied'
    BY <1>1, <1>2, <1>3, <1>8 DEF LaunchSound, PlaceSound, ServiceKnown, OutcomeSound, SuccessIsEarned,
       AcceptedIsApplied
  <1> QED
    BY <1>9, <1>10, <1>11 DEF Inv

LEMMA FailuresInv ==
    ASSUME Inv, SuperviseFails \/ (\E c \in Cases : ReadReportFails(c))
    PROVE  Inv'
  <1>1. faults \subseteq Faults
    BY LoopAt DEF OuterTyped
  <1>2. Fail /\ faults' \subseteq Faults
    BY <1>1, FaultTyped DEF SuperviseFails, ReadReportFails
  <1>3. at.pc \in Loop \cup {"start", "closing"}
    BY DEF SuperviseFails, ReadReportFails, Loop, CasePc
  <1> QED
    BY <1>2, <1>3, FailInv

LEMMA ApplyRequestInv ==
    ASSUME Inv, ApplyRequest
    PROVE  Inv'
  <1>1. CASE Fail /\ UNCHANGED faults
    <2>1. at.pc = "loop" /\ faults' \subseteq Faults
      BY <1>1, LoopAt DEF ApplyRequest, OuterTyped
    <2> QED
      BY <1>1, <2>1, FailInv DEF Loop
  <1>2. CASE ~(Fail /\ UNCHANGED faults)
    <2> DEFINE r == queue[mem.applied + 1]
    <2>1. /\ at.pc = "loop" /\ mem.applied < Len(queue)
          /\ mem' = [mem EXCEPT !.applied = @ + 1,
                    !.cases = [c \in Cases |-> IF c = r.case THEN Applied(r, @[c]) ELSE @[c]]]
          /\ stopping' = (stopping \/ r.case = NoCase) /\ disk' = mem' /\ UNCHANGED <<at, world>>
      BY <1>2 DEF ApplyRequest, Save
    <2> QED
      BY <2>1, ApplyInv
  <1> QED
    BY <1>1, <1>2

\* A step that changes neither the cases nor their processes.
LEMMA CasesSame ==
    ASSUME Inv, mem'.cases = mem.cases, client' = client, disk' = disk \/ disk' = mem'
    PROVE  Supervised' /\ KnownOnDisk' /\ LetGo' /\ SucceededSound'
  <1>1. CasesKept /\ ClientsKept
    BY KeepsItself, SameClients DEF CasesKept
  <1> QED
    BY <1>1, CasesKeptInv

LEMMA LaunchInv ==
    ASSUME Inv, Launch
    PROVE  Inv'
  <1>1. /\ receipt = "none" /\ UNCHANGED <<mem, disk, stopping, client, service, queue>>
        /\ \/ receipt' = "launched" /\ Goto("save") /\ UNCHANGED faults
           \/ receipt' = "failed" /\ Fault("spawn") /\ UNCHANGED at
    BY DEF Launch
  <1>2. /\ at.pc = "absent" /\ mem = NewSweep /\ disk.phase = "absent" /\ ~service.daemon
        /\ disk.outcome = "none" /\ mem.phase = "running" /\ mem.outcome = "none"
    BY <1>1 DEF Inv, LaunchSound, OutcomeSound, NewSweep
  <1>3. AtTyped' /\ at'.pc = IF receipt' = "launched" THEN "save" ELSE "absent"
    BY <1>1, <1>2, LoopAt, GotoFacts DEF Pc, AtTyped
  <1>4. faults' \subseteq Faults
    BY <1>1, LoopAt, FaultTyped DEF OuterTyped
  <1>5. Typed'
    BY <1>1, <1>3, <1>4, LoopAt, TypePartsNext DEF MemTyped, ClientTyped, OuterTyped, QueueSound
  <1>6. Supervised' /\ KnownOnDisk' /\ LetGo' /\ SucceededSound'
    BY <1>1, CasesSame
  <1>7. LaunchSound' /\ PlaceSound' /\ ServiceKnown'
    BY <1>1, <1>2, <1>3 DEF Inv, LaunchSound, PlaceSound, ServiceKnown
  <1>8. OutcomeSound' /\ SuccessIsEarned' /\ AcceptedIsApplied'
    BY <1>1, <1>2, <1>3 DEF OutcomeSound, SuccessIsEarned, AcceptedIsApplied
  <1> QED
    BY <1>5, <1>6, <1>7, <1>8 DEF Inv

\* The supervisor comes up: it saves, notes that it starts the service, and does.
LEMMA StartingInv ==
    ASSUME Inv, (SaveState /\ at.pc \in {"save", "started"}) \/ StartIntent \/ StartService
    PROVE  Inv'
  <1> USE DEF world
  <1>0. /\ at.pc \in {"save", "started", "intend", "start"} /\ mem \in SweepState
        /\ service \in [daemon: BOOLEAN, server: BOOLEAN]
    BY LoopAt DEF StartIntent, StartService, MemTyped, OuterTyped
  <1>1. /\ receipt = "launched" /\ mem.outcome = "none" /\ disk.outcome = "none" /\ mem.phase = "running"
        /\ UNCHANGED <<stopping, client, queue, receipt, faults>>
    BY <1>0, UpFacts DEF Inv, PlaceSound, SaveState, StartIntent, StartService
  <1>2. /\ at.pc = "save" => Goto("intend") /\ disk' = mem /\ mem' = mem /\ service' = service
        /\ at.pc = "started" => Goto("loop") /\ disk' = mem /\ mem' = mem /\ service' = service
        /\ at.pc = "intend" => /\ Goto("start") /\ mem' = [mem EXCEPT !.launching = TRUE]
                               /\ disk' = mem' /\ service' = service
        /\ at.pc = "start" => /\ Goto("started") /\ disk' = disk
                              /\ mem' = [mem EXCEPT !.launching = FALSE, !.daemon = TRUE]
                              /\ service' = [service EXCEPT !.daemon = TRUE]
    BY <1>0 DEF SaveState, AfterSave, Resume, StartIntent, StartService, Save
  <1>3. /\ AtTyped'
        /\ at.pc = "save" => at'.pc = "intend"
        /\ at.pc = "started" => at'.pc = "loop"
        /\ at.pc = "intend" => at'.pc = "start"
        /\ at.pc = "start" => at'.pc = "started"
    BY <1>0, <1>2, GotoFacts DEF Pc
  <1>4. /\ mem' \in SweepState /\ mem'.cases = mem.cases /\ mem'.phase = "running" /\ mem'.outcome = "none"
        /\ service' \in [daemon: BOOLEAN, server: BOOLEAN] /\ service'.server = service.server
        /\ (disk' = disk \/ disk' = mem')
    BY <1>0, <1>1, <1>2 DEF SweepState
  <1>5. /\ disk'.outcome = "none" /\ (at.pc # "save" => disk.phase # "absent")
        /\ disk'.phase # "absent"
    BY <1>0, <1>1, <1>2, <1>4, UpFacts
  <1>6. Typed'
    BY <1>1, <1>3, <1>4, LoopAt, TypePartsNext DEF MemTyped, ClientTyped, OuterTyped, QueueSound
  <1>7. Supervised' /\ KnownOnDisk' /\ LetGo' /\ SucceededSound'
    BY <1>1, <1>4, CasesSame
  <1>8. LaunchSound' /\ OutcomeSound' /\ SuccessIsEarned' /\ AcceptedIsApplied'
    BY <1>0, <1>1, <1>3, <1>4, <1>5 DEF LaunchSound, OutcomeSound, SuccessIsEarned, AcceptedIsApplied
  <1>9. PlaceSound'
    <2>1. at.pc = "intend" => disk'.launching
      BY <1>0, <1>2 DEF SweepState
    <2>2. at.pc = "start" => disk'.launching
      BY <1>2 DEF Inv, PlaceSound
    <2>3. at.pc \in {"save", "intend"} => disk' = mem'
      BY <1>2
    <2> QED
      BY <1>0, <1>3, <1>4, <2>1, <2>2, <2>3 DEF PlaceSound, Ended
  <1>10. ServiceKnown'
    <2>1. CASE at.pc \in {"save", "started"}
      BY <1>2, <2>1 DEF Inv, ServiceKnown
    <2>2. CASE at.pc = "intend"
      <3>1. mem'.daemon = mem.daemon
        BY <1>0, <1>2, <2>2 DEF SweepState
      <3> QED
        BY <1>2, <2>2, <3>1 DEF Inv, ServiceKnown
    <2>3. CASE at.pc = "start"
      <3>1. mem'.daemon /\ service'.daemon /\ disk'.launching
        BY <1>0, <1>2, <2>3 DEF SweepState, Inv, PlaceSound
      <3> QED
        BY <3>1 DEF ServiceKnown
    <2> QED
      BY <1>0, <2>1, <2>2, <2>3
  <1> QED
    BY <1>6, <1>7, <1>8, <1>9, <1>10 DEF Inv

\* The loop is left with every case ended and every request applied.
LEMMA CloseInv ==
    ASSUME Inv, Close
    PROVE  Inv'
  <1> USE DEF world
  <1>1. /\ at.pc = "loop" /\ Goto("closing") /\ disk' = mem' /\ mem' = [mem EXCEPT !.phase = "closing"]
        /\ mem.applied = Len(queue) /\ \A c \in Cases : mem.cases[c].state \in Ended
        /\ UNCHANGED <<stopping, client, service, queue, receipt, faults>>
    BY DEF Close, QueueIsDone, Save
  <1>2. AtTyped' /\ at'.pc = "closing"
    BY <1>1, GotoFacts DEF Pc
  <1>3. receipt = "launched" /\ mem.outcome = "none" /\ mem \in SweepState
    BY <1>1, LoopAt, UpFacts DEF MemTyped
  <1>4. /\ mem' \in SweepState /\ mem'.cases = mem.cases /\ mem'.phase = "closing" /\ mem'.outcome = "none"
        /\ mem'.daemon = mem.daemon /\ mem'.applied = mem.applied
    BY <1>1, <1>3 DEF SweepState, Phase
  <1>5. Typed'
    BY <1>1, <1>2, <1>4, LoopAt, TypePartsNext DEF MemTyped, ClientTyped, OuterTyped, QueueSound
  <1>6. Supervised' /\ KnownOnDisk' /\ LetGo' /\ SucceededSound'
    BY <1>1, <1>4, CasesSame
  <1>7. LaunchSound' /\ OutcomeSound' /\ SuccessIsEarned' /\ AcceptedIsApplied'
    BY <1>1, <1>2, <1>3, <1>4 DEF LaunchSound, OutcomeSound, SuccessIsEarned, AcceptedIsApplied
  <1>8. PlaceSound' /\ ServiceKnown'
    BY <1>1, <1>2, <1>4 DEF PlaceSound, ServiceKnown, Inv
  <1> QED
    BY <1>5, <1>6, <1>7, <1>8 DEF Inv

LEMMA NothingRuns ==
    ASSUME Inv, \A c \in Cases : mem.cases[c].state \in Ended, ~service.daemon
    PROVE  ~GroupRuns
  BY DEF Inv, Supervised, ServiceKnown, GroupRuns, RunState, Ended

LEMMA StopServiceInv ==
    ASSUME Inv, StopService
    PROVE  Inv'
  <1>1. CASE Fail
    <2>1. at.pc = "closing" /\ faults' \subseteq Faults
      BY <1>1, LoopAt, FaultTyped DEF StopService, OuterTyped, Goto
    <2> QED
      BY <1>1, <2>1, FailInv
  <1>2. CASE /\ at.pc = "closing" /\ Goto("closed") /\ service' = [daemon |-> FALSE, server |-> FALSE]
             /\ UNCHANGED <<mem, disk, stopping, client, queue, receipt, faults>>
    <2>1. AtTyped' /\ at'.pc = "closed"
      BY <1>2, GotoFacts DEF Pc
    <2>2. receipt = "launched" /\ mem.outcome = "none" /\ disk.outcome = "none" /\ disk.phase # "absent"
      BY <1>2, UpFacts
    <2>3. Typed'
      BY <1>2, <2>1, LoopAt, TypePartsNext DEF MemTyped, ClientTyped, OuterTyped, QueueSound
    <2>4. Supervised' /\ KnownOnDisk' /\ LetGo' /\ SucceededSound'
      BY <1>2, CasesSame
    <2>5. LaunchSound' /\ OutcomeSound' /\ SuccessIsEarned' /\ AcceptedIsApplied' /\ ServiceKnown'
      BY <1>2, <2>1, <2>2 DEF Inv, LaunchSound, OutcomeSound, SuccessIsEarned, AcceptedIsApplied, ServiceKnown
    <2>6. PlaceSound'
      BY <1>2, <2>1 DEF PlaceSound, Inv, ParentUp
    <2> QED
      BY <2>3, <2>4, <2>5, <2>6 DEF Inv
  <1> QED
    BY <1>1, <1>2 DEF StopService


\* The outcome is saved when the service has stopped and every case has ended.
LEMMA SaveOutcomeInv ==
    ASSUME Inv, SaveOutcome
    PROVE  Inv'
  <1> USE DEF world
  <1>1. PICK o \in {"success", "failure"} :
            /\ mem' = [mem EXCEPT !.phase = "gone", !.outcome = o]
            /\ o = "success" => AllSucceeded
    BY DEF SaveOutcome
  <1>2. /\ at.pc = "closed" /\ Goto("exit") /\ disk' = mem' /\ disk = mem /\ mem \in SweepState
        /\ UNCHANGED <<stopping, client, service, queue, receipt, faults>>
    BY LoopAt DEF SaveOutcome, Save, Inv, PlaceSound, MemTyped
  <1>3. AtTyped' /\ at'.pc = "exit"
    BY <1>2, GotoFacts DEF Pc
  <1>4. /\ mem' \in SweepState /\ mem'.cases = mem.cases /\ mem'.phase = "gone" /\ mem'.outcome = o
        /\ mem'.daemon = mem.daemon /\ mem'.applied = mem.applied /\ mem'.paused = mem.paused
    BY <1>1, <1>2 DEF SweepState, Phase
  <1>5. /\ receipt = "launched" /\ mem.phase = "closing" /\ ~service.daemon
        /\ \A c \in Cases : mem.cases[c].state \in Ended
    BY <1>2, UpFacts DEF Inv, PlaceSound
  <1>6. ~GroupRuns /\ mem.applied = Len(queue)
    BY <1>5, NothingRuns DEF Inv, AcceptedIsApplied
  <1>7. Typed'
    BY <1>2, <1>3, <1>4, LoopAt, TypePartsNext DEF MemTyped, ClientTyped, OuterTyped, QueueSound
  <1>8. Supervised' /\ KnownOnDisk' /\ LetGo' /\ SucceededSound'
    BY <1>2, <1>4, CasesSame
  <1>9. LaunchSound' /\ AcceptedIsApplied' /\ PlaceSound' /\ ServiceKnown'
    BY <1>2, <1>3, <1>4, <1>5, <1>6 DEF Inv, LaunchSound, AcceptedIsApplied, PlaceSound, ServiceKnown
  <1>10. OutcomeSound'
    BY <1>2, <1>3, <1>4, <1>6 DEF OutcomeSound, GroupRuns, Alive
  <1>11. SuccessIsEarned'
    <2> SUFFICES ASSUME o = "success" PROVE SuccessIsEarned'
      BY <1>2, <1>4 DEF SuccessIsEarned
    <2>1. ~mem.paused /\ \A c \in Cases : Proc(c).stage = "exited" /\ Proc(c).zero
      BY <1>1 DEF AllSucceeded, Inv, SucceededSound
    <2> QED
      BY <1>2, <1>4, <2>1 DEF SuccessIsEarned, Proc
  <1> QED
    BY <1>7, <1>8, <1>9, <1>10, <1>11 DEF Inv

\* The end of the supervisor, and the signal that asks for it.
LEMMA EndInv ==
    ASSUME Inv, Exit \/ Killed \/ Terminated
    PROVE  Inv'
  <1> USE DEF world
  <1>1. /\ ParentUp /\ UNCHANGED <<mem, disk, client, service, queue, receipt>>
        /\ (at' = at \/ Goto("dead")) /\ stopping' \in BOOLEAN
    BY LoopAt DEF Exit, Killed, Terminated, ParentUp, OuterTyped
  <1>2. faults' \subseteq Faults
    BY LoopAt, FaultTyped DEF Exit, Killed, Terminated, OuterTyped
  <1>3. AtTyped' /\ (at' = at \/ at'.pc = "dead")
    BY <1>1, LoopAt, GotoFacts DEF Pc, AtTyped
  <1>4. Typed'
    BY <1>1, <1>2, <1>3, LoopAt, TypePartsNext DEF MemTyped, ClientTyped, OuterTyped, QueueSound
  <1>5. Supervised' /\ KnownOnDisk' /\ LetGo' /\ SucceededSound'
    BY <1>1, CasesSame
  <1>6. LaunchSound' /\ PlaceSound' /\ ServiceKnown'
    BY <1>1, <1>3 DEF Inv, LaunchSound, PlaceSound, ServiceKnown, ParentUp
  <1>7. OutcomeSound' /\ SuccessIsEarned' /\ AcceptedIsApplied'
    BY <1>1, <1>3 DEF Inv, OutcomeSound, SuccessIsEarned, AcceptedIsApplied, GroupRuns, Alive
  <1> QED
    BY <1>4, <1>5, <1>6, <1>7 DEF Inv

LEMMA SaveStateInv ==
    ASSUME Inv, SaveState
    PROVE  Inv'
  <1>1. at.pc \in {"save", "started", "spawned", "receipt"}
    BY DEF SaveState, AfterSave
  <1> QED
    BY <1>1, SavedInLoop, StartingInv

LEMMA SuperviseInv ==
    ASSUME Inv, Supervise
    PROVE  Inv'
  <1>1. ASSUME NEW c \in Cases, VisitCase(c) \/ LaunchIntent(c)
        PROVE  Inv'
    BY <1>1, ReadReportInv, FailuresInv, LaunchIntentInv DEF VisitCase
  <1> QED
    BY <1>1, SaveStateInv, StartingInv, FailuresInv, EndInv, ApplyRequestInv, CheckHealthInv, CancelAllInv,
       TerminateInv, PermitInv, PollInv, SpawnInv, CloseInv, StopServiceInv, SaveOutcomeInv
       DEF Supervise

-----------------------------------------------------------------------------
(* The case processes and the service.                                      *)

\* A step of a process, or of the service, brings nothing to life.
ProcessesOnly ==
    /\ UNCHANGED <<mem, disk, stopping, at, queue, receipt>> /\ faults' \subseteq Faults
    /\ service' \in [daemon: BOOLEAN, server: BOOLEAN]
    /\ service'.server => service'.daemon
    /\ service'.daemon => service.daemon
    /\ \A c \in Cases, a \in Attempt :
          /\ Alive(c, a)' => Alive(c, a)
          /\ client[c][a].stage = "exited" =>
                client'[c][a].stage = "exited" /\ client'[c][a].zero = client[c][a].zero
          /\ client'[c][a].command = "E" => client[c][a].command = "E"

LEMMA ProcessesInv ==
    ASSUME Inv, ProcessesOnly, ClientTyped'
    PROVE  Inv'
  <1>1. ClientsKept /\ CasesKept
    BY KeepsItself DEF ProcessesOnly, ClientsKept, CasesKept
  <1>2. Supervised' /\ KnownOnDisk' /\ LetGo' /\ SucceededSound'
    BY <1>1, CasesKeptInv DEF ProcessesOnly
  <1>3. Typed'
    BY LoopAt, TypePartsNext DEF ProcessesOnly, MemTyped, AtTyped, OuterTyped, QueueSound
  <1>4. LaunchSound' /\ PlaceSound' /\ ServiceKnown' /\ AcceptedIsApplied'
    BY DEF Inv, ProcessesOnly, LaunchSound, PlaceSound, ServiceKnown, AcceptedIsApplied, ParentUp
  <1>5. ~GroupRuns => ~GroupRuns'
    BY DEF ProcessesOnly, GroupRuns
  <1>6. OutcomeSound'
    BY <1>5 DEF Inv, OutcomeSound, ProcessesOnly
  <1>7. SuccessIsEarned'
    <2> SUFFICES ASSUME disk.outcome = "success", NEW c \in Cases
                 PROVE  /\ ~disk'.paused
                        /\ client'[c][disk'.cases[c].attempt].stage = "exited"
                        /\ client'[c][disk'.cases[c].attempt].zero
      BY DEF SuccessIsEarned, ProcessesOnly, Inv
    <2>1. disk.cases[c].attempt \in Attempt
      BY LoopAt DEF CaseRecord
    <2>2. /\ ~disk.paused /\ client[c][disk.cases[c].attempt].stage = "exited"
          /\ client[c][disk.cases[c].attempt].zero
      BY DEF Inv, SuccessIsEarned
    <2> QED
      BY <2>1, <2>2 DEF ProcessesOnly
  <1> QED
    BY <1>2, <1>3, <1>4, <1>6, <1>7 DEF Inv

\* One process that runs becomes another state of it.
LEMMA BecomeInv ==
    ASSUME Inv, NEW c \in Cases, NEW a \in Attempt, NEW p \in Process, Alive(c, a),
           Become(c, a, p), p.stage # "none", p.command = "E" => client[c][a].command = "E",
           faults' \subseteq Faults, service' \in [daemon: BOOLEAN, server: BOOLEAN],
           service'.server => service'.daemon, service'.daemon => service.daemon
    PROVE  Inv'
  <1>1. ClientTyped
    BY LoopAt
  <1>2. SetClient(c, a, p) /\ UNCHANGED <<mem, disk, stopping, at, queue, receipt>>
    BY DEF Become, SetClient
  <1>3. /\ ClientTyped' /\ client'[c][a] = p
        /\ \A d \in Cases, b \in Attempt : <<d, b>> # <<c, a>> => client'[d][b] = client[d][b]
    BY <1>1, <1>2, ClientSet
  <1>4. ASSUME NEW d \in Cases, NEW b \in Attempt
        PROVE  /\ Alive(d, b)' => Alive(d, b)
               /\ client[d][b].stage = "exited" =>
                     client'[d][b].stage = "exited" /\ client'[d][b].zero = client[d][b].zero
               /\ client'[d][b].command = "E" => client[d][b].command = "E"
    BY <1>3 DEF Alive
  <1> QED
    BY <1>2, <1>3, <1>4, ProcessesInv DEF ProcessesOnly

LEMMA ServiceFacts ==
    ASSUME Inv
    PROVE  /\ service \in [daemon: BOOLEAN, server: BOOLEAN]
           /\ (service.server => service.daemon) /\ faults \subseteq Faults
           /\ \A c \in Cases, a \in Attempt : client[c][a] \in Process
  BY LoopAt DEF Inv, ServiceKnown, OuterTyped, ClientTyped

LEMMA BootInv ==
    ASSUME Inv, NEW c \in Cases, NEW a \in Attempt, Boot(c, a)
    PROVE  Inv'
  <1>1. client[c][a] \in Process /\ Alive(c, a) /\ faults \subseteq Faults
    BY ServiceFacts DEF Boot, Alive
  <1> PICK q \in Process : q = client[c][a]
    BY <1>1
  <1>2. \/ \E p \in Process :
              /\ Become(c, a, p) /\ p.stage # "none" /\ p.command = q.command
              /\ service.daemon /\ service' = [service EXCEPT !.server = TRUE] /\ UNCHANGED faults
        \/ \E p \in Process :
              /\ Become(c, a, p) /\ p.stage # "none" /\ p.command = q.command
              /\ UNCHANGED service
              /\ Fault("attach") \/ Fault("boot") \/ UNCHANGED faults
    <2> DEFINE s == IF ParentUp THEN "ready" ELSE "leaving"
               p1 == [q EXCEPT !.stage = s, !.mps = ParentUp, !.report = Reporting("ready")]
               p2 == [p1 EXCEPT !.mps = FALSE]
               p3 == [q EXCEPT !.stage = "leaving", !.report = Reporting("aborted")]
    <2>1. Reporting("ready") \in {"none", "ready"} /\ Reporting("aborted") \in {"none", "aborted"}
          /\ ParentUp \in BOOLEAN
      BY DEF Reporting, ParentUp
    <2>2. p1 \in Process /\ p1.stage # "none" /\ p1.command = q.command
      BY <2>1 DEF Process, Stage
    <2>3. p3 \in Process /\ p3.stage # "none" /\ p3.command = q.command
      BY <2>1 DEF Process, Stage
    <2>4. p2 \in Process /\ p2.stage # "none" /\ p2.command = q.command
      <3> HIDE DEF p1
      <3> QED
        BY <2>2 DEF Process
    <2>5. \/ service.daemon /\ Become(c, a, p1) /\ service' = [service EXCEPT !.server = TRUE] /\ UNCHANGED faults
          \/ Fault("attach") /\ Become(c, a, p2) /\ UNCHANGED service
          \/ (Fault("boot") \/ UNCHANGED faults) /\ Become(c, a, p3) /\ UNCHANGED service
      BY DEF Boot
    <2> HIDE DEF p1, p2, p3
    <2> QED
      BY <2>2, <2>3, <2>4, <2>5
  <1>3. ASSUME NEW p \in Process, Become(c, a, p), p.stage # "none", p.command = q.command,
               service.daemon, service' = [service EXCEPT !.server = TRUE], UNCHANGED faults
        PROVE  Inv'
    <2>1. service' \in [daemon: BOOLEAN, server: BOOLEAN] /\ service'.daemon = service.daemon
      BY <1>3, ServiceFacts
    <2> QED
      BY <1>1, <1>3, <2>1, BecomeInv
  <1>4. ASSUME NEW p \in Process, Become(c, a, p), p.stage # "none", p.command = q.command,
               UNCHANGED service, Fault("attach") \/ Fault("boot") \/ UNCHANGED faults
        PROVE  Inv'
    <2>1. faults' \subseteq Faults
      BY <1>1, <1>4, FaultTyped
    <2> QED
      BY <1>1, <1>4, <2>1, ServiceFacts, BecomeInv
  <1> QED
    BY <1>2, <1>3, <1>4

LEMMA ProcessMovesInv ==
    ASSUME Inv, NEW c \in Cases, NEW a \in Attempt,
           Command(c, a) \/ ScriptEnds(c, a) \/ Leave(c, a) \/ Crash(c, a)
    PROVE  Inv'
  <1>1. /\ client[c][a] \in Process /\ Alive(c, a) /\ UNCHANGED service /\ faults' \subseteq Faults
    BY ServiceFacts, FaultTyped DEF Command, ScriptEnds, Leave, Crash, Alive
  <1> PICK q \in Process : q = client[c][a]
    BY <1>1
  <1>2. \E p \in Process : Become(c, a, p) /\ p.stage # "none" /\ (p.command = "E" => q.command = "E")
    <2>1. CASE Command(c, a)
      <3> DEFINE p1 == [q EXCEPT !.stage = "script", !.command = "none"]
                 p2 == [q EXCEPT !.stage = "leaving", !.mps = FALSE, !.command = "none",
                           !.report = IF q.command = "A" THEN Reporting("aborted") ELSE "none"]
      <3>1. p1 \in Process /\ p1.stage # "none" /\ p1.command = "none"
        BY DEF Process, Stage
      <3>2. p2 \in Process /\ p2.stage # "none" /\ p2.command = "none"
        <4>1. PICK r \in {"none", "ready", "aborted", "done"} :
                 r = IF q.command = "A" THEN Reporting("aborted") ELSE "none"
          BY DEF Reporting
        <4>2. p2 = [q EXCEPT !.stage = "leaving", !.mps = FALSE, !.command = "none", !.report = r]
          BY <4>1
        <4> HIDE DEF p2
        <4> QED
          BY <4>2 DEF Process, Stage
      <3>3. Become(c, a, p1) \/ Become(c, a, p2)
        BY <2>1 DEF Command
      <3> HIDE DEF p1, p2
      <3> QED
        BY <3>1, <3>2, <3>3
    <2>2. CASE ScriptEnds(c, a)
      <3> PICK zero \in BOOLEAN :
              Become(c, a, [q EXCEPT !.stage = "parked", !.zero = zero, !.report = Reporting("done")])
        BY <2>2 DEF ScriptEnds
      <3>1. Reporting("done") \in {"none", "done"}
        BY DEF Reporting
      <3> DEFINE p == [q EXCEPT !.stage = "parked", !.zero = zero, !.report = Reporting("done")]
      <3>2. p \in Process /\ p.stage # "none" /\ p.command = q.command
        BY <3>1 DEF Process, Stage
      <3>3. Become(c, a, p)
        OBVIOUS
      <3> HIDE DEF p
      <3> QED
        BY <3>2, <3>3
    <2>3. CASE Leave(c, a) \/ Crash(c, a)
      <3> DEFINE p1 == [q EXCEPT !.stage = "exited"]
                 p2 == [q EXCEPT !.stage = "exited", !.zero = FALSE]
      <3>1. p1 \in Process /\ p1.stage # "none" /\ p1.command = q.command
        BY DEF Process, Stage
      <3>2. p2 \in Process /\ p2.stage # "none" /\ p2.command = q.command
        BY DEF Process, Stage
      <3>3. Become(c, a, p1) \/ Become(c, a, p2)
        BY <2>3 DEF Leave, Crash
      <3> HIDE DEF p1, p2
      <3> QED
        BY <3>1, <3>2, <3>3
    <2> QED
      BY <2>1, <2>2, <2>3
  <1> PICK p \in Process : Become(c, a, p) /\ p.stage # "none" /\ (p.command = "E" => q.command = "E")
    BY <1>2
  <1> QED
    BY <1>1, ServiceFacts, BecomeInv

LEMMA ServiceDiesInv ==
    ASSUME Inv, ServiceDies
    PROVE  Inv'
  <1>1. /\ client' = [c \in Cases |-> [a \in Attempt |-> [client[c][a] EXCEPT !.mps = FALSE]]]
        /\ service' = [daemon |-> FALSE, server |-> FALSE]
        /\ UNCHANGED <<mem, disk, stopping, at, queue, receipt>>
        /\ faults' \subseteq Faults
    BY LoopAt, FaultTyped DEF ServiceDies, OuterTyped
  <1>2. ASSUME NEW c \in Cases, NEW a \in Attempt
        PROVE  /\ client'[c][a] \in Process /\ client'[c][a].stage = client[c][a].stage
               /\ client'[c][a].zero = client[c][a].zero /\ client'[c][a].command = client[c][a].command
    <2>1. client[c][a] \in Process /\ client'[c][a] = [client[c][a] EXCEPT !.mps = FALSE]
      BY <1>1, ServiceFacts
    <2> QED
      BY <2>1 DEF Process
  <1>3. ClientTyped'
    <2> DEFINE g(c) == [a \in Attempt |-> [client[c][a] EXCEPT !.mps = FALSE]]
    <2>1. \A c \in Cases : g(c) \in [Attempt -> Process] /\ client'[c] = g(c)
      BY <1>1, <1>2
    <2> QED
      BY <1>1, <2>1 DEF ClientTyped
  <1> QED
    BY <1>1, <1>2, <1>3, ProcessesInv DEF ProcessesOnly, Alive

-----------------------------------------------------------------------------
(* Control from the backend.                                                *)

LEMMA AcceptInv ==
    ASSUME Inv, NEW r \in Request, Accept(r)
    PROVE  Inv'
  <1>1. /\ Len(queue) < MaxRequests /\ Acceptable(r) /\ queue' = Append(queue, r)
        /\ UNCHANGED <<mem, disk, stopping, at, client, service, receipt, faults>>
    BY DEF Accept
  <1>2. ParentUp /\ disk.phase = "running" /\ mem.phase = "running"
    BY <1>1 DEF Acceptable, Observed, Inv, PlaceSound
  <1>3. queue \in Seq(Request) /\ Len(queue) \in Nat
    BY LoopAt DEF OuterTyped
  <1>4. /\ queue' \in Seq(Request) /\ Len(queue') = Len(queue) + 1
        /\ \A i \in DOMAIN queue' : (i \in DOMAIN queue /\ queue'[i] = queue[i]) \/ queue'[i] = r
    BY <1>1, <1>3
  <1>5. r.action = "retry" => r.case \in Cases /\ r.expected \in Attempt /\ r.expected < MaxAttempts
    <2> SUFFICES ASSUME r.action = "retry"
                 PROVE  r.case \in Cases /\ r.expected \in Attempt /\ r.expected < MaxAttempts
      OBVIOUS
    <2>1. r.case # NoCase /\ r.expected < MaxAttempts /\ r.expected = disk.cases[r.case].attempt
      BY <1>1 DEF Acceptable
    <2>2. r.case \in Cases
      BY <2>1 DEF Request
    <2> QED
      BY <2>1, <2>2, LoopAt DEF CaseRecord
  <1>6. QueueSound'
    BY <1>4, <1>5, LoopAt DEF OuterTyped, QueueSound
  <1>7. Len(queue') <= MaxRequests
    BY <1>1, <1>3, <1>4, MpsWorkerAssumption
  <1>8. Typed'
    BY <1>1, <1>4, <1>6, <1>7, LoopAt, TypePartsNext DEF MemTyped, AtTyped, ClientTyped, OuterTyped
  <1>9. Supervised' /\ KnownOnDisk' /\ LetGo' /\ SucceededSound'
    BY <1>1, CasesSame
  <1>10. LaunchSound' /\ PlaceSound' /\ ServiceKnown' /\ OutcomeSound' /\ SuccessIsEarned'
    BY <1>1 DEF Inv, LaunchSound, PlaceSound, ServiceKnown, OutcomeSound, SuccessIsEarned, ParentUp,
       GroupRuns, Alive
  <1>11. AcceptedIsApplied'
    BY <1>1, <1>2 DEF AcceptedIsApplied
  <1> QED
    BY <1>8, <1>9, <1>10, <1>11 DEF Inv

\* The cleanup of an orphan acts when the supervisor has gone.
LEMMA CompleteFacts ==
    ASSUME Inv, CompleteGroup
    PROVE  /\ at.pc = "dead" /\ ~ParentUp /\ disk.phase # "absent"
           /\ \A c \in Cases, a \in Attempt :
                 Alive(c, a) => disk.cases[c].attempt = a /\ disk.cases[c].process
  <1>1. at.pc = "dead" /\ disk.phase # "absent"
    BY DEF CompleteGroup, ParentUp, Inv, LaunchSound
  <1> QED
    BY <1>1 DEF CompleteGroup, Inv, KnownOnDisk

LEMMA OrphanTerminateInv ==
    ASSUME Inv, NEW c \in Cases, OrphanTerminate(c)
    PROVE  Inv'
  <1>0. disk \in SweepState /\ disk.cases[c] \in CaseRecord /\ disk.cases[c].attempt \in Attempt
    BY LoopAt DEF MemTyped, CaseRecord
  <1> PICK a \in Attempt : a = disk.cases[c].attempt
    BY <1>0
  <1>p. client[c][a] \in Process
    BY ServiceFacts
  <1>1. /\ CompleteGroup /\ Alive(c, a) /\ client' = [client EXCEPT ![c][a].mps = FALSE]
        /\ disk' = [disk EXCEPT !.cases[c].gpu_cleared = TRUE, !.server = TRUE]
        /\ UNCHANGED <<mem, stopping, at, service, queue, receipt, faults>>
    BY DEF OrphanTerminate
  <1>2. [client[c][a] EXCEPT !.mps = FALSE] \in Process
    BY <1>p DEF Process
  <1> PICK p \in Process : p = [client[c][a] EXCEPT !.mps = FALSE]
    BY <1>2
  <1>3. /\ SetClient(c, a, p) /\ p.stage = client[c][a].stage /\ p.command = client[c][a].command
        /\ p.zero = client[c][a].zero
    <2>1. client' = [client EXCEPT ![c][a] = p]
      BY <1>1
    <2> QED
      BY <1>p, <2>1 DEF SetClient, Process
  <1>4. /\ ClientTyped' /\ client'[c][a] = p
        /\ \A d \in Cases, b \in Attempt : <<d, b>> # <<c, a>> => client'[d][b] = client[d][b]
    BY <1>3, LoopAt, ClientSet
  <1>5. [disk.cases[c] EXCEPT !.gpu_cleared = TRUE] \in CaseRecord
    BY <1>0 DEF CaseRecord
  <1> PICK x \in CaseRecord : x = [disk.cases[c] EXCEPT !.gpu_cleared = TRUE]
    BY <1>5
  <1>6. /\ x.gpu_cleared /\ x.attempt = disk.cases[c].attempt /\ x.process = disk.cases[c].process
        /\ x.state = disk.cases[c].state
    BY <1>0 DEF CaseRecord
  <1> DEFINE f == [disk.cases EXCEPT ![c] = x]
  <1>7. f \in [Cases -> CaseRecord] /\ f[c] = x /\ \A d \in Cases \ {c} : f[d] = disk.cases[d]
    BY <1>0 DEF SweepState
  <1>8. disk' = [disk EXCEPT !.cases = f, !.server = TRUE]
    BY <1>0, <1>1 DEF SweepState
  <1> HIDE DEF f
  <1>9. /\ disk' \in SweepState /\ disk'.cases = f
        /\ disk'.phase = disk.phase /\ disk'.daemon = disk.daemon /\ disk'.launching = disk.launching
        /\ disk'.outcome = disk.outcome
    BY <1>0, <1>7, <1>8 DEF SweepState
  <1>10. at.pc = "dead" /\ disk.outcome = "none"
    BY <1>1, CompleteFacts DEF Inv, OutcomeSound, GroupRuns
  <1>11. Typed'
    BY <1>1, <1>4, <1>9, LoopAt, TypePartsNext DEF MemTyped, AtTyped, OuterTyped, QueueSound
  <1>12. ASSUME NEW d \in Cases, NEW b \in Attempt
         PROVE  /\ client'[d][b].stage = client[d][b].stage /\ client'[d][b].zero = client[d][b].zero
                /\ client'[d][b].command = client[d][b].command
                /\ disk'.cases[d].attempt = disk.cases[d].attempt
                /\ disk'.cases[d].process = disk.cases[d].process
                /\ disk'.cases[d].state = disk.cases[d].state
                /\ disk.cases[d].gpu_cleared => disk'.cases[d].gpu_cleared
    <2>1. d # c => disk'.cases[d] = disk.cases[d]
      BY <1>7, <1>9
    <2>2. disk'.cases[c] = x
      BY <1>7, <1>9
    <2>3. <<d, b>> # <<c, a>> => client'[d][b] = client[d][b]
      BY <1>4
    <2>4. client'[c][a] = p
      BY <1>4
    <2> QED
      BY <1>3, <1>6, <2>1, <2>2, <2>3, <2>4
  <1>a. \A d \in Cases, b \in Attempt : Alive(d, b)' <=> Alive(d, b)
    BY <1>12 DEF Alive
  <1>b. Supervised'
    BY <1>1, <1>a DEF Inv, Supervised, Running
  <1>c. KnownOnDisk'
    BY <1>a, <1>12 DEF Inv, KnownOnDisk
  <1>d. LetGo'
    <2>1. ASSUME NEW d \in Cases, NEW b \in Attempt, Alive(d, b)', client'[d][b].command = "E"
          PROVE  mem'.cases[d].gpu_cleared /\ disk'.cases[d].gpu_cleared
      <3>1. Alive(d, b) /\ client[d][b].command = "E"
        BY <1>a, <1>12, <2>1
      <3>2. mem.cases[d].gpu_cleared /\ disk.cases[d].gpu_cleared
        BY <3>1 DEF Inv, LetGo
      <3> QED
        BY <1>1, <1>12, <3>2
    <2> QED
      BY <2>1 DEF LetGo
  <1>e. \A d \in Cases : mem.cases[d].attempt \in Attempt
    BY LoopAt DEF CaseRecord
  <1>f. ASSUME NEW d \in Cases
        PROVE  Proc(d)'.stage = Proc(d).stage /\ Proc(d)'.zero = Proc(d).zero
    <2> PICK b \in Attempt : b = mem.cases[d].attempt
      BY <1>e
    <2>1. Proc(d) = client[d][b] /\ Proc(d)' = client'[d][b]
      BY <1>1 DEF Proc
    <2>2. client'[d][b].stage = client[d][b].stage /\ client'[d][b].zero = client[d][b].zero
      BY <1>12
    <2> QED
      BY <2>1, <2>2
  <1>14. SucceededSound'
    BY <1>1, <1>f DEF Inv, SucceededSound
  <1>15. LaunchSound' /\ PlaceSound' /\ ServiceKnown' /\ OutcomeSound' /\ SuccessIsEarned' /\ AcceptedIsApplied'
    BY <1>1, <1>9, <1>10 DEF Inv, LaunchSound, PlaceSound, ServiceKnown, OutcomeSound, SuccessIsEarned,
       AcceptedIsApplied, ParentUp
  <1> QED
    BY <1>11, <1>b, <1>c, <1>d, <1>14, <1>15 DEF Inv

LEMMA OrphanKillInv ==
    ASSUME Inv, NEW c \in Cases, OrphanKill(c)
    PROVE  Inv'
  <1>0. disk.cases[c].attempt \in Attempt
    BY LoopAt DEF CaseRecord
  <1> PICK a \in Attempt : a = disk.cases[c].attempt
    BY <1>0
  <1>p. client[c][a] \in Process
    BY ServiceFacts
  <1>1. /\ Alive(c, a)
        /\ client' = [client EXCEPT ![c][a].stage = "exited", ![c][a].zero = FALSE]
        /\ UNCHANGED <<mem, disk, stopping, at, service, queue, receipt, faults>>
    BY DEF OrphanKill
  <1>2. [client[c][a] EXCEPT !.stage = "exited", !.zero = FALSE] \in Process
    BY <1>p DEF Process, Stage
  <1> PICK p \in Process : p = [client[c][a] EXCEPT !.stage = "exited", !.zero = FALSE]
    BY <1>2
  <1>3. Become(c, a, p) /\ p.stage # "none" /\ p.command = client[c][a].command
    <2>1. client' = [client EXCEPT ![c][a] = p]
      BY <1>1
    <2> QED
      BY <1>1, <1>p, <2>1 DEF Become, Process
  <1> QED
    BY <1>1, <1>3, ServiceFacts, BecomeInv

\* The orphan is recorded as gone when nothing of it runs.
LEMMA OrphanFinishInv ==
    ASSUME Inv, OrphanFinish
    PROVE  Inv'
  <1> DEFINE ended(m) == IF m.state \in Ended THEN m ELSE [m EXCEPT !.state = "cancelled"]
             f == [c \in Cases |-> ended(disk.cases[c])]
             b == disk.server \/ service.server
  <1>1. /\ CompleteGroup /\ service' = [daemon |-> FALSE, server |-> FALSE]
        /\ \A c \in Cases : ~(disk.cases[c].process /\ Alive(c, disk.cases[c].attempt))
        /\ UNCHANGED <<mem, stopping, at, client, queue, receipt, faults>>
    BY DEF OrphanFinish
  <1>2. disk' = [disk EXCEPT !.phase = "gone", !.paused = FALSE, !.launching = FALSE,
                             !.server = b, !.cases = f]
    BY LoopAt DEF OrphanFinish, MemTyped, SweepState
  <1>3. \A c \in Cases : f[c] \in CaseRecord /\ f[c].attempt = disk.cases[c].attempt
    BY LoopAt DEF CaseRecord, CaseState, Ended
  <1>4. disk \in SweepState /\ b \in BOOLEAN /\ f \in [Cases -> CaseRecord]
    BY <1>3, LoopAt DEF MemTyped, SweepState
  <1> HIDE DEF f, b
  <1>5. /\ disk' \in SweepState /\ disk'.phase = "gone" /\ disk'.paused = FALSE /\ disk'.cases = f
        /\ disk'.outcome = disk.outcome
    BY <1>2, <1>4 DEF SweepState, Phase
  <1>6. at.pc = "dead" /\ \A c \in Cases, a \in Attempt : ~Alive(c, a)
    BY <1>1, CompleteFacts
  <1>7. Typed'
    BY <1>1, <1>5, LoopAt, TypePartsNext DEF MemTyped, AtTyped, ClientTyped, OuterTyped, QueueSound
  <1>8. Supervised' /\ KnownOnDisk' /\ LetGo' /\ SucceededSound'
    BY <1>1, <1>6 DEF Inv, Supervised, KnownOnDisk, LetGo, SucceededSound, Running, Proc, Alive
  <1>9. LaunchSound' /\ PlaceSound' /\ ServiceKnown' /\ AcceptedIsApplied'
    BY <1>1, <1>5, <1>6 DEF Inv, LaunchSound, PlaceSound, ServiceKnown, AcceptedIsApplied, ParentUp
  <1>10. OutcomeSound'
    BY <1>1, <1>5, <1>6 DEF Inv, OutcomeSound, GroupRuns, Alive
  <1>11. SuccessIsEarned'
    BY <1>1, <1>3, <1>5 DEF Inv, SuccessIsEarned
  <1> QED
    BY <1>7, <1>8, <1>9, <1>10, <1>11 DEF Inv

LEMMA InitInv == WorkerInit => Inv
  <1> SUFFICES ASSUME WorkerInit PROVE Inv
    OBVIOUS
  <1>0. /\ mem = NewSweep /\ disk = [NewSweep EXCEPT !.phase = "absent"] /\ stopping = FALSE
        /\ at = [pc |-> "absent", case |-> NoCase, ready |-> FALSE]
        /\ client = [c \in Cases |-> [a \in Attempt |-> NoProcess]]
        /\ service = [daemon |-> FALSE, server |-> FALSE]
        /\ queue = <<>> /\ receipt = "none" /\ faults = {}
    BY DEF WorkerInit
  <1>1. /\ mem.phase = "running" /\ disk.phase = "absent" /\ mem.outcome = "none" /\ disk.outcome = "none"
        /\ \A c \in Cases : mem.cases[c].state = "waiting"
    BY <1>0, NewFacts DEF NewSweep, NewCase
  <1>2. \A c \in Cases, a \in Attempt : ~Alive(c, a)
    BY <1>0 DEF Alive, NoProcess
  <1>3. at.pc = "absent" /\ ~service.daemon /\ ~service.server /\ receipt = "none" /\ mem = NewSweep
    BY <1>0
  <1>4. MemTyped
    BY <1>0, NewFacts DEF MemTyped
  <1>5. AtTyped
    BY <1>0 DEF AtTyped, Pc, CasePc
  <1>6. ClientTyped
    BY <1>0 DEF ClientTyped, NoProcess, Process, Stage
  <1>7. OuterTyped
    <2>1. queue \in Seq(Request) /\ Len(queue) = 0 /\ DOMAIN queue = {}
      BY <1>0
    <2>2. QueueSound
      BY <2>1 DEF QueueSound
    <2>3. /\ service \in [daemon: BOOLEAN, server: BOOLEAN] /\ stopping \in BOOLEAN
          /\ receipt \in {"none", "launched", "failed"} /\ faults \subseteq Faults
      BY <1>0
    <2> QED
      BY <2>1, <2>2, <2>3, MpsWorkerAssumption DEF OuterTyped
  <1>8. Typed
    BY <1>4, <1>5, <1>6, <1>7, TypeParts
  <1>9. LaunchSound
    BY <1>1, <1>3 DEF LaunchSound
  <1>10. PlaceSound
    BY <1>1, <1>3 DEF PlaceSound, ParentUp
  <1>11. Cardinality(Running) <= MaxConcurrent
    <2>1. Running = {}
      BY <1>1 DEF Running
    <2> QED
      BY <2>1, FS_EmptySet, MpsWorkerAssumption
  <1>12. Supervised /\ KnownOnDisk /\ LetGo
    BY <1>2, <1>11 DEF Supervised, KnownOnDisk, LetGo
  <1>13. ServiceKnown /\ OutcomeSound /\ SucceededSound /\ SuccessIsEarned /\ AcceptedIsApplied
    BY <1>1, <1>3 DEF ServiceKnown, OutcomeSound, SucceededSound, SuccessIsEarned, AcceptedIsApplied
  <1> QED
    BY <1>8, <1>9, <1>10, <1>12, <1>13 DEF Inv

LEMMA StutterInv ==
    ASSUME Inv, UNCHANGED worker
    PROVE  Inv'
  <1>1. ProcessesOnly /\ ClientTyped'
    <2>1. client \in [Cases -> [Attempt -> Process]]
      BY LoopAt DEF ClientTyped
    <2> QED
      BY <2>1, LoopAt, ServiceFacts DEF worker, ProcessesOnly, ClientTyped, OuterTyped, Inv, ServiceKnown, Alive
  <1> QED
    BY <1>1, ProcessesInv

\* Every step keeps the invariant.
LEMMA StepInv == Inv /\ [Next]_worker => Inv'
  <1> SUFFICES ASSUME Inv, [Next]_worker PROVE Inv'
    OBVIOUS
  <1>1. CASE Launch
    BY <1>1, LaunchInv
  <1>2. CASE Supervise
    BY <1>2, SuperviseInv
  <1>3. CASE Terminated \/ Killed
    BY <1>3, EndInv
  <1>4. CASE ServiceDies
    BY <1>4, ServiceDiesInv
  <1>5. ASSUME NEW c \in Cases, NEW a \in Attempt, ClientStep(c, a) \/ ScriptEnds(c, a) \/ Crash(c, a)
        PROVE  Inv'
    BY <1>5, BootInv, ProcessMovesInv DEF ClientStep
  <1>6. ASSUME NEW r \in Request, Accept(r)
        PROVE  Inv'
    BY <1>6, AcceptInv
  <1>7. ASSUME NEW c \in Cases, OrphanTerminate(c) \/ OrphanKill(c)
        PROVE  Inv'
    BY <1>7, OrphanTerminateInv, OrphanKillInv
  <1>8. CASE OrphanFinish
    BY <1>8, OrphanFinishInv
  <1>9. CASE UNCHANGED worker
    BY <1>9, StutterInv
  <1> QED
    BY <1>1, <1>2, <1>3, <1>4, <1>5, <1>6, <1>7, <1>8, <1>9 DEF Next

\* What the supervisor knows and has saved accounts for every process of the
\* sweep, at every step of any of them.
THEOREM Invariance == Spec => []Inv
  <1> QED
    BY InitInv, StepInv, PTL DEF Spec

\* Every variable keeps its type: a case's attempt and the queue stay within
\* their bounds (new_case, rpc retry).
THEOREM WorkerTypes == Spec => []TypeOK
  <1>1. Inv => TypeOK
    BY DEF Inv, Typed
  <1> QED
    BY <1>1, Invariance, PTL

\* The queue is closed, with the request lock held, only when every request that
\* was accepted is applied.
THEOREM QueueServed == Spec => []AcceptedIsApplied
  <1>1. Inv => AcceptedIsApplied
    BY DEF Inv
  <1> QED
    BY <1>1, Invariance, PTL

\* The saved outcome is a success only of cases whose last process returned zero.
THEOREM SuccessIsTrue == Spec => []SuccessIsEarned
  <1>1. Inv => SuccessIsEarned
    BY DEF Inv
  <1> QED
    BY <1>1, Invariance, PTL

\* Two processes are never those of one case, and there are no more of them than
\* the supervisor counts.
LEMMA InvBounded == Inv => Bounded
  <1> SUFFICES ASSUME Inv PROVE Bounded
    OBVIOUS
  <1> DEFINE live == {p \in Cases \X Attempt : Alive(p[1], p[2])}
             f == [c \in Running |-> <<c, mem.cases[c].attempt>>]
  <1>1. \A p \in live : p[1] \in Running /\ p[2] = mem.cases[p[1]].attempt
    BY DEF Inv, Supervised, Running, RunState
  <1>2. \A p, q \in live : p[1] = q[1] => p = q
    <2> SUFFICES ASSUME NEW p \in live, NEW q \in live, p[1] = q[1] PROVE p = q
      OBVIOUS
    <2>1. p = <<p[1], p[2]>> /\ q = <<q[1], q[2]>>
      OBVIOUS
    <2> QED
      BY <1>1, <2>1
  <1>3. IsFiniteSet(Running)
    BY FS_Subset, MpsWorkerAssumption DEF Running
  <1>4. Cardinality(live) <= Cardinality(Running) /\ IsFiniteSet(live)
    <2>1. f \in Surjection(Running, {f[c] : c \in Running})
      BY DEF Surjection
    <2>2. /\ IsFiniteSet({f[c] : c \in Running})
          /\ Cardinality({f[c] : c \in Running}) <= Cardinality(Running)
      BY <1>3, <2>1, FS_Surjection
    <2>3. live \subseteq {f[c] : c \in Running}
      <3> SUFFICES ASSUME NEW p \in live PROVE p \in {f[c] : c \in Running}
        OBVIOUS
      <3>1. p = <<p[1], p[2]>>
        OBVIOUS
      <3> QED
        BY <1>1, <3>1
    <2>4. IsFiniteSet(live) /\ Cardinality(live) <= Cardinality({f[c] : c \in Running})
      BY <2>2, <2>3, FS_Subset
    <2> QED
      BY <1>3, <2>2, <2>4, FS_CardinalityType
  <1>5. Cardinality(live) <= MaxConcurrent
    BY <1>3, <1>4, FS_CardinalityType, MpsWorkerAssumption DEF Inv, Supervised
  <1> QED
    BY <1>2, <1>5 DEF Bounded

\* max_concurrent holds for the processes that exist, and a case has at most one,
\* whoever dies or is killed.
THEOREM LimitHolds == Spec => []Bounded
  <1> QED
    BY InvBounded, Invariance, PTL

-----------------------------------------------------------------------------
(* Teardown first.                                                          *)

\* A process that ran its script leaves, and the step is no crash.
Leaves(c, a) ==
    /\ client[c][a].stage \in {"script", "parked"} /\ client'[c][a].stage = "exited"
    /\ "crash" \notin faults' \ faults

TornDown(c, a) == disk.cases[c].attempt = a /\ disk.cases[c].gpu_cleared

\* The process of a case is the only one that a step changes.
LEMMA BecomeOnly ==
    ASSUME Inv, NEW c \in Cases, NEW a \in Attempt, NEW v, Become(c, a, v)
    PROVE  /\ client'[c][a] = v
           /\ \A d \in Cases, b \in Attempt : <<d, b>> # <<c, a>> => client'[d][b] = client[d][b]
  <1>1. client \in [Cases -> [Attempt -> Process]] /\ client[c] \in [Attempt -> Process]
    BY LoopAt DEF ClientTyped
  <1> DEFINE g == [client[c] EXCEPT ![a] = v]
  <1>2. g[a] = v /\ \A b \in Attempt \ {a} : g[b] = client[c][b]
    BY <1>1
  <1>3. client' = [client EXCEPT ![c] = g]
    BY DEF Become
  <1> HIDE DEF g
  <1>4. client'[c] = g /\ \A d \in Cases \ {c} : client'[d] = client[d]
    BY <1>1, <1>3
  <1> QED
    BY <1>2, <1>4

LEMMA MovesTearDown ==
    ASSUME Inv, NEW d \in Cases, NEW b \in Attempt,
           ClientStep(d, b) \/ ScriptEnds(d, b) \/ Crash(d, b),
           NEW c \in Cases, NEW a \in Attempt, Leaves(c, a)
    PROVE  TornDown(c, a)
  <1>1. CASE Boot(d, b)
    <2>1. client[d][b].stage = "boot" /\ \E v : Become(d, b, v)
      BY <1>1 DEF Boot
    <2> QED
      BY <2>1, BecomeOnly DEF Leaves
  <1>2. CASE Command(d, b)
    <2>1. client[d][b].stage = "ready" /\ \E v : Become(d, b, v)
      BY <1>2 DEF Command
    <2> QED
      BY <2>1, BecomeOnly DEF Leaves
  <1>3. CASE Leave(d, b)
    <2>1. \E v : Become(d, b, v)
      BY <1>3 DEF Leave
    <2>2. c = d /\ a = b
      BY <2>1, BecomeOnly DEF Leaves
    <2>3. client[c][a].stage = "parked" /\ client[c][a].command = "E"
      BY <1>3, <2>2 DEF Leave, Leaves
    <2> QED
      BY <2>3 DEF Inv, LetGo, KnownOnDisk, Alive, TornDown
  <1>4. CASE ScriptEnds(d, b)
    <2>1. client[d][b] \in Process
      BY ServiceFacts
    <2>2. PICK zero \in BOOLEAN :
             Become(d, b, [client[d][b] EXCEPT !.stage = "parked", !.zero = zero,
                                               !.report = Reporting("done")])
      BY <1>4 DEF ScriptEnds
    <2> DEFINE v == [client[d][b] EXCEPT !.stage = "parked", !.zero = zero,
                                         !.report = Reporting("done")]
    <2>3. v.stage = "parked"
      BY <2>1 DEF Process
    <2>4. PICK w : w = v
      OBVIOUS
    <2>5. Become(d, b, w) /\ w.stage = "parked"
      BY <2>2, <2>3, <2>4
    <2> QED
      BY <2>5, BecomeOnly DEF Leaves
  <1>5. CASE Crash(d, b)
    BY <1>5 DEF Crash, Fault, Leaves
  <1> QED
    BY <1>1, <1>2, <1>3, <1>4, <1>5 DEF ClientStep

LEMMA SupervisorTearsDown ==
    ASSUME Inv, Supervise, NEW c \in Cases, NEW a \in Attempt, Leaves(c, a)
    PROVE  TornDown(c, a)
  <1>1. CASE client' = client
    BY <1>1 DEF Leaves
  <1>2. ASSUME NEW d \in Cases, NEW p \in Process, SetProc(d, p),
               p.stage = Proc(d).stage \/ p.stage = "boot"
        PROVE  FALSE
    <2>1. <<c, a>> # <<d, mem.cases[d].attempt>>
      BY <1>2, OneClient DEF Leaves, Proc
    <2> QED
      BY <1>2, <2>1, OneClient DEF Leaves
  <1>3. ASSUME NEW d \in Cases, ReadReport(d)
        PROVE  FALSE
    <2> PICK p \in Process : p = Told(Proc(d))
      BY LoopAt, ToldFacts
    <2>1. SetProc(d, p) /\ p.stage = Proc(d).stage
      BY <1>3, LoopAt, ToldFacts DEF ReadReport
    <2> QED
      BY <1>2, <2>1
  <1>4. ASSUME Terminate, client' # client
        PROVE  FALSE
    <2>0. at.case \in Cases
      BY <1>4, LoopAt DEF Terminate, AtTyped, CasePc
    <2> PICK d \in Cases : d = at.case
      BY <2>0
    <2>1. SetProc(d, [Proc(d) EXCEPT !.mps = FALSE])
      BY <1>4 DEF Terminate
    <2>2. Proc(d) \in Process
      BY LoopAt
    <2>3. [Proc(d) EXCEPT !.mps = FALSE] \in Process
      BY <2>2 DEF Process
    <2> PICK p \in Process : p = [Proc(d) EXCEPT !.mps = FALSE]
      BY <2>3
    <2>4. SetProc(d, p) /\ p.stage = Proc(d).stage
      BY <2>1, <2>2 DEF Process
    <2> QED
      BY <1>2, <2>4
  <1>5. ASSUME Spawn
        PROVE  FALSE
    <2>0. at.case \in Cases
      BY <1>5, LoopAt DEF Spawn, AtTyped, CasePc
    <2> PICK d \in Cases : d = at.case
      BY <2>0
    <2>1. SetProc(d, [NoProcess EXCEPT !.stage = "boot"])
      BY <1>5 DEF Spawn
    <2>2. [NoProcess EXCEPT !.stage = "boot"] \in Process
      BY DEF NoProcess, Process, Stage
    <2> PICK p \in Process : p = [NoProcess EXCEPT !.stage = "boot"]
      BY <2>2
    <2>3. SetProc(d, p) /\ p.stage = "boot"
      BY <2>1 DEF NoProcess
    <2> QED
      BY <1>2, <2>3
  <1>6. CASE Permit
    <2>0. at.case \in Cases /\ at.pc = "permit"
      BY <1>6, LoopAt DEF Permit, AtTyped, CasePc
    <2> PICK d \in Cases : d = at.case
      BY <2>0
    <2>1. disk = mem /\ mem.cases[d].gpu_cleared /\ Proc(d) \in Process
      BY <2>0, LoopAt DEF Inv, PlaceSound
    <2>2. CASE <<c, a>> = <<d, mem.cases[d].attempt>>
      BY <2>1, <2>2 DEF TornDown
    <2>3. CASE <<c, a>> # <<d, mem.cases[d].attempt>>
      <3>1. PICK p : client' = client \/ (SetProc(d, p) /\ p \in Process)
        <4>1. /\ [Proc(d) EXCEPT !.stage = "exited", !.zero = FALSE] \in Process
              /\ [Proc(d) EXCEPT !.command = "E"] \in Process
          BY <2>1 DEF Process, Stage
        <4> QED
          BY <1>6, <4>1 DEF Permit
      <3> QED
        BY <1>1, <2>3, <3>1, OneClient DEF Leaves
    <2> QED
      BY <2>2, <2>3
  <1>7. \/ client' = client \/ Terminate \/ Spawn \/ Permit
        \/ \E d \in Cases : ReadReport(d)
    BY DEF Supervise, SaveState, StartIntent, StartService, SuperviseFails, Exit, ApplyRequest,
       CheckHealth, CancelAll, VisitCase, ReadReportFails, LaunchIntent, Poll, Close, StopService,
       SaveOutcome, Fail, world
  <1> QED
    BY <1>1, <1>3, <1>4, <1>5, <1>6, <1>7

LEMMA LeavesTornDown ==
    ASSUME Inv, [Next]_worker, NEW c \in Cases, NEW a \in Attempt, Leaves(c, a)
    PROVE  TornDown(c, a)
  <1>1. CASE Supervise
    BY <1>1, SupervisorTearsDown
  <1>2. CASE client' = client
    BY <1>2 DEF Leaves
  <1>3. CASE ServiceDies
    <2>1. client'[c][a] = [client[c][a] EXCEPT !.mps = FALSE]
      BY <1>3 DEF ServiceDies
    <2>2. client[c][a] \in Process
      BY ServiceFacts
    <2> QED
      BY <2>1, <2>2 DEF Leaves, Process
  <1>4. CASE \E d \in Cases, b \in Attempt : ClientStep(d, b) \/ ScriptEnds(d, b) \/ Crash(d, b)
    BY <1>4, MovesTearDown
  <1>5. ASSUME NEW d \in Cases, OrphanTerminate(d) \/ OrphanKill(d)
        PROVE  TornDown(c, a)
    <2>0. disk.cases[d].attempt \in Attempt
      BY LoopAt DEF CaseRecord
    <2> PICK b \in Attempt : b = disk.cases[d].attempt
      BY <2>0
    <2>1. client[d][b] \in Process
      BY ServiceFacts
    <2>2. CASE OrphanTerminate(d)
      <3>1. [client[d][b] EXCEPT !.mps = FALSE] \in Process
        BY <2>1 DEF Process
      <3> PICK p \in Process : p = [client[d][b] EXCEPT !.mps = FALSE]
        BY <3>1
      <3>2. SetClient(d, b, p) /\ p.stage = client[d][b].stage
        <4>1. client' = [client EXCEPT ![d][b] = p]
          BY <2>2 DEF OrphanTerminate
        <4> QED
          BY <2>1, <4>1 DEF SetClient, Process
      <3>3. client'[d][b] = p /\ (<<c, a>> # <<d, b>> => client'[c][a] = client[c][a])
        BY <3>2, LoopAt, ClientSet
      <3>4. client'[c][a].stage = client[c][a].stage
        BY <3>2, <3>3
      <3> QED
        BY <3>4 DEF Leaves
    <2>3. CASE OrphanKill(d)
      <3>1. [client[d][b] EXCEPT !.stage = "exited", !.zero = FALSE] \in Process
        BY <2>1 DEF Process, Stage
      <3> PICK p \in Process : p = [client[d][b] EXCEPT !.stage = "exited", !.zero = FALSE]
        BY <3>1
      <3>2. SetClient(d, b, p) /\ disk.cases[d].gpu_cleared
        <4>1. client' = [client EXCEPT ![d][b] = p]
          BY <2>3 DEF OrphanKill
        <4> QED
          BY <2>3, <4>1 DEF SetClient, OrphanKill
      <3>3. c = d /\ a = b
        BY <3>2, LoopAt, ClientSet DEF Leaves
      <3> QED
        BY <3>2, <3>3 DEF TornDown
    <2> QED
      BY <1>5, <2>2, <2>3
  <1> QED
    BY <1>1, <1>2, <1>3, <1>4, <1>5 DEF Next, worker, Launch, Terminated, Killed, Accept, OrphanFinish

\* Nobody lets go or kills a process that ran its script before state.json says
\* that its CUDA contexts are torn down: neither the supervisor nor cleanup_orphan.
THEOREM TornDownBeforeExit == Spec => TeardownFirst
  <1>1. Inv /\ [Next]_worker =>
           [\A c \in Cases, a \in Attempt :
               /\ client[c][a].stage \in {"script", "parked"}
               /\ client'[c][a].stage = "exited" /\ "crash" \notin faults' \ faults
               => LET case == disk.cases[c]
                  IN case.attempt = a /\ case.gpu_cleared]_worker
    BY LeavesTornDown DEF Leaves, TornDown
  <1> QED
    BY <1>1, Invariance, PTL DEF Spec, TeardownFirst

-----------------------------------------------------------------------------
(* A sweep is a group: the answer gone is right and final.                  *)

Final == \/ at.pc = "dead"
         \/ at.pc = "absent" /\ receipt = "failed"
GoneMeans == Observed = "gone" => ~GroupRuns /\ Final

LEMMA ObservedGone ==
    Observed = "gone" <=>
       \/ disk.phase = "absent" /\ receipt = "failed"
       \/ disk.phase # "absent" /\ ~Malformed(disk) /\ ~LiveKnown(disk) /\ ~Pending(disk)
  BY DEF Observed

LEMMA ObservedTypes == Observed \in {"unknown", "alive", "gone", "error"}
  BY DEF Observed

\* What the saved state does not say may run does not run.
LEMMA GoneSound == Inv => GoneMeans
  <1> SUFFICES ASSUME Inv, Observed = "gone" PROVE ~GroupRuns /\ Final
    BY DEF GoneMeans
  <1>1. CASE disk.phase = "absent" /\ receipt = "failed"
    <2>1. at.pc = "absent" /\ mem = NewSweep /\ ~service.daemon /\ ~service.server
      BY <1>1 DEF Inv, LaunchSound, ServiceKnown
    <2>2. \A c \in Cases : mem.cases[c].state = "waiting"
      BY <2>1, NewFacts DEF NewCase
    <2>3. \A c \in Cases, a \in Attempt : ~Alive(c, a)
      BY <2>2 DEF Inv, Supervised, RunState
    <2> QED
      BY <1>1, <2>1, <2>3 DEF GroupRuns, Final
  <1>2. CASE disk.phase # "absent" /\ ~LiveKnown(disk) /\ ~Pending(disk)
    <2>1. at.pc = "dead"
      BY <1>2 DEF Inv, LaunchSound, LiveKnown, ParentUp
    <2>2. ~service.daemon /\ ~service.server
      BY <1>2 DEF Inv, ServiceKnown, LiveKnown, Pending
    <2>3. \A c \in Cases, a \in Attempt : ~Alive(c, a)
      BY <1>2 DEF Inv, KnownOnDisk, LiveKnown, Pending
    <2> QED
      BY <2>1, <2>2, <2>3 DEF GroupRuns, Final
  <1> QED
    BY <1>1, <1>2, ObservedGone

LEMMA SupervisorUp == Supervise => ParentUp
  BY DEF Supervise, SaveState, AfterSave, StartIntent, StartService, SuperviseFails, Exit,
     ApplyRequest, CheckHealth, CancelAll, VisitCase, ReadReport, ReadReportFails, LaunchIntent,
     Terminate, Permit, Poll, Spawn, Close, StopService, SaveOutcome, ParentUp

\* The end of an orphan leaves nothing that the inspection would look for.
LEMMA FinishKeepsGone ==
    ASSUME Inv, OrphanFinish, Observed = "gone"
    PROVE  Observed' = "gone" /\ disk'.outcome = disk.outcome
  <1> DEFINE ended(m) == IF m.state \in Ended THEN m ELSE [m EXCEPT !.state = "cancelled"]
             f == [c \in Cases |-> ended(disk.cases[c])]
             b == disk.server \/ service.server
  <1>1. /\ CompleteGroup /\ service' = [daemon |-> FALSE, server |-> FALSE]
        /\ \A c \in Cases : ~(disk.cases[c].process /\ Alive(c, disk.cases[c].attempt))
        /\ UNCHANGED <<mem, stopping, at, client, queue, receipt, faults>>
    BY DEF OrphanFinish
  <1>2. disk' = [disk EXCEPT !.phase = "gone", !.paused = FALSE, !.launching = FALSE,
                             !.server = b, !.cases = f]
    BY LoopAt DEF OrphanFinish, MemTyped, SweepState
  <1>3. \A c \in Cases : /\ f[c].attempt = disk.cases[c].attempt
                         /\ f[c].process = disk.cases[c].process
                         /\ f[c].connected = disk.cases[c].connected
                         /\ f[c].gpu_cleared = disk.cases[c].gpu_cleared
                         /\ f[c].state \in Ended
                         /\ f[c].state = disk.cases[c].state \/ f[c].state = "cancelled"
    BY LoopAt DEF CaseRecord, Ended
  <1>4. /\ disk'.phase = "gone" /\ disk'.launching = FALSE /\ disk'.cases = f
        /\ disk'.server = b /\ disk'.outcome = disk.outcome
    BY <1>2, LoopAt DEF MemTyped, SweepState
  <1>5. disk.phase # "absent" /\ ~Malformed(disk) /\ ~LiveKnown(disk) /\ ~Pending(disk)
    BY <1>1, ObservedGone DEF CompleteGroup
  <1> HIDE DEF f
  <1>6. ~Malformed(disk)'
    BY <1>3, <1>4, <1>5 DEF Malformed
  <1>7. ~LiveKnown(disk)'
    BY <1>1, <1>3, <1>4, <1>5 DEF LiveKnown, ParentUp, Alive
  <1>8. ~Pending(disk)'
    BY <1>3, <1>4, <1>5 DEF Pending, Ended
  <1> QED
    BY <1>4, <1>6, <1>7, <1>8 DEF Observed

LEMMA GoneStays ==
    ASSUME Inv, [Next]_worker, Observed = "gone"
    PROVE  Observed' = "gone" /\ disk'.outcome = disk.outcome
  <1>1. ~GroupRuns /\ Final /\ ~ParentUp
    BY GoneSound DEF GoneMeans, Final, ParentUp
  <1>2. \A c \in Cases, a \in Attempt : ~Alive(c, a)
    BY <1>1 DEF GroupRuns
  <1>3. ~Launch
    BY <1>1 DEF Launch, Final, Inv, LaunchSound
  <1>4. ~Supervise /\ ~Terminated /\ ~Killed
    BY <1>1, SupervisorUp DEF Terminated, Killed
  <1>5. ~ServiceDies /\ \A r \in Request : ~Accept(r)
    BY <1>1 DEF ServiceDies, GroupRuns, Accept, Acceptable
  <1>6. \A c \in Cases, a \in Attempt : ~ClientStep(c, a) /\ ~ScriptEnds(c, a) /\ ~Crash(c, a)
    BY <1>2 DEF ClientStep, Boot, Command, Leave, ScriptEnds, Crash, Alive
  <1>7. \A c \in Cases : ~OrphanTerminate(c) /\ ~OrphanKill(c)
    BY <1>2, LoopAt DEF OrphanTerminate, OrphanKill, CaseRecord
  <1>8. CASE UNCHANGED worker
    BY <1>8 DEF worker, Observed, Malformed, LiveKnown, Pending, ParentUp, Alive
  <1>9. CASE OrphanFinish
    BY <1>9, FinishKeepsGone
  <1> QED
    BY <1>3, <1>4, <1>5, <1>6, <1>7, <1>8, <1>9 DEF Next

\* The outcome is written once.
LEMMA OutcomeKept ==
    ASSUME Inv, [Next]_worker, disk.outcome # "none"
    PROVE  disk'.outcome = disk.outcome
  <1>1. /\ at.pc \in {"exit", "dead"} /\ ~GroupRuns /\ disk.phase = "gone"
        /\ at.pc \notin {"absent", "save", "intend", "start", "started", "loop", "closing", "closed"}
        /\ at.pc \notin CasePc
    BY DEF Inv, OutcomeSound, CasePc
  <1>2. CASE Supervise
    <2>1. Exit
      BY <1>1, <1>2 DEF Supervise, SaveState, AfterSave, StartIntent, StartService, SuperviseFails,
         ApplyRequest, CheckHealth, CancelAll, VisitCase, ReadReport, ReadReportFails, LaunchIntent,
         Terminate, Permit, Poll, Spawn, Close, StopService, SaveOutcome, CasePc
    <2> QED
      BY <2>1 DEF Exit
  <1>3. \A c \in Cases : ~OrphanTerminate(c)
    BY <1>1, LoopAt DEF OrphanTerminate, CaseRecord, GroupRuns
  <1>4. CASE OrphanFinish
    BY <1>1, <1>4 DEF OrphanFinish
  <1>5. ASSUME NEW c \in Cases, NEW a \in Attempt, ClientStep(c, a) \/ ScriptEnds(c, a) \/ Crash(c, a)
        PROVE  UNCHANGED disk
    <2>1. CASE Boot(c, a)
      BY <2>1 DEF Boot, Become
    <2>2. CASE Command(c, a)
      BY <2>2 DEF Command, Become
    <2>3. CASE Leave(c, a) \/ ScriptEnds(c, a)
      BY <2>3 DEF Leave, ScriptEnds, Become
    <2>4. CASE Crash(c, a)
      BY <2>4 DEF Crash, Become
    <2> QED
      BY <1>5, <2>1, <2>2, <2>3, <2>4 DEF ClientStep
  <1>6. CASE Launch \/ Terminated \/ Killed \/ ServiceDies
    BY <1>6 DEF Launch, Terminated, Killed, ServiceDies
  <1>7. (\A r \in Request : Accept(r) => UNCHANGED disk) /\ (\A c \in Cases : OrphanKill(c) => UNCHANGED disk)
    BY DEF Accept, OrphanKill
  <1> QED
    BY <1>2, <1>3, <1>4, <1>5, <1>6, <1>7 DEF Next, worker

LEMMA GroupStarts == WorkerInit => Group!GroupInit
  <1> SUFFICES ASSUME WorkerInit PROVE Group!GroupInit
    OBVIOUS
  <1>1. Inv /\ disk.phase = "absent" /\ receipt = "none" /\ disk.outcome = "none"
    BY InitInv, NewFacts DEF WorkerInit, NewSweep
  <1>2. Observed = "unknown"
    BY <1>1 DEF Observed
  <1>3. \A c \in Cases, a \in Attempt : ~Alive(c, a)
    BY DEF WorkerInit, Alive, NoProcess
  <1>4. ~GroupRuns
    BY <1>3 DEF WorkerInit, GroupRuns
  <1> QED
    BY <1>1, <1>2, <1>4 DEF Group!GroupInit

LEMMA GroupStep ==
    ASSUME Inv, GoneMeans, Inv', GoneMeans', [Next]_worker
    PROVE  [Group!GroupNext]_(Group!group)
  <1> DEFINE ans == IF Observed = "error" THEN "unknown" ELSE Observed
  <1>1. /\ ans \in {"unknown", "alive", "gone"} /\ (ans = "gone" <=> Observed = "gone")
        /\ ans' \in {"unknown", "alive", "gone"} /\ (ans' = "gone" <=> Observed' = "gone")
    <2>1. Observed' \in {"unknown", "alive", "gone", "error"}
      BY DEF Observed
    <2> QED
      BY <2>1, ObservedTypes
  <1>2. disk'.outcome \in {"none", "success", "failure"}
    BY DEF Inv, Typed, TypeOK, SweepState
  <1>3. GroupRuns \in BOOLEAN /\ GroupRuns' \in BOOLEAN
    BY DEF GroupRuns
  <1>4. CASE Observed = "gone"
    <2>1. Observed' = "gone" /\ disk'.outcome = disk.outcome
      BY <1>4, GoneStays
    <2>2. GroupRuns = FALSE /\ GroupRuns' = FALSE
      BY <1>4, <2>1 DEF GoneMeans
    <2> QED
      BY <1>4, <2>1, <2>2 DEF Group!group
  <1>5. CASE Observed # "gone" /\ Observed' = "gone"
    <2>1. GroupRuns' = FALSE
      BY <1>5 DEF GoneMeans
    <2>2. disk.outcome # "none" => disk'.outcome = disk.outcome
      BY OutcomeKept
    <2>3. Group!Vanish
      BY <1>1, <1>2, <1>5, <2>1, <2>2 DEF Group!Vanish
    <2> QED
      BY <2>3 DEF Group!GroupNext
  <1>6. CASE Observed # "gone" /\ Observed' # "gone" /\ disk.outcome = "none" /\ disk'.outcome = "none"
    <2>1. Group!Work
      BY <1>1, <1>3, <1>6 DEF Group!Work
    <2> QED
      BY <2>1 DEF Group!GroupNext
  <1>7. CASE Observed # "gone" /\ Observed' # "gone" /\ disk.outcome = "none" /\ disk'.outcome # "none"
    <2>1. GroupRuns' = FALSE
      BY <1>7 DEF Inv, OutcomeSound
    <2>2. Group!Conclude
      BY <1>1, <1>2, <1>7, <2>1 DEF Group!Conclude
    <2> QED
      BY <2>2 DEF Group!GroupNext
  <1>8. CASE Observed # "gone" /\ Observed' # "gone" /\ disk.outcome # "none"
    <2>1. disk'.outcome = disk.outcome
      BY <1>8, OutcomeKept
    <2>2. GroupRuns = FALSE /\ GroupRuns' = FALSE
      BY <1>8, <2>1 DEF Inv, OutcomeSound
    <2>3. disk.phase = "gone" /\ disk'.phase = "gone"
      BY <1>8, <2>1 DEF Inv, OutcomeSound
    <2>4. ans = "unknown" /\ ans' = "unknown"
      <3>1. Observed # "alive" /\ Observed' # "alive"
        BY <2>3 DEF Observed
      <3> QED
        BY <1>1, <1>8, <3>1
    <2> QED
      BY <2>1, <2>2, <2>4 DEF Group!group
  <1> QED
    BY <1>4, <1>5, <1>6, <1>7, <1>8

\* A sweep is a group of HostGroup: when the inspection says gone, nothing of it
\* runs or will run, whatever was killed before; and the outcome is written once.
THEOREM SweepIsAGroup == Spec => GroupSpec
  <1>1. WorkerInit => Group!GroupInit
    BY GroupStarts
  <1>2. Inv => GoneMeans
    BY GoneSound
  <1>3. Inv /\ GoneMeans /\ Inv' /\ GoneMeans' /\ [Next]_worker => [Group!GroupNext]_(Group!group)
    BY GroupStep
  <1> QED
    BY <1>1, <1>2, <1>3, Invariance, PTL DEF Spec, GroupSpec, Group!GroupSpec

=============================================================================
