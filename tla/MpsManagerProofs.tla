--------------------------- MODULE MpsManagerProofs ----------------------------
(***************************************************************************)
(* Proofs about the manager of a sweep, whatever may go wrong: its GPU is  *)
(* booked until the group is gone, an inactive record leaves no booking    *)
(* behind, and the call that frees the GPU has saved the result before.    *)
(*                                                                         *)
(* Inv is inductive. It says what each step of a launch may rely on        *)
(* (LaunchSound), what a call of manage still knows of the inspection it   *)
(* began with (OpSound), and that a recorded result is that of the group.  *)
(***************************************************************************)
EXTENDS MpsManager, TLAPS

-----------------------------------------------------------------------------
(* The inductive invariant.                                                 *)

\* A group whose launch command has not arrived shows nothing; one that the host
\* refused is over.
GroupSound ==
    /\ request \in {"none", "inflight", "lost"} => answer = "unknown" /\ result = "none"
    /\ request = "refused" => answer = "gone" /\ result = "none"

\* Until the launch command leaves, the launching call has the booking.
Unsent == {"idle", "acquired", "described", "recorded", "beating", "undoing"}
LaunchSound ==
    /\ call \in Unsent => request = "none"
    /\ call \in {"refused", "failing", "failed"} => request = "refused"
    /\ call \in {"idle", "acquired", "described"} => rec = Unsaved
    /\ call \in {"acquired", "described", "recorded", "beating"} => Ours
    /\ call \in {"undoing", "failed"} => ~Ours

\* A recorded result is the group's, or says that the host refused the launch.
TrueOutcome(r) ==
    /\ r.outcome \in {"success", "failure"} => r.outcome = result
    /\ r.outcome = "launcher_error" => request = "refused"
RecSound == TrueOutcome(rec)

\* What a call of manage saw is still true, and nobody has saved the record since.
OpSound ==
    op.pc # "idle" =>
        /\ rec # Unsaved /\ TrueOutcome(op.write)
        /\ op.answer = "gone" => answer = "gone" /\ op.result = result
        /\ op.result # "none" => op.result = result
        /\ op.pc \in {"prestart", "closing"} => request = "refused"
        /\ op.pc \in {"seen", "release", "act"} => op.write = rec
        /\ op.pc \in {"release", "saved", "act"} => op.write.state # "none"
        /\ op.pc = "saved" /\ ~op.write.active => ~Ours
        /\ op.pc \notin {"prestart", "closing"} /\ op.answer = "gone" => request # "refused"
        /\ op.pc \in {"release", "saved", "act"} /\ op.result # "none" => op.write.outcome = op.result

Inv == /\ TypeOK /\ GroupSound /\ LaunchSound /\ RecSound /\ OpSound
       /\ BookedUntilGone /\ InactiveMeansReleased

-----------------------------------------------------------------------------
(* Types.                                                                   *)

RestTyped == busy \in BOOLEAN /\ stale \in BOOLEAN /\ beating \in BOOLEAN /\ faults \subseteq Faults
GroupTyped ==
    /\ answer \in {"unknown", "alive", "gone"} /\ result \in {"none", "success", "failure"}
    /\ request \in {"none", "inflight", "arrived", "refused", "lost"}
JobTyped ==
    /\ rec \in Record /\ op \in Operation /\ call \in CallPc
    /\ booking \in {"free", "ours", "described", "foreign"}

LEMMA TypeParts == TypeOK <=> RestTyped /\ GroupTyped /\ JobTyped
  BY DEF TypeOK, RestTyped, GroupTyped, JobTyped

LEMMA TypePartsNext ==
    ASSUME RestTyped', GroupTyped', JobTyped'
    PROVE  TypeOK'
  BY DEF TypeOK, RestTyped, GroupTyped, JobTyped

LEMMA NullFacts ==
    /\ Unsaved \in Record /\ Launching \in Record /\ Launching # Unsaved
    /\ Launching.active = TRUE /\ Launching.outcome = "none" /\ Unsaved.outcome = "none"
    /\ Idle \in Operation /\ Idle.pc = "idle"
  BY DEF Unsaved, Launching, Idle, Record, Operation, Lifecycle, Outcome, OpPc, Server, Action

LEMMA FailedFacts ==
    ASSUME NEW b \in BOOLEAN
    PROVE  /\ FailedBeforeStart(b) \in Record /\ FailedBeforeStart(b) # Unsaved
           /\ FailedBeforeStart(b).active = b /\ FailedBeforeStart(b).outcome = "launcher_error"
           /\ [FailedBeforeStart(b) EXCEPT !.state = "finished"] \in Record
           /\ [FailedBeforeStart(b) EXCEPT !.state = "finished"] # Unsaved
           /\ [FailedBeforeStart(b) EXCEPT !.state = "finished"].active = b
           /\ [FailedBeforeStart(b) EXCEPT !.state = "finished"].outcome = "launcher_error"
  BY DEF FailedBeforeStart, Unsaved, Record, Lifecycle, Outcome

LEMMA FaultTyped ==
    ASSUME faults \subseteq Faults, NEW kind, Fault(kind)
    PROVE  faults' \subseteq Faults
  BY DEF Fault

\* A record that is finished keeps what it says of the GPU and of the result.
LEMMA FinishedFacts ==
    ASSUME NEW r \in Record
    PROVE  LET done == [r EXCEPT !.state = "finished"]
           IN /\ done \in Record /\ done.state = "finished" /\ done # Unsaved
              /\ done.active = r.active /\ done.outcome = r.outcome
  BY DEF Record, Unsaved, Lifecycle

\* A call goes on to its next step with another record to save.
LEMMA ContinueFacts ==
    ASSUME op \in Operation, NEW pc \in OpPc, NEW w \in Record, Continue(pc, w)
    PROVE  /\ op' \in Operation /\ op'.pc = pc /\ op'.write = w /\ op'.by = op.by
           /\ op'.action = op.action /\ op'.answer = op.answer /\ op'.result = op.result
  BY DEF Continue, Operation

-----------------------------------------------------------------------------
(* Steps of the host.                                                       *)

\* What has happened on the host stays: a group that is gone and its result, and
\* the host's refusal of a launch.
HostMoved ==
    /\ answer = "gone" => answer' = "gone" /\ result' = result
    /\ result # "none" => result' = result
    /\ request = "refused" => request' = "refused"
    /\ request # "inflight" => request' = request
    /\ request' \in {"inflight", "arrived"} => request \in {"inflight", "arrived"}
    /\ UNCHANGED <<rec, lease, call, op>>

LEMMA ArriveMoves ==
    ASSUME RestTyped, GroupTyped, GroupSound, Arrive
    PROVE  RestTyped' /\ GroupTyped' /\ GroupSound' /\ HostMoved
  <1> USE DEF group, lease
  <1>1. request = "inflight" /\ answer = "unknown" /\ result = "none"
    BY DEF Arrive, GroupSound
  <1>2. UNCHANGED <<rec, lease, call, op>> /\ faults' \subseteq Faults /\ busy' \in BOOLEAN
    BY FaultTyped DEF Arrive, RestTyped, Host!Vanish
  <1>3. /\ request' \in {"arrived", "refused", "lost"} /\ result' = "none"
        /\ answer' = IF request' = "refused" THEN "gone" ELSE "unknown"
    BY <1>1 DEF Arrive, Host!Vanish
  <1> QED
    BY <1>1, <1>2, <1>3 DEF RestTyped, GroupTyped, GroupSound, HostMoved

LEMMA GroupMoves ==
    ASSUME RestTyped, GroupTyped, GroupSound, GroupStep \/ GroupEnds
    PROVE  RestTyped' /\ GroupTyped' /\ GroupSound' /\ HostMoved
  <1> USE DEF group, lease
  <1>1. /\ request = "arrived" /\ request' = request /\ answer # "gone"
        /\ UNCHANGED <<rec, lease, call, op, faults>>
    BY DEF GroupStep, GroupEnds, GroupSound, GroupTyped, Host!GroupNext, Host!Work,
           Host!Conclude, Host!Vanish
  <1>2. /\ busy' \in BOOLEAN /\ answer' \in {"unknown", "alive", "gone"}
        /\ result' \in {"none", "success", "failure"} /\ (result # "none" => result' = result)
    BY DEF GroupStep, GroupEnds, GroupTyped, Host!GroupNext, Host!Work, Host!Conclude, Host!Vanish
  <1> QED
    BY <1>1, <1>2 DEF RestTyped, GroupTyped, GroupSound, HostMoved

\* A step of the host disturbs neither the records nor the calls.
LEMMA HostStepInv ==
    ASSUME Inv, Arrive \/ GroupStep \/ GroupEnds
    PROVE  Inv'
  <1> USE DEF lease
  <1>1. RestTyped /\ GroupTyped /\ JobTyped /\ GroupSound
    BY TypeParts DEF Inv
  <1>2. RestTyped' /\ GroupTyped' /\ GroupSound' /\ HostMoved
    BY <1>1, ArriveMoves, GroupMoves
  <1>3. JobTyped' /\ TypeOK'
    BY <1>1, <1>2, TypePartsNext DEF JobTyped, HostMoved
  <1>4. ASSUME NEW r, TrueOutcome(r)
        PROVE  /\ r.outcome \in {"success", "failure"} => r.outcome = result'
               /\ r.outcome = "launcher_error" => request' = "refused"
    BY <1>2, <1>4 DEF TrueOutcome, HostMoved
  <1>5. RecSound'
    BY <1>2, <1>4 DEF Inv, RecSound, TrueOutcome, HostMoved
  <1>6. LaunchSound' /\ InactiveMeansReleased' /\ BookedUntilGone'
    BY <1>1, <1>2 DEF Inv, LaunchSound, Unsent, InactiveMeansReleased, BookedUntilGone, Ours,
           HostMoved, Arrive, GroupStep, GroupEnds, GroupSound
  <1>7. OpSound'
    <2> SUFFICES ASSUME op.pc # "idle" PROVE OpSound'
      BY <1>2 DEF OpSound, HostMoved
    <2>1. op.answer = "gone" => answer' = "gone" /\ op.result = result'
      BY <1>2 DEF Inv, OpSound, HostMoved
    <2>2. op.result # "none" => op.result = result'
      BY <1>2 DEF Inv, OpSound, HostMoved
    <2>3. op.pc \in {"prestart", "closing"} => request' = "refused"
      BY <1>2 DEF Inv, OpSound, HostMoved
    <2>4. op.pc \notin {"prestart", "closing"} /\ op.answer = "gone" => request' # "refused"
      BY <1>1, <1>2 DEF Inv, OpSound, HostMoved, GroupSound
    <2>5. TrueOutcome(op.write)'
      BY <1>2, <1>4 DEF Inv, OpSound, TrueOutcome, HostMoved
    <2> QED
      BY <1>2, <2>1, <2>2, <2>3, <2>4, <2>5 DEF Inv, OpSound, Ours, HostMoved
  <1> QED
    BY <1>2, <1>3, <1>5, <1>6, <1>7 DEF Inv

-----------------------------------------------------------------------------
(* Steps of the launching call.                                             *)

LEMMA LaunchTypes ==
    ASSUME TypeOK, LaunchStep
    PROVE  TypeOK'
  <1> USE DEF group, lease, Calling
  <1>0. RestTyped /\ GroupTyped /\ JobTyped
    BY TypeParts
  <1>1. CASE Acquire \/ Describe \/ StartHeartbeat \/ Send \/ Reply \/ ReleaseRefused
    <2>1. UNCHANGED <<group, rec, op, faults>> /\ call' \in CallPc /\ stale' \in BOOLEAN
      BY <1>0, <1>1 DEF Acquire, Describe, StartHeartbeat, Send, Reply, ReleaseRefused, CallPc, RestTyped
    <2>2. request' \in {"none", "inflight", "arrived", "refused", "lost"} /\ beating' \in BOOLEAN
      BY <1>0, <1>1 DEF Acquire, Describe, StartHeartbeat, Send, Reply, ReleaseRefused, RestTyped, GroupTyped
    <2>3. booking' \in {"free", "ours", "described", "foreign"}
      BY <1>0, <1>1 DEF Acquire, Describe, StartHeartbeat, Send, Reply, ReleaseRefused, JobTyped
    <2> QED
      BY <1>0, <2>1, <2>2, <2>3, TypePartsNext DEF RestTyped, GroupTyped, JobTyped
  <1>2. CASE Undo
    <2>1. faults' \subseteq Faults
      BY <1>0, <1>2, FaultTyped DEF Undo, RestTyped
    <2> QED
      BY <1>0, <1>2, <2>1, TypePartsNext DEF Undo, RestTyped, GroupTyped, JobTyped, CallPc
  <1>3. CASE Register \/ CloseUndone \/ SaveLaunched \/ SaveRefused \/ CloseRefused
    <2>1. UNCHANGED <<group, request, booking, stale, op, faults>> /\ call' \in CallPc /\ beating' \in BOOLEAN
      BY <1>0, <1>3 DEF Register, CloseUndone, SaveLaunched, SaveRefused, CloseRefused, CallPc, RestTyped
    <2>2. CASE Register \/ SaveRefused \/ CloseRefused
      BY <2>2, <1>0, <2>1, NullFacts, FailedFacts, TypePartsNext
         DEF Register, SaveRefused, CloseRefused, RestTyped, GroupTyped, JobTyped
    <2>3. ASSUME CloseUndone PROVE rec' \in Record
      BY <2>3, <1>0 DEF CloseUndone, JobTyped, Record, Lifecycle
    <2>4. ASSUME SaveLaunched PROVE rec' \in Record
      BY <2>4 DEF SaveLaunched, Launching, Record, Lifecycle, Outcome
    <2> QED
      BY <1>0, <1>3, <2>1, <2>2, <2>3, <2>4, TypePartsNext DEF RestTyped, GroupTyped, JobTyped
  <1> QED
    BY <1>1, <1>2, <1>3 DEF LaunchStep

\* While a call of manage is under way, the launching call saves nothing.
LEMMA CallUndisturbed ==
    ASSUME OpSound, UNCHANGED <<answer, result, request, op>>,
           op.pc # "idle" => rec' = rec,
           op.pc = "saved" => (~Ours => ~Ours')
    PROVE  OpSound'
  BY DEF OpSound, TrueOutcome, Ours

\* The steps before the launch command leaves.
LEMMA PreparationInv ==
    ASSUME Inv, Acquire \/ Describe \/ Register \/ StartHeartbeat \/ Send
    PROVE  Inv'
  <1> USE DEF group, lease, Calling
  <1>1. TypeOK /\ TypeOK' /\ request = "none" /\ UNCHANGED <<answer, result, op>>
    BY LaunchTypes DEF Inv, LaunchStep, LaunchSound, Unsent, Acquire, Describe, Register,
       StartHeartbeat, Send
  <1>2. answer = "unknown" /\ result = "none"
    BY <1>1 DEF Inv, GroupSound
  <1>3. GroupSound'
    BY <1>1, <1>2 DEF GroupSound, Acquire, Describe, Register, StartHeartbeat, Send
  <1>4. LaunchSound'
    BY <1>1 DEF Inv, LaunchSound, Unsent, Ours, Acquire, Describe, Register, StartHeartbeat, Send
  <1>5. rec.outcome # "launcher_error" /\ RecSound'
    BY <1>1, NullFacts DEF Inv, RecSound, TrueOutcome, Acquire, Describe, Register,
       StartHeartbeat, Send
  <1>6. OpSound'
    <2> SUFFICES ASSUME op.pc # "idle" PROVE OpSound'
      BY <1>1 DEF OpSound
    <2>1. rec # Unsaved /\ op.pc \notin {"prestart", "closing"} /\ op.answer # "gone"
      BY <1>1, <1>2 DEF Inv, OpSound
    <2>2. StartHeartbeat \/ Send
      BY <2>1 DEF Inv, LaunchSound, Acquire, Describe, Register
    <2>3. UNCHANGED <<rec, booking, answer, result, op>>
      BY <2>2 DEF StartHeartbeat, Send
    <2>4. TrueOutcome(op.write)'
      BY <1>1, <2>3 DEF Inv, OpSound, TrueOutcome
    <2> QED
      BY <2>1, <2>3, <2>4 DEF Inv, OpSound, Ours
  <1>7. BookedUntilGone'
    BY <1>1 DEF Inv, LaunchSound, BookedUntilGone, Ours, Acquire, Describe, Register,
       StartHeartbeat, Send
  <1>8. InactiveMeansReleased'
    BY <1>1, NullFacts DEF Inv, InactiveMeansReleased, LaunchSound, Ours, Acquire, Describe,
       Register, StartHeartbeat, Send
  <1> QED
    BY <1>1, <1>3, <1>4, <1>5, <1>6, <1>7, <1>8 DEF Inv

\* A launch that is given up, before the command leaves or after the refusal.
LEMMA GivingUpInv ==
    ASSUME Inv, Undo \/ Reply \/ ReleaseRefused
    PROVE  Inv'
  <1> USE DEF group, lease, Calling
  <1>1. TypeOK' /\ UNCHANGED <<answer, result, request, rec, op>>
    BY LaunchTypes DEF Inv, LaunchStep, Undo, Reply, ReleaseRefused
  <1>2. Ours' => Ours
    BY DEF Ours, Undo, Reply, ReleaseRefused
  <1>3. GroupSound' /\ RecSound' /\ OpSound' /\ InactiveMeansReleased'
    BY <1>1, <1>2, CallUndisturbed DEF Inv, GroupSound, RecSound, TrueOutcome, InactiveMeansReleased
  <1>4. LaunchSound'
    BY <1>1 DEF Inv, LaunchSound, Unsent, Ours, NotLaunched, Undo, Reply, ReleaseRefused
  <1>5. ~Ours' => ~Ours \/ request \in {"none", "refused"}
    BY DEF Inv, LaunchSound, Unsent, NotLaunched, Ours, Undo, Reply, ReleaseRefused
  <1>6. BookedUntilGone'
    BY <1>1, <1>5 DEF Inv, BookedUntilGone
  <1> QED
    BY <1>1, <1>3, <1>4, <1>6 DEF Inv

\* The launching call saves the record: no other call is under way.
LEMMA LaunchSavesInv ==
    ASSUME Inv, CloseUndone \/ SaveLaunched \/ SaveRefused \/ CloseRefused
    PROVE  Inv'
  <1> USE DEF group, lease, Calling
  <1>1. /\ TypeOK /\ TypeOK' /\ op.pc = "idle" /\ UNCHANGED <<answer, result, request, booking, op>>
        /\ call' \in {"ended", "failing"} /\ (call' = "failing" => call = "refused")
    BY LaunchTypes DEF Inv, LaunchStep, Unlocked, CloseUndone, SaveLaunched, SaveRefused, CloseRefused
  <1>2. GroupSound' /\ LaunchSound' /\ OpSound' /\ BookedUntilGone'
    BY <1>1, CallUndisturbed DEF Inv, GroupSound, LaunchSound, Unsent, BookedUntilGone, Ours
  <1>3. RecSound' /\ InactiveMeansReleased'
    <2>1. CASE CloseUndone
      <3>1. ~Ours' /\ rec \in Record
        BY <1>1, <2>1 DEF Inv, LaunchSound, CloseUndone, Ours, TypeOK
      <3>2. rec'.outcome = rec.outcome
        BY <2>1, <3>1 DEF CloseUndone, Record
      <3> QED
        BY <1>1, <3>1, <3>2 DEF Inv, RecSound, TrueOutcome, InactiveMeansReleased
    <2>2. CASE SaveLaunched
      <3>1. rec'.active = TRUE /\ rec'.outcome = "none"
        BY <2>2 DEF SaveLaunched, Launching
      <3> QED
        BY <3>1 DEF RecSound, TrueOutcome, InactiveMeansReleased
    <2>3. CASE SaveRefused \/ CloseRefused
      <3>1. request' = "refused" /\ (CloseRefused => ~Ours')
        BY <1>1, <2>3 DEF Inv, LaunchSound, SaveRefused, CloseRefused, Ours
      <3>2. rec'.outcome = "launcher_error" /\ (rec'.active = FALSE => CloseRefused)
        BY <2>3, FailedFacts DEF SaveRefused, CloseRefused
      <3> QED
        BY <3>1, <3>2 DEF RecSound, TrueOutcome, InactiveMeansReleased
    <2> QED
      BY <2>1, <2>2, <2>3
  <1> QED
    BY <1>1, <1>2, <1>3 DEF Inv

LEMMA LaunchStepInv ==
    ASSUME Inv, LaunchStep
    PROVE  Inv'
  BY PreparationInv, GivingUpInv, LaunchSavesInv DEF LaunchStep

-----------------------------------------------------------------------------
(* Steps of manage.                                                         *)

\* What the record says after an inspection.
LEMMA ObservedFacts ==
    ASSUME op \in Operation, booking \in {"free", "ours", "described", "foreign"}
    PROVE  /\ Observed \in Record /\ Observed.state # "none" /\ Observed # Unsaved
           /\ Observed.active => op.write.active
           /\ op.write.active /\ ~Observed.active => ~Ours
           /\ Observed.outcome = IF op.result # "none" THEN op.result ELSE op.write.outcome
  <1> DEFINE s == IF op.result # "none"
                  THEN IF op.result = "success" THEN "succeeded" ELSE "failed"
                  ELSE CASE op.answer = "alive" -> "running"
                         [] op.answer = "gone" -> "gone_unknown"
                         [] OTHER -> "launch_unknown"
             b == op.write.active /\ ~(op.by = "owner" /\ op.answer = "alive" /\ ~Ours)
             o == IF op.result # "none" THEN op.result ELSE op.write.outcome
  <1>1. /\ op.write.active \in BOOLEAN /\ op.write.outcome \in Outcome
        /\ op.result \in {"none", "success", "failure"} /\ op.answer \in {"unknown", "alive", "gone"}
    BY DEF Operation, Record
  <1>2. s \in Lifecycle \ {"none"}
    BY <1>1 DEF Lifecycle
  <1>3. b \in BOOLEAN /\ (b => op.write.active) /\ (op.write.active /\ ~b => ~Ours)
    BY <1>1
  <1>4. o \in Outcome
    BY <1>1 DEF Outcome
  <1>5. Observed = [state |-> s, active |-> b, outcome |-> o]
    BY DEF Observed
  <1> HIDE DEF s, b, o
  <1>6. /\ Observed \in Record /\ Observed.state = s /\ Observed.active = b
        /\ Observed.outcome = o /\ Unsaved.state = "none"
    BY <1>2, <1>3, <1>4, <1>5 DEF Record, Unsaved
  <1> QED
    BY <1>2, <1>3, <1>6 DEF o

\* A call begins with what the host answers now.
LEMMA InspectInv ==
    ASSUME Inv, NEW s \in Server, NEW a \in Action, Inspect(s, a)
    PROVE  Inv'
  <1> USE DEF group, lease
  <1>1. RestTyped /\ GroupTyped /\ JobTyped
    BY TypeParts DEF Inv
  <1>2. rec # Unsaved /\ UNCHANGED <<group, request, rec, lease, call, faults>>
    BY DEF Inspect
  <1>3. /\ op'.pc = IF request = "refused" THEN "prestart" ELSE "seen"
        /\ op'.answer = answer /\ op'.result = result /\ op'.write = rec
    BY DEF Inspect
  <1>4. op' \in Operation
    BY <1>1 DEF Inspect, Operation, OpPc, GroupTyped, JobTyped
  <1>5. TypeOK'
    BY <1>1, <1>2, <1>4, TypePartsNext DEF RestTyped, GroupTyped, JobTyped
  <1>6. OpSound'
    BY <1>2, <1>3 DEF Inv, OpSound, RecSound, TrueOutcome
  <1> QED
    BY <1>2, <1>5, <1>6 DEF Inv, GroupSound, LaunchSound, RecSound, TrueOutcome, BookedUntilGone,
       InactiveMeansReleased, Ours

\* A call under way that has seen its inspection holds a record of its own.
LEMMA UnderWay ==
    ASSUME Inv, op.pc # "idle"
    PROVE  /\ call \notin {"idle", "acquired", "described"} /\ rec # Unsaved
           /\ op.answer = "gone" \/ op.pc \in {"prestart", "closing"} => call \notin Unsent
  BY NullFacts DEF Inv, OpSound, LaunchSound, GroupSound, Unsent

LEMMA SaveSeenInv ==
    ASSUME Inv, SaveSeen
    PROVE  Inv'
  <1> USE DEF group, lease
  <1>1. RestTyped /\ GroupTyped /\ JobTyped
    BY TypeParts DEF Inv
  <1>2. /\ op.pc = "seen" /\ op.write = rec /\ rec' = Observed
        /\ UNCHANGED <<group, request, lease, call, faults>>
    BY DEF Inv, OpSound, SaveSeen, Managing
  <1>3. PICK pc \in {"release", "act"} : Continue(pc, Observed)
    BY DEF SaveSeen
  <1>4. /\ Observed \in Record /\ Observed.state # "none" /\ Observed # Unsaved
        /\ op.write.active /\ ~Observed.active => ~Ours
        /\ Observed.active => op.write.active
        /\ Observed.outcome = IF op.result # "none" THEN op.result ELSE op.write.outcome
    BY <1>1, ObservedFacts DEF JobTyped
  <1>5. /\ op' \in Operation /\ op'.pc = pc /\ op'.write = Observed
        /\ op'.answer = op.answer /\ op'.result = op.result
    BY <1>1, <1>3, <1>4, ContinueFacts DEF JobTyped, OpPc
  <1>6. TypeOK'
    BY <1>1, <1>2, <1>4, <1>5, TypePartsNext DEF RestTyped, GroupTyped, JobTyped
  <1>7. GroupSound' /\ LaunchSound' /\ BookedUntilGone'
    BY <1>2, UnderWay DEF Inv, GroupSound, LaunchSound, BookedUntilGone, Ours
  <1>8. RecSound' /\ TrueOutcome(op.write)'
    <2>1. TrueOutcome(op.write) /\ (op.result # "none" => op.result = result)
      BY <1>2 DEF Inv, OpSound
    <2>2. op.result \in {"none", "success", "failure"}
      BY <1>1 DEF JobTyped, Operation
    <2>3. /\ Observed.outcome \in {"success", "failure"} => Observed.outcome = result
          /\ Observed.outcome = "launcher_error" => request = "refused"
      BY <1>4, <2>1, <2>2 DEF TrueOutcome
    <2> QED
      BY <1>2, <1>5, <2>3 DEF RecSound, TrueOutcome
  <1>9. InactiveMeansReleased'
    BY <1>2, <1>4, UnderWay DEF Inv, InactiveMeansReleased, Ours
  <1>10. OpSound'
    <2>1. rec' # Unsaved /\ op'.pc \notin {"prestart", "closing", "saved", "seen"} /\ op'.write = rec'
      BY <1>2, <1>3, <1>4, <1>5
    <2> QED
      BY <1>2, <1>4, <1>5, <1>8, <2>1 DEF Inv, OpSound
  <1> QED
    BY <1>6, <1>7, <1>8, <1>9, <1>10 DEF Inv

\* The GPU is returned only when the whole group is gone, and the call goes on
\* with a record that is inactive only then.
LEMMA ReleaseInv ==
    ASSUME Inv, Release
    PROVE  Inv'
  <1> USE DEF group, lease
  <1>1. RestTyped /\ GroupTyped /\ JobTyped
    BY TypeParts DEF Inv
  <1>2. PICK removed \in BOOLEAN :
            /\ removed => ReleaseDue
            /\ booking' = IF removed /\ Ours THEN "free" ELSE booking
            /\ beating' = (beating /\ ~(removed /\ Ours /\ op.by = "owner"))
            /\ Continue("saved", [op.write EXCEPT !.active = StillActive(removed)])
    <2> DEFINE r == ReleaseDue /\ (~Ours \/ IF op.by = "owner" THEN ~Sick ELSE stale)
    <2>1. /\ booking' = IF r /\ Ours THEN "free" ELSE booking
          /\ beating' = (beating /\ ~(r /\ Ours /\ op.by = "owner"))
          /\ Continue("saved", [op.write EXCEPT !.active = StillActive(r)])
      BY DEF Release
    <2> QED
      BY <2>1
  <1>3. op.pc = "release" /\ op.write = rec /\ UNCHANGED <<group, request, rec, stale, call, faults>>
    BY DEF Inv, OpSound, Release, Managing
  <1>4. StillActive(removed) \in BOOLEAN /\ (StillActive(removed) <=> op.write.active /\ ~removed)
    BY <1>1 DEF StillActive, JobTyped, Operation, Record
  <1> DEFINE w == [op.write EXCEPT !.active = StillActive(removed)]
  <1>5. /\ w \in Record /\ w.state = op.write.state /\ w.outcome = op.write.outcome
        /\ w.active <=> op.write.active /\ ~removed
    <2>1. op.write \in Record
      BY <1>1 DEF JobTyped, Operation
    <2>2. /\ w \in Record /\ w.state = op.write.state /\ w.outcome = op.write.outcome
          /\ w.active = StillActive(removed)
      BY <1>4, <2>1 DEF Record
    <2> QED
      BY <1>4, <2>2
  <1>6. Continue("saved", w)
    BY <1>2
  <1> HIDE DEF w
  <1>7. /\ op' \in Operation /\ op'.pc = "saved" /\ op'.write = w
        /\ op'.answer = op.answer /\ op'.result = op.result
    BY <1>1, <1>5, <1>6, ContinueFacts DEF JobTyped, OpPc
  <1>8. /\ Ours' => Ours
        /\ removed => ~Ours' /\ op.answer = "gone" /\ answer = "gone" /\ op.write.active
        /\ ~removed => booking' = booking
    BY <1>2, <1>3 DEF Ours, ReleaseDue, Inv, OpSound
  <1>9. TypeOK'
    BY <1>1, <1>2, <1>3, <1>7, TypePartsNext DEF RestTyped, GroupTyped, JobTyped
  <1>10. GroupSound' /\ RecSound' /\ InactiveMeansReleased'
    BY <1>3, <1>8 DEF Inv, GroupSound, RecSound, TrueOutcome, InactiveMeansReleased
  <1>11. LaunchSound'
    BY <1>3, <1>8, UnderWay DEF Inv, LaunchSound, Unsent, Ours
  <1>12. BookedUntilGone'
    BY <1>3, <1>8 DEF Inv, BookedUntilGone, Ours
  <1>13. OpSound'
    <2>1. ~w.active => ~Ours'
      BY <1>3, <1>5, <1>8, UnderWay DEF Inv, InactiveMeansReleased
    <2>2. TrueOutcome(op.write)'
      BY <1>3, <1>5, <1>7 DEF Inv, OpSound, TrueOutcome
    <2>3. op.result # "none" => w.outcome = op.result
      BY <1>3, <1>5 DEF Inv, OpSound
    <2> QED
      BY <1>3, <1>5, <1>7, <2>1, <2>2, <2>3, UnderWay DEF Inv, OpSound
  <1> QED
    BY <1>9, <1>10, <1>11, <1>12, <1>13 DEF Inv

\* The record that is saved after a release was made by the call that released.
LEMMA SaveReleasedInv ==
    ASSUME Inv, SaveReleased
    PROVE  Inv'
  <1> USE DEF group, lease
  <1>1. RestTyped /\ GroupTyped /\ JobTyped
    BY TypeParts DEF Inv
  <1>2. op.pc = "saved" /\ rec' = op.write /\ UNCHANGED <<group, request, lease, call, faults>>
    BY DEF SaveReleased, Managing
  <1>3. op.write \in Record /\ op.write.state # "none" /\ op.write # Unsaved
    BY <1>1, <1>2 DEF Inv, OpSound, JobTyped, Operation, Unsaved
  <1>4. /\ op' \in Operation /\ op'.pc \in {"idle", "act"}
        /\ op'.pc = "act" => op'.write = op.write /\ op'.answer = op.answer /\ op'.result = op.result
    <2>1. CASE op.write.state = "finished"
      BY <2>1, NullFacts DEF SaveReleased
    <2>2. CASE op.write.state # "finished"
      BY <1>1, <1>3, <2>2, ContinueFacts DEF SaveReleased, JobTyped, OpPc
    <2> QED
      BY <2>1, <2>2
  <1>5. TypeOK'
    BY <1>1, <1>2, <1>3, <1>4, TypePartsNext DEF RestTyped, GroupTyped, JobTyped
  <1>6. GroupSound' /\ LaunchSound' /\ BookedUntilGone'
    BY <1>2, UnderWay DEF Inv, GroupSound, LaunchSound, BookedUntilGone, Ours
  <1>7. RecSound' /\ InactiveMeansReleased'
    BY <1>2 DEF Inv, OpSound, RecSound, TrueOutcome, InactiveMeansReleased, Ours
  <1>8. OpSound'
    <2> SUFFICES ASSUME op'.pc = "act" PROVE OpSound'
      BY <1>4 DEF OpSound
    <2>1. op'.write = op.write /\ op'.answer = op.answer /\ op'.result = op.result
      BY <1>4
    <2>2. TrueOutcome(op.write)'
      BY <1>2, <2>1 DEF Inv, OpSound, TrueOutcome
    <2> QED
      BY <1>2, <1>3, <2>1, <2>2 DEF Inv, OpSound
  <1> QED
    BY <1>5, <1>6, <1>7, <1>8 DEF Inv

\* finish marks the record finished and goes on to release its GPU.
LEMMA ActInv ==
    ASSUME Inv, Act
    PROVE  Inv'
  <1> USE DEF group, lease
  <1>1. RestTyped /\ GroupTyped /\ JobTyped
    BY TypeParts DEF Inv
  <1>2. op.pc = "act" /\ op.write = rec /\ UNCHANGED <<group, request, lease, call, faults>>
    BY DEF Inv, OpSound, Act, Managing
  <1>3. ASSUME rec' = rec, op' = Idle
        PROVE  Inv'
    <2>1. TypeOK'
      BY <1>1, <1>2, <1>3, NullFacts, TypePartsNext DEF RestTyped, GroupTyped, JobTyped
    <2> QED
      BY <1>2, <1>3, <2>1, NullFacts DEF Inv, GroupSound, LaunchSound, RecSound, TrueOutcome,
         OpSound, BookedUntilGone, InactiveMeansReleased, Ours
  <1> DEFINE done == [op.write EXCEPT !.state = "finished"]
  <1>4. /\ done \in Record /\ done.state = "finished" /\ done # Unsaved
        /\ done.active = rec.active /\ done.outcome = rec.outcome
    <2>1. rec \in Record /\ "finished" \in Lifecycle \ {"none"} /\ done = [rec EXCEPT !.state = "finished"]
      BY <1>1, <1>2 DEF JobTyped, Lifecycle
    <2> HIDE DEF done
    <2> QED
      BY <2>1, FinishedFacts
  <1>5. \/ rec' = done /\ Continue("release", done)
        \/ rec' = rec /\ op' = Idle
    BY <1>1, Zenon DEF Act
  <1> HIDE DEF done
  <1>6. ASSUME rec' = done, Continue("release", done)
        PROVE  Inv'
    <2>1. /\ op' \in Operation /\ op'.pc = "release" /\ op'.write = done
          /\ op'.answer = op.answer /\ op'.result = op.result
      BY <1>1, <1>4, <1>6, ContinueFacts DEF JobTyped, OpPc
    <2>2. TypeOK'
      BY <1>1, <1>2, <1>4, <1>6, <2>1, TypePartsNext DEF RestTyped, GroupTyped, JobTyped
    <2>3. GroupSound' /\ LaunchSound' /\ BookedUntilGone'
      BY <1>2, UnderWay DEF Inv, GroupSound, LaunchSound, BookedUntilGone, Ours
    <2>4. RecSound' /\ InactiveMeansReleased' /\ TrueOutcome(op.write)'
      BY <1>2, <1>4, <1>6, <2>1, UnderWay DEF Inv, RecSound, TrueOutcome, InactiveMeansReleased, Ours
    <2>5. OpSound'
      BY <1>2, <1>4, <1>6, <2>1, <2>4 DEF Inv, OpSound
    <2> QED
      BY <2>2, <2>3, <2>4, <2>5 DEF Inv
  <1> QED
    BY <1>3, <1>5, <1>6

\* A call that finds the launch refused says so, and gives up the booking.
LEMMA PrestartInv ==
    ASSUME Inv, SavePrestart \/ ClosePrestart
    PROVE  Inv'
  <1> USE DEF group, lease
  <1>1. RestTyped /\ GroupTyped /\ JobTyped /\ rec.active \in BOOLEAN
    BY TypeParts DEF Inv, JobTyped, Record
  <1>2. /\ op.pc \in {"prestart", "closing"} /\ request = "refused"
        /\ UNCHANGED <<group, request, stale, call, faults>>
    BY DEF Inv, OpSound, SavePrestart, ClosePrestart, Managing
  <1>3. PICK b \in BOOLEAN :
            /\ \/ rec' = FailedBeforeStart(b)
               \/ rec' = [FailedBeforeStart(b) EXCEPT !.state = "finished"]
            /\ b <=> rec.active /\ (ClosePrestart => Ours /\ op.by # "owner")
    <2>1. CASE SavePrestart /\ ~ClosePrestart
      BY <1>1, <2>1 DEF SavePrestart
    <2>2. CASE ClosePrestart
      <3> DEFINE b == rec.active /\ Ours /\ ~(Ours /\ op.by = "owner")
      <3>1. rec' = [FailedBeforeStart(b) EXCEPT
                       !.state = IF op.action = "finish" THEN "finished" ELSE @]
        BY <2>2 DEF ClosePrestart
      <3>2. b \in BOOLEAN
        BY <1>1
      <3>3. CASE op.action = "finish"
        BY <1>1, <2>2, <3>1, <3>2, <3>3
      <3>4. CASE op.action # "finish"
        <4>1. rec' = FailedBeforeStart(b)
          BY <3>1, <3>4 DEF FailedBeforeStart
        <4> QED
          BY <1>1, <2>2, <3>2, <4>1
      <3> QED
        BY <3>3, <3>4
    <2> QED
      BY <2>1, <2>2
  <1>4. /\ rec' \in Record /\ rec' # Unsaved
        /\ rec'.active = b /\ rec'.outcome = "launcher_error"
    BY <1>3, FailedFacts
  <1>5. /\ beating' \in BOOLEAN /\ booking' \in {"free", "ours", "described", "foreign"}
        /\ (Ours' => Ours) /\ (SavePrestart /\ ~ClosePrestart => booking' = booking)
        /\ ClosePrestart /\ op.by = "owner" => ~Ours'
    BY <1>1 DEF RestTyped, JobTyped, SavePrestart, ClosePrestart, Ours
  <1>6. op' \in Operation /\ (op'.pc # "idle" => op'.pc = "closing" /\ op'.write = op.write
                                                  /\ op'.result = op.result /\ op'.answer = op.answer)
    <2>1. CASE SavePrestart
      <3>1. Continue("closing", op.write) /\ op.write \in Record /\ op \in Operation
        BY <1>1, <2>1 DEF SavePrestart, JobTyped, Operation
      <3> QED
        BY <3>1, ContinueFacts DEF OpPc
    <2>2. CASE ClosePrestart
      BY <2>2, NullFacts DEF ClosePrestart
    <2> QED
      BY <2>1, <2>2
  <1>7. TypeOK'
    BY <1>1, <1>2, <1>4, <1>5, <1>6, TypePartsNext DEF RestTyped, GroupTyped, JobTyped
  <1>8. GroupSound' /\ BookedUntilGone' /\ RecSound'
    BY <1>2, <1>4 DEF Inv, GroupSound, BookedUntilGone, RecSound, TrueOutcome
  <1>9. LaunchSound'
    BY <1>2, <1>5, UnderWay DEF Inv, LaunchSound, Unsent, Ours
  <1>10. InactiveMeansReleased'
    <2>1. CASE ClosePrestart /\ op.by = "owner"
      BY <1>5, <2>1 DEF InactiveMeansReleased
    <2>2. CASE ~Ours
      BY <1>5, <2>2 DEF InactiveMeansReleased
    <2>3. CASE Ours /\ ~(ClosePrestart /\ op.by = "owner")
      <3>1. rec.active = TRUE
        BY <1>1, <1>2, <2>3, UnderWay DEF Inv, InactiveMeansReleased
      <3>2. b = TRUE
        BY <1>3, <2>3, <3>1
      <3> QED
        BY <1>4, <3>2 DEF InactiveMeansReleased
    <2> QED
      BY <2>1, <2>2, <2>3
  <1>11. OpSound'
    <2> SUFFICES ASSUME op'.pc # "idle" PROVE OpSound'
      BY DEF OpSound
    <2>1. TrueOutcome(op.write)'
      BY <1>2, <1>6 DEF Inv, OpSound, TrueOutcome
    <2> QED
      BY <1>2, <1>4, <1>6, <2>1 DEF Inv, OpSound
  <1> QED
    BY <1>7, <1>8, <1>9, <1>10, <1>11 DEF Inv

LEMMA ManageStepInv ==
    ASSUME Inv, ManageStep
    PROVE  Inv'
  BY SaveSeenInv, ReleaseInv, SaveReleasedInv, ActInv, PrestartInv DEF ManageStep

-----------------------------------------------------------------------------
(* The other steps.                                                         *)

\* A call ends early, or its backend dies: what was saved stays.
LEMMA InterruptionInv ==
    ASSUME Inv, CallFails \/ OwnerDies \/ CheckinFails
    PROVE  Inv'
  <1> USE DEF group, lease
  <1>1. RestTyped /\ GroupTyped /\ JobTyped
    BY TypeParts DEF Inv
  <1>2. UNCHANGED <<group, request, rec, booking, stale, call>> /\ op' \in {op, Idle}
    BY DEF CallFails, OwnerDies, CheckinFails
  <1>3. faults' \subseteq Faults /\ beating' \in BOOLEAN
    BY <1>1, FaultTyped DEF CallFails, OwnerDies, CheckinFails, RestTyped
  <1>4. TypeOK'
    BY <1>1, <1>2, <1>3, NullFacts, TypePartsNext DEF RestTyped, GroupTyped, JobTyped
  <1>5. OpSound'
    BY <1>2, NullFacts DEF Inv, OpSound, TrueOutcome, Ours
  <1> QED
    BY <1>2, <1>4, <1>5 DEF Inv, GroupSound, LaunchSound, RecSound, TrueOutcome, BookedUntilGone,
       InactiveMeansReleased, Ours

\* The registry's other users take nothing but a free GPU, or one whose booking
\* is stale and names a group that is gone.
LEMMA RegistryInv ==
    ASSUME Inv, GoStale \/ CleanUp \/ OtherJob
    PROVE  Inv'
  <1> USE DEF group, lease
  <1>1. RestTyped /\ GroupTyped /\ JobTyped
    BY TypeParts DEF Inv
  <1>2. UNCHANGED <<group, request, rec, beating, call, op, faults>> /\ stale' \in BOOLEAN
    BY <1>1 DEF GoStale, CleanUp, OtherJob, RestTyped
  <1>3. /\ booking' \in {"free", "ours", "described", "foreign"} /\ (Ours' => Ours)
        /\ (Ours /\ ~Ours' => answer = "gone")
    BY <1>1 DEF GoStale, CleanUp, OtherJob, JobTyped, Ours
  <1>4. TypeOK'
    BY <1>1, <1>2, <1>3, TypePartsNext DEF RestTyped, GroupTyped, JobTyped
  <1>5. LaunchSound'
    BY <1>2, <1>3 DEF Inv, LaunchSound, GroupSound, Unsent, Ours
  <1>6. OpSound'
    BY <1>2, <1>3, CallUndisturbed DEF Inv
  <1> QED
    BY <1>2, <1>3, <1>4, <1>5, <1>6 DEF Inv, GroupSound, RecSound, TrueOutcome, BookedUntilGone,
       InactiveMeansReleased

-----------------------------------------------------------------------------
(* The theorems.                                                            *)

LEMMA InitInv == ManagerInit => Inv
  <1> SUFFICES ASSUME ManagerInit PROVE Inv
    OBVIOUS
  <1>1. /\ answer = "unknown" /\ result = "none" /\ busy = FALSE
        /\ request = "none" /\ rec = Unsaved /\ op = Idle /\ call = "idle"
        /\ booking = "free" /\ stale = FALSE /\ beating = FALSE /\ faults = {}
    BY DEF ManagerInit, Host!GroupInit
  <1>2. TypeOK
    BY <1>1, NullFacts DEF TypeOK, CallPc
  <1> QED
    BY <1>1, <1>2, NullFacts DEF Inv, GroupSound, LaunchSound, Unsent, RecSound, TrueOutcome, OpSound,
       BookedUntilGone, InactiveMeansReleased, Ours

LEMMA StepInv ==
    ASSUME Inv, [Next]_manager
    PROVE  Inv'
  <1>1. CASE UNCHANGED manager
    BY <1>1 DEF manager, Inv, TypeOK, GroupSound, LaunchSound, Unsent, RecSound, TrueOutcome, OpSound,
       BookedUntilGone, InactiveMeansReleased, Ours
  <1>2. CASE Next
    <2>1. ASSUME NEW s \in Server, NEW a \in Action, Inspect(s, a)
          PROVE  Inv'
      BY <2>1, InspectInv
    <2> QED
      BY <1>2, <2>1, LaunchStepInv, ManageStepInv, InterruptionInv, HostStepInv, RegistryInv DEF Next
  <1> QED
    BY <1>1, <1>2

THEOREM Invariance == Spec => []Inv
  <1>1. Inv /\ [Next]_manager => Inv'
    BY StepInv
  <1> QED
    BY <1>1, InitInv, PTL DEF Spec

\* Every variable of the manager keeps its type.
THEOREM ManagerTypes == Spec => []TypeOK
  <1>1. Inv => TypeOK
    BY DEF Inv
  <1> QED
    BY <1>1, Invariance, PTL

\* From the launch command on, the GPU is booked until the whole group is gone.
THEOREM GpuBookedUntilGone == Spec => []BookedUntilGone
  <1>1. Inv => BookedUntilGone
    BY DEF Inv
  <1> QED
    BY <1>1, Invariance, PTL

\* A record that says the GPU is given up leaves no booking of the sweep behind.
THEOREM GivenUpMeansReleased == Spec => []InactiveMeansReleased
  <1>1. Inv => InactiveMeansReleased
    BY DEF Inv
  <1> QED
    BY <1>1, Invariance, PTL

\* The step that frees the GPU finds the result of the sweep saved.
LEMMA ReleaseFindsResult ==
    ASSUME Inv, Release, Ours, ~Ours'
    PROVE  rec.outcome = result
  <1>1. op.pc = "release" /\ op.write = rec /\ rec.outcome \in Outcome
    BY DEF Inv, OpSound, TypeOK, Record, Release, Managing
  <1>2. op.answer = "gone"
    BY DEF Release, ReleaseDue, Ours
  <1>3. op.result = result /\ request # "refused"
    BY <1>1, <1>2 DEF Inv, OpSound
  <1>4. op.result # "none" => rec.outcome = op.result
    BY <1>1 DEF Inv, OpSound
  <1>5. op.result = "none" => rec.outcome = "none"
    BY <1>1, <1>3 DEF Inv, RecSound, TrueOutcome, Outcome
  <1> QED
    BY <1>3, <1>4, <1>5

\* Only Release leads from the release to the record that is saved after it.
LEMMA OnlyRelease ==
    ASSUME Inv, [Next]_manager, op.pc = "release", op'.pc = "saved"
    PROVE  Release
  <1> USE DEF Managing
  <1>1. op' # op /\ op' # Idle /\ op \in Operation
    BY NullFacts DEF Inv, TypeOK
  <1>2. ~LaunchStep
    BY <1>1 DEF LaunchStep, Acquire, Describe, Register, StartHeartbeat, Send, Undo, CloseUndone,
       Reply, SaveLaunched, SaveRefused, ReleaseRefused, CloseRefused
  <1>3. ~CallFails /\ ~OwnerDies /\ (\A s \in Server, a \in Action : ~Inspect(s, a))
    BY <1>1 DEF CallFails, OwnerDies, Inspect, Unlocked
  <1>4. ~(Arrive \/ GroupStep \/ GroupEnds \/ GoStale \/ CleanUp \/ OtherJob \/ CheckinFails)
    BY <1>1 DEF Arrive, GroupStep, GroupEnds, GoStale, CleanUp, OtherJob, CheckinFails
  <1>5. ManageStep => Release
    BY DEF ManageStep, SaveSeen, SaveReleased, Act, SavePrestart, ClosePrestart
  <1>6. Next
    BY <1>1 DEF manager
  <1> QED
    BY <1>2, <1>3, <1>4, <1>5, <1>6 DEF Next

\* The call of manage that frees the GPU has saved the sweep's result before.
THEOREM ResultIsSavedFirst == Spec => ResultSavedBeforeRelease
  <1>1. Inv /\ [Next]_manager =>
            [op.pc = "release" /\ op'.pc = "saved" /\ Ours /\ ~Ours' => rec.outcome = result]_manager
    BY OnlyRelease, ReleaseFindsResult
  <1> QED
    BY <1>1, Invariance, PTL DEF Spec, ResultSavedBeforeRelease

=============================================================================
