----------------------------- MODULE Notifications -----------------------------
(***************************************************************************)
(* The notices a job's owner gets: the events table of JobStore, the saves *)
(* that fill it, and the delivery thread that carries each event to the    *)
(* owner's conversation over a connection that may lose replies.           *)
(*                                                                         *)
(* One job is modelled: events of different jobs share nothing but the     *)
(* delivery thread. Every call that names the job holds the job's lock, so *)
(* calls interleave only where one ends, or where the backend crashes; one *)
(* action is one save of the record, with the clean-up that follows it, or *)
(* one other transaction, or one request to the Codex daemon.              *)
(* Left out: milestones and MPS case failures, the delivery timers, and a  *)
(* policy that awaits review, which pauses checking.                       *)
(***************************************************************************)
EXTENDS Naturals, FiniteSets, Bags

CONSTANTS
    MaxAttempts,   \* bound: attempts of the job
    MaxTime,       \* bound: distinguishable times
    MaxCrashes,    \* bound: backend crashes
    MaxAsks,       \* bound: retries of a notice that its owner asks for
    Notices,       \* the notices sent beside the job's states
    MaxNotices,    \* bound: such notices
    SetAside,      \* the owner may archive the conversation at any moment, also
                   \* while a delivery is in doubt
    Unsaved        \* the kinds of event whose positive answer may fail to be
                   \* saved (bound: the first time)

Attempt == 1..MaxAttempts
Time == 0..MaxTime

ASSUME NotificationsAssumption ==
    /\ MaxAttempts \in Nat \ {0} /\ MaxTime \in Nat
    /\ MaxCrashes \in Nat /\ MaxAsks \in Nat /\ MaxNotices \in Nat
    /\ Notices \subseteq {"poll", "alert"} /\ SetAside \in BOOLEAN
    /\ Unsaved \subseteq {"result", "finished", "launch_unknown", "gone_unknown"} \cup Notices

VARIABLES
    up,        \* the backend runs, and (owner) is the one that launched the job
    owner,
    crashes,
    clock,
    truth,     \* each attempt: not started, running, gone, its result readable
    rec,       \* the job's record
    event,     \* the events table: the state of each event in it
    call,      \* the call that holds the job's lock
    inbox,     \* the bag of events the owner's conversation has received
    asked      \* the bag of events its owner has asked for again

vars == <<up, owner, crashes, clock, truth, rec, event, call, inbox, asked>>

world == <<up, owner, crashes, clock>>
conversation == <<inbox, asked>>

-----------------------------------------------------------------------------

Uncertain == {"launch_unknown", "gone_unknown"}
Terminal == {"result", "finished"}     \* TERMINAL_STATES, "result" for two
JobState == {"none", "launching", "running"} \cup Uncertain \cup Terminal

\* since is verification_pending_since; outcome is the attempt whose outcome
\* the record holds, 0 when it has none.
Record == [att: Attempt \cup {0}, state: JobState, active: BOOLEAN, since: Time,
           outcome: Attempt \cup {0}]
NoRecord == [att |-> 0, state |-> "none", active |-> FALSE, since |-> 0,
             outcome |-> 0]

\* An event id hashes job, attempt and kind with: the episode of an
\* uncertainty; the check time of a poll; the ten minutes of an alert (of a
\* failed check, a lease, or a backend that has gone), all modelled time being
\* less than that.
Kind == Terminal \cup Uncertain \cup Notices
Event == {e \in Attempt \X Kind \X Time :
              e[2] \in Terminal \cup {"alert"} => e[3] = 0}
NoEvent == <<0, "none", 0>>

\* "unsent" is pending or archived, "in_doubt" sending or uncertain, "retired"
\* superseded or resolved; nothing in the code tells the two of a pair apart.
EventState == {"unsent", "in_doubt", "accepted", "retired"}
Deliverable == {"unsent", "in_doubt"}

State(e) == IF e \in DOMAIN event THEN event[e] ELSE "none"

\* What the lock holder does next, the event it delivers and the state in which
\* it found it, and the record a failed retry restores.
CallPc == {"idle", "release", "start", "prepare", "request"}
Call == [pc: CallPc, e: Event \cup {NoEvent}, prev: EventState \cup {"none"}, source: Record]
NoCall == [pc |-> "idle", e |-> NoEvent, prev |-> "none", source |-> NoRecord]

TypeOK ==
    /\ up \in BOOLEAN /\ owner \in BOOLEAN
    /\ crashes \in 0..MaxCrashes /\ clock \in Time
    /\ truth \in [Attempt -> {"none", "running", "gone", "result"}]
    /\ rec \in Record
    /\ DOMAIN event \subseteq Event
    /\ \A e \in DOMAIN event : event[e] \in EventState
    /\ call \in Call
    /\ IsABag(inbox) /\ BagToSet(inbox) \subseteq DOMAIN event
    /\ IsABag(asked) /\ BagToSet(asked) \subseteq DOMAIN event

Init ==
    /\ up = TRUE /\ owner = TRUE /\ crashes = 0 /\ clock = 0
    /\ truth = [a \in Attempt |-> "none"]
    /\ rec = NoRecord
    /\ event = <<>>
    /\ call = NoCall
    /\ inbox = EmptyBag
    /\ asked = EmptyBag

-----------------------------------------------------------------------------
(* JobStore: one transaction saves the record and updates its events.       *)

\* CodexRuntime.persist: an episode of uncertainty keeps its first time.
Stamped(record) ==
    [record EXCEPT !.since =
        IF record.state \notin Uncertain THEN 0
        ELSE IF rec.state \in Uncertain /\ rec.att = record.att THEN rec.since
        ELSE clock]

EventOf(record) ==
    <<record.att, record.state, IF record.state \in Uncertain THEN record.since ELSE 0>>

\* Mutant: an uncertainty that is over keeps its alert.
RetiredNotices(record, e) ==
    /\ e[1] = record.att
    /\ \/ e[2] = "poll" /\ event[e] = "unsent" /\ record.state # "running"
       \/ /\ e[2] = "alert" /\ event[e] = "unsent"
          /\ record.state \in Terminal /\ ~record.active

\* The rows of the record's attempt that a save retires.
Retired(record, e) ==
    /\ e[1] = record.att
    /\ \/ /\ e[2] \in Uncertain /\ e[2] # record.state
          /\ event[e] # "accepted"
       \/ /\ e[2] = "poll" /\ event[e] = "unsent" /\ record.state # "running"
       \/ /\ e[2] = "alert" /\ event[e] = "unsent"
          /\ record.state \in Terminal /\ ~record.active

\* Mutant: every state of the job is announced.
RaisedAlways(record) == {EventOf(record)}

\* INSERT OR IGNORE: an event that is there already stays as it is.
Raised(record) ==
    IF record.state \in Terminal \cup Uncertain THEN {EventOf(record)} ELSE {}

\* The table after a save of the record.
Saved(record) ==
    [e \in DOMAIN event \cup Raised(record) |->
        IF e \notin DOMAIN event THEN "unsent"
        ELSE IF Retired(record, e) THEN "retired" ELSE event[e]]

\* Mutant: a notice that was delivered is retired like the others.
ClearedAll(state, e, record) == e[1] # record.att

\* clear_old_events, a second transaction on that table.
Cleared(state, e, record) == e[1] # record.att /\ state # "accepted"

SavedAndCleared(record) ==
    LET table == Saved(record) IN
    [e \in DOMAIN table |->
        IF Cleared(table[e], e, record) THEN "retired" ELSE table[e]]

\* JobStore.notice: one unsent notice of a kind at a time.
Noted(e, table) ==
    [f \in DOMAIN table \cup {e} |->
        IF f \notin DOMAIN table THEN "unsent"
        ELSE IF f # e /\ f[1] = e[1] /\ f[2] = e[2] /\ table[f] = "unsent"
             THEN "retired" ELSE table[f]]

-----------------------------------------------------------------------------
(* The job's life, as far as its notices can tell.                          *)

Free == up /\ call.pc = "idle"
Ended(a) == truth[a] \in {"gone", "result"}

CallStep(pc) == call' = [call EXCEPT !.pc = pc]

\* The lock is released, and the next instance does not own what this one
\* launched.
Stops ==
    /\ up /\ crashes < MaxCrashes
    /\ up' = FALSE /\ owner' = FALSE /\ crashes' = crashes + 1
    /\ call' = NoCall /\ UNCHANGED clock

\* A save, clear_old_events, and what the call does next; a crash can come
\* between the two transactions.
SaveThen(record, next) ==
    /\ rec' = Stamped(record)
    /\ \/ event' = SavedAndCleared(rec') /\ call' = next /\ UNCHANGED world
       \/ event' = Saved(rec') /\ Stops

FirstRecord == [att |-> 1, state |-> "launching", active |-> TRUE, since |-> 0,
                outcome |-> 0]

\* CodexRuntime.register, with the first attempt.
Register ==
    /\ Free /\ owner /\ rec = NoRecord
    /\ rec' = FirstRecord
    /\ UNCHANGED <<world, truth, event, call, conversation>>

\* A launch has no answer yet. The session can already ask for its job's status.
Launching == rec # NoRecord /\ truth[1] = "none"

\* The launch is acknowledged; it saves its own copy of the record, whatever was
\* saved meanwhile.
LaunchRunning ==
    /\ Free /\ owner /\ Launching
    /\ truth' = [truth EXCEPT ![1] = "running"]
    /\ SaveThen([FirstRecord EXCEPT !.state = "running"], NoCall)
    /\ UNCHANGED conversation

\* _record_prestart_failure, whose result is its own.
LaunchFails ==
    /\ Free /\ owner /\ Launching
    /\ truth' = [truth EXCEPT ![1] = "result"]
    /\ SaveThen([FirstRecord EXCEPT !.state = "result", !.active = FALSE, !.outcome = 1],
                NoCall)
    /\ UNCHANGED conversation

\* No reply, or no backend: the program may run all the same.
LaunchLost ==
    /\ Launching
    /\ truth' = [truth EXCEPT ![1] = "running"]
    /\ UNCHANGED <<world, rec, event, call, conversation>>

ProgramEnds(a) ==
    /\ truth[a] = "running"
    /\ truth' = [truth EXCEPT ![a] = "gone"]
    /\ UNCHANGED <<world, rec, event, call, conversation>>

ResultVisible(a) ==
    /\ truth[a] = "gone"
    /\ truth' = [truth EXCEPT ![a] = "result"]
    /\ UNCHANGED <<world, rec, event, call, conversation>>

\* What an inspection and a look for the result can find.
Verdicts == IF ~rec.active THEN {"none"}
            ELSE IF Ended(rec.att) THEN {"gone", "unknown"}
            ELSE IF truth[rec.att] = "running" THEN {"alive", "unknown"}
            ELSE {"unknown"}

Outcomes == {rec.outcome} \cup {a \in {rec.att} : truth[a] = "result"}

\* The record a status answer saves.
Checked(verdict, outcome) ==
    [rec EXCEPT !.outcome = outcome,
        !.state = IF outcome # 0 THEN "result"
                  ELSE IF verdict = "alive" THEN "running"
                  ELSE IF verdict = "unknown" THEN "launch_unknown"
                  ELSE IF verdict = "none" /\ rec.state = "finished" THEN "finished"
                  ELSE "gone_unknown"]

\* A status answer may also free the GPU, and then goes on with the call next.
Check(next) ==
    /\ rec.state # "none"
    /\ \E verdict \in Verdicts, outcome \in Outcomes :
        LET record == Checked(verdict, outcome)
            frees == record.state = "result" /\ record.active /\ verdict = "gone"
        IN \E released \in {FALSE, frees} :
              SaveThen(record, IF released THEN [next EXCEPT !.pc = "release"] ELSE next)
    /\ UNCHANGED <<truth, conversation>>

\* By the owner, or by the monitor.
StatusCheck == Free /\ Check(NoCall)

\* Bound: a notice that is in the table already is no new one.
MayNote(e) ==
    Cardinality({f \in DOMAIN event \cup {e} : f[2] \in Notices}) <= MaxNotices

\* The monitor, having seen the program run, leaves a notice.
PollCheck ==
    /\ "poll" \in Notices
    /\ Free /\ owner
    /\ rec.active /\ rec.outcome = 0 /\ truth[rec.att] = "running"
    /\ MayNote(<<rec.att, "poll", clock>>)
    /\ rec' = Stamped(Checked("alive", 0))
    /\ event' = Noted(<<rec.att, "poll", clock>>, SavedAndCleared(rec'))
    /\ UNCHANGED <<world, truth, call, conversation>>

\* The reservation is gone; the record says so. A finish reads the result once
\* more; a release by the delivery thread goes on with the delivery.
Release ==
    /\ call.pc = "release"
    /\ \E outcome \in Outcomes :
        SaveThen([rec EXCEPT !.active = FALSE, !.outcome = outcome,
                             !.state = IF outcome # 0 THEN "result" ELSE @],
                 IF call.e = NoEvent THEN NoCall ELSE [call EXCEPT !.pc = "prepare"])
    /\ UNCHANGED <<truth, conversation>>

MayChange == Free /\ owner /\ rec.active /\ rec.state # "launching" /\ Ended(rec.att)

\* finish: the result, if any, stays in the record.
Finish ==
    /\ MayChange
    /\ \E pc \in {"release", "idle"} :
        SaveThen([rec EXCEPT !.state = "finished"], [NoCall EXCEPT !.pc = pc])
    /\ UNCHANGED <<truth, conversation>>

\* retry: the pending record is the former one with a new attempt.
Retry ==
    /\ MayChange
    /\ rec.att < MaxAttempts
    /\ SaveThen([rec EXCEPT !.att = @ + 1],
                [pc |-> "start", e |-> NoEvent, prev |-> "none", source |-> rec])
    /\ UNCHANGED <<truth, conversation>>

RetryStarts ==
    /\ call.pc = "start"
    /\ truth' = [truth EXCEPT ![rec.att] = "running"]
    /\ \/ SaveThen(rec, NoCall)
       \/ call' = NoCall /\ UNCHANGED <<world, rec, event>>    \* no reply
    /\ UNCHANGED conversation

\* The claim or the start fails: the former record comes back, or stays away
\* when that save fails too.
RetryFails ==
    /\ call.pc = "start"
    /\ \/ SaveThen(call.source, NoCall)
       \/ call' = NoCall /\ UNCHANGED <<world, rec, event>>
    /\ UNCHANGED <<truth, conversation>>

\* CodexRuntime.alert, and the notice that the owning backend has gone. The
\* monitor decides on the record it listed when its pass began; only the attempt
\* is compared again with the job's lock.
Alert ==
    /\ "alert" \in Notices
    /\ Free /\ rec.att # 0
    /\ MayNote(<<rec.att, "alert", 0>>)
    /\ event' = Noted(<<rec.att, "alert", 0>>, event)
    /\ UNCHANGED <<world, truth, rec, call, conversation>>

-----------------------------------------------------------------------------
(* deliver_once and DaemonClient.deliver, under the job's lock.             *)

SetEvent(e, state) == event' = [event EXCEPT ![e] = state]

\* Mutant: what the list of pending events said is enough.
ListedEvent(e) == event[e] \in Deliverable

\* The event is still to be delivered and names the present attempt; an
\* uncertainty has had its grace.
MayDeliver(e) ==
    /\ event[e] \in Deliverable
    /\ e[1] = rec.att
    /\ e[2] \in Uncertain /\ event[e] = "unsent" => rec.since < clock

Delivering(e) == [pc |-> "prepare", e |-> e, prev |-> event[e], source |-> NoRecord]

\* An unsent uncertainty is verified once more before it is sent.
DeliverBegin(e) ==
    /\ Free /\ MayDeliver(e)
    /\ IF e[2] \in Uncertain /\ event[e] = "unsent"
       THEN Check(Delivering(e))
       ELSE /\ call' = Delivering(e)
            /\ UNCHANGED <<world, truth, rec, event, conversation>>

DeliveryEnds(state) ==
    /\ SetEvent(call.e, state)
    /\ call' = NoCall
    /\ UNCHANGED <<world, truth, rec, asked>>

\* The verification raises after its saves, the preparation fails, or a poll
\* finds its conversation idle: the event is as it was found.
DeliveryFails ==
    /\ call.pc = "prepare" \/ (call.pc = "release" /\ call.e # NoEvent)
    /\ DeliveryEnds(call.prev)
    /\ UNCHANGED inbox

\* The verification has settled the uncertainty.
DeliveryMoot ==
    /\ call.pc = "prepare" /\ event[call.e] \notin Deliverable
    /\ call' = NoCall
    /\ UNCHANGED <<world, truth, rec, event, conversation>>

Preparing == call.pc = "prepare" /\ event[call.e] \in Deliverable

\* An archived conversation, whatever the state of the delivery, gets nothing:
\* the event is kept, as archived.
KeepArchived ==
    /\ Preparing
    /\ SetAside \/ event[call.e] = "unsent"
    /\ DeliveryEnds("unsent")
    /\ UNCHANGED inbox

\* A delivery in doubt is looked up in the conversation's history, which is
\* searched within bounds; it is never sent again.
LookUpReceipt ==
    /\ Preparing /\ event[call.e] = "in_doubt"
    /\ \E found \in {FALSE, BagIn(call.e, inbox)} :
        DeliveryEnds(IF found THEN "accepted" ELSE "in_doubt")
    /\ UNCHANGED inbox

\* Mutant: the intent is not saved before the request leaves.
SendFirst ==
    /\ Preparing /\ event[call.e] = "unsent"
    /\ CallStep("request")
    /\ UNCHANGED <<world, truth, rec, event, conversation>>

\* before_send: the intent is saved before the request leaves.
PrepareSend ==
    /\ Preparing /\ event[call.e] = "unsent"
    /\ SetEvent(call.e, "in_doubt")
    /\ CallStep("request")
    /\ UNCHANGED <<world, truth, rec, conversation>>

Arrive(e) == inbox' = inbox (+) SetToBag({e})

\* Mutant: an event that was refused once is given up.
RefusedDropped ==
    /\ call.pc = "request"
    /\ \/ DeliveryEnds("accepted") /\ Arrive(call.e)
       \/ DeliveryEnds("retired") /\ UNCHANGED inbox
       \/ DeliveryEnds("in_doubt") /\ (Arrive(call.e) \/ UNCHANGED inbox)

\* turn/start or thread/inject_items, and the answer saved: accepted, rejected,
\* or no reply, whether it has arrived or not. When only the save of "accepted"
\* fails, the state the event was found in comes back, and it is sent again.
Request ==
    /\ call.pc = "request"
    /\ \/ DeliveryEnds("accepted") /\ Arrive(call.e)
       \/ DeliveryEnds(call.prev) /\ UNCHANGED inbox
       \/ DeliveryEnds("in_doubt") /\ (Arrive(call.e) \/ UNCHANGED inbox)
       \/ /\ call.e[2] \in Unsaved /\ ~BagIn(call.e, inbox)
          /\ DeliveryEnds(call.prev) /\ Arrive(call.e)

\* retry_notification, with the job's lock.
RetryNotification(e) ==
    /\ Free /\ e[1] = rec.att
    /\ event[e] = "in_doubt"
    /\ BagCardinality(asked) < MaxAsks
    /\ asked' = asked (+) SetToBag({e})
    /\ SetEvent(e, "unsent")
    /\ UNCHANGED <<world, truth, rec, call, inbox>>

-----------------------------------------------------------------------------
(* The surroundings.                                                        *)

Tick ==
    /\ clock < MaxTime
    /\ clock' = clock + 1
    /\ UNCHANGED <<up, owner, crashes, truth, rec, event, call, conversation>>

\* A request may have left.
Crash ==
    /\ Stops
    /\ UNCHANGED inbox \/ (call.pc = "request" /\ Arrive(call.e))
    /\ UNCHANGED <<truth, rec, event, asked>>

Restart ==
    /\ ~up
    /\ up' = TRUE
    /\ UNCHANGED <<owner, crashes, clock, truth, rec, event, call, conversation>>

Next ==
    \/ Register \/ LaunchRunning \/ LaunchFails \/ LaunchLost
    \/ \E a \in Attempt : ProgramEnds(a) \/ ResultVisible(a)
    \/ StatusCheck \/ PollCheck \/ Release
    \/ Finish \/ Retry \/ RetryStarts \/ RetryFails
    \/ Alert
    \/ \E e \in DOMAIN event : DeliverBegin(e) \/ RetryNotification(e)
    \/ DeliveryFails \/ DeliveryMoot \/ KeepArchived \/ LookUpReceipt
    \/ PrepareSend \/ Request
    \/ Tick \/ Crash \/ Restart

Spec == Init /\ [][Next]_vars

\* A call that holds the lock goes on, whatever it meets.
CallGoesOn ==
    \/ Release \/ RetryStarts \/ RetryFails
    \/ DeliveryFails \/ DeliveryMoot \/ KeepArchived \/ LookUpReceipt
    \/ PrepareSend \/ Request

\* The delivery thread visits every event of its list in turn and waits for the
\* job's lock (the monitor rests between its passes, so the lock comes free
\* again and again); its preparation does not fail for ever, the conversation is
\* not archived for ever, nor is every request refused.
Results == {e \in Event : e[2] = "result"}

Fairness ==
    /\ WF_vars(CallGoesOn)
    /\ \A e \in Results :
        /\ SF_vars(e \in DOMAIN event /\ DeliverBegin(e))
        /\ SF_vars(call.e = e /\ PrepareSend)
        /\ SF_vars(call.e = e /\ Request /\ event'[e] # call.prev)

LiveSpec == Spec /\ Fairness

-----------------------------------------------------------------------------
(* Properties.                                                              *)

Copies(e, bag) == IF BagIn(e, bag) THEN bag[e] ELSE 0

\* A conversation gets a notice once, and once more each time its owner asks:
\* crashes, lost replies and the state a failed delivery leaves do not make
\* deliver_once send it again.
AtMostOnce ==
    \A e \in DOMAIN event : Copies(e, inbox) <= 1 + Copies(e, asked)

Arrives(e) == Copies(e, inbox') > Copies(e, inbox)

\* A conversation is told of the present attempt only, although the table keeps
\* the events of former attempts until a later save clears them.
OldAttemptSilent ==
    [][\A e \in DOMAIN event : Arrives(e) => e[1] = rec.att]_vars

\* An uncertainty that a newer observation has settled, or replaced by another,
\* is not announced.
OvertakenNotSent ==
    [][\A e \in DOMAIN event : Arrives(e) /\ e[2] \in Uncertain => rec.state = e[2]]_vars

\* Nothing takes a delivered notice back, and no row leaves the table: else a
\* later save raises and sends it once more.
AcceptedKept ==
    [][\A e \in DOMAIN event :
        /\ e \in DOMAIN event'
        /\ event[e] = "accepted" => event'[e] = "accepted"]_vars

\* A lost reply, with nobody working on it.
LeftInDoubt(e) == State(e) = "in_doubt" /\ call.e # e

\* A result that waits to be told reaches its owner, or a lost reply leaves it in
\* doubt, unless another attempt follows or the backend goes down: no refusal, no
\* other event and no other call makes the delivery thread forget it.
ResultReachesOwner ==
    \A e \in Results :
        (State(e) = "unsent" /\ rec.att = e[1])
            ~> (BagIn(e, inbox) \/ LeftInDoubt(e) \/ rec.att # e[1] \/ ~up)

-----------------------------------------------------------------------------
(* Why a notice arrives once: the inductive invariant of NotificationsProofs. *)

NotYet(e) == Copies(e, inbox) <= Copies(e, asked)

\* What the table says of each event and what its conversation has of it: an
\* event that reads as unsent has not arrived since it was last asked for.
TableSound ==
    /\ IsABag(inbox) /\ IsABag(asked)
    /\ BagToSet(inbox) \subseteq DOMAIN event
    /\ \A e \in DOMAIN event :
        /\ Copies(e, inbox) <= 1 + Copies(e, asked)
        /\ event[e] = "unsent" => NotYet(e)

\* A call that has an event in hand.
InHand == call.pc \in {"prepare", "request"} \/ (call.pc = "release" /\ call.e # NoEvent)

\* The state such a call goes back to when it fails is still true: either the
\* event has not arrived, or the table says that it may have.
CallSound ==
    /\ call = [pc |-> call.pc, e |-> call.e, prev |-> call.prev, source |-> call.source]
    /\ InHand =>
        /\ call.e \in DOMAIN event
        /\ call.prev \in Deliverable
        /\ call.prev = "unsent" => NotYet(call.e)
        /\ call.pc # "prepare" => call.prev = "unsent"
        /\ call.prev = "in_doubt" \/ call.pc = "request" => event[call.e] = "in_doubt"

\* What failed deliveries restore, crashes leave and saves retire never makes an
\* event that may have arrived read as unsent.
OnceInv == TableSound /\ CallSound

=============================================================================
