-------------------------- MODULE NotificationsProofs --------------------------
(***************************************************************************)
(* Proofs about notices, for any number of attempts, times, crashes,       *)
(* notices and repeated requests of the owner.                             *)
(*                                                                         *)
(* OnceInv: a conversation gets a notice once, as long as it is not        *)
(* archived while a delivery is in doubt and positive answers are saved.   *)
(* Known, which needs no such condition: the types, and what a delivery    *)
(* under way knows of its event; from it, that former attempts and         *)
(* overtaken uncertainties stay silent, and that a delivered notice stays  *)
(* delivered.                                                              *)
(***************************************************************************)
EXTENDS Notifications, TLAPS

-----------------------------------------------------------------------------
(* Bags.                                                                    *)

\* A bag counts in natural numbers.
LEMMA CopiesNat ==
    ASSUME NEW B, IsABag(B), NEW e
    PROVE  Copies(e, B) \in Nat
  BY DEF IsABag, Copies, BagIn, BagToSet

\* One more copy of one element.
LEMMA OneMore ==
    ASSUME NEW B, IsABag(B), NEW e
    PROVE  /\ IsABag(B (+) SetToBag({e}))
           /\ BagToSet(B (+) SetToBag({e})) = BagToSet(B) \cup {e}
           /\ Copies(e, B (+) SetToBag({e})) = Copies(e, B) + 1
           /\ \A f : f # e => Copies(f, B (+) SetToBag({e})) = Copies(f, B)
<1> DEFINE C == B (+) SetToBag({e})
<1>1. \A f \in DOMAIN B : B[f] \in Nat /\ B[f] > 0
  BY DEF IsABag
<1>2. C = [f \in DOMAIN B \cup {e} |->
              (IF f \in DOMAIN B THEN B[f] ELSE 0) + (IF f \in {e} THEN 1 ELSE 0)]
  BY DEF (+), SetToBag
<1> HIDE DEF C
<1>3. \A f \in DOMAIN C : C[f] \in Nat /\ C[f] > 0
  BY <1>1, <1>2
<1>4. IsABag(C)
  BY <1>2, <1>3 DEF IsABag
<1>5. Copies(e, C) = Copies(e, B) + 1
  BY <1>1, <1>2 DEF Copies, BagIn, BagToSet
<1>6. \A f : f # e => Copies(f, C) = Copies(f, B)
  BY <1>1, <1>2 DEF Copies, BagIn, BagToSet
<1>7. BagToSet(C) = BagToSet(B) \cup {e}
  BY <1>2 DEF BagToSet
<1> QED
  BY <1>4, <1>5, <1>6, <1>7 DEF C

-----------------------------------------------------------------------------
(* The table.                                                               *)

\* Rows are retired and added, nothing else.
Kept(t, u) == DOMAIN t \subseteq DOMAIN u /\ \A e \in DOMAIN t : u[e] \in {t[e], "retired"}

\* A save retires and raises events.
LEMMA SavedKeeps ==
    ASSUME NEW record
    PROVE  Kept(event, Saved(record)) /\ Kept(event, SavedAndCleared(record))
<1> DEFINE s == Saved(record)
<1>1. s = [e \in DOMAIN event \cup Raised(record) |->
              IF e \notin DOMAIN event THEN "unsent"
              ELSE IF Retired(record, e) THEN "retired" ELSE event[e]]
  BY DEF Saved
<1>2. SavedAndCleared(record) =
        [e \in DOMAIN s |-> IF Cleared(s[e], e, record) THEN "retired" ELSE s[e]]
  BY DEF SavedAndCleared
<1> HIDE DEF s
<1>3. Kept(event, s)
  BY <1>1 DEF Kept
<1>4. Kept(event, SavedAndCleared(record))
  BY <1>2, <1>3 DEF Kept
<1> QED
  BY <1>3, <1>4 DEF s

\* A notice retires and adds events.
LEMMA NotedKeeps ==
    ASSUME NEW e, NEW table, Kept(event, table)
    PROVE  Kept(event, Noted(e, table))
  BY DEF Noted, Kept

\* Retiring and adding rows keeps the table true: what is added has not arrived.
LEMMA KeptSound ==
    ASSUME TableSound, Kept(event, event'), UNCHANGED <<inbox, asked>>
    PROVE  TableSound'
<1>1. \A e \in DOMAIN event' \ DOMAIN event : Copies(e, inbox) = 0
  BY DEF TableSound, Copies, BagIn
<1>2. \A e : Copies(e, inbox) \in Nat /\ Copies(e, asked) \in Nat
  BY CopiesNat DEF TableSound
<1>3. IsABag(inbox') /\ IsABag(asked') /\ BagToSet(inbox') \subseteq DOMAIN event'
  BY DEF TableSound, Kept
<1>4. ASSUME NEW e \in DOMAIN event'
      PROVE  /\ Copies(e, inbox) <= 1 + Copies(e, asked)
             /\ event'[e] = "unsent" => Copies(e, inbox) <= Copies(e, asked)
  BY <1>1, <1>2 DEF TableSound, Kept, NotYet
<1> QED
  BY <1>3, <1>4 DEF TableSound, NotYet

\* So does the state a delivery leaves, if "unsent" is true of it.
LEMMA SetSound ==
    ASSUME TableSound, NEW e \in DOMAIN event, NEW s, SetEvent(e, s),
           UNCHANGED <<inbox, asked>>, s = "unsent" => NotYet(e)
    PROVE  TableSound'
<1>1. DOMAIN event' = DOMAIN event /\ event'[e] = s
      /\ \A f \in DOMAIN event \ {e} : event'[f] = event[f]
  BY DEF SetEvent
<1> QED
  BY <1>1 DEF TableSound, NotYet

\* A save in the middle of a call, and what the call does next.
LEMMA SaveThenSound ==
    ASSUME TableSound, NEW record, NEW next, SaveThen(record, next), UNCHANGED conversation
    PROVE  /\ TableSound'
           /\ Kept(event, event')
           /\ call' = next \/ call' = NoCall
<1>1. event' = SavedAndCleared(rec') \/ event' = Saved(rec')
  BY DEF SaveThen
<1>2. Kept(event, event')
  BY <1>1, SavedKeeps
<1>3. UNCHANGED <<inbox, asked>>
  BY DEF conversation
<1>4. TableSound'
  BY <1>2, <1>3, KeptSound
<1> QED
  BY <1>2, <1>4 DEF SaveThen, Stops

-----------------------------------------------------------------------------
(* Steps.                                                                   *)

\* A call that is not in hand of an event is sound.
LEMMA OtherCall ==
    ASSUME call' = [pc |-> call'.pc, e |-> call'.e, prev |-> call'.prev,
                    source |-> call'.source],
           call'.pc \in {"idle", "release", "start"},
           call'.pc = "release" => call'.e = NoEvent
    PROVE  CallSound'
  BY DEF CallSound, InHand

\* The lock is free.
LEMMA NoCallSound ==
    ASSUME call' = NoCall
    PROVE  CallSound'
<1>1. call'.pc = "idle"
  BY DEF NoCall
<1>2. call' = [pc |-> call'.pc, e |-> call'.e, prev |-> call'.prev,
               source |-> call'.source]
  BY DEF NoCall
<1> QED
  BY <1>1, <1>2, OtherCall

\* Nothing that the invariant speaks of changes.
LEMMA Unchanged ==
    ASSUME OnceInv, UNCHANGED <<event, call, inbox, asked>>
    PROVE  OnceInv'
  BY DEF OnceInv, TableSound, CallSound, InHand, NotYet

\* A status answer, which is in the middle of a delivery or not.
LEMMA CheckSound ==
    ASSUME TableSound, NEW next, Check(next),
           next = [pc |-> next.pc, e |-> next.e, prev |-> next.prev, source |-> next.source],
           \/ next = NoCall
           \/ next.pc = "prepare" /\ next.e \in DOMAIN event /\ next.prev = "unsent" /\ NotYet(next.e)
    PROVE  OnceInv'
<1>1. PICK record, after : /\ SaveThen(record, after)
                           /\ after \in {next, [next EXCEPT !.pc = "release"]}
  <2>1. PICK verdict \in Verdicts, outcome \in Outcomes :
          LET record == Checked(verdict, outcome)
              frees == record.state = "result" /\ record.active /\ verdict = "gone"
          IN \E released \in {FALSE, frees} :
                SaveThen(record, IF released THEN [next EXCEPT !.pc = "release"] ELSE next)
    BY DEF Check
  <2> QED
    BY <2>1, Zenon
<1>2. UNCHANGED conversation
  BY DEF Check
<1>3. /\ TableSound' /\ Kept(event, event')
      /\ call' = after \/ call' = NoCall
  BY <1>1, <1>2, SaveThenSound
<1>4. CASE call' = NoCall
  BY <1>3, <1>4, NoCallSound DEF OnceInv
<1>5. CASE call' = next
  <2>1. CASE next = NoCall
    BY <1>5, <1>3, <2>1, NoCallSound DEF OnceInv
  <2>2. CASE next.pc = "prepare" /\ next.e \in DOMAIN event /\ next.prev = "unsent" /\ NotYet(next.e)
    <3>1. NotYet(next.e)'
      BY <1>2, <2>2, <1>5 DEF conversation, NotYet
    <3>2. call'.e \in DOMAIN event'
      BY <1>3, <1>5, <2>2 DEF Kept
    <3> QED
      BY <1>3, <1>5, <2>2, <3>1, <3>2 DEF OnceInv, CallSound, InHand, Deliverable
  <2> QED
    BY <2>1, <2>2
<1>6. CASE call' = [next EXCEPT !.pc = "release"]
  <2>1. call' = [pc |-> "release", e |-> next.e, prev |-> next.prev, source |-> next.source]
    BY <1>6
  <2>2. CASE next = NoCall
    BY <1>3, <2>1, <2>2, OtherCall DEF OnceInv, NoCall
  <2>3. CASE next.pc = "prepare" /\ next.e \in DOMAIN event /\ next.prev = "unsent" /\ NotYet(next.e)
    <3>1. NotYet(next.e)'
      BY <1>2, <2>1, <2>3 DEF conversation, NotYet
    <3>2. call'.e \in DOMAIN event'
      BY <1>3, <2>1, <2>3 DEF Kept
    <3> QED
      BY <1>3, <2>1, <2>3, <3>1, <3>2 DEF OnceInv, CallSound, InHand, Deliverable
  <2> QED
    BY <2>2, <2>3
<1> QED
  BY <1>1, <1>3, <1>4, <1>5, <1>6

\* A save by a call that has no event in hand, or has just let it go.
LEMMA PlainSave ==
    ASSUME TableSound, NEW record, NEW next, SaveThen(record, next), UNCHANGED conversation,
           next = [pc |-> next.pc, e |-> next.e, prev |-> next.prev, source |-> next.source],
           next.pc \in {"idle", "release", "start"},
           next.pc = "release" => next.e = NoEvent
    PROVE  OnceInv'
<1>1. TableSound' /\ (call' = next \/ call' = NoCall)
  BY SaveThenSound
<1>2. CASE call' = NoCall
  BY <1>1, <1>2, NoCallSound DEF OnceInv
<1>3. CASE call' = next
  <2>1. CallSound'
    BY <1>3, OtherCall
  <2> QED
    BY <1>1, <2>1 DEF OnceInv
<1> QED
  BY <1>1, <1>2, <1>3

\* A save that ends its call.
LEMMA LastSave ==
    ASSUME TableSound, NEW record, SaveThen(record, NoCall), UNCHANGED conversation
    PROVE  OnceInv'
<1>1. TableSound' /\ call' = NoCall
  BY SaveThenSound
<1> QED
  BY <1>1, NoCallSound DEF OnceInv

\* The launch.
LEMMA LaunchSteps ==
    ASSUME OnceInv, Register \/ LaunchRunning \/ LaunchFails \/ LaunchLost
    PROVE  OnceInv'
<1>1. CASE Register
  BY <1>1, Unchanged DEF Register, conversation
<1>2. CASE LaunchRunning
  BY <1>2, LastSave DEF LaunchRunning, OnceInv
<1>3. CASE LaunchFails
  BY <1>3, LastSave DEF LaunchFails, OnceInv
<1>4. CASE LaunchLost
  BY <1>4, Unchanged DEF LaunchLost, conversation
<1> QED
  BY <1>1, <1>2, <1>3, <1>4

\* The second half of a release, alone or in the middle of a delivery.
LEMMA ReleaseStep ==
    ASSUME OnceInv, Release
    PROVE  OnceInv'
<1>1. PICK outcome \in Outcomes :
        SaveThen([rec EXCEPT !.active = FALSE, !.outcome = outcome,
                             !.state = IF outcome # 0 THEN "result" ELSE @],
                 IF call.e = NoEvent THEN NoCall ELSE [call EXCEPT !.pc = "prepare"])
  BY DEF Release
<1>2. UNCHANGED conversation /\ call.pc = "release"
  BY DEF Release
<1>3. /\ TableSound' /\ Kept(event, event')
      /\ \/ call' = (IF call.e = NoEvent THEN NoCall ELSE [call EXCEPT !.pc = "prepare"])
         \/ call' = NoCall
  BY <1>1, <1>2, SaveThenSound DEF OnceInv
<1>4. CASE call' = NoCall
  BY <1>3, <1>4, NoCallSound DEF OnceInv
<1>5. CASE call.e # NoEvent /\ call' = [call EXCEPT !.pc = "prepare"]
  <2>1. call' = [pc |-> "prepare", e |-> call.e, prev |-> call.prev, source |-> call.source]
    BY <1>5 DEF OnceInv, CallSound
  <2>2. /\ call.e \in DOMAIN event /\ call.prev \in Deliverable
        /\ NotYet(call.e) /\ call.prev = "unsent"
    BY <1>2, <1>5 DEF OnceInv, CallSound, InHand
  <2>3. call'.e \in DOMAIN event'
    BY <1>3, <2>1, <2>2 DEF Kept
  <2>4. NotYet(call.e)' 
    BY <1>2, <2>1, <2>2 DEF conversation, NotYet
  <2> QED
    BY <1>3, <2>1, <2>2, <2>3, <2>4 DEF OnceInv, CallSound, InHand
<1> QED
  BY <1>3, <1>4, <1>5

\* finish and retry.
LEMMA ChangeSteps ==
    ASSUME OnceInv, Finish \/ Retry \/ RetryStarts \/ RetryFails
    PROVE  OnceInv'
<1>1. CASE Finish
  <2>1. PICK pc \in {"release", "idle"} :
          SaveThen([rec EXCEPT !.state = "finished"], [NoCall EXCEPT !.pc = pc])
    BY <1>1 DEF Finish
  <2> DEFINE next == [NoCall EXCEPT !.pc = pc]
  <2>2. next = [pc |-> pc, e |-> NoEvent, prev |-> "none", source |-> NoRecord]
    BY DEF NoCall
  <2> HIDE DEF next
  <2>3. SaveThen([rec EXCEPT !.state = "finished"], next) /\ UNCHANGED conversation
    BY <1>1, <2>1 DEF Finish, next
  <2> QED
    BY <2>2, <2>3, PlainSave DEF OnceInv
<1>2. CASE Retry
  <2> DEFINE next == [pc |-> "start", e |-> NoEvent, prev |-> "none", source |-> rec]
  <2>1. next = [pc |-> next.pc, e |-> next.e, prev |-> next.prev, source |-> next.source]
        /\ next.pc = "start"
    OBVIOUS
  <2>2. SaveThen([rec EXCEPT !.att = @ + 1], next) /\ UNCHANGED conversation
    BY <1>2 DEF Retry
  <2> HIDE DEF next
  <2> QED
    BY <2>1, <2>2, PlainSave DEF OnceInv
<1>3. CASE RetryStarts
  <2>1. CASE SaveThen(rec, NoCall)
    BY <1>3, <2>1, LastSave DEF RetryStarts, OnceInv
  <2>2. CASE call' = NoCall /\ UNCHANGED <<world, rec, event>>
    <3>1. TableSound'
      BY <1>3, <2>2 DEF RetryStarts, conversation, OnceInv, TableSound, NotYet
    <3> QED
      BY <2>2, <3>1, NoCallSound DEF OnceInv
  <2> QED
    BY <1>3, <2>1, <2>2 DEF RetryStarts
<1>4. CASE RetryFails
  <2>1. CASE SaveThen(call.source, NoCall)
    BY <1>4, <2>1, LastSave DEF RetryFails, OnceInv
  <2>2. CASE call' = NoCall /\ UNCHANGED <<world, rec, event>>
    <3>1. TableSound'
      BY <1>4, <2>2 DEF RetryFails, conversation, OnceInv, TableSound, NotYet
    <3> QED
      BY <2>2, <3>1, NoCallSound DEF OnceInv
  <2> QED
    BY <1>4, <2>1, <2>2 DEF RetryFails
<1> QED
  BY <1>1, <1>2, <1>3, <1>4

\* Checks and notices outside a delivery.
LEMMA CheckSteps ==
    ASSUME OnceInv, StatusCheck \/ PollCheck \/ Alert
    PROVE  OnceInv'
<1>1. CASE StatusCheck
  <2>1. NoCall = [pc |-> NoCall.pc, e |-> NoCall.e, prev |-> NoCall.prev,
                  source |-> NoCall.source]
    BY DEF NoCall
  <2> QED
    BY <1>1, <2>1, CheckSound DEF StatusCheck, OnceInv
<1>2. CASE PollCheck \/ Alert
  <2>1. Kept(event, SavedAndCleared(rec'))
    BY SavedKeeps
  <2>2. Kept(event, event)
    BY DEF Kept
  <2>3. Kept(event, event')
    BY <1>2, <2>1, <2>2, NotedKeeps DEF PollCheck, Alert
  <2>4. UNCHANGED <<call, inbox, asked>> /\ call.pc = "idle"
    BY <1>2 DEF PollCheck, Alert, Free, conversation
  <2>5. TableSound'
    BY <2>3, <2>4, KeptSound DEF OnceInv
  <2>6. CallSound'
    BY <2>4 DEF OnceInv, CallSound, InHand
  <2> QED
    BY <2>5, <2>6 DEF OnceInv
<1> QED
  BY <1>1, <1>2

\* The delivery thread takes up an event.
LEMMA DeliverBeginStep ==
    ASSUME OnceInv, NEW e \in DOMAIN event, DeliverBegin(e)
    PROVE  OnceInv'
<1>1. event[e] \in Deliverable
  BY DEF DeliverBegin, MayDeliver
<1>2. Delivering(e) = [pc |-> Delivering(e).pc, e |-> Delivering(e).e,
                       prev |-> Delivering(e).prev, source |-> Delivering(e).source]
      /\ Delivering(e).pc = "prepare" /\ Delivering(e).e = e
      /\ Delivering(e).prev = event[e]
  BY DEF Delivering
<1>3. event[e] = "unsent" => NotYet(e)
  BY DEF OnceInv, TableSound
<1>4. CASE e[2] \in Uncertain /\ event[e] = "unsent"
  <2>1. Check(Delivering(e))
    BY <1>4 DEF DeliverBegin
  <2> QED
    BY <1>2, <1>3, <1>4, <2>1, CheckSound DEF OnceInv
<1>5. CASE ~(e[2] \in Uncertain /\ event[e] = "unsent")
  <2>1. call' = Delivering(e) /\ UNCHANGED <<event, inbox, asked>>
    BY <1>5 DEF DeliverBegin, conversation
  <2>2. TableSound'
    BY <2>1 DEF OnceInv, TableSound, NotYet
  <2>3. CallSound'
    BY <1>1, <1>2, <1>3, <2>1 DEF CallSound, InHand, NotYet, Deliverable
  <2> QED
    BY <2>2, <2>3 DEF OnceInv
<1> QED
  BY <1>4, <1>5

\* The delivery ends without a request.
LEMMA NotSentSteps ==
    ASSUME OnceInv, ~SetAside,
           DeliveryFails \/ DeliveryMoot \/ KeepArchived \/ LookUpReceipt
    PROVE  OnceInv'
<1>1. CASE DeliveryFails \/ KeepArchived \/ LookUpReceipt
  <2>1. PICK s : /\ DeliveryEnds(s) /\ UNCHANGED inbox
                 /\ s = "unsent" => NotYet(call.e)
    <3>1. CASE DeliveryFails
      BY <3>1 DEF DeliveryFails, OnceInv, CallSound, InHand
    <3>2. CASE KeepArchived
      BY <3>2 DEF KeepArchived, Preparing, OnceInv, CallSound, InHand, TableSound
    <3>3. CASE LookUpReceipt
      BY <3>3 DEF LookUpReceipt
    <3> QED
      BY <1>1, <3>1, <3>2, <3>3
  <2>2. call.e \in DOMAIN event
    BY <1>1 DEF DeliveryFails, KeepArchived, LookUpReceipt, Preparing, OnceInv, CallSound, InHand
  <2>3. SetEvent(call.e, s) /\ call' = NoCall /\ UNCHANGED asked
    BY <2>1 DEF DeliveryEnds
  <2>4. TableSound'
    BY <2>1, <2>2, <2>3, SetSound DEF OnceInv
  <2> QED
    BY <2>3, <2>4, NoCallSound DEF OnceInv
<1>2. CASE DeliveryMoot
  <2>1. TableSound'
    BY <1>2 DEF DeliveryMoot, conversation, OnceInv, TableSound, NotYet
  <2> QED
    BY <1>2, <2>1, NoCallSound DEF DeliveryMoot, OnceInv
<1> QED
  BY <1>1, <1>2

\* The intent is saved while the event has not arrived.
LEMMA PrepareSendStep ==
    ASSUME OnceInv, PrepareSend
    PROVE  OnceInv'
<1>1. /\ call.e \in DOMAIN event /\ call.prev = "unsent" /\ NotYet(call.e)
  BY DEF PrepareSend, Preparing, OnceInv, CallSound, InHand, Deliverable
<1>2. SetEvent(call.e, "in_doubt") /\ UNCHANGED <<inbox, asked>>
  BY DEF PrepareSend, conversation
<1>3. TableSound'
  BY <1>1, <1>2, SetSound DEF OnceInv
<1>4. call' = [pc |-> "request", e |-> call.e, prev |-> call.prev, source |-> call.source]
  BY DEF PrepareSend, CallStep, OnceInv, CallSound
<1>5. DOMAIN event' = DOMAIN event /\ event'[call.e] = "in_doubt"
  BY <1>1, <1>2 DEF SetEvent
<1>6. CallSound'
  BY <1>1, <1>2, <1>4, <1>5 DEF CallSound, InHand, Deliverable, NotYet
<1> QED
  BY <1>3, <1>6 DEF OnceInv

\* One arrival of an event that had not arrived, and is no longer unsent.
LEMMA ArriveSound ==
    ASSUME TableSound, NEW e \in DOMAIN event, NotYet(e), Arrive(e), UNCHANGED asked,
           DOMAIN event' = DOMAIN event,
           \A f \in DOMAIN event \ {e} : event'[f] = event[f],
           event'[e] # "unsent"
    PROVE  TableSound'
<1>1. /\ IsABag(inbox')
      /\ BagToSet(inbox') = BagToSet(inbox) \cup {e}
      /\ Copies(e, inbox') = Copies(e, inbox) + 1
      /\ \A f : f # e => Copies(f, inbox') = Copies(f, inbox)
  BY OneMore DEF Arrive, TableSound
<1>2. \A f : Copies(f, inbox) \in Nat /\ Copies(f, asked) \in Nat
  BY CopiesNat DEF TableSound
<1>3. ASSUME NEW f \in DOMAIN event'
      PROVE  /\ Copies(f, inbox') <= 1 + Copies(f, asked)
             /\ event'[f] = "unsent" => Copies(f, inbox') <= Copies(f, asked)
  BY <1>1, <1>2 DEF TableSound, NotYet
<1> QED
  BY <1>1, <1>3 DEF TableSound, NotYet

\* The request and its answer.
LEMMA RequestStep ==
    ASSUME OnceInv, Unsaved = {}, Request
    PROVE  OnceInv'
<1>1. /\ call.e \in DOMAIN event /\ call.prev = "unsent" /\ NotYet(call.e)
  BY DEF Request, OnceInv, CallSound, InHand
<1>2. PICK s : /\ DeliveryEnds(s)
               /\ \/ UNCHANGED inbox
                  \/ Arrive(call.e) /\ s # "unsent"
  BY DEF Request
<1>3. SetEvent(call.e, s) /\ call' = NoCall /\ UNCHANGED asked
  BY <1>2 DEF DeliveryEnds
<1>4. CASE UNCHANGED inbox
  BY <1>1, <1>3, <1>4, SetSound, NoCallSound DEF OnceInv
<1>5. CASE Arrive(call.e) /\ s # "unsent"
  <2>1. /\ DOMAIN event' = DOMAIN event
        /\ \A f \in DOMAIN event \ {call.e} : event'[f] = event[f]
        /\ event'[call.e] # "unsent"
    BY <1>1, <1>3, <1>5 DEF SetEvent
  <2>2. TableSound'
    BY <1>1, <1>3, <1>5, <2>1, ArriveSound DEF OnceInv
  <2> QED
    BY <1>3, <2>2, NoCallSound DEF OnceInv
<1> QED
  BY <1>2, <1>4, <1>5

\* The owner asks again: what it has is covered by what it has asked for.
LEMMA RetryNotificationStep ==
    ASSUME OnceInv, NEW e \in DOMAIN event, RetryNotification(e)
    PROVE  OnceInv'
<1>1. /\ event' = [event EXCEPT ![e] = "unsent"]
      /\ asked' = asked (+) SetToBag({e}) /\ UNCHANGED <<inbox, call>>
      /\ call.pc = "idle"
  BY DEF RetryNotification, SetEvent, Free
<1>2. /\ IsABag(asked')
      /\ Copies(e, asked') = Copies(e, asked) + 1
      /\ \A f : f # e => Copies(f, asked') = Copies(f, asked)
  BY <1>1, OneMore DEF OnceInv, TableSound
<1>3. \A f : Copies(f, inbox) \in Nat /\ Copies(f, asked) \in Nat
  BY CopiesNat DEF OnceInv, TableSound
<1>4. ASSUME NEW f \in DOMAIN event'
      PROVE  /\ Copies(f, inbox') <= 1 + Copies(f, asked')
             /\ event'[f] = "unsent" => Copies(f, inbox') <= Copies(f, asked')
  <2>1. CASE f = e
    <3>1. Copies(e, inbox) <= 1 + Copies(e, asked)
      BY DEF OnceInv, TableSound
    <3> QED
      BY <1>1, <1>2, <1>3, <2>1, <3>1
  <2>2. CASE f # e
    <3>1. f \in DOMAIN event /\ event'[f] = event[f]
      BY <1>1, <2>2
    <3>2. /\ Copies(f, inbox) <= 1 + Copies(f, asked)
          /\ event[f] = "unsent" => Copies(f, inbox) <= Copies(f, asked)
      BY <3>1 DEF OnceInv, TableSound, NotYet
    <3> QED
      BY <1>1, <1>2, <2>2, <3>1, <3>2
  <2> QED
    BY <2>1, <2>2
<1>5. TableSound'
  <2>1. DOMAIN event' = DOMAIN event
    BY <1>1
  <2> QED
    BY <1>1, <1>2, <1>4, <2>1 DEF OnceInv, TableSound, NotYet
<1>6. CallSound'
  BY <1>1 DEF OnceInv, CallSound, InHand
<1> QED
  BY <1>5, <1>6 DEF OnceInv

\* A crash, after which a request may still arrive: its event is in doubt.
LEMMA CrashStep ==
    ASSUME OnceInv, Crash
    PROVE  OnceInv'
<1>1. call' = NoCall /\ UNCHANGED <<event, asked>>
  BY DEF Crash, Stops
<1>2. CASE UNCHANGED inbox
  <2>1. TableSound'
    BY <1>1, <1>2 DEF OnceInv, TableSound, NotYet
  <2> QED
    BY <1>1, <2>1, NoCallSound DEF OnceInv
<1>3. CASE call.pc = "request" /\ Arrive(call.e)
  <2>1. call.e \in DOMAIN event /\ NotYet(call.e) /\ event[call.e] = "in_doubt"
    BY <1>3 DEF OnceInv, CallSound, InHand
  <2>2. TableSound'
    BY <1>1, <1>3, <2>1, ArriveSound DEF OnceInv
  <2> QED
    BY <1>1, <2>2, NoCallSound DEF OnceInv
<1> QED
  BY <1>2, <1>3 DEF Crash

\* Every step keeps the invariant.
LEMMA StepKeepsInv ==
    ASSUME ~SetAside, Unsaved = {}, OnceInv, [Next]_vars
    PROVE  OnceInv'
<1>1. CASE Register \/ LaunchRunning \/ LaunchFails \/ LaunchLost
  BY <1>1, LaunchSteps
<1>2. CASE StatusCheck \/ PollCheck \/ Alert
  BY <1>2, CheckSteps
<1>3. CASE Release
  BY <1>3, ReleaseStep
<1>4. CASE Finish \/ Retry \/ RetryStarts \/ RetryFails
  BY <1>4, ChangeSteps
<1>5. CASE \E e \in DOMAIN event : DeliverBegin(e) \/ RetryNotification(e)
  BY <1>5, DeliverBeginStep, RetryNotificationStep
<1>6. CASE DeliveryFails \/ DeliveryMoot \/ KeepArchived \/ LookUpReceipt
  BY <1>6, NotSentSteps
<1>7. CASE PrepareSend \/ Request
  BY <1>7, PrepareSendStep, RequestStep
<1>8. CASE Crash
  BY <1>8, CrashStep
<1>9. CASE \/ \E a \in Attempt : ProgramEnds(a) \/ ResultVisible(a)
           \/ Tick \/ Restart \/ UNCHANGED vars
  BY <1>9, Unchanged DEF ProgramEnds, ResultVisible, Tick, Restart, vars, conversation
<1> QED
  BY <1>1, <1>2, <1>3, <1>4, <1>5, <1>6, <1>7, <1>8, <1>9 DEF Next

\* The invariant holds in every reachable state, if conversations are not
\* archived while a delivery is in doubt and every positive answer is saved.
THEOREM OnceInvariant ==
    ASSUME ~SetAside, Unsaved = {}
    PROVE  Spec => []OnceInv
<1>1. Init => OnceInv
  <2> SUFFICES ASSUME Init PROVE OnceInv
    OBVIOUS
  <2>1. DOMAIN inbox = {} /\ DOMAIN asked = {} /\ DOMAIN event = {}
    BY DEF Init, EmptyBag, SetToBag
  <2>2. IsABag(inbox) /\ IsABag(asked)
    BY DEF Init, EmptyBag, SetToBag, IsABag
  <2>3. CallSound
    BY DEF Init, CallSound, InHand, NoCall
  <2> QED
    BY <2>1, <2>2, <2>3 DEF OnceInv, TableSound, BagToSet
<1>2. OnceInv /\ [Next]_vars => OnceInv'
  BY StepKeepsInv
<1> QED
  BY <1>1, <1>2, PTL DEF Spec

\* A conversation gets a notice once, and once more each time its owner asks.
THEOREM ReceivedOnce ==
    ASSUME ~SetAside, Unsaved = {}
    PROVE  Spec => []AtMostOnce
<1>1. OnceInv => AtMostOnce
  BY DEF OnceInv, TableSound, AtMostOnce
<1> QED
  BY <1>1, OnceInvariant, PTL

-----------------------------------------------------------------------------
(* Types, and what a delivery under way knows.                              *)

\* Before the launch nothing is known of the job, and nothing has happened to it.
RecKnown == rec.att = 0 => rec = NoRecord /\ \A a \in Attempt : truth[a] = "none"

\* A call works on an attempt of the job. The event it has in hand is of the present
\* attempt and not accepted; an uncertainty that would be sent is the job's state.
CallKnown ==
    /\ call.pc # "idle" => rec.att \in Attempt
    /\ call.pc = "start" => call.source.att \in Attempt
    /\ InHand => /\ call.e \in DOMAIN event /\ call.e[1] = rec.att
                 /\ call.prev \in Deliverable /\ event[call.e] # "accepted"
    /\ InHand /\ call.e[2] \in Uncertain /\ (event[call.e] = "unsent" \/ call.pc = "request") =>
          rec.state = call.e[2]

Known == TypeOK /\ RecKnown /\ CallKnown

WorldTyped == up \in BOOLEAN /\ owner \in BOOLEAN /\ crashes \in 0..MaxCrashes /\ clock \in Time
TruthTyped == truth \in [Attempt -> {"none", "running", "gone", "result"}]
TableTyped == DOMAIN event \subseteq Event /\ \A e \in DOMAIN event : event[e] \in EventState
BagsTyped ==
    /\ IsABag(inbox) /\ BagToSet(inbox) \subseteq DOMAIN event
    /\ IsABag(asked) /\ BagToSet(asked) \subseteq DOMAIN event

LEMMA KnownParts ==
    Known <=> /\ WorldTyped /\ TruthTyped /\ rec \in Record /\ TableTyped /\ call \in Call
              /\ BagsTyped /\ RecKnown /\ CallKnown
  BY DEF Known, TypeOK, WorldTyped, TruthTyped, TableTyped, BagsTyped

LEMMA NullFacts ==
    /\ NoRecord \in Record /\ NoRecord.att = 0 /\ NoRecord.state = "none"
    /\ NoRecord.active = FALSE
    /\ NoCall \in Call /\ NoCall.pc = "idle" /\ NoCall.e = NoEvent
    /\ 0 \notin Attempt /\ 1 \in Attempt /\ 0 \in Time
  BY NotificationsAssumption
  DEF NoRecord, NoCall, Record, JobState, Call, CallPc, Attempt, Time

\* No row is lost, and none that was accepted is taken back.
Advances(t, u) ==
    \A e \in DOMAIN t : e \in DOMAIN u /\ (t[e] = "accepted" => u[e] = "accepted")

\* A table in which every uncertainty of the attempt that reads as unsent is the job's state.
Current(t, att, state) ==
    \A e \in DOMAIN t : e[1] = att /\ e[2] \in Uncertain /\ t[e] = "unsent" => e[2] = state

LEMMA RaisedTyped ==
    ASSUME NEW record \in Record, record.att \in Attempt
    PROVE  /\ Raised(record) \subseteq Event
           /\ \A e \in Raised(record) : e[2] = record.state
  <1>1. ASSUME record.state \in Terminal \cup Uncertain PROVE EventOf(record) \in Event
    <2>1. record.state \in Kind /\ record.since \in Time /\ record.state # "alert"
      BY <1>1 DEF Record, Kind, Terminal, Uncertain
    <2>2. record.state \in Terminal => record.state \notin Uncertain
      BY DEF Terminal, Uncertain
    <2> QED
      BY <2>1, <2>2, NullFacts DEF EventOf, Event
  <1> QED
    BY <1>1 DEF Raised, EventOf

\* What a save does to the table.
LEMMA SavedFacts ==
    ASSUME TableTyped, NEW record \in Record, record.att \in Attempt,
           NEW table, table = Saved(record) \/ table = SavedAndCleared(record)
    PROVE  /\ DOMAIN table \subseteq Event /\ \A e \in DOMAIN table : table[e] \in EventState
           /\ Advances(event, table) /\ Current(table, record.att, record.state)
  <1> DEFINE s == Saved(record)
  <1>1. s = [e \in DOMAIN event \cup Raised(record) |->
                IF e \notin DOMAIN event THEN "unsent"
                ELSE IF Retired(record, e) THEN "retired" ELSE event[e]]
    BY DEF Saved
  <1>2. SavedAndCleared(record) =
          [e \in DOMAIN s |-> IF Cleared(s[e], e, record) THEN "retired" ELSE s[e]]
    BY DEF SavedAndCleared
  <1> HIDE DEF s
  <1>3. DOMAIN s \subseteq Event /\ \A e \in DOMAIN s : s[e] \in EventState
    BY <1>1, RaisedTyped DEF TableTyped, EventState
  <1>4. Advances(event, s)
    BY <1>1 DEF Advances, Retired
  <1>5. Current(s, record.att, record.state)
    BY <1>1, RaisedTyped DEF Current, Retired
  <1>6. CASE table = s
    BY <1>3, <1>4, <1>5, <1>6
  <1>7. CASE table = SavedAndCleared(record)
    <2>1. DOMAIN table = DOMAIN s
      BY <1>2, <1>7
    <2>2. \A e \in DOMAIN s : /\ table[e] \in {s[e], "retired"}
                              /\ s[e] = "accepted" => table[e] = "accepted"
      BY <1>2, <1>7 DEF Cleared
    <2> QED
      BY <1>3, <1>4, <1>5, <2>1, <2>2 DEF Advances, Current, EventState
  <1> QED
    BY <1>6, <1>7 DEF s

LEMMA StampedTyped ==
    ASSUME WorldTyped, rec \in Record, NEW record \in Record
    PROVE  /\ Stamped(record) \in Record /\ Stamped(record).att = record.att
           /\ Stamped(record).state = record.state
  <1>1. rec.since \in Time /\ clock \in Time
    BY DEF WorldTyped, Record
  <1> DEFINE since == IF record.state \notin Uncertain THEN 0
                      ELSE IF rec.state \in Uncertain /\ rec.att = record.att THEN rec.since
                      ELSE clock
  <1>2. since \in Time
    BY <1>1, NullFacts
  <1>3. Stamped(record) = [record EXCEPT !.since = since]
    BY DEF Stamped
  <1> HIDE DEF since
  <1> QED
    BY <1>2, <1>3 DEF Record

LEMMA StopsTyped ==
    ASSUME WorldTyped, Stops
    PROVE  WorldTyped' /\ call' = NoCall
  <1>1. crashes' \in 0..MaxCrashes
    BY NotificationsAssumption DEF WorldTyped, Stops
  <1>2. up' \in BOOLEAN /\ owner' \in BOOLEAN
    BY DEF Stops
  <1> QED
    BY <1>1, <1>2 DEF WorldTyped, Stops

\* A save in a call, and what the call does next.
LEMMA SaveThenEffect ==
    ASSUME WorldTyped, rec \in Record, TableTyped, NEW record \in Record,
           record.att \in Attempt, NEW next, SaveThen(record, next)
    PROVE  /\ WorldTyped' /\ rec' \in Record /\ TableTyped'
           /\ rec'.att = record.att /\ rec'.state = record.state
           /\ Kept(event, event') /\ Advances(event, event')
           /\ Current(event', rec'.att, rec'.state)
           /\ call' = next \/ call' = NoCall
  <1>1. rec' \in Record /\ rec'.att = record.att /\ rec'.state = record.state
    BY StampedTyped DEF SaveThen
  <1>2. event' = SavedAndCleared(rec') \/ event' = Saved(rec')
    BY DEF SaveThen
  <1>3. Kept(event, event')
    BY <1>2, SavedKeeps
  <1>4. TableTyped' /\ Advances(event, event') /\ Current(event', rec'.att, rec'.state)
    BY <1>1, <1>2, SavedFacts DEF TableTyped
  <1>5. WorldTyped' /\ (call' = next \/ call' = NoCall)
    BY StopsTyped DEF SaveThen, WorldTyped, world
  <1> QED
    BY <1>1, <1>3, <1>4, <1>5

LEMMA KnownNext ==
    ASSUME WorldTyped', TruthTyped', rec' \in Record, TableTyped', call' \in Call,
           BagsTyped', RecKnown', CallKnown'
    PROVE  Known'
  BY DEF Known, TypeOK, WorldTyped, TruthTyped, TableTyped, BagsTyped

\* What a call knows of the event it takes up.
Takes(next, att) ==
    next.pc = "prepare" \/ (next.pc = "release" /\ next.e # NoEvent) =>
        /\ next.e \in DOMAIN event /\ next.e[1] = att
        /\ next.prev \in Deliverable /\ event[next.e] # "accepted"

LEMMA FreeKnown ==
    ASSUME call' = NoCall
    PROVE  CallKnown' /\ call' \in Call
  BY NullFacts DEF CallKnown, InHand

LEMMA BagsKept ==
    ASSUME BagsTyped, UNCHANGED <<inbox, asked>>, DOMAIN event \subseteq DOMAIN event'
    PROVE  BagsTyped'
  BY DEF BagsTyped

LEMMA SaveKnown ==
    ASSUME Known, NEW record \in Record, record.att \in Attempt, NEW next \in Call,
           SaveThen(record, next), UNCHANGED conversation, TruthTyped',
           next.pc # "request", next.pc = "start" => next.source.att \in Attempt,
           Takes(next, record.att)
    PROVE  Known' /\ Advances(event, event')
  <1>1. /\ WorldTyped' /\ rec' \in Record /\ TableTyped'
        /\ rec'.att = record.att /\ rec'.state = record.state
        /\ Kept(event, event') /\ Advances(event, event')
        /\ Current(event', rec'.att, rec'.state)
        /\ call' = next \/ call' = NoCall
    BY KnownParts, SaveThenEffect
  <1>2. BagsTyped'
    BY <1>1, KnownParts, BagsKept DEF Kept, conversation
  <1>3. RecKnown'
    BY <1>1, NullFacts DEF RecKnown
  <1>4. CallKnown' /\ call' \in Call
    <2>1. CASE call' = NoCall
      BY <2>1, FreeKnown
    <2>2. CASE call' = next
      <3>1. InHand' => /\ next.e \in DOMAIN event' /\ next.e[1] = rec'.att
                       /\ next.prev \in Deliverable /\ event'[next.e] # "accepted"
        BY <1>1, <2>2 DEF InHand, Takes, Kept
      <3>2. InHand' /\ next.e[2] \in Uncertain /\ event'[next.e] = "unsent" =>
                rec'.state = next.e[2]
        BY <1>1, <3>1 DEF Current
      <3> QED
        BY <1>1, <2>2, <3>1, <3>2 DEF CallKnown
    <2> QED
      BY <1>1, <2>1, <2>2
  <1> QED
    BY <1>1, <1>2, <1>3, <1>4, KnownNext

\* A step that leaves the call and the table alone.
LEMMA QuietKnown ==
    ASSUME Known, UNCHANGED <<rec, event, call, inbox, asked>>, WorldTyped', TruthTyped',
           rec.att = 0 => truth' = truth
    PROVE  Known' /\ Advances(event, event')
  <1>1. rec' \in Record /\ TableTyped' /\ call' \in Call /\ BagsTyped'
    BY KnownParts DEF TableTyped, BagsTyped
  <1>2. RecKnown' /\ CallKnown'
    BY KnownParts DEF RecKnown, CallKnown, InHand
  <1>3. Advances(event, event')
    BY DEF Advances
  <1> QED
    BY <1>1, <1>2, <1>3, KnownNext

\* A record that may be checked is of an attempt.
LEMMA Attempted ==
    ASSUME Known, rec # NoRecord \/ rec.state # "none" \/ rec.active
    PROVE  rec \in Record /\ rec.att \in Attempt
  BY KnownParts, NullFacts DEF RecKnown, Record

LEMMA CheckedTyped ==
    ASSUME rec \in Record, NEW verdict, NEW outcome \in Attempt \cup {0}
    PROVE  Checked(verdict, outcome) \in Record /\ Checked(verdict, outcome).att = rec.att
  <1> DEFINE state == IF outcome # 0 THEN "result"
                      ELSE IF verdict = "alive" THEN "running"
                      ELSE IF verdict = "unknown" THEN "launch_unknown"
                      ELSE IF verdict = "none" /\ rec.state = "finished" THEN "finished"
                      ELSE "gone_unknown"
  <1>1. state \in JobState
    BY DEF JobState, Uncertain, Terminal
  <1>2. Checked(verdict, outcome) = [rec EXCEPT !.outcome = outcome, !.state = state]
    BY DEF Checked
  <1> HIDE DEF state
  <1> QED
    BY <1>1, <1>2 DEF Record

LEMMA OutcomesTyped ==
    ASSUME rec \in Record
    PROVE  Outcomes \subseteq Attempt \cup {0}
  BY DEF Outcomes, Record

LEMMA CheckKnown ==
    ASSUME Known, NEW next \in Call, Check(next),
           next = NoCall \/ (next.pc = "prepare" /\ Takes(next, rec.att))
    PROVE  Known' /\ Advances(event, event')
  <1>1. rec \in Record /\ rec.att \in Attempt
    BY Attempted DEF Check
  <1>2. PICK verdict \in Verdicts, outcome \in Outcomes, after \in {next, [next EXCEPT !.pc = "release"]} :
           SaveThen(Checked(verdict, outcome), after)
    <2>1. PICK verdict \in Verdicts, outcome \in Outcomes :
            LET record == Checked(verdict, outcome)
                frees == record.state = "result" /\ record.active /\ verdict = "gone"
            IN \E released \in {FALSE, frees} :
                  SaveThen(record, IF released THEN [next EXCEPT !.pc = "release"] ELSE next)
      BY DEF Check
    <2>2. PICK released : SaveThen(Checked(verdict, outcome),
                                   IF released THEN [next EXCEPT !.pc = "release"] ELSE next)
      BY <2>1, Zenon
    <2> DEFINE after == IF released THEN [next EXCEPT !.pc = "release"] ELSE next
    <2>3. after \in {next, [next EXCEPT !.pc = "release"]}
      BY Zenon
    <2>4. SaveThen(Checked(verdict, outcome), after)
      BY <2>2
    <2> HIDE DEF after
    <2> QED
      BY <2>3, <2>4
  <1>3. Checked(verdict, outcome) \in Record /\ Checked(verdict, outcome).att = rec.att
    BY <1>1, <1>2, CheckedTyped, OutcomesTyped
  <1>4. /\ after \in Call /\ after.pc \notin {"request", "start"}
        /\ Takes(after, rec.att)
    <2>1. /\ [next EXCEPT !.pc = "release"] \in Call
          /\ [next EXCEPT !.pc = "release"].pc = "release"
          /\ [next EXCEPT !.pc = "release"].e = next.e
          /\ [next EXCEPT !.pc = "release"].prev = next.prev
      BY DEF Call, CallPc
    <2> QED
      BY <2>1, NullFacts DEF Takes
  <1>5. UNCHANGED conversation /\ TruthTyped'
    BY KnownParts DEF Check, TruthTyped
  <1> QED
    BY <1>1, <1>2, <1>3, <1>4, <1>5, SaveKnown

LEMMA LaunchKnown ==
    ASSUME Known, Register \/ LaunchRunning \/ LaunchFails \/ LaunchLost
    PROVE  Known' /\ Advances(event, event')
  <1>1. CASE Register
    <2> DEFINE first == FirstRecord
    <2>1. rec' = first /\ UNCHANGED <<world, truth, event, call, conversation>> /\ call.pc = "idle"
      BY <1>1 DEF Register, Free
    <2>2. first \in Record /\ first.att # 0
      BY NullFacts DEF FirstRecord, Record, JobState
    <2> HIDE DEF first
    <2>3. WorldTyped' /\ TruthTyped' /\ TableTyped' /\ call' \in Call /\ BagsTyped'
      BY <2>1, KnownParts DEF WorldTyped, TruthTyped, TableTyped, BagsTyped, world, conversation
    <2>4. RecKnown' /\ CallKnown' /\ Advances(event, event')
      BY <2>1, <2>2 DEF RecKnown, CallKnown, InHand, Advances
    <2> QED
      BY <2>1, <2>2, <2>3, <2>4, KnownNext
  <1>2. CASE LaunchRunning
    <2> DEFINE record == [FirstRecord EXCEPT !.state = "running"]
    <2>1. SaveThen(record, NoCall) /\ UNCHANGED conversation /\ TruthTyped'
      BY <1>2, KnownParts DEF LaunchRunning, TruthTyped
    <2>2. record \in Record /\ record.att \in Attempt
      BY NullFacts DEF FirstRecord, Record, JobState
    <2> HIDE DEF record
    <2> QED
      BY <2>1, <2>2, SaveKnown, NullFacts DEF Takes
  <1>3. CASE LaunchFails
    <2> DEFINE record == [FirstRecord EXCEPT !.state = "result", !.active = FALSE, !.outcome = 1]
    <2>1. SaveThen(record, NoCall) /\ UNCHANGED conversation /\ TruthTyped'
      BY <1>3, KnownParts DEF LaunchFails, TruthTyped
    <2>2. record \in Record /\ record.att \in Attempt
      BY NullFacts DEF FirstRecord, Record, JobState, Terminal
    <2> HIDE DEF record
    <2> QED
      BY <2>1, <2>2, SaveKnown, NullFacts DEF Takes
  <1>4. CASE LaunchLost
    <2>1. WorldTyped' /\ TruthTyped' /\ rec.att # 0
      BY <1>4, KnownParts, NullFacts, Attempted DEF LaunchLost, Launching, WorldTyped, TruthTyped,
         world
    <2> QED
      BY <1>4, <2>1, QuietKnown DEF LaunchLost, conversation
  <1> QED
    BY <1>1, <1>2, <1>3, <1>4

LEMMA ReleaseKnown ==
    ASSUME Known, Release
    PROVE  Known' /\ Advances(event, event')
  <1> DEFINE next == IF call.e = NoEvent THEN NoCall ELSE [call EXCEPT !.pc = "prepare"]
             record(outcome) == [rec EXCEPT !.active = FALSE, !.outcome = outcome,
                                            !.state = IF outcome # 0 THEN "result" ELSE @]
  <1>1. PICK outcome \in Outcomes : SaveThen(record(outcome), next)
    BY DEF Release
  <1>2. /\ rec \in Record /\ rec.att \in Attempt /\ UNCHANGED conversation /\ TruthTyped'
        /\ call \in Call /\ call.pc = "release"
    BY KnownParts DEF Release, CallKnown, TruthTyped
  <1>3. record(outcome) \in Record /\ record(outcome).att \in Attempt
        /\ record(outcome).att = rec.att
    BY <1>2, OutcomesTyped DEF Record, JobState, Terminal
  <1>4. next \in Call /\ next.pc \in {"idle", "prepare"} /\ Takes(next, rec.att)
    <2>1. CASE call.e = NoEvent
      BY <2>1, NullFacts DEF Takes
    <2>2. CASE call.e # NoEvent
      <3>1. /\ call.e \in DOMAIN event /\ call.e[1] = rec.att
            /\ call.prev \in Deliverable /\ event[call.e] # "accepted"
        BY <1>2, <2>2, KnownParts DEF CallKnown, InHand
      <3>2. /\ next = [call EXCEPT !.pc = "prepare"]
            /\ next \in Call /\ next.pc = "prepare" /\ next.e = call.e /\ next.prev = call.prev
        BY <1>2, <2>2 DEF Call, CallPc
      <3> QED
        BY <3>1, <3>2 DEF Takes
    <2> QED
      BY <2>1, <2>2
  <1> HIDE DEF next, record
  <1> QED
    BY <1>1, <1>2, <1>3, <1>4, SaveKnown

LEMMA ChangeKnown ==
    ASSUME Known, Finish \/ Retry \/ RetryStarts \/ RetryFails
    PROVE  Known' /\ Advances(event, event')
  <1>1. CASE Finish
    <2> DEFINE record == [rec EXCEPT !.state = "finished"]
    <2>1. PICK pc \in {"release", "idle"} : SaveThen(record, [NoCall EXCEPT !.pc = pc])
      BY <1>1 DEF Finish
    <2> DEFINE next == [NoCall EXCEPT !.pc = pc]
    <2>2. record \in Record /\ record.att \in Attempt
      BY <1>1, Attempted DEF Finish, MayChange, Record, JobState, Terminal
    <2>3. next \in Call /\ next.pc = pc /\ next.e = NoEvent
      BY NullFacts DEF NoCall, Call, CallPc
    <2>4. UNCHANGED conversation /\ TruthTyped'
      BY <1>1, KnownParts DEF Finish, TruthTyped
    <2> HIDE DEF record, next
    <2>5. SaveThen(record, next)
      BY <2>1 DEF next
    <2> QED
      BY <2>2, <2>3, <2>4, <2>5, SaveKnown DEF Takes
  <1>2. CASE Retry
    <2> DEFINE record == [rec EXCEPT !.att = @ + 1]
               next == [pc |-> "start", e |-> NoEvent, prev |-> "none", source |-> rec]
    <2>1. SaveThen(record, next) /\ UNCHANGED conversation /\ TruthTyped'
      BY <1>2, KnownParts DEF Retry, TruthTyped
    <2>2. rec \in Record /\ rec.att \in Attempt /\ rec.att < MaxAttempts
      BY <1>2, Attempted DEF Retry, MayChange
    <2>3. record \in Record /\ record.att \in Attempt
      BY <2>2, NotificationsAssumption DEF Record, Attempt
    <2>4. next \in Call /\ next.pc = "start" /\ next.source = rec
      BY <2>2 DEF Call, CallPc
    <2> HIDE DEF record, next
    <2> QED
      BY <2>1, <2>2, <2>3, <2>4, SaveKnown DEF Takes
  <1>3. ASSUME call.pc = "start", call' = NoCall, UNCHANGED <<world, rec, event, conversation>>,
               TruthTyped'
        PROVE  Known' /\ Advances(event, event')
    <2>1. WorldTyped' /\ rec' \in Record /\ TableTyped' /\ BagsTyped'
      BY <1>3, KnownParts DEF WorldTyped, TableTyped, BagsTyped, world, conversation
    <2>2. RecKnown' /\ Advances(event, event')
      BY <1>3, KnownParts, NullFacts DEF RecKnown, CallKnown, Advances
    <2> QED
      BY <1>3, <2>1, <2>2, FreeKnown, KnownNext
  <1>4. CASE RetryStarts
    <2>1. /\ call.pc = "start" /\ UNCHANGED conversation
          /\ truth' = [truth EXCEPT ![rec.att] = "running"]
          /\ SaveThen(rec, NoCall) \/ (call' = NoCall /\ UNCHANGED <<world, rec, event>>)
      BY <1>4 DEF RetryStarts
    <2>2. rec \in Record /\ rec.att \in Attempt /\ TruthTyped'
      BY <2>1, KnownParts DEF CallKnown, TruthTyped
    <2> QED
      BY <1>3, <2>1, <2>2, SaveKnown, NullFacts DEF Takes
  <1>5. CASE RetryFails
    <2>1. /\ call.pc = "start" /\ UNCHANGED conversation /\ TruthTyped'
          /\ SaveThen(call.source, NoCall) \/ (call' = NoCall /\ UNCHANGED <<world, rec, event>>)
      BY <1>5, KnownParts DEF RetryFails, TruthTyped
    <2>2. call.source \in Record /\ call.source.att \in Attempt
      BY <2>1, KnownParts DEF CallKnown, Call
    <2> QED
      BY <1>3, <2>1, <2>2, SaveKnown, NullFacts DEF Takes
  <1> QED
    BY <1>1, <1>2, <1>4, <1>5

\* A notice is added to a table.
LEMMA NotedFacts ==
    ASSUME NEW e \in Event, NEW table, DOMAIN table \subseteq Event, Advances(event, table),
           \A f \in DOMAIN table : table[f] \in EventState,
           event' = Noted(e, table)
    PROVE  TableTyped' /\ Advances(event, event')
  <1>1. event' = [f \in DOMAIN table \cup {e} |->
                     IF f \notin DOMAIN table THEN "unsent"
                     ELSE IF f # e /\ f[1] = e[1] /\ f[2] = e[2] /\ table[f] = "unsent"
                          THEN "retired" ELSE table[f]]
    BY DEF Noted
  <1>2. DOMAIN event' = DOMAIN table \cup {e}
    BY <1>1
  <1>3. \A f \in DOMAIN event' : event'[f] \in EventState
    BY <1>1 DEF EventState
  <1>4. Advances(event, event')
    BY <1>1 DEF Advances
  <1> QED
    BY <1>2, <1>3, <1>4 DEF TableTyped

LEMMA CheckStepsKnown ==
    ASSUME Known, StatusCheck \/ PollCheck \/ Alert
    PROVE  Known' /\ Advances(event, event')
  <1>1. CASE StatusCheck
    BY <1>1, CheckKnown, NullFacts DEF StatusCheck
  <1>2. ASSUME call.pc = "idle", UNCHANGED <<world, truth, call, conversation>>,
               rec' \in Record, rec'.att # 0, TableTyped', Advances(event, event')
        PROVE  Known'
    <2>1. WorldTyped' /\ TruthTyped' /\ call' \in Call
      BY <1>2, KnownParts DEF WorldTyped, TruthTyped, world
    <2>2. BagsTyped'
      BY <1>2, KnownParts, BagsKept DEF Advances, conversation
    <2>3. RecKnown' /\ CallKnown'
      BY <1>2 DEF RecKnown, CallKnown, InHand
    <2> QED
      BY <1>2, <2>1, <2>2, <2>3, KnownNext
  <1>3. CASE PollCheck
    <2> DEFINE e == <<rec.att, "poll", clock>>
    <2>1. /\ call.pc = "idle" /\ "poll" \in Notices /\ rec.active
          /\ UNCHANGED <<world, truth, call, conversation>>
          /\ rec' = Stamped(Checked("alive", 0)) /\ event' = Noted(e, SavedAndCleared(rec'))
      BY <1>3 DEF PollCheck, Free
    <2>2. rec \in Record /\ rec.att \in Attempt
      BY <2>1, Attempted
    <2>3. rec' \in Record /\ rec'.att = rec.att
      BY <2>1, <2>2, KnownParts, CheckedTyped, StampedTyped
    <2>4. e \in Event
      BY <2>1, <2>2, KnownParts DEF Event, Kind, WorldTyped, Terminal
    <2> DEFINE table == SavedAndCleared(rec')
    <2>5. /\ DOMAIN table \subseteq Event /\ Advances(event, table)
          /\ \A f \in DOMAIN table : table[f] \in EventState
      BY <2>2, <2>3, KnownParts, SavedFacts
    <2>6. event' = Noted(e, table)
      BY <2>1
    <2> HIDE DEF e, table
    <2>7. TableTyped' /\ Advances(event, event')
      BY <2>4, <2>5, <2>6, NotedFacts
    <2> QED
      BY <1>2, <2>1, <2>2, <2>3, <2>7, NullFacts
  <1>4. CASE Alert
    <2> DEFINE e == <<rec.att, "alert", 0>>
    <2>1. /\ call.pc = "idle" /\ "alert" \in Notices /\ rec.att # 0
          /\ UNCHANGED <<world, truth, call, conversation>>
          /\ rec' = rec /\ event' = Noted(e, event)
      BY <1>4 DEF Alert, Free
    <2>2. rec \in Record /\ rec.att \in Attempt
      BY <2>1, KnownParts DEF Record
    <2>3. e \in Event
      BY <2>1, <2>2, NullFacts DEF Event, Kind
    <2>4. /\ DOMAIN event \subseteq Event /\ Advances(event, event)
          /\ \A f \in DOMAIN event : event[f] \in EventState
      BY KnownParts DEF TableTyped, Advances
    <2>5. event' = Noted(e, event)
      BY <2>1
    <2> HIDE DEF e
    <2>6. TableTyped' /\ Advances(event, event')
      BY <2>3, <2>4, <2>5, NotedFacts
    <2> QED
      BY <1>2, <2>1, <2>2, <2>6
  <1> QED
    BY <1>1, <1>3, <1>4

LEMMA DeliverBeginKnown ==
    ASSUME Known, NEW e \in DOMAIN event, DeliverBegin(e)
    PROVE  Known' /\ Advances(event, event')
  <1> DEFINE next == Delivering(e)
  <1>1. /\ event[e] \in Deliverable /\ e[1] = rec.att /\ call.pc = "idle"
        /\ e \in Event /\ rec.att \in Attempt
    BY KnownParts DEF DeliverBegin, MayDeliver, TableTyped, Event, Free
  <1>2. /\ next \in Call /\ next.pc = "prepare" /\ next.e = e /\ next.prev = event[e]
    BY <1>1, NullFacts DEF Delivering, Call, CallPc, Deliverable, EventState
  <1>3. Takes(next, rec.att)
    BY <1>1, <1>2 DEF Takes, Deliverable
  <1> HIDE DEF next
  <1>4. CASE e[2] \in Uncertain /\ event[e] = "unsent"
    BY <1>2, <1>3, <1>4, CheckKnown DEF DeliverBegin, next
  <1>5. CASE ~(e[2] \in Uncertain /\ event[e] = "unsent")
    <2>1. call' = next /\ UNCHANGED <<world, truth, rec, event, conversation>>
      BY <1>5 DEF DeliverBegin, next
    <2>2. WorldTyped' /\ TruthTyped' /\ rec' \in Record /\ TableTyped' /\ BagsTyped' /\ RecKnown'
      BY <2>1, KnownParts
      DEF WorldTyped, TruthTyped, TableTyped, BagsTyped, RecKnown, world, conversation
    <2>3. CallKnown' /\ Advances(event, event')
      BY <1>1, <1>2, <1>5, <2>1 DEF CallKnown, InHand, Deliverable, Advances
    <2> QED
      BY <1>2, <2>1, <2>2, <2>3, KnownNext
  <1> QED
    BY <1>4, <1>5

LEMMA RetryNotificationKnown ==
    ASSUME Known, NEW e \in DOMAIN event, RetryNotification(e)
    PROVE  Known' /\ Advances(event, event')
  <1>1. /\ event' = [event EXCEPT ![e] = "unsent"] /\ event[e] = "in_doubt"
        /\ asked' = asked (+) SetToBag({e}) /\ call.pc = "idle"
        /\ UNCHANGED <<world, truth, rec, call, inbox>>
    BY DEF RetryNotification, SetEvent, Free
  <1>2. WorldTyped' /\ TruthTyped' /\ rec' \in Record /\ call' \in Call /\ RecKnown'
    BY <1>1, KnownParts DEF WorldTyped, TruthTyped, RecKnown, world
  <1>3. TableTyped' /\ Advances(event, event')
    BY <1>1, KnownParts DEF TableTyped, EventState, Advances
  <1>4. BagsTyped'
    <2>1. IsABag(asked') /\ BagToSet(asked') = BagToSet(asked) \cup {e}
      BY <1>1, KnownParts, OneMore DEF BagsTyped
    <2>2. DOMAIN event' = DOMAIN event
      BY <1>1
    <2> QED
      BY <1>1, <2>1, <2>2, KnownParts DEF BagsTyped
  <1>5. CallKnown'
    BY <1>1, KnownParts DEF CallKnown, InHand
  <1> QED
    BY <1>2, <1>3, <1>4, <1>5, KnownNext

\* A delivery ends, whether or not a request has arrived.
LEMMA EndsKnown ==
    ASSUME Known, InHand, NEW s \in EventState, DeliveryEnds(s),
           UNCHANGED inbox \/ Arrive(call.e)
    PROVE  Known' /\ Advances(event, event')
  <1>1. /\ event' = [event EXCEPT ![call.e] = s] /\ call' = NoCall
        /\ UNCHANGED <<world, truth, rec, asked>>
    BY DEF DeliveryEnds, SetEvent
  <1>2. call.e \in DOMAIN event /\ event[call.e] # "accepted"
    BY KnownParts DEF CallKnown
  <1>3. WorldTyped' /\ TruthTyped' /\ rec' \in Record /\ RecKnown'
    BY <1>1, KnownParts DEF WorldTyped, TruthTyped, RecKnown, world
  <1>4. TableTyped' /\ Advances(event, event') /\ DOMAIN event' = DOMAIN event
    BY <1>1, <1>2, KnownParts DEF TableTyped, Advances
  <1>5. BagsTyped'
    <2>1. Arrive(call.e) => IsABag(inbox') /\ BagToSet(inbox') = BagToSet(inbox) \cup {call.e}
      BY KnownParts, OneMore DEF BagsTyped, Arrive
    <2> QED
      BY <1>1, <1>2, <1>4, <2>1, KnownParts DEF BagsTyped
  <1> QED
    BY <1>1, <1>3, <1>4, <1>5, FreeKnown, KnownNext

LEMMA DeliveryKnown ==
    ASSUME Known, \/ DeliveryFails \/ DeliveryMoot \/ KeepArchived \/ LookUpReceipt
                  \/ PrepareSend \/ Request
    PROVE  Known' /\ Advances(event, event')
  <1>1. InHand /\ call.prev \in EventState
    <2>1. InHand
      BY DEF DeliveryFails, DeliveryMoot, KeepArchived, LookUpReceipt, PrepareSend, Request,
             Preparing, InHand
    <2> QED
      BY <2>1, KnownParts DEF CallKnown, Deliverable, EventState
  <1>2. CASE DeliveryFails \/ KeepArchived \/ LookUpReceipt \/ Request
    <2>1. PICK s \in EventState : DeliveryEnds(s) /\ (UNCHANGED inbox \/ Arrive(call.e))
      BY <1>1, <1>2 DEF DeliveryFails, KeepArchived, LookUpReceipt, Request, EventState
    <2> QED
      BY <1>1, <2>1, EndsKnown
  <1>3. CASE DeliveryMoot
    <2>1. call' = NoCall /\ UNCHANGED <<world, truth, rec, event, conversation>>
      BY <1>3 DEF DeliveryMoot
    <2>2. WorldTyped' /\ TruthTyped' /\ rec' \in Record /\ TableTyped' /\ BagsTyped' /\ RecKnown'
      BY <2>1, KnownParts
      DEF WorldTyped, TruthTyped, TableTyped, BagsTyped, RecKnown, world, conversation
    <2>3. Advances(event, event')
      BY <2>1 DEF Advances
    <2> QED
      BY <2>1, <2>2, <2>3, FreeKnown, KnownNext
  <1>4. CASE PrepareSend
    <2>1. /\ event' = [event EXCEPT ![call.e] = "in_doubt"] /\ event[call.e] = "unsent"
          /\ call' = [call EXCEPT !.pc = "request"]
          /\ UNCHANGED <<world, truth, rec, conversation>>
      BY <1>4 DEF PrepareSend, Preparing, SetEvent, CallStep
    <2>2. /\ call' \in Call /\ call'.pc = "request" /\ call'.e = call.e /\ call'.prev = call.prev
      BY <2>1, KnownParts DEF Call, CallPc
    <2>3. WorldTyped' /\ TruthTyped' /\ rec' \in Record /\ RecKnown'
      BY <2>1, KnownParts DEF WorldTyped, TruthTyped, RecKnown, world
    <2>4. TableTyped' /\ Advances(event, event') /\ DOMAIN event' = DOMAIN event
      BY <2>1, KnownParts DEF TableTyped, EventState, Advances
    <2>5. BagsTyped'
      BY <2>1, <2>4, KnownParts DEF BagsTyped, conversation
    <2>6. call.pc # "idle" /\ rec.att \in Attempt /\ call.e \in DOMAIN event /\ call.e[1] = rec.att
          /\ call.prev \in Deliverable /\ (call.e[2] \in Uncertain => rec.state = call.e[2])
      BY <1>1, <2>1, KnownParts DEF CallKnown, InHand
    <2>7. event'[call.e] = "in_doubt"
      BY <2>1, <2>6
    <2>8. CallKnown'
      BY <2>1, <2>2, <2>4, <2>6, <2>7 DEF CallKnown
    <2> QED
      BY <2>2, <2>3, <2>4, <2>5, <2>8, KnownNext
  <1> QED
    BY <1>2, <1>3, <1>4

LEMMA SurroundingsKnown ==
    ASSUME Known,
           \/ \E a \in Attempt : ProgramEnds(a) \/ ResultVisible(a)
           \/ Tick \/ Crash \/ Restart \/ UNCHANGED vars
    PROVE  Known' /\ Advances(event, event')
  <1>1. CASE \E a \in Attempt : ProgramEnds(a) \/ ResultVisible(a)
    <2>1. /\ UNCHANGED <<world, rec, event, call, conversation>> /\ TruthTyped' /\ rec.att # 0
      BY <1>1, KnownParts DEF ProgramEnds, ResultVisible, TruthTyped, RecKnown
    <2>2. WorldTyped'
      BY <2>1, KnownParts DEF WorldTyped, world
    <2> QED
      BY <2>1, <2>2, QuietKnown DEF conversation
  <1>2. CASE Tick \/ Restart \/ UNCHANGED vars
    <2>1. /\ UNCHANGED <<rec, event, call, conversation, truth, crashes>>
          /\ up' \in {up, TRUE} /\ owner' = owner
          /\ clock' = clock \/ (clock < MaxTime /\ clock' = clock + 1)
      BY <1>2 DEF Tick, Restart, vars, world, conversation
    <2>2. clock' \in Time
      BY <2>1, KnownParts, NotificationsAssumption DEF WorldTyped, Time
    <2>3. WorldTyped' /\ TruthTyped'
      BY <2>1, <2>2, KnownParts DEF WorldTyped, TruthTyped
    <2> QED
      BY <2>1, <2>3, QuietKnown DEF conversation
  <1>3. CASE Crash
    <2>1. /\ UNCHANGED <<truth, rec, event, asked>> /\ Stops
          /\ UNCHANGED inbox \/ (call.pc = "request" /\ Arrive(call.e))
      BY <1>3 DEF Crash
    <2>2. WorldTyped' /\ call' = NoCall
      BY <2>1, KnownParts, StopsTyped
    <2>3. TruthTyped' /\ rec' \in Record /\ TableTyped' /\ RecKnown' /\ Advances(event, event')
      BY <2>1, KnownParts DEF TruthTyped, TableTyped, RecKnown, Advances
    <2>4. BagsTyped'
      <3>1. ASSUME call.pc = "request", Arrive(call.e)
            PROVE  /\ IsABag(inbox') /\ BagToSet(inbox') = BagToSet(inbox) \cup {call.e}
                   /\ call.e \in DOMAIN event
        BY <3>1, KnownParts, OneMore DEF BagsTyped, Arrive, CallKnown, InHand
      <3> QED
        BY <2>1, <3>1, KnownParts DEF BagsTyped
    <2> QED
      BY <2>2, <2>3, <2>4, FreeKnown, KnownNext
  <1> QED
    BY <1>1, <1>2, <1>3

LEMMA KnownInit == Init => Known
  <1> SUFFICES ASSUME Init PROVE Known
    OBVIOUS
  <1>1. WorldTyped /\ TruthTyped /\ rec \in Record
    BY NullFacts, NotificationsAssumption DEF Init, WorldTyped, TruthTyped
  <1>2. DOMAIN event = {} /\ TableTyped
    BY DEF Init, TableTyped
  <1>3. BagsTyped
    BY DEF Init, BagsTyped, EmptyBag, SetToBag, IsABag, BagToSet
  <1>4. RecKnown
    BY DEF Init, RecKnown
  <1>5. call \in Call /\ CallKnown
    BY NullFacts DEF Init, CallKnown, InHand
  <1> QED
    BY <1>1, <1>2, <1>3, <1>4, <1>5, KnownParts

LEMMA KnownNextStep ==
    ASSUME Known, [Next]_vars
    PROVE  Known' /\ Advances(event, event')
  BY LaunchKnown, CheckStepsKnown, ReleaseKnown, ChangeKnown, DeliverBeginKnown,
     RetryNotificationKnown, DeliveryKnown, SurroundingsKnown DEF Next

\* Only a request that has left brings an event to its conversation.
LEMMA ArrivesByRequest ==
    ASSUME Known, [Next]_vars
    PROVE  UNCHANGED inbox \/ (call.pc = "request" /\ Arrive(call.e))
  <1>1. CASE Request \/ Crash
    BY <1>1 DEF Request, Crash
  <1>2. CASE \/ Register \/ LaunchRunning \/ LaunchFails \/ LaunchLost
             \/ StatusCheck \/ PollCheck \/ Release \/ Finish \/ Retry \/ RetryStarts \/ RetryFails
             \/ Alert \/ Tick \/ Restart \/ UNCHANGED vars
    BY <1>2 DEF Register, LaunchRunning, LaunchFails, LaunchLost, StatusCheck, PollCheck, Release,
       Finish, Retry, RetryStarts, RetryFails, Alert, Tick, Restart, vars, Check, conversation
  <1>3. CASE \/ \E a \in Attempt : ProgramEnds(a) \/ ResultVisible(a)
             \/ \E e \in DOMAIN event : DeliverBegin(e) \/ RetryNotification(e)
             \/ DeliveryFails \/ DeliveryMoot \/ KeepArchived \/ LookUpReceipt \/ PrepareSend
    BY <1>3 DEF ProgramEnds, ResultVisible, DeliverBegin, RetryNotification, DeliveryFails,
       DeliveryMoot, KeepArchived, LookUpReceipt, PrepareSend, Check, conversation
  <1> QED
    BY <1>1, <1>2, <1>3 DEF Next

\* What arrives is in the hand of the call, of the present attempt, and current.
LEMMA ArrivesCurrent ==
    ASSUME Known, [Next]_vars, NEW e \in DOMAIN event, Arrives(e)
    PROVE  e[1] = rec.att /\ (e[2] \in Uncertain => rec.state = e[2])
  <1>1. Copies(e, inbox) \in Nat
    BY KnownParts, CopiesNat DEF BagsTyped
  <1>2. inbox' # inbox
    BY <1>1 DEF Arrives
  <1>3. call.pc = "request" /\ Arrive(call.e)
    BY <1>2, ArrivesByRequest
  <1>4. e = call.e
    <2>1. \A f : f # call.e => Copies(f, inbox') = Copies(f, inbox)
      BY <1>3, KnownParts, OneMore DEF BagsTyped, Arrive
    <2> QED
      BY <1>1, <2>1 DEF Arrives
  <1> QED
    BY <1>3, <1>4, KnownParts DEF CallKnown, InHand

\* Types and what deliveries know hold in every reachable state, archived conversations
\* included.
THEOREM KnownInvariant == Spec => []Known
  <1>1. Known /\ [Next]_vars => Known'
    BY KnownNextStep
  <1> QED
    BY KnownInit, <1>1, PTL DEF Spec

\* Every variable keeps its type, and what a conversation has received is in the table.
THEOREM NoticeTypes == Spec => []TypeOK
  <1>1. Known => TypeOK
    BY DEF Known
  <1> QED
    BY <1>1, KnownInvariant, PTL

\* No row leaves the table, and a delivered notice stays delivered, whatever saves,
\* clean-ups, notices and failed deliveries follow.
THEOREM DeliveredStays == Spec => AcceptedKept
  <1>1. Known /\ [Next]_vars => [\A e \in DOMAIN event :
                                    /\ e \in DOMAIN event'
                                    /\ event[e] = "accepted" => event'[e] = "accepted"]_vars
    BY KnownNextStep DEF Advances
  <1> QED
    BY <1>1, KnownInvariant, PTL DEF Spec, AcceptedKept

\* A conversation is told of the present attempt only.
THEOREM FormerAttemptsSilent == Spec => OldAttemptSilent
  <1>1. Known /\ [Next]_vars => [\A e \in DOMAIN event : Arrives(e) => e[1] = rec.att]_vars
    BY ArrivesCurrent
  <1> QED
    BY <1>1, KnownInvariant, PTL DEF Spec, OldAttemptSilent

\* An uncertainty that the job has left, or replaced by another, is not announced.
THEOREM OvertakenSilent == Spec => OvertakenNotSent
  <1>1. Known /\ [Next]_vars =>
            [\A e \in DOMAIN event : Arrives(e) /\ e[2] \in Uncertain => rec.state = e[2]]_vars
    BY ArrivesCurrent
  <1> QED
    BY <1>1, KnownInvariant, PTL DEF Spec, OvertakenNotSent

=============================================================================
