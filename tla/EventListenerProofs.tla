------------------------ MODULE EventListenerProofs ------------------------
(***************************************************************************)
(* Push and Listen are an ordered queue, for any number of workers, any     *)
(* capacity and any number of events.                                      *)
(*                                                                         *)
(* The invariant: a worker has been started only if those before it have    *)
(* returned (OneWorker), so that at most one event is held by a worker; a    *)
(* worker holds an event exactly while it handles one (HoldsEvent); the      *)
(* forwarding goroutine holds one throughout Push (HandOK); and no Push is   *)
(* about to send once Finished is set (SendsOpen), because the worker that   *)
(* sets it has the write lock.                                             *)
(***************************************************************************)
EXTENDS EventListener, SequenceTheorems, TLAPS

OneWorker == \A v, w \in Workers : v < w /\ worker[w] # "none" => worker[v] = "done"

HoldsEvent ==
    \A w \in Workers : IF worker[w] \in {"handle", "notify"} THEN taken[w] \in Event
                                                             ELSE taken[w] = NoEvent

HandOK == fwd # "idle" => hand \in Event

SendsOpen == finished => fwd # "send"

ListenerInv == ListenerTypeOK /\ OneWorker /\ HoldsEvent /\ HandOK /\ SendsOpen

-----------------------------------------------------------------------------
(* Sequences: what a step does to processed \o Held \o queue.              *)
LEMMA AppendRight ==
    ASSUME NEW S, NEW s \in Seq(S), NEW h \in Seq(S), NEW q \in Seq(S), NEW e \in S
    PROVE  s \o h \o Append(q, e) = Append(s \o h \o q, e)
<1>1. s \o h \in Seq(S) /\ <<e>> \in Seq(S)
  BY ConcatProperties
<1>2. Append(q, e) = q \o <<e>> /\ s \o h \o q \in Seq(S)
  BY <1>1, AppendIsConcat, ConcatProperties
<1>3. Append(s \o h \o q, e) = (s \o h \o q) \o <<e>>
  BY <1>2, AppendIsConcat
<1> QED
  BY <1>1, <1>2, <1>3, ConcatAssociative

LEMMA MoveHead ==
    ASSUME NEW S, NEW s \in Seq(S), NEW q \in Seq(S), q # <<>>
    PROVE  s \o <<Head(q)>> \o Tail(q) = s \o <<>> \o q
<1>1. Head(q) \in S /\ Tail(q) \in Seq(S) /\ <<Head(q)>> \in Seq(S)
  BY HeadTailProperties
<1>2. <<Head(q)>> \o Tail(q) = q
  <2>1. Len(q) = 1 + Len(Tail(q)) /\ \A i \in 1 .. Len(Tail(q)) : Tail(q)[i] = q[i + 1]
    BY HeadTailProperties
  <2>2. <<Head(q)>> \o Tail(q) \in Seq(S) /\ Len(<<Head(q)>> \o Tail(q)) = Len(q)
    BY <1>1, <2>1, ConcatProperties
  <2>3. \A i \in 1 .. Len(q) : (<<Head(q)>> \o Tail(q))[i] = q[i]
    BY <1>1, <2>1, ConcatProperties
  <2> QED
    BY <2>2, <2>3, SeqEqual
<1> QED
  BY <1>1, <1>2, ConcatAssociative, ConcatEmptySeq

LEMMA MoveHeld ==
    ASSUME NEW S, NEW s \in Seq(S), NEW q \in Seq(S), NEW e \in S
    PROVE  /\ Append(s, e) \o <<>> \o q = s \o <<e>> \o q
           /\ Len(s) < Len(s \o <<e>> \o q)
           /\ (s \o <<e>> \o q)[Len(s) + 1] = e
<1>1. Append(s, e) = s \o <<e>> /\ Append(s, e) \in Seq(S)
  BY AppendIsConcat, AppendProperties
<1>2. Append(s, e) \o <<>> = Append(s, e)
  BY <1>1, ConcatEmptySeq
<1>3. /\ Len(Append(s, e) \o q) = Len(s) + 1 + Len(q) /\ Len(q) \in Nat /\ Len(s) \in Nat
      /\ (Append(s, e) \o q)[Len(s) + 1] = e
  BY <1>1, AppendProperties, ConcatProperties
<1> QED
  BY <1>1, <1>2, <1>3

-----------------------------------------------------------------------------
LEMMA NoEventIsNone == NoEvent \notin Event
  BY ListenerAssumption DEF NoEvent, Event

LEMMA ListenerInitInv == ListenerInit => ListenerInv
<1> SUFFICES ASSUME ListenerInit PROVE ListenerInv
  OBVIOUS
<1>1. <<>> \in Seq(Event) /\ Len(<<>>) <= MaxQueueSize /\ 0 \in 0 .. MaxEvents
  BY ListenerAssumption
<1>2. ListenerTypeOK
  BY <1>1 DEF ListenerInit, ListenerTypeOK, WorkerSteps
<1>3. OneWorker /\ HoldsEvent /\ HandOK /\ SendsOpen
  BY DEF ListenerInit, OneWorker, HoldsEvent, HandOK, SendsOpen
<1> QED
  BY <1>2, <1>3 DEF ListenerInv

\* A worker that runs is alone: no other holds an event.
LEMMA Alone ==
    ASSUME ListenerInv, NEW w \in Workers, worker[w] \notin {"none", "done"}
    PROVE  \A v \in Workers \ {w} : worker[v] \in {"none", "done"} /\ taken[v] = NoEvent
<1>1. \A v \in Workers \ {w} : worker[v] \in {"none", "done"}
  BY ListenerAssumption DEF ListenerInv, OneWorker, Workers
<1> QED
  BY <1>1 DEF ListenerInv, HoldsEvent

LEMMA HeldOne ==
    ASSUME NEW w \in Workers, taken[w] # NoEvent, \A v \in Workers \ {w} : taken[v] = NoEvent
    PROVE  Held = <<taken[w]>>
<1>1. {v \in Workers : taken[v] # NoEvent} = {w}
  OBVIOUS
<1>2. (CHOOSE v \in {w} : TRUE) = w
  OBVIOUS
<1> QED
  BY <1>1, <1>2 DEF Held

LEMMA HeldNone ==
    ASSUME \A v \in Workers : taken[v] = NoEvent
    PROVE  Held = <<>>
  BY DEF Held

LEMMA HeldType ==
    ASSUME ListenerInv
    PROVE  Held \in Seq(Event)
<1>1. CASE \A w \in Workers : taken[w] = NoEvent
  <2>1. Held = <<>>
    BY <1>1, HeldNone
  <2> QED
    BY <2>1
<1>2. ASSUME NEW w \in Workers, taken[w] # NoEvent PROVE Held \in Seq(Event)
  <2>1. worker[w] \in {"handle", "notify"} /\ taken[w] \in Event
    BY <1>2 DEF ListenerInv, HoldsEvent
  <2>2. Held = <<taken[w]>>
    BY <1>2, <2>1, Alone, HeldOne
  <2> QED
    BY <2>1, <2>2
<1> QED
  BY <1>1, <1>2
-----------------------------------------------------------------------------
LEMMA ListenerInvStep == ListenerInv /\ [ListenerNext]_lvars => ListenerInv'
<1> SUFFICES ASSUME ListenerInv, [ListenerNext]_lvars PROVE ListenerInv'
  OBVIOUS
<1> USE DEF ListenerInv
<1>0. ListenerTypeOK /\ OneWorker /\ HoldsEvent /\ HandOK /\ SendsOpen
  OBVIOUS
<1>1. ASSUME UNCHANGED <<worker, taken>> PROVE OneWorker' /\ HoldsEvent'
  BY <1>0, <1>1 DEF OneWorker, HoldsEvent
<1>2. ASSUME UNCHANGED <<fwd, hand, finished>> PROVE HandOK' /\ SendsOpen'
  BY <1>0, <1>2 DEF HandOK, SendsOpen
<1>3. CASE UNCHANGED lvars
  <2>1. ListenerTypeOK'
    BY <1>0, <1>3 DEF ListenerTypeOK, lvars
  <2>2. OneWorker' /\ HoldsEvent'
    BY <1>1, <1>3 DEF lvars
  <2>3. HandOK' /\ SendsOpen'
    BY <1>2, <1>3 DEF lvars
  <2> QED
    BY <2>1, <2>2, <2>3
<1>4. ASSUME NEW class \in Class, Forward(class) PROVE ListenerInv'
  <2>1. ListenerTypeOK'
    BY <1>0, <1>4, ListenerAssumption DEF ListenerTypeOK, Forward, restVars, Event
  <2>2. OneWorker' /\ HoldsEvent'
    BY <1>1, <1>4 DEF Forward, restVars
  <2>3. HandOK' /\ SendsOpen'
    BY <1>0, <1>4, ListenerAssumption DEF ListenerTypeOK, HandOK, SendsOpen, Forward, restVars, Event
  <2> QED
    BY <2>1, <2>2, <2>3
<1>5. CASE PushOpen
  <2>1. ListenerTypeOK'
    BY <1>0, <1>5 DEF ListenerTypeOK, PushOpen, restVars
  <2>2. OneWorker' /\ HoldsEvent'
    BY <1>1, <1>5 DEF PushOpen, restVars
  <2>3. HandOK' /\ SendsOpen'
    BY <1>0, <1>5 DEF ListenerTypeOK, HandOK, SendsOpen, PushOpen, restVars
  <2> QED
    BY <2>1, <2>2, <2>3
<1>6. CASE PushClosed
  <2>1. ListenerTypeOK'
    BY <1>0, <1>6 DEF ListenerTypeOK, HandOK, PushClosed, restVars
  <2>2. OneWorker' /\ HoldsEvent'
    BY <1>1, <1>6 DEF PushClosed, restVars
  <2>3. HandOK' /\ SendsOpen'
    BY <1>0, <1>6 DEF ListenerTypeOK, HandOK, SendsOpen, PushClosed, restVars
  <2> QED
    BY <2>1, <2>2, <2>3
<1>7. CASE PushSend
  <2>1. ListenerTypeOK'
    <3>1. hand \in Event /\ queue \in Seq(Event) /\ Len(queue) < MaxQueueSize /\ queue' = Append(queue, hand)
      BY <1>0, <1>7 DEF ListenerTypeOK, HandOK, PushSend
    <3>2. queue' \in Seq(Event) /\ Len(queue') <= MaxQueueSize
      BY <3>1, ListenerAssumption, AppendProperties
    <3> QED
      BY <1>0, <1>7, <3>2 DEF ListenerTypeOK, PushSend, restVars
  <2>2. OneWorker' /\ HoldsEvent'
    BY <1>1, <1>7 DEF PushSend, restVars
  <2>3. HandOK' /\ SendsOpen'
    BY <1>0, <1>7 DEF ListenerTypeOK, HandOK, SendsOpen, PushSend, restVars
  <2> QED
    BY <2>1, <2>2, <2>3
<1>8. CASE ListenReturn
  <2>1. ListenerTypeOK'
    BY <1>0, <1>8 DEF ListenerTypeOK, ListenReturn, pushVars
  <2>2. OneWorker' /\ HoldsEvent'
    BY <1>1, <1>8 DEF ListenReturn, pushVars
  <2>3. HandOK' /\ SendsOpen'
    BY <1>2, <1>8 DEF ListenReturn, pushVars
  <2> QED
    BY <2>1, <2>2, <2>3
<1>9. ASSUME NEW w \in Workers, Spawn(w) PROVE ListenerInv'
  <2>1. ListenerTypeOK'
    BY <1>0, <1>9 DEF ListenerTypeOK, Spawn, pushVars, restVars, WorkerSteps, Workers
  <2>2. OneWorker' /\ HoldsEvent'
    <3>1. HoldsEvent'
      BY <1>0, <1>9 DEF ListenerTypeOK, HoldsEvent, Spawn
    <3>2. ASSUME NEW u \in Workers, NEW v \in Workers, u < v, worker'[v] # "none"
          PROVE  worker'[u] = "done"
      <4>1. u # w => worker'[u] = worker[u]
        BY <1>9 DEF Spawn
      <4>2. CASE v = w
        BY <1>9, <3>2, <4>1, <4>2, ListenerAssumption DEF Spawn, Workers
      <4>3. CASE v # w
        <5>1. worker[v] # "none" /\ worker[u] = "done"
          BY <1>0, <1>9, <3>2, <4>3 DEF Spawn, OneWorker
        <5> QED
          BY <1>9, <4>1, <5>1 DEF Spawn
      <4> QED
        BY <4>2, <4>3
    <3> QED
      BY <3>1, <3>2 DEF OneWorker
  <2>3. HandOK' /\ SendsOpen'
    BY <1>2, <1>9 DEF Spawn, pushVars, restVars, WorkerSteps, Workers
  <2> QED
    BY <2>1, <2>2, <2>3
<1>10. ASSUME NEW w \in Workers, SelectEvent(w) PROVE ListenerInv'
  <2>1. ListenerTypeOK'
    <3>1. queue \in Seq(Event) /\ queue # <<>> /\ Len(queue) <= MaxQueueSize /\ queue' = Tail(queue)
      BY <1>0, <1>10 DEF ListenerTypeOK, SelectEvent
    <3>2. Head(queue) \in Event /\ queue' \in Seq(Event) /\ Len(queue') <= MaxQueueSize
      BY <3>1, ListenerAssumption, HeadTailProperties
    <3> QED
      BY <1>0, <1>10, <3>2 DEF ListenerTypeOK, SelectEvent, pushVars, restVars, WorkerSteps
  <2>2. OneWorker' /\ HoldsEvent'
    BY <1>0, <1>10, HeadTailProperties DEF ListenerTypeOK, OneWorker, HoldsEvent, SelectEvent, pushVars, restVars, WorkerSteps
  <2>3. HandOK' /\ SendsOpen'
    BY <1>2, <1>10 DEF SelectEvent, pushVars, restVars, WorkerSteps
  <2> QED
    BY <2>1, <2>2, <2>3
<1>11. ASSUME NEW w \in Workers, SelectDone(w) PROVE ListenerInv'
  <2>1. ListenerTypeOK'
    BY <1>0, <1>11 DEF ListenerTypeOK, SelectDone, pushVars, restVars, WorkerSteps
  <2>2. OneWorker' /\ HoldsEvent'
    BY <1>0, <1>11 DEF ListenerTypeOK, OneWorker, HoldsEvent, SelectDone, pushVars, restVars, WorkerSteps
  <2>3. HandOK' /\ SendsOpen'
    BY <1>2, <1>11 DEF SelectDone, pushVars, restVars, WorkerSteps
  <2> QED
    BY <2>1, <2>2, <2>3
<1>12. ASSUME NEW w \in Workers, Omit(w) PROVE ListenerInv'
  <2>1. ListenerTypeOK'
    <3>1. taken[w] \in Event /\ processed \in Seq(Event) /\ processed' = Append(processed, taken[w])
      BY <1>0, <1>12 DEF ListenerTypeOK, HoldsEvent, Omit, Release
    <3>2. processed' \in Seq(Event)
      BY <3>1, AppendProperties
    <3> QED
      BY <1>0, <1>12, <3>2 DEF ListenerTypeOK, Omit, Release, pushVars, restVars, WorkerSteps
  <2>2. OneWorker' /\ HoldsEvent'
    BY <1>0, <1>12 DEF ListenerTypeOK, OneWorker, HoldsEvent, Omit, Release, pushVars, restVars, WorkerSteps
  <2>3. HandOK' /\ SendsOpen'
    BY <1>2, <1>12 DEF Omit, Release, pushVars, restVars, WorkerSteps
  <2> QED
    BY <2>1, <2>2, <2>3
<1>13. ASSUME NEW w \in Workers, Load(w) PROVE ListenerInv'
  <2>1. ListenerTypeOK'
    BY <1>0, <1>13 DEF ListenerTypeOK, Load, pushVars, restVars, WorkerSteps
  <2>2. OneWorker' /\ HoldsEvent'
    BY <1>0, <1>13 DEF ListenerTypeOK, OneWorker, HoldsEvent, Load, pushVars, restVars, WorkerSteps
  <2>3. HandOK' /\ SendsOpen'
    BY <1>2, <1>13 DEF Load, pushVars, restVars, WorkerSteps
  <2> QED
    BY <2>1, <2>2, <2>3
<1>14. ASSUME NEW w \in Workers, LoadPanics(w) PROVE ListenerInv'
  <2>1. ListenerTypeOK'
    BY <1>0, <1>14 DEF ListenerTypeOK, LoadPanics, pushVars, restVars
  <2>2. OneWorker' /\ HoldsEvent'
    BY <1>1, <1>14 DEF LoadPanics, pushVars, restVars
  <2>3. HandOK' /\ SendsOpen'
    BY <1>2, <1>14 DEF LoadPanics, pushVars, restVars
  <2> QED
    BY <2>1, <2>2, <2>3
<1>15. ASSUME NEW w \in Workers, Notify(w) PROVE ListenerInv'
  <2>1. ListenerTypeOK'
    <3>1. /\ taken[w] \in Event /\ processed \in Seq(Event) /\ notified \in Seq(Event)
          /\ processed' = Append(processed, taken[w]) /\ notified' = Append(notified, taken[w])
      BY <1>0, <1>15 DEF ListenerTypeOK, HoldsEvent, Notify, Release
    <3>2. processed' \in Seq(Event) /\ notified' \in Seq(Event)
      BY <3>1, AppendProperties
    <3> QED
      BY <1>0, <1>15, <3>2 DEF ListenerTypeOK, Notify, Release, pushVars, restVars, WorkerSteps
  <2>2. OneWorker' /\ HoldsEvent'
    BY <1>0, <1>15 DEF ListenerTypeOK, OneWorker, HoldsEvent, Notify, Release, pushVars, restVars, WorkerSteps
  <2>3. HandOK' /\ SendsOpen'
    BY <1>2, <1>15 DEF Notify, Release, pushVars, restVars, WorkerSteps
  <2> QED
    BY <2>1, <2>2, <2>3
<1>16. ASSUME NEW w \in Workers, Lock(w) PROVE ListenerInv'
  <2>1. ListenerTypeOK'
    BY <1>0, <1>16 DEF ListenerTypeOK, Lock, pushVars, restVars, WorkerSteps
  <2>2. OneWorker' /\ HoldsEvent'
    BY <1>0, <1>16 DEF ListenerTypeOK, OneWorker, HoldsEvent, Lock, pushVars, restVars, WorkerSteps
  <2>3. HandOK' /\ SendsOpen'
    BY <1>2, <1>16 DEF Lock, pushVars, restVars, WorkerSteps
  <2> QED
    BY <2>1, <2>2, <2>3
<1>17. ASSUME NEW w \in Workers, Finish(w) PROVE ListenerInv'
  <2>1. ListenerTypeOK'
    BY <1>0, <1>17 DEF ListenerTypeOK, Finish, pushVars, restVars, WorkerSteps
  <2>2. OneWorker' /\ HoldsEvent'
    BY <1>0, <1>17 DEF ListenerTypeOK, OneWorker, HoldsEvent, Finish, pushVars, restVars, WorkerSteps
  <2>3. HandOK' /\ SendsOpen'
    BY <1>0, <1>17 DEF ListenerTypeOK, HandOK, SendsOpen, Finish, pushVars, restVars, WorkerSteps
  <2> QED
    BY <2>1, <2>2, <2>3
<1>18. CASE Cancel
  <2>1. ListenerTypeOK'
    BY <1>0, <1>18 DEF ListenerTypeOK, Cancel, pushVars
  <2>2. OneWorker' /\ HoldsEvent'
    BY <1>1, <1>18 DEF Cancel, pushVars
  <2>3. HandOK' /\ SendsOpen'
    BY <1>2, <1>18 DEF Cancel, pushVars
  <2> QED
    BY <2>1, <2>2, <2>3
<1>19. CASE DeletePod
  <2>1. ListenerTypeOK'
    BY <1>0, <1>19 DEF ListenerTypeOK, DeletePod, pushVars
  <2>2. OneWorker' /\ HoldsEvent'
    BY <1>1, <1>19 DEF DeletePod, pushVars
  <2>3. HandOK' /\ SendsOpen'
    BY <1>2, <1>19 DEF DeletePod, pushVars
  <2> QED
    BY <2>1, <2>2, <2>3
<1> QED
  BY <1>3, <1>4, <1>5, <1>6, <1>7, <1>8, <1>9, <1>10, <1>11, <1>12, <1>13, <1>14, <1>15, <1>16, <1>17, <1>18, <1>19
  DEF ListenerNext, Push, ListenLoop, WorkerStep

-----------------------------------------------------------------------------
(* The refinement: accepted is processed \o Held \o queue.                 *)
LEMMA ReleaseDelivers ==
    ASSUME ListenerInv, NEW w \in Workers, worker[w] \in {"handle", "notify"}, Release(w),
           UNCHANGED <<queue, finished>>
    PROVE  Delivery!Process
<1>1. /\ taken \in [Workers -> Event \cup {NoEvent}] /\ processed \in Seq(Event) /\ queue \in Seq(Event)
      /\ taken[w] \in Event
  BY DEF ListenerInv, ListenerTypeOK, HoldsEvent
<1>2. \A v \in Workers \ {w} : taken[v] = NoEvent
  BY Alone
<1>3. Held = <<taken[w]>>
  BY <1>1, <1>2, HeldOne, NoEventIsNone
<1>4. Held' = <<>>
  <2>1. \A v \in Workers : taken'[v] = NoEvent
    BY <1>1, <1>2 DEF Release
  <2> QED
    BY <2>1 DEF Held
<1>5. /\ processed' \o Held' \o queue' = processed \o Held \o queue
      /\ Len(processed) < Len(processed \o Held \o queue)
      /\ (processed \o Held \o queue)[Len(processed) + 1] = taken[w]
  BY <1>1, <1>3, <1>4, MoveHeld DEF Release
<1> QED
  BY <1>5 DEF Delivery!Process, Release

LEMMA DeliveryStep ==
    ListenerInv /\ [ListenerNext]_lvars => [Delivery!Next]_(Delivery!deliveryVars)
<1> SUFFICES ASSUME ListenerInv, [ListenerNext]_lvars
             PROVE  [Delivery!Next]_(Delivery!deliveryVars)
  OBVIOUS
<1>0. processed \in Seq(Event) /\ queue \in Seq(Event) /\ Held \in Seq(Event)
  BY HeldType DEF ListenerInv, ListenerTypeOK
<1>1. ASSUME UNCHANGED <<processed, taken, queue, finished>>
      PROVE  UNCHANGED (Delivery!deliveryVars)
  BY <1>1 DEF Delivery!deliveryVars, Held
<1>2. CASE PushSend
  <2>1. hand \in Event /\ ~finished
    BY <1>2 DEF PushSend, ListenerInv, HandOK, SendsOpen
  <2>2. Held' = Held
    BY <1>2 DEF PushSend, Held
  <2>3. processed' \o Held' \o queue' = Append(processed \o Held \o queue, hand)
    BY <1>0, <1>2, <2>1, <2>2, AppendRight DEF PushSend
  <2>4. Delivery!Accept(hand)
    BY <1>2, <2>1, <2>3 DEF PushSend, Delivery!Accept
  <2> QED
    BY <2>1, <2>4 DEF Delivery!Next
<1>3. ASSUME NEW w \in Workers, SelectEvent(w) PROVE UNCHANGED (Delivery!deliveryVars)
  <2>1. worker[w] = "select" /\ queue # <<>> /\ queue' = Tail(queue)
    BY <1>3 DEF SelectEvent
  <2>2. \A v \in Workers : taken[v] = NoEvent
    BY <2>1, Alone DEF ListenerInv, HoldsEvent
  <2>3. taken' = [taken EXCEPT ![w] = Head(queue)] /\ taken \in [Workers -> Event \cup {NoEvent}]
    BY <1>3 DEF SelectEvent, ListenerInv, ListenerTypeOK
  <2>4. Head(queue) \in Event /\ Head(queue) # NoEvent
    BY <1>0, <2>1, HeadTailProperties, NoEventIsNone
  <2>5. Held = <<>>
    BY <2>2, HeldNone
  <2>6. Held' = <<Head(queue)>>
    <3>1. {v \in Workers : taken'[v] # NoEvent} = {w} /\ taken'[w] = Head(queue)
      BY <2>2, <2>3, <2>4
    <3> QED
      BY <3>1 DEF Held
  <2>7. processed' \o Held' \o queue' = processed \o Held \o queue
    BY <1>0, <1>3, <2>1, <2>5, <2>6, MoveHead DEF SelectEvent
  <2> QED
    BY <1>3, <2>7 DEF SelectEvent, Delivery!deliveryVars
<1>4. ASSUME NEW w \in Workers, Omit(w) \/ Notify(w) PROVE Delivery!Next
  BY <1>4, ReleaseDelivers DEF Omit, Notify, Delivery!Next
<1>5. ASSUME NEW w \in Workers, Finish(w) PROVE Delivery!Next
  <2>1. Held' = Held
    BY <1>5 DEF Finish, Held
  <2> QED
    BY <1>5, <2>1 DEF Finish, Delivery!Next, Delivery!Close
<1>6. CASE \E class \in Class : Forward(class)
  BY <1>1, <1>6 DEF Forward
<1>7. CASE PushOpen \/ PushClosed \/ ListenReturn \/ Cancel \/ DeletePod \/ UNCHANGED lvars
  BY <1>1, <1>7 DEF PushOpen, PushClosed, ListenReturn, Cancel, DeletePod, lvars
<1>8. ASSUME NEW w \in Workers, Spawn(w) \/ SelectDone(w) \/ Load(w) \/ LoadPanics(w) \/ Lock(w)
      PROVE  UNCHANGED (Delivery!deliveryVars)
  BY <1>1, <1>8 DEF Spawn, SelectDone, Load, LoadPanics, Lock
<1> QED
  BY <1>2, <1>3, <1>4, <1>5, <1>6, <1>7, <1>8 DEF ListenerNext, Push, ListenLoop, WorkerStep

-----------------------------------------------------------------------------
(* The queue of EventHandler never exceeds its capacity, and every worker   *)
(* and the forwarding goroutine hold an event or none (listener.go, Push    *)
(* and Listen).                                                            *)
THEOREM ListenerTypeCorrect == ListenerSpec => []ListenerTypeOK
<1>1. ListenerInv => ListenerTypeOK
  BY DEF ListenerInv
<1> QED
  BY <1>1, ListenerInitInv, ListenerInvStep, PTL DEF ListenerSpec

(* Whatever MaxWorkers and MaxQueueSize are, events are processed in the    *)
(* order in which Push accepted them, each at most once, and none is        *)
(* accepted after Finished (listener.go: the Wait inside the loop of Listen *)
(* leaves one worker at a time).                                           *)
THEOREM ListenerDelivers == ListenerSpec => ImplementsDelivery
<1>1. ListenerInit => Delivery!Init
  <2> SUFFICES ASSUME ListenerInit PROVE Delivery!Init
    OBVIOUS
  <2>1. Held = <<>> /\ processed = <<>> /\ queue = <<>> /\ finished = FALSE
    BY HeldNone DEF ListenerInit
  <2>2. processed \o Held \o queue = <<>>
    BY <2>1
  <2> QED
    BY <2>1, <2>2 DEF Delivery!Init
<1> QED
  BY <1>1, ListenerInitInv, ListenerInvStep, DeliveryStep, PTL
  DEF ListenerSpec, ImplementsDelivery, Delivery!Spec

(* A Push that has seen Finished unset sends before the worker can set it:  *)
(* the queue does not grow afterwards (listener.go, the read lock of Push   *)
(* and the write lock of the worker).                                      *)
THEOREM ClosedQueueStays == ListenerSpec => ClosedQueue
<1>1. ListenerInv /\ [ListenerNext]_lvars => [finished => Len(queue') <= Len(queue)]_lvars
  <2> SUFFICES ASSUME ListenerInv, ListenerNext, finished
               PROVE  Len(queue') <= Len(queue)
    OBVIOUS
  <2>0. queue \in Seq(Event) /\ Len(queue) \in Nat
    BY LenProperties DEF ListenerInv, ListenerTypeOK
  <2>1. queue' = queue \/ (queue # <<>> /\ queue' = Tail(queue))
    BY DEF ListenerNext, Push, ListenLoop, WorkerStep, ListenerInv, SendsOpen, Forward, PushOpen,
           PushClosed, PushSend, Spawn, ListenReturn, SelectEvent, SelectDone, Omit, Load,
           LoadPanics, Notify, Lock, Finish, Cancel, DeletePod
  <2> QED
    BY <2>0, <2>1, HeadTailProperties
<1> QED
  BY <1>1, ListenerInitInv, ListenerInvStep, PTL DEF ListenerSpec, ClosedQueue
=============================================================================
