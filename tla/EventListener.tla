--------------------------- MODULE EventListener ---------------------------
(***************************************************************************)
(* The event queue of HPK and the workers that drain it                    *)
(* (compute/events/listener.go), with the goroutine that forwards the      *)
(* watcher's events to it (provider/provider.go, NotifyPods).              *)
(*                                                                         *)
(* Push sends to the bounded queue while it holds the read lock; a worker  *)
(* that sees the context cancelled takes the write lock to set Finished.   *)
(* Listen waits for a worker before it starts the next one.                *)
(*                                                                         *)
(* Events are numbered in the order the watcher reports them.  Of an event *)
(* only its class is kept: "omit" (not a creation, not a control file, or  *)
(* a file of no interest), "status" (.ip, .jobid, .exitCode) or "syserror".*)
(* They are all about one pod, which DeletePod may remove at any time.     *)
(* The status the worker computes is in module PodEvents.                  *)
(***************************************************************************)
EXTENDS Naturals, Sequences, FiniteSets

CONSTANTS MaxWorkers, MaxQueueSize,
          MaxEvents    \* bound: events the watcher reports

ASSUME ListenerAssumption ==
    MaxWorkers \in Nat \ {0} /\ MaxQueueSize \in Nat \ {0} /\ MaxEvents \in Nat

Workers == 1 .. MaxWorkers
Class   == {"omit", "status", "syserror"}
Event   == [id : 1 .. MaxEvents, class : Class]
NoEvent == [id |-> 0, class |-> "omit"]

VARIABLES
    reported,   \* number of events the watcher has reported
    fwd,        \* position of the forwarding goroutine
    hand,       \* the event it holds
    queue,      \* EventHandler.Queue
    finished,   \* EventHandler.Finished
    worker,     \* position of each worker
    taken,      \* the event each worker holds
    listening,  \* Listen has not returned
    cancelled,  \* the context is done
    onDisk,     \* the pod's description can be loaded
    processed,  \* auxiliary: the events workers are done with, in order
    notified,   \* auxiliary: those of them the virtual kubelet was notified of
    dropped,    \* auxiliary: events Push refused
    crashed     \* SystemPanic

lvars == <<reported, fwd, hand, queue, finished, worker, taken, listening, cancelled, onDisk,
           processed, notified, dropped, crashed>>

pushVars == <<reported, fwd, hand, dropped>>
restVars == <<listening, cancelled, onDisk>>

WorkerSteps == {"none", "select", "handle", "notify", "lock", "waiting", "done"}

ListenerTypeOK ==
    /\ reported \in 0 .. MaxEvents
    /\ fwd \in {"idle", "rlock", "send"}
    /\ hand \in Event \cup {NoEvent}
    /\ queue \in Seq(Event) /\ Len(queue) <= MaxQueueSize
    /\ worker \in [Workers -> WorkerSteps]
    /\ taken \in [Workers -> Event \cup {NoEvent}]
    /\ processed \in Seq(Event) /\ notified \in Seq(Event)
    /\ dropped \subseteq Event
    /\ {finished, listening, cancelled, onDisk, crashed} \subseteq BOOLEAN

ListenerInit ==
    /\ reported = 0
    /\ fwd = "idle" /\ hand = NoEvent
    /\ queue = <<>> /\ finished = FALSE
    /\ worker = [w \in Workers |-> "none"]
    /\ taken = [w \in Workers |-> NoEvent]
    /\ listening = TRUE /\ cancelled = FALSE /\ onDisk = TRUE
    /\ processed = <<>> /\ notified = <<>> /\ dropped = {} /\ crashed = FALSE

-----------------------------------------------------------------------------
(* The forwarding goroutine: take an event from the watcher, Push it. *)

Forward(class) ==
    /\ ~crashed /\ fwd = "idle" /\ reported < MaxEvents
    /\ reported' = reported + 1
    /\ hand' = [id |-> reported + 1, class |-> class]
    /\ fwd' = "rlock"
    /\ UNCHANGED <<queue, finished, worker, taken, restVars, processed, notified, dropped,
                   crashed>>

\* A pending Lock keeps new readers out.
PushOpen ==
    /\ ~crashed /\ fwd = "rlock" /\ ~finished
    /\ \A w \in Workers : worker[w] # "waiting"
    /\ fwd' = "send"
    /\ UNCHANGED <<reported, hand, queue, finished, worker, taken, restVars, processed,
                   notified, dropped, crashed>>

PushClosed ==
    /\ ~crashed /\ fwd = "rlock" /\ finished
    /\ \A w \in Workers : worker[w] # "waiting"
    /\ dropped' = dropped \cup {hand}
    /\ hand' = NoEvent /\ fwd' = "idle"
    /\ UNCHANGED <<reported, queue, finished, worker, taken, restVars, processed, notified,
                   crashed>>

\* Mutant: the queue has no bound.
PushSendUnbounded ==
    /\ ~crashed /\ fwd = "send"
    /\ queue' = Append(queue, hand)
    /\ hand' = NoEvent /\ fwd' = "idle"
    /\ UNCHANGED <<reported, finished, worker, taken, restVars, processed, notified, dropped,
                   crashed>>

\* The send blocks while the queue is full, with the read lock held.
PushSend ==
    /\ ~crashed /\ fwd = "send" /\ Len(queue) < MaxQueueSize
    /\ queue' = Append(queue, hand)
    /\ hand' = NoEvent /\ fwd' = "idle"
    /\ UNCHANGED <<reported, finished, worker, taken, restVars, processed, notified, dropped,
                   crashed>>

-----------------------------------------------------------------------------
(* Listen: the loop that starts the workers. *)

\* Mutant: waitGroup.Wait() is after the loop.
SpawnAll(w) ==
    /\ ~crashed /\ listening /\ worker[w] = "none"
    /\ \A v \in 1 .. (w - 1) : worker[v] # "none"
    /\ worker' = [worker EXCEPT ![w] = "select"]
    /\ UNCHANGED <<pushVars, queue, finished, taken, restVars, processed, notified, crashed>>

\* waitGroup.Wait() in the loop body: the earlier workers have returned.
Spawn(w) ==
    /\ ~crashed /\ listening /\ worker[w] = "none"
    /\ \A v \in 1 .. (w - 1) : worker[v] = "done"
    /\ worker' = [worker EXCEPT ![w] = "select"]
    /\ UNCHANGED <<pushVars, queue, finished, taken, restVars, processed, notified, crashed>>

ListenReturn ==
    /\ ~crashed /\ listening /\ \A w \in Workers : worker[w] = "done"
    /\ listening' = FALSE
    /\ UNCHANGED <<pushVars, queue, finished, worker, taken, cancelled, onDisk, processed,
                   notified, crashed>>

-----------------------------------------------------------------------------
(* A worker.  When both branches of its select are ready, Go picks either. *)

SelectEvent(w) ==
    /\ ~crashed /\ worker[w] = "select" /\ queue # <<>>
    /\ taken' = [taken EXCEPT ![w] = Head(queue)]
    /\ queue' = Tail(queue)
    /\ worker' = [worker EXCEPT ![w] = "handle"]
    /\ UNCHANGED <<pushVars, finished, restVars, processed, notified, crashed>>

SelectDone(w) ==
    /\ ~crashed /\ worker[w] = "select" /\ cancelled
    /\ worker' = [worker EXCEPT ![w] = "lock"]
    /\ UNCHANGED <<pushVars, queue, finished, taken, restVars, processed, notified, crashed>>

\* Done with the event it holds, back to the select.
Release(w) ==
    /\ processed' = Append(processed, taken[w])
    /\ taken' = [taken EXCEPT ![w] = NoEvent]
    /\ worker' = [worker EXCEPT ![w] = "select"]

\* Mutant: the break leaves the worker's loop, not just the select.
OmitAndLeave(w) ==
    /\ ~crashed /\ worker[w] = "handle"
    /\ taken[w].class = "omit" \/ (taken[w].class = "status" /\ ~onDisk)
    /\ processed' = Append(processed, taken[w])
    /\ taken' = [taken EXCEPT ![w] = NoEvent]
    /\ worker' = [worker EXCEPT ![w] = "done"]
    /\ UNCHANGED <<pushVars, queue, finished, restVars, notified, crashed>>

\* An event of no interest, or one whose pod cannot be loaded.
Omit(w) ==
    /\ ~crashed /\ worker[w] = "handle"
    /\ taken[w].class = "omit" \/ (taken[w].class = "status" /\ ~onDisk)
    /\ Release(w)
    /\ UNCHANGED <<pushVars, queue, finished, restVars, notified, crashed>>

\* The pod is loaded; its status, failed on a syserror, is then computed.
Load(w) ==
    /\ ~crashed /\ worker[w] = "handle"
    /\ taken[w].class # "omit" /\ onDisk
    /\ worker' = [worker EXCEPT ![w] = "notify"]
    /\ UNCHANGED <<pushVars, queue, finished, taken, restVars, processed, notified, crashed>>

\* A syserror of a pod that cannot be loaded, or whose .syserror file is gone
\* when it is read.
LoadPanics(w) ==
    /\ ~crashed /\ worker[w] \in {"handle", "notify"}
    /\ taken[w].class = "syserror" /\ ~onDisk
    /\ crashed' = TRUE
    /\ UNCHANGED <<pushVars, queue, finished, worker, taken, restVars, processed, notified>>

Notify(w) ==
    /\ ~crashed /\ worker[w] = "notify"
    /\ notified' = Append(notified, taken[w])
    /\ Release(w)
    /\ UNCHANGED <<pushVars, queue, finished, restVars, crashed>>

\* locker.Lock() announces itself and then waits for the reader.
Lock(w) ==
    /\ ~crashed /\ worker[w] = "lock"
    /\ worker' = [worker EXCEPT ![w] = "waiting"]
    /\ UNCHANGED <<pushVars, queue, finished, taken, restVars, processed, notified, crashed>>

\* Mutant: Finished is set without the lock.
FinishUnlocked(w) ==
    /\ ~crashed /\ worker[w] = "waiting"
    /\ finished' = TRUE
    /\ worker' = [worker EXCEPT ![w] = "done"]
    /\ UNCHANGED <<pushVars, queue, taken, restVars, processed, notified, crashed>>

Finish(w) ==
    /\ ~crashed /\ worker[w] = "waiting" /\ fwd # "send"
    /\ finished' = TRUE
    /\ worker' = [worker EXCEPT ![w] = "done"]
    /\ UNCHANGED <<pushVars, queue, taken, restVars, processed, notified, crashed>>

WorkerStep(w) ==
    \/ SelectEvent(w) \/ SelectDone(w) \/ Omit(w) \/ Load(w) \/ LoadPanics(w)
    \/ Notify(w) \/ Lock(w) \/ Finish(w)

-----------------------------------------------------------------------------
(* The rest of HPK. *)

Cancel ==
    /\ ~cancelled
    /\ cancelled' = TRUE
    /\ UNCHANGED <<pushVars, queue, finished, worker, taken, listening, onDisk, processed,
                   notified, crashed>>

DeletePod ==
    /\ ~crashed /\ onDisk
    /\ onDisk' = FALSE
    /\ UNCHANGED <<pushVars, queue, finished, worker, taken, listening, cancelled, processed,
                   notified, crashed>>

Push == PushOpen \/ PushClosed \/ PushSend

ListenLoop == ListenReturn \/ \E w \in Workers : Spawn(w)

ListenerNext ==
    \/ \E class \in Class : Forward(class)
    \/ Push \/ ListenLoop
    \/ \E w \in Workers : WorkerStep(w)
    \/ Cancel \/ DeletePod

\* Goroutines that can run are scheduled.  The watcher need not report
\* anything, nobody need cancel or delete.
ListenerFairness ==
    /\ WF_lvars(Push) /\ WF_lvars(ListenLoop)
    /\ \A w \in Workers : WF_lvars(WorkerStep(w))

ListenerSpec == ListenerInit /\ [][ListenerNext]_lvars /\ ListenerFairness

-----------------------------------------------------------------------------
(* Properties. *)

\* The events the workers hold; at most one at a time.
Held == LET busy == {w \in Workers : taken[w] # NoEvent}
        IN  IF busy = {} THEN <<>> ELSE <<taken[CHOOSE w \in busy : TRUE]>>

Delivery == INSTANCE OrderedDelivery WITH
                accepted <- processed \o Held \o queue, open <- ~finished

\* Push and Listen together are an ordered queue: an accepted event is
\* processed at most once and in order, although MaxWorkers allows for
\* several workers, and none is accepted after Finished.
ImplementsDelivery == Delivery!Spec

\* Push never adds to the queue after a worker has set Finished, however its
\* check of Finished interleaves with the worker's Lock (listener.go:100
\* "Ensure no new messages are added").
ClosedQueue == [][finished => Len(queue') <= Len(queue)]_lvars

\* Every event the watcher reports is eventually processed, unless HPK shuts
\* down or panics: no worker is lost and a full queue only delays.
EventuallyProcessed ==
    \A i \in 1 .. MaxEvents :
        reported >= i ~> (Len(processed) >= i \/ cancelled \/ crashed)

\* Listen returns when its context is cancelled (listener.go:87 "waits for a
\* cancellation invocation from the Client").
ListenReturns == cancelled ~> (~listening \/ crashed)
=============================================================================
