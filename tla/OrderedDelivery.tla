-------------------------- MODULE OrderedDelivery --------------------------
(***************************************************************************)
(* What the event queue promises to the watcher: an event it has accepted  *)
(* is processed at most once, after every event accepted before it, and    *)
(* none is accepted once the queue is closed.  Abstract specification of   *)
(* module EventListener.                                                   *)
(***************************************************************************)
EXTENDS Naturals, Sequences

CONSTANT Event

VARIABLES accepted,   \* every event ever accepted, in order
          processed,  \* the events that have been processed, in order
          open        \* the queue accepts events

deliveryVars == <<accepted, processed, open>>

Init == accepted = <<>> /\ processed = <<>> /\ open = TRUE

Accept(e) ==
    /\ open
    /\ accepted' = Append(accepted, e)
    /\ UNCHANGED <<processed, open>>

Process ==
    /\ Len(processed) < Len(accepted)
    /\ processed' = Append(processed, accepted[Len(processed) + 1])
    /\ UNCHANGED <<accepted, open>>

Close == open' = FALSE /\ UNCHANGED <<accepted, processed>>

Next == (\E e \in Event : Accept(e)) \/ Process \/ Close

Spec == Init /\ [][Next]_deliveryVars
=============================================================================
