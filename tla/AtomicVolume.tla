---------------------------- MODULE AtomicVolume ----------------------------
(***************************************************************************)
(* What the writer of a volume promises to the containers that read it:    *)
(* whoever opens ..data sees one complete payload, the one of some Write,   *)
(* and each Write shows its payload at most once, in one step.              *)
(***************************************************************************)
CONSTANTS Writers, Payloads

VARIABLES pending,  \* the Writes that have neither shown their payload nor given up
          request,  \* the payload each Write was called with
          visible   \* the payload ..data leads to: none, or a set of one

volumeVars == <<pending, request, visible>>

VolumeInit ==
    /\ pending = {} /\ visible = {}
    /\ request \in [Writers -> Payloads]

Request(i, p) ==
    /\ i \notin pending
    /\ pending' = pending \cup {i}
    /\ request' = [request EXCEPT ![i] = p]
    /\ UNCHANGED visible

Publish(i) ==
    /\ i \in pending
    /\ pending' = pending \ {i}
    /\ visible' = {request[i]}
    /\ UNCHANGED request

\* The payload is there already, or an error has ended the Write.
GiveUp(i) ==
    /\ i \in pending
    /\ pending' = pending \ {i}
    /\ UNCHANGED <<request, visible>>

VolumeNext ==
    \E i \in Writers : Publish(i) \/ GiveUp(i) \/ \E p \in Payloads : Request(i, p)

VolumeSpec == VolumeInit /\ [][VolumeNext]_volumeVars
=============================================================================
