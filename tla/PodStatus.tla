----------------------------- MODULE PodStatus -----------------------------
(***************************************************************************)
(* How HPK computes the status of a pod from the states of its containers  *)
(* (compute/podhandler/podStatus.go, container.go).  Pure operators.       *)
(*                                                                         *)
(* Of a pod's status we keep the phase, whether the IP is known, the       *)
(* PodReady condition and the state of every container.  Reasons,          *)
(* messages, timestamps and restart counters are left out.                 *)
(***************************************************************************)
EXTENDS ControlFiles

Phases   == {"Pending", "Running", "Succeeded", "Failed"}
Terminal == {"Succeeded", "Failed"}

\* corev1.ContainerState; "none" is the zero value CreatePod leaves.
ContainerStates == {"none", "waiting", "running"} \cup ExitCodes

Status == [phase : Phases, ip : BOOLEAN, ready : BOOLEAN, cs : [Containers -> ContainerStates]]

\* The status of a pod as the API server hands it to CreatePod, with the
\* container statuses CreatePod allocates.
FreshStatus ==
    [phase |-> "Pending", ip |-> FALSE, ready |-> FALSE, cs |-> [c \in Containers |-> "none"]]

-----------------------------------------------------------------------------
(* Classifier: the main containers by state. *)

pendingJobs(cs)    == {c \in MainContainers : cs[c] \in {"none", "waiting"}}
runningJobs(cs)    == {c \in MainContainers : cs[c] = "running"}
successfulJobs(cs) == {c \in MainContainers : cs[c] = "zero"}
failedJobs(cs)     == {c \in MainContainers : cs[c] = "nonzero"}

(* The loop over the init containers stops at the first one that has not   *)
(* succeeded, and that one decides.                                        *)
FirstUnsuccessful(cs, i) ==
    /\ i \in InitContainers
    /\ cs[i] # "zero"
    /\ \A j \in InitContainers : j < i => cs[j] = "zero"

StillInitializing(cs) ==
    \E i \in InitContainers : FirstUnsuccessful(cs, i) /\ cs[i] # "nonzero"

InitializationFailed(cs) ==
    \E i \in InitContainers : FirstUnsuccessful(cs, i) /\ cs[i] = "nonzero"

\* phaseTransitionSequence: the first expression that holds decides.
phaseTransition(cs) ==
    IF failedJobs(cs) # {} THEN "Failed"
    ELSE IF successfulJobs(cs) = MainContainers THEN "Succeeded"
    ELSE IF runningJobs(cs) \cup successfulJobs(cs) = MainContainers THEN "Running"
    ELSE IF pendingJobs(cs) # {} THEN "Pending"
    ELSE "Failed"

\* The PodReady condition each transition sets; "Pending" leaves it alone.
readyCondition(phase, ready) ==
    CASE phase = "Running"   -> TRUE
      [] phase \in Terminal  -> FALSE
      [] phase = "Pending"   -> ready

PodError(st) == [st EXCEPT !.phase = "Failed", !.ready = FALSE]

\* UpdateStatusFromRuntime, from the point where the IP and the container
\* states have been read.  A terminal pod is left as it is.  The case of an
\* empty phase does not occur: the API server creates pods as "Pending".
UpdateStatus(st) ==
    IF st.phase \in Terminal THEN st
    ELSE IF st.phase = "Pending" /\ StillInitializing(st.cs) THEN st
    ELSE IF st.phase = "Pending" /\ InitializationFailed(st.cs) THEN PodError(st)
    ELSE LET phase == phaseTransition(st.cs)
         IN  [st EXCEPT !.phase = phase, !.ready = readyCondition(phase, @)]
=============================================================================
