----------------------------- MODULE PodEvents -----------------------------
(***************************************************************************)
(* The life of one pod's status, from the control files its job writes to  *)
(* the API server.  Composes                                               *)
(*   - the job (module Pause);                                             *)
(*   - the tail of CreatePod, which submits the job, saves the pod and     *)
(*     notifies (provider/provider.go, compute/podhandler/podhandler.go);  *)
(*   - the watcher and the bounded event queue (provider.go, NotifyPods);  *)
(*   - the worker of the event listener (compute/events/listener.go), which*)
(*     loads the pod, reads the control files one by one and notifies;     *)
(*   - UpdatePod, which overwrites the saved pod;                          *)
(*   - the virtual kubelet's status sync (external).                       *)
(*                                                                         *)
(* One worker: Listen waits for the one it has spawned (module             *)
(* EventListener).  The events of .ip, .jobid and .exitCode files take the *)
(* same path through the worker, so only their number is kept.  A panic    *)
(* anywhere in HPK ends the process; restarts are in module PodLifecycle.  *)
(* The pod's volumes have been mounted without a failure: one whose claim   *)
(* was not bound in time is saved as failed (module Volumes).              *)
(***************************************************************************)
EXTENDS Pause, PodStatus

CONSTANTS MaxQueueSize,  \* capacity of EventHandler.Queue
          MaxUpdates     \* bound: calls of UpdatePod

ASSUME QueueAssumption == MaxQueueSize \in Nat \ {0} /\ MaxUpdates \in Nat

VARIABLES
    creator,   \* position of the CreatePod goroutine
    crdFile,   \* the pod's JSON file: "none", "empty" or "saved"
    crd,       \* the status in it
    updating,  \* UpdatePod has truncated the file and is to write it
    updPod,    \* the status in the pod UpdatePod was given
    updates,   \* calls of UpdatePod so far
    pending,   \* Create events the watcher has not yet pushed
    queue,     \* events in the queue
    wpc,       \* position of the worker
    rd,        \* the container whose files the worker is to read
    pod,       \* the status in the worker's copy of the pod
    lis,       \* the status the listener notified last
    vk,        \* the status the virtual kubelet was notified of last
    dirty,     \* the virtual kubelet has not synced it
    k8s,       \* the status in the API server
    missed,    \* auxiliary: an event was omitted, or a file was read while empty
    crashed    \* HPK has panicked

createVars == <<creator, crdFile, crd, updating, updPod, updates>>
queueVars  == <<pending, queue>>
workerVars == <<wpc, rd, pod, lis>>
vkVars     == <<vk, dirty, k8s>>
hpkVars    == <<createVars, queueVars, workerVars, vkVars, missed, crashed>>
vars       == <<pauseVars, hpkVars>>

EventsTypeOK ==
    /\ PauseTypeOK
    /\ creator \in {"submit", "save", "write", "notify", "done"}
    /\ crdFile \in {"none", "empty", "saved"}
    /\ updating \in BOOLEAN /\ updates \in 0 .. MaxUpdates
    /\ crd \in Status /\ updPod \in Status /\ pod \in Status /\ lis \in Status
    /\ vk \in Status /\ k8s \in Status
    /\ pending \in Nat /\ queue \in 0 .. MaxQueueSize
    /\ wpc \in {"idle", "load", "ip", "exit", "id", "notify"}
    /\ rd \in 1 .. (NInit + NMain + 1)
    /\ dirty \in BOOLEAN /\ missed \in BOOLEAN /\ crashed \in BOOLEAN

EventsInit ==
    /\ PauseInit
    /\ creator = "submit" /\ crdFile = "none"
    /\ updating = FALSE /\ updates = 0
    /\ crd = FreshStatus /\ updPod = FreshStatus /\ pod = FreshStatus /\ lis = FreshStatus
    /\ vk = FreshStatus /\ k8s = FreshStatus
    /\ pending = 0 /\ queue = 0
    /\ wpc = "idle" /\ rd = 1
    /\ dirty = FALSE /\ missed = FALSE /\ crashed = FALSE

-----------------------------------------------------------------------------
(* The job runs once it is submitted; HPK's crash does not stop it. *)

JobCreatesFile ==
    /\ creator # "submit"
    /\ CreateFile
    /\ pending' = pending + 1
    /\ UNCHANGED <<createVars, queue, workerVars, vkVars, missed, crashed>>

JobStep ==
    /\ creator # "submit"
    /\ OtherStep
    /\ UNCHANGED hpkVars

-----------------------------------------------------------------------------
(* CreatePod, from the submission on. *)

SubmitJob ==
    /\ ~crashed /\ creator = "submit"
    /\ creator' = "save"
    /\ UNCHANGED <<pauseVars, crdFile, crd, updating, updPod, updates, queueVars, workerVars,
                   vkVars, missed, crashed>>

\* SavePodToFile is an os.WriteFile: create or truncate, then write.
SavePodToFile ==
    /\ ~crashed /\ creator = "save"
    /\ crdFile' = "empty"
    /\ creator' = "write"
    /\ UNCHANGED <<pauseVars, crd, updating, updPod, updates, queueVars, workerVars, vkVars,
                   missed, crashed>>

SavePodWrite ==
    /\ ~crashed /\ creator = "write"
    /\ crdFile' = "saved" /\ crd' = FreshStatus
    /\ creator' = "notify"
    /\ UNCHANGED <<pauseVars, updating, updPod, updates, queueVars, workerVars, vkVars, missed,
                   crashed>>

\* v.updatedPod(pod), with the status CreatePod was called with.
CreatePodNotify ==
    /\ ~crashed /\ creator = "notify"
    /\ vk' = FreshStatus /\ dirty' = TRUE
    /\ creator' = "done"
    /\ UNCHANGED <<pauseVars, crdFile, crd, updating, updPod, updates, queueVars, workerVars,
                   k8s, missed, crashed>>

-----------------------------------------------------------------------------
(* UpdatePod: the API server's copy, if it carries a job id, replaces the  *)
(* saved pod.  The virtual kubelet calls it for pods that have not ended.  *)

UpdatePod ==
    /\ ~crashed /\ ~updating /\ updates < MaxUpdates
    /\ crdFile = "saved"
    /\ annotated /\ k8s.phase \notin Terminal
    /\ crdFile' = "empty" /\ updPod' = k8s
    /\ updating' = TRUE /\ updates' = updates + 1
    /\ UNCHANGED <<pauseVars, creator, crd, queueVars, workerVars, vkVars, missed, crashed>>

UpdatePodWrite ==
    /\ ~crashed /\ updating
    /\ crdFile' = "saved" /\ crd' = updPod /\ updPod' = FreshStatus
    /\ updating' = FALSE
    /\ UNCHANGED <<pauseVars, creator, updates, queueVars, workerVars, vkVars, missed,
                   crashed>>

-----------------------------------------------------------------------------
(* The watcher and the queue. *)

\* Mutant: a non-blocking send to an unbuffered channel reaches only a worker
\* that is not handling another event.
PushIfIdle ==
    /\ ~crashed /\ pending > 0
    /\ pending' = pending - 1
    /\ queue' = IF wpc = "idle" /\ queue = 0 THEN 1 ELSE queue
    /\ UNCHANGED <<pauseVars, createVars, workerVars, vkVars, missed, crashed>>

\* Mutant: the queue has no bound.
PushUnbounded ==
    /\ ~crashed /\ pending > 0
    /\ pending' = pending - 1
    /\ queue' = queue + 1
    /\ UNCHANGED <<pauseVars, createVars, workerVars, vkVars, missed, crashed>>

\* The forwarding goroutine takes an event and blocks while the queue is full.
Push ==
    /\ ~crashed /\ pending > 0 /\ queue < MaxQueueSize
    /\ pending' = pending - 1
    /\ queue' = queue + 1
    /\ UNCHANGED <<pauseVars, createVars, workerVars, vkVars, missed, crashed>>

-----------------------------------------------------------------------------
(* The worker. *)

TakeEvent ==
    /\ ~crashed /\ wpc = "idle" /\ queue > 0
    /\ queue' = queue - 1
    /\ wpc' = "load"
    /\ UNCHANGED <<pauseVars, createVars, pending, rd, pod, lis, vkVars, missed, crashed>>

\* LoadFromDisk fails on a missing or an empty file: the event is omitted.
LoadFails ==
    /\ ~crashed /\ wpc = "load" /\ crdFile # "saved"
    /\ wpc' = "idle"
    /\ missed' = TRUE
    /\ UNCHANGED <<pauseVars, createVars, queueVars, rd, pod, lis, vkVars, crashed>>

\* A pod in a terminal phase is only logged about; UpdateStatus returns at once.
LoadFromDisk ==
    /\ ~crashed /\ wpc = "load" /\ crdFile = "saved"
    /\ pod' = crd
    /\ wpc' = IF crd.phase \in Terminal THEN "notify" ELSE "ip"
    /\ UNCHANGED <<pauseVars, createVars, queueVars, rd, lis, vkVars, missed, crashed>>

\* The IP is read unless it is known; an empty file yields an empty IP.
ReadIP ==
    /\ ~crashed /\ wpc = "ip"
    /\ pod' = [pod EXCEPT !.ip = @ \/ ip = "written"]
    /\ missed' = (missed \/ (~pod.ip /\ ip = "empty"))
    /\ wpc' = "exit"
    /\ UNCHANGED <<pauseVars, createVars, queueVars, rd, lis, vkVars, crashed>>

\* Where the loop over the containers goes after container rd.
AfterRead == IF rd < NInit + NMain THEN "exit" ELSE "notify"

\* Mutant: an empty file decodes to the zero value.
ReadExitCodeEmptyIsZero ==
    /\ ~crashed /\ wpc = "exit" /\ exitCode[rd] # "absent"
    /\ pod' = [pod EXCEPT !.cs[rd] = IF exitCode[rd] = "empty" THEN "zero" ELSE exitCode[rd]]
    /\ wpc' = AfterRead /\ rd' = rd + 1
    /\ UNCHANGED <<pauseVars, createVars, queueVars, lis, vkVars, missed, crashed>>

\* readIntFromFile: an empty file counts as no file.
ReadExitCode ==
    /\ ~crashed /\ wpc = "exit" /\ exitCode[rd] \in ExitCodes
    /\ pod' = [pod EXCEPT !.cs[rd] = exitCode[rd]]
    /\ wpc' = AfterRead /\ rd' = rd + 1
    /\ UNCHANGED <<pauseVars, createVars, queueVars, lis, vkVars, missed, crashed>>

NoExitCode ==
    /\ ~crashed /\ wpc = "exit" /\ exitCode[rd] \notin ExitCodes
    /\ wpc' = "id"
    /\ missed' = (missed \/ exitCode[rd] = "empty")
    /\ UNCHANGED <<pauseVars, createVars, queueVars, rd, pod, lis, vkVars, crashed>>

\* Mutant: a container already known to run falls through to waiting.
ReadJobIDFallsThrough ==
    /\ ~crashed /\ wpc = "id"
    /\ jobid[rd] # "empty" \/ pod.cs[rd] = "running"
    /\ pod' = [pod EXCEPT !.cs[rd] =
                 IF jobid[rd] = "absent" \/ @ = "running" THEN "waiting" ELSE "running"]
    /\ wpc' = AfterRead /\ rd' = rd + 1
    /\ UNCHANGED <<pauseVars, createVars, queueVars, lis, vkVars, missed, crashed>>

\* Without an exit code, a .jobid file means running, its absence waiting.
ReadJobID ==
    /\ ~crashed /\ wpc = "id"
    /\ jobid[rd] # "empty" \/ pod.cs[rd] = "running"
    /\ pod' = [pod EXCEPT !.cs[rd] = IF jobid[rd] = "absent" THEN "waiting" ELSE "running"]
    /\ wpc' = AfterRead /\ rd' = rd + 1
    /\ UNCHANGED <<pauseVars, createVars, queueVars, lis, vkVars, missed, crashed>>

\* An empty .jobid file is an id of unknown format: parseIDType panics.
ReadEmptyJobID ==
    /\ ~crashed /\ wpc = "id"
    /\ jobid[rd] = "empty" /\ pod.cs[rd] # "running"
    /\ crashed' = TRUE
    /\ UNCHANGED <<pauseVars, createVars, queueVars, workerVars, vkVars, missed>>

\* The phase is computed, the virtual kubelet notified; the saved pod is not
\* touched.  The worker's variables are local to the handling of one event.
Notify ==
    /\ ~crashed /\ wpc = "notify"
    /\ lis' = UpdateStatus(pod)
    /\ vk' = UpdateStatus(pod) /\ dirty' = TRUE
    /\ wpc' = "idle" /\ rd' = 1 /\ pod' = FreshStatus
    /\ UNCHANGED <<pauseVars, createVars, queueVars, k8s, missed, crashed>>

\* The branch of Listen for .syserror files is left out: nothing creates one.
\* In the sbatch script (templates.go) it would be the echo behind "exec ... ||",
\* and exec does not return to the shell.  EventListener has the branch.
Worker == \/ TakeEvent \/ LoadFails \/ LoadFromDisk \/ ReadIP \/ ReadExitCode \/ NoExitCode
          \/ ReadJobID \/ ReadEmptyJobID \/ Notify

-----------------------------------------------------------------------------
\* External: the virtual kubelet writes the last status it was notified of to
\* the API server, annotations included, unless the pod there has ended.
SyncStatus ==
    /\ ~crashed /\ dirty
    /\ dirty' = FALSE
    /\ IF k8s.phase \in Terminal
       THEN UNCHANGED <<k8s, annotated>>
       ELSE k8s' = vk /\ annotated' = TRUE
    /\ UNCHANGED <<seen, main, cur, gor, child, fileVars, sigVars, createVars, queueVars,
                   workerVars, vk, missed, crashed>>

CreatePod == SubmitJob \/ SavePodToFile \/ SavePodWrite \/ CreatePodNotify

EventsNext ==
    \/ JobCreatesFile \/ JobStep
    \/ CreatePod
    \/ UpdatePod \/ UpdatePodWrite
    \/ Push \/ Worker
    \/ SyncStatus

\* Every goroutine of HPK is scheduled, and so are those of the job.  Nothing
\* obliges a container to end, Slurm to signal, or a user to update the pod.
EventsFairness ==
    /\ WF_vars(CreatePod) /\ WF_vars(UpdatePodWrite)
    /\ WF_vars(Push) /\ WF_vars(Worker) /\ WF_vars(SyncStatus)

JobFairness ==
    /\ WF_vars(JobCreatesFile)
    /\ WF_vars(creator # "submit" /\ MainGoroutine /\ UNCHANGED hpkVars)
    /\ \A c \in MainContainers :
          WF_vars(creator # "submit" /\ Goroutine(c) /\ UNCHANGED hpkVars)

EventsSafety  == EventsInit /\ [][EventsNext]_vars
EventsSpec    == EventsSafety /\ EventsFairness
EventsJobSpec == EventsSpec /\ JobFairness

-----------------------------------------------------------------------------
(* Properties. *)

\* What the control files say of container c.
FileState(c) ==
    IF exitCode[c] \in ExitCodes THEN exitCode[c]
    ELSE IF jobid[c] = "written" THEN "running" ELSE "waiting"

Truthful(st) ==
    /\ st.phase = "Succeeded" => \A c \in MainContainers : exitCode[c] = "zero"
    /\ st.phase = "Failed" => \E c \in MainContainers : exitCode[c] = "nonzero"
    /\ st.phase = "Running" =>
          /\ \A c \in MainContainers : jobid[c] = "written"
          /\ \A i \in InitContainers : exitCode[i] = "zero"
    /\ st.ready => st.phase = "Running"

\* No status that the listener notifies, that the virtual kubelet holds or
\* that reaches the API server claims more than the control files show, even
\* though the worker reads the files one by one while the job writes them
\* and starts from a saved pod that UpdatePod may have replaced.
StatusTruthful == Truthful(lis) /\ Truthful(vk) /\ Truthful(k8s)

Quiescent == pending = 0 /\ queue = 0 /\ wpc = "idle"

\* No lost update: whenever no event is left to handle, the last status the
\* listener notified is the one the files show, provided that no event was
\* omitted and no file read empty.
QuiescentUpToDate ==
    Quiescent /\ ~missed /\ ~crashed =>
        /\ \A c \in Containers : FileState(c) # "waiting" => lis.cs[c] = FileState(c)
        /\ ip = "written" => lis.ip
        /\ (\A c \in MainContainers : exitCode[c] = "zero") => lis.phase = "Succeeded"
        /\ (\E c \in MainContainers : exitCode[c] = "nonzero") => lis.phase = "Failed"

PhaseRank(p) == CASE p = "Pending" -> 0 [] p = "Running" -> 1 [] p \in Terminal -> 2

\* The phases the listener notifies only advance, and an end is final: each
\* status is computed afresh from the files and from a saved pod that may be
\* older than the last notification.
ListenerNeverRegresses ==
    [][/\ PhaseRank(lis.phase) <= PhaseRank(lis'.phase)
       /\ lis.phase \in Terminal => lis'.phase = lis.phase]_vars

\* Once every main container's code is on disk, the API server eventually
\* learns that the pod has ended, if CreatePod has returned and no event was
\* omitted, no file read empty.
ResultReachesKubernetes ==
    (\A c \in MainContainers : exitCode[c] \in ExitCodes) /\ lis.phase \notin Terminal
        /\ creator = "done"
    ~> (k8s.phase \in Terminal \/ missed \/ crashed)

\* Reading a control file never brings HPK down (listener.go:132: "file
\* readers must retry if there are no contents in the file").
NoPanic == ~crashed

\* A failed init container fails the pod (podStatus.go:81 "Initialization
\* error: at least one init container has failed").
InitFailureReported ==
    (\E i \in InitContainers : child[i] = "nonzero") ~> (lis.phase = "Failed" \/ missed \/ crashed)

\* No notification takes back the phase of an earlier one, whoever sends it
\* (provider.go:390 "The provided pod's PodStatus should be up-to-date").
\* CreatePod's own, sent with the pod it was given after the job has been
\* submitted, is not late because the job reports nothing before it has the
\* annotations that this notification publishes.
NotificationsUpToDate ==
    [][PhaseRank(vk.phase) <= PhaseRank(vk'.phase)]_vars
=============================================================================
