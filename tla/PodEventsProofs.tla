--------------------------- MODULE PodEventsProofs ---------------------------
(***************************************************************************)
(* Proofs about module PodEvents: type correctness and StatusTruthful, and *)
(* that the event listener loses no update (QuiescentUpToDate), takes back *)
(* no phase (ListenerNeverRegresses) and that CreatePod's own notification *)
(* does not either (NotificationsUpToDate), for any number of containers,  *)
(* any queue capacity and any number of updates.                           *)
(*                                                                         *)
(* StatusTruthful speaks of phases only.  It is inductive together with    *)
(* the same claim for the state of every container, for every copy of the  *)
(* status that can reach the listener: the saved pod, the pod UpdatePod    *)
(* was given and the worker's own.                                         *)
(*                                                                         *)
(* The worker reads the files one container at a time while the job writes *)
(* them, so the other proofs rest on what the worker's copy of the pod     *)
(* holds of the containers it has read so far.                             *)
(***************************************************************************)
EXTENDS PodEvents, PauseProofs

\* The worker's position and the container it is at.
WorkerInv ==
    /\ wpc \in {"idle", "load", "ip"} => rd = 1
    /\ wpc \in {"exit", "id"} => rd \in Containers

\* A status claims no more than the control files i, j and e show: the claims
\* of Truthful, the same for the state of each container, and the fact that
\* the containers of a running pod have been started.
Sound(st, i, j, e) ==
    /\ st.phase = "Succeeded" => \A c \in MainContainers : e[c] = "zero"
    /\ st.phase = "Failed" => \E c \in MainContainers : e[c] = "nonzero"
    /\ st.phase = "Running" =>
          /\ \A c \in MainContainers : j[c] = "written"
          /\ \A c \in InitContainers : e[c] = "zero"
          /\ \A c \in MainContainers : st.cs[c] \in {"running"} \cup ExitCodes
    /\ st.ready => st.phase = "Running"
    /\ st.ip => i = "written"
    /\ \A c \in Containers :
          /\ st.cs[c] = "running" => j[c] = "written"
          /\ st.cs[c] \in ExitCodes => e[c] = st.cs[c]

SoundNow(st) == Sound(st, ip, jobid, exitCode)

AllSound ==
    /\ SoundNow(crd) /\ SoundNow(updPod) /\ SoundNow(pod)
    /\ SoundNow(lis) /\ SoundNow(vk) /\ SoundNow(k8s)

\* A saved pod has not ended.
SavedNotEnded == crd.phase \notin Terminal /\ updPod.phase \notin Terminal

EventsInd ==
    /\ PauseInd
    /\ EventsTypeOK
    /\ WorkerInv
    /\ AllSound
    /\ SavedNotEnded

-----------------------------------------------------------------------------
(* The pure operators. *)

\* The phase the sequence of transitions picks is a phase.
LEMMA PhaseType == \A cs : phaseTransition(cs) \in Phases
BY DEF phaseTransition, Phases

\* UpdateStatusFromRuntime keeps a status a status.
LEMMA UpdateStatusType == ASSUME NEW st \in Status PROVE UpdateStatus(st) \in Status
<1>1. PodError(st) \in Status
  BY DEF PodError, Status, Phases
<1>2. ASSUME NEW p \in Phases
      PROVE  [st EXCEPT !.phase = p, !.ready = readyCondition(p, @)] \in Status
  <2>1. readyCondition(p, st.ready) \in BOOLEAN
    BY <1>2 DEF readyCondition, Phases, Terminal, Status
  <2> QED
    BY <1>2, <2>1 DEF Status
<1> QED
  BY <1>1, <1>2, PhaseType DEF UpdateStatus

\* It does not change what is known of the IP and of the containers.
LEMMA UpdateStatusData ==
    ASSUME NEW st \in Status
    PROVE  UpdateStatus(st).cs = st.cs /\ UpdateStatus(st).ip = st.ip
BY DEF UpdateStatus, PodError, Status

\* A status that was sound stays sound as the control files grow.
LEMMA SoundStays ==
    ASSUME PauseTypeOK, PauseTypeOK', FilesGrow,
           NEW st, SoundNow(st)
    PROVE  Sound(st, ip', jobid', exitCode')
<1>1. MainContainers \subseteq Containers /\ InitContainers \subseteq Containers
  BY ContainersAssumption DEF MainContainers, InitContainers, Containers
<1>2. \A c \in Containers : /\ jobid[c] = "written" => jobid'[c] = "written"
                            /\ exitCode[c] \in ExitCodes => exitCode'[c] = exitCode[c]
  BY DEF PauseTypeOK, FilesGrow, Grows, FileRank, TextFile, CodeFile, ExitCodes
<1>3. ip = "written" => ip' = "written"
  BY DEF PauseTypeOK, FilesGrow, Grows, FileRank, TextFile
<1> QED
  BY <1>1, <1>2, <1>3 DEF SoundNow, Sound, ExitCodes

\* The phase computed from sound container states is sound.
LEMMA UpdateStatusSound ==
    ASSUME PauseInd, NEW st \in Status, SoundNow(st)
    PROVE  SoundNow(UpdateStatus(st))
<1> DEFINE cs == st.cs
<1>1. MainContainers \subseteq Containers /\ InitContainers \subseteq Containers
      /\ MainContainers # {} /\ \A i \in InitContainers, c \in MainContainers : i < c
  BY ContainersAssumption DEF MainContainers, InitContainers, Containers
<1>2. ~InitializationFailed(cs)
  BY <1>1 DEF InitializationFailed, PauseInd, InitCodesZero, SoundNow, Sound, ExitCodes
<1>3. SUFFICES ASSUME NEW p, p = phaseTransition(cs), st.phase \notin Terminal
               PROVE  SoundNow([st EXCEPT !.phase = p, !.ready = readyCondition(p, @)])
  BY <1>2, <1>3 DEF UpdateStatus
<1>4. \A c \in MainContainers : cs[c] \in ContainerStates
  BY <1>1 DEF Status
<1>5. CASE failedJobs(cs) # {}
  <2>1. p = "Failed" /\ \E c \in MainContainers : exitCode[c] = "nonzero"
    BY <1>1, <1>3, <1>5 DEF phaseTransition, failedJobs, SoundNow, Sound, ExitCodes
  <2> QED
    BY <2>1 DEF SoundNow, Sound, readyCondition, Terminal, Status
<1>6. CASE failedJobs(cs) = {} /\ successfulJobs(cs) = MainContainers
  <2>1. p = "Succeeded" /\ \A c \in MainContainers : exitCode[c] = "zero"
    BY <1>1, <1>3, <1>6 DEF phaseTransition, successfulJobs, SoundNow, Sound, ExitCodes
  <2> QED
    BY <2>1 DEF SoundNow, Sound, readyCondition, Terminal, Status
<1>7. CASE /\ failedJobs(cs) = {} /\ successfulJobs(cs) # MainContainers
           /\ runningJobs(cs) \cup successfulJobs(cs) = MainContainers
  <2>1. p = "Running"
    BY <1>3, <1>7 DEF phaseTransition
  <2>2. \A c \in MainContainers : cs[c] \in {"running"} \cup ExitCodes
    BY <1>7 DEF runningJobs, successfulJobs, ExitCodes
  <2>3. \A c \in MainContainers : jobid[c] = "written"
    BY <1>1, <2>2 DEF SoundNow, Sound, PauseInd, CodeInv, ExitCodes
  <2>4. \A i \in InitContainers : exitCode[i] = "zero"
    BY <1>1, <2>3 DEF PauseInd, InitThenMain
  <2> QED
    BY <2>1, <2>2, <2>3, <2>4 DEF SoundNow, Sound, readyCondition, Terminal, Status
<1>8. CASE /\ failedJobs(cs) = {}
           /\ runningJobs(cs) \cup successfulJobs(cs) # MainContainers
  <2>1. \E c \in MainContainers : cs[c] \in {"none", "waiting"}
    BY <1>4, <1>8 DEF failedJobs, runningJobs, successfulJobs, ContainerStates, ExitCodes
  <2>2. p = "Pending"
    BY <1>3, <1>8, <2>1
    DEF phaseTransition, successfulJobs, runningJobs, pendingJobs, ContainerStates, ExitCodes
  <2>3. st.phase # "Running"
    BY <2>1 DEF SoundNow, Sound, ExitCodes
  <2> QED
    BY <2>2, <2>3 DEF SoundNow, Sound, readyCondition, Terminal, Status
<1> QED
  BY <1>5, <1>6, <1>7, <1>8

-----------------------------------------------------------------------------
(* The inductive invariant. *)

\* In the initial state the inductive invariant holds.
LEMMA EventsInit_Ind == EventsInit => EventsInd
<1> SUFFICES ASSUME EventsInit PROVE EventsInd
  OBVIOUS
<1>1. PauseInd
  BY PauseInit_Ind DEF EventsInit
<1>2. FreshStatus \in Status
  BY DEF FreshStatus, Status, Phases, ContainerStates
<1>3. EventsTypeOK
  <2>1. PauseTypeOK
    BY <1>1 DEF PauseInd
  <2>2. updating \in BOOLEAN /\ dirty \in BOOLEAN /\ missed \in BOOLEAN /\ crashed \in BOOLEAN
    BY Zenon DEF EventsInit
  <2>3. /\ updates \in 0 .. MaxUpdates /\ pending \in Nat /\ queue \in 0 .. MaxQueueSize
        /\ rd \in 1 .. (NInit + NMain + 1)
    BY QueueAssumption, ContainersAssumption DEF EventsInit
  <2> QED
    BY <1>2, <2>1, <2>2, <2>3 DEF EventsTypeOK, EventsInit
<1>4. SoundNow(FreshStatus)
  BY DEF SoundNow, Sound, FreshStatus, ExitCodes
<1>5. WorkerInv /\ AllSound /\ SavedNotEnded
  BY <1>4 DEF EventsInit, WorkerInv, AllSound, SavedNotEnded, FreshStatus, Terminal
<1> QED
  BY <1>1, <1>3, <1>5 DEF EventsInd

\* Every step of the composed system is a step of the pause process or leaves
\* it alone: the composition implements module Pause.
LEMMA EventsNext_Pause ==
    ASSUME annotated \in BOOLEAN, EventsNext
    PROVE  PauseNext \/ UNCHANGED pauseVars
<1>1. CASE JobCreatesFile \/ JobStep
  BY <1>1 DEF JobCreatesFile, JobStep, PauseNext
<1>2. CASE CreatePod
  BY <1>2 DEF CreatePod, SubmitJob, SavePodToFile, SavePodWrite, CreatePodNotify
<1>3. CASE UpdatePod \/ UpdatePodWrite \/ Push
  BY <1>3 DEF UpdatePod, UpdatePodWrite, Push
<1>4. CASE Worker
  BY <1>4 DEF Worker, TakeEvent, LoadFails, LoadFromDisk, ReadIP, ReadExitCode, NoExitCode,
      ReadJobID, ReadEmptyJobID, Notify
<1>5. CASE SyncStatus
  <2>1. CASE annotated' = annotated
    BY <1>5, <2>1 DEF SyncStatus, pauseVars, fileVars, sigVars
  <2>2. CASE annotated' # annotated
    <3>1. ~annotated /\ annotated' = TRUE
      BY <1>5, <2>2, Zenon DEF SyncStatus
    <3> QED
      BY <1>5, <3>1 DEF SyncStatus, PauseNext, PublishAnnotations
  <2> QED
    BY <2>1, <2>2
<1> QED
  BY <1>1, <1>2, <1>3, <1>4, <1>5 DEF EventsNext

\* Hence the composed system preserves the invariant of the pause process,
\* and only lets the control files grow.
LEMMA EventsNext_PauseInd ==
    ASSUME PauseInd, [EventsNext]_vars
    PROVE  PauseInd' /\ PauseTypeOK' /\ FilesGrow
<1>1. PauseNext \/ UNCHANGED pauseVars
  BY EventsNext_Pause DEF PauseInd, PauseTypeOK, vars
<1>2. PauseInd'
  BY <1>1, PauseNext_Ind, PauseStutter_Ind
<1>3. FilesGrow
  BY <1>1, PauseNext_FilesGrow, FilesUnchanged DEF pauseVars, fileVars
<1> QED
  BY <1>2, <1>3 DEF PauseInd

\* What reading the IP leaves in the worker's copy of the pod.
LEMMA ReadIPPod ==
    ASSUME EventsInd, ReadIP
    PROVE  /\ pod' \in Status
           /\ pod'.phase = pod.phase /\ pod'.ready = pod.ready /\ pod'.cs = pod.cs
           /\ pod'.ip <=> pod.ip \/ ip = "written"
           /\ missed' \in BOOLEAN
<1> DEFINE b == pod.ip \/ ip = "written"
<1>1. pod \in Status /\ pod' = [pod EXCEPT !.ip = b] /\ b \in BOOLEAN
  BY Zenon DEF EventsInd, EventsTypeOK, ReadIP
<1>2. missed' \in BOOLEAN
  BY Zenon DEF ReadIP
<1> HIDE DEF b
<1>3. /\ pod' \in Status
      /\ pod'.phase = pod.phase /\ pod'.ready = pod.ready /\ pod'.cs = pod.cs /\ pod'.ip = b
  BY <1>1 DEF Status
<1>4. pod'.ip <=> pod.ip \/ ip = "written"
  BY <1>1, <1>3, Zenon DEF b
<1> QED
  BY <1>2, <1>3, <1>4

\* What reading an exit code leaves in the worker's copy of the pod.
LEMMA ReadExitCodePod ==
    ASSUME EventsInd, ReadExitCode
    PROVE  /\ rd \in Containers /\ pod' \in Status
           /\ pod'.phase = pod.phase /\ pod'.ready = pod.ready /\ pod'.ip = pod.ip
           /\ pod'.cs[rd] = exitCode[rd]
           /\ \A d \in Containers : d # rd => pod'.cs[d] = pod.cs[d]
<1> DEFINE f == [pod.cs EXCEPT ![rd] = exitCode[rd]]
<1>1. rd \in Containers /\ pod \in Status /\ exitCode[rd] \in ContainerStates
      /\ pod' = [pod EXCEPT !.cs = f]
  BY DEF EventsInd, EventsTypeOK, WorkerInv, ReadExitCode, ContainerStates, Status
<1>2. f \in [Containers -> ContainerStates] /\ f[rd] = exitCode[rd]
      /\ \A d \in Containers : d # rd => f[d] = pod.cs[d]
  BY <1>1 DEF Status
<1> HIDE DEF f
<1>3. /\ pod' \in Status
      /\ pod'.phase = pod.phase /\ pod'.ready = pod.ready /\ pod'.ip = pod.ip /\ pod'.cs = f
  BY <1>1, <1>2 DEF Status
<1> QED
  BY <1>1, <1>2, <1>3

\* What reading a .jobid file leaves in it.
LEMMA ReadJobIDPod ==
    ASSUME EventsInd, ReadJobID
    PROVE  /\ rd \in Containers /\ pod' \in Status
           /\ pod'.phase = pod.phase /\ pod'.ready = pod.ready /\ pod'.ip = pod.ip
           /\ pod'.cs[rd] = IF jobid[rd] = "absent" THEN "waiting" ELSE "running"
           /\ \A d \in Containers : d # rd => pod'.cs[d] = pod.cs[d]
<1> DEFINE x == IF jobid[rd] = "absent" THEN "waiting" ELSE "running"
           f == [pod.cs EXCEPT ![rd] = x]
<1>1. rd \in Containers /\ pod \in Status /\ x \in ContainerStates
      /\ pod' = [pod EXCEPT !.cs = f]
  BY DEF EventsInd, EventsTypeOK, WorkerInv, ReadJobID, ContainerStates, Status
<1>2. f \in [Containers -> ContainerStates] /\ f[rd] = x
      /\ \A d \in Containers : d # rd => f[d] = pod.cs[d]
  BY <1>1 DEF Status
<1> HIDE DEF f
<1>3. /\ pod' \in Status
      /\ pod'.phase = pod.phase /\ pod'.ready = pod.ready /\ pod'.ip = pod.ip /\ pod'.cs = f
  BY <1>1, <1>2 DEF Status
<1> QED
  BY <1>1, <1>2, <1>3

\* Every step preserves the types and the worker's position.
LEMMA EventsNext_TypeOK ==
    ASSUME EventsInd, PauseTypeOK', [EventsNext]_vars
    PROVE  EventsTypeOK' /\ WorkerInv'
<1> USE ContainersAssumption, QueueAssumption
    DEF EventsInd, EventsTypeOK, WorkerInv, createVars, queueVars, workerVars, vkVars,
        hpkVars, Containers
<1>1. CASE JobCreatesFile \/ JobStep
  BY <1>1 DEF JobCreatesFile, JobStep
<1>2. FreshStatus \in Status
  BY DEF FreshStatus, Status, Phases, ContainerStates
<1>3. CASE SubmitJob \/ SavePodToFile
  BY <1>3 DEF SubmitJob, SavePodToFile
<1>4. CASE SavePodWrite
  BY <1>2, <1>4 DEF SavePodWrite
<1>5. CASE CreatePodNotify
  <2>1. dirty' \in BOOLEAN
    BY <1>5, Zenon DEF CreatePodNotify
  <2> QED
    BY <1>2, <1>5, <2>1 DEF CreatePodNotify
<1>6. CASE UpdatePod \/ UpdatePodWrite
  <2>1. updating' \in BOOLEAN
    BY <1>6, Zenon DEF UpdatePod, UpdatePodWrite
  <2> QED
    BY <1>2, <1>6, <2>1 DEF UpdatePod, UpdatePodWrite
<1>7. CASE Push
  BY <1>7 DEF Push
<1>8. CASE TakeEvent
  BY <1>8 DEF TakeEvent
<1>9. CASE LoadFails
  <2>1. missed' \in BOOLEAN
    BY <1>9, Zenon DEF LoadFails
  <2> QED
    BY <1>9, <2>1 DEF LoadFails
<1>10. CASE LoadFromDisk
  BY <1>10 DEF LoadFromDisk
<1>11. CASE ReadIP
  BY <1>11, ReadIPPod DEF ReadIP
<1>12. CASE ReadExitCode
  BY <1>12, ReadExitCodePod DEF ReadExitCode, AfterRead
<1>13. CASE NoExitCode
  <2>1. missed' \in BOOLEAN
    BY <1>13, Zenon DEF NoExitCode
  <2> QED
    BY <1>13, <2>1 DEF NoExitCode
<1>14. CASE ReadJobID
  BY <1>14, ReadJobIDPod DEF ReadJobID, AfterRead
<1>15. CASE ReadEmptyJobID
  <2>1. crashed' \in BOOLEAN
    BY <1>15, Zenon DEF ReadEmptyJobID
  <2> QED
    BY <1>15, <2>1 DEF ReadEmptyJobID
<1>16. CASE Notify
  <2>1. dirty' \in BOOLEAN
    BY <1>16, Zenon DEF Notify
  <2> QED
    BY <1>2, <1>16, <2>1, UpdateStatusType DEF Notify
<1>17. CASE SyncStatus
  <2>1. dirty' \in BOOLEAN
    BY <1>17, Zenon DEF SyncStatus
  <2> QED
    BY <1>17, <2>1 DEF SyncStatus
<1>18. CASE UNCHANGED vars
  BY <1>18 DEF vars
<1> HIDE DEF EventsInd, EventsTypeOK, WorkerInv, createVars, queueVars, workerVars, vkVars,
        hpkVars, Containers
<1> QED
  BY <1>1, <1>3, <1>4, <1>5, <1>6, <1>7, <1>8, <1>9, <1>10, <1>11, <1>12, <1>13, <1>14, <1>15,
     <1>16, <1>17, <1>18
  DEF EventsNext, CreatePod, Worker

\* Every step keeps every status sound: those it leaves alone because the
\* files only grow, those it changes because of what it reads.
LEMMA EventsNext_Sound ==
    ASSUME EventsInd, PauseTypeOK', FilesGrow, [EventsNext]_vars
    PROVE  AllSound' /\ SavedNotEnded'
<1> DEFINE Good(st) == Sound(st, ip', jobid', exitCode')
<1>1. \A st : SoundNow(st) => Good(st)
  BY SoundStays DEF EventsInd, PauseInd
<1>2. Good(crd) /\ Good(updPod) /\ Good(pod) /\ Good(lis) /\ Good(vk) /\ Good(k8s)
  BY <1>1 DEF EventsInd, AllSound
<1>3. Good(FreshStatus) /\ FreshStatus.phase \notin Terminal
  BY DEF Sound, FreshStatus, ExitCodes, Terminal
<1>4. SUFFICES /\ Good(crd') /\ Good(updPod') /\ Good(pod')
               /\ Good(lis') /\ Good(vk') /\ Good(k8s')
               /\ SavedNotEnded'
  BY DEF AllSound, SoundNow
<1> HIDE DEF Good
<1> USE <1>2 DEF createVars, queueVars, workerVars, vkVars, hpkVars, EventsInd, SavedNotEnded
<1>5. CASE JobCreatesFile \/ JobStep
  BY <1>5 DEF JobCreatesFile, JobStep
<1>6. CASE CreatePod
  BY <1>3, <1>6 DEF CreatePod, SubmitJob, SavePodToFile, SavePodWrite, CreatePodNotify
<1>7. CASE UpdatePod \/ UpdatePodWrite
  BY <1>3, <1>7 DEF UpdatePod, UpdatePodWrite
<1>8. CASE Push \/ TakeEvent \/ LoadFails \/ LoadFromDisk \/ NoExitCode \/ ReadEmptyJobID
  BY <1>8 DEF Push, TakeEvent, LoadFails, LoadFromDisk, NoExitCode, ReadEmptyJobID
<1>9. CASE ReadIP
  <2>1. SoundNow(pod')
    <3>1. pod'.ip => ip = "written"
      BY <1>9, ReadIPPod, Zenon DEF AllSound, SoundNow, Sound
    <3> QED
      BY <1>9, <3>1, ReadIPPod DEF AllSound, SoundNow, Sound
  <2> QED
    BY <1>1, <1>9, <2>1 DEF ReadIP
<1>10. CASE ReadExitCode
  <2>1. SoundNow(pod')
    <3>1. exitCode[rd] \in ExitCodes
      BY <1>10 DEF ReadExitCode
    <3> QED
      BY <1>10, <3>1, ReadExitCodePod, ContainersAssumption
      DEF AllSound, SoundNow, Sound, ExitCodes, Containers, MainContainers
  <2> QED
    BY <1>1, <1>10, <2>1 DEF ReadExitCode
<1>11. CASE ReadJobID
  <2>1. SoundNow(pod')
    <3>1. jobid[rd] \in {"absent", "written"}
      BY <1>11, ReadJobIDPod
      DEF ReadJobID, AllSound, SoundNow, Sound, PauseInd, PauseTypeOK, TextFile
    <3>2. pod.phase = "Running" => \A c \in MainContainers : jobid[c] = "written"
      BY DEF AllSound, SoundNow, Sound
    <3> QED
      BY <1>11, <3>1, <3>2, ReadJobIDPod, ContainersAssumption
      DEF AllSound, SoundNow, Sound, ExitCodes, Containers, MainContainers
  <2> QED
    BY <1>1, <1>11, <2>1 DEF ReadJobID
<1>12. CASE Notify
  <2>1. SoundNow(UpdateStatus(pod))
    BY UpdateStatusSound DEF AllSound, EventsTypeOK
  <2> QED
    BY <1>1, <1>3, <1>12, <2>1 DEF Notify
<1>13. CASE SyncStatus
  BY <1>13 DEF SyncStatus
<1>14. CASE UNCHANGED vars
  BY <1>14 DEF vars
<1> HIDE DEF EventsInd, SavedNotEnded
<1> QED
  BY <1>5, <1>6, <1>7, <1>8, <1>9, <1>10, <1>11, <1>12, <1>13, <1>14 DEF EventsNext, Worker

-----------------------------------------------------------------------------
(* The theorems. *)

\* The inductive invariant holds in every reachable state.
THEOREM EventsSafety_Ind == EventsSafety => []EventsInd
<1>1. EventsInd /\ [EventsNext]_vars => EventsInd'
  <2> SUFFICES ASSUME EventsInd, [EventsNext]_vars PROVE EventsInd'
    OBVIOUS
  <2>1. PauseInd' /\ PauseTypeOK' /\ FilesGrow
    BY EventsNext_PauseInd DEF EventsInd
  <2>2. EventsTypeOK' /\ WorkerInv'
    BY <2>1, EventsNext_TypeOK
  <2>3. AllSound' /\ SavedNotEnded'
    BY <2>1, EventsNext_Sound
  <2> QED
    BY <2>1, <2>2, <2>3 DEF EventsInd
<1> QED
  BY <1>1, EventsInit_Ind, PTL DEF EventsSafety

\* Type correctness.
THEOREM EventsSafety_TypeOK == EventsSafety => []EventsTypeOK
<1>1. EventsInd => EventsTypeOK
  BY DEF EventsInd
<1> QED
  BY <1>1, EventsSafety_Ind, PTL

\* No status claims more than the control files show, whatever the number of
\* containers, the capacity of the queue and the interleaving of the worker
\* (listener.go), CreatePod and UpdatePod (provider.go) with the job.
THEOREM EventsSafety_StatusTruthful == EventsSafety => []StatusTruthful
<1>1. EventsInd => StatusTruthful
  BY DEF EventsInd, AllSound, SoundNow, Sound, StatusTruthful, Truthful
<1> QED
  BY <1>1, EventsSafety_Ind, PTL

-----------------------------------------------------------------------------
(* What the worker has read. *)

Reading == wpc \in {"exit", "id", "notify"}

\* The worker has read the files of container c.
HasRead(c) == wpc = "notify" \/ (wpc \in {"exit", "id"} /\ c < rd)

-----------------------------------------------------------------------------
(* No regress. *)

\* What the notified phase rests on.
PhaseBacked ==
    /\ lis.phase = "Failed" => \E c \in MainContainers : lis.cs[c] = "nonzero"
    /\ lis.phase = "Succeeded" => \A c \in MainContainers : lis.cs[c] = "zero"
    /\ lis.phase = "Running" => \A c \in MainContainers : lis.cs[c] \in {"running"} \cup ExitCodes

\* The worker's copy is at least as advanced as the last notification.
Advanced ==
    /\ pod.phase \notin Terminal
    /\ \A c \in Containers : HasRead(c) =>
          /\ lis.cs[c] \in ExitCodes => pod.cs[c] = lis.cs[c]
          /\ lis.cs[c] = "running" => pod.cs[c] \in {"running"} \cup ExitCodes
          /\ c \in InitContainers /\ lis.phase # "Pending" => pod.cs[c] = "zero"
    /\ wpc = "id" =>
          /\ lis.cs[rd] \notin ExitCodes
          /\ rd \in InitContainers => lis.phase = "Pending"

RegressInd == EventsInd /\ PhaseBacked /\ Advanced

-----------------------------------------------------------------------------
(* No lost update. *)

NoEventLeft == pending = 0 /\ queue = 0 /\ ~missed /\ ~crashed

\* Status st agrees with the files of container c, none of which is empty.
Agrees(st, c) ==
    /\ exitCode[c] # "empty" /\ jobid[c] # "empty"
    /\ FileState(c) # "waiting" => st.cs[c] = FileState(c)

IPAgrees(st) == ip = "absent" \/ (ip = "written" /\ st.ip)

PhaseAgrees(st) ==
    /\ (\A c \in MainContainers : exitCode[c] = "zero") => st.phase = "Succeeded"
    /\ (\E c \in MainContainers : exitCode[c] = "nonzero") => st.phase = "Failed"

\* With no event left, what the worker has read, and what it notified when it
\* was last through, is what the files hold now.
UpToDate ==
    NoEventLeft =>
        /\ Reading => IPAgrees(pod)
        /\ \A c \in Containers : HasRead(c) => Agrees(pod, c)
        /\ wpc = "id" => exitCode[rd] = "absent"
        /\ wpc = "idle" =>
              IPAgrees(lis) /\ PhaseAgrees(lis) /\ \A c \in Containers : Agrees(lis, c)

UpdateInd == EventsInd /\ pod.phase \notin Terminal /\ UpToDate

-----------------------------------------------------------------------------
(* What UpdateStatus makes of the containers' states. *)

\* A sound status has no failed init container: pause never saves such a code.
LEMMA NoInitializationFailed ==
    ASSUME EventsInd, NEW st, SoundNow(st)
    PROVE  ~InitializationFailed(st.cs)
BY ContainersAssumption
DEF InitializationFailed, EventsInd, PauseInd, InitCodesZero, SoundNow, Sound, ExitCodes,
    InitContainers, Containers

\* The phase of a pod that has not ended is backed by its containers' states.
LEMMA UpdateStatusBacked ==
    ASSUME NEW st \in Status, st.phase \notin Terminal, ~InitializationFailed(st.cs),
           NEW p, p = UpdateStatus(st).phase,
           st.phase = "Running" =>
               \A c \in MainContainers : st.cs[c] \in {"running"} \cup ExitCodes
    PROVE  /\ p = "Failed" => \E c \in MainContainers : st.cs[c] = "nonzero"
           /\ p = "Succeeded" => \A c \in MainContainers : st.cs[c] = "zero"
           /\ p = "Running" => \A c \in MainContainers : st.cs[c] \in {"running"} \cup ExitCodes
<1>1. \A c \in MainContainers : st.cs[c] \in {"none", "waiting", "running", "zero", "nonzero"}
  BY ContainersAssumption
  DEF Status, ContainerStates, ExitCodes, MainContainers, Containers
<1>2. p = st.phase \/ p = phaseTransition(st.cs)
  BY DEF UpdateStatus, Status
<1>3. CASE p = st.phase
  BY <1>3 DEF Terminal, Status, Phases
<1>4. CASE p = phaseTransition(st.cs)
  BY <1>1, <1>4
  DEF phaseTransition, failedJobs, successfulJobs, runningJobs, pendingJobs, ExitCodes
<1> QED
  BY <1>2, <1>3, <1>4

\* Conversely the containers' states decide the phase, once the init
\* containers of a pending pod are known to have succeeded.
LEMMA UpdateStatusDecided ==
    ASSUME NEW st \in Status, st.phase \notin Terminal,
           \A i \in InitContainers : st.cs[i] = "zero",
           NEW p, p = UpdateStatus(st).phase
    PROVE  /\ (\E c \in MainContainers : st.cs[c] = "nonzero") => p = "Failed"
           /\ (\A c \in MainContainers : st.cs[c] = "zero") => p = "Succeeded"
           /\ (\A c \in MainContainers : st.cs[c] \in {"running"} \cup ExitCodes) => p # "Pending"
<1>1. p = phaseTransition(st.cs)
  BY DEF UpdateStatus, StillInitializing, InitializationFailed, FirstUnsuccessful, Status
<1>2. (\E c \in MainContainers : st.cs[c] = "nonzero") => p = "Failed"
  BY <1>1 DEF phaseTransition, failedJobs
<1>3. (\A c \in MainContainers : st.cs[c] = "zero") => p = "Succeeded"
  BY <1>1 DEF phaseTransition, failedJobs, successfulJobs
<1>4. (\A c \in MainContainers : st.cs[c] \in {"running"} \cup ExitCodes) => p # "Pending"
  BY <1>1 DEF phaseTransition, failedJobs, successfulJobs, runningJobs, pendingJobs, ExitCodes
<1> QED
  BY <1>2, <1>3, <1>4

\* The worker's copy has not ended, because no saved pod has.
LEMMA PodNotEnded ==
    ASSUME EventsInd, pod.phase \notin Terminal, [EventsNext]_vars
    PROVE  pod'.phase \notin Terminal
<1>1. CASE ReadIP
  BY <1>1, ReadIPPod
<1>2. CASE ReadExitCode
  BY <1>2, ReadExitCodePod
<1>3. CASE ReadJobID
  BY <1>3, ReadJobIDPod
<1>4. CASE Notify
  BY <1>4 DEF Notify, FreshStatus, Terminal
<1>5. CASE LoadFromDisk
  BY <1>5 DEF LoadFromDisk, EventsInd, SavedNotEnded
<1>6. CASE pod' = pod
  BY <1>6
<1>7. JobCreatesFile \/ JobStep \/ CreatePod \/ UpdatePod \/ UpdatePodWrite \/ Push
      \/ TakeEvent \/ LoadFails \/ NoExitCode \/ ReadEmptyJobID \/ SyncStatus \/ UNCHANGED vars
      => pod' = pod
  BY DEF JobCreatesFile, JobStep, CreatePod, SubmitJob, SavePodToFile, SavePodWrite,
     CreatePodNotify, UpdatePod, UpdatePodWrite, Push, TakeEvent, LoadFails, NoExitCode,
     ReadEmptyJobID, SyncStatus, vars, hpkVars, workerVars
<1> QED
  BY <1>1, <1>2, <1>3, <1>4, <1>5, <1>6, <1>7 DEF EventsNext, Worker

-----------------------------------------------------------------------------
(* No regress. *)

\* Steps that leave the worker alone.
OffWorker ==
    \/ JobCreatesFile \/ JobStep \/ CreatePod \/ UpdatePod \/ UpdatePodWrite \/ Push
    \/ ReadEmptyJobID \/ SyncStatus \/ UNCHANGED vars

\* They do leave it alone.
LEMMA OffWorkerUnchanged == OffWorker => UNCHANGED workerVars
BY DEF OffWorker, JobCreatesFile, JobStep, CreatePod, SubmitJob, SavePodToFile, SavePodWrite,
   CreatePodNotify, UpdatePod, UpdatePodWrite, Push, ReadEmptyJobID, SyncStatus, vars, hpkVars,
   workerVars

\* The phase the worker is about to notify is no step back.
LEMMA NotifyAdvances ==
    ASSUME RegressInd, Notify
    PROVE  /\ PhaseRank(lis.phase) <= PhaseRank(lis'.phase)
           /\ lis.phase \in Terminal => lis'.phase = lis.phase
<1> DEFINE p == UpdateStatus(pod).phase
<1>1. pod \in Status /\ lis.phase \in Phases /\ p \in Phases /\ lis'.phase = p
  BY UpdateStatusType DEF RegressInd, EventsInd, EventsTypeOK, Notify, Status
<1>2. /\ \A c \in Containers :
            /\ lis.cs[c] \in ExitCodes => pod.cs[c] = lis.cs[c]
            /\ lis.cs[c] = "running" => pod.cs[c] \in {"running"} \cup ExitCodes
      /\ lis.phase # "Pending" => \A c \in InitContainers : pod.cs[c] = "zero"
      /\ pod.phase \notin Terminal
      /\ MainContainers \subseteq Containers
  BY ContainersAssumption
  DEF RegressInd, Advanced, HasRead, Notify, InitContainers, MainContainers, Containers
<1> HIDE DEF p
<1>3. lis.phase # "Pending" =>
        /\ (\E c \in MainContainers : pod.cs[c] = "nonzero") => p = "Failed"
        /\ (\A c \in MainContainers : pod.cs[c] = "zero") => p = "Succeeded"
        /\ (\A c \in MainContainers : pod.cs[c] \in {"running"} \cup ExitCodes) => p # "Pending"
  BY <1>1, <1>2, UpdateStatusDecided DEF p
<1>4. CASE lis.phase = "Pending"
  BY <1>1, <1>4 DEF PhaseRank, Phases, Terminal
<1>5. CASE lis.phase = "Running"
  <2>1. p # "Pending"
    BY <1>2, <1>3, <1>5 DEF RegressInd, PhaseBacked
  <2> QED
    BY <1>1, <1>5, <2>1 DEF PhaseRank, Phases, Terminal
<1>6. CASE lis.phase = "Succeeded"
  <2>1. p = "Succeeded"
    BY <1>2, <1>3, <1>6 DEF RegressInd, PhaseBacked, ExitCodes
  <2> QED
    BY <1>1, <1>6, <2>1 DEF PhaseRank, Terminal
<1>7. CASE lis.phase = "Failed"
  <2>1. p = "Failed"
    BY <1>2, <1>3, <1>7 DEF RegressInd, PhaseBacked, ExitCodes
  <2> QED
    BY <1>1, <1>7, <2>1 DEF PhaseRank, Terminal
<1> QED
  BY <1>1, <1>4, <1>5, <1>6, <1>7 DEF Phases

\* An init container has succeeded once the notified phase is not "Pending".
LEMMA InitsDone ==
    ASSUME EventsInd, lis.phase # "Pending", NEW i \in InitContainers
    PROVE  exitCode[i] = "zero"
<1>1. lis.phase \in {"Running", "Succeeded", "Failed"}
  BY DEF EventsInd, EventsTypeOK, Status, Phases
<1>2. MainContainers # {} /\ MainContainers \subseteq Containers
      /\ \A c \in MainContainers : i < c
  BY ContainersAssumption DEF MainContainers, Containers, InitContainers
<1>3. PICK c \in MainContainers : jobid[c] = "written"
  BY <1>1, <1>2 DEF EventsInd, AllSound, SoundNow, Sound, PauseInd, CodeInv
<1> QED
  BY <1>2, <1>3 DEF EventsInd, PauseInd, InitThenMain

\* Every step preserves what the no-regress argument needs.
LEMMA EventsNext_Regress ==
    ASSUME RegressInd, [EventsNext]_vars
    PROVE  PhaseBacked' /\ Advanced'
<1>1. pod'.phase \notin Terminal
  BY PodNotEnded DEF RegressInd, Advanced
<1> USE ContainersAssumption DEF RegressInd, HasRead
<1>2. CASE OffWorker
  BY <1>2, OffWorkerUnchanged DEF workerVars, PhaseBacked, Advanced
<1>3. CASE TakeEvent \/ LoadFails
  BY <1>1, <1>3 DEF TakeEvent, LoadFails, PhaseBacked, Advanced
<1>4. CASE LoadFromDisk
  BY <1>1, <1>4 DEF LoadFromDisk, PhaseBacked, Advanced, EventsInd, SavedNotEnded
<1>5. CASE ReadIP
  BY <1>1, <1>5 DEF ReadIP, PhaseBacked, Advanced, EventsInd, WorkerInv, Containers
<1>6. CASE ReadExitCode
  <2>1. PhaseBacked'
    BY <1>6 DEF ReadExitCode, PhaseBacked
  <2>2. /\ rd \in Containers /\ lis' = lis
        /\ \A c \in Containers : HasRead(c)' => c = rd \/ HasRead(c)
        /\ wpc' # "id"
    BY <1>6, ReadExitCodePod
    DEF ReadExitCode, AfterRead, Containers, EventsInd, WorkerInv
  <2>3. /\ lis.cs[rd] \in ExitCodes => pod'.cs[rd] = lis.cs[rd]
        /\ pod'.cs[rd] \in ExitCodes
        /\ rd \in InitContainers => pod'.cs[rd] = "zero"
    BY <1>6, <2>2, ReadExitCodePod
    DEF ReadExitCode, EventsInd, AllSound, SoundNow, Sound, PauseInd, InitCodesZero, ExitCodes
  <2>4. \A c \in Containers : c # rd => pod'.cs[c] = pod.cs[c]
    BY <1>6, ReadExitCodePod
  <2> QED
    BY <1>1, <2>1, <2>2, <2>3, <2>4 DEF Advanced
<1>7. CASE NoExitCode
  <2>1. /\ lis.cs[rd] \notin ExitCodes
        /\ rd \in InitContainers => lis.phase = "Pending"
    BY <1>7, InitsDone
    DEF NoExitCode, EventsInd, WorkerInv, AllSound, SoundNow, Sound, ExitCodes
  <2> QED
    BY <1>1, <1>7, <2>1 DEF NoExitCode, PhaseBacked, Advanced
<1>8. CASE ReadJobID
  <2>1. PhaseBacked'
    BY <1>8 DEF ReadJobID, PhaseBacked
  <2>2. /\ rd \in Containers /\ lis' = lis
        /\ \A c \in Containers : HasRead(c)' => c = rd \/ HasRead(c)
        /\ wpc' # "id"
    BY <1>8, ReadJobIDPod
    DEF ReadJobID, AfterRead, Containers, EventsInd, WorkerInv
  <2>3. /\ lis.cs[rd] \notin ExitCodes
        /\ rd \in InitContainers => lis.phase = "Pending"
        /\ lis.cs[rd] = "running" => pod'.cs[rd] = "running"
    BY <1>8, <2>2, ReadJobIDPod
    DEF ReadJobID, Advanced, EventsInd, AllSound, SoundNow, Sound
  <2>4. \A c \in Containers : c # rd => pod'.cs[c] = pod.cs[c]
    BY <1>8, ReadJobIDPod
  <2> QED
    BY <1>1, <2>1, <2>2, <2>3, <2>4 DEF Advanced
<1>9. CASE Notify
  <2>1. /\ lis' = UpdateStatus(pod) /\ lis'.cs = pod.cs
        /\ pod \in Status /\ SoundNow(pod) /\ pod.phase \notin Terminal
    BY <1>9, UpdateStatusData DEF Notify, EventsInd, EventsTypeOK, AllSound, Advanced
  <2>2. /\ ~InitializationFailed(pod.cs)
        /\ pod.phase = "Running" =>
              \A c \in MainContainers : pod.cs[c] \in {"running"} \cup ExitCodes
    BY <2>1, NoInitializationFailed DEF SoundNow, Sound
  <2>3. PhaseBacked'
    BY <2>1, <2>2, UpdateStatusBacked DEF PhaseBacked
  <2> QED
    BY <1>1, <1>9, <2>3 DEF Notify, Advanced
<1> HIDE DEF RegressInd, HasRead
<1> QED
  BY <1>2, <1>3, <1>4, <1>5, <1>6, <1>7, <1>8, <1>9 DEF EventsNext, Worker, OffWorker

\* The phases the listener notifies only advance and an end is final: a status
\* recomputed from the files (listener.go, UpdateStatus and NotifyVirtualKubelet)
\* is never behind the one notified before it.
THEOREM EventsSafety_NeverRegresses == EventsSafety => ListenerNeverRegresses
<1> DEFINE Step == /\ PhaseRank(lis.phase) <= PhaseRank(lis'.phase)
                   /\ lis.phase \in Terminal => lis'.phase = lis.phase
<1>1. EventsInit => PhaseBacked /\ Advanced
  BY DEF EventsInit, FreshStatus, PhaseBacked, Advanced, HasRead, Terminal
<1>2. EventsInd /\ PhaseBacked /\ Advanced /\ [EventsNext]_vars => (PhaseBacked /\ Advanced)'
  BY EventsNext_Regress DEF RegressInd
<1>3. EventsInd /\ PhaseBacked /\ Advanced /\ [EventsNext]_vars => [Step]_vars
  <2> SUFFICES ASSUME EventsInd, PhaseBacked, Advanced, EventsNext PROVE Step
    OBVIOUS
  <2>1. CASE Notify
    BY <2>1, NotifyAdvances DEF RegressInd
  <2>2. CASE lis' = lis
    <3>1. lis.phase \in Phases
      BY DEF EventsInd, EventsTypeOK, Status
    <3> QED
      BY <2>2, <3>1 DEF PhaseRank, Phases, Terminal
  <2>3. lis' = lis \/ Notify
    BY OffWorkerUnchanged
    DEF EventsNext, Worker, OffWorker, workerVars, TakeEvent, LoadFails, LoadFromDisk, ReadIP,
        ReadExitCode, NoExitCode, ReadJobID
  <2> QED
    BY <2>1, <2>2, <2>3
<1> QED
  BY <1>1, <1>2, <1>3, EventsSafety_Ind, PTL DEF EventsSafety, ListenerNeverRegresses

-----------------------------------------------------------------------------
(* No lost update. *)

\* A step of the job that creates no file fills none the worker has agreed
\* with: a file with content, or absent, stays as it is.
LEMMA JobStep_UpToDate == ASSUME UpdateInd, JobStep PROVE UpToDate'
<1>1. /\ Fills(ip, ip')
      /\ \A c \in Containers : Fills(jobid[c], jobid'[c]) /\ Fills(exitCode[c], exitCode'[c])
  BY OtherStep_Fills DEF UpdateInd, EventsInd, JobStep
<1>2. UNCHANGED <<wpc, rd, pod, lis, pending, queue, missed, crashed>>
  BY DEF JobStep, hpkVars, workerVars, queueVars
<1>3. ASSUME NEW st, NEW c \in Containers, Agrees(st, c)
      PROVE  /\ jobid'[c] = jobid[c] /\ exitCode'[c] = exitCode[c]
             /\ Agrees(st, c)'
  BY <1>1, <1>3 DEF Agrees, Fills, FileState
<1>4. ASSUME NEW st, IPAgrees(st) PROVE ip' = "absent" \/ (ip' = "written" /\ st.ip)
  BY <1>1, <1>4, Zenon DEF IPAgrees, Fills
<1>5. SUFFICES ASSUME NoEventLeft' PROVE
        /\ Reading' => IPAgrees(pod)'
        /\ \A c \in Containers : HasRead(c)' => Agrees(pod, c)'
        /\ wpc' = "id" => exitCode'[rd'] = "absent"
        /\ wpc' = "idle" =>
              IPAgrees(lis)' /\ PhaseAgrees(lis)' /\ \A c \in Containers : Agrees(lis, c)'
  BY DEF UpToDate
<1>6. NoEventLeft
  BY <1>2, <1>5 DEF NoEventLeft
<1>7. Reading' => IPAgrees(pod)'
  BY <1>2, <1>4, <1>6, Zenon DEF UpdateInd, UpToDate, Reading, IPAgrees
<1>8. \A c \in Containers : HasRead(c)' => Agrees(pod, c)'
  BY <1>2, <1>3, <1>6 DEF UpdateInd, UpToDate, HasRead, Agrees, FileState
<1>9. wpc' = "id" => exitCode'[rd'] = "absent"
  BY <1>1, <1>2, <1>6 DEF UpdateInd, UpToDate, EventsInd, WorkerInv, Fills
<1>10. ASSUME wpc' = "idle"
       PROVE  IPAgrees(lis)' /\ PhaseAgrees(lis)' /\ \A c \in Containers : Agrees(lis, c)'
  <2>1. IPAgrees(lis) /\ PhaseAgrees(lis) /\ \A c \in Containers : Agrees(lis, c)
    BY <1>2, <1>6, <1>10 DEF UpdateInd, UpToDate
  <2>2. \A c \in Containers : exitCode'[c] = exitCode[c] /\ jobid'[c] = jobid[c]
    BY <1>3, <2>1
  <2>3. PhaseAgrees(lis)'
    BY <1>2, <2>1, <2>2, ContainersAssumption DEF PhaseAgrees, MainContainers, Containers
  <2>4. IPAgrees(lis)'
    BY <1>2, <1>4, <2>1, Zenon DEF IPAgrees
  <2>5. \A c \in Containers : Agrees(lis, c)'
    BY <1>2, <2>1, <2>2 DEF Agrees, FileState
  <2> QED
    BY <2>3, <2>4, <2>5
<1> QED
  BY <1>7, <1>8, <1>9, <1>10

\* When the worker is through with no event left, its notification agrees
\* with the files.
LEMMA Notify_UpToDate == ASSUME UpdateInd, Notify PROVE UpToDate'
<1>1. /\ UNCHANGED <<ip, jobid, exitCode, pending, queue, missed, crashed>>
      /\ wpc = "notify" /\ wpc' = "idle" /\ lis' = UpdateStatus(pod)
  BY DEF Notify, pauseVars, queueVars
<1>2. pod \in Status /\ pod.phase \notin Terminal
      /\ lis'.cs = pod.cs /\ lis'.ip = pod.ip
  BY <1>1, UpdateStatusData DEF UpdateInd, EventsInd, EventsTypeOK
<1>3. SUFFICES ASSUME NoEventLeft
               PROVE  IPAgrees(lis)' /\ PhaseAgrees(lis)' /\ \A c \in Containers : Agrees(lis, c)'
  BY <1>1 DEF UpToDate, NoEventLeft, Reading, HasRead
<1>4. IPAgrees(pod) /\ \A c \in Containers : Agrees(pod, c)
  BY <1>1, <1>3 DEF UpdateInd, UpToDate, Reading, HasRead
<1>5. IPAgrees(lis)' /\ \A c \in Containers : Agrees(lis, c)'
  BY <1>1, <1>2, <1>4 DEF IPAgrees, Agrees, FileState
<1>6. MainContainers \subseteq Containers /\ InitContainers \subseteq Containers
      /\ MainContainers # {} /\ \A i \in InitContainers, c \in MainContainers : i < c
  BY ContainersAssumption DEF MainContainers, InitContainers, Containers
<1>7. \A c \in Containers : exitCode[c] \in ExitCodes => pod.cs[c] = exitCode[c]
  BY <1>4 DEF Agrees, FileState, ExitCodes
<1>8. (\E c \in MainContainers : exitCode[c] \in ExitCodes)
      => \A i \in InitContainers : pod.cs[i] = "zero"
  <2> SUFFICES ASSUME NEW c \in MainContainers, exitCode[c] \in ExitCodes,
                      NEW i \in InitContainers
               PROVE  pod.cs[i] = "zero"
    OBVIOUS
  <2>1. exitCode[i] = "zero"
    BY <1>6 DEF UpdateInd, EventsInd, PauseInd, CodeInv, InitThenMain, ExitCodes
  <2> QED
    BY <1>6, <1>7, <2>1 DEF ExitCodes
<1>9. PhaseAgrees(lis)'
  <2>1. CASE \A c \in MainContainers : exitCode[c] = "zero"
    <3>1. \A c \in MainContainers : pod.cs[c] = "zero"
      BY <1>6, <1>7, <2>1 DEF ExitCodes
    <3>2. \A i \in InitContainers : pod.cs[i] = "zero"
      BY <1>6, <1>8, <2>1 DEF ExitCodes
    <3>3. lis'.phase = "Succeeded"
      BY <1>1, <1>2, <3>1, <3>2, UpdateStatusDecided
    <3> QED
      BY <1>1, <1>6, <2>1, <3>3 DEF PhaseAgrees
  <2>2. CASE \E c \in MainContainers : exitCode[c] = "nonzero"
    <3>1. \E c \in MainContainers : pod.cs[c] = "nonzero"
      BY <1>6, <1>7, <2>2 DEF ExitCodes
    <3>2. \A i \in InitContainers : pod.cs[i] = "zero"
      BY <1>8, <2>2 DEF ExitCodes
    <3>3. lis'.phase = "Failed"
      BY <1>1, <1>2, <3>1, <3>2, UpdateStatusDecided
    <3> QED
      BY <1>1, <2>2, <3>3 DEF PhaseAgrees
  <2> QED
    BY <1>1, <2>1, <2>2 DEF PhaseAgrees
<1> QED
  BY <1>5, <1>9

\* Every step preserves the agreement.
LEMMA EventsNext_UpToDate == ASSUME UpdateInd, [EventsNext]_vars PROVE UpToDate'
<1> DEFINE Same == UNCHANGED <<ip, jobid, exitCode, wpc, rd, pod, lis, pending, queue,
                               missed, crashed>>
<1>1. Same => UpToDate'
  BY DEF UpdateInd, UpToDate, NoEventLeft, Reading, HasRead, Agrees, IPAgrees, PhaseAgrees,
     FileState
<1>2. CASE CreatePod \/ UpdatePod \/ UpdatePodWrite \/ SyncStatus \/ UNCHANGED vars
  <2>1. Same
    BY <1>2 DEF CreatePod, SubmitJob, SavePodToFile, SavePodWrite, CreatePodNotify, UpdatePod,
       UpdatePodWrite, SyncStatus, vars, hpkVars, pauseVars, fileVars, workerVars, queueVars
  <2> QED
    BY <1>1, <2>1
<1>3. CASE JobCreatesFile
  BY <1>3 DEF JobCreatesFile, UpdateInd, EventsInd, EventsTypeOK, UpToDate, NoEventLeft
<1>4. CASE JobStep
  BY <1>4, JobStep_UpToDate
<1>5. CASE Push
  BY <1>5 DEF Push, UpdateInd, EventsInd, EventsTypeOK, UpToDate, NoEventLeft
<1>6. CASE TakeEvent
  BY <1>6 DEF TakeEvent, UpToDate, Reading, HasRead
<1>7. CASE LoadFails \/ ReadEmptyJobID
  BY <1>7 DEF LoadFails, ReadEmptyJobID, UpToDate, NoEventLeft
<1>8. CASE LoadFromDisk
  BY <1>8 DEF LoadFromDisk, UpdateInd, EventsInd, SavedNotEnded, UpToDate, Reading, HasRead
<1>9. CASE ReadIP
  <2>1. wpc' = "exit" /\ rd' = 1 /\ UNCHANGED <<ip, jobid, exitCode>>
    BY <1>9 DEF ReadIP, UpdateInd, EventsInd, WorkerInv, pauseVars
  <2>2. ~missed' => IPAgrees(pod)'
    <3>1. pod'.ip <=> pod.ip \/ ip = "written"
      BY <1>9, ReadIPPod DEF UpdateInd
    <3>2. ~missed' => ip # "empty" \/ pod.ip
      BY <1>9, Zenon DEF ReadIP
    <3>3. pod.ip => ip = "written"
      BY DEF UpdateInd, EventsInd, AllSound, SoundNow, Sound
    <3>4. ip \in {"absent", "empty", "written"}
      BY DEF UpdateInd, EventsInd, PauseInd, PauseTypeOK, TextFile
    <3> QED
      BY <2>1, <3>1, <3>2, <3>3, <3>4 DEF IPAgrees
  <2> QED
    BY <2>1, <2>2 DEF UpToDate, NoEventLeft, HasRead, Containers
<1>10. CASE ReadExitCode
  <2>1. /\ rd \in Containers /\ wpc' \in {"exit", "notify"} /\ wpc = "exit"
        /\ \A c \in Containers : HasRead(c)' => c = rd \/ HasRead(c)
        /\ UNCHANGED <<ip, jobid, exitCode, pending, queue, missed, crashed>>
    BY <1>10, ReadExitCodePod, ContainersAssumption
    DEF ReadExitCode, AfterRead, HasRead, Containers, UpdateInd, EventsInd, WorkerInv,
        pauseVars, queueVars
  <2>2. /\ pod'.ip = pod.ip /\ pod'.cs[rd] = exitCode[rd]
        /\ \A c \in Containers : c # rd => pod'.cs[c] = pod.cs[c]
    BY <1>10, ReadExitCodePod DEF UpdateInd
  <2>3. \A c \in Containers : c = rd => Agrees(pod, c)'
    BY <1>10, <2>1, <2>2
    DEF ReadExitCode, Agrees, FileState, ExitCodes, UpdateInd, EventsInd, PauseInd, CodeInv
  <2>4. \A c \in Containers : c # rd /\ Agrees(pod, c) => Agrees(pod, c)'
    BY <2>1, <2>2 DEF Agrees, FileState
  <2>5. NoEventLeft' => IPAgrees(pod)'
    BY <2>1, <2>2, Zenon DEF UpdateInd, UpToDate, NoEventLeft, Reading, IPAgrees
  <2>6. NoEventLeft' => \A c \in Containers : HasRead(c)' => Agrees(pod, c)'
    BY <2>1, <2>3, <2>4 DEF UpdateInd, UpToDate, NoEventLeft
  <2> QED
    BY <2>1, <2>5, <2>6 DEF UpToDate
<1>11. CASE NoExitCode
  <2>1. /\ wpc' = "id" /\ rd' = rd /\ rd \in Containers /\ wpc = "exit"
        /\ UNCHANGED <<ip, jobid, exitCode, pod, pending, queue, crashed>>
    BY <1>11 DEF NoExitCode, UpdateInd, EventsInd, WorkerInv, pauseVars, queueVars
  <2>2. exitCode[rd] \notin ExitCodes /\ (~missed' => ~missed /\ exitCode[rd] # "empty")
    BY <1>11, Zenon DEF NoExitCode
  <2>3. ~missed' => exitCode[rd] = "absent"
    BY <2>1, <2>2 DEF UpdateInd, EventsInd, PauseInd, PauseTypeOK, CodeFile
  <2>4. NoEventLeft' => NoEventLeft
    BY <2>1, <2>2, Zenon DEF NoEventLeft
  <2>5. NoEventLeft' => exitCode'[rd'] = "absent"
    BY <2>1, <2>3 DEF NoEventLeft
  <2>6. NoEventLeft' => IPAgrees(pod)'
    BY <2>1, <2>4, Zenon DEF UpdateInd, UpToDate, Reading, IPAgrees
  <2>7. NoEventLeft' => \A c \in Containers : HasRead(c)' => Agrees(pod, c)'
    BY <2>1, <2>4 DEF UpdateInd, UpToDate, HasRead, Agrees, FileState
  <2> QED
    BY <2>1, <2>5, <2>6, <2>7 DEF UpToDate
<1>12. CASE ReadJobID
  <2>1. /\ rd \in Containers /\ wpc' \in {"exit", "notify"} /\ wpc = "id"
        /\ \A c \in Containers : HasRead(c)' => c = rd \/ HasRead(c)
        /\ UNCHANGED <<ip, jobid, exitCode, pending, queue, missed, crashed>>
    BY <1>12, ReadJobIDPod, ContainersAssumption
    DEF ReadJobID, AfterRead, HasRead, Containers, UpdateInd, EventsInd, WorkerInv,
        pauseVars, queueVars
  <2>2. /\ pod'.ip = pod.ip
        /\ pod'.cs[rd] = IF jobid[rd] = "absent" THEN "waiting" ELSE "running"
        /\ \A c \in Containers : c # rd => pod'.cs[c] = pod.cs[c]
    BY <1>12, ReadJobIDPod DEF UpdateInd
  <2>3. jobid[rd] # "empty"
    BY <1>12, <2>1 DEF ReadJobID, UpdateInd, EventsInd, AllSound, SoundNow, Sound
  <2>4. NoEventLeft' => \A c \in Containers : c = rd => Agrees(pod, c)'
    BY <2>1, <2>2, <2>3 DEF Agrees, FileState, ExitCodes, UpdateInd, UpToDate, NoEventLeft
  <2>5. \A c \in Containers : c # rd /\ Agrees(pod, c) => Agrees(pod, c)'
    BY <2>1, <2>2 DEF Agrees, FileState
  <2>6. NoEventLeft' => IPAgrees(pod)'
    BY <2>1, <2>2, Zenon DEF UpdateInd, UpToDate, NoEventLeft, Reading, IPAgrees
  <2>7. NoEventLeft' => \A c \in Containers : HasRead(c)' => Agrees(pod, c)'
    BY <2>1, <2>4, <2>5 DEF UpdateInd, UpToDate, NoEventLeft
  <2> QED
    BY <2>1, <2>6, <2>7 DEF UpToDate
<1>13. CASE Notify
  BY <1>13, Notify_UpToDate
<1> QED
  BY <1>2, <1>3, <1>4, <1>5, <1>6, <1>7, <1>8, <1>9, <1>10, <1>11, <1>12, <1>13
  DEF EventsNext, Worker

\* No update is lost: once every event has been handled and none was omitted
\* (listener.go:196-205), the last status notified is the one the files show.
THEOREM EventsSafety_QuiescentUpToDate == EventsSafety => []QuiescentUpToDate
<1> DEFINE Inv == pod.phase \notin Terminal /\ UpToDate
<1>1. EventsInit => Inv
  <2> SUFFICES ASSUME EventsInit PROVE Inv
    OBVIOUS
  <2>1. PhaseAgrees(lis)
    BY ContainersAssumption
    DEF EventsInit, PauseInit, PhaseAgrees, MainContainers, Containers
  <2> QED
    BY <2>1
    DEF EventsInit, PauseInit, FreshStatus, Terminal, UpToDate, Reading, HasRead, Agrees,
        IPAgrees, FileState, ExitCodes
<1>2. EventsInd /\ Inv /\ [EventsNext]_vars => Inv'
  BY EventsNext_UpToDate, PodNotEnded DEF UpdateInd
<1>3. Inv => QuiescentUpToDate
  BY DEF QuiescentUpToDate, Quiescent, UpToDate, NoEventLeft, Agrees, IPAgrees, PhaseAgrees
<1> QED
  BY <1>1, <1>2, <1>3, EventsSafety_Ind, PTL DEF EventsSafety

-----------------------------------------------------------------------------
(* No notification is late. *)

\* Until CreatePod has notified, the annotations are not published, so that the
\* job has created no file and the worker has had no event.  From then on the
\* virtual kubelet holds what the listener notified.
BeforeNotify ==
    creator # "done" =>
        /\ ~annotated /\ ~seen /\ ~dirty
        /\ main \in {"acquire", "get", "dns", "announce"} \cup Ended
        /\ pending = 0 /\ queue = 0 /\ wpc = "idle"
        /\ lis = FreshStatus

InStep == BeforeNotify /\ vk = lis

\* A job without the annotations goes nowhere but to its end.
LEMMA JobWaits ==
    ASSUME PauseInd, ~annotated, ~seen, CreateFile \/ OtherStep,
           main \in {"acquire", "get", "dns", "announce"} \cup Ended
    PROVE  /\ ~CreateFile
           /\ ~annotated' /\ ~seen'
           /\ main' \in {"acquire", "get", "dns", "announce"} \cup Ended
<1>1. /\ main \in {"acquire", "get", "dns", "announce"} =>
            /\ \A c \in MainContainers : gor[c] = "none"
            /\ \A c \in Containers : child[c] = "none"
            /\ handler = "off"
  <2>1. MainContainers # {}
    BY ContainersAssumption DEF MainContainers
  <2> QED
    BY <2>1 DEF PauseInd, MainInv, PreSteps, Untouched
<1>2. ~CreateFile
  BY <1>1 DEF CreateFile, AnnounceIP, InitId, InitCode, Id, Code, Alive, Ended
<1>3. CASE MainGoroutine
  BY <1>2, <1>3 DEF MainGoroutine, AcquirePod, AcquireTimeout, GetPodDetails, GetPodDetailsFails,
     PrepareDNS, AnnounceIPNoDir, AnnounceIPWrite, PrepareFails, InitIdWrite, InitStart,
     InitReaped, InitCodeWrite, InitFails, Spawn, SpawnFails, SignalNotify, Ended
<1>4. ~(\E c \in MainContainers : Goroutine(c))
  BY <1>1 DEF Goroutine, Start, StartFails, IdWrite, Reaped, CodeWrite, GoroutineFails, Alive
<1>5. ~HandlerTakes /\ ~HandlerCancels
  BY <1>1 DEF HandlerTakes, HandlerCancels, Alive
<1>6. CASE SigTerm \/ SigKill
  BY <1>2, <1>6 DEF SigTerm, SigKill, Ended
<1>7. ~(\E c \in Containers, code \in ExitCodes : ChildExits(c, code))
  BY <1>1 DEF ChildExits, Alive
<1> QED
  BY <1>2, <1>3, <1>4, <1>5, <1>6, <1>7 DEF OtherStep, Environment

\* Every step preserves this.
LEMMA EventsNext_InStep == ASSUME EventsInd, InStep, [EventsNext]_vars PROVE InStep'
<1> USE DEF InStep, BeforeNotify, createVars, queueVars, workerVars, vkVars, hpkVars
<1>1. CASE JobCreatesFile
  BY <1>1, JobWaits DEF JobCreatesFile, EventsInd
<1>2. CASE JobStep
  BY <1>2, JobWaits DEF JobStep, EventsInd
<1>3. CASE SubmitJob \/ SavePodToFile \/ SavePodWrite \/ CreatePodNotify
  BY <1>3 DEF SubmitJob, SavePodToFile, SavePodWrite, CreatePodNotify, pauseVars
<1>4. CASE UpdatePod \/ UpdatePodWrite \/ Push
  BY <1>4 DEF UpdatePod, UpdatePodWrite, Push, pauseVars
<1>5. CASE Worker
  <2>1. creator = "done"
    BY <1>5 DEF Worker, TakeEvent, LoadFails, LoadFromDisk, ReadIP, ReadExitCode, NoExitCode,
       ReadJobID, ReadEmptyJobID, Notify
  <2>2. creator' = creator
    BY <1>5 DEF Worker, TakeEvent, LoadFails, LoadFromDisk, ReadIP, ReadExitCode, NoExitCode,
       ReadJobID, ReadEmptyJobID, Notify
  <2>3. vk' = lis'
    BY <1>5 DEF Worker, TakeEvent, LoadFails, LoadFromDisk, ReadIP, ReadExitCode, NoExitCode,
       ReadJobID, ReadEmptyJobID, Notify
  <2> QED
    BY <2>1, <2>2, <2>3
<1>6. CASE SyncStatus
  BY <1>6 DEF SyncStatus
<1>7. CASE UNCHANGED vars
  BY <1>7 DEF vars, pauseVars
<1> HIDE DEF InStep, BeforeNotify
<1> QED
  BY <1>1, <1>2, <1>3, <1>4, <1>5, <1>6, <1>7 DEF EventsNext, CreatePod

\* No notification takes back the phase of an earlier one, although CreatePod
\* (provider.go:208) notifies from a goroutine of its own, with a pod it was
\* given before the job was submitted.
THEOREM EventsSafety_NotificationsUpToDate == EventsSafety => NotificationsUpToDate
<1> DEFINE Step == PhaseRank(vk.phase) <= PhaseRank(vk'.phase)
           LStep == /\ PhaseRank(lis.phase) <= PhaseRank(lis'.phase)
                    /\ lis.phase \in Terminal => lis'.phase = lis.phase
<1>1. EventsInit => InStep
  BY DEF EventsInit, PauseInit, InStep, BeforeNotify
<1>2. EventsInd /\ InStep /\ [EventsNext]_vars => InStep'
  BY EventsNext_InStep
<1>3. InStep /\ InStep' /\ [LStep]_vars => [Step]_vars
  BY DEF InStep
<1>4. EventsSafety => [][LStep]_vars
  BY EventsSafety_NeverRegresses DEF ListenerNeverRegresses
<1> QED
  BY <1>1, <1>2, <1>3, <1>4, EventsSafety_Ind, PTL DEF EventsSafety, NotificationsUpToDate
=============================================================================
