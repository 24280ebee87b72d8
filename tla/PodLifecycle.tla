---------------------------- MODULE PodLifecycle ----------------------------
(***************************************************************************)
(* Creation, update, deletion and recovery of the pods of one name:        *)
(*   - provider/provider.go: NewVirtualK8S, CreatePod, UpdatePod, DeletePod,*)
(*     GetPod, GetPods;                                                    *)
(*   - compute/podhandler/podhandler.go: CreatePod, DeletePod, Save, Load;  *)
(*   - compute/slurm: submission and cancellation;                         *)
(*   - the virtual kubelet that calls them and the API server (external).  *)
(*                                                                         *)
(* CreatePod runs in a goroutine of its own, so that several of them, and  *)
(* a DeletePod, can overlap on one directory; the virtual kubelet makes    *)
(* all other calls for one pod one after the other.  The n-th call of      *)
(* CreatePod submits job n.  A panic, and a crash, end the process; the    *)
(* directory and the Slurm jobs survive it.  The watcher is the poller,    *)
(* HPK's default.  Status is kept only as far as the calls depend on it    *)
(* (module PodEvents has the rest).  The namespace is taken to hold other  *)
(* pods, so that DeletePod never finds its directory empty and the garbage *)
(* collection of the namespace (podhandler.go:191-199) never happens.      *)
(***************************************************************************)
EXTENDS Naturals

CONSTANTS MaxPods,     \* bound: pods created under the name
          MaxCreates,  \* bound: calls of CreatePod
          MaxUpdates,  \* bound: calls of UpdatePod
          MaxCrashes,  \* bound: crashes that are not panics of the modelled code
          MaxRetries   \* bound: "try again later" answers of scancel

ASSUME LifecycleAssumption ==
    /\ MaxPods \in Nat \ {0} /\ MaxCreates \in Nat \ {0}
    /\ MaxUpdates \in Nat /\ MaxCrashes \in Nat /\ MaxRetries \in Nat

Uids     == 1 .. MaxPods
Creators == 1 .. MaxCreates    \* calls of CreatePod, and the jobs they submit

VARIABLES
    api,       \* the API server's pod: uid (0: none), deleting, phase, job annotation
    pods,      \* pods created under the name so far
    removable, \* DeletePod has returned for a pod that is being deleted
    gone,      \* the informer has yet to handle the removal of the pod
    up,        \* HPK is running
    dir,       \* the pod directory exists
    crd,       \* the pod's description in it
    watched,   \* directories the watcher polls
    creator,   \* the CreatePod goroutines
    creates,   \* calls of CreatePod so far
    upd,       \* the UpdatePod call
    updates,   \* calls of UpdatePod so far
    del,       \* the DeletePod call: its position and the job of the pod it loaded
    job,       \* the Slurm jobs
    crashes, retries,
    mishaps    \* auxiliary: events after which the code promises less

lifeVars == <<api, pods, removable, gone, up, dir, crd, watched, creator, creates, upd, updates,
              del, job, crashes, retries, mishaps>>

apiVars   == <<api, pods, removable, gone>>
diskVars  == <<dir, crd>>
callVars  == <<creator, creates, upd, updates, del>>
countVars == <<crashes, retries>>

NoPod  == [uid |-> 0, deleting |-> FALSE, phase |-> "Pending", job |-> 0]
NoFile == [st |-> "none", uid |-> 0, phase |-> "Pending", job |-> 0]
Idle   == [pc |-> "idle", uid |-> 0, failed |-> FALSE]
NoDelete == [pc |-> "idle", job |-> 0]
NoUpdate == [pc |-> "idle", uid |-> 0, phase |-> "Pending", job |-> 0]

PodPhases    == {"Pending", "Running", "Ended"}
CreatorSteps == {"idle", "mkdir", "watch", "build", "submit", "save", "write", "notify"}
JobStates    == {"none", "active", "ending", "over"}  \* "ending": told to by scancel
Mishaps      == {"crash", "duplicate", "early", "retry", "recreated"}

LifecycleTypeOK ==
    /\ api \in [uid : 0 .. MaxPods, deleting : BOOLEAN, phase : PodPhases, job : 0 .. MaxCreates]
    /\ pods \in 0 .. MaxPods /\ creates \in 0 .. MaxCreates
    /\ updates \in 0 .. MaxUpdates /\ crashes \in 0 .. MaxCrashes /\ retries \in 0 .. MaxRetries
    /\ removable \in BOOLEAN /\ gone \in BOOLEAN /\ up \in BOOLEAN /\ dir \in BOOLEAN
    /\ crd \in [st : {"none", "empty", "saved"}, uid : 0 .. MaxPods, phase : PodPhases,
                job : 0 .. MaxCreates]
    /\ watched \subseteq {"pod", "controlfiles"}
    /\ creator \in [Creators -> [pc : CreatorSteps, uid : 0 .. MaxPods, failed : BOOLEAN]]
    /\ upd \in [pc : {"idle", "write"}, uid : 0 .. MaxPods, phase : PodPhases,
                job : 0 .. MaxCreates]
    /\ del \in [pc : {"idle", "load", "cancel", "remove"}, job : 0 .. MaxCreates]
    /\ job \in [Creators -> JobStates]
    /\ mishaps \subseteq Mishaps
    /\ crd.st # "none" => dir

LifecycleInit ==
    /\ api = NoPod /\ pods = 0 /\ removable = FALSE /\ gone = FALSE
    /\ up = TRUE /\ dir = FALSE /\ crd = NoFile /\ watched = {}
    /\ creator = [n \in Creators |-> Idle] /\ creates = 0
    /\ upd = NoUpdate /\ updates = 0
    /\ del = NoDelete
    /\ job = [n \in Creators |-> "none"]
    /\ crashes = 0 /\ retries = 0 /\ mishaps = {}

\* A CreatePod goroutine is under way.
Creating == \E n \in Creators : creator[n].pc # "idle"

\* Job n has processes: it may have been told to end.
Running(n) == job[n] \in {"active", "ending"}

\* The virtual kubelet is not in a call for this pod (CreatePod returns at once).
Free == up /\ del.pc = "idle" /\ upd.pc = "idle"

\* The process ends: its goroutines and its watches with it.
Die ==
    /\ up' = FALSE
    /\ watched' = {}
    /\ creator' = [n \in Creators |-> [creator[n] EXCEPT !.pc = "idle"]]
    /\ upd' = NoUpdate /\ del' = NoDelete
    /\ mishaps' = mishaps \cup {"crash"}

-----------------------------------------------------------------------------
(* The users of the API server (external). *)

\* A pod is created, perhaps before HPK is through with its namesake.
ApiCreate ==
    /\ api.uid = 0 /\ pods < MaxPods
    /\ api' = [NoPod EXCEPT !.uid = pods + 1]
    /\ pods' = pods + 1
    /\ gone' = FALSE /\ removable' = FALSE
    /\ mishaps' = IF gone \/ Creating \/ del.pc # "idle"
                  THEN mishaps \cup {"recreated"} ELSE mishaps
    /\ UNCHANGED <<up, diskVars, watched, callVars, job, countVars>>

ApiDelete ==
    /\ api.uid # 0 /\ ~api.deleting
    /\ api' = [api EXCEPT !.deleting = TRUE]
    /\ UNCHANGED <<pods, removable, gone, up, diskVars, watched, callVars, job, countVars,
                   mishaps>>

\* The virtual kubelet removes a pod that is being deleted: after DeletePod,
\* or at once when no container of it runs.
ApiRemove ==
    /\ Free /\ api.deleting
    /\ removable \/ api.phase # "Running"
    /\ api' = NoPod
    /\ gone' = TRUE /\ removable' = FALSE
    /\ UNCHANGED <<pods, up, diskVars, watched, callVars, job, countVars, mishaps>>

-----------------------------------------------------------------------------
(* CreatePod. *)

\* The virtual kubelet calls CreatePod when GetPod knows no such pod.
CreatePod(n) ==
    /\ Free /\ n = creates + 1
    /\ api.uid # 0 /\ ~api.deleting /\ api.phase # "Ended"
    /\ crd.st # "saved"
    /\ creates' = n
    /\ creator' = [creator EXCEPT ![n] = [pc |-> "mkdir", uid |-> api.uid, failed |-> FALSE]]
    /\ mishaps' = IF Creating THEN mishaps \cup {"duplicate"} ELSE mishaps
    /\ UNCHANGED <<apiVars, up, diskVars, watched, upd, updates, del, job, countVars>>

\* The goroutine moves from one position to another.
Go(n, from, to) ==
    /\ up /\ creator[n].pc = from
    /\ creator' = [creator EXCEPT ![n].pc = to]

MakeDirectories(n) ==
    /\ Go(n, "mkdir", "watch")
    /\ dir' = TRUE
    /\ UNCHANGED <<apiVars, up, crd, watched, creates, upd, updates, del, job, countVars,
                   mishaps>>

\* An existing watch is only logged.
AddWatch(n) ==
    /\ Go(n, "watch", "build")
    /\ dir
    /\ watched' = watched \cup {"controlfiles"}
    /\ UNCHANGED <<apiVars, up, diskVars, creates, upd, updates, del, job, countVars, mishaps>>

\* Volumes are mounted, images pulled, container commands built.  Left out
\* here and in SavePodWrite: the failure of a claim or of a downward API volume
\* (volumes.go:196, :293) is noted in the pod's phase and the goroutine goes on,
\* so that the job is submitted and the pod saved as failed.
Build(n) ==
    /\ Go(n, "build", "submit")
    /\ UNCHANGED <<apiVars, up, diskVars, watched, creates, upd, updates, del, job, countVars,
                   mishaps>>

\* PodError: the pod is marked as failed and neither submitted nor saved.
BuildFails(n) ==
    /\ up /\ creator[n].pc = "build"
    /\ creator' = [creator EXCEPT ![n].pc = "notify", ![n].failed = TRUE]
    /\ UNCHANGED <<apiVars, up, diskVars, watched, creates, upd, updates, del, job, countVars,
                   mishaps>>

\* The script is written, sbatch is called.
SubmitJob(n) ==
    /\ Go(n, "submit", "save")
    /\ dir
    /\ job' = [job EXCEPT ![n] = "active"]
    /\ UNCHANGED <<apiVars, up, diskVars, watched, creates, upd, updates, del, countVars,
                   mishaps>>

\* Mutant: the error of os.WriteFile is ignored.
SavePodToFileUnchecked(n) ==
    /\ Go(n, "save", "write")
    /\ crd' = [NoFile EXCEPT !.st = "empty"]
    /\ UNCHANGED <<apiVars, up, dir, watched, creates, upd, updates, del, job, countVars,
                   mishaps>>

\* SavePodToFile, in the two steps of os.WriteFile.
SavePodToFile(n) ==
    /\ Go(n, "save", "write")
    /\ dir
    /\ crd' = [NoFile EXCEPT !.st = "empty"]
    /\ UNCHANGED <<apiVars, up, dir, watched, creates, upd, updates, del, job, countVars,
                   mishaps>>

\* Mutant: the pod is not saved.
SavePodWriteNothing(n) ==
    /\ Go(n, "write", "notify")
    /\ crd' = NoFile
    /\ UNCHANGED <<apiVars, up, dir, watched, creates, upd, updates, del, job, countVars,
                   mishaps>>

\* What is written to a file that has been removed is lost.
SavePodWrite(n) ==
    /\ Go(n, "write", "notify")
    /\ crd' = IF crd.st = "none" THEN crd
              ELSE [st |-> "saved", uid |-> creator[n].uid, phase |-> "Pending", job |-> n]
    /\ UNCHANGED <<apiVars, up, dir, watched, creates, upd, updates, del, job, countVars,
                   mishaps>>

\* v.updatedPod: the virtual kubelet publishes phase and annotations under
\* the pod's name, unless the pod there has ended.
NotifyCreated(n) ==
    /\ Go(n, "notify", "idle")
    /\ api' = IF api.uid = 0 \/ api.phase = "Ended" THEN api
              ELSE IF creator[n].failed THEN [api EXCEPT !.phase = "Ended"]
              ELSE [api EXCEPT !.phase = "Pending", !.job = n]
    /\ UNCHANGED <<pods, removable, gone, up, diskVars, watched, creates, upd, updates, del,
                   job, countVars, mishaps>>

\* The directory has been removed under the goroutine: SystemPanic.
CreatePanics(n) ==
    /\ up /\ creator[n].pc \in {"watch", "submit", "save"} /\ ~dir
    /\ Die
    /\ UNCHANGED <<apiVars, diskVars, creates, updates, job, countVars>>

-----------------------------------------------------------------------------
(* UpdatePod: the API server's copy replaces the file if it has a job id;  *)
(* called for a pod that GetPod knows and that has not ended.              *)

UpdatePod ==
    /\ Free /\ updates < MaxUpdates
    /\ api.uid # 0 /\ ~api.deleting /\ api.phase # "Ended" /\ api.job # 0
    /\ crd.st = "saved"
    /\ upd' = [pc |-> "write", uid |-> api.uid, phase |-> api.phase, job |-> api.job]
    /\ updates' = updates + 1
    /\ crd' = [NoFile EXCEPT !.st = "empty"]
    /\ UNCHANGED <<apiVars, up, dir, watched, creator, creates, del, job, countVars, mishaps>>

UpdatePodWrite ==
    /\ up /\ upd.pc = "write"
    /\ crd' = [st |-> "saved", uid |-> upd.uid, phase |-> upd.phase, job |-> upd.job]
    /\ upd' = NoUpdate
    /\ UNCHANGED <<apiVars, up, dir, watched, creator, creates, updates, del, job, countVars,
                   mishaps>>

-----------------------------------------------------------------------------
(* DeletePod, called for a pod that is being deleted, and for one that the *)
(* API server has removed and GetPod still knows.                          *)

DeletePod ==
    /\ Free /\ api.deleting
    /\ del' = [NoDelete EXCEPT !.pc = "load"]
    /\ UNCHANGED <<apiVars, up, diskVars, watched, creator, creates, upd, updates, job,
                   countVars, mishaps>>

DeleteGonePod ==
    /\ Free /\ gone /\ crd.st = "saved"
    /\ gone' = FALSE
    /\ del' = [NoDelete EXCEPT !.pc = "load"]
    /\ UNCHANGED <<api, pods, removable, up, diskVars, watched, creator, creates, upd, updates,
                   job, countVars, mishaps>>

\* GetPod does not know the pod: the virtual kubelet forgets it.
ForgetGonePod ==
    /\ Free /\ gone /\ crd.st # "saved"
    /\ gone' = FALSE
    /\ mishaps' = IF Creating THEN mishaps \cup {"early"} ELSE mishaps
    /\ UNCHANGED <<api, pods, removable, up, diskVars, watched, callVars, job, countVars>>

\* Mutant: a missing file is an error like any other.
DeleteNotFoundPanics ==
    /\ up /\ del.pc = "load" /\ crd.st = "none"
    /\ Die
    /\ UNCHANGED <<apiVars, diskVars, creates, updates, job, countVars>>

\* No file: the pod counts as deleted, whatever else there is of it.
DeleteNotFound ==
    /\ up /\ del.pc = "load" /\ crd.st = "none"
    /\ del' = NoDelete /\ removable' = api.deleting
    /\ mishaps' = IF Creating THEN mishaps \cup {"early"} ELSE mishaps
    /\ UNCHANGED <<api, pods, gone, up, diskVars, watched, creator, creates, upd, updates,
                   job, countVars>>

\* An empty file is an error other than ErrNotExist: SystemPanic.
DeletePanics ==
    /\ up /\ del.pc = "load" /\ crd.st = "empty"
    /\ Die
    /\ UNCHANGED <<apiVars, diskVars, creates, updates, job, countVars>>

LoadForDelete ==
    /\ up /\ del.pc = "load" /\ crd.st = "saved"
    /\ del' = [pc |-> "cancel", job |-> crd.job]
    /\ UNCHANGED <<apiVars, up, diskVars, watched, creator, creates, upd, updates, job,
                   countVars, mishaps>>

\* Mutant: the job is left to end by itself.
CancelNothing ==
    /\ up /\ del.pc = "cancel"
    /\ del' = [del EXCEPT !.pc = "remove"]
    /\ UNCHANGED <<apiVars, up, diskVars, watched, creator, creates, upd, updates, job,
                   countVars, mishaps>>

\* scancel succeeds, which tells the job to end and does not wait until it has,
\* or the job is over (ErrInvalidJob).  Any other error is a SystemPanic, which
\* Crash stands for.
CancelJob ==
    /\ up /\ del.pc = "cancel"
    /\ job' = [job EXCEPT ![del.job] = IF @ = "over" THEN "over" ELSE "ending"]
    /\ del' = [del EXCEPT !.pc = "remove"]
    /\ UNCHANGED <<apiVars, up, diskVars, watched, creator, creates, upd, updates, countVars,
                   mishaps>>

\* Mutant: ErrRety is handled like ErrInvalidJob.
CancelRetryRemoves ==
    /\ up /\ del.pc = "cancel" /\ Running(del.job) /\ retries < MaxRetries
    /\ retries' = retries + 1
    /\ del' = [del EXCEPT !.pc = "remove"]
    /\ mishaps' = mishaps \cup {"retry"}
    /\ UNCHANGED <<apiVars, up, diskVars, watched, creator, creates, upd, updates, job,
                   crashes>>

\* ErrRety: DeletePod answers NotFound, which the virtual kubelet takes for
\* a completed deletion.
CancelRetry ==
    /\ up /\ del.pc = "cancel" /\ Running(del.job) /\ retries < MaxRetries
    /\ retries' = retries + 1
    /\ del' = NoDelete /\ removable' = api.deleting
    /\ mishaps' = mishaps \cup {"retry"}
    /\ UNCHANGED <<api, pods, gone, up, diskVars, watched, creator, creates, upd, updates,
                   job, crashes>>

\* Mutant: the directory is kept.
RemoveWatchOnly ==
    /\ up /\ del.pc = "remove"
    /\ watched' = watched \ {"pod"}
    /\ del' = NoDelete /\ removable' = api.deleting
    /\ UNCHANGED <<api, pods, gone, up, dir, crd, creator, creates, upd, updates, job,
                   countVars, mishaps>>

\* The watch on the pod directory is removed, then the directory itself, at
\* once: the job that was cancelled may still be running in it.
RemovePod ==
    /\ up /\ del.pc = "remove"
    /\ watched' = watched \ {"pod"}
    /\ dir' = FALSE /\ crd' = NoFile
    /\ del' = NoDelete /\ removable' = api.deleting
    /\ UNCHANGED <<api, pods, gone, up, creator, creates, upd, updates, job, countVars,
                   mishaps>>

-----------------------------------------------------------------------------
(* Jobs, and what the event listener reports of them. *)

JobEnds(n) ==
    /\ Running(n)
    /\ job' = [job EXCEPT ![n] = "over"]
    /\ UNCHANGED <<apiVars, up, diskVars, watched, callVars, countVars, mishaps>>

\* A control file of the job is noticed and the pod can be loaded.
ReportStatus ==
    /\ up /\ "controlfiles" \in watched /\ crd.st = "saved"
    /\ api.uid # 0 /\ api.phase # "Ended"
    /\ api' = [api EXCEPT !.job = crd.job,
                          !.phase = IF job[crd.job] = "over" THEN "Ended" ELSE "Running"]
    /\ UNCHANGED <<pods, removable, gone, up, diskVars, watched, callVars, job, countVars,
                   mishaps>>

-----------------------------------------------------------------------------
(* Crash and restart. *)

Crash ==
    /\ up /\ crashes < MaxCrashes
    /\ crashes' = crashes + 1
    /\ Die
    /\ UNCHANGED <<apiVars, diskVars, creates, updates, job, retries>>

\* NewVirtualK8S: a directory without a description is archived, the pod
\* directory (not its control files) is watched.  The virtual kubelet then
\* deletes the pods that GetPods lists, the running ones, and that the API
\* server does not know.
Restart ==
    /\ ~up
    /\ up' = TRUE
    /\ dir' = (dir /\ crd.st # "none")
    /\ watched' = IF dir /\ crd.st # "none" THEN {"pod"} ELSE {}
    /\ gone' = (api.uid = 0 /\ crd.st = "saved" /\ crd.phase = "Running")
    /\ removable' = FALSE
    /\ UNCHANGED <<api, pods, crd, callVars, job, countVars, mishaps>>

-----------------------------------------------------------------------------
CreateStep(n) ==
    \/ MakeDirectories(n) \/ AddWatch(n) \/ Build(n) \/ BuildFails(n) \/ SubmitJob(n)
    \/ SavePodToFile(n) \/ SavePodWrite(n) \/ NotifyCreated(n) \/ CreatePanics(n)

DeleteStep ==
    \/ DeleteNotFound \/ DeletePanics \/ LoadForDelete \/ CancelJob \/ CancelRetry \/ RemovePod

\* What the virtual kubelet does for a pod that is to go away.
VirtualKubelet == DeletePod \/ DeleteGonePod \/ ForgetGonePod

LifecycleNext ==
    \/ ApiCreate \/ ApiDelete \/ ApiRemove
    \/ \E n \in Creators : CreatePod(n) \/ CreateStep(n) \/ JobEnds(n)
    \/ UpdatePod \/ UpdatePodWrite
    \/ VirtualKubelet \/ DeleteStep
    \/ ReportStatus
    \/ Crash \/ Restart

\* HPK's goroutines are scheduled, the virtual kubelet works off its queue and
\* HPK is restarted when it has died.  Users, Slurm and crashes are free.
LifecycleFairness ==
    /\ \A n \in Creators : WF_lifeVars(CreateStep(n))
    /\ WF_lifeVars(UpdatePodWrite) /\ WF_lifeVars(DeleteStep)
    /\ SF_lifeVars(VirtualKubelet) /\ SF_lifeVars(ApiRemove)
    /\ WF_lifeVars(Restart)

LifecycleSpec == LifecycleInit /\ [][LifecycleNext]_lifeVars /\ LifecycleFairness

-----------------------------------------------------------------------------
(* Properties. *)

\* Job n runs, has not been told to end, and nothing is left that could: no goroutine
\* holds it, no call is under way, and no file names it on behalf of a pod
\* that still exists.
Leaked(n) ==
    /\ job[n] = "active"
    /\ creator[n].pc = "idle"
    /\ Free /\ ~gone
    /\ crd.st # "saved" \/ crd.job # n \/ api.uid = 0

\* No job outlives its pod or escapes DeletePod, except after a crash, a
\* second CreatePod during the first, a deletion during the creation, an
\* ErrRety of scancel, or a namesake created before HPK was through with it.
NoLeakedJob == \A n \in Creators : Leaked(n) => mishaps # {}

\* Two jobs never run for the same pod, jobs that are ending included, except
\* after a crash or a second CreatePod during the first.
OneJobPerPod ==
    \A m, n \in Creators :
        m # n /\ Running(m) /\ Running(n) /\ creator[m].uid = creator[n].uid
        => mishaps \cap {"crash", "duplicate"} # {}

\* The saved file is the only record of the job id, so it may go only after the
\* job it names at that moment has been told to end or is over.  DeletePod
\* loads the id, calls scancel and removes the directory in three steps, and
\* the property holds unless a second CreatePod replaced the file in between.
\* It does not say that the job is over: DeletePod does not wait for that.
CancelledBeforeRemoval ==
    [][dir /\ ~dir' /\ crd.st = "saved" =>
          job[crd.job] # "active" \/ "duplicate" \in mishaps]_lifeVars

\* The saved pod is the one the API server has: after a pod of the same name
\* is created, HPK does not answer for its predecessor.
RightIncarnation ==
    Free /\ ~gone /\ api.uid # 0 /\ crd.st = "saved" =>
        crd.uid = api.uid \/ mishaps # {}

\* The deletion of a pod completes, whatever fails and crashes, unless its
\* file was left empty.
DeletionCompletes == api.deleting ~> (~api.deleting \/ crd.st = "empty")

\* The control files of a saved pod are watched whenever HPK runs
\* (provider.go:75 "It is designed to restore missing state after a
\* restart").
WatchedWhileSaved == up /\ crd.st = "saved" => "controlfiles" \in watched
=============================================================================
