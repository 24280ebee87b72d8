------------------------- MODULE PodLifecycleProofs -------------------------
(***************************************************************************)
(* The safety properties of the pod lifecycle, for any number of pods,     *)
(* calls, updates, crashes and retries.                                    *)
(*                                                                         *)
(* The promises of the code weaken with every mishap, and so does the      *)
(* invariant.  Its first part holds always (Basics).  While no CreatePod   *)
(* has run during another (Ordered), a saved file is not being written, so *)
(* that DeletePod removes the file whose job it has cancelled.  While in   *)
(* addition HPK has not crashed (OneSubmission), a pod whose job has been  *)
(* submitted has its file until its deletion, so that no second CreatePod  *)
(* is called for it.  While there has been no mishap at all (Tidy), every  *)
(* active job is named by a goroutine, by the file or by the UpdatePod     *)
(* call that is writing it, and what names it belongs to the API server's  *)
(* pod or to one that is about to be deleted.                              *)
(***************************************************************************)
EXTENDS PodLifecycle, TLAPS

Early    == {"mkdir", "watch", "build", "submit"}  \* before the submission
Building == Early \cup {"save", "write"}           \* before the file is complete

\* No goroutine is about to write the file.
NoBuilder == \A n \in Creators : creator[n].pc \notin Building

-----------------------------------------------------------------------------
(* What holds whatever has happened.                                       *)
Calls ==
    /\ ~up => "crash" \in mishaps /\ upd.pc = "idle" /\ del.pc = "idle"
    /\ upd.pc = "write" => del.pc = "idle" /\ crd.st # "none"
    /\ gone => api.uid = 0
    /\ api.uid <= pods

Numbered ==
    \A n \in Creators :
        /\ n > creates => creator[n].pc = "idle" /\ creator[n].uid = 0 /\ job[n] = "none"
        /\ n <= creates => creator[n].uid # 0
        /\ creator[n].uid <= pods

Submits ==
    \A n \in Creators :
        /\ ~up => creator[n].pc = "idle"
        /\ creator[n].pc \in Early => job[n] = "none"
        /\ creator[n].pc \in {"save", "write"} => job[n] # "none"
        /\ creator[n].pc = "notify" /\ ~creator[n].failed => job[n] # "none"

\* Job j has been submitted.
Known(j) == j \in Creators /\ job[j] # "none"

Names ==
    /\ crd.st = "saved" => Known(crd.job)
    /\ upd.pc = "write" => Known(upd.job)
    /\ api.job # 0 => Known(api.job)
    /\ del.pc \in {"cancel", "remove"} => Known(del.job)

Basics == LifecycleTypeOK /\ Calls /\ Numbered /\ Submits /\ Names

-----------------------------------------------------------------------------
(* While no CreatePod has been called during another.                      *)
OneCreator ==
    \A m, n \in Creators : creator[m].pc # "idle" /\ creator[n].pc # "idle" => m = n

SavedAlone == crd.st = "saved" \/ upd.pc = "write" => NoBuilder

DeletesWhatItLoaded ==
    /\ del.pc \in {"cancel", "remove"} => crd.st = "saved" /\ crd.job = del.job
    /\ del.pc = "remove" => job[del.job] \in {"ending", "over"}

Ordered == "duplicate" \notin mishaps => OneCreator /\ SavedAlone /\ DeletesWhatItLoaded

-----------------------------------------------------------------------------
(* While, moreover, HPK has not crashed.                                   *)
\* Call n was made for the pod that the API server has and is not deleting.
Current(n) == api.uid # 0 /\ creator[n].uid = api.uid /\ ~api.deleting

FileKept ==
    \A n \in Creators :
        Current(n) =>
            /\ del.pc = "idle"
            /\ creator[n].pc = "write" => crd.st # "none"
            /\ creator[n].pc = "notify" /\ job[n] # "none" => crd.st = "saved" \/ upd.pc = "write"
            /\ creator[n].pc = "idle" /\ job[n] # "none" =>
                   ~Creating /\ (crd.st = "saved" \/ upd.pc = "write")

OnePerPod ==
    \A m, n \in Creators :
        m # n /\ creator[m].uid = creator[n].uid /\ creator[n].uid # 0 =>
            /\ job[m] = "none" \/ job[n] = "none"
            /\ creator[n].pc \in Early => job[m] = "none"

OneSubmission == mishaps \cap {"crash", "duplicate"} = {} => FileKept /\ OnePerPod

-----------------------------------------------------------------------------
(* While there has been no mishap.                                         *)
\* The pod u is the API server's, or it is gone and will be deleted.
Owned(u) == api.uid = u \/ (api.uid = 0 /\ (gone \/ del.pc # "idle"))

\* j is a job that was submitted for pod u.
JobOf(j, u) == j \in Creators /\ u # 0 /\ job[j] # "none" /\ creator[j].uid = u

TidyFile ==
    /\ crd.st = "saved" => JobOf(crd.job, crd.uid) /\ Owned(crd.uid) /\ upd.pc = "idle"
    /\ upd.pc = "write" => JobOf(upd.job, upd.uid) /\ api.uid = upd.uid
    /\ api.uid # 0 /\ api.job # 0 => JobOf(api.job, api.uid)

TidyCalls ==
    \A n \in Creators :
        /\ creator[n].pc \in Building => Owned(creator[n].uid)
        /\ creator[n].pc # "idle" => api.uid \in {0, creator[n].uid}
        /\ creator[n].pc = "write" => crd.st # "none"

TidyJobs ==
    \A n \in Creators :
        job[n] = "active" => \/ creator[n].pc \in {"save", "write"}
                             \/ crd.st = "saved" /\ crd.job = n
                             \/ upd.pc = "write" /\ upd.job = n

Tidy == mishaps = {} => TidyFile /\ TidyCalls /\ TidyJobs

LifecycleInv == Basics /\ Ordered /\ OneSubmission /\ Tidy

-----------------------------------------------------------------------------
(* The next-state relation, action by action, and what a step does to the  *)
(* goroutines.                                                             *)
ApiSet     == [uid : 0 .. MaxPods, deleting : BOOLEAN, phase : PodPhases, job : 0 .. MaxCreates]
FileSet    == [st : {"none", "empty", "saved"}, uid : 0 .. MaxPods, phase : PodPhases,
               job : 0 .. MaxCreates]
CreatorSet == [pc : CreatorSteps, uid : 0 .. MaxPods, failed : BOOLEAN]
UpdateSet  == [pc : {"idle", "write"}, uid : 0 .. MaxPods, phase : PodPhases, job : 0 .. MaxCreates]
DeleteSet  == [pc : {"idle", "load", "cancel", "remove"}, job : 0 .. MaxCreates]

LEMMA LifecycleSteps ==
    ASSUME [LifecycleNext]_lifeVars
    PROVE  \/ UNCHANGED lifeVars \/ ApiCreate \/ ApiDelete \/ ApiRemove
           \/ UpdatePod \/ UpdatePodWrite \/ DeletePod \/ DeleteGonePod \/ ForgetGonePod
           \/ DeleteNotFound \/ DeletePanics \/ LoadForDelete \/ CancelJob \/ CancelRetry
           \/ RemovePod \/ ReportStatus \/ Crash \/ Restart
           \/ \E n \in Creators :
                 \/ CreatePod(n) \/ MakeDirectories(n) \/ AddWatch(n) \/ Build(n) \/ BuildFails(n)
                 \/ SubmitJob(n) \/ SavePodToFile(n) \/ SavePodWrite(n) \/ NotifyCreated(n)
                 \/ CreatePanics(n) \/ JobEnds(n)
  BY DEF LifecycleNext, CreateStep, DeleteStep, VirtualKubelet

\* The types of the variables, one by one.
LEMMA Types ==
    ASSUME LifecycleTypeOK
    PROVE  /\ api \in ApiSet /\ crd \in FileSet /\ upd \in UpdateSet /\ del \in DeleteSet
           /\ creator \in [Creators -> CreatorSet] /\ job \in [Creators -> JobStates]
           /\ pods \in Nat /\ creates \in Nat /\ mishaps \subseteq Mishaps
  BY LifecycleAssumption
  DEF LifecycleTypeOK, ApiSet, FileSet, UpdateSet, DeleteSet, CreatorSet

LEMMA Constants ==
    /\ NoPod \in ApiSet /\ NoFile \in FileSet /\ NoUpdate \in UpdateSet /\ NoDelete \in DeleteSet
    /\ Idle \in CreatorSet
    /\ \A n \in Creators : n \in 0 .. MaxCreates /\ n # 0
  BY LifecycleAssumption
  DEF NoPod, NoFile, NoUpdate, NoDelete, Idle, ApiSet, FileSet, UpdateSet, DeleteSet, CreatorSet,
      PodPhases, CreatorSteps, Creators

\* A goroutine moves; the others stay where they are.
Moved(n, to) ==
    /\ creator'[n].pc = to /\ creator'[n].uid = creator[n].uid
    /\ \A m \in Creators \ {n} : creator'[m] = creator[m]
    /\ creator' \in [Creators -> CreatorSet]

LEMMA GoMoves ==
    ASSUME LifecycleTypeOK, NEW n \in Creators, NEW from, NEW to \in CreatorSteps, Go(n, from, to)
    PROVE  /\ Moved(n, to) /\ creator[n].pc = from /\ up
           /\ creator'[n].failed = creator[n].failed
<1>1. creator \in [Creators -> CreatorSet]
  BY Types
<1>2. [creator[n] EXCEPT !.pc = to] \in CreatorSet
  BY <1>1 DEF CreatorSet
<1>3. creator' = [creator EXCEPT ![n] = [creator[n] EXCEPT !.pc = to]]
  BY <1>1 DEF Go
<1>4. creator'[n] = [creator[n] EXCEPT !.pc = to]
  BY <1>1, <1>3
<1> QED
  BY <1>1, <1>2, <1>3, <1>4 DEF Moved, Go, CreatorSet

LEMMA BuildFailsMoves ==
    ASSUME LifecycleTypeOK, NEW n \in Creators, BuildFails(n)
    PROVE  Moved(n, "notify") /\ creator[n].pc = "build" /\ creator'[n].failed
<1>1. creator \in [Creators -> CreatorSet]
  BY Types
<1> DEFINE r == [creator[n] EXCEPT !.pc = "notify", !.failed = TRUE]
<1>2. r \in CreatorSet /\ r.pc = "notify" /\ r.uid = creator[n].uid /\ r.failed
  BY <1>1 DEF CreatorSet, CreatorSteps
<1>3. creator' = [creator EXCEPT ![n] = r]
  BY <1>1 DEF BuildFails, CreatorSet
<1> HIDE DEF r
<1> QED
  BY <1>1, <1>2, <1>3 DEF Moved, BuildFails

\* A new goroutine.
LEMMA CreatePodMoves ==
    ASSUME LifecycleTypeOK, NEW n \in Creators, CreatePod(n)
    PROVE  /\ creator' \in [Creators -> CreatorSet]
           /\ creator'[n].pc = "mkdir" /\ creator'[n].uid = api.uid
           /\ \A m \in Creators \ {n} : creator'[m] = creator[m]
  BY Types DEF CreatePod, CreatorSet, CreatorSteps, ApiSet

\* The process ends.
LEMMA DieStops ==
    ASSUME LifecycleTypeOK, Die
    PROVE  /\ creator' \in [Creators -> CreatorSet]
           /\ \A n \in Creators : creator'[n].pc = "idle" /\ creator'[n].uid = creator[n].uid
           /\ up' = FALSE /\ upd'.pc = "idle" /\ del'.pc = "idle" /\ upd' \in UpdateSet /\ del' \in DeleteSet
           /\ watched' = {} /\ "crash" \in mishaps' /\ mishaps' \subseteq Mishaps
           /\ mishaps \subseteq mishaps'
<1>1. creator \in [Creators -> CreatorSet]
  BY Types
<1>2. \A n \in Creators : /\ [creator[n] EXCEPT !.pc = "idle"] \in CreatorSet
                           /\ [creator[n] EXCEPT !.pc = "idle"].pc = "idle"
                           /\ [creator[n] EXCEPT !.pc = "idle"].uid = creator[n].uid
  BY <1>1 DEF CreatorSet, CreatorSteps
<1>3. creator' \in [Creators -> CreatorSet]
  BY <1>2 DEF Die
<1>4. \A n \in Creators : creator'[n].pc = "idle" /\ creator'[n].uid = creator[n].uid
  BY <1>2 DEF Die
<1>5. upd'.pc = "idle" /\ del'.pc = "idle" /\ upd' \in UpdateSet /\ del' \in DeleteSet
  BY Constants DEF Die, NoUpdate, NoDelete
<1> QED
  BY <1>3, <1>4, <1>5, Types DEF Die, Mishaps

-----------------------------------------------------------------------------
(* The types.                                                              *)
Counters ==
    /\ pods \in 0 .. MaxPods /\ creates \in 0 .. MaxCreates
    /\ updates \in 0 .. MaxUpdates /\ crashes \in 0 .. MaxCrashes /\ retries \in 0 .. MaxRetries

Flags ==
    /\ removable \in BOOLEAN /\ gone \in BOOLEAN /\ up \in BOOLEAN /\ dir \in BOOLEAN
    /\ watched \subseteq {"pod", "controlfiles"} /\ mishaps \subseteq Mishaps

Records ==
    /\ api \in ApiSet /\ crd \in FileSet /\ upd \in UpdateSet /\ del \in DeleteSet
    /\ creator \in [Creators -> CreatorSet] /\ job \in [Creators -> JobStates]

LEMMA TypeParts ==
    LifecycleTypeOK <=> Counters /\ Flags /\ Records /\ (crd.st # "none" => dir)
  BY DEF LifecycleTypeOK, Counters, Flags, Records, ApiSet, FileSet, UpdateSet, DeleteSet, CreatorSet

LEMMA TypePartsNext ==
    LifecycleTypeOK' <=> Counters' /\ Flags' /\ Records' /\ (crd'.st # "none" => dir')
  BY DEF LifecycleTypeOK, Counters, Flags, Records, ApiSet, FileSet, UpdateSet, DeleteSet, CreatorSet

LEMMA LifecycleTypeStep == Basics /\ [LifecycleNext]_lifeVars => LifecycleTypeOK'
<1> SUFFICES ASSUME LifecycleTypeOK, Calls, [LifecycleNext]_lifeVars
             PROVE  Counters' /\ Flags' /\ Records' /\ (crd'.st # "none" => dir')
  BY TypePartsNext DEF Basics
<1>0. Counters /\ Flags /\ Records /\ (crd.st # "none" => dir)
  BY TypeParts
<1> DEFINE Goal == Counters' /\ Flags' /\ Records' /\ (crd'.st # "none" => dir')
<1> USE LifecycleAssumption DEF apiVars, diskVars, callVars, countVars
<1>1. CASE UNCHANGED lifeVars
  BY <1>0, <1>1 DEF lifeVars, Counters, Flags, Records
<1>2. CASE ApiCreate
  <2>0. pods' = pods + 1 /\ pods' \in 0 .. MaxPods
    BY <1>0, <1>2 DEF ApiCreate, Counters
  <2>1. api' \in ApiSet /\ pods' \in 0 .. MaxPods
    BY <1>2, <2>0, Constants DEF ApiCreate, ApiSet
  <2>2. mishaps' \subseteq Mishaps
    BY <1>0, <1>2 DEF ApiCreate, Flags, Mishaps
  <2> QED
    BY <1>0, <1>2, <2>1, <2>2 DEF ApiCreate, Counters, Flags, Records
<1>3. CASE ApiDelete
  <2>1. api' \in ApiSet
    BY <1>0, <1>3 DEF ApiDelete, ApiSet, Records
  <2> QED
    BY <1>0, <1>3, <2>1 DEF ApiDelete, Counters, Flags, Records
<1>4. CASE ApiRemove
  BY <1>0, <1>4, Constants DEF ApiRemove, Counters, Flags, Records
<1>5. ASSUME NEW n \in Creators, CreatePod(n) PROVE Goal
  <2>1. creator' \in [Creators -> CreatorSet]
    BY <1>5, CreatePodMoves
  <2>2. mishaps' \subseteq Mishaps /\ creates' \in 0 .. MaxCreates
    BY <1>0, <1>5, Constants DEF CreatePod, Flags, Mishaps
  <2> QED
    BY <1>0, <1>5, <2>1, <2>2 DEF CreatePod, Counters, Flags, Records
<1>6. ASSUME NEW n \in Creators, MakeDirectories(n) PROVE Goal
  <2>1. creator' \in [Creators -> CreatorSet]
    BY <1>6, GoMoves DEF MakeDirectories, Moved, CreatorSteps
  <2> QED
    BY <1>0, <1>6, <2>1 DEF MakeDirectories, Counters, Flags, Records
<1>7. ASSUME NEW n \in Creators, AddWatch(n) PROVE Goal
  <2>1. creator' \in [Creators -> CreatorSet]
    BY <1>7, GoMoves DEF AddWatch, Moved, CreatorSteps
  <2> QED
    BY <1>0, <1>7, <2>1 DEF AddWatch, Counters, Flags, Records
<1>8. ASSUME NEW n \in Creators, Build(n) PROVE Goal
  <2>1. creator' \in [Creators -> CreatorSet]
    BY <1>8, GoMoves DEF Build, Moved, CreatorSteps
  <2> QED
    BY <1>0, <1>8, <2>1 DEF Build, Counters, Flags, Records
<1>9. ASSUME NEW n \in Creators, BuildFails(n) PROVE Goal
  <2>1. creator' \in [Creators -> CreatorSet]
    BY <1>9, BuildFailsMoves DEF Moved
  <2> QED
    BY <1>0, <1>9, <2>1 DEF BuildFails, Counters, Flags, Records
<1>10. ASSUME NEW n \in Creators, SubmitJob(n) PROVE Goal
  <2>1. creator' \in [Creators -> CreatorSet]
    BY <1>10, GoMoves DEF SubmitJob, Moved, CreatorSteps
  <2>2. job' \in [Creators -> JobStates]
    BY <1>0, <1>10 DEF SubmitJob, Records, JobStates
  <2> QED
    BY <1>0, <1>10, <2>1, <2>2 DEF SubmitJob, Counters, Flags, Records
<1>11. ASSUME NEW n \in Creators, SavePodToFile(n) PROVE Goal
  <2>1. creator' \in [Creators -> CreatorSet]
    BY <1>11, GoMoves DEF SavePodToFile, Moved, CreatorSteps
  <2>2. crd' \in FileSet
    BY <1>11, Constants DEF SavePodToFile, FileSet
  <2> QED
    BY <1>0, <1>11, <2>1, <2>2 DEF SavePodToFile, Counters, Flags, Records
<1>12. ASSUME NEW n \in Creators, SavePodWrite(n) PROVE Goal
  <2>1. creator' \in [Creators -> CreatorSet] /\ creator[n] \in CreatorSet
    BY <1>0, <1>12, GoMoves DEF SavePodWrite, Moved, CreatorSteps, Records
  <2>2. crd' \in FileSet
    BY <1>0, <1>12, <2>1, Constants DEF SavePodWrite, FileSet, CreatorSet, Records, PodPhases
  <2>3. crd'.st # "none" => crd.st # "none"
    BY <1>12 DEF SavePodWrite
  <2> QED
    BY <1>0, <1>12, <2>1, <2>2, <2>3 DEF SavePodWrite, Counters, Flags, Records
<1>13. ASSUME NEW n \in Creators, NotifyCreated(n) PROVE Goal
  <2>1. creator' \in [Creators -> CreatorSet]
    BY <1>13, GoMoves DEF NotifyCreated, Moved, CreatorSteps
  <2>2. api' \in ApiSet
    BY <1>0, <1>13, Constants DEF NotifyCreated, ApiSet, Records, PodPhases
  <2> QED
    BY <1>0, <1>13, <2>1, <2>2 DEF NotifyCreated, Counters, Flags, Records
<1>14. ASSUME NEW n \in Creators, CreatePanics(n) PROVE Goal
  BY <1>0, <1>14, DieStops DEF CreatePanics, Counters, Flags, Records
<1>15. CASE UpdatePod
  <2>1. upd' \in UpdateSet /\ crd' \in FileSet
    BY <1>0, <1>15, Constants DEF UpdatePod, UpdateSet, FileSet, ApiSet, Records
  <2>2. updates' \in 0 .. MaxUpdates
    BY <1>0, <1>15 DEF UpdatePod, Counters
  <2>3. dir'
    BY <1>0, <1>15 DEF UpdatePod
  <2> QED
    BY <1>0, <1>15, <2>1, <2>2, <2>3 DEF UpdatePod, Counters, Flags, Records
<1>16. CASE UpdatePodWrite
  <2>1. upd' \in UpdateSet /\ crd' \in FileSet
    BY <1>0, <1>16, Constants DEF UpdatePodWrite, UpdateSet, FileSet, Records
  <2>2. dir'
    BY <1>0, <1>16 DEF UpdatePodWrite, Calls
  <2> QED
    BY <1>0, <1>16, <2>1, <2>2 DEF UpdatePodWrite, Counters, Flags, Records
<1>17. CASE DeletePod \/ DeleteGonePod
  <2>1. del' \in DeleteSet
    BY <1>17, Constants DEF DeletePod, DeleteGonePod, DeleteSet
  <2> QED
    BY <1>0, <1>17, <2>1 DEF DeletePod, DeleteGonePod, Counters, Flags, Records
<1>18. CASE ForgetGonePod
  <2>1. mishaps' \subseteq Mishaps
    BY <1>0, <1>18 DEF ForgetGonePod, Flags, Mishaps
  <2> QED
    BY <1>0, <1>18, <2>1 DEF ForgetGonePod, Counters, Flags, Records
<1>19. CASE DeleteNotFound
  <2>1. mishaps' \subseteq Mishaps
    BY <1>0, <1>19 DEF DeleteNotFound, Flags, Mishaps
  <2>2. removable' \in BOOLEAN /\ del' \in DeleteSet
    BY <1>0, <1>19, Constants DEF DeleteNotFound, Records, ApiSet
  <2> QED
    BY <1>0, <1>19, <2>1, <2>2 DEF DeleteNotFound, Counters, Flags, Records
<1>20. CASE DeletePanics
  BY <1>0, <1>20, DieStops DEF DeletePanics, Counters, Flags, Records
<1>21. CASE LoadForDelete
  <2>1. del' \in DeleteSet
    BY <1>0, <1>21 DEF LoadForDelete, DeleteSet, Records, FileSet
  <2> QED
    BY <1>0, <1>21, <2>1 DEF LoadForDelete, Counters, Flags, Records
<1>22. CASE CancelJob
  <2>1. del' \in DeleteSet
    BY <1>0, <1>22 DEF CancelJob, DeleteSet, Records
  <2>2. job' \in [Creators -> JobStates]
    BY <1>0, <1>22 DEF CancelJob, Records, JobStates
  <2> QED
    BY <1>0, <1>22, <2>1, <2>2 DEF CancelJob, Counters, Flags, Records
<1>23. CASE CancelRetry
  <2>1. mishaps' \subseteq Mishaps
    BY <1>0, <1>23 DEF CancelRetry, Flags, Mishaps
  <2>2. removable' \in BOOLEAN /\ del' \in DeleteSet
    BY <1>0, <1>23, Constants DEF CancelRetry, Records, ApiSet
  <2>3. retries' \in 0 .. MaxRetries
    BY <1>0, <1>23 DEF CancelRetry, Counters
  <2> QED
    BY <1>0, <1>23, <2>1, <2>2, <2>3 DEF CancelRetry, Counters, Flags, Records
<1>24. CASE RemovePod
  <2>1. removable' \in BOOLEAN /\ del' \in DeleteSet
    BY <1>0, <1>24, Constants DEF RemovePod, Records, ApiSet
  <2>2. crd' \in FileSet /\ crd'.st = "none"
    BY <1>24, Constants DEF RemovePod, NoFile
  <2> QED
    BY <1>0, <1>24, <2>1, <2>2 DEF RemovePod, Counters, Flags, Records
<1>25. ASSUME NEW n \in Creators, JobEnds(n) PROVE Goal
  <2>1. job' \in [Creators -> JobStates]
    BY <1>0, <1>25 DEF JobEnds, Records, JobStates
  <2> QED
    BY <1>0, <1>25, <2>1 DEF JobEnds, Counters, Flags, Records
<1>26. CASE ReportStatus
  <2>1. api' \in ApiSet
    BY <1>0, <1>26 DEF ReportStatus, ApiSet, FileSet, Records, PodPhases
  <2> QED
    BY <1>0, <1>26, <2>1 DEF ReportStatus, Counters, Flags, Records
<1>27. CASE Crash
  <2>1. crashes' \in 0 .. MaxCrashes
    BY <1>0, <1>27 DEF Crash, Counters
  <2> QED
    BY <1>0, <1>27, <2>1, DieStops DEF Crash, Counters, Flags, Records
<1>28. CASE Restart
  BY <1>0, <1>28 DEF Restart, Counters, Flags, Records
<1> QED
  BY <1>1, <1>2, <1>3, <1>4, <1>5, <1>6, <1>7, <1>8, <1>9, <1>10, <1>11, <1>12, <1>13, <1>14,
     <1>15, <1>16, <1>17, <1>18, <1>19, <1>20, <1>21, <1>22, <1>23, <1>24, <1>25, <1>26, <1>27,
     <1>28, LifecycleSteps

-----------------------------------------------------------------------------
(* The rest of Basics.                                                     *)

\* The calls and the file, which most actions leave alone.
LEMMA CallsStep == Basics /\ [LifecycleNext]_lifeVars => Calls'
<1> SUFFICES ASSUME LifecycleTypeOK, Calls, [LifecycleNext]_lifeVars PROVE Calls'
  BY DEF Basics
<1>0. api \in ApiSet /\ crd \in FileSet /\ upd \in UpdateSet /\ del \in DeleteSet /\ pods \in Nat
  BY Types
<1> USE DEF Calls, apiVars, diskVars, callVars, countVars
<1>1. CASE ApiCreate
  BY <1>0, <1>1 DEF ApiCreate, NoPod
<1>2. CASE ApiDelete
  BY <1>0, <1>2 DEF ApiDelete, ApiSet
<1>3. CASE ApiRemove
  BY <1>0, <1>3 DEF ApiRemove, NoPod, Free
<1>4. ASSUME NEW n \in Creators, CreatePod(n) PROVE Calls'
  BY <1>4 DEF CreatePod, Free
<1>5. ASSUME NEW n \in Creators,
             MakeDirectories(n) \/ AddWatch(n) \/ Build(n) \/ BuildFails(n) \/ SubmitJob(n) \/ JobEnds(n)
      PROVE  Calls'
  BY <1>5 DEF MakeDirectories, AddWatch, Build, BuildFails, SubmitJob, JobEnds
<1>6. ASSUME NEW n \in Creators, SavePodToFile(n) PROVE Calls'
  BY <1>6 DEF SavePodToFile, NoFile
<1>7. ASSUME NEW n \in Creators, SavePodWrite(n) PROVE Calls'
  BY <1>7 DEF SavePodWrite
<1>8. ASSUME NEW n \in Creators, NotifyCreated(n) PROVE Calls'
  BY <1>0, <1>8 DEF NotifyCreated, ApiSet
<1>9. ASSUME Die, UNCHANGED <<api, pods, gone, crd>> PROVE Calls'
  BY <1>9, DieStops
<1>10. ASSUME NEW n \in Creators, CreatePanics(n) PROVE Calls'
  BY <1>9, <1>10 DEF CreatePanics
<1>11. CASE DeletePanics \/ Crash
  BY <1>9, <1>11 DEF DeletePanics, Crash
<1>12. CASE UpdatePod
  BY <1>12 DEF UpdatePod, Free, NoFile
<1>13. CASE UpdatePodWrite
  BY <1>13 DEF UpdatePodWrite, NoUpdate
<1>14. CASE DeletePod \/ DeleteGonePod \/ ForgetGonePod
  BY <1>0, <1>14 DEF DeletePod, DeleteGonePod, ForgetGonePod, Free, UpdateSet
<1>15. CASE DeleteNotFound \/ CancelRetry
  BY <1>0, <1>15 DEF DeleteNotFound, CancelRetry, NoDelete
<1>16. CASE LoadForDelete \/ CancelJob
  BY <1>0, <1>16 DEF LoadForDelete, CancelJob, DeleteSet
<1>17. CASE RemovePod
  BY <1>0, <1>17 DEF RemovePod, NoDelete, NoFile
<1>18. CASE ReportStatus
  BY <1>0, <1>18 DEF ReportStatus, ApiSet
<1>19. CASE Restart
  BY <1>19 DEF Restart
<1>20. CASE UNCHANGED lifeVars
  BY <1>20 DEF lifeVars
<1> QED
  BY <1>1, <1>2, <1>3, <1>4, <1>5, <1>6, <1>7, <1>8, <1>10, <1>11, <1>12, <1>13, <1>14, <1>15,
     <1>16, <1>17, <1>18, <1>19, <1>20, LifecycleSteps

\* No step that leaves the goroutines alone disturbs what is known of them.
LEMMA GoroutinesKept ==
    ASSUME Basics, creator' = creator, creates' = creates, up => up', pods' \in {pods, pods + 1},
           \A n \in Creators : job'[n] = "none" <=> job[n] = "none"
    PROVE  Numbered' /\ Submits'
<1>1. pods \in Nat /\ \A n \in Creators : creator[n].uid \in Nat
  BY Types DEF Basics, CreatorSet
<1>2. Numbered'
  BY <1>1 DEF Basics, Numbered
<1>3. Submits'
  BY DEF Basics, Submits
<1> QED
  BY <1>2, <1>3

\* A goroutine that moves on, with the job it has or has not submitted.
LEMMA GoroutineMoved ==
    ASSUME Basics, NEW n \in Creators, NEW to, Moved(n, to), creator[n].pc # "idle",
           up', creates' = creates, pods' = pods,
           \A m \in Creators \ {n} : job'[m] = job[m],
           to \in Early => job'[n] = "none",
           to \in {"save", "write"} => job'[n] # "none",
           to = "notify" /\ ~creator'[n].failed => job'[n] # "none"
    PROVE  Numbered' /\ Submits'
<1>1. creator[n].uid # 0 /\ n <= creates
  <2>1. n \in Nat /\ creates \in Nat
    BY Types, LifecycleAssumption DEF Basics, Creators
  <2> QED
    BY <2>1 DEF Basics, Numbered
<1>2. n \in Nat /\ creates \in Nat
  BY Types, LifecycleAssumption DEF Basics, Creators
<1>3. Numbered'
  BY <1>1, <1>2 DEF Basics, Numbered, Moved
<1>4. Submits'
  BY DEF Basics, Submits, Moved
<1> QED
  BY <1>3, <1>4

LEMMA GoroutinesStep == Basics /\ [LifecycleNext]_lifeVars => Numbered' /\ Submits'
<1> SUFFICES ASSUME Basics, [LifecycleNext]_lifeVars PROVE Numbered' /\ Submits'
  OBVIOUS
<1>a. LifecycleTypeOK
  BY DEF Basics
<1>b. job \in [Creators -> JobStates] /\ pods \in Nat
  BY <1>a, Types
<1> USE DEF apiVars, diskVars, callVars, countVars
<1>1. CASE ApiCreate
  BY <1>1, GoroutinesKept DEF ApiCreate
<1>2. CASE UNCHANGED <<creator, creates, pods, job>> /\ (up => up')
  BY <1>2, GoroutinesKept
<1>3. \/ UNCHANGED lifeVars \/ ApiDelete \/ ApiRemove \/ UpdatePod \/ UpdatePodWrite \/ DeletePod
      \/ DeleteGonePod \/ ForgetGonePod \/ DeleteNotFound \/ LoadForDelete \/ CancelRetry
      \/ RemovePod \/ ReportStatus \/ Restart
      => UNCHANGED <<creator, creates, pods, job>> /\ (up => up')
  BY DEF lifeVars, ApiDelete, ApiRemove, UpdatePod, UpdatePodWrite, DeletePod, DeleteGonePod,
         ForgetGonePod, DeleteNotFound, LoadForDelete, CancelRetry, RemovePod, ReportStatus, Restart
<1>4. ASSUME NEW n \in Creators, CreatePod(n) PROVE Numbered' /\ Submits'
  <2>1. /\ creator'[n].pc = "mkdir" /\ creator'[n].uid = api.uid
        /\ \A m \in Creators \ {n} : creator'[m] = creator[m]
    BY <1>4, <1>a, CreatePodMoves
  <2>2. creates \in Nat /\ creates' = creates + 1 /\ n = creates + 1
    BY <1>4, <1>a, Types DEF CreatePod
  <2>3. job[n] = "none" /\ job' = job /\ pods' = pods /\ up' /\ api.uid # 0 /\ api.uid <= pods
    BY <1>4, <2>2 DEF CreatePod, Basics, Numbered, Free, Calls
  <2>4. Numbered'
    <3> SUFFICES ASSUME NEW m \in Creators
                 PROVE  /\ m > creates' => creator'[m].pc = "idle" /\ creator'[m].uid = 0
                                             /\ job'[m] = "none"
                        /\ m <= creates' => creator'[m].uid # 0
                        /\ creator'[m].uid <= pods'
      BY DEF Numbered
    <3>1. m \in Nat
      BY LifecycleAssumption DEF Creators
    <3>2. CASE m = n
      BY <2>1, <2>2, <2>3, <3>2
    <3>3. CASE m # n
      BY <2>1, <2>2, <2>3, <3>1, <3>3 DEF Basics, Numbered
    <3> QED
      BY <3>2, <3>3
  <2>5. Submits'
    BY <2>1, <2>3 DEF Basics, Submits
  <2> QED
    BY <2>4, <2>5
<1>5. ASSUME NEW n \in Creators, MakeDirectories(n) PROVE Numbered' /\ Submits'
  <2>1. Moved(n, "watch") /\ creator[n].pc = "mkdir" /\ up
    BY <1>5, <1>a, GoMoves DEF MakeDirectories, CreatorSteps
  <2> QED
    BY <1>5, <2>1, GoroutineMoved DEF MakeDirectories, Basics, Submits, Early
<1>6. ASSUME NEW n \in Creators, AddWatch(n) PROVE Numbered' /\ Submits'
  <2>1. Moved(n, "build") /\ creator[n].pc = "watch" /\ up
    BY <1>6, <1>a, GoMoves DEF AddWatch, CreatorSteps
  <2> QED
    BY <1>6, <2>1, GoroutineMoved DEF AddWatch, Basics, Submits, Early
<1>7. ASSUME NEW n \in Creators, Build(n) PROVE Numbered' /\ Submits'
  <2>1. Moved(n, "submit") /\ creator[n].pc = "build" /\ up
    BY <1>7, <1>a, GoMoves DEF Build, CreatorSteps
  <2> QED
    BY <1>7, <2>1, GoroutineMoved DEF Build, Basics, Submits, Early
<1>8. ASSUME NEW n \in Creators, BuildFails(n) PROVE Numbered' /\ Submits'
  <2>1. Moved(n, "notify") /\ creator[n].pc = "build" /\ creator'[n].failed
    BY <1>8, <1>a, BuildFailsMoves
  <2> QED
    BY <1>8, <2>1, GoroutineMoved DEF BuildFails, Early
<1>9. ASSUME NEW n \in Creators, SubmitJob(n) PROVE Numbered' /\ Submits'
  <2>1. Moved(n, "save") /\ creator[n].pc = "submit" /\ up
    BY <1>9, <1>a, GoMoves DEF SubmitJob, CreatorSteps
  <2>2. job'[n] = "active" /\ \A m \in Creators \ {n} : job'[m] = job[m]
    BY <1>9, <1>b DEF SubmitJob
  <2> QED
    BY <1>9, <2>1, <2>2, GoroutineMoved DEF SubmitJob, Early
<1>10. ASSUME NEW n \in Creators, SavePodToFile(n) PROVE Numbered' /\ Submits'
  <2>1. Moved(n, "write") /\ creator[n].pc = "save" /\ up
    BY <1>10, <1>a, GoMoves DEF SavePodToFile, CreatorSteps
  <2> QED
    BY <1>10, <2>1, GoroutineMoved DEF SavePodToFile, Basics, Submits, Early
<1>11. ASSUME NEW n \in Creators, SavePodWrite(n) PROVE Numbered' /\ Submits'
  <2>1. Moved(n, "notify") /\ creator[n].pc = "write" /\ up
    BY <1>11, <1>a, GoMoves DEF SavePodWrite, CreatorSteps
  <2> QED
    BY <1>11, <2>1, GoroutineMoved DEF SavePodWrite, Basics, Submits, Early
<1>12. ASSUME NEW n \in Creators, NotifyCreated(n) PROVE Numbered' /\ Submits'
  <2>1. Moved(n, "idle") /\ creator[n].pc = "notify" /\ up
    BY <1>12, <1>a, GoMoves DEF NotifyCreated, CreatorSteps
  <2> QED
    BY <1>12, <2>1, GoroutineMoved DEF NotifyCreated, Early
<1>13. ASSUME Die, UNCHANGED <<creates, pods, job>> PROVE Numbered' /\ Submits'
  <2>1. \A n \in Creators : creator'[n].pc = "idle" /\ creator'[n].uid = creator[n].uid
    BY <1>13, <1>a, DieStops
  <2> QED
    BY <1>13, <2>1 DEF Basics, Numbered, Submits, Early
<1>14. ASSUME NEW n \in Creators, CreatePanics(n) PROVE Numbered' /\ Submits'
  BY <1>13, <1>14 DEF CreatePanics
<1>15. CASE DeletePanics \/ Crash
  BY <1>13, <1>15 DEF DeletePanics, Crash
<1>16. CASE CancelJob
  <2>1. Known(del.job)
    BY <1>16 DEF CancelJob, Basics, Names
  <2>2. \A n \in Creators : job'[n] = "none" <=> job[n] = "none"
    BY <1>16, <1>b, <2>1 DEF CancelJob, Known
  <2> QED
    BY <1>16, <2>2, GoroutinesKept DEF CancelJob
<1>17. ASSUME NEW n \in Creators, JobEnds(n) PROVE Numbered' /\ Submits'
  <2>1. \A m \in Creators : job'[m] = "none" <=> job[m] = "none"
    BY <1>17, <1>b DEF JobEnds, Running
  <2> QED
    BY <1>17, <2>1, GoroutinesKept DEF JobEnds
<1> QED
  BY <1>1, <1>2, <1>3, <1>4, <1>5, <1>6, <1>7, <1>8, <1>9, <1>10, <1>11, <1>12, <1>14, <1>15,
     <1>16, <1>17, LifecycleSteps

-----------------------------------------------------------------------------
\* A job that has been submitted remains so.
LEMMA KnownStays ==
    ASSUME Basics, [LifecycleNext]_lifeVars, NEW j, Known(j)
    PROVE  Known(j)'
<1>1. job \in [Creators -> JobStates] /\ j \in Creators
  BY Types DEF Basics, Known
<1>2. \/ job' = job \/ CancelJob \/ \E n \in Creators : SubmitJob(n) \/ JobEnds(n)
  BY LifecycleSteps
  DEF lifeVars, ApiCreate, ApiDelete, ApiRemove, UpdatePod, UpdatePodWrite, DeletePod,
      DeleteGonePod, ForgetGonePod, DeleteNotFound, DeletePanics, LoadForDelete, CancelRetry,
      RemovePod, ReportStatus, Crash, Restart, CreatePod, MakeDirectories, AddWatch, Build,
      BuildFails, SavePodToFile, SavePodWrite, NotifyCreated, CreatePanics
<1>3. job' = job => Known(j)'
  BY DEF Known
<1>4. CancelJob => Known(j)'
  BY <1>1 DEF CancelJob, Known
<1>5. \A n \in Creators : SubmitJob(n) \/ JobEnds(n) => Known(j)'
  BY <1>1 DEF SubmitJob, JobEnds, Known
<1> QED
  BY <1>2, <1>3, <1>4, <1>5

LEMMA NamesStep == Basics /\ [LifecycleNext]_lifeVars => Names'
<1> SUFFICES ASSUME Basics, [LifecycleNext]_lifeVars PROVE Names'
  OBVIOUS
<1>a. LifecycleTypeOK /\ Names
  BY DEF Basics
<1>b. api \in ApiSet /\ crd \in FileSet /\ upd \in UpdateSet /\ del \in DeleteSet
  BY <1>a, Types
<1>c. \A j : Known(j) => Known(j)'
  BY KnownStays
<1> USE <1>a, <1>c DEF Names, apiVars, diskVars, callVars, countVars
<1>1. CASE UNCHANGED <<api, crd, upd, del>>
  BY <1>1
<1>2. CASE ApiCreate \/ ApiRemove
  BY <1>2 DEF ApiCreate, ApiRemove, NoPod
<1>3. CASE ApiDelete
  BY <1>3, <1>b DEF ApiDelete, ApiSet
<1>4. ASSUME NEW n \in Creators, SavePodToFile(n) PROVE Names'
  BY <1>4 DEF SavePodToFile, NoFile
<1>5. ASSUME NEW n \in Creators, SavePodWrite(n) PROVE Names'
  <2>1. Known(n)
    BY <1>5 DEF SavePodWrite, Go, Basics, Submits, Known
  <2> QED
    BY <1>5, <2>1 DEF SavePodWrite
<1>6. ASSUME NEW n \in Creators, NotifyCreated(n) PROVE Names'
  <2>1. api'.job = api.job \/ (api'.job = n /\ ~creator[n].failed)
    BY <1>6, <1>b DEF NotifyCreated, ApiSet
  <2>2. ~creator[n].failed => Known(n)
    BY <1>6 DEF NotifyCreated, Go, Basics, Submits, Known
  <2> QED
    BY <1>6, <2>1, <2>2 DEF NotifyCreated
<1>7. ASSUME Die, UNCHANGED <<api, crd>> PROVE Names'
  <2>1. upd'.pc = "idle" /\ del'.pc = "idle"
    BY <1>7, DieStops
  <2> QED
    BY <1>7, <2>1
<1>8. CASE UpdatePod
  BY <1>8 DEF UpdatePod, NoFile
<1>9. CASE UpdatePodWrite
  BY <1>9 DEF UpdatePodWrite, NoUpdate
<1>10. CASE DeletePod \/ DeleteGonePod \/ DeleteNotFound \/ CancelRetry
  BY <1>10 DEF DeletePod, DeleteGonePod, DeleteNotFound, CancelRetry, NoDelete
<1>11. CASE LoadForDelete \/ CancelJob
  BY <1>11, <1>b DEF LoadForDelete, CancelJob, DeleteSet
<1>12. CASE RemovePod
  BY <1>12 DEF RemovePod, NoDelete, NoFile
<1>13. CASE ReportStatus
  BY <1>13, <1>b DEF ReportStatus, ApiSet
<1>14. ASSUME NEW n \in Creators, CreatePanics(n) PROVE Names'
  BY <1>7, <1>14 DEF CreatePanics
<1>15. CASE DeletePanics \/ Crash
  BY <1>7, <1>15 DEF DeletePanics, Crash
<1>16. UNCHANGED lifeVars \/ ForgetGonePod \/ Restart => UNCHANGED <<api, crd, upd, del>>
  BY DEF lifeVars, ForgetGonePod, Restart
<1>17. \A n \in Creators : \/ CreatePod(n) \/ MakeDirectories(n) \/ AddWatch(n) \/ Build(n)
                           \/ BuildFails(n) \/ SubmitJob(n) \/ JobEnds(n)
                           => UNCHANGED <<api, crd, upd, del>>
  BY DEF CreatePod, MakeDirectories, AddWatch, Build, BuildFails, SubmitJob, JobEnds
<1> QED
  BY <1>1, <1>2, <1>3, <1>4, <1>5, <1>6, <1>8, <1>9, <1>10, <1>11, <1>12, <1>13, <1>14, <1>15,
     <1>16, <1>17, LifecycleSteps

LEMMA BasicsStep == Basics /\ [LifecycleNext]_lifeVars => Basics'
  BY LifecycleTypeStep, CallsStep, GoroutinesStep, NamesStep DEF Basics

-----------------------------------------------------------------------------
(* Mishaps are not forgotten.                                              *)
LEMMA MishapsStay == [LifecycleNext]_lifeVars => mishaps \subseteq mishaps'
<1> SUFFICES ASSUME [LifecycleNext]_lifeVars PROVE mishaps \subseteq mishaps'
  OBVIOUS
<1>1. \/ mishaps' = mishaps \/ Die
      \/ ApiCreate \/ ForgetGonePod \/ DeleteNotFound \/ CancelRetry \/ \E n \in Creators : CreatePod(n)
  BY LifecycleSteps
  DEF lifeVars, ApiDelete, ApiRemove, UpdatePod, UpdatePodWrite, DeletePod,
      DeleteGonePod, DeletePanics, LoadForDelete, CancelJob,
      RemovePod, ReportStatus, Crash, Restart, MakeDirectories, AddWatch, Build,
      BuildFails, SubmitJob, SavePodToFile, SavePodWrite, NotifyCreated, CreatePanics, JobEnds
<1> QED
  BY <1>1 DEF Die, ApiCreate, ForgetGonePod, DeleteNotFound, CancelRetry, CreatePod

-----------------------------------------------------------------------------
(* Without a CreatePod during another.                                     *)

\* A goroutine that runs moves on: the others are idle, before and after.
LEMMA MovedAlone ==
    ASSUME OneCreator, NEW n \in Creators, NEW to, Moved(n, to), creator[n].pc # "idle"
    PROVE  OneCreator' /\ \A m \in Creators \ {n} : creator[m].pc = "idle" /\ creator'[m].pc = "idle"
  BY DEF OneCreator, Moved

LEMMA OrderedStep == Basics /\ Ordered /\ [LifecycleNext]_lifeVars => Ordered'
<1> SUFFICES ASSUME Basics, Ordered, [LifecycleNext]_lifeVars, "duplicate" \notin mishaps'
             PROVE  OneCreator' /\ SavedAlone' /\ DeletesWhatItLoaded'
  BY DEF Ordered
<1> DEFINE Goal == OneCreator' /\ SavedAlone' /\ DeletesWhatItLoaded'
<1>a. OneCreator /\ SavedAlone /\ DeletesWhatItLoaded
  BY MishapsStay DEF Ordered
<1>b. LifecycleTypeOK /\ Calls /\ Names /\ Submits
  BY DEF Basics
<1>c. /\ crd \in FileSet /\ upd \in UpdateSet /\ del \in DeleteSet
      /\ job \in [Creators -> JobStates]
  BY <1>b, Types
<1> USE DEF apiVars, diskVars, callVars, countVars
<1>1. CASE UNCHANGED <<creator, crd, upd, del, job>>
  BY <1>a, <1>1 DEF OneCreator, SavedAlone, NoBuilder, DeletesWhatItLoaded
<1>2. (\/ UNCHANGED lifeVars \/ ApiCreate \/ ApiDelete \/ ApiRemove \/ ForgetGonePod
       \/ ReportStatus \/ Restart) => UNCHANGED <<creator, crd, upd, del, job>>
  BY DEF lifeVars, ApiCreate, ApiDelete, ApiRemove, ForgetGonePod, ReportStatus, Restart
<1>3. ASSUME NEW n \in Creators, CreatePod(n) PROVE Goal
  <2>1. ~Creating
    BY <1>3 DEF CreatePod
  <2>2. \A m \in Creators \ {n} : creator'[m].pc = "idle"
    BY <1>3, <1>b, <2>1, CreatePodMoves DEF Creating
  <2>3. OneCreator'
    BY <2>2 DEF OneCreator
  <2>4. SavedAlone' /\ DeletesWhatItLoaded'
    BY <1>3 DEF CreatePod, Free, SavedAlone, DeletesWhatItLoaded
  <2> QED
    BY <2>3, <2>4
\* A step of a goroutine before its write finds no saved file.
<1>4. ASSUME NEW n \in Creators, NEW to, Moved(n, to), creator[n].pc \in Building,
             UNCHANGED <<upd, del>>, crd' = crd \/ crd'.st # "saved"
      PROVE  Goal
  <2>1. crd.st # "saved" /\ upd.pc # "write"
    BY <1>a, <1>4 DEF SavedAlone, NoBuilder
  <2>2. del.pc \notin {"cancel", "remove"}
    BY <1>a, <2>1 DEF DeletesWhatItLoaded
  <2>3. OneCreator'
    BY <1>a, <1>4, MovedAlone DEF Building, Early
  <2> QED
    BY <1>4, <2>1, <2>2, <2>3 DEF SavedAlone, DeletesWhatItLoaded
<1>5. ASSUME NEW n \in Creators,
             MakeDirectories(n) \/ AddWatch(n) \/ Build(n) \/ SubmitJob(n)
      PROVE  Goal
  <2>1. PICK to \in CreatorSteps : \E from \in Early : Go(n, from, to)
    BY <1>5 DEF MakeDirectories, AddWatch, Build, SubmitJob, CreatorSteps, Early
  <2>2. Moved(n, to) /\ creator[n].pc \in Early
    BY <1>b, <2>1, GoMoves
  <2>3. UNCHANGED <<upd, del, crd>>
    BY <1>5 DEF MakeDirectories, AddWatch, Build, SubmitJob
  <2> QED
    BY <1>4, <2>2, <2>3 DEF Building
<1>6. ASSUME NEW n \in Creators, BuildFails(n) PROVE Goal
  BY <1>4, <1>6, <1>b, BuildFailsMoves DEF BuildFails, Building, Early
<1>7. ASSUME NEW n \in Creators, SavePodToFile(n) PROVE Goal
  <2>1. Moved(n, "write") /\ creator[n].pc = "save"
    BY <1>7, <1>b, GoMoves DEF SavePodToFile, CreatorSteps
  <2> QED
    BY <1>4, <1>7, <2>1 DEF SavePodToFile, Building, NoFile
<1>8. ASSUME NEW n \in Creators, SavePodWrite(n) PROVE Goal
  <2>1. Moved(n, "notify") /\ creator[n].pc = "write"
    BY <1>8, <1>b, GoMoves DEF SavePodWrite, CreatorSteps
  <2>2. OneCreator' /\ \A m \in Creators \ {n} : creator'[m].pc = "idle"
    BY <1>a, <2>1, MovedAlone
  <2>3. NoBuilder'
    BY <2>1, <2>2 DEF NoBuilder, Moved, Building, Early
  <2>4. crd.st # "saved"
    BY <1>a, <2>1 DEF SavedAlone, NoBuilder, Building
  <2>5. DeletesWhatItLoaded'
    BY <1>a, <1>8, <2>4 DEF SavePodWrite, DeletesWhatItLoaded
  <2> QED
    BY <2>2, <2>3, <2>5 DEF SavedAlone
<1>9. ASSUME NEW n \in Creators, NotifyCreated(n) PROVE Goal
  <2>1. Moved(n, "idle") /\ creator[n].pc = "notify"
    BY <1>9, <1>b, GoMoves DEF NotifyCreated, CreatorSteps
  <2>2. OneCreator' /\ \A m \in Creators \ {n} : creator'[m].pc = "idle"
    BY <1>a, <2>1, MovedAlone
  <2>3. NoBuilder'
    BY <2>1, <2>2 DEF NoBuilder, Moved, Building, Early
  <2> QED
    BY <1>a, <1>9, <2>2, <2>3 DEF NotifyCreated, SavedAlone, DeletesWhatItLoaded
<1>10. ASSUME Die PROVE Goal
  <2>1. del'.pc = "idle" /\ \A n \in Creators : creator'[n].pc = "idle"
    BY <1>10, <1>b, DieStops
  <2> QED
    BY <2>1 DEF OneCreator, SavedAlone, NoBuilder, DeletesWhatItLoaded, Building, Early
<1>11. ASSUME NEW n \in Creators, CreatePanics(n) PROVE Goal
  BY <1>10, <1>11 DEF CreatePanics
<1>19. CASE DeletePanics \/ Crash
  BY <1>10, <1>19 DEF DeletePanics, Crash
<1>12. CASE UpdatePod
  <2>1. NoBuilder /\ creator' = creator /\ del' = del /\ del.pc = "idle"
    BY <1>a, <1>12 DEF UpdatePod, SavedAlone, Free
  <2> QED
    BY <1>a, <2>1 DEF OneCreator, SavedAlone, NoBuilder, DeletesWhatItLoaded
<1>13. CASE UpdatePodWrite
  <2>1. NoBuilder /\ creator' = creator /\ del' = del /\ del.pc = "idle"
    BY <1>a, <1>b, <1>13 DEF UpdatePodWrite, SavedAlone, Calls
  <2> QED
    BY <1>a, <2>1 DEF OneCreator, SavedAlone, NoBuilder, DeletesWhatItLoaded
<1>14. CASE DeletePod \/ DeleteGonePod \/ DeleteNotFound \/ CancelRetry
  <2>1. UNCHANGED <<creator, crd, upd, job>> /\ del'.pc \in {"idle", "load"}
    BY <1>14 DEF DeletePod, DeleteGonePod, DeleteNotFound, CancelRetry, NoDelete
  <2> QED
    BY <1>a, <2>1 DEF OneCreator, SavedAlone, NoBuilder, DeletesWhatItLoaded
<1>15. CASE LoadForDelete
  BY <1>a, <1>15 DEF LoadForDelete, OneCreator, SavedAlone, NoBuilder, DeletesWhatItLoaded
<1>16. CASE CancelJob
  <2>1. del.job \in Creators
    BY <1>b, <1>16 DEF CancelJob, Names, Known
  <2>2. job'[del.job] \in {"ending", "over"} /\ del'.job = del.job
    BY <1>c, <1>16, <2>1 DEF CancelJob, DeleteSet
  <2> QED
    BY <1>a, <1>16, <2>2 DEF CancelJob, OneCreator, SavedAlone, NoBuilder, DeletesWhatItLoaded
<1>17. CASE RemovePod
  BY <1>a, <1>17 DEF RemovePod, NoDelete, NoFile, OneCreator, SavedAlone, NoBuilder,
                     DeletesWhatItLoaded
<1>18. ASSUME NEW n \in Creators, JobEnds(n) PROVE Goal
  <2>1. \A m \in Creators : job[m] \in {"ending", "over"} => job'[m] \in {"ending", "over"}
    BY <1>c, <1>18 DEF JobEnds
  <2>2. del.pc = "remove" => del.job \in Creators
    BY <1>b DEF Names, Known
  <2> QED
    BY <1>a, <1>18, <2>1, <2>2 DEF JobEnds, OneCreator, SavedAlone, NoBuilder, DeletesWhatItLoaded
<1>20. CASE \/ UNCHANGED lifeVars \/ ApiCreate \/ ApiDelete \/ ApiRemove \/ ForgetGonePod
            \/ ReportStatus \/ Restart
  BY <1>1, <1>2, <1>20
<1> QED
  BY <1>3, <1>5, <1>6, <1>7, <1>8, <1>9, <1>11, <1>12, <1>13, <1>14, <1>15,
     <1>16, <1>17, <1>18, <1>19, <1>20, LifecycleSteps

-----------------------------------------------------------------------------
(* Without a CreatePod during another and without a crash.                 *)

\* While goroutine n runs, no other call has submitted a job for the current pod.
LEMMA NoOtherJob ==
    ASSUME Basics, OneCreator, FileKept, NEW n \in Creators, creator[n].pc # "idle",
           NEW m \in Creators, m # n, Current(m)
    PROVE  job[m] = "none"
  BY DEF OneCreator, FileKept, Creating

\* A goroutine that moves on keeps the promise for its own pod, and with it for all.
LEMMA MovedKeeps ==
    ASSUME Basics, OneCreator, FileKept, OnePerPod, NEW n \in Creators, NEW to, Moved(n, to),
           creator[n].pc # "idle", del' = del,
           api'.uid = api.uid, api'.deleting = api.deleting,
           \A m \in Creators \ {n} : job'[m] = job[m],
           job'[n] = job[n] \/ creator[n].pc \in Early,
           to \in Early => creator[n].pc \in Early,
           Current(n) => /\ to = "write" => crd'.st # "none"
                         /\ to \in {"notify", "idle"} /\ job'[n] # "none" =>
                                crd'.st = "saved" \/ upd'.pc = "write"
    PROVE  FileKept' /\ OnePerPod'
<1>1. OneCreator' /\ \A m \in Creators \ {n} : creator[m].pc = "idle" /\ creator'[m].pc = "idle"
  BY MovedAlone
<1>2. \A m \in Creators : creator'[m].uid = creator[m].uid /\ (Current(m)' <=> Current(m))
  BY DEF Moved, Current
<1>3. ASSUME NEW m \in Creators, Current(m)'
      PROVE  /\ del'.pc = "idle"
             /\ creator'[m].pc = "write" => crd'.st # "none"
             /\ creator'[m].pc = "notify" /\ job'[m] # "none" => crd'.st = "saved" \/ upd'.pc = "write"
             /\ creator'[m].pc = "idle" /\ job'[m] # "none" =>
                    ~Creating' /\ (crd'.st = "saved" \/ upd'.pc = "write")
  <2>1. Current(m) /\ del'.pc = "idle"
    BY <1>2, <1>3 DEF FileKept
  <2>2. CASE m = n
    <3>1. creator'[n].pc = to
      BY DEF Moved
    <3>2. to = "idle" => ~Creating'
      BY <1>1, <3>1 DEF Creating
    <3> QED
      BY <2>1, <2>2, <3>1, <3>2
  <2>3. CASE m # n
    BY <1>1, <2>1, <2>3, NoOtherJob
  <2> QED
    BY <2>2, <2>3
<1>4. FileKept'
  BY <1>3 DEF FileKept
<1>5. OnePerPod'
  <2> SUFFICES ASSUME NEW k \in Creators, NEW m \in Creators,
                      k # m, creator'[k].uid = creator'[m].uid, creator'[m].uid # 0
               PROVE  /\ job'[k] = "none" \/ job'[m] = "none"
                      /\ creator'[m].pc \in Early => job'[k] = "none"
    BY DEF OnePerPod
  <2>1. creator[k].uid = creator[m].uid /\ creator[m].uid # 0
    BY <1>2
  <2>2. /\ job[k] = "none" \/ job[m] = "none"
        /\ creator[m].pc \in Early => job[k] = "none"
        /\ creator[k].pc \in Early => job[m] = "none"
    BY <2>1 DEF OnePerPod
  <2>3. CASE m = n
    BY <2>2, <2>3 DEF Moved
  <2>4. CASE k = n
    BY <1>1, <2>2, <2>4 DEF Early
  <2>5. CASE m # n /\ k # n
    BY <1>1, <2>2, <2>5 DEF Early
  <2> QED
    BY <2>3, <2>4, <2>5
<1> QED
  BY <1>4, <1>5

\* Nor is it disturbed by what leaves the goroutines and the file alone.
LEMMA FileKeptFrame ==
    ASSUME FileKept, OnePerPod, creator' = creator,
           \A n \in Creators : job'[n] = "none" <=> job[n] = "none",
           \A n \in Creators :
               Current(n)' => /\ Current(n) /\ del'.pc = "idle"
                              /\ crd.st # "none" => crd'.st # "none"
                              /\ crd.st = "saved" \/ upd.pc = "write" => crd'.st = "saved" \/ upd'.pc = "write"
    PROVE  FileKept' /\ OnePerPod'
<1>1. Creating' <=> Creating
  BY DEF Creating
<1>2. FileKept'
  BY <1>1 DEF FileKept
<1>3. OnePerPod'
  BY DEF OnePerPod
<1> QED
  BY <1>2, <1>3

LEMMA OneSubmissionStep ==
    Basics /\ Ordered /\ OneSubmission /\ [LifecycleNext]_lifeVars => OneSubmission'
<1> SUFFICES ASSUME Basics, Ordered, OneSubmission, [LifecycleNext]_lifeVars,
                    mishaps' \cap {"crash", "duplicate"} = {}
             PROVE  FileKept' /\ OnePerPod'
  BY DEF OneSubmission
<1> DEFINE Goal == FileKept' /\ OnePerPod'
<1>a. OneCreator /\ SavedAlone /\ FileKept /\ OnePerPod /\ up
  BY MishapsStay DEF Ordered, OneSubmission, Basics, Calls
<1>b. LifecycleTypeOK /\ Calls /\ Names /\ Submits /\ Numbered
  BY DEF Basics
<1>c. /\ api \in ApiSet /\ crd \in FileSet /\ upd \in UpdateSet /\ del \in DeleteSet
      /\ job \in [Creators -> JobStates]
      /\ creator \in [Creators -> CreatorSet] /\ pods \in Nat /\ creates \in Nat
  BY <1>b, Types
<1> USE DEF apiVars, diskVars, callVars, countVars
<1>1. CASE UNCHANGED lifeVars \/ ForgetGonePod
  <2>1. UNCHANGED <<creator, job, api, del, crd, upd>>
    BY <1>1 DEF lifeVars, ForgetGonePod
  <2>2. \A n \in Creators : Current(n)' => Current(n) /\ del'.pc = "idle"
    BY <1>a, <2>1 DEF Current, FileKept
  <2> QED
    BY <1>a, <2>1, <2>2, FileKeptFrame
<1>2. CASE ApiCreate
  <2>1. api'.uid = pods + 1
    BY <1>2 DEF ApiCreate, NoPod
  <2>2. \A n \in Creators : ~Current(n)'
    BY <1>2, <1>b, <1>c, <2>1 DEF ApiCreate, Current, Numbered, CreatorSet
  <2> QED
    BY <1>2, <1>a, <2>2, FileKeptFrame DEF ApiCreate
<1>3. CASE ApiDelete \/ ApiRemove
  <2>1. \A n \in Creators : ~Current(n)'
    BY <1>3, <1>c DEF ApiDelete, ApiRemove, Current, ApiSet, NoPod
  <2> QED
    BY <1>3, <1>a, <2>1, FileKeptFrame DEF ApiDelete, ApiRemove
<1>4. ASSUME NEW n \in Creators, CreatePod(n) PROVE Goal
  <2>1. ~Creating /\ api' = api /\ job' = job /\ del' = del /\ del.pc = "idle"
    BY <1>4 DEF CreatePod, Free
  <2>2. /\ creator'[n].pc = "mkdir" /\ creator'[n].uid = api.uid
        /\ \A m \in Creators \ {n} : creator'[m] = creator[m] /\ creator'[m].pc = "idle"
    BY <1>4, <1>b, <2>1, CreatePodMoves DEF Creating
  <2>3. job[n] = "none" /\ api.uid # 0 /\ ~api.deleting
    BY <1>4, <1>b, <1>c DEF CreatePod, Numbered
  <2>4. ASSUME NEW m \in Creators, m # n, creator[m].uid = api.uid PROVE job[m] = "none"
    <3>1. Current(m) /\ creator[m].pc = "idle"
      BY <2>1, <2>3, <2>4 DEF Current, Creating
    <3>2. crd.st # "saved" /\ upd.pc # "write"
      BY <1>4 DEF CreatePod, Free
    <3> QED
      BY <1>a, <3>1, <3>2 DEF FileKept
  <2>5. FileKept'
    BY <2>1, <2>2, <2>4 DEF FileKept, Current
  <2>6. OnePerPod'
    <3> SUFFICES ASSUME NEW k \in Creators, NEW m \in Creators,
                        k # m, creator'[k].uid = creator'[m].uid, creator'[m].uid # 0
                 PROVE  /\ job'[k] = "none" \/ job'[m] = "none"
                        /\ creator'[m].pc \in Early => job'[k] = "none"
      BY DEF OnePerPod
    <3>1. CASE m = n
      BY <2>1, <2>2, <2>3, <2>4, <3>1
    <3>2. CASE m # n
      BY <1>a, <2>1, <2>2, <2>3, <3>2 DEF OnePerPod, Early
    <3> QED
      BY <3>1, <3>2
  <2> QED
    BY <2>5, <2>6
<1>5. ASSUME NEW n \in Creators,
             MakeDirectories(n) \/ AddWatch(n) \/ Build(n)
      PROVE  Goal
  <2>1. PICK to \in Early : \E from \in Early : Go(n, from, to)
    BY <1>5 DEF MakeDirectories, AddWatch, Build, Early
  <2>2. Moved(n, to) /\ creator[n].pc \in Early
    BY <1>b, <2>1, GoMoves DEF Early, CreatorSteps
  <2>3. UNCHANGED <<api, del, job>>
    BY <1>5 DEF MakeDirectories, AddWatch, Build
  <2> QED
    BY <1>a, <2>2, <2>3, MovedKeeps DEF Early
<1>6. ASSUME NEW n \in Creators, BuildFails(n) PROVE Goal
  <2>1. Moved(n, "notify") /\ creator[n].pc = "build" /\ job[n] = "none"
    BY <1>6, <1>b, BuildFailsMoves DEF Submits, Early
  <2> QED
    BY <1>6, <1>a, <2>1, MovedKeeps DEF BuildFails, Early
<1>7. ASSUME NEW n \in Creators, SubmitJob(n) PROVE Goal
  <2>1. Moved(n, "save") /\ creator[n].pc = "submit"
    BY <1>7, <1>b, GoMoves DEF SubmitJob, CreatorSteps
  <2>2. \A m \in Creators \ {n} : job'[m] = job[m]
    BY <1>7, <1>c DEF SubmitJob
  <2> QED
    BY <1>7, <1>a, <2>1, <2>2, MovedKeeps DEF SubmitJob, Early
<1>8. ASSUME NEW n \in Creators, SavePodToFile(n) PROVE Goal
  <2>1. Moved(n, "write") /\ creator[n].pc = "save" /\ crd'.st = "empty"
    BY <1>8, <1>b, GoMoves DEF SavePodToFile, CreatorSteps, NoFile
  <2> QED
    BY <1>8, <1>a, <2>1, MovedKeeps DEF SavePodToFile, Early
<1>9. ASSUME NEW n \in Creators, SavePodWrite(n) PROVE Goal
  <2>1. Moved(n, "notify") /\ creator[n].pc = "write"
    BY <1>9, <1>b, GoMoves DEF SavePodWrite, CreatorSteps
  <2>2. Current(n) => crd'.st = "saved"
    BY <1>9, <1>a, <2>1 DEF SavePodWrite, FileKept
  <2> QED
    BY <1>9, <1>a, <2>1, <2>2, MovedKeeps DEF SavePodWrite, Early
<1>10. ASSUME NEW n \in Creators, NotifyCreated(n) PROVE Goal
  <2>1. Moved(n, "idle") /\ creator[n].pc = "notify"
    BY <1>10, <1>b, GoMoves DEF NotifyCreated, CreatorSteps
  <2>2. api'.uid = api.uid /\ api'.deleting = api.deleting
    BY <1>10, <1>c DEF NotifyCreated, ApiSet
  <2>3. Current(n) /\ job[n] # "none" => crd.st = "saved" \/ upd.pc = "write"
    BY <1>a, <2>1 DEF FileKept
  <2> QED
    BY <1>10, <1>a, <2>1, <2>2, <2>3, MovedKeeps DEF NotifyCreated, Early
<1>11. ASSUME Die PROVE Goal
  BY <1>11, <1>b, DieStops
<1>12. ASSUME NEW n \in Creators, CreatePanics(n) PROVE Goal
  BY <1>11, <1>12 DEF CreatePanics
<1>13. CASE DeletePanics \/ Crash
  BY <1>11, <1>13 DEF DeletePanics, Crash
<1>14. CASE Restart
  BY <1>14, <1>a DEF Restart
<1>15. CASE UpdatePod
  <2>1. UNCHANGED <<creator, job, api, del>> /\ upd'.pc = "write" /\ crd'.st = "empty"
    BY <1>15 DEF UpdatePod, NoFile
  <2>2. \A n \in Creators : Current(n)' => Current(n) /\ del'.pc = "idle"
    BY <1>a, <2>1 DEF Current, FileKept
  <2> QED
    BY <1>a, <2>1, <2>2, FileKeptFrame
<1>16. CASE UpdatePodWrite
  <2>1. UNCHANGED <<creator, job, api, del>> /\ crd'.st = "saved"
    BY <1>16 DEF UpdatePodWrite
  <2>2. \A n \in Creators : Current(n)' => Current(n) /\ del'.pc = "idle"
    BY <1>a, <2>1 DEF Current, FileKept
  <2> QED
    BY <1>a, <2>1, <2>2, FileKeptFrame
<1>17. CASE DeletePod \/ DeleteGonePod
  <2>1. UNCHANGED <<creator, job, api>> /\ (api.deleting \/ api.uid = 0)
    BY <1>17, <1>b DEF DeletePod, DeleteGonePod, Calls
  <2>2. \A n \in Creators : ~Current(n)'
    BY <2>1 DEF Current
  <2> QED
    BY <1>a, <2>1, <2>2, FileKeptFrame
<1>18. CASE DeleteNotFound \/ LoadForDelete \/ CancelJob \/ CancelRetry \/ RemovePod
  <2>1. del.pc # "idle" /\ UNCHANGED <<creator, api>>
    BY <1>18 DEF DeleteNotFound, LoadForDelete, CancelJob, CancelRetry, RemovePod
  <2>2. \A n \in Creators : ~Current(n)'
    BY <1>a, <2>1 DEF Current, FileKept
  <2>3. job' = job \/ (CancelJob /\ Known(del.job))
    BY <1>18, <1>b DEF DeleteNotFound, LoadForDelete, CancelJob, CancelRetry, RemovePod, Names
  <2>4. \A n \in Creators : job'[n] = "none" <=> job[n] = "none"
    BY <1>c, <2>3 DEF CancelJob, Known
  <2> QED
    BY <1>a, <2>1, <2>2, <2>4, FileKeptFrame
<1>19. ASSUME NEW n \in Creators, JobEnds(n) PROVE Goal
  <2>1. UNCHANGED <<creator, api, del, crd, upd>>
    BY <1>19 DEF JobEnds
  <2>2. \A m \in Creators : job'[m] = "none" <=> job[m] = "none"
    BY <1>19, <1>c DEF JobEnds, Running
  <2>3. \A m \in Creators : Current(m)' => Current(m) /\ del'.pc = "idle"
    BY <1>a, <2>1 DEF Current, FileKept
  <2> QED
    BY <1>a, <2>1, <2>2, <2>3, FileKeptFrame
<1>20. CASE ReportStatus
  <2>1. UNCHANGED <<creator, del, crd, upd, job>>
    BY <1>20 DEF ReportStatus
  <2>2. api'.uid = api.uid /\ api'.deleting = api.deleting
    BY <1>20, <1>c DEF ReportStatus, ApiSet
  <2>3. \A m \in Creators : Current(m)' => Current(m) /\ del'.pc = "idle"
    BY <1>a, <2>1, <2>2 DEF Current, FileKept
  <2> QED
    BY <1>a, <2>1, <2>3, FileKeptFrame
<1> QED
  BY <1>1, <1>2, <1>3, <1>4, <1>5, <1>6, <1>7, <1>8, <1>9, <1>10, <1>12, <1>13, <1>14, <1>15,
     <1>16, <1>17, <1>18, <1>19, <1>20, LifecycleSteps

-----------------------------------------------------------------------------
(* Without a mishap.                                                       *)

\* A call that has been made is for one pod throughout, and so is its job.
LEMMA JobOfStays ==
    ASSUME Basics, [LifecycleNext]_lifeVars, NEW j, NEW u, JobOf(j, u)
    PROVE  JobOf(j, u)'
<1>0. LifecycleTypeOK /\ j \in Creators /\ creates \in Nat
  BY Types DEF Basics, JobOf
<1>1. Known(j)'
  BY KnownStays DEF JobOf, Known
<1>2. \/ creator' = creator \/ Die
      \/ \E n \in Creators : CreatePod(n) \/ BuildFails(n) \/ \E from, to \in CreatorSteps : Go(n, from, to)
  BY LifecycleSteps
  DEF lifeVars, ApiCreate, ApiDelete, ApiRemove, UpdatePod, UpdatePodWrite, DeletePod,
      DeleteGonePod, ForgetGonePod, DeleteNotFound, DeletePanics, LoadForDelete, CancelJob,
      CancelRetry, RemovePod, ReportStatus, Crash, Restart, MakeDirectories, AddWatch, Build,
      SubmitJob, SavePodToFile, SavePodWrite, NotifyCreated, CreatePanics, JobEnds, callVars,
      CreatorSteps
<1>3. creator' = creator => creator'[j].uid = creator[j].uid
  OBVIOUS
<1>4. Die => creator'[j].uid = creator[j].uid
  BY <1>0, DieStops
<1>5. ASSUME NEW n \in Creators, CreatePod(n) PROVE creator'[j].uid = creator[j].uid
  <2>1. j # n
    <3>1. n > creates
      BY <1>0, <1>5 DEF CreatePod
    <3> QED
      BY <3>1 DEF Basics, Numbered, JobOf
  <2> QED
    BY <1>0, <1>5, <2>1, CreatePodMoves
<1>6. ASSUME NEW n \in Creators, BuildFails(n) PROVE creator'[j].uid = creator[j].uid
  BY <1>0, <1>6, BuildFailsMoves DEF Moved
<1>7. ASSUME NEW n \in Creators, NEW from \in CreatorSteps, NEW to \in CreatorSteps, Go(n, from, to)
      PROVE  creator'[j].uid = creator[j].uid
  BY <1>0, <1>7, GoMoves DEF Moved
<1>8. creator'[j].uid = creator[j].uid
  BY <1>2, <1>3, <1>4, <1>5, <1>6, <1>7
<1> QED
  BY <1>1, <1>8 DEF JobOf, Known

\* No two jobs were submitted for one pod.
LEMMA JobIsOnly ==
    ASSUME OnePerPod, NEW i, NEW j, NEW u, JobOf(i, u), JobOf(j, u)
    PROVE  i = j
  BY DEF OnePerPod, JobOf

\* Nothing that leaves the goroutines, the calls and the file alone disturbs
\* what holds of them, unless it takes the pod from its owner.
LEMMA TidyFrame ==
    ASSUME Basics, [LifecycleNext]_lifeVars, TidyFile, TidyCalls, TidyJobs,
           UNCHANGED <<creator, crd, upd>>, api'.uid = api.uid,
           api'.job # api.job /\ api'.job # 0 => JobOf(api.job, api.uid)',
           \A u : Owned(u) => Owned(u)',
           \A n \in Creators : job'[n] = "active" => job[n] = "active"
    PROVE  TidyFile' /\ TidyCalls' /\ TidyJobs'
<1>1. \A j, u : JobOf(j, u) => JobOf(j, u)'
  BY JobOfStays
<1>2. TidyFile'
  BY <1>1 DEF TidyFile
<1>3. TidyCalls'
  BY DEF TidyCalls
<1>4. TidyJobs'
  BY DEF TidyJobs
<1> QED
  BY <1>2, <1>3, <1>4

\* Goroutine n moves on; the others are idle, and the file is not a saved one.
LEMMA TidyMoved ==
    ASSUME Basics, [LifecycleNext]_lifeVars, OneCreator, SavedAlone, TidyFile, TidyCalls, TidyJobs,
           NEW n \in Creators, NEW to, Moved(n, to), creator[n].pc \in Building,
           UNCHANGED <<api, gone, upd, del>>,
           crd' = crd \/ crd'.st = "empty",
           to = "write" => crd'.st # "none",
           \A m \in Creators \ {n} : job'[m] = job[m],
           job'[n] = "active" => to \in {"save", "write"}
    PROVE  TidyFile' /\ TidyCalls' /\ TidyJobs'
<1>1. \A m \in Creators \ {n} : creator[m].pc = "idle" /\ creator'[m].pc = "idle"
  BY MovedAlone DEF Building, Early
<1>2. crd.st # "saved" /\ upd.pc # "write" /\ crd'.st # "saved"
  BY DEF SavedAlone, NoBuilder
<1>3. \A j, u : JobOf(j, u) => JobOf(j, u)'
  BY JobOfStays
<1>4. TidyFile'
  BY <1>2, <1>3 DEF TidyFile
<1>5. TidyCalls'
  <2>1. Owned(creator[n].uid)' /\ api'.uid \in {0, creator'[n].uid}
    BY DEF TidyCalls, Moved, Owned
  <2> QED
    BY <1>1, <2>1 DEF TidyCalls, Moved, Building, Early
<1>6. TidyJobs'
  BY <1>1, <1>2 DEF TidyJobs, Moved
<1> QED
  BY <1>4, <1>5, <1>6

LEMMA TidyStep ==
    Basics /\ Ordered /\ OneSubmission /\ Tidy /\ [LifecycleNext]_lifeVars => Tidy'
<1> SUFFICES ASSUME Basics, Ordered, OneSubmission, Tidy, [LifecycleNext]_lifeVars, mishaps' = {}
             PROVE  TidyFile' /\ TidyCalls' /\ TidyJobs'
  BY DEF Tidy
<1> DEFINE Goal == TidyFile' /\ TidyCalls' /\ TidyJobs'
<1>0. mishaps = {}
  BY MishapsStay
<1>a. OneCreator /\ SavedAlone /\ DeletesWhatItLoaded /\ FileKept /\ OnePerPod /\ up
  BY <1>0 DEF Ordered, OneSubmission, Basics, Calls
<1>b. TidyFile /\ TidyCalls /\ TidyJobs
  BY <1>0 DEF Tidy
<1>c. LifecycleTypeOK /\ Calls /\ Names /\ Submits /\ Numbered
  BY DEF Basics
<1>d. /\ api \in ApiSet /\ crd \in FileSet /\ upd \in UpdateSet /\ del \in DeleteSet
      /\ job \in [Creators -> JobStates]
      /\ creator \in [Creators -> CreatorSet] /\ pods \in Nat /\ creates \in Nat
  BY <1>c, Types
<1>e. \A j, u : JobOf(j, u) => JobOf(j, u)'
  BY JobOfStays
<1>f. \A u : ~JobOf(0, u) /\ \A j : JobOf(j, u) => u # 0
  BY Constants DEF JobOf
<1> USE DEF apiVars, diskVars, callVars, countVars
<1>1. CASE UNCHANGED lifeVars \/ ApiDelete
  <2>1. /\ UNCHANGED <<creator, crd, upd, del, gone, job>>
        /\ api'.uid = api.uid /\ api'.job = api.job
    BY <1>1, <1>d DEF lifeVars, ApiDelete, ApiSet
  <2>2. \A u : Owned(u) => Owned(u)'
    BY <2>1 DEF Owned
  <2> QED
    BY <1>b, <2>1, <2>2, TidyFrame
<1>2. CASE ApiCreate
  <2>1. api.uid = 0 /\ ~gone /\ ~Creating /\ del.pc = "idle" /\ api'.job = 0
    BY <1>2 DEF ApiCreate, NoPod
  <2>2. crd.st # "saved" /\ upd.pc # "write"
    BY <1>b, <1>f, <2>1 DEF TidyFile, Owned
  <2>3. UNCHANGED <<creator, crd, upd, job>>
    BY <1>2 DEF ApiCreate
  <2>4. TidyFile'
    BY <2>1, <2>2, <2>3 DEF TidyFile
  <2>5. TidyCalls'
    BY <2>1, <2>3 DEF TidyCalls, Creating, Building, Early
  <2>6. TidyJobs'
    BY <1>b, <2>3 DEF TidyJobs
  <2> QED
    BY <2>4, <2>5, <2>6
<1>3. CASE ApiRemove
  <2>1. UNCHANGED <<creator, crd, upd, job>> /\ upd.pc = "idle" /\ api'.uid = 0 /\ gone'
    BY <1>3 DEF ApiRemove, Free, NoPod
  <2>2. \A u : Owned(u)'
    BY <2>1 DEF Owned
  <2>3. TidyFile'
    BY <1>b, <1>e, <2>1, <2>2 DEF TidyFile
  <2>4. TidyCalls'
    BY <1>b, <2>1, <2>2 DEF TidyCalls
  <2>5. TidyJobs'
    BY <1>b, <2>1 DEF TidyJobs
  <2> QED
    BY <2>3, <2>4, <2>5
<1>4. ASSUME NEW n \in Creators, CreatePod(n) PROVE Goal
  <2>1. /\ UNCHANGED <<api, gone, del, crd, upd, job>> /\ ~Creating
        /\ crd.st # "saved" /\ upd.pc = "idle"
    BY <1>4 DEF CreatePod, Free
  <2>2. /\ creator'[n].pc = "mkdir" /\ creator'[n].uid = api.uid
        /\ \A m \in Creators \ {n} : creator'[m].pc = "idle"
    BY <1>4, <1>c, <2>1, CreatePodMoves DEF Creating
  <2>3. TidyFile'
    BY <1>b, <1>e, <2>1 DEF TidyFile
  <2>4. TidyCalls'
    BY <2>1, <2>2 DEF TidyCalls, Owned, Building, Early
  <2>5. TidyJobs'
    BY <1>b, <2>1 DEF TidyJobs, Creating
  <2> QED
    BY <2>3, <2>4, <2>5
<1>5. ASSUME NEW n \in Creators, MakeDirectories(n) \/ AddWatch(n) \/ Build(n) PROVE Goal
  <2>1. PICK to \in Early : \E from \in Early : Go(n, from, to)
    BY <1>5 DEF MakeDirectories, AddWatch, Build, Early
  <2>2. Moved(n, to) /\ creator[n].pc \in Early
    BY <1>c, <2>1, GoMoves DEF Early, CreatorSteps
  <2>3. UNCHANGED <<api, gone, upd, del, crd, job>> /\ job[n] = "none"
    BY <1>5, <1>c, <2>2 DEF MakeDirectories, AddWatch, Build, Submits
  <2> QED
    BY <1>a, <1>b, <2>2, <2>3, TidyMoved DEF Early, Building
<1>6. ASSUME NEW n \in Creators, BuildFails(n) PROVE Goal
  <2>1. Moved(n, "notify") /\ creator[n].pc = "build" /\ job[n] = "none"
    BY <1>6, <1>c, BuildFailsMoves DEF Submits, Early
  <2> QED
    BY <1>6, <1>a, <1>b, <2>1, TidyMoved DEF BuildFails, Building, Early
<1>7. ASSUME NEW n \in Creators, SubmitJob(n) PROVE Goal
  <2>1. Moved(n, "save") /\ creator[n].pc = "submit"
    BY <1>7, <1>c, GoMoves DEF SubmitJob, CreatorSteps
  <2>2. \A m \in Creators \ {n} : job'[m] = job[m]
    BY <1>7, <1>d DEF SubmitJob
  <2> QED
    BY <1>7, <1>a, <1>b, <2>1, <2>2, TidyMoved DEF SubmitJob, Building, Early
<1>8. ASSUME NEW n \in Creators, SavePodToFile(n) PROVE Goal
  <2>1. Moved(n, "write") /\ creator[n].pc = "save" /\ crd'.st = "empty"
    BY <1>8, <1>c, GoMoves DEF SavePodToFile, CreatorSteps, NoFile
  <2> QED
    BY <1>8, <1>a, <1>b, <2>1, TidyMoved DEF SavePodToFile, Building, Early
<1>9. ASSUME NEW n \in Creators, SavePodWrite(n) PROVE Goal
  <2>1. Moved(n, "notify") /\ creator[n].pc = "write"
    BY <1>9, <1>c, GoMoves DEF SavePodWrite, CreatorSteps
  <2>2. \A m \in Creators \ {n} : creator[m].pc = "idle" /\ creator'[m].pc = "idle"
    BY <1>a, <2>1, MovedAlone
  <2>3. crd.st # "saved" /\ upd.pc # "write"
    BY <1>a, <2>1 DEF SavedAlone, NoBuilder, Building
  <2>4. UNCHANGED <<api, gone, upd, del, job>>
    BY <1>9 DEF SavePodWrite
  <2>5. crd'.st = "saved" /\ crd'.uid = creator[n].uid /\ crd'.job = n
    BY <1>9, <1>b, <2>1 DEF SavePodWrite, TidyCalls
  <2>6. JobOf(n, creator[n].uid) /\ Owned(creator[n].uid) /\ api.uid \in {0, creator[n].uid}
    <3>1. creator[n].uid # 0
      <4>1. n \in Nat
        BY LifecycleAssumption DEF Creators
      <4> QED
        BY <1>c, <1>d, <2>1, <4>1 DEF Numbered
    <3> QED
      BY <1>b, <1>c, <2>1, <3>1 DEF JobOf, Submits, TidyCalls, Building
  <2>7. TidyFile'
    <3>1. JobOf(crd.job, crd.uid)' /\ Owned(crd.uid)' /\ upd'.pc = "idle"
      BY <1>d, <1>e, <2>3, <2>4, <2>5, <2>6 DEF Owned, UpdateSet
    <3>2. api'.uid # 0 /\ api'.job # 0 => JobOf(api.job, api.uid)'
      BY <1>b, <1>e, <2>4 DEF TidyFile
    <3> QED
      BY <3>1, <3>2 DEF TidyFile
  <2>8. TidyCalls'
    BY <2>1, <2>2, <2>4, <2>6 DEF TidyCalls, Moved, Building, Early
  <2>9. TidyJobs'
    BY <1>b, <2>2, <2>3, <2>4, <2>5 DEF TidyJobs
  <2> QED
    BY <2>7, <2>8, <2>9
<1>10. ASSUME NEW n \in Creators, NotifyCreated(n) PROVE Goal
  <2>1. Moved(n, "idle") /\ creator[n].pc = "notify"
    BY <1>10, <1>c, GoMoves DEF NotifyCreated, CreatorSteps
  <2>2. UNCHANGED <<gone, upd, del, job, crd>> /\ api'.uid = api.uid
    BY <1>10, <1>d DEF NotifyCreated, ApiSet
  <2>3. api'.job = api.job \/ (api'.job = n /\ ~creator[n].failed /\ api.uid # 0)
    BY <1>10, <1>d DEF NotifyCreated, ApiSet
  <2>4. ~creator[n].failed /\ api.uid # 0 => JobOf(n, api.uid)
    BY <1>b, <1>c, <2>1 DEF JobOf, Submits, TidyCalls
  <2>5. \A u : Owned(u) => Owned(u)'
    BY <2>2 DEF Owned
  <2>6. TidyFile'
    BY <1>b, <1>e, <2>2, <2>3, <2>4, <2>5 DEF TidyFile
  <2>7. \A m \in Creators \ {n} : creator'[m].pc = "idle"
    BY <1>a, <2>1, MovedAlone
  <2>8. TidyCalls'
    BY <2>1, <2>7 DEF TidyCalls, Moved, Building, Early
  <2>9. TidyJobs'
    BY <1>b, <2>1, <2>2 DEF TidyJobs, Moved
  <2> QED
    BY <2>6, <2>8, <2>9
<1>11. ASSUME Die PROVE Goal
  BY <1>11, <1>c, DieStops
<1>12. ASSUME NEW n \in Creators, CreatePanics(n) PROVE Goal
  BY <1>11, <1>12 DEF CreatePanics
<1>13. CASE DeletePanics \/ Crash
  BY <1>11, <1>13 DEF DeletePanics, Crash
<1>14. CASE Restart
  BY <1>14, <1>a DEF Restart
<1>15. CASE UpdatePod
  <2>1. /\ UNCHANGED <<api, gone, creator, del, job>> /\ crd.st = "saved" /\ crd'.st = "empty"
        /\ upd'.pc = "write" /\ upd'.uid = api.uid /\ upd'.job = api.job
        /\ api.uid # 0 /\ api.job # 0
    BY <1>15 DEF UpdatePod, NoFile
  <2>2. JobOf(api.job, api.uid) /\ JobOf(crd.job, crd.uid) /\ crd.uid = api.uid
    BY <1>b, <2>1 DEF TidyFile, Owned
  <2>3. api.job = crd.job
    BY <1>a, <2>2, JobIsOnly
  <2>4. TidyFile'
    BY <1>e, <2>1, <2>2 DEF TidyFile
  <2>5. TidyCalls'
    BY <1>b, <2>1 DEF TidyCalls, Owned
  <2>6. TidyJobs'
    BY <1>b, <1>c, <1>15, <2>1, <2>3 DEF TidyJobs, UpdatePod, Free
  <2> QED
    BY <2>4, <2>5, <2>6
<1>16. CASE UpdatePodWrite
  <2>1. /\ UNCHANGED <<api, gone, creator, del, job>> /\ upd.pc = "write" /\ upd'.pc = "idle"
        /\ crd'.st = "saved" /\ crd'.uid = upd.uid /\ crd'.job = upd.job
    BY <1>16 DEF UpdatePodWrite, NoUpdate
  <2>2. JobOf(upd.job, upd.uid) /\ api.uid = upd.uid /\ crd.st # "saved"
    BY <1>b, <2>1 DEF TidyFile
  <2>3. TidyFile'
    BY <1>b, <1>e, <2>1, <2>2 DEF TidyFile, Owned
  <2>4. TidyCalls'
    BY <1>b, <2>1 DEF TidyCalls, Owned
  <2>5. TidyJobs'
    BY <1>b, <2>1, <2>2 DEF TidyJobs
  <2> QED
    BY <2>3, <2>4, <2>5
<1>17. CASE DeletePod \/ DeleteGonePod
  <2>1. UNCHANGED <<api, creator, crd, upd, job>> /\ del'.pc = "load"
    BY <1>17 DEF DeletePod, DeleteGonePod, NoDelete
  <2>2. \A u : Owned(u) => Owned(u)'
    BY <2>1 DEF Owned
  <2> QED
    BY <1>b, <2>1, <2>2, TidyFrame
<1>18. CASE ForgetGonePod \/ DeleteNotFound
  <2>1. /\ UNCHANGED <<api, creator, crd, upd, job>> /\ crd.st # "saved" /\ ~Creating
    BY <1>18 DEF ForgetGonePod, DeleteNotFound
  <2>2. TidyFile'
    BY <1>b, <1>e, <2>1 DEF TidyFile
  <2>3. TidyCalls'
    BY <2>1 DEF TidyCalls, Creating, Building, Early
  <2>4. TidyJobs'
    BY <1>b, <2>1 DEF TidyJobs
  <2> QED
    BY <2>2, <2>3, <2>4
<1>19. CASE LoadForDelete \/ CancelJob
  <2>1. UNCHANGED <<api, gone, creator, crd, upd>> /\ del'.pc # "idle"
    BY <1>19, <1>d DEF LoadForDelete, CancelJob, DeleteSet
  <2>2. \A u : Owned(u) => Owned(u)'
    BY <2>1 DEF Owned
  <2>3. \A n \in Creators : job'[n] = "active" => job[n] = "active"
    BY <1>19, <1>d DEF LoadForDelete, CancelJob
  <2> QED
    BY <1>b, <2>1, <2>2, <2>3, TidyFrame
<1>20. CASE CancelRetry
  BY <1>20 DEF CancelRetry
<1>21. CASE RemovePod
  <2>1. /\ UNCHANGED <<api, gone, creator, upd, job>> /\ crd'.st = "none" /\ del.pc = "remove"
    BY <1>21 DEF RemovePod, NoFile
  <2>2. crd.st = "saved" /\ job[crd.job] # "active" /\ NoBuilder /\ upd.pc = "idle"
    BY <1>a, <1>b, <2>1 DEF DeletesWhatItLoaded, SavedAlone, TidyFile
  <2>3. TidyFile'
    BY <1>b, <1>e, <2>1, <2>2 DEF TidyFile
  <2>4. TidyCalls'
    BY <1>b, <2>1, <2>2 DEF TidyCalls, NoBuilder, Building
  <2>5. TidyJobs'
    BY <1>b, <2>1, <2>2 DEF TidyJobs, NoBuilder, Building
  <2> QED
    BY <2>3, <2>4, <2>5
<1>22. ASSUME NEW n \in Creators, JobEnds(n) PROVE Goal
  <2>1. UNCHANGED <<api, gone, creator, crd, upd, del>>
    BY <1>22 DEF JobEnds
  <2>2. \A u : Owned(u) => Owned(u)'
    BY <2>1 DEF Owned
  <2>3. \A m \in Creators : job'[m] = "active" => job[m] = "active"
    BY <1>22, <1>d DEF JobEnds
  <2> QED
    BY <1>b, <2>1, <2>2, <2>3, TidyFrame
<1>23. CASE ReportStatus
  <2>1. /\ UNCHANGED <<gone, creator, crd, upd, del, job>>
        /\ api'.uid = api.uid /\ api'.job = crd.job /\ api.uid # 0 /\ crd.st = "saved"
    BY <1>23, <1>d DEF ReportStatus, ApiSet
  <2>2. \A u : Owned(u) => Owned(u)'
    BY <2>1 DEF Owned
  <2>3. JobOf(crd.job, api.uid)
    BY <1>b, <2>1 DEF TidyFile, Owned
  <2>4. JobOf(api.job, api.uid)'
    BY <1>e, <2>1, <2>3
  <2> QED
    BY <1>b, <2>1, <2>2, <2>4, TidyFrame
<1> QED
  BY <1>1, <1>2, <1>3, <1>4, <1>5, <1>6, <1>7, <1>8, <1>9, <1>10, <1>12, <1>13, <1>14, <1>15,
     <1>16, <1>17, <1>18, <1>19, <1>20, <1>21, <1>22, <1>23, LifecycleSteps

-----------------------------------------------------------------------------
(* The theorems.                                                           *)
LEMMA LifecycleInitInv == LifecycleInit => LifecycleInv
<1> SUFFICES ASSUME LifecycleInit PROVE LifecycleInv
  OBVIOUS
<1>1. \A n \in Creators : creator[n] = Idle /\ creator[n].pc = "idle" /\ creator[n].uid = 0 /\ job[n] = "none"
  BY DEF LifecycleInit, Idle
<1>2. /\ api.uid = 0 /\ api.job = 0 /\ crd.st = "none" /\ upd.pc = "idle" /\ del.pc = "idle"
      /\ up /\ ~gone /\ pods = 0 /\ creates = 0 /\ mishaps = {}
  BY DEF LifecycleInit, NoPod, NoFile, NoUpdate, NoDelete
<1>3. LifecycleTypeOK
  <2>1. Counters
    BY LifecycleAssumption DEF LifecycleInit, Counters
  <2>2. Flags
    BY DEF LifecycleInit, Flags
  <2>3. Records
    BY Constants DEF LifecycleInit, Records, JobStates
  <2> QED
    BY <1>2, <2>1, <2>2, <2>3, TypeParts
<1>4. Calls /\ Names
  BY <1>2 DEF Calls, Names
<1>5. Numbered
  BY <1>1, <1>2, LifecycleAssumption DEF Numbered, Creators
<1>6. Submits
  BY <1>1, <1>2 DEF Submits, Early
<1>7. Ordered
  BY <1>1, <1>2 DEF Ordered, OneCreator, SavedAlone, DeletesWhatItLoaded
<1>8. OneSubmission
  BY <1>1, <1>2 DEF OneSubmission, FileKept, OnePerPod, Current
<1>9. Tidy
  BY <1>1, <1>2 DEF Tidy, TidyFile, TidyCalls, TidyJobs, Building, Early
<1> QED
  BY <1>3, <1>4, <1>5, <1>6, <1>7, <1>8, <1>9 DEF LifecycleInv, Basics

LEMMA LifecycleInvariant == LifecycleSpec => []LifecycleInv
<1>1. LifecycleInv /\ [LifecycleNext]_lifeVars => LifecycleInv'
  BY BasicsStep, OrderedStep, OneSubmissionStep, TidyStep DEF LifecycleInv
<1> QED
  BY <1>1, LifecycleInitInv, PTL DEF LifecycleSpec

\* Every variable keeps its type, and a description is only in a directory
\* that exists, whatever overlaps, fails or crashes.
THEOREM LifecycleTypeCorrect == LifecycleSpec => []LifecycleTypeOK
<1>1. LifecycleInv => LifecycleTypeOK
  BY DEF LifecycleInv, Basics
<1> QED
  BY <1>1, LifecycleInvariant, PTL

\* Without a crash and without a CreatePod during another, no two jobs run
\* for one pod: a pod that has a job has a file until its deletion begins,
\* and with the file GetPod knows it.
THEOREM OneJobForEachPod == LifecycleSpec => []OneJobPerPod
<1>1. ASSUME LifecycleInv PROVE OneJobPerPod
  <2> SUFFICES ASSUME NEW m \in Creators, NEW n \in Creators, m # n,
                      Running(m), Running(n), creator[m].uid = creator[n].uid,
                      mishaps \cap {"crash", "duplicate"} = {}
               PROVE  FALSE
    BY DEF OneJobPerPod
  <2>1. n \in Nat /\ creates \in Nat
    BY <1>1, Types, LifecycleAssumption DEF LifecycleInv, Basics, Creators
  <2>2. creator[n].uid # 0
    BY <1>1, <2>1 DEF LifecycleInv, Basics, Numbered, Running
  <2> QED
    BY <1>1, <2>2 DEF LifecycleInv, OneSubmission, OnePerPod, Running
<1> QED
  BY <1>1, LifecycleInvariant, PTL

\* Without a mishap no job is leaked: whatever runs can still be cancelled by
\* the deletion of its pod.
THEOREM JobsAreNotLeaked == LifecycleSpec => []NoLeakedJob
<1>1. ASSUME LifecycleInv PROVE NoLeakedJob
  <2> SUFFICES ASSUME NEW n \in Creators, Leaked(n), mishaps = {} PROVE FALSE
    BY DEF NoLeakedJob
  <2>1. TidyFile /\ TidyJobs
    BY <1>1 DEF LifecycleInv, Tidy
  <2>2. crd.st = "saved" /\ crd.job = n
    BY <2>1 DEF Leaked, TidyJobs, Free
  <2>3. crd.uid # 0 /\ Owned(crd.uid)
    BY <2>1, <2>2 DEF TidyFile, JobOf
  <2> QED
    BY <2>2, <2>3 DEF Leaked, Owned, Free
<1> QED
  BY <1>1, LifecycleInvariant, PTL

\* Without a mishap the saved pod is the API server's: HPK never answers for
\* a predecessor of the same name.
THEOREM AnswersForTheRightPod == LifecycleSpec => []RightIncarnation
<1>1. ASSUME LifecycleInv PROVE RightIncarnation
  BY <1>1 DEF LifecycleInv, Tidy, TidyFile, Owned, RightIncarnation, Free
<1> QED
  BY <1>1, LifecycleInvariant, PTL

\* Without a CreatePod during another, DeletePod removes the files of a pod
\* only after their job has been told to end or is over, even after crashes
\* and retries: the file in the directory is still the one it loaded.
THEOREM RemovedAfterCancelling == LifecycleSpec => CancelledBeforeRemoval
<1> DEFINE Kept == dir /\ ~dir' /\ crd.st = "saved" =>
                      job[crd.job] # "active" \/ "duplicate" \in mishaps
<1>1. ASSUME LifecycleInv, [LifecycleNext]_lifeVars PROVE Kept \/ UNCHANGED lifeVars
  <2> SUFFICES ASSUME dir, ~dir', crd.st = "saved", "duplicate" \notin mishaps
               PROVE  job[crd.job] # "active"
    OBVIOUS
  <2>1. RemovePod
    BY <1>1, LifecycleSteps
    DEF lifeVars, diskVars, ApiCreate, ApiDelete, ApiRemove, UpdatePod, UpdatePodWrite, DeletePod,
        DeleteGonePod, ForgetGonePod, DeleteNotFound, DeletePanics, LoadForDelete, CancelJob,
        CancelRetry, ReportStatus, Crash, Restart, CreatePod, MakeDirectories, AddWatch, Build,
        BuildFails, SubmitJob, SavePodToFile, SavePodWrite, NotifyCreated, CreatePanics, JobEnds
  <2> QED
    BY <1>1, <2>1 DEF RemovePod, LifecycleInv, Ordered, DeletesWhatItLoaded
<1>2. LifecycleInv /\ [LifecycleNext]_lifeVars => [Kept]_lifeVars
  BY <1>1
<1> QED
  BY <1>2, LifecycleInvariant, PTL DEF LifecycleSpec, CancelledBeforeRemoval
=============================================================================
