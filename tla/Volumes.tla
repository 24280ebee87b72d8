------------------------------ MODULE Volumes ------------------------------
(***************************************************************************)
(* The mounting of a pod's volumes by CreatePod (compute/podhandler,        *)
(* compute/volume), from the first volume to the submission of the job,     *)
(* composed with the writer of module AtomicWriter.                        *)
(*                                                                         *)
(* The goroutines of several CreatePod calls for one pod share the volume   *)
(* directory; the n-th one makes the n-th Write.  ConfigMap, Secret and     *)
(* projected volumes differ in where their payload comes from and are one   *)
(* kind, "payload", with a sequence of sources: an API object, or something *)
(* computed on the spot (a token, a field of the pod).  A pod has at most   *)
(* one of them.  The API objects, the claim, its volume and the host's path *)
(* belong to the environment and change while CreatePod waits for them.     *)
(* Deletion of the pod, and crashes, are in module PodLifecycle.           *)
(***************************************************************************)
EXTENDS AtomicWriter, Sequences

CONSTANTS Pods,       \* the pods to mount: sequences of volumes
          Objects,    \* ConfigMaps and Secrets
          Data,       \* what they may hold
          MaxTries,   \* attempts of a Get before NotFound is final (4 and 10 in the code)
          MaxChanges  \* bound: changes of API objects

PathTypes == {"DirectoryOrCreate", "Directory", "FileOrCreate", "File", "Other"}
Kinds     == {"emptyDir", "payload", "downwardAPI", "hostPath", "claim", "unknown"} \cup PathTypes
Sources   == [from : Objects \cup {"token", "fields"}, items : SUBSET Names, optional : BOOLEAN]

\* There are contents enough for each call of CreatePod to have its own token.
ASSUME VolumesAssumption ==
    /\ MaxTries \in Nat \ {0} /\ MaxChanges \in Nat /\ Data \subseteq Payloads
    /\ MaxWrites <= MaxContent
    /\ \A p \in Pods :
          /\ p \in Seq([kind : Kinds, sources : Seq(Sources)])
          /\ \A i, j \in DOMAIN p : p[i].kind = "payload" /\ p[j].kind = "payload" => i = j

VARIABLES
    pod,      \* the pod's volumes
    cr,       \* the CreatePod goroutines
    placed,   \* volumes that have an entry, a directory or a link, in the volume directory
    object,   \* the API objects' data
    there,    \* the API objects that exist
    claim,    \* the persistent volume claim
    pv,       \* the persistent volume it is bound to
    host,     \* what is at the path of a hostPath volume
    changes,  \* changes of API objects so far
    hpk       \* whether HPK is up, has panicked, or has panicked at a failed call of the system

envVars    == <<object, there, claim, pv, changes>>
mountVars  == <<pod, cr, placed, envVars, host, hpk>>
volumeVars == <<writerVars, mountVars>>

CreatorSteps == {"idle", "mount", "get", "write", "pv", "submit", "submitted", "saved", "failed"}
NewCreator == [pc |-> "idle", vol |-> 1, src |-> 1, tries |-> 0, bad |-> FALSE,
               acc |-> Empty, failed |-> FALSE]

(* The fields of the goroutines, the retry count below its limit included. *)
VolumesTypeOK ==
    /\ WriterTypeOK
    /\ pod \in Pods /\ placed \subseteq DOMAIN pod
    /\ \A c \in Writers :
          /\ cr[c].pc \in CreatorSteps /\ cr[c].vol \in 1 .. Len(pod) + 1
          /\ cr[c].pc \in {"get", "write", "pv"} => cr[c].vol \in DOMAIN pod
          /\ cr[c].tries \in 0 .. MaxTries - 1 /\ cr[c].acc \in Payloads
    /\ object \in [Objects -> Payloads] /\ there \subseteq Objects /\ changes \in 0 .. MaxChanges
    /\ claim \in {"missing", "unbound", "bound"} /\ pv \in {"missing", "local"}
    /\ host \in {"missing", "directory", "file", "other"} /\ hpk \in {"up", "panic", "fault"}

Has(kinds) == \E i \in DOMAIN pod : pod[i].kind \in kinds

VolumesInit ==
    /\ WriterInit
    /\ pod \in Pods /\ placed = {} /\ changes = 0 /\ hpk = "up"
    /\ cr = [c \in Writers |-> NewCreator]
    /\ object \in [Objects -> Data] /\ there \in SUBSET Objects
    /\ claim \in {"missing", "unbound", "bound"} /\ pv \in {"missing", "local"}
    /\ host \in {"missing", "directory", "file", "other"}
    \* what the pod does not refer to does not matter
    /\ Has({"payload"}) \/ there = {}
    /\ Has({"claim"}) \/ (claim = "missing" /\ pv = "missing")
    /\ Has(PathTypes \cup {"hostPath"}) \/ host = "missing"

-----------------------------------------------------------------------------
(* CreatePod goes through the volumes; a panic in one goroutine ends HPK.  *)
Set(c, r)   == cr' = [cr EXCEPT ![c] = r]
Vol(c)  == pod[cr[c].vol]
At(c, pc)   == hpk = "up" /\ cr[c].pc = pc
NextVolume(r)    == [r EXCEPT !.pc = "mount", !.vol = @ + 1, !.src = 1, !.tries = 0, !.bad = FALSE]
Mounting(c, kinds) == At(c, "mount") /\ cr[c].vol <= Len(pod) /\ Vol(c).kind \in kinds

\* PodError, and CreatePod returns.
ReturnError(c) == Set(c, [cr[c] EXCEPT !.pc = "failed", !.failed = TRUE])
\* PodError, but the error is not returned.
MarkFailed(c)  == Set(c, [NextVolume(cr[c]) EXCEPT !.failed = TRUE])
SystemPanic    == hpk' = "panic" /\ UNCHANGED <<cr, placed, host>>

\* The virtual kubelet creates the pod, and again as long as no description is saved.
CreatePod(c) ==
    /\ At(c, "idle") /\ \A d \in 1 .. c - 1 : cr[d].pc # "idle"
    /\ \A d \in Writers : cr[d].pc # "saved"
    /\ Set(c, [cr[c] EXCEPT !.pc = "mount"])
    /\ UNCHANGED <<writerVars, pod, placed, envVars, host, hpk>>

MountEmptyDir(c) ==
    /\ Mounting(c, {"emptyDir"})
    /\ placed' = placed \cup {cr[c].vol} /\ Set(c, NextVolume(cr[c]))
    /\ UNCHANGED <<writerVars, pod, envVars, host, hpk>>

\* os.Symlink: another goroutine's link is an error, and the error a panic.
LinkOrPanic(c) ==
    \/ cr[c].vol \in placed /\ SystemPanic
    \/ /\ cr[c].vol \notin placed /\ placed' = placed \cup {cr[c].vol}
       /\ Set(c, NextVolume(cr[c])) /\ UNCHANGED <<host, hpk>>

MountHostPath(c) ==
    /\ Mounting(c, {"hostPath"})
    /\ \/ host = "missing" /\ ReturnError(c) /\ UNCHANGED <<placed, host, hpk>>
       \/ host # "missing" /\ LinkOrPanic(c)
    /\ UNCHANGED <<writerVars, pod, envVars>>

\* A typed path is checked, or made, but never linked into the volume directory; one of
\* the wrong type is an error of SetUpAt, and that error a panic.
Expected(type) == CASE type \in {"DirectoryOrCreate", "Directory"} -> "directory"
                    [] type \in {"FileOrCreate", "File"}           -> "file"
                    [] OTHER                                       -> "other"

TypeOK(type) ==
    \/ host = Expected(type)
    \/ host = "missing" /\ type \in {"DirectoryOrCreate", "FileOrCreate"}

\* Mutant: a missing path is an error although the type says to create it.
CheckTypeCreatesNothing(c) ==
    /\ Mounting(c, PathTypes)
    /\ \/ host # Expected(Vol(c).kind) /\ SystemPanic
       \/ /\ host = Expected(Vol(c).kind)
          /\ Set(c, NextVolume(cr[c])) /\ UNCHANGED <<placed, host, hpk>>
    /\ UNCHANGED <<writerVars, pod, envVars>>

CheckType(c) ==
    /\ Mounting(c, PathTypes)
    /\ \/ ~TypeOK(Vol(c).kind) /\ SystemPanic
       \/ /\ TypeOK(Vol(c).kind) /\ host' = Expected(Vol(c).kind)
          /\ Set(c, NextVolume(cr[c])) /\ UNCHANGED <<placed, hpk>>
    /\ UNCHANGED <<writerVars, pod, envVars>>

\* The mode of a file is read through vol.Projected, which is nil here: only an empty
\* list of items gets by, or a field that cannot be extracted.
DownwardAPIVolumeSource(c) ==
    /\ Mounting(c, {"downwardAPI"})
    /\ \/ SystemPanic
       \/ /\ placed' = placed \cup {cr[c].vol} /\ UNCHANGED <<host, hpk>>
          /\ MarkFailed(c) \/ Set(c, NextVolume(cr[c]))
    /\ UNCHANGED <<writerVars, pod, envVars>>

\* A type of volume that mountVolumeSource does not know.
MountUnknown(c) ==
    /\ Mounting(c, {"unknown"}) /\ SystemPanic
    /\ UNCHANGED <<writerVars, pod, envVars>>

-----------------------------------------------------------------------------
(* Claims: neither a claim that is not found or not bound in time, nor one  *)
(* of block mode, is an error to CreatePod.                                *)
\* Mutants: attempts are not limited; the count starts over.
RetryUnlimited(c) == Set(c, [cr[c] EXCEPT !.tries = @ + 1])
RetryStartsOver(c) == Set(c, [cr[c] EXCEPT !.tries = (@ + 1) % MaxTries])

Retry(c) == cr[c].tries + 1 < MaxTries /\ Set(c, [cr[c] EXCEPT !.tries = @ + 1])

GetClaim(c) ==
    /\ Mounting(c, {"claim"})
    /\ \/ claim = "bound" /\ Set(c, [cr[c] EXCEPT !.pc = "pv", !.tries = 0])
       \/ claim \in {"missing", "unbound"} /\ Retry(c)
       \/ claim \in {"missing", "unbound"} /\ cr[c].tries + 1 = MaxTries /\ MarkFailed(c)
       \/ MarkFailed(c)      \* block mode, or any other error of the API
    /\ UNCHANGED <<writerVars, pod, placed, envVars, host, hpk>>

GetVolume(c) ==
    /\ At(c, "pv")
    /\ \/ pv = "local" /\ LinkOrPanic(c)
       \/ pv = "missing" /\ Retry(c) /\ UNCHANGED <<placed, host, hpk>>
       \/ pv = "missing" /\ cr[c].tries + 1 = MaxTries /\ SystemPanic
       \/ SystemPanic        \* a volume that is not local, or any other error of the API
    /\ UNCHANGED <<writerVars, pod, envVars>>

-----------------------------------------------------------------------------
(* Payloads: sources are collected one after the other, errors noted.      *)
MountPayload(c) ==
    /\ Mounting(c, {"payload"})
    /\ placed' = placed \cup {cr[c].vol}
    /\ Set(c, [cr[c] EXCEPT !.pc = "get"])
    /\ UNCHANGED <<writerVars, pod, envVars, host, hpk>>

Source(c)    == Vol(c).sources[cr[c].src]
Collecting(c, from) == At(c, "get") /\ cr[c].src <= Len(Vol(c).sources) /\ Source(c).from \in from

\* Items of the source that are not in the data: an error unless it is optional.
Wanted(s)           == IF s.items = {} THEN Names ELSE s.items
MakePayloadOK(s, d) == s.optional \/ s.items \subseteq NamesOf(d)
Merge(acc, s, d)    == [n \in Names |-> IF n \in Wanted(s) /\ d[n] # 0 THEN d[n] ELSE acc[n]]

Collected(c, d) ==
    Set(c, [cr[c] EXCEPT !.src = @ + 1, !.tries = 0,
                         !.bad = @ \/ ~MakePayloadOK(Source(c), d),
                         !.acc = IF MakePayloadOK(Source(c), d) THEN Merge(@, Source(c), d) ELSE @])
NotCollected(c) == Set(c, [cr[c] EXCEPT !.src = @ + 1, !.tries = 0, !.bad = TRUE])

GetObject(c) ==
    /\ Collecting(c, Objects)
    /\ \/ Source(c).from \in there /\ Collected(c, object[Source(c).from])
       \/ Source(c).from \notin there /\ Retry(c)
       \/ /\ Source(c).from \notin there /\ cr[c].tries + 1 = MaxTries
          /\ IF Source(c).optional THEN Collected(c, Empty) ELSE NotCollected(c)
       \/ NotCollected(c)    \* any other error of the API
    /\ UNCHANGED <<writerVars, pod, placed, envVars, host, hpk>>

\* A token is another one for every call, the fields of a pod are always the same.
GetToken(c) ==
    /\ Collecting(c, {"token"})
    /\ \/ Collected(c, [n \in Names |-> c])
       \/ NotCollected(c)
    /\ UNCHANGED <<writerVars, pod, placed, envVars, host, hpk>>

CollectData(c) ==
    /\ Collecting(c, {"fields"})
    /\ \/ Collected(c, [n \in Names |-> 1])
       \/ NotCollected(c)
    /\ UNCHANGED <<writerVars, pod, placed, envVars, host, hpk>>

WritePayload(c) ==
    /\ At(c, "get") /\ cr[c].src > Len(Vol(c).sources) /\ ~cr[c].bad
    /\ Write(c, cr[c].acc)
    /\ Set(c, [cr[c] EXCEPT !.pc = "write"])
    /\ UNCHANGED <<pod, placed, envVars, host, hpk>>

\* Mutant: the error is noted in the pod but not returned, as for a claim.
PayloadFailsContinues(c) ==
    /\ At(c, "get") /\ cr[c].src > Len(Vol(c).sources)
    /\ MarkFailed(c)
    /\ UNCHANGED <<writerVars, pod, placed, envVars, host, hpk>>

\* No payload, or no nested mountpoint.
PayloadFails(c) ==
    /\ At(c, "get") /\ cr[c].src > Len(Vol(c).sources)
    /\ ReturnError(c)
    /\ UNCHANGED <<writerVars, pod, placed, envVars, host, hpk>>

Writing(c) ==
    /\ At(c, "write") /\ (WriteStep(c) \/ Fail(c))
    /\ UNCHANGED mountVars

WriteReturns(c) ==
    /\ At(c, "write")
    /\ \/ wpc[c] = "done" /\ Set(c, NextVolume(cr[c]))
       \/ wpc[c] = "error" /\ ReturnError(c)
    /\ UNCHANGED <<writerVars, pod, placed, envVars, host, hpk>>

-----------------------------------------------------------------------------
(* The containers are built and the job is submitted, whether or not a     *)
(* claim has marked the pod as failed; then the description is saved.      *)
Mounted(c) ==
    /\ At(c, "mount") /\ cr[c].vol > Len(pod)
    /\ Set(c, [cr[c] EXCEPT !.pc = "submit"])
    /\ UNCHANGED <<writerVars, pod, placed, envVars, host, hpk>>

Submit(c) ==
    /\ \/ At(c, "submit") /\ Set(c, [cr[c] EXCEPT !.pc = "submitted"])
       \/ At(c, "submit") /\ ReturnError(c)     \* buildContainer
       \/ At(c, "submitted") /\ Set(c, [cr[c] EXCEPT !.pc = "saved"])
    /\ UNCHANGED <<writerVars, pod, placed, envVars, host, hpk>>

\* The pause image, the script, sbatch or the saving of the description has failed.
SubmitPanics(c) ==
    /\ At(c, "submit") \/ At(c, "submitted")
    /\ hpk' = "fault"
    /\ UNCHANGED <<writerVars, pod, cr, placed, envVars, host>>

(* External: objects come and go, claims are bound.                        *)
ObjectChanges ==
    /\ hpk = "up" /\ Has({"payload"}) /\ changes < MaxChanges /\ changes' = changes + 1
    /\ \E o \in Objects :
          \/ there' = there \ {o} /\ UNCHANGED object
          \/ there' = there \cup {o} /\ \E d \in Data : object' = [object EXCEPT ![o] = d]
    /\ UNCHANGED <<writerVars, pod, cr, placed, claim, pv, host, hpk>>

ClaimChanges ==
    /\ hpk = "up" /\ Has({"claim"})
    /\ \/ claim = "missing" /\ claim' = "unbound" /\ UNCHANGED pv
       \/ claim = "unbound" /\ claim' = "bound" /\ UNCHANGED pv
       \/ pv = "missing" /\ pv' = "local" /\ UNCHANGED claim
    /\ UNCHANGED <<writerVars, pod, cr, placed, object, there, changes, host, hpk>>

\* MkdirAll, PathExists or the link has failed.
MountPanics(c) ==
    /\ At(c, "mount") /\ cr[c].vol <= Len(pod) /\ errors < MaxErrors
    /\ hpk' = "fault"
    /\ UNCHANGED <<writerVars, pod, cr, placed, envVars, host>>

CreateStep(c) ==
    \/ MountPanics(c)
    \/ MountEmptyDir(c) \/ MountHostPath(c) \/ CheckType(c) \/ DownwardAPIVolumeSource(c)
    \/ MountUnknown(c)
    \/ GetClaim(c) \/ GetVolume(c) \/ MountPayload(c) \/ GetObject(c) \/ GetToken(c)
    \/ CollectData(c)
    \/ WritePayload(c) \/ PayloadFails(c) \/ Writing(c) \/ WriteReturns(c)
    \/ Mounted(c) \/ Submit(c) \/ SubmitPanics(c)

VolumesNext ==
    \/ \E c \in Writers : CreatePod(c) \/ CreateStep(c)
    \/ ObjectChanges \/ ClaimChanges

VolumesSpec ==
    /\ VolumesInit /\ [][VolumesNext]_volumeVars
    /\ \A c \in Writers : WF_volumeVars(CreateStep(c))

-----------------------------------------------------------------------------
Submitted(c) == cr[c].pc \in {"submitted", "saved"}
Reads(n)     == n \in links /\ data # 0 /\ n \in NamesOf(files[data])

\* No Write has dropped name n, and if it is not there yet, another Write is about to link it.
InEveryPayload(n) == \A d \in Writers : wpc[d] # "idle" => n \in NamesOf(payload[d])
StillLinking(n)   == \E d \in Writers : wpc[d] \in {"check", "link"} /\ n \in toLink[d]

\* What a container finds at VolumeDir/<name>, which is what it binds (container.go:77),
\* for volume i of creator c.
InPlace(c, i) ==
    IF pod[i].kind = "payload"
    THEN data # 0 /\ \A n \in NamesOf(payload[c]) :
             InEveryPayload(n) => Reads(n) \/ StillLinking(n)
    ELSE i \in placed

(* A job is submitted only when its volumes are in place, or, as the code    *)
(* has it: for a claim or downward API volume, when its failure is noted in *)
(* the pod (volumes.go, PersistentVolumeClaimSource); for a hostPath with a *)
(* type, when the path itself has that type, because nothing is linked in   *)
(* the pod directory (host_path.go:41-49; PreparedInPodDirectory); for a    *)
(* payload after an error, or with names that an overlapping Write has      *)
(* renamed into place but not linked yet (the early return of step 4 of     *)
(* Write does not wait for step 9).                                        *)
SubmittedMounted ==
    \A c \in Writers : Submitted(c) => \A i \in DOMAIN pod :
        \/ InPlace(c, i)
        \/ pod[i].kind \in {"claim", "downwardAPI"} /\ cr[c].failed
        \/ pod[i].kind \in PathTypes /\ host = Expected(pod[i].kind)
        \/ pod[i].kind = "payload" /\ errors > 0

(* The comment of mountVolumeSource, volumes.go:54: it "prepares the volumes *)
(* into the local pod directory".  When a job is submitted and no failure   *)
(* has been noted, each volume has an entry there.                         *)
PreparedInPodDirectory ==
    \A c \in Writers : Submitted(c) /\ ~cr[c].failed => DOMAIN pod \subseteq placed

(* Once a job is submitted, no other CreatePod goroutine that mounts the    *)
(* same volume takes a name from it, not for a moment, unless the API       *)
(* object has lost that name (steps 8 to 11 of Write).                     *)
JobKeepsVolume ==
    [][\A n \in Names :
        (\E c \in Writers : Submitted(c)) /\ Reads(n) /\ InEveryPayload(n)' => Reads(n)']_volumeVars

(* Writes that neither overlapped nor failed leave nothing behind: one      *)
(* timestamped directory, no ..data_tmp, and a link for each name of the    *)
(* payload and no other (steps 9 to 11 of Write).                          *)
QuiescentClean ==
    errors = 0 /\ ~overlap /\ (\A i \in Writers : wpc[i] \notin Running) =>
        /\ tmp = 0 /\ dirs = {data} \ {0}
        /\ links = IF data = 0 THEN {} ELSE NamesOf(files[data])

\* Volume i can bring HPK down: its kind does so by itself, or it is a hostPath whose
\* path is not of its type.
Culprit(i) ==
    \/ pod[i].kind \in {"claim", "downwardAPI", "unknown"}
    \/ pod[i].kind \in PathTypes /\ ~TypeOK(pod[i].kind)

(* emptyDir, payload and untyped hostPath volumes, whatever is or is not at *)
(* the path, and typed paths of the right type bring HPK down only if two   *)
(* CreatePod goroutines run for the pod: os.Symlink fails for the second.   *)
(* A path of the wrong type is a culprit: CreatePod panics on the error of  *)
(* SetUpAt (volumes.go:184-185), although volumes.go:55-56 has              *)
(* "Misconfigurations (like wrong hostpaths), are returned as errors".      *)
PanicNeedsCause ==
    hpk = "panic" => \/ \E i \in DOMAIN pod : Culprit(i)
                     \/ \E c, d \in Writers : c # d /\ "idle" \notin {cr[c].pc, cr[d].pc}

(* Every CreatePod call comes to an end, whatever becomes of the objects it *)
(* waits for: the retries are limited, and no step of Write waits.         *)
MountingEnds ==
    \A c \in Writers : cr[c].pc = "mount" ~> cr[c].pc \in {"saved", "failed"} \/ hpk # "up"
=============================================================================
