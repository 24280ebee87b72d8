# A TLA+ model of HPK

HPK runs Kubernetes pods as Slurm jobs. A virtual kubelet (one process on the
login node) turns every pod into an `sbatch` script; in the job, the agent
`hpk-pause` starts the pod's containers with apptainer. The two communicate
only through *control files* in a shared file system: the agent creates and
writes them, a watcher in the kubelet sees them appear, and the event listener
computes the pod's status from them. This directory models that loop, the life
of a pod around it, and the parts it is built from.

## Inventory

| Part | Source | State | Operations | What makes it hard, and correct |
|---|---|---|---|---|
| hpk-pause | `cmd/pause/main.go` | goroutines, child processes, control files, signal channel | fetch the pod, announce the IP, run init containers, spawn one goroutine per container, handle signals | runs concurrently with its own children and with Slurm; every container must be recorded, in order and truthfully |
| pod status | `compute/podhandler/podStatus.go`, `container.go` | the worker's copy of the pod | read the IP, exit code and job id of each container; classify; move the phase | reads many files one by one while the job writes them; must never claim more than they show |
| event listener | `compute/events/listener.go` | bounded queue, read-write lock, `Finished`, workers | `Push`, `Listen` | blocking send under a lock, shutdown, exactly-once and ordered handling |
| provider | `provider/provider.go` | watcher, saved pods | `NewVirtualK8S`, `CreatePod`, `UpdatePod`, `DeletePod`, `GetPod(s)`, `NotifyPods` | `CreatePod` works in the background; a crash can fall between any two steps |
| pod handler | `compute/podhandler/podhandler.go` | the pod directory and the JSON file in it | `CreatePod`, `DeletePod`, save, load | no job may be leaked or submitted twice |
| Slurm commands | `compute/slurm` | the jobs | submit, cancel, parse ids | three outcomes of `scancel`; ids that cannot be parsed |
| polling watcher | `pkg/filenotify/poller.go` | two recordings of a directory per watch | `Add`, `Remove`, `Close`, tick | the directory changes during a recording; no creation may be missed or invented |
| inotify watcher | `pkg/filenotify/fsnotify.go` | that of a library | wrappers | used only with `--poll 0` |
| volumes | `compute/podhandler/volumes.go`, `compute/volume/...` | the pod's volume directory, shared by all its `CreatePod` goroutines | mount each kind of volume, collect payloads, wait for a claim | objects come and go while it waits; errors are returned, only noted, or a panic; no job without its volumes |
| atomic writer | `compute/volume/util/atomic_writer.go` | timestamped directories and links | `Write` | fails, stops or overlaps with another between any two of its eleven steps; readers must see whole payloads |
| specification helpers | `securitycontext.go`, `envvars.go`, `pkg/expansion`, `pkg/resources` | none | pure functions | precedence and boundary cases |
| logs and exec | `pkg/container`, `provider.go` | a log file that grows, a goroutine reading it backwards | `GetContainerLogs`, `GetTailLog` | lines cross pages; the reader hangs up early |
| image pull, templates, environment, node and statistics, commands | `compute/image`, `templates.go`, `compute/runtime`, `provider/node.go`, `cmd/hpk` | none of their own | run a command, fill in a text | pure I/O or text |
| k3s add-ons | `k3s/` | none | scheduler, webhook | stateless programs of the control plane |

How they interact: the virtual kubelet library calls the provider;
`CreatePod` starts a goroutine that makes directories, adds a watch, submits
the job, saves the pod and notifies the library; the job writes control files;
the watcher sends events through an unbuffered channel to a forwarding
goroutine, which `Push`es them into the listener's queue; a worker loads the
saved pod, reads the files and notifies the library; the library writes the
status (and, the first time, the annotations that the job waits for) to the API
server. `PROJECT.json` lists the places where this can go wrong.

## Modules

| Module | Models | State and actions in terms of the code |
|---|---|---|
| `ControlFiles` | `.ip`, `.jobid`, `.exitCode` | A file is absent, empty or written, because `os.WriteFile` creates before it fills. An exit code is zero or not. |
| `Pause` | `cmd/pause/main.go` | `main` is the position of the main goroutine or the way the process ended, `gor[c]` that of a container's goroutine, `handler` that of the signal goroutine. Every write of a file is two actions. Every early return is an action; the set `Faults` selects which failures a run explores. |
| `PodStatus` | `Classifier`, phase transitions, `PodError` | Pure operators; `UpdateStatus` is `UpdateStatusFromRuntime` after the reads. |
| `PodEvents` | job, watcher, queue, worker, `CreatePod`'s tail, `UpdatePod` and status sync together | `wpc` is the worker's position; it reads the IP, then for each container exit code and job id, each in a step of its own. `crd` is the saved status, `lis` and `vk` what was notified last, `k8s` the API server's copy. Extends `Pause` and `PodStatus`. |
| `EventListener` | `Push`, `Listen`, forwarding goroutine | The lock is modelled with Go's rule that a waiting writer keeps new readers out. |
| `OrderedDelivery` | what a caller of `Push` may rely on | Abstract specification of `EventListener`. |
| `PodLifecycle` | creation, update, deletion, panic, crash and restart of pods of one name | One goroutine per call of `CreatePod`, one call of `UpdatePod` or `DeletePod` at a time, the directory, the saved pod, the watches and the Slurm jobs. |
| `Poller` | `filePoller` | One goroutine per `Add`; a recording is a `Stat` and a `Readdir`; a file is its version. |
| `AtomicWriter` | `AtomicWriter.Write` | `wpc[i]` is the step of the i-th call; one action per file system operation, numbered as in the code's comment; `Fail` is what each leaves behind when it is refused. A name is an entry of the volume's root with all that is below it. |
| `AtomicVolume` | what a container that reads `..data` may rely on | Abstract specification of `AtomicWriter`. |
| `Volumes` | the volumes of one pod in `CreatePod`, from the first to the submission | `cr[c]` is the c-th `CreatePod` goroutine: its position, volume, source, attempts, collected payload and whether it has marked the pod as failed. Extends `AtomicWriter`: the c-th goroutine makes the c-th `Write`. `MCVolumes` gives the pods. |
| `TailLog` | `GetContainerLogs`, `GetTailLog`, `ReverseReader` | The request and the reading goroutine with the unbuffered channel between them, and the job that appends. A byte is a line end or its own position; `Split` and `NonEmpty` are recursive functions over the bytes and the lines. |
| `PauseProofs`, `PodEventsProofs`, `EventListenerProofs`, `PodLifecycleProofs`, `PollerProofs`, `AtomicWriterProofs`, `VolumesProofs`, `TailLogProofs` | theorems | see below |

The virtual kubelet library, the API server, Slurm and apptainer are not in the
repository; the actions for them (`SyncStatus`, `ApiCreate`, `JobEnds`,
`ChildExits`, `ObjectChanges`, ...) are the least that the code relies on and are marked external
in the map. Auxiliary variables (`missed`, `mishaps`, `processed`, `created`,
`got`, `overlap`, `seen`) only record what has happened, for the properties to speak of.

## Runs

| Run | Instance | Shows |
|---|---|---|
| `pause` | 1 init, 2 main containers, every fault; 11 thousand states | `ExitRecorded`: pause returns only when all codes are on disk. `InitThenMain`: strict order of init containers. `CodesTruthful`, `FilesOnlyGrow`: a file is never wrong or rewritten, even when a step fails half way. `SignalEndsPause`: a received signal ends the agent when its containers have ended. |
| `podevents` | 1 init, 1 main container, queue of 1, 1 update; 0.76 million states | `StatusTruthful`, `QuiescentUpToDate`, `ListenerNeverRegresses`, `NotificationsUpToDate`: every status notified is backed by the files, current and never a step back. `ResultReachesKubernetes`: the end of the pod reaches the API server. |
| `event_listener` | 2 workers, queue of 2, 4 events; 56 thousand states | `ImplementsDelivery` (refinement of `OrderedDelivery`), `ClosedQueue`, `EventuallyProcessed` |
| `pod_lifecycle` | 2 pods of one name, 2 calls of `CreatePod`, 1 update, 1 crash, 1 retry; 0.7 million states | `NoLeakedJob`, `OneJobPerPod` (jobs that are ending count as running), `CancelledBeforeRemoval`: the record of a job id goes only after that job was told to end. `RightIncarnation`, `DeletionCompletes` |
| `poller` | 2 files, 2 watches, 2 versions, 2 removals; 0.4 million states | `NoFalseCreate`, `CreationReported` |
| `volumes` | 2 `CreatePod` goroutines, 12 pods that between them have every kind of volume, 2 names, 1 object with 1 change, 1 failure of the file system, 2 attempts; 0.35 million states | `ImplementsAtomicVolume` (refinement of `AtomicVolume`): whole payloads, each shown in one step. `SubmittedMounted`: what is in place when the job starts, and the cases in which it is not. `JobKeepsVolume`: no second goroutine takes a file from a job that has started, not even for a moment. `QuiescentClean`: nothing is left behind. `PanicNeedsCause`: which volumes bring HPK down. `MountingEnds`. |
| `tail_log` | pages of 3 bytes, files of up to 7 that grow by up to 2, tails of all, 1 and 3; 0.4 million states | `TailSound`, `TailComplete`: the last lines, newest first, none left out. `TailBounded`: not more than asked for by half a page. `RequestEnds`, `FileClosed`. |
| `podevents_panic`, `init_failure`, `listener_shutdown`, `pod_restart`, `typed_host_path` | smallest instance that shows it | a disagreement between code and its documentation, see Findings |

*Bounds.* An init and a main container are the least for which a status can mix
states of different moments; that it may also mix those of several main containers
is left to the theorems, which hold for any number of them and any failure of the
agent, because an instance with both and with updates is beyond the time of a run. `pause` has two main containers, the least for
goroutines that overtake each other. A queue of one is full at
once, which is the case of interest; with two workers and a queue of two, events
could overtake each other if the code allowed it. Two pods of one name and two
calls of `CreatePod` give every pairwise overlap of the calls. Two versions and
two removals let a file, or the directory, go away and come back between any
two ticks. Two overlapping `Write`s with two names let one be anywhere in its
steps while the other makes any of its own, and one failure, or none, falls on
either; a payload that loses a name exercises the pruning. With pages of three
bytes a file of seven has lines that fill, miss and cross page boundaries, ends both on
and off one, and has pages in which two lines end, so that a tail of 1 is exceeded. The theorems remove the bounds from every safety
property; for liveness they remain.

*Conditions.* `QuiescentUpToDate` and `ResultReachesKubernetes` hold only until
an event is omitted (the pod file was missing or empty) or a control file is
read while empty: nothing in HPK repeats such a read, so the condition is part
of what the code offers. In the same way the properties of `PodLifecycle` name
the mishaps (`crash`, `duplicate`, `early`, `retry`, `recreated`) after which a
job can indeed be leaked or submitted twice. They say that nothing else leads
there. `CancelledBeforeRemoval` does not say that a job is over when its directory
goes: `scancel` only tells it to end (job state `ending`), and `DeletePod` removes the
directory at once. `SubmittedMounted` asks what a container finds at the place it binds
and names four exceptions, each what the code does: the
failure of a claim or of a downward API volume is only noted in the pod and the
job is submitted all the same; a hostPath with a type is not linked there at all, and
only the path itself has the type (finding 5); after a failure of the file system an earlier
`Write` may have left names without links, which a later one with the same
payload does not repair; and the early return of step 4 does not wait for links
another `Write` is about to make. `JobKeepsVolume` speaks of names that every
payload has. `PanicNeedsCause` counts a hostPath that is not of its type among the
culprits (finding 6). `TailComplete` leaves out the first `Lost` bytes of the file,
which no page covers when the pages are misaligned, and says that there are
none unless the file grew between `Stat` and `Seek`. `FileClosed`
excludes a request that hangs up with enough lines: the goroutine then waits for
ever with the file open. `CHECK_DEADLOCK FALSE` is used because pods end, HPK may have panicked and
bounded environments run dry: these systems may stop.

*Fairness.* Weak fairness stands for the Go scheduler, which runs every
goroutine that can run, for the ticker of the poller, and for a supervisor that
restarts HPK. In `PodLifecycle` the virtual kubelet's calls are strongly fair:
its work queue retries an item, although other calls for the pod come in
between. No fairness is assumed of containers, Slurm, users or crashes. The runs
on `pause` and the jobs of `init_failure` treat goroutines of the agent as fair;
`podevents` needs nothing from the job, as its liveness property begins when the
exit codes are on disk. In `Volumes` the `CreatePod` goroutines that have begun are
weakly fair; every wait in them is a sleep with a limited number of attempts, so
nothing is assumed of the API server. In `TailLog` the request and the goroutine
are weakly fair.

## Findings

1. **`podevents_panic`**: a worker that reads a `.jobid` file between its
   creation and its writing hands an empty id to `parseIDType`, which panics
   (`idtype.go:72`). The comment at `listener.go:132` asks readers to retry;
   `readStringFromFile` does not.
2. **`init_failure`**: when an init container fails, `handleInitContainers`
   returns before it writes the exit code (`main.go:426`), so the branch of
   `podStatus.go:81` for failed init containers is never reached and the pod
   stays pending.
3. **`listener_shutdown`**: `Push` blocks on a full queue with the read lock
   held; a worker that then sees the cancellation waits for the write lock, and
   `Listen` does not return (`listener.go:101`).
4. **`pod_restart`**: after a restart the pod directories are watched instead
   of the control-file directories inside them (`provider.go:153`), so that a
   running pod's events are not seen.
5. **`typed_host_path`**: a hostPath volume with a type is checked, or made, but not
   linked into the pod directory (`host_path.go:41-49`), where the container's bind
   looks for it (`container.go:77`), although `mountVolumeSource` "prepares the volumes
   into the local pod directory" (`volumes.go:54`). The job starts without it.

Three more comments say something else than the code does. The passing properties
state what does hold, and would fail if they stated what the comment says:

6. `volumes.go:55-56` has "Misconfigurations (like wrong hostpaths), are returned as
   errors"; a hostPath that is not of its type is a panic (`volumes.go:184-185`), hence
   the `Culprit` of `PanicNeedsCause`.
7. `logs.go:121-122` adds lines "until we have the same number of F type messages as the
   desired tail"; the count is compared once per page and nothing is trimmed, so that a
   tail of 1 returns every line that the last page holds. `TailBounded` is the bound
   that is kept, and it is tight.
8. `cancel.go:40-45` speaks of a job that is waited for until it closes "gracefully";
   nothing waits, and `DeletePod` removes the directory of a job that may still run
   (`podhandler.go:163`), hence the wording of `CancelledBeforeRemoval`.

## Proofs

TLAPS proves every safety property of the passing runs for all values of the
constants: any number of init and main containers, pods, calls, workers, events,
files and failures, any capacity of the queue, and pages and logs of any size.

* **Pause** (`PauseProofs`): `PauseTypeOK`, `ExitRecorded`, `InitThenMain`,
  `CodesTruthful`, `FilesOnlyGrow`. None is inductive: what a step may assume of
  the files depends on how far the main goroutine, or a container's, has come.
  `PauseInd` says for each position (`MainInv`, `AtInit`, `GorInv`) which files
  it has left behind, and that an init container's code on disk is zero.
* **Truthfulness** (`PodEventsProofs`): `EventsTypeOK` and `StatusTruthful`.
  `EventsInd` adds to `PauseInd` that every copy of the status (saved, given
  to `UpdatePod`, held by the worker, notified, in the API server) is `Sound`: its
  phase, IP and container states are backed by the files. Soundness of a copy
  survives because files only grow (`SoundStays`), and `UpdateStatus` keeps it
  (`UpdateStatusSound`).
* **No regress, no lost update** (`PodEventsProofs`): `RegressInd` relates the
  worker's half-read copy to the last notification (`Advanced`): what the listener
  said of a container, the worker finds again or finds advanced. `UpdateInd`
  says that with no event left the containers already read agree with the files
  *now*: a file that grew since would have left an event, or, had it been read
  empty, set `missed`. `InStep` says that before `CreatePod`'s notification the job
  has created no file, because the annotations it needs are published by that
  very notification; hence that notification is never late.
* **Ordered delivery** (`EventListenerProofs`): `ListenerTypeCorrect`,
  `ListenerDelivers` (the refinement of `OrderedDelivery`) and `ClosedQueueStays`.
  The refinement mapping concatenates what was processed, what a worker holds and
  the queue. That this is one sequence rests on `OneWorker`: `Listen` starts a worker
  only when the one before it has returned, so that at most one event is held and a
  step moves an event from one part to the next or adds one at the end. `SendsOpen`
  says that no `Push` is between its check of `Finished` and its send when `Finished`
  is set, because the worker that sets it has the write lock.
* **Life of a pod** (`PodLifecycleProofs`): `LifecycleTypeCorrect`,
  `OneJobForEachPod`, `JobsAreNotLeaked`, `AnswersForTheRightPod`, `RemovedAfterCancelling`.
  The code promises less after every mishap, and the invariant has a layer for each
  promise. `Basics` always holds. While no `CreatePod` has run during another
  (`Ordered`) at most one goroutine is building, the saved file is not being written,
  and `DeletePod` removes the file whose job it has cancelled. If HPK has not crashed
  either (`OneSubmission`), a pod with a job has its file until its deletion, so that
  `GetPod` finds it and no second `CreatePod` is called; that a job is unique for its
  pod is not inductive without it. Without any mishap (`Tidy`) every active job is
  named by a goroutine, by the saved file or by the `UpdatePod` call that writes it,
  and what names it belongs to the API server's pod or to one about to be deleted.
* **No invented creation** (`PollerProofs`): `PollerTypeCorrect` and
  `PollerNeverInvents`. A creation that was counted is received, among the events
  still to be sent, or on disk and not in the last recording; `Accounted` says that
  the three together are never more than the creations, which survives the steps
  in which a creation goes from one place to the next.
* **Atomic volumes** (`AtomicWriterProofs`): `WriterTypeCorrect`, and
  `WriterIsAtomic`, that any number of overlapping, failing or stopped `Write`s of
  any payloads implements `AtomicVolume`. `WriterInv` rests on `..data_tmp` being a
  lock (`TmpIsLock`): it leads to the directory of the one `Write` that is between
  steps 7 and 8. So `Rename` shows the renamer's own payload, which is complete
  (`OwnComplete`); what `..data` leads to stays complete (`DataComplete`), because
  a directory is removed only by its own `Write` before its rename, or, in step
  11, by a `Write` that has since renamed `..data` away from it; and no later
  rename leads back, as a directory is renamed into place once (`OldIsPast`).
  `Sequential` adds, while no `Write` has failed or overlapped another, the exact
  directories and links at each step of the one that runs (`StageBefore`,
  `StageAfter`).
* **Mounting** (`VolumesProofs`): `VolumesTypeCorrect`, the limit on attempts
  included; `VolumesAtomic`, by showing that `VolumesSpec` implies `WriterSpec`
  (`RunsWriter`), each goroutine calling `Write` at most once and with a payload;
  `PanicHasCause`, from an invariant (`LinkMade`) that a link in the volume
  directory was made by a goroutine that has moved on to a later volume: a
  goroutine that finds the link of its present volume is not alone.
  `WritesLeaveNothingBehind` (`QuiescentClean`) is `Sequential` read when no `Write`
  runs. `JobsKeepTheirVolume` (`JobKeepsVolume`) goes through the steps of `Write`:
  `Rename` shows a payload that has the name, and pruning spares the names of the
  pruner's own payload (`PrunesOthers`). `SubmittedHasVolumes` (`SubmittedMounted`)
  needs two more invariants. `MountedInv`: a volume that a goroutine has got past is
  in place and stays so, or its failure is noted. `LinksInv`: a name that some
  `Write` need not link any more is linked, and of the `Write`s there is one that has
  linked all of its names or is about to, because `Symlink` in step 9 fails
  only when another `Write` has just made that link and goes on to its next name.
* **Tail of a log** (`TailLogProofs`): `TailIsSound`, `TailIsComplete` and `TailIsBounded`.
  The fact behind reading backwards is `SplitConcat`: the lines of a page followed
  by `r` are those of the page with the first line of `r` at its end, followed by the
  other lines of `r` unchanged. So the invariant can say (`LinesInv`) that the lines of
  all that was read are, in order, the line still open at its beginning, the chunk being
  sent, and the lines received. `PagesInv` keeps the offset a whole number of pages
  before the place where the reader began: the first read can go as far as the file has
  grown, every later page lies in what was seen then, the pages meet, and `start %
  PageSize` bytes (`Lost`) are left over at the end. `SeenInv`: appending changes
  nothing that was seen. For `TailIsComplete`, `Lost` is 0 when the file did not grow between
  `Stat` and `Seek` (`NothingLost`), what was seen reaches in any case at least to the
  size at `Stat`, and more bytes never make fewer lines (`MoreLines`). For
  `TailIsBounded`, `PageLines`: of a page and the rest of a line behind it, every line
  after the first has taken two bytes of the page, its end and what it holds, or, if it
  is the last, one; `BoundInv` adds that the rest carried from page to page has no line
  end and that the request goes on only while it has too few lines. `SplitCuts` proves the recursive
  `Split` against a description of `strings.Split` by the positions of the line ends.
  The inductions over bytes and lines are on *sets*: `Induction` and `SeqInduction`
  follow from the well-foundedness of `<` on `Nat` (`WFMin`), which, unlike the library's
  induction rules, has no operator for a parameter; `FoldExists` and `FoldUnique` then give a
  recursive function over the prefixes of a sequence its equations.

The assumptions are the named ones of the modules (`ContainersAssumption`,
`FaultsAssumption`, `QueueAssumption`, `ListenerAssumption`, `LifecycleAssumption`,
`PollerAssumption`, `WriterAssumption`, `VolumesAssumption`, `TailAssumption`): a
pod has at least one main container, the queue at least one place and the listener
one worker, a pod at most one payload volume; a name of a payload is not the number
0, which stands for no name, no file is called `.`, the name that events of the
directory itself have in the model of the poller, and a page has at least one byte. The invariants were model-checked, on the instances
of the runs, before they were proved.

*Only model-checked:* liveness (`SignalEndsPause`, `ResultReachesKubernetes`,
`EventuallyProcessed`, `DeletionCompletes`, `CreationReported`, `MountingEnds`,
`RequestEnds`, `FileClosed`), which is out of this prover's reach.

## Not modelled

Reasons, messages, timestamps and restart counts of a status; the check of a
pod without a phase (the API server always sets one); in `PodEvents` the branch of
the worker for `.syserror` files (`listener.go:144-171`), because nothing creates one at
this commit: in the sbatch script the file would be written behind `exec ... ||`
(`templates.go:328-338`), and `exec` does not return (`EventListener` has the branch
with its panic); the apptainer command line
and DNS files; change of file mode in the poller; the inotify watcher, with which
`DeletePod` also panics because the directory it un-watches was never watched;
image pulling beyond its success or failure; exec, which hands a stream on;
node status and statistics; the k3s add-ons. Security contexts, variable
expansion and resource sums are pure functions of the pod's specification.

Of the life of a pod: the garbage collection of an empty namespace directory at the end
of `DeletePod` (`podhandler.go:191-199`), which can race with `CreatePod` of another
pod in the namespace: `PodLifecycle` has the pods of one name and takes the namespace to
hold others. A failure that is only noted in the pod (`volumes.go:196`, `:293`) is left
out of `Build`, where it would change nothing but the phase of the saved pod; `Volumes`
has it.

Resource versions, which `UpdatePod` compares as strings, are left open: the model
may discard or apply any update, and no property relies on which.

Of volumes: the validation of paths (the API server refuses them first), file
modes and owners, nested mountpoints that hide a name of the payload (only
that making them may fail), more than one payload volume in a pod (each has a
directory and goroutines of its own, except that a pod's goroutine mounts them
one after the other), and deletion or a crash during the mounting, which
`PodLifecycle` has with mounting as one step. `PodEvents` starts from a pod whose
volumes were mounted without a failure.

What the model shows besides: the retry around a projected volume never retries,
because the aggregated error it looks at is never NotFound (`projected.go`); the lines
of a tail are returned newest first (the comment at `logs.go:114`, "the incoming array is
FIFO; we want FIFO so reverse the slice read order", can be read either way), and a
missing log is empty when all of it is asked for but an error when a part is. A hang of the agent when the last `SIGCHLD` comes before
`signal.Notify` (`main.go:137-139`) is in the model, and it is the reason why
`SignalEndsPause` speaks of received signals.

## Plan

1. *Done:* `ControlFiles`, `Pause`, `PodStatus`, `PodEvents`, `EventListener` with
   `OrderedDelivery`, `PodLifecycle`, `Poller`, `AtomicWriter` with `AtomicVolume`,
   `Volumes`, `TailLog`; proofs of all safety properties.
2. If the pure functions of the specification helpers grow: security context
   precedence, variable expansion and the comparison of resource versions as
   operators, each against a reference definition.
