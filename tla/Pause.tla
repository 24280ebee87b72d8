------------------------------- MODULE Pause -------------------------------
(***************************************************************************)
(* The hpk-pause process (cmd/pause/main.go): the agent that runs inside   *)
(* the Slurm job of a pod.  Its main goroutine fetches the pod, announces  *)
(* the IP, runs the init containers one after the other, spawns one        *)
(* goroutine per main container and then waits for a signal; a handler     *)
(* goroutine ends the process once every container has been recorded.      *)
(*                                                                         *)
(* Left out: the command line of apptainer, the DNS files, logging.  A     *)
(* step that can return an error for any of those reasons is one action    *)
(* named ...Fails.  Faults names the failures a model explores.            *)
(***************************************************************************)
EXTENDS ControlFiles

CONSTANT Faults   \* subset of {"io", "api", "start", "kill", "term"}

ASSUME FaultsAssumption == Faults \subseteq {"io", "api", "start", "kill", "term"}

VARIABLES
    annotated,  \* the API server's copy of the pod carries CreatePod's annotations
    seen,       \* they were there when pause fetched the pod
    main,       \* program position of the main goroutine, or how it ended
    cur,        \* the container its loops are at
    gor,        \* position of each main container's goroutine
    child,      \* the apptainer process of each container
    ip,         \* the .ip file
    jobid,      \* the .jobid files
    exitCode,   \* the .exitCode files
    notify,     \* signal.Notify has been called
    sigs,       \* the signal channel, of capacity one
    handler     \* the signal goroutine

fileVars  == <<ip, jobid, exitCode>>
sigVars   == <<notify, sigs, handler>>
pauseVars == <<annotated, seen, main, cur, gor, child, ip, jobid, exitCode, notify, sigs, handler>>

\* Ways in which the process is over: os.Exit(1), an unrecovered panic, an
\* early return of main, a kill, and the return after ctx.Done().
Ended == {"timeout", "panic", "error", "killed", "exit"}
InitSteps == {"initId", "initIdWrite", "initStart", "initWait", "initCode", "initCodeWrite"}
MainSteps == {"acquire", "get", "dns", "announce", "announceWrite", "spawn", "notify", "wait"}
             \cup InitSteps
GorSteps  == {"none", "start", "id", "idWrite", "wait", "code", "codeWrite", "done", "aborted"}

Alive == main \notin Ended

\* WaitGroup counter is zero: no spawned goroutine is still running.
WgZero == \A c \in MainContainers : gor[c] \in {"none", "done", "aborted"}

PauseTypeOK ==
    /\ annotated \in BOOLEAN /\ seen \in BOOLEAN /\ notify \in BOOLEAN
    /\ main \in MainSteps \cup Ended
    /\ cur \in 1 .. (NInit + NMain + 1)
    /\ gor \in [MainContainers -> GorSteps]
    /\ child \in [Containers -> {"none", "running"} \cup ExitCodes]
    /\ ip \in TextFile
    /\ jobid \in [Containers -> TextFile]
    /\ exitCode \in [Containers -> CodeFile]
    /\ sigs \in {"none", "TERM", "CHLD"}
    /\ handler \in {"off", "select", "wg"}

PauseInit ==
    /\ annotated = FALSE /\ seen = FALSE
    /\ main = "acquire" /\ cur = 1
    /\ gor = [c \in MainContainers |-> "none"]
    /\ child = [c \in Containers |-> "none"]
    /\ ip = "absent"
    /\ jobid = [c \in Containers |-> "absent"]
    /\ exitCode = [c \in Containers |-> "absent"]
    /\ notify = FALSE /\ sigs = "none" /\ handler = "off"

-----------------------------------------------------------------------------
(* main(): fetching the pod and preparing the environment. *)

\* acquire_pod_loop: the first successful Get leaves the loop, whatever the
\* pod's annotations; a failing Get is retried until the timeout.
AcquirePod ==
    /\ main = "acquire"
    /\ main' = "get"
    /\ UNCHANGED <<annotated, seen, cur, gor, child, fileVars, sigVars>>

\* Here also: log.Fatal on a missing flag or kubeconfig.
AcquireTimeout ==
    /\ "api" \in Faults
    /\ main = "acquire"
    /\ main' = "timeout"
    /\ UNCHANGED <<annotated, seen, cur, gor, child, fileVars, sigVars>>

\* The second Get, whose result the rest of the process works on.
GetPodDetails ==
    /\ main = "get"
    /\ main' = "dns"
    /\ seen' = annotated
    /\ UNCHANGED <<annotated, cur, gor, child, fileVars, sigVars>>

GetPodDetailsFails ==
    /\ "api" \in Faults
    /\ main = "get"
    /\ main' = "panic"
    /\ UNCHANGED <<annotated, seen, cur, gor, child, fileVars, sigVars>>

PrepareDNS ==
    /\ main = "dns"
    /\ main' = "announce"
    /\ UNCHANGED <<annotated, seen, cur, gor, child, fileVars, sigVars>>

\* Where the loops go after container c.
AfterInit(c) == IF c < NInit THEN "initId" ELSE "spawn"

\* Mutant: pause finds its directory without the annotation.
AnnounceIPUnseen ==
    /\ main = "announce"
    /\ ip' = "empty"
    /\ main' = "announceWrite"
    /\ UNCHANGED <<annotated, seen, cur, gor, child, jobid, exitCode, sigVars>>

\* announceIP: without the workingDirectory annotation the path of the .ip
\* file is relative to a directory that does not exist.
AnnounceIP ==
    /\ main = "announce" /\ seen
    /\ ip' = "empty"
    /\ main' = "announceWrite"
    /\ UNCHANGED <<annotated, seen, cur, gor, child, jobid, exitCode, sigVars>>

AnnounceIPNoDir ==
    /\ main = "announce" /\ ~seen
    /\ main' = "error"
    /\ UNCHANGED <<annotated, seen, cur, gor, child, fileVars, sigVars>>

\* The rest of announceIP, and cleanEnvironment.
AnnounceIPWrite ==
    /\ main = "announceWrite"
    /\ ip' = "written"
    /\ main' = AfterInit(0)
    /\ UNCHANGED <<annotated, seen, cur, gor, child, jobid, exitCode, sigVars>>

\* prepareContainers returns an error: main logs it and returns.
PrepareFails ==
    /\ "io" \in Faults
    /\ main \in {"dns", "announce", "announceWrite"}
    /\ main' = "error"
    /\ UNCHANGED <<annotated, seen, cur, gor, child, fileVars, sigVars>>

-----------------------------------------------------------------------------
(* handleInitContainers: one init container at a time. *)

InitId ==
    /\ main = "initId"
    /\ jobid' = [jobid EXCEPT ![cur] = "empty"]
    /\ main' = "initIdWrite"
    /\ UNCHANGED <<annotated, seen, cur, gor, child, ip, exitCode, sigVars>>

InitIdWrite ==
    /\ main = "initIdWrite"
    /\ jobid' = [jobid EXCEPT ![cur] = "written"]
    /\ main' = "initStart"
    /\ UNCHANGED <<annotated, seen, cur, gor, child, ip, exitCode, sigVars>>

\* The log file is created and cmd.Run starts the process.
InitStart ==
    /\ main = "initStart"
    /\ child' = [child EXCEPT ![cur] = "running"]
    /\ main' = "initWait"
    /\ UNCHANGED <<annotated, seen, cur, gor, fileVars, sigVars>>

\* Mutant: the error of cmd.Run is only logged.
InitReapedIgnoresError ==
    /\ main = "initWait" /\ child[cur] \in ExitCodes
    /\ main' = "initCode"
    /\ UNCHANGED <<annotated, seen, cur, gor, child, fileVars, sigVars>>

\* cmd.Run returns: a failed container aborts main before its code is saved.
InitReaped ==
    /\ main = "initWait" /\ child[cur] \in ExitCodes
    /\ main' = IF child[cur] = "zero" THEN "initCode" ELSE "error"
    /\ UNCHANGED <<annotated, seen, cur, gor, child, fileVars, sigVars>>

InitCode ==
    /\ main = "initCode"
    /\ exitCode' = [exitCode EXCEPT ![cur] = "empty"]
    /\ main' = "initCodeWrite"
    /\ UNCHANGED <<annotated, seen, cur, gor, child, ip, jobid, sigVars>>

InitCodeWrite ==
    /\ main = "initCodeWrite"
    /\ exitCode' = [exitCode EXCEPT ![cur] = child[cur]]
    /\ main' = AfterInit(cur)
    /\ cur' = cur + 1
    /\ UNCHANGED <<annotated, seen, gor, child, ip, jobid, sigVars>>

\* Any error return of handleInitContainers other than a failed container:
\* env script, sub-path, .jobid, log file, start of apptainer, .exitCode.
InitFails ==
    /\ "io" \in Faults
    /\ main \in {"initId", "initIdWrite", "initStart", "initCode", "initCodeWrite"}
    /\ main' = "error"
    /\ UNCHANGED <<annotated, seen, cur, gor, child, fileVars, sigVars>>

-----------------------------------------------------------------------------
(* handleContainers: spawn one goroutine per main container. *)

\* Mutant: the loop runs once too often.
SpawnOneTooMany ==
    /\ main = "spawn"
    /\ gor' = [gor EXCEPT ![cur] = "start"]
    /\ cur' = cur + 1
    /\ main' = IF cur > NInit + NMain THEN "notify" ELSE "spawn"
    /\ UNCHANGED <<annotated, seen, child, fileVars, sigVars>>

\* wg.Add(1) and go func, then the next container or the end of the loop.
Spawn ==
    /\ main = "spawn"
    /\ gor' = [gor EXCEPT ![cur] = "start"]
    /\ cur' = cur + 1
    /\ main' = IF cur = NInit + NMain THEN "notify" ELSE "spawn"
    /\ UNCHANGED <<annotated, seen, child, fileVars, sigVars>>

\* An error while preparing a container returns from main at once, with the
\* goroutines of the earlier containers still running.
SpawnFails ==
    /\ "io" \in Faults
    /\ main = "spawn"
    /\ main' = "error"
    /\ UNCHANGED <<annotated, seen, cur, gor, child, fileVars, sigVars>>

\* The goroutine of main container c.
Start(c) ==
    /\ Alive /\ gor[c] = "start"
    /\ child' = [child EXCEPT ![c] = "running"]
    /\ gor' = [gor EXCEPT ![c] = "id"]
    /\ UNCHANGED <<annotated, seen, main, cur, fileVars, sigVars>>

\* cmd.Start fails, the error is only logged, and cmd.Process is nil.
StartFails(c) ==
    /\ "start" \in Faults
    /\ Alive /\ gor[c] = "start"
    /\ main' = "panic"
    /\ UNCHANGED <<annotated, seen, cur, gor, child, fileVars, sigVars>>

Id(c) ==
    /\ Alive /\ gor[c] = "id"
    /\ jobid' = [jobid EXCEPT ![c] = "empty"]
    /\ gor' = [gor EXCEPT ![c] = "idWrite"]
    /\ UNCHANGED <<annotated, seen, main, cur, child, ip, exitCode, sigVars>>

IdWrite(c) ==
    /\ Alive /\ gor[c] = "idWrite"
    /\ jobid' = [jobid EXCEPT ![c] = "written"]
    /\ gor' = [gor EXCEPT ![c] = "wait"]
    /\ UNCHANGED <<annotated, seen, main, cur, child, ip, exitCode, sigVars>>

Reaped(c) ==
    /\ Alive /\ gor[c] = "wait" /\ child[c] \in ExitCodes
    /\ gor' = [gor EXCEPT ![c] = "code"]
    /\ UNCHANGED <<annotated, seen, main, cur, child, fileVars, sigVars>>

Code(c) ==
    /\ Alive /\ gor[c] = "code"
    /\ exitCode' = [exitCode EXCEPT ![c] = "empty"]
    /\ gor' = [gor EXCEPT ![c] = "codeWrite"]
    /\ UNCHANGED <<annotated, seen, main, cur, child, ip, jobid, sigVars>>

\* Mutant: the code is taken from the error of cmd.Start instead of cmd.Wait.
CodeWriteOfStart(c) ==
    /\ Alive /\ gor[c] = "codeWrite"
    /\ exitCode' = [exitCode EXCEPT ![c] = "zero"]
    /\ gor' = [gor EXCEPT ![c] = "done"]
    /\ UNCHANGED <<annotated, seen, main, cur, child, ip, jobid, sigVars>>

\* The code is written and the deferred wg.Done runs.
CodeWrite(c) ==
    /\ Alive /\ gor[c] = "codeWrite"
    /\ exitCode' = [exitCode EXCEPT ![c] = child[c]]
    /\ gor' = [gor EXCEPT ![c] = "done"]
    /\ UNCHANGED <<annotated, seen, main, cur, child, ip, jobid, sigVars>>

\* Mutant: a goroutine that fails to write starts its bookkeeping again.
GoroutineRetries(c) ==
    /\ "io" \in Faults
    /\ Alive /\ gor[c] \in {"start", "id", "idWrite", "code", "codeWrite"}
    /\ gor' = [gor EXCEPT ![c] = IF @ = "start" THEN "aborted" ELSE "id"]
    /\ UNCHANGED <<annotated, seen, main, cur, child, fileVars, sigVars>>

\* Log file, .jobid or .exitCode cannot be written: the goroutine returns.
GoroutineFails(c) ==
    /\ "io" \in Faults
    /\ Alive /\ gor[c] \in {"start", "id", "idWrite", "code", "codeWrite"}
    /\ gor' = [gor EXCEPT ![c] = "aborted"]
    /\ UNCHANGED <<annotated, seen, main, cur, child, fileVars, sigVars>>

-----------------------------------------------------------------------------
(* Signals. *)

\* Registration and start of the handler goroutine.
SignalNotify ==
    /\ main = "notify"
    /\ notify' = TRUE
    /\ handler' = "select"
    /\ main' = "wait"
    /\ UNCHANGED <<annotated, seen, cur, gor, child, fileVars, sigs>>

\* Delivery never blocks: a signal finding the channel full is dropped.
Deliver(s) == sigs' = IF notify /\ sigs = "none" THEN s ELSE sigs

\* A container process ends; before signal.Notify its SIGCHLD is ignored.
ChildExits(c, code) ==
    /\ Alive /\ child[c] = "running"
    /\ child' = [child EXCEPT ![c] = code]
    /\ Deliver("CHLD")
    /\ UNCHANGED <<annotated, seen, main, cur, gor, fileVars, notify, handler>>

\* SIGTERM from Slurm: fatal before signal.Notify, queued after it.
SigTerm ==
    /\ "term" \in Faults
    /\ Alive
    /\ main' = IF notify THEN main ELSE "killed"
    /\ Deliver("TERM")
    /\ UNCHANGED <<annotated, seen, cur, gor, child, fileVars, notify, handler>>

\* scancel or the end of the allocation: SIGKILL of the whole job.
SigKill ==
    /\ "kill" \in Faults
    /\ Alive
    /\ main' = "killed"
    /\ UNCHANGED <<annotated, seen, cur, gor, child, fileVars, sigVars>>

\* Mutant: the handler acts on SIGCHLD only.
HandlerTakesChldOnly ==
    /\ Alive /\ handler = "select" /\ sigs # "none"
    /\ sigs' = "none"
    /\ handler' = IF sigs = "CHLD" THEN "wg" ELSE "select"
    /\ UNCHANGED <<annotated, seen, main, cur, gor, child, fileVars, notify>>

HandlerTakes ==
    /\ Alive /\ handler = "select" /\ sigs # "none"
    /\ sigs' = "none"
    /\ handler' = "wg"
    /\ UNCHANGED <<annotated, seen, main, cur, gor, child, fileVars, notify>>

\* Mutant: the handler does not wait for the goroutines.
HandlerCancelsAtOnce ==
    /\ Alive /\ handler = "wg"
    /\ main' = "exit"
    /\ UNCHANGED <<annotated, seen, cur, gor, child, fileVars, sigVars>>

\* wg.Wait() returns, zombies are reaped, cancel() lets main return.
HandlerCancels ==
    /\ Alive /\ handler = "wg" /\ WgZero
    /\ main' = "exit"
    /\ UNCHANGED <<annotated, seen, cur, gor, child, fileVars, sigVars>>

-----------------------------------------------------------------------------
\* The virtual kubelet publishes the annotations (external to this process).
PublishAnnotations ==
    /\ ~annotated
    /\ annotated' = TRUE
    /\ UNCHANGED <<seen, main, cur, gor, child, fileVars, sigVars>>

\* Steps that create a control file, and that make the watcher see an event.
CreateFile == AnnounceIP \/ InitId \/ InitCode \/ \E c \in MainContainers : Id(c) \/ Code(c)

MainGoroutine ==
    \/ AcquirePod \/ AcquireTimeout \/ GetPodDetails \/ GetPodDetailsFails
    \/ PrepareDNS \/ AnnounceIPNoDir \/ AnnounceIPWrite \/ PrepareFails
    \/ InitIdWrite \/ InitStart \/ InitReaped \/ InitCodeWrite \/ InitFails
    \/ Spawn \/ SpawnFails \/ SignalNotify

Goroutine(c) ==
    \/ Start(c) \/ StartFails(c) \/ IdWrite(c) \/ Reaped(c) \/ CodeWrite(c)
    \/ GoroutineFails(c)

Environment ==
    \/ SigTerm \/ SigKill
    \/ \E c \in Containers, code \in ExitCodes : ChildExits(c, code)

\* Every other step of the job.
OtherStep ==
    \/ MainGoroutine
    \/ \E c \in MainContainers : Goroutine(c)
    \/ HandlerTakes \/ HandlerCancels
    \/ Environment

PauseNext == CreateFile \/ OtherStep \/ PublishAnnotations

\* The Go scheduler runs every runnable goroutine; nothing obliges a
\* container to end, a signal to come, or the annotations to be published.
PauseFairness ==
    /\ WF_pauseVars(MainGoroutine \/ AnnounceIP \/ InitId \/ InitCode)
    /\ \A c \in MainContainers : WF_pauseVars(Goroutine(c) \/ Id(c) \/ Code(c))
    /\ WF_pauseVars(HandlerTakes \/ HandlerCancels)

PauseSpec == PauseInit /\ [][PauseNext]_pauseVars /\ PauseFairness

-----------------------------------------------------------------------------
(* Properties. *)

\* When pause returns because its containers have terminated, the exit code
\* of every container is on disk, unless its goroutine gave up on an I/O
\* error (main.go:150 "Ensure completion of bookkeeping").
ExitRecorded ==
    main = "exit" =>
        \A c \in MainContainers :
            gor[c] = "aborted" \/ (child[c] \in ExitCodes /\ exitCode[c] = child[c])

\* No container is marked started, or runs, before every init container
\* ahead of it has ended successfully and has its code on disk.
InitThenMain ==
    \A i \in InitContainers, c \in Containers :
        i < c /\ (jobid[c] # "absent" \/ child[c] # "none") => exitCode[i] = "zero"

\* An exit code on disk is the code of the process, and the .jobid file the
\* status code falls back to was complete before it.
CodesTruthful ==
    \A c \in Containers :
        exitCode[c] # "absent" =>
            /\ jobid[c] = "written"
            /\ exitCode[c] \in {"empty", child[c]}

FileRank(f) == IF f = "absent" THEN 0 ELSE IF f = "empty" THEN 1 ELSE 2

\* What happens to one file in one step: nothing, or it grows.
Grows(f, g) == f = g \/ FileRank(f) < FileRank(g)

\* A control file, once it has content, keeps it: no step truncates or
\* rewrites a file, whatever fails.
FilesOnlyGrow ==
    [][/\ Grows(ip, ip')
       /\ \A c \in Containers :
            Grows(jobid[c], jobid'[c]) /\ Grows(exitCode[c], exitCode'[c])]_pauseVars

\* If all containers end for good, a signal pause has received, SIGTERM or
\* SIGCHLD, ends it.
SignalEndsPause ==
    <>[](\A c \in Containers : child[c] # "running") => (sigs # "none" ~> ~Alive)
=============================================================================
