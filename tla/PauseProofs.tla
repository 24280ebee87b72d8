---------------------------- MODULE PauseProofs ----------------------------
(***************************************************************************)
(* Proofs about module Pause: type correctness, ExitRecorded, InitThenMain,*)
(* CodesTruthful and FilesOnlyGrow, for any number of containers and any   *)
(* set of faults.                                                          *)
(*                                                                         *)
(* None of the invariants is inductive: each depends on which files a      *)
(* position of the main goroutine, or of a container's goroutine, has left *)
(* behind.  PauseInd adds that.                                            *)
(***************************************************************************)
EXTENDS Pause, TLAPS

PreSteps == {"acquire", "get", "dns", "announce", "announceWrite"}

Untouched(c) == jobid[c] = "absent" /\ child[c] = "none" /\ exitCode[c] = "absent"
InitDone(c)  == jobid[c] = "written" /\ child[c] = "zero" /\ exitCode[c] = "zero"

\* What the init container the loop is at has left behind.
AtInit ==
    /\ main = "initId" => Untouched(cur)
    /\ main = "initIdWrite" =>
          jobid[cur] = "empty" /\ child[cur] = "none" /\ exitCode[cur] = "absent"
    /\ main = "initStart" =>
          jobid[cur] = "written" /\ child[cur] = "none" /\ exitCode[cur] = "absent"
    /\ main = "initWait" => jobid[cur] = "written" /\ exitCode[cur] = "absent"
    /\ main = "initCode" =>
          jobid[cur] = "written" /\ child[cur] = "zero" /\ exitCode[cur] = "absent"
    /\ main = "initCodeWrite" =>
          jobid[cur] = "written" /\ child[cur] = "zero" /\ exitCode[cur] = "empty"

\* The main goroutine.
MainInv ==
    /\ main \in PreSteps =>
          /\ cur = 1
          /\ \A c \in Containers : Untouched(c)
          /\ ip = IF main = "announceWrite" THEN "empty" ELSE "absent"
    /\ main \in InitSteps =>
          /\ cur \in InitContainers
          /\ \A c \in Containers : c < cur => InitDone(c)
          /\ \A c \in Containers : c > cur => Untouched(c)
    /\ AtInit
    /\ main \in PreSteps \cup InitSteps => \A c \in MainContainers : gor[c] = "none"
    /\ main \in {"spawn", "notify", "wait"} => \A c \in InitContainers : InitDone(c)
    /\ main = "spawn" =>
          /\ cur \in MainContainers
          /\ \A c \in MainContainers : gor[c] = "none" <=> c >= cur
    /\ main \in {"notify", "wait"} \/ handler # "off" => \A c \in MainContainers : gor[c] # "none"
    /\ main = "exit" => \A c \in MainContainers : gor[c] \in {"done", "aborted"}

\* The goroutine of a main container.
GorInv(c) ==
    /\ gor[c] # "none" => \A i \in InitContainers : InitDone(i)
    /\ gor[c] \in {"none", "start"} => Untouched(c)
    /\ gor[c] = "id" => jobid[c] = "absent" /\ exitCode[c] = "absent"
    /\ gor[c] = "idWrite" => jobid[c] = "empty" /\ exitCode[c] = "absent"
    /\ gor[c] = "wait" => jobid[c] = "written" /\ exitCode[c] = "absent"
    /\ gor[c] \in {"code", "codeWrite", "done"} => jobid[c] = "written" /\ child[c] \in ExitCodes
    /\ gor[c] = "code" => exitCode[c] = "absent"
    /\ gor[c] = "codeWrite" => exitCode[c] = "empty"
    /\ gor[c] = "done" => exitCode[c] = child[c]

\* CodesTruthful, and a process that has a code on disk has ended.
CodeInv(c) ==
    exitCode[c] # "absent" =>
        /\ jobid[c] = "written"
        /\ child[c] \in ExitCodes
        /\ exitCode[c] \in {"empty", child[c]}

\* The code of an init container is saved only when it is zero.
InitCodesZero == \A i \in InitContainers : exitCode[i] # "nonzero"

\* The inductive invariant.
PauseInd ==
    /\ PauseTypeOK
    /\ MainInv
    /\ \A c \in MainContainers : GorInv(c)
    /\ \A c \in Containers : CodeInv(c)
    /\ InitThenMain
    /\ InitCodesZero

-----------------------------------------------------------------------------
(* The proofs. *)

\* In the initial state the inductive invariant holds.
LEMMA PauseInit_Ind == PauseInit => PauseInd
<1> SUFFICES ASSUME PauseInit PROVE PauseInd
  OBVIOUS
<1> USE ContainersAssumption DEF PauseInit, InitContainers, MainContainers, Containers
<1>1. PauseTypeOK
  <2>1. annotated \in BOOLEAN /\ seen \in BOOLEAN /\ notify \in BOOLEAN
    BY Zenon
  <2>2. cur \in 1 .. (NInit + NMain + 1)
    OBVIOUS
  <2>3. /\ gor \in [MainContainers -> GorSteps]
        /\ child \in [Containers -> {"none", "running"} \cup ExitCodes]
        /\ jobid \in [Containers -> TextFile]
        /\ exitCode \in [Containers -> CodeFile]
    BY DEF GorSteps, TextFile, CodeFile
  <2> QED
    BY <2>1, <2>2, <2>3 DEF PauseTypeOK, MainSteps, TextFile
<1>2. MainInv
  BY DEF MainInv, AtInit, Untouched, PreSteps, InitSteps
<1>3. ASSUME NEW c \in MainContainers PROVE GorInv(c)
  BY DEF GorInv, Untouched
<1>4. (\A c \in Containers : CodeInv(c)) /\ InitThenMain /\ InitCodesZero
  BY DEF CodeInv, InitThenMain, InitCodesZero
<1> QED
  BY <1>1, <1>2, <1>3, <1>4 DEF PauseInd

\* Every step of the pause process preserves the inductive invariant.
LEMMA PauseNext_Ind == PauseInd /\ PauseNext => PauseInd'
<1> SUFFICES ASSUME PauseInd, PauseNext PROVE PauseInd'
  OBVIOUS
<1> USE ContainersAssumption
    DEF PauseInd, PauseTypeOK, MainInv, AtInit, GorInv, CodeInv, InitThenMain,
        InitCodesZero, Untouched, InitDone, PreSteps, InitSteps, MainSteps, GorSteps, Ended,
        TextFile, CodeFile, ExitCodes,
        InitContainers, MainContainers, Containers, fileVars, sigVars, Alive
<1>1. CASE AcquirePod
  BY <1>1 DEF AcquirePod
<1>2. CASE AcquireTimeout
  BY <1>2 DEF AcquireTimeout
<1>3. CASE GetPodDetails
  BY <1>3 DEF GetPodDetails
<1>4. CASE GetPodDetailsFails
  BY <1>4 DEF GetPodDetailsFails
<1>5. CASE PrepareDNS
  BY <1>5 DEF PrepareDNS
<1>6. CASE AnnounceIP
  BY <1>6 DEF AnnounceIP
<1>7. CASE AnnounceIPNoDir
  BY <1>7 DEF AnnounceIPNoDir
<1>8. CASE AnnounceIPWrite
  BY <1>8 DEF AnnounceIPWrite, AfterInit
<1>9. CASE PrepareFails
  BY <1>9 DEF PrepareFails
<1>10. CASE InitId
  BY <1>10 DEF InitId
<1>11. CASE InitIdWrite
  BY <1>11 DEF InitIdWrite
<1>12. CASE InitStart
  BY <1>12 DEF InitStart
<1>13. CASE InitReaped
  BY <1>13 DEF InitReaped
<1>14. CASE InitCode
  BY <1>14 DEF InitCode
<1>15. CASE InitCodeWrite
  BY <1>15 DEF InitCodeWrite, AfterInit
<1>16. CASE InitFails
  BY <1>16 DEF InitFails
<1>17. CASE Spawn
  BY <1>17 DEF Spawn
<1>18. CASE SpawnFails
  BY <1>18 DEF SpawnFails
<1>19. CASE SignalNotify
  BY <1>19 DEF SignalNotify
<1>20. CASE SigTerm
  BY <1>20 DEF SigTerm, Deliver
<1>21. CASE SigKill
  BY <1>21 DEF SigKill
<1>22. CASE HandlerTakes
  BY <1>22 DEF HandlerTakes
<1>23. CASE HandlerCancels
  BY <1>23 DEF HandlerCancels, WgZero
<1>24. CASE PublishAnnotations
  BY <1>24 DEF PublishAnnotations
<1>25. ASSUME NEW c \in MainContainers, Start(c) PROVE PauseInd'
  BY <1>25 DEF Start
<1>26. ASSUME NEW c \in MainContainers, StartFails(c) PROVE PauseInd'
  BY <1>26 DEF StartFails
<1>27. ASSUME NEW c \in MainContainers, Id(c) PROVE PauseInd'
  BY <1>27 DEF Id
<1>28. ASSUME NEW c \in MainContainers, IdWrite(c) PROVE PauseInd'
  BY <1>28 DEF IdWrite
<1>29. ASSUME NEW c \in MainContainers, Reaped(c) PROVE PauseInd'
  BY <1>29 DEF Reaped
<1>30. ASSUME NEW c \in MainContainers, Code(c) PROVE PauseInd'
  BY <1>30 DEF Code
<1>31. ASSUME NEW c \in MainContainers, CodeWrite(c) PROVE PauseInd'
  BY <1>31 DEF CodeWrite
<1>32. ASSUME NEW c \in MainContainers, GoroutineFails(c) PROVE PauseInd'
  BY <1>32 DEF GoroutineFails
<1>33. ASSUME NEW c \in Containers, NEW code \in ExitCodes, ChildExits(c, code)
      PROVE PauseInd'
  BY <1>33 DEF ChildExits, Deliver
<1> HIDE DEF PauseInd, PauseTypeOK, MainInv, AtInit, GorInv, CodeInv, InitThenMain,
      InitCodesZero, Untouched,
        InitDone, PreSteps, InitSteps, MainSteps, GorSteps, Ended, TextFile, CodeFile, ExitCodes,
        InitContainers, MainContainers, Containers, fileVars, sigVars, Alive
<1> QED
  BY <1>1, <1>2, <1>3, <1>4, <1>5, <1>6, <1>7, <1>8, <1>9, <1>10, <1>11, <1>12, <1>13, <1>14,
      <1>15, <1>16, <1>17, <1>18, <1>19, <1>20, <1>21, <1>22, <1>23, <1>24, <1>25, <1>26,
      <1>27, <1>28, <1>29, <1>30, <1>31, <1>32, <1>33
  DEF PauseNext, CreateFile, OtherStep, MainGoroutine, Goroutine, Environment

\* So does a step that leaves the process alone.
LEMMA PauseStutter_Ind == PauseInd /\ UNCHANGED pauseVars => PauseInd'
BY DEF PauseInd, PauseTypeOK, MainInv, AtInit, GorInv, CodeInv, InitThenMain, InitCodesZero,
       Untouched, InitDone, pauseVars

\* The inductive invariant holds in every reachable state.
THEOREM PauseSpec_Ind == PauseSpec => []PauseInd
BY PauseInit_Ind, PauseNext_Ind, PauseStutter_Ind, PTL DEF PauseSpec

\* Type correctness.
THEOREM PauseSpec_TypeOK == PauseSpec => []PauseTypeOK
<1>1. PauseInd => PauseTypeOK
  BY DEF PauseInd
<1> QED
  BY <1>1, PauseSpec_Ind, PTL

\* When pause returns, every exit code is on disk (main.go, wg.Wait before
\* cancel), however many containers there are and in whichever order they end.
THEOREM PauseSpec_ExitRecorded == PauseSpec => []ExitRecorded
<1>1. PauseInd => ExitRecorded
  BY DEF PauseInd, MainInv, GorInv, ExitRecorded
<1> QED
  BY <1>1, PauseSpec_Ind, PTL

\* No container starts before the init containers ahead of it have succeeded
\* (main.go, handleInitContainers).
THEOREM PauseSpec_InitThenMain == PauseSpec => []InitThenMain
<1>1. PauseInd => InitThenMain
  BY DEF PauseInd
<1> QED
  BY <1>1, PauseSpec_Ind, PTL

\* A code on disk is the code of the process, and the .jobid file was complete
\* before it.
THEOREM PauseSpec_CodesTruthful == PauseSpec => []CodesTruthful
<1>1. PauseInd => CodesTruthful
  BY DEF PauseInd, CodeInv, CodesTruthful
<1> QED
  BY <1>1, PauseSpec_Ind, PTL

\* What one step may do to the control files.
FilesGrow ==
    /\ Grows(ip, ip')
    /\ \A c \in Containers : Grows(jobid[c], jobid'[c]) /\ Grows(exitCode[c], exitCode'[c])

\* A step that leaves the control files alone lets them grow.
LEMMA FilesUnchanged == ASSUME UNCHANGED fileVars PROVE FilesGrow
BY DEF FilesGrow, Grows, fileVars

\* Every step of the process only lets the control files grow.
LEMMA PauseNext_FilesGrow == PauseInd /\ PauseNext => FilesGrow
<1> SUFFICES ASSUME PauseInd, PauseNext PROVE FilesGrow
  OBVIOUS
<1>1. CASE AnnounceIP
  BY <1>1
  DEF AnnounceIP, FilesGrow, Grows, FileRank, PauseInd, PauseTypeOK, MainInv, PreSteps,
      TextFile
<1>2. CASE AnnounceIPWrite
  BY <1>2
  DEF AnnounceIPWrite, FilesGrow, Grows, FileRank, PauseInd, PauseTypeOK, MainInv, PreSteps,
      TextFile
<1>3. CASE InitId
  BY <1>3, ContainersAssumption
  DEF InitId, FilesGrow, Grows, FileRank, PauseInd, PauseTypeOK, MainInv, AtInit, InitSteps,
      PreSteps, Untouched, TextFile, CodeFile, ExitCodes, Containers, InitContainers
<1>4. CASE InitIdWrite
  BY <1>4, ContainersAssumption
  DEF InitIdWrite, FilesGrow, Grows, FileRank, PauseInd, PauseTypeOK, MainInv, AtInit, InitSteps,
      PreSteps, Untouched, TextFile, CodeFile, ExitCodes, Containers, InitContainers
<1>5. CASE InitCode
  BY <1>5, ContainersAssumption
  DEF InitCode, FilesGrow, Grows, FileRank, PauseInd, PauseTypeOK, MainInv, AtInit, InitSteps,
      PreSteps, Untouched, TextFile, CodeFile, ExitCodes, Containers, InitContainers
<1>6. CASE InitCodeWrite
  BY <1>6, ContainersAssumption
  DEF InitCodeWrite, FilesGrow, Grows, FileRank, PauseInd, PauseTypeOK, MainInv, AtInit, InitSteps,
      PreSteps, Untouched, TextFile, CodeFile, ExitCodes, Containers, InitContainers
<1>7. ASSUME NEW c \in MainContainers, Id(c) PROVE FilesGrow
  BY <1>7, ContainersAssumption
  DEF Id, FilesGrow, Grows, FileRank, PauseInd, PauseTypeOK, GorInv, TextFile, CodeFile,
      ExitCodes, Containers, MainContainers
<1>8. ASSUME NEW c \in MainContainers, IdWrite(c) PROVE FilesGrow
  BY <1>8, ContainersAssumption
  DEF IdWrite, FilesGrow, Grows, FileRank, PauseInd, PauseTypeOK, GorInv, TextFile, CodeFile,
      ExitCodes, Containers, MainContainers
<1>9. ASSUME NEW c \in MainContainers, Code(c) PROVE FilesGrow
  BY <1>9, ContainersAssumption
  DEF Code, FilesGrow, Grows, FileRank, PauseInd, PauseTypeOK, GorInv, TextFile, CodeFile,
      ExitCodes, Containers, MainContainers
<1>10. ASSUME NEW c \in MainContainers, CodeWrite(c) PROVE FilesGrow
  BY <1>10, ContainersAssumption
  DEF CodeWrite, FilesGrow, Grows, FileRank, PauseInd, PauseTypeOK, GorInv, TextFile, CodeFile,
      ExitCodes, Containers, MainContainers
<1>11. CASE AcquirePod \/ AcquireTimeout \/ GetPodDetails \/ GetPodDetailsFails \/ PrepareDNS
      \/ AnnounceIPNoDir \/ PrepareFails \/ InitStart \/ InitReaped \/ InitFails \/ Spawn \/
      SpawnFails \/ SignalNotify \/ SigTerm \/ SigKill \/ HandlerTakes \/ HandlerCancels \/
      PublishAnnotations
  BY <1>11, FilesUnchanged DEF fileVars, AcquirePod, AcquireTimeout, GetPodDetails,
      GetPodDetailsFails, PrepareDNS, AnnounceIPNoDir, PrepareFails, InitStart, InitReaped,
      InitFails, Spawn, SpawnFails, SignalNotify, SigTerm, SigKill, HandlerTakes,
      HandlerCancels, PublishAnnotations
<1>12. ASSUME NEW c \in MainContainers, Start(c) \/ StartFails(c) \/ Reaped(c) \/
      GoroutineFails(c) PROVE FilesGrow
  BY <1>12, FilesUnchanged DEF fileVars, Start, StartFails, Reaped, GoroutineFails
<1>13. ASSUME NEW c \in Containers, NEW code \in ExitCodes, ChildExits(c, code) PROVE FilesGrow
  BY <1>13, FilesUnchanged DEF fileVars, ChildExits
<1> QED
  BY <1>1, <1>2, <1>3, <1>4, <1>5, <1>6, <1>7, <1>8, <1>9, <1>10, <1>11, <1>12, <1>13
  DEF PauseNext, CreateFile, OtherStep, MainGoroutine, Goroutine, Environment

\* No step truncates or rewrites a control file that has content.
THEOREM PauseSpec_FilesOnlyGrow == PauseSpec => FilesOnlyGrow
<1>1. PauseInd /\ [PauseNext]_pauseVars => [FilesGrow]_pauseVars
  BY PauseNext_FilesGrow
<1> QED
  BY <1>1, PauseSpec_Ind, PTL DEF PauseSpec, FilesOnlyGrow, FilesGrow

\* What a step that creates no file may do to one: fill it.
Fills(f, g) == f = g \/ f = "empty"

\* A step that creates no file only fills files that were created before.
LEMMA OtherStep_Fills ==
    ASSUME PauseInd, OtherStep
    PROVE  /\ Fills(ip, ip')
           /\ \A c \in Containers : Fills(jobid[c], jobid'[c]) /\ Fills(exitCode[c], exitCode'[c])
<1> DEFINE Goal == /\ Fills(ip, ip')
                   /\ \A c \in Containers :
                        Fills(jobid[c], jobid'[c]) /\ Fills(exitCode[c], exitCode'[c])
<1> SUFFICES Goal
  OBVIOUS
<1>1. UNCHANGED fileVars => Goal
  BY DEF Fills, fileVars
<1>2. CASE AnnounceIPWrite
  BY <1>2 DEF AnnounceIPWrite, Fills, PauseInd, MainInv, PreSteps
<1>3. CASE InitIdWrite
  BY <1>3 DEF InitIdWrite, Fills, PauseInd, PauseTypeOK, MainInv, AtInit
<1>4. CASE InitCodeWrite
  BY <1>4 DEF InitCodeWrite, Fills, PauseInd, PauseTypeOK, MainInv, AtInit
<1>5. ASSUME NEW c \in MainContainers, IdWrite(c) PROVE Goal
  BY <1>5 DEF IdWrite, Fills, PauseInd, PauseTypeOK, GorInv
<1>6. ASSUME NEW c \in MainContainers, CodeWrite(c) PROVE Goal
  BY <1>6 DEF CodeWrite, Fills, PauseInd, PauseTypeOK, GorInv
<1>7. CASE AcquirePod \/ AcquireTimeout \/ GetPodDetails \/ GetPodDetailsFails \/ PrepareDNS
           \/ AnnounceIPNoDir \/ PrepareFails \/ InitStart \/ InitReaped \/ InitFails \/ Spawn
           \/ SpawnFails \/ SignalNotify \/ SigTerm \/ SigKill \/ HandlerTakes \/ HandlerCancels
  BY <1>1, <1>7 DEF fileVars, AcquirePod, AcquireTimeout, GetPodDetails,
     GetPodDetailsFails, PrepareDNS, AnnounceIPNoDir, PrepareFails, InitStart, InitReaped,
     InitFails, Spawn, SpawnFails, SignalNotify, SigTerm, SigKill, HandlerTakes, HandlerCancels
<1>8. ASSUME NEW c \in MainContainers,
             Start(c) \/ StartFails(c) \/ Reaped(c) \/ GoroutineFails(c)
      PROVE  Goal
  BY <1>1, <1>8 DEF fileVars, Start, StartFails, Reaped, GoroutineFails
<1>9. ASSUME NEW c \in Containers, NEW code \in ExitCodes, ChildExits(c, code) PROVE Goal
  BY <1>1, <1>9 DEF fileVars, ChildExits
<1> HIDE DEF Goal
<1> QED
  BY <1>2, <1>3, <1>4, <1>5, <1>6, <1>7, <1>8, <1>9
  DEF OtherStep, MainGoroutine, Goroutine, Environment
=============================================================================
