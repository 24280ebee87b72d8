------------------------- MODULE AtomicWriterProofs -------------------------
(***************************************************************************)
(* AtomicWriter implements AtomicVolume, for any number of Writes, names,   *)
(* contents and failures, and so does every system that takes only its      *)
(* steps (VolumesProofs).                                                  *)
(*                                                                         *)
(* ..data_tmp is a lock: it leads to the Write that is about to rename it   *)
(* (TmpIsLock).  ..data leads to the complete directory of a Write that has *)
(* renamed (DataComplete), and no Write that has renamed still has that     *)
(* directory for its old one (OldIsPast), so that step 11 cannot remove it. *)
(* While no Write has failed or overlapped another, the directories and the *)
(* links are known at each step of the one that runs (Sequential).         *)
(***************************************************************************)
EXTENDS AtomicWriter, TLAPS

\* Step 9 links a name that it has found without a link.
LinknameOK == \A i \in Writers : wpc[i] = "link" => linkname[i] \in Names

Typed == WriterTypeOK /\ LinknameOK

TmpIsLock ==
    /\ tmp # 0 => wpc[tmp] = "rename"
    /\ \A i \in Writers : wpc[i] = "rename" => tmp = i

OwnComplete ==
    \A i \in Writers :
        /\ wpc[i] \in {"files", "symlink", "rename"} => i \in dirs
        /\ wpc[i] \in {"symlink", "rename"} => files[i] = payload[i]

DataComplete == data # 0 => wpc[data] \in After /\ data \in dirs /\ files[data] = payload[data]

OldIsPast ==
    \A i \in Writers :
        /\ oldTs[i] # 0 => wpc[oldTs[i]] \in After
        /\ wpc[i] \in {"check", "link", "prune", "clean"} => oldTs[i] = 0 \/ oldTs[i] # data

WriterInv == Typed /\ TmpIsLock /\ OwnComplete /\ DataComplete /\ OldIsPast

\* Facts about the steps that every case below uses.
LEMMA Steps == /\ Before \cap After = {} /\ "idle" \notin Before /\ "idle" \notin After
               /\ Before \subseteq Running
  BY DEF Before, After, Running

LEMMA PayloadTypes == /\ Empty \in Payloads
                      /\ \A p \in Payloads, n \in Names, v \in 0 .. MaxContent : [p EXCEPT ![n] = v] \in Payloads
                      /\ \A p \in Payloads : NamesOf(p) \subseteq Names
  BY WriterAssumption DEF Payloads, Empty, NamesOf

LEMMA InitInv == WriterInit => WriterInv
<1> SUFFICES ASSUME WriterInit PROVE WriterInv
  OBVIOUS
<1>1. Typed
  <2>0. Empty \in Payloads /\ 0 \in 0 .. MaxWrites /\ 0 \in 0 .. MaxErrors
    BY WriterAssumption, PayloadTypes
  <2>1. WriterTypeOK
    BY <2>0 DEF WriterInit, WriterTypeOK
  <2>2. LinknameOK
    BY DEF WriterInit, LinknameOK
  <2> QED
    BY <2>1, <2>2 DEF Typed
<1>2. TmpIsLock /\ OwnComplete /\ DataComplete /\ OldIsPast
  BY DEF WriterInit, TmpIsLock, OwnComplete, DataComplete, OldIsPast, Writers
<1> QED
  BY <1>1, <1>2 DEF WriterInv

LEMMA TypeStep == Typed /\ [WriterNext]_writerVars => Typed'
<1> SUFFICES ASSUME Typed, [WriterNext]_writerVars PROVE Typed'
  OBVIOUS
<1> USE DEF Typed, WriterTypeOK, LinknameOK
<1>2. CASE UNCHANGED writerVars
  BY <1>2 DEF writerVars, callVars, diskVars, auxVars
<1> SUFFICES ASSUME NEW i \in Writers, WriteStep(i) \/ Fail(i) \/ \E p \in Payloads : Write(i, p)
             PROVE  Typed'
  BY <1>2 DEF WriterNext
<1>0. i \in 0 .. MaxWrites /\ Empty \in Payloads
  BY PayloadTypes, WriterAssumption DEF Writers
<1>1. \A s, t \in {"idle"} \cup Before \cup After :
         Step(i, s, t) => wpc' \in [Writers -> {"idle"} \cup Before \cup After]
  BY DEF Step
<1>3. CASE Readlink(i)
  BY PayloadTypes, WriterAssumption, <1>0, <1>3
  DEF Readlink, Step, Writers, callVars, diskVars, auxVars, Before, After
<1>4. CASE PathsToRemove(i)
  BY PayloadTypes, WriterAssumption, <1>0, <1>4
  DEF PathsToRemove, OldFiles, Step, Writers, callVars, diskVars, auxVars, Before, After
<1>5. CASE Compare(i)
  BY PayloadTypes, WriterAssumption, <1>0, <1>5
  DEF Compare, Step, Writers, callVars, diskVars, auxVars, Before, After
<1>6. CASE NewTimestampDir(i)
  BY PayloadTypes, WriterAssumption, <1>0, <1>6
  DEF NewTimestampDir, Step, Writers, callVars, diskVars, auxVars, Before, After
<1>7. CASE \E n \in Names : WriteFile(i, n)
  <2>1. PICK n \in Names : WriteFile(i, n)
    BY <1>7
  <2>2. [files[i] EXCEPT ![n] = payload[i][n]] \in Payloads
    BY PayloadTypes DEF Payloads
  <2>3. files' \in [Writers -> Payloads]
    BY <2>1, <2>2 DEF WriteFile
  <2> QED
    BY <2>1, <2>3 DEF WriteFile, callVars, auxVars
<1>8. CASE PayloadWritten(i)
  BY PayloadTypes, WriterAssumption, <1>0, <1>8
  DEF PayloadWritten, Step, Writers, callVars, diskVars, auxVars, Before, After
<1>9. CASE SymlinkTmp(i)
  <2>1. CASE Step(i, "symlink", "rename") /\ tmp' = i /\ UNCHANGED <<callVars, dirs, files, data, links, auxVars>>
    BY <1>0, <2>1 DEF Step, callVars, auxVars, Before, After
  <2>2. CASE Step(i, "symlink", "error") /\ RemoveOwnDir(i) /\ UNCHANGED <<callVars, data, tmp, links, auxVars>>
    BY <1>0, <2>2 DEF RemoveOwnDir, Step, callVars, auxVars, Before, After
  <2> QED
    BY <1>9, <2>1, <2>2 DEF SymlinkTmp
<1>10. CASE Rename(i)
  BY PayloadTypes, WriterAssumption, <1>0, <1>10
  DEF Rename, Step, Writers, callVars, diskVars, auxVars, Before, After
<1>11. CASE ReadlinkName(i)
  <2>0. UNCHANGED <<payload, oldTs, toRemove, lasterr, dirs, files, data, tmp, links, errors, overlap>>
    BY <1>11 DEF ReadlinkName, diskVars, auxVars
  <2>1. CASE \E n \in toLink[i] \cap links :
            /\ Step(i, "check", "check")
            /\ toLink' = [toLink EXCEPT ![i] = @ \ {n}] /\ UNCHANGED linkname
    BY <2>0, <2>1 DEF Step
  <2>2. CASE \E n \in toLink[i] \ links :
            /\ Step(i, "check", "link")
            /\ linkname' = [linkname EXCEPT ![i] = n] /\ UNCHANGED toLink
    BY <2>0, <2>2 DEF Step, After
  <2>3. CASE toLink[i] = {} /\ Step(i, "check", "prune") /\ UNCHANGED <<toLink, linkname>>
    BY <2>0, <2>3 DEF Step, After
  <2> QED
    BY <1>11, <2>1, <2>2, <2>3 DEF ReadlinkName
<1>12. CASE SymlinkName(i)
  <2>1. linkname[i] \in Names
    BY <1>12 DEF SymlinkName, Step
  <2> QED
    BY <1>12, <2>1 DEF SymlinkName, Step, auxVars, After
<1>13. CASE \E n \in Names : RemoveUserVisiblePath(i, n)
  BY PayloadTypes, WriterAssumption, <1>0, <1>13
  DEF RemoveUserVisiblePath, Step, Writers, callVars, diskVars, auxVars, Before, After
<1>14. CASE Pruned(i)
  BY PayloadTypes, WriterAssumption, <1>0, <1>14
  DEF Pruned, Step, Writers, callVars, diskVars, auxVars, Before, After
<1>15. CASE RemoveOldDir(i)
  BY PayloadTypes, WriterAssumption, <1>0, <1>15
  DEF RemoveOldDir, Step, Writers, callVars, diskVars, auxVars, Before, After
<1>16. CASE Fail(i)
  <2>0. errors' \in 0 .. MaxErrors /\ UNCHANGED <<payload, oldTs, data, links, overlap>>
    BY <1>16, WriterAssumption DEF Fail
  <2>1. CASE /\ \E s \in {"readlink", "compare", "mkdir", "files", "link"} : Step(i, s, "error")
             /\ UNCHANGED <<toRemove, toLink, linkname, lasterr, dirs, files, tmp>>
    BY <2>0, <2>1 DEF Step, After
  <2>2. CASE /\ Step(i, "mkdir", "error") /\ dirs' = dirs \cup {i}
             /\ UNCHANGED <<toRemove, toLink, linkname, lasterr, files, tmp>>
    BY <2>0, <2>2 DEF Step, After
  <2>3. CASE /\ Step(i, "symlink", "error") /\ RemoveOwnDir(i)
             /\ UNCHANGED <<toRemove, toLink, linkname, lasterr, tmp>>
    BY <1>0, <2>0, <2>3 DEF RemoveOwnDir, Step, After
  <2>4. CASE /\ Step(i, "rename", "error") /\ RemoveOwnDir(i) /\ tmp' = 0
             /\ UNCHANGED <<toRemove, toLink, linkname, lasterr>>
    BY <1>0, <2>0, <2>4, WriterAssumption DEF RemoveOwnDir, Step, After
  <2>5. CASE /\ wpc[i] = "check"
             /\ \E n \in toLink[i] : toLink' = [toLink EXCEPT ![i] = @ \ {n}]
             /\ UNCHANGED <<wpc, toRemove, linkname, lasterr, dirs, files, tmp>>
    BY <2>0, <2>5
  <2>6. CASE /\ wpc[i] = "prune"
             /\ \E n \in toRemove[i] : toRemove' = [toRemove EXCEPT ![i] = @ \ {n}]
             /\ lasterr' = [lasterr EXCEPT ![i] = TRUE]
             /\ UNCHANGED <<wpc, toLink, linkname, dirs, files, tmp>>
    BY <2>0, <2>6
  <2>7. CASE /\ Step(i, "clean", "error") /\ oldTs[i] \in dirs
             /\ \E kept \in SUBSET Names :
                   files' = [files EXCEPT ![oldTs[i]] = [n \in Names |-> IF n \in kept THEN @[n] ELSE 0]]
             /\ UNCHANGED <<toRemove, toLink, linkname, lasterr, dirs, tmp>>
    <3>1. PICK kept \in SUBSET Names :
             files' = [files EXCEPT ![oldTs[i]] = [n \in Names |-> IF n \in kept THEN files[oldTs[i]][n] ELSE 0]]
      BY <2>7
    <3>2. [n \in Names |-> IF n \in kept THEN files[oldTs[i]][n] ELSE 0] \in Payloads
      BY <2>7, WriterAssumption DEF Payloads
    <3>3. files' \in [Writers -> Payloads]
      BY <3>1, <3>2, <2>7
    <3> QED
      BY <2>0, <2>7, <3>3 DEF Step, After
  <2> QED
    BY <1>16, <2>1, <2>2, <2>3, <2>4, <2>5, <2>6, <2>7 DEF Fail
<1>17. CASE \E p \in Payloads : Write(i, p)
  BY PayloadTypes, WriterAssumption, <1>0, <1>17
  DEF Write, Step, Writers, callVars, diskVars, auxVars, Before, After
<1> QED
  BY <1>3, <1>4, <1>5, <1>6, <1>7, <1>8, <1>9, <1>10, <1>11, <1>12, <1>13, <1>14, <1>15, <1>16, <1>17 DEF WriteStep

LEMMA InvStep == WriterInv /\ [WriterNext]_writerVars => WriterInv'
<1> SUFFICES ASSUME WriterInv, [WriterNext]_writerVars PROVE WriterInv'
  OBVIOUS
<1> DEFINE Rest == TmpIsLock /\ OwnComplete /\ DataComplete /\ OldIsPast
<1>0. Typed'
  BY TypeStep DEF WriterInv
<1> SUFFICES Rest'
  BY <1>0 DEF WriterInv
<1>1. /\ wpc \in [Writers -> {"idle"} \cup Before \cup After] /\ payload \in [Writers -> Payloads]
      /\ files \in [Writers -> Payloads] /\ oldTs \in [Writers -> 0 .. MaxWrites]
      /\ dirs \subseteq Writers /\ 0 \notin Writers
      /\ \A d \in 0 .. MaxWrites : d = 0 \/ d \in Writers
      /\ data = 0 \/ data \in Writers
      /\ tmp = 0 \/ tmp \in Writers
      /\ \A j \in Writers : oldTs[j] = 0 \/ oldTs[j] \in Writers
  BY WriterAssumption DEF WriterInv, Typed, WriterTypeOK, Writers
<1> USE DEF TmpIsLock, OwnComplete, DataComplete, OldIsPast
<1>2. CASE UNCHANGED writerVars
  BY <1>2 DEF WriterInv, writerVars, callVars, diskVars, auxVars
<1> SUFFICES ASSUME NEW i \in Writers, WriteStep(i) \/ Fail(i) \/ \E p \in Payloads : Write(i, p)
             PROVE  Rest'
  BY <1>2 DEF WriterNext
<1>3. CASE Readlink(i)
  BY <1>1, <1>3 DEF Readlink, WriterInv, Step, callVars, diskVars, auxVars, Before, After
<1>4. CASE PathsToRemove(i)
  BY <1>1, <1>4 DEF PathsToRemove, WriterInv, Step, callVars, diskVars, auxVars, Before, After
<1>5. CASE Compare(i)
  BY <1>1, <1>5 DEF Compare, WriterInv, Step, callVars, diskVars, auxVars, Before, After
<1>6. CASE NewTimestampDir(i)
  BY <1>1, <1>6 DEF NewTimestampDir, WriterInv, Step, callVars, diskVars, auxVars, Before, After
<1>7. CASE \E n \in Names : WriteFile(i, n)
  BY <1>1, <1>7 DEF WriteFile, WriterInv, Step, callVars, diskVars, auxVars, Before, After
<1>8. CASE PayloadWritten(i)
  BY <1>1, <1>8 DEF PayloadWritten, WriterInv, Step, callVars, diskVars, auxVars, Before, After
<1>9. CASE SymlinkTmp(i)
  BY <1>1, <1>9 DEF SymlinkTmp, RemoveOwnDir, WriterInv, Step, callVars, diskVars, auxVars, Before, After
<1>10. CASE Rename(i)
  BY <1>1, <1>10 DEF Rename, WriterInv, Step, callVars, diskVars, auxVars, Before, After
<1>11. CASE ReadlinkName(i)
  BY <1>1, <1>11 DEF ReadlinkName, WriterInv, Step, callVars, diskVars, auxVars, Before, After
<1>12. CASE SymlinkName(i)
  BY <1>1, <1>12 DEF SymlinkName, WriterInv, Step, callVars, diskVars, auxVars, Before, After
<1>13. CASE \E n \in Names : RemoveUserVisiblePath(i, n)
  BY <1>1, <1>13 DEF RemoveUserVisiblePath, WriterInv, Step, callVars, diskVars, auxVars, Before, After
<1>14. CASE Pruned(i)
  BY <1>1, <1>14 DEF Pruned, WriterInv, Step, callVars, diskVars, auxVars, Before, After
<1>15. CASE RemoveOldDir(i)
  BY <1>1, <1>15 DEF RemoveOldDir, WriterInv, Step, callVars, diskVars, auxVars, Before, After
<1>16. CASE Fail(i)
  BY <1>1, <1>16 DEF Fail, RemoveOwnDir, WriterInv, Step, callVars, diskVars, auxVars, Before, After
<1>17. CASE \E p \in Payloads : Write(i, p)
  BY <1>1, <1>17 DEF Write, WriterInv, Step, callVars, diskVars, auxVars, Before, After
<1> QED
  BY <1>3, <1>4, <1>5, <1>6, <1>7, <1>8, <1>9, <1>10, <1>11, <1>12, <1>13, <1>14, <1>15, <1>16, <1>17 DEF WriteStep

-----------------------------------------------------------------------------
(* What is true of the volume directory as long as no Write has failed or   *)
(* overlapped another: at every step of the one Write that runs, which      *)
(* directories and which links there are.                                  *)
LinksOf(d) == IF d = 0 THEN {} ELSE NamesOf(files[d])

\* A Write prunes no name of its own payload.
PrunesOthers ==
    \A i \in Writers :
        /\ toRemove[i] \cap NamesOf(payload[i]) = {}
        /\ wpc[i] = "idle" => toRemove[i] = {} /\ ~lasterr[i]

Clean == tmp = 0 /\ dirs = {data} \ {0} /\ links = LinksOf(data)

\* Up to the renaming, the links are those of the old directory.
StageBefore(i) ==
    /\ oldTs[i] = data \/ wpc[i] = "readlink"
    /\ toLink[i] = NamesOf(payload[i]) /\ links = LinksOf(data)
    /\ toRemove[i] = IF wpc[i] \in {"readlink", "walk"} THEN {} ELSE LinksOf(data) \ NamesOf(payload[i])
    /\ dirs = ({data} \ {0}) \cup (IF wpc[i] \in {"files", "symlink", "rename"} THEN {i} ELSE {})

\* Then the names of the payload are added one by one, and the others taken away.
StageAfter(i) ==
    /\ data = i /\ oldTs[i] # i /\ dirs = ({oldTs[i]} \ {0}) \cup {i}
    /\ wpc[i] \in {"check", "link"} =>
          /\ toLink[i] \subseteq NamesOf(payload[i])
          /\ toRemove[i] = LinksOf(oldTs[i]) \ NamesOf(payload[i])
          /\ links = LinksOf(oldTs[i]) \cup (NamesOf(payload[i]) \ toLink[i])
    /\ wpc[i] = "link" => linkname[i] \in toLink[i] \ links
    /\ wpc[i] \in {"prune", "clean"} => links = NamesOf(payload[i]) \cup toRemove[i]
    /\ wpc[i] = "clean" => toRemove[i] = {}

Stage(i) ==
    /\ ~lasterr[i] /\ (wpc[i] = "rename" \/ tmp = 0)
    /\ wpc[i] \in Before => StageBefore(i)
    /\ wpc[i] \notin Before => StageAfter(i)

Alone ==
    /\ \A i, j \in Writers : wpc[i] \in Running /\ wpc[j] \in Running => i = j
    /\ \A i \in Writers : wpc[i] \in Running => Stage(i)
    /\ (\A i \in Writers : wpc[i] \notin Running) => Clean

Sequential == PrunesOthers /\ (errors = 0 /\ ~overlap => Alone)

LEMMA InitSequential == WriterInit => Sequential
  BY DEF WriterInit, Sequential, PrunesOthers, Alone, Clean, LinksOf, Running

LEMMA PrunesOthersStep == WriterInv /\ PrunesOthers /\ [WriterNext]_writerVars => PrunesOthers'
<1> SUFFICES ASSUME WriterInv, PrunesOthers, [WriterNext]_writerVars PROVE PrunesOthers'
  OBVIOUS
<1>1. /\ wpc \in [Writers -> {"idle"} \cup Before \cup After] /\ payload \in [Writers -> Payloads]
      /\ toRemove \in [Writers -> SUBSET Names] /\ lasterr \in [Writers -> BOOLEAN]
  BY DEF WriterInv, Typed, WriterTypeOK
<1> USE DEF PrunesOthers
<1>2. CASE UNCHANGED <<wpc, payload, toRemove, lasterr>>
  BY <1>2
<1>3. ASSUME NEW i \in Writers, \E p \in Payloads : Write(i, p) PROVE PrunesOthers'
  BY <1>1, <1>3 DEF Write, Step
<1>4. ASSUME NEW i \in Writers, UNCHANGED <<payload, toRemove, lasterr>>, wpc[i] # "idle",
             NEW t \in Before \cup After, wpc' = [wpc EXCEPT ![i] = t]
      PROVE  PrunesOthers'
  BY <1>1, <1>4, Steps
<1>5. ASSUME NEW i \in Writers, Fail(i) PROVE PrunesOthers'
  <2>1. CASE /\ wpc[i] = "prune" /\ UNCHANGED <<wpc, payload>>
             /\ \E n \in toRemove[i] : toRemove' = [toRemove EXCEPT ![i] = @ \ {n}]
             /\ lasterr' = [lasterr EXCEPT ![i] = TRUE]
    BY <1>1, <2>1
  <2>2. CASE UNCHANGED <<payload, toRemove, lasterr>>
    BY <1>1, <1>5, <2>2 DEF Fail, Step, After
  <2> QED
    BY <1>5, <2>1, <2>2 DEF Fail
<1>6. ASSUME NEW i \in Writers, PathsToRemove(i) PROVE PrunesOthers'
  BY <1>1, <1>6 DEF PathsToRemove, Step
<1>7. ASSUME NEW i \in Writers, \E n \in Names : RemoveUserVisiblePath(i, n) PROVE PrunesOthers'
  BY <1>1, <1>7 DEF RemoveUserVisiblePath
<1>8. ASSUME NEW i \in Writers, Readlink(i) \/ Compare(i) \/ NewTimestampDir(i) \/ PayloadWritten(i)
             \/ Rename(i) \/ SymlinkName(i) \/ Pruned(i) \/ RemoveOldDir(i)
      PROVE  PrunesOthers'
  BY <1>1, <1>8 DEF Readlink, Compare, NewTimestampDir, PayloadWritten, Rename, SymlinkName, Pruned,
                    RemoveOldDir, Step, callVars, Before, After
<1>9. ASSUME NEW i \in Writers, SymlinkTmp(i) \/ ReadlinkName(i) PROVE PrunesOthers'
  BY <1>1, <1>9 DEF SymlinkTmp, ReadlinkName, Step, callVars, Before, After
<1>10. ASSUME NEW i \in Writers, \E n \in Names : WriteFile(i, n) PROVE PrunesOthers'
  BY <1>2, <1>10 DEF WriteFile, callVars
<1>11. CASE UNCHANGED writerVars
  BY <1>2, <1>11 DEF writerVars, callVars
<1> QED
  BY <1>3, <1>5, <1>6, <1>7, <1>8, <1>9, <1>10, <1>11 DEF WriterNext, WriteStep

LEMMA SequentialStep == WriterInv /\ Sequential /\ [WriterNext]_writerVars => Sequential'
<1> SUFFICES ASSUME WriterInv, Sequential, [WriterNext]_writerVars PROVE Sequential'
  OBVIOUS
<1>0. PrunesOthers' /\ PrunesOthers
  BY PrunesOthersStep DEF Sequential
<1> SUFFICES ASSUME errors' = 0, ~overlap' PROVE Alone'
  BY <1>0 DEF Sequential
<1>1. /\ wpc \in [Writers -> {"idle"} \cup Before \cup After] /\ payload \in [Writers -> Payloads]
      /\ files \in [Writers -> Payloads] /\ oldTs \in [Writers -> 0 .. MaxWrites]
      /\ toRemove \in [Writers -> SUBSET Names] /\ toLink \in [Writers -> SUBSET Names]
      /\ lasterr \in [Writers -> BOOLEAN] /\ linkname \in [Writers -> Names \cup {0}]
      /\ dirs \subseteq Writers /\ links \subseteq Names /\ 0 \notin Writers
      /\ data = 0 \/ data \in Writers
      /\ \A j \in Writers : oldTs[j] = 0 \/ oldTs[j] \in Writers
      /\ errors \in Nat /\ \A p \in Payloads : NamesOf(p) \subseteq Names
  BY WriterAssumption, PayloadTypes DEF WriterInv, Typed, WriterTypeOK, Writers
<1>2. CASE UNCHANGED writerVars
  BY <1>2 DEF Sequential, writerVars, callVars, diskVars, auxVars, Alone, Stage, StageBefore, StageAfter, Clean, LinksOf
<1> SUFFICES ASSUME NEW i \in Writers, WriteStep(i) \/ Fail(i) \/ \E p \in Payloads : Write(i, p)
             PROVE  Alone'
  BY <1>2 DEF WriterNext
<1>3. ~Fail(i)
  BY <1>1 DEF Fail
<1> DEFINE Moved == /\ \A j \in Writers \ {i} : wpc'[j] \notin Running
                    /\ wpc'[i] \in Running => Stage(i)'
                    /\ wpc'[i] \notin Running => Clean'
<1>4. SUFFICES Moved
  BY <1>1 DEF Alone
<1>5. CASE \E p \in Payloads : Write(i, p)
  <2>1. PICK p \in Payloads : Write(i, p)
    BY <1>5
  <2>2. errors = 0 /\ ~overlap /\ \A j \in Writers : wpc[j] \notin Running
    BY <2>1 DEF Write
  <2>3. Clean /\ wpc[i] = "idle" /\ wpc' = [wpc EXCEPT ![i] = "readlink"]
    BY <2>1, <2>2 DEF Write, Step, Sequential, Alone
  <2>4. \A j \in Writers \ {i} : wpc'[j] \notin Running
    BY <1>1, <2>2, <2>3
  <2>5. Stage(i)'
    <3>1. UNCHANGED <<toRemove, lasterr, dirs, files, data, tmp, links>> /\ toLink'[i] = NamesOf(p) /\ payload'[i] = p
      BY <1>1, <2>1 DEF Write, diskVars
    <3>2. wpc'[i] = "readlink" /\ toRemove[i] = {} /\ ~lasterr[i]
      BY <1>0, <1>1, <2>3 DEF PrunesOthers
    <3> QED
      BY <2>3, <3>1, <3>2 DEF Stage, StageBefore, Clean, LinksOf, Before
  <2> QED
    BY <1>1, <2>3, <2>4, <2>5 DEF Running
<1> SUFFICES ASSUME WriteStep(i) PROVE Moved
  BY <1>3, <1>5
<1>6. wpc[i] \in Running /\ UNCHANGED auxVars
  BY DEF WriteStep, Readlink, PathsToRemove, Compare, NewTimestampDir, WriteFile, PayloadWritten, SymlinkTmp,
         Rename, ReadlinkName, SymlinkName, RemoveUserVisiblePath, Pruned, RemoveOldDir, Step, Running
<1>7. Stage(i) /\ \A j \in Writers \ {i} : wpc[j] \notin Running
  BY <1>6 DEF auxVars, Sequential, Alone
<1>8. \A t : wpc' = [wpc EXCEPT ![i] = t] => wpc'[i] = t /\ \A j \in Writers \ {i} : wpc'[j] \notin Running
  BY <1>1, <1>7
<1>9. /\ data # 0 => data # i \/ wpc[i] \in After
      /\ data # 0 => files[data] = payload[data] /\ data \in dirs
      /\ wpc[i] \in {"symlink", "rename"} => files[i] = payload[i]
      /\ wpc[i] = "rename" => tmp = i
  BY DEF WriterInv, DataComplete, OwnComplete, TmpIsLock, Before, After
<1> USE DEF Stage, StageBefore, StageAfter, Clean, LinksOf
<1>10. CASE Readlink(i)
  BY <1>1, <1>7, <1>8, <1>9, <1>10 DEF Readlink, Step, diskVars, Before, Running, After
<1>11. CASE PathsToRemove(i)
  <2>1. wpc[i] = "walk" /\ wpc'[i] = "compare" /\ \A j \in Writers \ {i} : wpc'[j] \notin Running
    BY <1>8, <1>11 DEF PathsToRemove, Step
  <2>2. StageBefore(i) /\ ~lasterr[i] /\ tmp = 0
    BY <1>7, <2>1 DEF Before
  <2>3. NamesOf(OldFiles(i)) = LinksOf(data)
    BY <2>1, <2>2, <1>1, <1>9 DEF OldFiles, NamesOf, Empty
  <2>4. /\ toRemove'[i] = LinksOf(data) \ NamesOf(payload[i])
        /\ UNCHANGED <<payload, oldTs, toLink, lasterr, dirs, files, data, tmp, links>>
    BY <2>3, <1>1, <1>11 DEF PathsToRemove, diskVars
  <2>5. Stage(i)'
    BY <2>1, <2>2, <2>4 DEF Before
  <2> QED
    BY <2>1, <2>5 DEF Running
<1>12. CASE Compare(i)
  BY <1>1, <1>7, <1>8, <1>9, <1>12 DEF Compare, OldFiles, ShouldWritePayload, Step, callVars, diskVars, Before, Running, After
<1>13. CASE NewTimestampDir(i)
  BY <1>1, <1>7, <1>8, <1>9, <1>13 DEF NewTimestampDir, Step, callVars, Before, Running, After
<1>14. CASE \E n \in Names : WriteFile(i, n)
  BY <1>1, <1>7, <1>8, <1>9, <1>14 DEF WriteFile, Step, callVars, Before, Running, After
<1>15. CASE PayloadWritten(i)
  BY <1>1, <1>7, <1>8, <1>9, <1>15 DEF PayloadWritten, Step, callVars, diskVars, Before, Running, After
<1>16. CASE SymlinkTmp(i)
  BY <1>1, <1>7, <1>8, <1>9, <1>16 DEF SymlinkTmp, Step, callVars, Before, Running, After
<1>17. CASE Rename(i)
  BY <1>1, <1>7, <1>8, <1>9, <1>17 DEF Rename, Step, callVars, Before, Running, After
<1>18. CASE ReadlinkName(i)
  BY <1>1, <1>7, <1>8, <1>9, <1>18 DEF ReadlinkName, Step, diskVars, Before, Running, After
<1>19. CASE SymlinkName(i)
  BY <1>1, <1>7, <1>8, <1>9, <1>19 DEF SymlinkName, Step, Before, Running, After
<1>20. CASE \E n \in Names : RemoveUserVisiblePath(i, n)
  <2>1. PICK n \in Names : RemoveUserVisiblePath(i, n)
    BY <1>20
  <2>2. StageAfter(i) /\ wpc[i] = "prune" /\ ~lasterr[i] /\ tmp = 0 /\ wpc' = wpc
    BY <1>7, <2>1 DEF RemoveUserVisiblePath, Before
  <2>3. links = NamesOf(payload[i]) \cup toRemove[i] /\ n \in toRemove[i] /\ n \notin NamesOf(payload[i])
    BY <1>0, <2>1, <2>2 DEF RemoveUserVisiblePath, PrunesOthers
  <2>4. /\ lasterr'[i] = FALSE /\ links' = links \ {n} /\ toRemove'[i] = toRemove[i] \ {n}
        /\ UNCHANGED <<payload, oldTs, dirs, data, tmp>>
    BY <1>1, <2>1, <2>2, <2>3 DEF RemoveUserVisiblePath
  <2>5. links' = NamesOf(payload[i]) \cup toRemove'[i]
    BY <2>3, <2>4
  <2>6. Stage(i)'
    BY <2>2, <2>4, <2>5 DEF Before
  <2> QED
    BY <1>7, <2>2, <2>6 DEF Running
<1>21. CASE Pruned(i)
  BY <1>1, <1>7, <1>8, <1>9, <1>21 DEF Pruned, Step, callVars, diskVars, Before, Running, After
<1>22. CASE RemoveOldDir(i)
  <2>1. wpc[i] = "clean" /\ wpc'[i] = "done" /\ \A j \in Writers \ {i} : wpc'[j] \notin Running
    BY <1>8, <1>22 DEF RemoveOldDir, Step
  <2>2. StageAfter(i) /\ tmp = 0 /\ links = NamesOf(payload[i])
    BY <1>7, <2>1 DEF Before
  <2>3. data' = i /\ tmp' = 0 /\ links' = links /\ dirs' = dirs \ {oldTs[i]} /\ files'[i] = files[i]
    BY <1>1, <1>22, <2>2 DEF RemoveOldDir
  <2>4. files[i] = payload[i] /\ i # 0
    BY <1>1, <1>9, <2>2
  <2>5. Clean'
    BY <1>1, <2>2, <2>3, <2>4
  <2> QED
    BY <2>1, <2>5 DEF Running
<1> QED
  BY <1>10, <1>11, <1>12, <1>13, <1>14, <1>15, <1>16, <1>17, <1>18, <1>19, <1>20, <1>21, <1>22 DEF WriteStep

LEMMA AlwaysSequential == WriterSpec => [](WriterInv /\ Sequential)
  BY InitInv, InvStep, InitSequential, SequentialStep, PTL DEF WriterSpec

-----------------------------------------------------------------------------
Pending == {i \in Writers : wpc[i] \in Before}

\* Every step of Write but the first and Rename leaves the argument and ..data alone,
\* and a Write that is not pending does not become so.
LEMMA OtherSteps ==
    ASSUME WriterTypeOK, NEW i \in Writers, WriteStep(i) \/ Fail(i), ~Rename(i)
    PROVE  /\ payload' = payload /\ data' = data
           /\ \/ Pending' = Pending
              \/ i \in Pending /\ Pending' = Pending \ {i}
<1> DEFINE Kept == payload' = payload /\ data' = data
           Moved == \E t \in {"idle"} \cup Before \cup After :
                        wpc' = [wpc EXCEPT ![i] = t] /\ (wpc[i] \in After => t \in After) /\ wpc[i] # "idle"
<1>0. wpc \in [Writers -> {"idle"} \cup Before \cup After]
  BY DEF WriterTypeOK
<1>1. Kept /\ Moved
  <2>1. CASE Readlink(i)
    BY <1>0, <2>1 DEF Readlink, Step, callVars, diskVars, Before, After
  <2>2. CASE PathsToRemove(i)
    BY <1>0, <2>2 DEF PathsToRemove, Step, callVars, diskVars, Before, After
  <2>3. CASE Compare(i)
    BY <1>0, <2>3 DEF Compare, Step, callVars, diskVars, Before, After
  <2>4. CASE NewTimestampDir(i)
    BY <1>0, <2>4 DEF NewTimestampDir, Step, callVars, diskVars, Before, After
  <2>5. CASE \E n \in Names : WriteFile(i, n)
    BY <1>0, <2>5 DEF WriteFile, Step, callVars, diskVars, Before, After
  <2>6. CASE PayloadWritten(i)
    BY <1>0, <2>6 DEF PayloadWritten, Step, callVars, diskVars, Before, After
  <2>7. CASE SymlinkTmp(i)
    BY <1>0, <2>7 DEF SymlinkTmp, RemoveOwnDir, Step, callVars, diskVars, Before, After
  <2>8. CASE ReadlinkName(i)
    BY <1>0, <2>8 DEF ReadlinkName, Step, callVars, diskVars, Before, After
  <2>9. CASE SymlinkName(i)
    BY <1>0, <2>9 DEF SymlinkName, Step, callVars, diskVars, Before, After
  <2>10. CASE \E n \in Names : RemoveUserVisiblePath(i, n)
    BY <1>0, <2>10 DEF RemoveUserVisiblePath, Step, callVars, diskVars, Before, After
  <2>11. CASE Pruned(i)
    BY <1>0, <2>11 DEF Pruned, Step, callVars, diskVars, Before, After
  <2>12. CASE RemoveOldDir(i)
    BY <1>0, <2>12 DEF RemoveOldDir, Step, callVars, diskVars, Before, After
  <2>13. CASE Fail(i)
    BY <1>0, <2>13 DEF Fail, RemoveOwnDir, Step, callVars, diskVars, Before, After
  <2> QED
    BY <2>1, <2>2, <2>3, <2>4, <2>5, <2>6, <2>7, <2>8, <2>9, <2>10, <2>11, <2>12, <2>13 DEF WriteStep
<1>2. PICK t \in {"idle"} \cup Before \cup After :
          wpc' = [wpc EXCEPT ![i] = t] /\ (wpc[i] \in After => t \in After) /\ wpc[i] # "idle"
  BY <1>1
<1>2a. \A j \in Writers : wpc'[j] = IF j = i THEN t ELSE wpc[j]
  BY <1>0, <1>2
<1>2b. wpc[i] \in Before \/ (wpc[i] \in After /\ t \notin Before)
  BY <1>0, <1>2, Steps
<1>3. CASE t \in Before
  <2>1. \A j \in Writers : wpc'[j] \in Before <=> wpc[j] \in Before
    BY <1>2a, <1>2b, <1>3
  <2> QED
    BY <1>1, <2>1 DEF Pending
<1>4. CASE t \notin Before
  <2>1. \A j \in Writers : wpc'[j] \in Before <=> wpc[j] \in Before /\ j # i
    BY <1>2a, <1>4
  <2>2. Pending' = Pending \ {i}
    BY <2>1 DEF Pending
  <2> QED
    BY <1>1, <2>2
<1> QED
  BY <1>1, <1>3, <1>4

LEMMA VisibleKept ==
    ASSUME WriterInv, WriterInv', data' = data, data # 0 => payload'[data] = payload[data]
    PROVE  Visible' = Visible
  BY DEF WriterInv, DataComplete, Visible

\* Each step is one of the abstract volume, or leaves what it shows alone.
LEMMA RefineStep ==
    WriterInv /\ [WriterNext]_writerVars => [Volume!VolumeNext]_(Volume!volumeVars)
<1> SUFFICES ASSUME WriterInv, [WriterNext]_writerVars
             PROVE  [Volume!VolumeNext]_(Volume!volumeVars)
  OBVIOUS
<1>0. WriterInv' /\ WriterTypeOK
  BY InvStep DEF WriterInv, Typed
<1>1. CASE UNCHANGED writerVars
  BY <1>1 DEF writerVars, callVars, diskVars, Volume!volumeVars, Visible
<1> SUFFICES ASSUME NEW i \in Writers, WriteStep(i) \/ Fail(i) \/ \E p \in Payloads : Write(i, p)
             PROVE  [Volume!VolumeNext]_(Volume!volumeVars)
  BY <1>1 DEF WriterNext
<1>2. CASE \E p \in Payloads : Write(i, p)
  <2>1. PICK p \in Payloads : Write(i, p)
    BY <1>2
  <2>2. Visible' = Visible
    <3>1. data' = data /\ (data # 0 => data # i)
      BY <2>1, Steps DEF Write, Step, diskVars, WriterInv, DataComplete
    <3>2. data # 0 => payload'[data] = payload[data]
      BY <2>1, <3>1, <1>0, WriterAssumption DEF Write, WriterTypeOK, Writers
    <3> QED
      BY <1>0, <3>1, <3>2, VisibleKept
  <2>3. i \notin Pending /\ Pending' = Pending \cup {i}
    BY <2>1, <1>0, Steps DEF Write, Step, Pending, WriterTypeOK, Before
  <2> QED
    BY <2>1, <2>2, <2>3 DEF Write, Pending, Volume!VolumeNext, Volume!Request
<1>3. CASE Rename(i)
  <2>1. tmp = i /\ i # 0 /\ files[i] = payload[i]
    BY <1>3, WriterAssumption DEF Rename, Step, WriterInv, TmpIsLock, OwnComplete, Writers
  <2>2. Visible' = {payload[i]} /\ payload' = payload
    BY <1>3, <2>1 DEF Rename, Visible, callVars
  <2>3. i \in Pending /\ Pending' = Pending \ {i}
    BY <1>3, <1>0 DEF Rename, Step, Pending, WriterTypeOK, Before
  <2> QED
    BY <2>2, <2>3 DEF Pending, Volume!VolumeNext, Volume!Publish
<1>4. CASE (WriteStep(i) \/ Fail(i)) /\ ~Rename(i)
  <2>1. /\ payload' = payload /\ data' = data
        /\ Pending' = Pending \/ (i \in Pending /\ Pending' = Pending \ {i})
    BY <1>0, <1>4, OtherSteps
  <2>2. Visible' = Visible
    BY <1>0, <2>1, VisibleKept
  <2>3. CASE Pending' = Pending
    BY <2>1, <2>2, <2>3 DEF Pending, Volume!volumeVars
  <2>4. CASE i \in Pending /\ Pending' = Pending \ {i}
    BY <2>1, <2>2, <2>4 DEF Pending, Volume!VolumeNext, Volume!GiveUp
  <2> QED
    BY <2>1, <2>3, <2>4
<1> QED
  BY <1>2, <1>3, <1>4

-----------------------------------------------------------------------------
(* The values of a Write's variables, and of the disk, stay in their types  *)
(* however many Writes overlap and wherever they fail (atomic_writer.go,    *)
(* Write).                                                                 *)
THEOREM WriterTypeCorrect == WriterSpec => []WriterTypeOK
<1>1. WriterInv => WriterTypeOK
  BY DEF WriterInv, Typed
<1> QED
  BY InitInv, InvStep, <1>1, PTL DEF WriterSpec

(* Whatever the number of Writes, of names and of failures, ..data goes     *)
(* from one complete payload to another in one step, and step 11 of Write   *)
(* never takes away the directory it leads to.                             *)
THEOREM WriterIsAtomic == WriterSpec => ImplementsAtomicVolume
<1>1. WriterInit => Volume!VolumeInit
  BY PayloadTypes DEF WriterInit, Volume!VolumeInit, Visible, Before
<1> QED
  BY <1>1, InitInv, InvStep, RefineStep, PTL DEF WriterSpec, ImplementsAtomicVolume, Volume!VolumeSpec
=============================================================================
