---------------------------- MODULE AtomicWriter ----------------------------
(***************************************************************************)
(* AtomicWriter.Write (compute/volume/util/atomic_writer.go) on one volume  *)
(* directory, one action per file system operation and each of them free to *)
(* fail.  Two Writes overlap when two CreatePod goroutines of one pod mount *)
(* the same volume.                                                        *)
(*                                                                         *)
(* A name is an entry of the volume's root, its content the whole subtree   *)
(* below it, so that pruning, which spares the nested paths, is exact.  A   *)
(* payload gives each name a content, 0 where it has none.  The timestamped *)
(* directory of a Write is named after the Write; MkdirTemp makes it unique.*)
(***************************************************************************)
EXTENDS Naturals

CONSTANTS MaxWrites,   \* bound: calls of Write
          Names,       \* names a payload may have
          MaxContent,  \* bound: contents of a name
          MaxErrors    \* bound: failures of the file system

ASSUME WriterAssumption ==
    /\ MaxWrites \in Nat /\ MaxContent \in Nat /\ MaxErrors \in Nat
    /\ 0 \notin Names

Writers  == 1 .. MaxWrites
Payloads == [Names -> 0 .. MaxContent]
Empty    == [n \in Names |-> 0]
NamesOf(p) == {n \in Names : p[n] # 0}

VARIABLES
    wpc,       \* the step of each Write
    payload,   \* its argument
    oldTs,     \* the directory ..data led to when it looked, 0 if there was none
    toRemove,  \* the names of that directory it has to prune
    toLink,    \* the names it has still to link
    linkname,  \* the name it has found without a link
    lasterr,   \* it could not prune a name
    dirs,      \* the timestamped directories there are
    files,     \* their contents
    data,      \* the target of ..data, 0: no link
    tmp,       \* the target of ..data_tmp, 0: no link
    links,     \* the names linked in the volume's root
    errors,    \* failures of the file system so far
    overlap    \* auxiliary: a Write has begun while another was running

callVars   == <<payload, oldTs, toRemove, toLink, linkname, lasterr>>
diskVars   == <<dirs, files, data, tmp, links>>
auxVars    == <<errors, overlap>>
writerVars == <<wpc, callVars, diskVars, auxVars>>

Before  == {"readlink", "walk", "compare", "mkdir", "files", "symlink", "rename"}
After   == {"check", "link", "prune", "clean", "done", "error"}
Running == {"readlink", "walk", "compare", "mkdir", "files", "symlink", "rename",
            "check", "link", "prune", "clean"}

WriterTypeOK ==
    /\ wpc \in [Writers -> {"idle"} \cup Before \cup After]
    /\ payload \in [Writers -> Payloads] /\ files \in [Writers -> Payloads]
    /\ oldTs \in [Writers -> 0 .. MaxWrites] /\ linkname \in [Writers -> Names \cup {0}]
    /\ toRemove \in [Writers -> SUBSET Names] /\ toLink \in [Writers -> SUBSET Names]
    /\ lasterr \in [Writers -> BOOLEAN]
    /\ dirs \subseteq Writers /\ links \subseteq Names
    /\ data \in 0 .. MaxWrites /\ tmp \in 0 .. MaxWrites
    /\ errors \in 0 .. MaxErrors /\ overlap \in BOOLEAN

WriterInit ==
    /\ wpc = [i \in Writers |-> "idle"] /\ lasterr = [i \in Writers |-> FALSE]
    /\ payload = [i \in Writers |-> Empty] /\ files = [i \in Writers |-> Empty]
    /\ oldTs = [i \in Writers |-> 0] /\ linkname = [i \in Writers |-> 0]
    /\ toRemove = [i \in Writers |-> {}] /\ toLink = [i \in Writers |-> {}]
    /\ dirs = {} /\ links = {} /\ data = 0 /\ tmp = 0
    /\ errors = 0 /\ overlap = FALSE

Step(i, from, to) == wpc[i] = from /\ wpc' = [wpc EXCEPT ![i] = to]

-----------------------------------------------------------------------------
(* (1) The payload is valid: Kubernetes admits no path that is not.        *)
Write(i, p) ==
    /\ Step(i, "idle", "readlink")
    /\ payload' = [payload EXCEPT ![i] = p]
    /\ toLink' = [toLink EXCEPT ![i] = NamesOf(p)]
    /\ overlap' = (overlap \/ \E j \in Writers : wpc[j] \in Running)
    /\ UNCHANGED <<oldTs, toRemove, linkname, lasterr, diskVars, errors>>

(* (2) *)
Readlink(i) ==
    /\ Step(i, "readlink", IF data = 0 THEN "mkdir" ELSE "walk")
    /\ oldTs' = [oldTs EXCEPT ![i] = data]
    /\ UNCHANGED <<payload, toRemove, toLink, linkname, lasterr, diskVars, auxVars>>

(* (3) The walk of a directory that is gone finds nothing.                 *)
OldFiles(i) == IF oldTs[i] \in dirs THEN files[oldTs[i]] ELSE Empty

\* Mutant: nothing is ever pruned.
PathsToRemoveNone(i) ==
    /\ Step(i, "walk", "compare")
    /\ UNCHANGED <<callVars, diskVars, auxVars>>

PathsToRemove(i) ==
    /\ Step(i, "walk", "compare")
    /\ toRemove' = [toRemove EXCEPT ![i] = NamesOf(OldFiles(i)) \ NamesOf(payload[i])]
    /\ UNCHANGED <<payload, oldTs, toLink, linkname, lasterr, diskVars, auxVars>>

(* (4) Nothing to do if all of the payload is there and nothing else was.  *)
ShouldWritePayload(i) == \E n \in NamesOf(payload[i]) : OldFiles(i)[n] # payload[i][n]

Compare(i) ==
    /\ Step(i, "compare", IF ShouldWritePayload(i) \/ toRemove[i] # {} THEN "mkdir" ELSE "done")
    /\ UNCHANGED <<callVars, diskVars, auxVars>>

(* (5) *)
NewTimestampDir(i) ==
    /\ Step(i, "mkdir", "files")
    /\ dirs' = dirs \cup {i}
    /\ UNCHANGED <<callVars, files, data, tmp, links, auxVars>>

(* (6) File by file. *)
WriteFile(i, n) ==
    /\ wpc[i] = "files" /\ files[i][n] # payload[i][n]
    /\ files' = [files EXCEPT ![i] = [@ EXCEPT ![n] = payload[i][n]]]
    /\ UNCHANGED <<wpc, callVars, dirs, data, tmp, links, auxVars>>

PayloadWritten(i) ==
    /\ Step(i, "files", "symlink") /\ files[i] = payload[i]
    /\ UNCHANGED <<callVars, diskVars, auxVars>>

(* (7) A link that is there, another Write's, is an error like any other.  *)
RemoveOwnDir(i) == dirs' = dirs \ {i} /\ files' = [files EXCEPT ![i] = Empty]

\* Mutant: a ..data_tmp that is there is replaced.
SymlinkTmpForce(i) ==
    /\ Step(i, "symlink", "rename")
    /\ tmp' = i
    /\ UNCHANGED <<callVars, dirs, files, data, links, auxVars>>

SymlinkTmp(i) ==
    \/ /\ Step(i, "symlink", "rename") /\ tmp = 0
       /\ tmp' = i
       /\ UNCHANGED <<callVars, dirs, files, data, links, auxVars>>
    \/ /\ Step(i, "symlink", "error") /\ tmp # 0
       /\ RemoveOwnDir(i)
       /\ UNCHANGED <<callVars, data, tmp, links, auxVars>>

(* (8) *)
Rename(i) ==
    /\ Step(i, "rename", "check")
    /\ data' = tmp /\ tmp' = 0
    /\ UNCHANGED <<callVars, dirs, files, links, auxVars>>

(* (9) For each name, Readlink and, if it finds nothing, Symlink.          *)
\* Mutant: a link that is there is removed and made again.
ReadlinkNameReplaces(i) ==
    /\ UNCHANGED <<payload, oldTs, toRemove, lasterr, dirs, files, data, tmp, auxVars>>
    /\ \/ \E n \in toLink[i] :
            /\ Step(i, "check", "link")
            /\ links' = links \ {n}
            /\ linkname' = [linkname EXCEPT ![i] = n] /\ UNCHANGED toLink
       \/ /\ toLink[i] = {} /\ Step(i, "check", "prune")
          /\ UNCHANGED <<toLink, linkname, links>>

ReadlinkName(i) ==
    /\ UNCHANGED <<payload, oldTs, toRemove, lasterr, diskVars, auxVars>>
    /\ \/ \E n \in toLink[i] \cap links :
            /\ Step(i, "check", "check")
            /\ toLink' = [toLink EXCEPT ![i] = @ \ {n}] /\ UNCHANGED linkname
       \/ \E n \in toLink[i] \ links :
            /\ Step(i, "check", "link")
            /\ linkname' = [linkname EXCEPT ![i] = n] /\ UNCHANGED toLink
       \/ /\ toLink[i] = {} /\ Step(i, "check", "prune")
          /\ UNCHANGED <<toLink, linkname>>

SymlinkName(i) ==
    /\ Step(i, "link", IF linkname[i] \in links THEN "error" ELSE "check")
    /\ links' = links \cup {linkname[i]}
    /\ toLink' = [toLink EXCEPT ![i] = @ \ {linkname[i]}]
    /\ linkname' = [linkname EXCEPT ![i] = 0]
    /\ UNCHANGED <<payload, oldTs, toRemove, lasterr, dirs, files, data, tmp, auxVars>>

(* (10) A failure is remembered and the other names are pruned all the same. *)
RemoveUserVisiblePath(i, n) ==
    /\ wpc[i] = "prune" /\ n \in toRemove[i]
    /\ toRemove' = [toRemove EXCEPT ![i] = @ \ {n}]
    /\ lasterr' = [lasterr EXCEPT ![i] = @ \/ n \notin links]
    /\ links' = links \ {n}
    /\ UNCHANGED <<wpc, payload, oldTs, toLink, linkname, dirs, files, data, tmp, auxVars>>

Pruned(i) ==
    /\ toRemove[i] = {}
    /\ Step(i, "prune", IF lasterr[i] THEN "error" ELSE "clean")
    /\ UNCHANGED <<callVars, diskVars, auxVars>>

(* (11) *)
RemoveOldDir(i) ==
    /\ Step(i, "clean", "done")
    /\ dirs' = dirs \ {oldTs[i]}
    /\ files' = [d \in Writers |-> IF d = oldTs[i] THEN Empty ELSE files[d]]
    /\ UNCHANGED <<callVars, data, tmp, links, auxVars>>

(* What each step leaves behind when the file system refuses it.  A        *)
(* Readlink of step 9 that fails otherwise than with NotExist is passed over.*)
Fail(i) ==
    /\ errors < MaxErrors /\ errors' = errors + 1 /\ UNCHANGED <<payload, oldTs, data, links, overlap>>
    /\ \/ /\ \E s \in {"readlink", "compare", "mkdir", "files", "link"} : Step(i, s, "error")
          /\ UNCHANGED <<toRemove, toLink, linkname, lasterr, dirs, files, tmp>>
       \/ /\ Step(i, "mkdir", "error")           \* Chmod
          /\ dirs' = dirs \cup {i}
          /\ UNCHANGED <<toRemove, toLink, linkname, lasterr, files, tmp>>
       \/ /\ Step(i, "symlink", "error") /\ RemoveOwnDir(i)
          /\ UNCHANGED <<toRemove, toLink, linkname, lasterr, tmp>>
       \/ /\ Step(i, "rename", "error") /\ RemoveOwnDir(i)
          /\ tmp' = 0
          /\ UNCHANGED <<toRemove, toLink, linkname, lasterr>>
       \/ /\ wpc[i] = "check"
          /\ \E n \in toLink[i] : toLink' = [toLink EXCEPT ![i] = @ \ {n}]
          /\ UNCHANGED <<wpc, toRemove, linkname, lasterr, dirs, files, tmp>>
       \/ /\ wpc[i] = "prune"
          /\ \E n \in toRemove[i] : toRemove' = [toRemove EXCEPT ![i] = @ \ {n}]
          /\ lasterr' = [lasterr EXCEPT ![i] = TRUE]
          /\ UNCHANGED <<wpc, toLink, linkname, dirs, files, tmp>>
       \/ /\ Step(i, "clean", "error") /\ oldTs[i] \in dirs
          /\ \E kept \in SUBSET Names :
                files' = [files EXCEPT ![oldTs[i]] = [n \in Names |-> IF n \in kept THEN @[n] ELSE 0]]
          /\ UNCHANGED <<toRemove, toLink, linkname, lasterr, dirs, tmp>>

WriteStep(i) ==
    \/ Readlink(i) \/ PathsToRemove(i) \/ Compare(i) \/ NewTimestampDir(i)
    \/ (\E n \in Names : WriteFile(i, n)) \/ PayloadWritten(i)
    \/ SymlinkTmp(i) \/ Rename(i) \/ ReadlinkName(i) \/ SymlinkName(i)
    \/ (\E n \in Names : RemoveUserVisiblePath(i, n)) \/ Pruned(i) \/ RemoveOldDir(i)

WriterNext ==
    \E i \in Writers : WriteStep(i) \/ Fail(i) \/ \E p \in Payloads : Write(i, p)

WriterSpec == WriterInit /\ [][WriterNext]_writerVars

-----------------------------------------------------------------------------
(* A Write is pending until it renames ..data_tmp or gives up; ..data shows *)
(* what its target holds, the part that is not written yet included.       *)
Visible == IF data = 0 THEN {} ELSE {files[data]}
Volume  == INSTANCE AtomicVolume WITH pending <- {i \in Writers : wpc[i] \in Before},
                                      request <- payload, visible <- Visible

(* However Writes overlap, fail or stop half-way, ..data goes in one step   *)
(* from one complete payload to another, each the argument of a Write that  *)
(* had not shown it before (steps 5 to 8 of Write; step 11 must never       *)
(* remove the directory ..data leads to).                                  *)
ImplementsAtomicVolume == Volume!VolumeSpec
=============================================================================
