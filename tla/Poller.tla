------------------------------- MODULE Poller -------------------------------
(***************************************************************************)
(* The polling file watcher (pkg/filenotify/poller.go), HPK's default way  *)
(* to learn of control files, watching one directory.                      *)
(*                                                                         *)
(* Every Add starts a goroutine that keeps two recordings of the directory *)
(* and compares them at every tick; the recording is a Stat followed by a  *)
(* Readdir, so the directory can change in between.  Meanwhile other       *)
(* processes create, write and remove files, and remove and remake the     *)
(* directory itself (DeletePod, and CreatePod for a pod of the same name). *)
(*                                                                         *)
(* A file is its version, 0 when absent: two versions differ in            *)
(* modification time or size.  Events go through an unbuffered channel to  *)
(* NotifyPods' forwarding goroutine, which panics on an error.             *)
(***************************************************************************)
EXTENDS Naturals, FiniteSets

CONSTANTS Files,        \* names of files in the directory
          MaxAdds,      \* bound: calls of Add
          MaxVersions,  \* bound: creations and writes of files
          MaxRemovals   \* bound: removals of files and of the directory

\* No entry of a directory is called ".", the name events of the directory itself have here.
ASSUME PollerAssumption ==
    /\ MaxAdds \in Nat \ {0} /\ MaxVersions \in Nat /\ MaxRemovals \in Nat
    /\ "." \notin Files

Watches  == 1 .. MaxAdds
Versions == 0 .. MaxVersions

Empty     == [f \in Files |-> 0]
Recording == [dir : BOOLEAN, entries : [Files -> Versions]]
NoRecord  == [dir |-> FALSE, entries |-> Empty]

VARIABLES
    dir,        \* the directory exists
    disk,       \* the version of each file in it
    version,    \* versions given out so far
    removals,   \* removals so far
    registered, \* the name is in filePoller.watches
    adds,       \* goroutines started so far
    pc,         \* position of each goroutine
    left,       \* its last recording of the directory
    evs,        \* the events it has to send
    closed,     \* filePoller.closed, and done is closed
    crashed,    \* the forwarding goroutine has panicked
    created,    \* auxiliary: creations of each file since the watch began
    got         \* auxiliary: Create events of each file received from each goroutine

pollVars == <<dir, disk, version, removals, registered, adds, pc, left, evs, closed,
              crashed, created, got>>

diskVars  == <<dir, disk, version, removals, created>>
watchVars == <<registered, adds, closed>>
gorVars   == <<pc, left, evs>>

Ops   == {"Create", "Remove", "Write"}
Event == [op : Ops, name : Files \cup {"."}]

PollerTypeOK ==
    /\ dir \in BOOLEAN /\ disk \in [Files -> Versions] /\ (~dir => disk = Empty)
    /\ version \in Versions /\ removals \in 0 .. MaxRemovals
    /\ registered \in BOOLEAN /\ adds \in 0 .. MaxAdds
    /\ pc \in [Watches -> {"none", "adding", "sleep", "read", "send", "stopped"}]
    /\ left \in [Watches -> Recording]
    /\ evs \in [Watches -> SUBSET Event]
    /\ closed \in BOOLEAN /\ crashed \in BOOLEAN
    /\ created \in [Watches -> [Files -> Nat]] /\ got \in [Watches -> [Files -> Nat]]

PollerInit ==
    /\ dir = TRUE /\ disk = Empty /\ version = 0 /\ removals = 0
    /\ registered = FALSE /\ adds = 0 /\ closed = FALSE /\ crashed = FALSE
    /\ pc = [g \in Watches |-> "none"]
    /\ left = [g \in Watches |-> NoRecord]
    /\ evs = [g \in Watches |-> {}]
    /\ created = [g \in Watches |-> Empty] /\ got = [g \in Watches |-> Empty]

-----------------------------------------------------------------------------
(* The processes that change the directory (the job, CreatePod, DeletePod). *)

CreateFile(f) ==
    /\ dir /\ disk[f] = 0 /\ version < MaxVersions
    /\ version' = version + 1
    /\ disk' = [disk EXCEPT ![f] = version + 1]
    /\ created' = [g \in Watches |-> [created[g] EXCEPT ![f] = @ + 1]]
    /\ UNCHANGED <<dir, removals, watchVars, gorVars, crashed, got>>

WriteFile(f) ==
    /\ disk[f] # 0 /\ version < MaxVersions
    /\ version' = version + 1
    /\ disk' = [disk EXCEPT ![f] = version + 1]
    /\ UNCHANGED <<dir, removals, created, watchVars, gorVars, crashed, got>>

RemoveFile(f) ==
    /\ disk[f] # 0 /\ removals < MaxRemovals
    /\ removals' = removals + 1
    /\ disk' = [disk EXCEPT ![f] = 0]
    /\ UNCHANGED <<dir, version, created, watchVars, gorVars, crashed, got>>

RemoveDir ==
    /\ dir /\ disk = Empty /\ removals < MaxRemovals
    /\ removals' = removals + 1
    /\ dir' = FALSE
    /\ UNCHANGED <<disk, version, created, watchVars, gorVars, crashed, got>>

MakeDir ==
    /\ ~dir
    /\ dir' = TRUE
    /\ UNCHANGED <<disk, version, removals, created, watchVars, gorVars, crashed, got>>

-----------------------------------------------------------------------------
(* Add, Remove, Close.  The mutex is held throughout an Add. *)

Unlocked == ~crashed /\ \A g \in Watches : pc[g] # "adding"

\* newItemToWatch: Stat; a missing directory is an error.
Add(g) ==
    /\ Unlocked /\ ~closed /\ g = adds + 1
    /\ dir
    /\ adds' = g
    /\ pc' = [pc EXCEPT ![g] = "adding"]
    /\ UNCHANGED <<diskVars, registered, closed, left, evs, crashed, got>>

\* newItemToWatch: Readdir.  A name that is registered is not watched again.
AddRecorded(g) ==
    /\ ~crashed /\ pc[g] = "adding"
    /\ registered' = TRUE
    /\ pc' = [pc EXCEPT ![g] = IF registered THEN "stopped" ELSE "sleep"]
    /\ left' = [left EXCEPT ![g] = [dir |-> TRUE, entries |-> disk]]
    /\ created' = [created EXCEPT ![g] = Empty]
    /\ UNCHANGED <<dir, disk, version, removals, adds, closed, evs, crashed, got>>

\* Remove forgets the name; the goroutine goes on.
Remove ==
    /\ Unlocked /\ ~closed /\ registered
    /\ registered' = FALSE
    /\ UNCHANGED <<diskVars, adds, closed, gorVars, crashed, got>>

\* Close marks the poller closed first, so that remove returns early.
Close ==
    /\ Unlocked /\ ~closed
    /\ closed' = TRUE
    /\ UNCHANGED <<diskVars, registered, adds, gorVars, crashed, got>>

-----------------------------------------------------------------------------
(* The goroutine of a watch. *)

\* checkChange for two versions of a file, or of the directory.
checkChange(v1, v2) ==
    CASE v1 = 0 /\ v2 # 0               -> "Create"
      [] v1 # 0 /\ v2 = 0               -> "Remove"
      [] v1 # 0 /\ v2 # 0 /\ v1 # v2    -> "Write"
      [] v1 = v2                        -> "none"

Present(entries) == {f \in Files : entries[f] # 0}

\* Mutant: entries that have not changed are reported too.
ChangesUnfiltered(names, l, r) ==
    {[op |-> checkChange(l.entries[f], r.entries[f]), name |-> f] : f \in names}

Changes(names, l, r) ==
    {e \in {[op |-> checkChange(l.entries[f], r.entries[f]), name |-> f] : f \in names} :
        e.op # "none"}

\* Mutant: the loop always runs over the old entries.
checkForChangesOld(l, r) ==
    IF l.dir # r.dir THEN {[op |-> IF r.dir THEN "Create" ELSE "Remove", name |-> "."]}
    ELSE IF ~l.dir THEN {}
    ELSE Changes(Present(l.entries), l, r)

\* A change of the directory itself hides those of its entries; otherwise
\* the loop runs over the entries of the larger recording.
checkForChanges(l, r) ==
    IF l.dir # r.dir THEN {[op |-> IF r.dir THEN "Create" ELSE "Remove", name |-> "."]}
    ELSE IF ~l.dir THEN {}
    ELSE Changes(IF Cardinality(Present(r.entries)) > Cardinality(Present(l.entries))
                 THEN Present(r.entries) ELSE Present(l.entries), l, r)

\* Mutant: the recordings are not swapped.
CompareKeepsLeft(g, r) ==
    /\ evs' = [evs EXCEPT ![g] = checkForChanges(left[g], r)]
    /\ pc' = [pc EXCEPT ![g] = IF evs'[g] = {} THEN "sleep" ELSE "send"]
    /\ UNCHANGED left

\* Compare the old recording with the new one, r, and swap the two; the old
\* one is cleared before it is used again.
Compare(g, r) ==
    /\ evs' = [evs EXCEPT ![g] = checkForChanges(left[g], r)]
    /\ left' = [left EXCEPT ![g] = r]
    /\ pc' = [pc EXCEPT ![g] = IF evs'[g] = {} THEN "sleep" ELSE "send"]

\* A tick: Stat finds the directory, or there is nothing more to record.
Tick(g) ==
    /\ ~crashed /\ pc[g] = "sleep"
    /\ IF dir THEN pc' = [pc EXCEPT ![g] = "read"] /\ UNCHANGED <<left, evs>>
              ELSE Compare(g, NoRecord)
    /\ UNCHANGED <<diskVars, watchVars, crashed, got>>

\* Readdir; of a directory removed since the Stat nothing is read.
Read(g) ==
    /\ ~crashed /\ pc[g] = "read"
    /\ Compare(g, [dir |-> TRUE, entries |-> disk])
    /\ UNCHANGED <<diskVars, watchVars, crashed, got>>

\* Stat or Readdir fails: the error reaches the forwarding goroutine.
ReadFails(g) ==
    /\ ~crashed /\ pc[g] = "read"
    /\ crashed' = TRUE
    /\ UNCHANGED <<diskVars, watchVars, gorVars, got>>

\* The forwarding goroutine receives one of the events, in any order.
Send(g, e) ==
    /\ ~crashed /\ pc[g] = "send" /\ e \in evs[g]
    /\ evs' = [evs EXCEPT ![g] = @ \ {e}]
    /\ pc' = [pc EXCEPT ![g] = IF evs[g] = {e} THEN "sleep" ELSE "send"]
    /\ got' = IF e.op = "Create" /\ e.name \in Files
              THEN [got EXCEPT ![g][e.name] = @ + 1] ELSE got
    /\ UNCHANGED <<diskVars, watchVars, left, crashed>>

\* The goroutine notices that done is closed.
Stop(g) ==
    /\ ~crashed /\ closed /\ pc[g] \in {"sleep", "send"}
    /\ pc' = [pc EXCEPT ![g] = "stopped"]
    /\ UNCHANGED <<diskVars, watchVars, left, evs, crashed, got>>

-----------------------------------------------------------------------------
Goroutine(g) == Tick(g) \/ Read(g) \/ (\E e \in evs[g] : Send(g, e)) \/ Stop(g)

PollerNext ==
    \/ \E f \in Files : CreateFile(f) \/ WriteFile(f) \/ RemoveFile(f)
    \/ RemoveDir \/ MakeDir
    \/ \E g \in Watches : Add(g) \/ AddRecorded(g) \/ Goroutine(g) \/ ReadFails(g)
    \/ Remove \/ Close

\* The ticker keeps ticking, the forwarding goroutine keeps receiving.
PollerSpec ==
    /\ PollerInit /\ [][PollerNext]_pollVars
    /\ \A g \in Watches : WF_pollVars(Goroutine(g)) /\ WF_pollVars(AddRecorded(g))

-----------------------------------------------------------------------------
(* Properties. *)

\* A goroutine reports a file as created at most as often as it was created
\* since the watch began: no event is repeated or invented, however the ticks
\* interleave with the creations, writes and removals.
NoFalseCreate == \A g \in Watches, f \in Files : got[g][f] <= created[g][f]

Watching(g) == pc[g] \in {"sleep", "read", "send"}

\* Every file created under a watch is reported as created, provided that
\* nothing is ever removed; this is what the event listener relies on.
CreationReported ==
    \A g \in Watches, f \in Files :
        Watching(g) /\ created[g][f] = 1 ~> (got[g][f] = 1 \/ removals > 0 \/ closed \/ crashed)
=============================================================================
