---------------------------- MODULE PollerProofs ----------------------------
(***************************************************************************)
(* The polling watcher never invents or repeats a creation, for any files,   *)
(* any number of watches, versions and removals.                           *)
(*                                                                         *)
(* A creation that has been counted is in one of three places: received,     *)
(* among the events still to be sent, or on disk and not yet in the last     *)
(* recording.  The invariant says that these three together are never more   *)
(* than the creations since the watch began (Accounted), that events are     *)
(* pending only while they are being sent (Drained) and that nothing has     *)
(* happened to a watch before its Add (Unused).                            *)
(***************************************************************************)
EXTENDS Poller, TLAPS

Unseen(g, f)  == left[g].entries[f] = 0 /\ disk[f] # 0
Pending(g, f) == [op |-> "Create", name |-> f] \in evs[g]
One(b)        == IF b THEN 1 ELSE 0

Accounted ==
    \A g \in Watches, f \in Files :
        pc[g] \notin {"none", "adding"} =>
            got[g][f] + One(Pending(g, f)) + One(Unseen(g, f)) <= created[g][f]

Drained == \A g \in Watches : pc[g] \notin {"send", "stopped"} => evs[g] = {}

Unused ==
    /\ \A g \in Watches : g > adds => pc[g] = "none"
    /\ \A g \in Watches : pc[g] \in {"none", "adding"} => got[g] = Empty

PollerInv == PollerTypeOK /\ Accounted /\ Drained /\ Unused

-----------------------------------------------------------------------------
(* What the comparison of two recordings reports.                          *)
LEMMA CheckChange ==
    ASSUME NEW v \in Versions, NEW w \in Versions
    PROVE  /\ checkChange(v, w) \in Ops \cup {"none"}
           /\ checkChange(v, w) = "Create" => v = 0 /\ w # 0
  BY DEF checkChange, Ops

LEMMA ChangesOf ==
    ASSUME NEW l \in Recording, NEW r \in Recording, NEW names \in SUBSET Files
    PROVE  /\ Changes(names, l, r) \subseteq Event
           /\ \A f \in Files : [op |-> "Create", name |-> f] \in Changes(names, l, r) =>
                 l.entries[f] = 0 /\ r.entries[f] # 0
<1>1. \A f \in Files : l.entries[f] \in Versions /\ r.entries[f] \in Versions
  BY DEF Recording
<1>2. ASSUME NEW e \in Changes(names, l, r)
      PROVE  \E f \in names : e = [op |-> checkChange(l.entries[f], r.entries[f]), name |-> f] /\ e.op # "none"
  BY DEF Changes
<1>3. ASSUME NEW e \in Changes(names, l, r) PROVE e \in Event
  <2>1. PICK f \in names : e = [op |-> checkChange(l.entries[f], r.entries[f]), name |-> f] /\ e.op # "none"
    BY <1>2
  <2>2. checkChange(l.entries[f], r.entries[f]) \in Ops
    BY <1>1, <2>1, CheckChange
  <2> QED
    BY <2>1, <2>2 DEF Event
<1>4. ASSUME NEW f \in Files, [op |-> "Create", name |-> f] \in Changes(names, l, r)
      PROVE  l.entries[f] = 0 /\ r.entries[f] # 0
  <2>1. PICK h \in names : [op |-> "Create", name |-> f]
                              = [op |-> checkChange(l.entries[h], r.entries[h]), name |-> h]
    BY <1>2, <1>4
  <2>2. h = f /\ checkChange(l.entries[h], r.entries[h]) = "Create"
    BY <2>1
  <2> QED
    BY <1>1, <2>2, CheckChange
<1> QED
  BY <1>3, <1>4

LEMMA Comparison ==
    ASSUME NEW l \in Recording, NEW r \in Recording
    PROVE  /\ checkForChanges(l, r) \subseteq Event
           /\ \A f \in Files : [op |-> "Create", name |-> f] \in checkForChanges(l, r) =>
                 l.entries[f] = 0 /\ r.entries[f] # 0
<1> DEFINE names == IF Cardinality(Present(r.entries)) > Cardinality(Present(l.entries))
                    THEN Present(r.entries) ELSE Present(l.entries)
<1>1. names \in SUBSET Files
  BY DEF Present
<1>2. checkForChanges(l, r) \in {{[op |-> "Create", name |-> "."]}, {[op |-> "Remove", name |-> "."]}, {},
                                 Changes(names, l, r)}
  BY DEF checkForChanges
<1>3. \A f \in Files : f # "."
  BY PollerAssumption
<1>4. /\ Changes(names, l, r) \subseteq Event
      /\ \A f \in Files : [op |-> "Create", name |-> f] \in Changes(names, l, r) =>
            l.entries[f] = 0 /\ r.entries[f] # 0
  BY <1>1, ChangesOf
<1> HIDE DEF names
<1>5. {[op |-> "Create", name |-> "."]} \subseteq Event /\ {[op |-> "Remove", name |-> "."]} \subseteq Event
  BY DEF Event, Ops
<1>6. \A f \in Files, o \in Ops : [op |-> "Create", name |-> f] # [op |-> o, name |-> "."]
  BY <1>3
<1> QED
  BY <1>2, <1>4, <1>5, <1>6 DEF Ops

LEMMA EmptyTypes == Empty \in [Files -> Versions] /\ Empty \in [Files -> Nat] /\ NoRecord \in Recording
  BY PollerAssumption DEF Empty, Versions, NoRecord, Recording

LEMMA PollerInitInv == PollerInit => PollerInv
<1> SUFFICES ASSUME PollerInit PROVE PollerInv
  OBVIOUS
<1>1. 0 \in Versions /\ 0 \in 0 .. MaxRemovals /\ 0 \in 0 .. MaxAdds
  BY PollerAssumption DEF Versions
<1>a. pc \in [Watches -> {"none", "adding", "sleep", "read", "send", "stopped"}]
  BY DEF PollerInit
<1>b. left \in [Watches -> Recording] /\ evs \in [Watches -> SUBSET Event]
  BY EmptyTypes DEF PollerInit
<1>c. created \in [Watches -> [Files -> Nat]] /\ got \in [Watches -> [Files -> Nat]]
  BY EmptyTypes DEF PollerInit
<1>d. PollerTypeOK
  BY <1>1, <1>a, <1>b, <1>c, EmptyTypes DEF PollerInit, PollerTypeOK
<1>2. Accounted /\ Drained /\ Unused
  BY DEF PollerInit, Accounted, Drained, Unused
<1> QED
  BY <1>d, <1>2 DEF PollerInv

\* A goroutine compares its last recording with a new one.
LEMMA CompareTypes ==
    ASSUME PollerTypeOK, NEW g \in Watches, NEW r \in Recording, Compare(g, r)
    PROVE  /\ left' \in [Watches -> Recording] /\ evs' \in [Watches -> SUBSET Event]
           /\ pc' \in [Watches -> {"none", "adding", "sleep", "read", "send", "stopped"}]
<1>1. left[g] \in Recording
  BY DEF PollerTypeOK
<1>2. checkForChanges(left[g], r) \in SUBSET Event
  BY <1>1, Comparison
<1> QED
  BY <1>2 DEF PollerTypeOK, Compare

-----------------------------------------------------------------------------
(* The invariant is preserved: first the types, then the accounts.         *)
LEMMA PollerTypeStep == PollerInv /\ [PollerNext]_pollVars => PollerTypeOK'
<1> SUFFICES ASSUME PollerTypeOK, [PollerNext]_pollVars PROVE PollerTypeOK'
  BY DEF PollerInv
<1> USE PollerAssumption
<1>1. CASE UNCHANGED pollVars
  BY <1>1 DEF PollerTypeOK, pollVars
<1>2. ASSUME NEW f \in Files, CreateFile(f) PROVE PollerTypeOK'
  <2>1. version' \in Versions
    BY <1>2 DEF CreateFile, PollerTypeOK, Versions
  <2>2. disk' \in [Files -> Versions]
    BY <1>2, <2>1 DEF CreateFile, PollerTypeOK
  <2>3. created' \in [Watches -> [Files -> Nat]]
    <3>1. \A g \in Watches : [created[g] EXCEPT ![f] = @ + 1] \in [Files -> Nat]
      BY DEF PollerTypeOK
    <3> QED
      BY <1>2, <3>1 DEF CreateFile
  <2> QED
    BY <1>2, <2>1, <2>2, <2>3 DEF CreateFile, PollerTypeOK, watchVars, gorVars
<1>3. ASSUME NEW f \in Files, WriteFile(f) PROVE PollerTypeOK'
  <2>1. version' \in Versions
    BY <1>3 DEF WriteFile, PollerTypeOK, Versions
  <2>2. disk' \in [Files -> Versions]
    BY <1>3, <2>1 DEF WriteFile, PollerTypeOK
  <2>3. dir
    BY <1>3 DEF WriteFile, PollerTypeOK, Empty
  <2> QED
    BY <1>3, <2>1, <2>2, <2>3 DEF WriteFile, PollerTypeOK, watchVars, gorVars
<1>4. ASSUME NEW f \in Files, RemoveFile(f) PROVE PollerTypeOK'
  <2>1. removals' \in 0 .. MaxRemovals
    BY <1>4 DEF RemoveFile, PollerTypeOK
  <2>2. disk' \in [Files -> Versions]
    BY <1>4 DEF RemoveFile, PollerTypeOK, Versions
  <2>3. dir
    BY <1>4 DEF RemoveFile, PollerTypeOK, Empty
  <2> QED
    BY <1>4, <2>1, <2>2, <2>3 DEF RemoveFile, PollerTypeOK, watchVars, gorVars
<1>5. CASE RemoveDir
  <2>1. removals' \in 0 .. MaxRemovals
    BY <1>5 DEF RemoveDir, PollerTypeOK
  <2> QED
    BY <1>5, <2>1 DEF RemoveDir, PollerTypeOK, watchVars, gorVars
<1>6. CASE MakeDir
  BY <1>6 DEF MakeDir, PollerTypeOK, watchVars, gorVars
<1>7. ASSUME NEW g \in Watches, Add(g) PROVE PollerTypeOK'
  <2>1. adds' \in 0 .. MaxAdds
    BY <1>7 DEF Add, Watches
  <2>2. pc' \in [Watches -> {"none", "adding", "sleep", "read", "send", "stopped"}]
    BY <1>7 DEF Add, PollerTypeOK
  <2> QED
    BY <1>7, <2>1, <2>2 DEF Add, PollerTypeOK, diskVars
<1>8. ASSUME NEW g \in Watches, AddRecorded(g) PROVE PollerTypeOK'
  <2>1. pc' \in [Watches -> {"none", "adding", "sleep", "read", "send", "stopped"}]
    BY <1>8 DEF AddRecorded, PollerTypeOK
  <2>2. [dir |-> TRUE, entries |-> disk] \in Recording
    BY DEF PollerTypeOK, Recording
  <2>3. left' \in [Watches -> Recording]
    BY <1>8, <2>2 DEF AddRecorded, PollerTypeOK
  <2>4. created' \in [Watches -> [Files -> Nat]]
    BY <1>8, EmptyTypes DEF AddRecorded, PollerTypeOK
  <2> QED
    BY <1>8, <2>1, <2>3, <2>4 DEF AddRecorded, PollerTypeOK
<1>9. ASSUME NEW g \in Watches, Tick(g) PROVE PollerTypeOK'
  <2>1. /\ left' \in [Watches -> Recording] /\ evs' \in [Watches -> SUBSET Event]
        /\ pc' \in [Watches -> {"none", "adding", "sleep", "read", "send", "stopped"}]
    <3>1. CASE dir
      BY <1>9, <3>1 DEF Tick, PollerTypeOK
    <3>2. CASE ~dir
      BY <1>9, <3>2, CompareTypes, EmptyTypes DEF Tick
    <3> QED
      BY <3>1, <3>2
  <2> QED
    BY <1>9, <2>1 DEF Tick, PollerTypeOK, diskVars, watchVars
<1>10. ASSUME NEW g \in Watches, Read(g) PROVE PollerTypeOK'
  <2>1. [dir |-> TRUE, entries |-> disk] \in Recording
    BY DEF PollerTypeOK, Recording
  <2>2. /\ left' \in [Watches -> Recording] /\ evs' \in [Watches -> SUBSET Event]
        /\ pc' \in [Watches -> {"none", "adding", "sleep", "read", "send", "stopped"}]
    BY <1>10, <2>1, CompareTypes DEF Read
  <2> QED
    BY <1>10, <2>2 DEF Read, PollerTypeOK, diskVars, watchVars
<1>11. ASSUME NEW g \in Watches, NEW e \in evs[g], Send(g, e) PROVE PollerTypeOK'
  <2>1. pc' \in [Watches -> {"none", "adding", "sleep", "read", "send", "stopped"}]
    BY <1>11 DEF Send, PollerTypeOK
  <2>2. evs' \in [Watches -> SUBSET Event]
    BY <1>11 DEF Send, PollerTypeOK
  <2>3. got' \in [Watches -> [Files -> Nat]]
    BY <1>11 DEF Send, PollerTypeOK
  <2> QED
    BY <1>11, <2>1, <2>2, <2>3 DEF Send, PollerTypeOK, diskVars, watchVars
<1>12. ASSUME NEW g \in Watches, Stop(g) PROVE PollerTypeOK'
  <2>1. pc' \in [Watches -> {"none", "adding", "sleep", "read", "send", "stopped"}]
    BY <1>12 DEF Stop, PollerTypeOK
  <2> QED
    BY <1>12, <2>1 DEF Stop, PollerTypeOK, diskVars, watchVars
<1>13. ASSUME NEW g \in Watches, ReadFails(g) PROVE PollerTypeOK'
  BY <1>13 DEF ReadFails, PollerTypeOK, diskVars, watchVars, gorVars
<1>14. CASE Remove
  BY <1>14 DEF Remove, PollerTypeOK, diskVars, gorVars
<1>15. CASE Close
  BY <1>15 DEF Close, PollerTypeOK, diskVars, gorVars
<1> QED
  BY <1>1, <1>2, <1>3, <1>4, <1>5, <1>6, <1>7, <1>8, <1>9, <1>10, <1>11, <1>12, <1>13, <1>14,
     <1>15 DEF PollerNext, Goroutine

\* The next-state relation, action by action.
LEMMA PollerSteps ==
    ASSUME [PollerNext]_pollVars
    PROVE  \/ UNCHANGED pollVars \/ RemoveDir \/ MakeDir \/ Remove \/ Close
           \/ \E f \in Files : CreateFile(f) \/ WriteFile(f) \/ RemoveFile(f)
           \/ \E g \in Watches : \/ Add(g) \/ AddRecorded(g) \/ Tick(g) \/ Read(g) \/ Stop(g)
                                 \/ ReadFails(g) \/ \E e \in evs[g] : Send(g, e)
  BY DEF PollerNext, Goroutine

LEMMA BookkeepingStep == PollerInv /\ [PollerNext]_pollVars => Drained' /\ Unused'
<1> SUFFICES ASSUME PollerInv, [PollerNext]_pollVars PROVE Drained' /\ Unused'
  OBVIOUS
<1> USE DEF PollerInv, PollerTypeOK
<1>1. CASE pc' = pc /\ evs' = evs /\ got' = got /\ adds' = adds
  BY <1>1 DEF Drained, Unused
<1>2. ASSUME NEW g \in Watches, Add(g) PROVE Drained' /\ Unused'
  <2>0. g > adds
    BY <1>2 DEF Add
  <2>1. pc[g] = "none" /\ evs[g] = {} /\ got[g] = Empty
    BY <2>0 DEF Unused, Drained
  <2>2. Drained'
    BY <1>2, <2>1 DEF Add, Drained
  <2>3. \A h \in Watches : h > adds' => pc'[h] = "none"
    BY <1>2 DEF Add, Unused, Watches
  <2>4. \A h \in Watches : pc'[h] \in {"none", "adding"} => got'[h] = Empty
    BY <1>2, <2>1 DEF Add, Unused
  <2> QED
    BY <2>2, <2>3, <2>4 DEF Unused
<1>3. ASSUME NEW g \in Watches, pc[g] # "none", pc[g] # "adding", adds' = adds,
             pc'[g] \notin {"none", "adding"}, pc'[g] \notin {"send", "stopped"} => evs'[g] = {},
             \A h \in Watches \ {g} : pc'[h] = pc[h] /\ evs'[h] = evs[h] /\ got'[h] = got[h]
      PROVE  Drained' /\ Unused'
  <2>1. Drained'
    BY <1>3 DEF Drained
  <2>2. \A h \in Watches : h > adds' => pc'[h] = "none"
    BY <1>3 DEF Unused
  <2>3. \A h \in Watches : pc'[h] \in {"none", "adding"} => got'[h] = Empty
    BY <1>3 DEF Unused
  <2> QED
    BY <2>1, <2>2, <2>3 DEF Unused
<1>4. ASSUME NEW g \in Watches, AddRecorded(g) PROVE Drained' /\ Unused'
  <2>1. evs[g] = {} /\ pc[g] = "adding"
    BY <1>4 DEF AddRecorded, Drained
  <2>2. Drained'
    BY <1>4, <2>1 DEF AddRecorded, Drained
  <2>3. Unused'
    BY <1>4, <2>1 DEF AddRecorded, Unused
  <2> QED
    BY <2>2, <2>3
<1>5. ASSUME NEW g \in Watches, NEW r, Compare(g, r), pc[g] \in {"sleep", "read"},
             got' = got, adds' = adds
      PROVE  Drained' /\ Unused'
  <2>1. pc'[g] \in {"sleep", "send"} /\ (pc'[g] = "sleep" => evs'[g] = {})
    BY <1>5 DEF Compare
  <2>2. \A h \in Watches \ {g} : pc'[h] = pc[h] /\ evs'[h] = evs[h] /\ got'[h] = got[h]
    BY <1>5 DEF Compare
  <2> QED
    BY <1>3, <1>5, <2>1, <2>2
<1>6. ASSUME NEW g \in Watches, Tick(g) PROVE Drained' /\ Unused'
  <2>1. CASE dir
    BY <1>6, <2>1 DEF Tick, Drained, Unused, watchVars
  <2>2. CASE ~dir
    BY <1>5, <1>6, <2>2 DEF Tick, watchVars
  <2> QED
    BY <2>1, <2>2
<1>7. ASSUME NEW g \in Watches, Read(g) PROVE Drained' /\ Unused'
  BY <1>5, <1>7 DEF Read, watchVars
<1>8. ASSUME NEW g \in Watches, NEW e \in evs[g], Send(g, e) PROVE Drained' /\ Unused'
  <2>1. pc'[g] \in {"sleep", "send"} /\ (pc'[g] = "sleep" => evs'[g] = {}) /\ pc[g] = "send"
    BY <1>8 DEF Send
  <2>2. \A h \in Watches \ {g} : pc'[h] = pc[h] /\ evs'[h] = evs[h] /\ got'[h] = got[h]
    BY <1>8 DEF Send
  <2>3. adds' = adds
    BY <1>8 DEF Send, watchVars
  <2> QED
    BY <1>3, <2>1, <2>2, <2>3
<1>9. ASSUME NEW g \in Watches, Stop(g) PROVE Drained' /\ Unused'
  BY <1>9 DEF Stop, Drained, Unused, watchVars
<1>10. UNCHANGED pollVars \/ RemoveDir \/ MakeDir \/ Remove \/ Close
         => pc' = pc /\ evs' = evs /\ got' = got /\ adds' = adds
  BY DEF pollVars, RemoveDir, MakeDir, Remove, Close, watchVars, gorVars
<1>11. \A f \in Files : CreateFile(f) \/ WriteFile(f) \/ RemoveFile(f)
         => pc' = pc /\ evs' = evs /\ got' = got /\ adds' = adds
  BY DEF CreateFile, WriteFile, RemoveFile, watchVars, gorVars
<1>12. \A g \in Watches : ReadFails(g) => pc' = pc /\ evs' = evs /\ got' = got /\ adds' = adds
  BY DEF ReadFails, watchVars, gorVars
<1> QED
  BY <1>1, <1>2, <1>4, <1>6, <1>7, <1>8, <1>9, <1>10, <1>11, <1>12, PollerSteps

\* A creation is counted in one of the three places only.
LEMMA AccountedStep == PollerInv /\ [PollerNext]_pollVars => Accounted'
<1> SUFFICES ASSUME PollerInv, [PollerNext]_pollVars, NEW g \in Watches, NEW f \in Files,
                    pc'[g] \notin {"none", "adding"}
             PROVE  got'[g][f] + One(Pending(g, f)') + One(Unseen(g, f)') <= created'[g][f]
  BY DEF Accounted, One, Pending, Unseen
<1>0. /\ got[g][f] \in Nat /\ created[g][f] \in Nat /\ disk[f] \in Nat /\ version \in Nat
      /\ disk \in [Files -> Versions] /\ left \in [Watches -> Recording]
      /\ pc \in [Watches -> {"none", "adding", "sleep", "read", "send", "stopped"}]
      /\ created \in [Watches -> [Files -> Nat]] /\ got \in [Watches -> [Files -> Nat]]
      /\ evs \in [Watches -> SUBSET Event]
  BY PollerAssumption DEF PollerInv, PollerTypeOK, Versions
<1>1. pc[g] \notin {"none", "adding"} =>
        got[g][f] + One(Pending(g, f)) + One(Unseen(g, f)) <= created[g][f]
  BY DEF PollerInv, Accounted
<1>2. CASE pc[g] \notin {"none", "adding"} /\ got'[g][f] = got[g][f] /\ created'[g][f] = created[g][f]
           /\ (Pending(g, f)' => Pending(g, f)) /\ (Unseen(g, f)' => Unseen(g, f))
  BY <1>0, <1>1, <1>2 DEF One
<1>3. CASE /\ pc' = pc /\ left' = left /\ evs' = evs /\ got' = got /\ disk' = disk
           /\ created' = created
  BY <1>2, <1>3 DEF Pending, Unseen
<1>4. ASSUME NEW h \in Files, CreateFile(h) PROVE pc' = pc /\ evs' = evs /\ got' = got /\ left' = left
  BY <1>4 DEF CreateFile, gorVars
<1>5. ASSUME NEW h \in Files, CreateFile(h)
      PROVE  got'[g][f] + One(Pending(g, f)') + One(Unseen(g, f)') <= created'[g][f]
  <2>1. CASE h = f
    <3>1. created'[g][f] = created[g][f] + 1
      BY <1>0, <1>5, <2>1 DEF CreateFile
    <3>2. ~Unseen(g, f)
      BY <1>5, <2>1 DEF CreateFile, Unseen
    <3>3. Pending(g, f)' <=> Pending(g, f)
      BY <1>4, <1>5 DEF Pending
    <3> QED
      BY <1>0, <1>1, <1>4, <1>5, <3>1, <3>2, <3>3 DEF One
  <2>2. CASE h # f
    <3>1. created'[g][f] = created[g][f] /\ disk'[f] = disk[f]
      BY <1>0, <1>5, <2>2 DEF CreateFile
    <3> QED
      BY <1>2, <1>4, <1>5, <3>1 DEF Pending, Unseen
  <2> QED
    BY <2>1, <2>2
<1>6. ASSUME NEW h \in Files, WriteFile(h) \/ RemoveFile(h)
      PROVE  got'[g][f] + One(Pending(g, f)') + One(Unseen(g, f)') <= created'[g][f]
  <2>1. pc' = pc /\ evs' = evs /\ got' = got /\ left' = left /\ created' = created
    BY <1>6 DEF WriteFile, RemoveFile, gorVars
  <2>2. disk'[f] # 0 => disk[f] # 0
    BY <1>0, <1>6 DEF WriteFile, RemoveFile
  <2> QED
    BY <1>2, <2>1, <2>2 DEF Pending, Unseen
<1>7. ASSUME NEW h \in Watches, Add(h)
      PROVE  got'[g][f] + One(Pending(g, f)') + One(Unseen(g, f)') <= created'[g][f]
  <2>1. pc'[g] = pc[g]
    BY <1>0, <1>7 DEF Add
  <2> QED
    BY <1>2, <1>7, <2>1 DEF Add, Pending, Unseen, diskVars
<1>8. ASSUME NEW h \in Watches, AddRecorded(h)
      PROVE  got'[g][f] + One(Pending(g, f)') + One(Unseen(g, f)') <= created'[g][f]
  <2>1. CASE h = g
    <3>1. got'[g][f] = 0 /\ created'[g][f] = 0
      BY <1>0, <1>8, <2>1 DEF AddRecorded, PollerInv, Unused, Empty
    <3>2. ~Pending(g, f)'
      BY <1>8, <2>1 DEF AddRecorded, PollerInv, Drained, Pending
    <3>3. ~Unseen(g, f)'
      BY <1>0, <1>8, <2>1 DEF AddRecorded, Unseen
    <3> QED
      BY <3>1, <3>2, <3>3 DEF One
  <2>2. CASE h # g
    <3>1. pc'[g] = pc[g] /\ left'[g] = left[g] /\ created'[g] = created[g]
      BY <1>0, <1>8, <2>2 DEF AddRecorded
    <3> QED
      BY <1>2, <1>8, <3>1 DEF AddRecorded, Pending, Unseen
  <2> QED
    BY <2>1, <2>2
<1>9. ASSUME NEW h \in Watches, NEW r \in Recording, Compare(h, r), pc[h] \in {"sleep", "read"},
             r.entries = disk, disk' = disk, got' = got, created' = created
      PROVE  got'[g][f] + One(Pending(g, f)') + One(Unseen(g, f)') <= created'[g][f]
  <2>1. CASE h = g
    <3>1. left'[g] = r /\ evs'[g] = checkForChanges(left[g], r)
      BY <1>0, <1>9, <2>1 DEF Compare
    <3>2. ~Unseen(g, f)'
      BY <1>9, <3>1 DEF Unseen
    <3>3. Pending(g, f)' => Unseen(g, f)
      BY <1>0, <1>9, <3>1, Comparison DEF Pending, Unseen
    <3> QED
      BY <1>0, <1>1, <1>9, <2>1, <3>2, <3>3 DEF One
  <2>2. CASE h # g
    <3>1. pc'[g] = pc[g] /\ left'[g] = left[g] /\ evs'[g] = evs[g]
      BY <1>0, <1>9, <2>2 DEF Compare
    <3> QED
      BY <1>2, <1>9, <3>1 DEF Pending, Unseen
  <2> QED
    BY <2>1, <2>2
<1>10. ASSUME NEW h \in Watches, Tick(h)
       PROVE  got'[g][f] + One(Pending(g, f)') + One(Unseen(g, f)') <= created'[g][f]
  <2>1. CASE dir
    <3>1. pc[g] \notin {"none", "adding"}
      BY <1>0, <1>10, <2>1 DEF Tick
    <3> QED
      BY <1>2, <1>10, <2>1, <3>1 DEF Tick, Pending, Unseen, diskVars
  <2>2. CASE ~dir
    <3>1. NoRecord.entries = disk
      BY <2>2 DEF PollerInv, PollerTypeOK, NoRecord
    <3> QED
      BY <1>9, <1>10, <2>2, <3>1, EmptyTypes DEF Tick, diskVars
  <2> QED
    BY <2>1, <2>2
<1>11. ASSUME NEW h \in Watches, Read(h)
       PROVE  got'[g][f] + One(Pending(g, f)') + One(Unseen(g, f)') <= created'[g][f]
  <2>1. [dir |-> TRUE, entries |-> disk] \in Recording
    BY <1>0 DEF Recording
  <2> QED
    BY <1>9, <1>11, <2>1 DEF Read, diskVars
<1>12. ASSUME NEW h \in Watches, NEW e \in evs[h], Send(h, e)
       PROVE  got'[g][f] + One(Pending(g, f)') + One(Unseen(g, f)') <= created'[g][f]
  <2>1. pc[g] \notin {"none", "adding"}
    BY <1>0, <1>12 DEF Send
  <2>2. left' = left /\ disk' = disk /\ created' = created
    BY <1>12 DEF Send, diskVars
  <2>3. Unseen(g, f)' <=> Unseen(g, f)
    BY <2>2 DEF Unseen
  <2>4. e \in Event
    BY <1>0
  <2>5. CASE h = g /\ e.op = "Create" /\ e.name = f
    <3>1. e = [op |-> "Create", name |-> f]
      BY <2>4, <2>5 DEF Event
    <3>2. Pending(g, f) /\ ~Pending(g, f)'
      BY <1>0, <1>12, <2>5, <3>1 DEF Pending, Send
    <3>3. got'[g][f] = got[g][f] + 1
      BY <1>0, <1>12, <2>5 DEF Send
    <3> QED
      BY <1>0, <1>1, <2>1, <2>2, <2>3, <3>2, <3>3 DEF One
  <2>6. CASE ~(h = g /\ e.op = "Create" /\ e.name = f)
    <3>1. got'[g][f] = got[g][f]
      BY <1>0, <1>12, <2>6 DEF Send
    <3>2. Pending(g, f)' => Pending(g, f)
      BY <1>0, <1>12 DEF Pending, Send
    <3> QED
      BY <1>2, <2>1, <2>2, <2>3, <3>1, <3>2
  <2> QED
    BY <2>5, <2>6
<1>13. ASSUME NEW h \in Watches, Stop(h)
       PROVE  got'[g][f] + One(Pending(g, f)') + One(Unseen(g, f)') <= created'[g][f]
  <2>1. pc[g] \notin {"none", "adding"}
    BY <1>0, <1>13 DEF Stop
  <2> QED
    BY <1>2, <1>13, <2>1 DEF Stop, Pending, Unseen, diskVars
<1>14. \/ UNCHANGED pollVars \/ RemoveDir \/ MakeDir \/ Remove \/ Close
       \/ \E h \in Watches : ReadFails(h)
       => /\ pc' = pc /\ left' = left /\ evs' = evs /\ got' = got /\ disk' = disk
          /\ created' = created
  BY DEF pollVars, RemoveDir, MakeDir, Remove, Close, ReadFails, watchVars, gorVars, diskVars
<1> QED
  BY <1>3, <1>5, <1>6, <1>7, <1>8, <1>10, <1>11, <1>12, <1>13, <1>14, PollerSteps

LEMMA PollerInvariant == PollerSpec => []PollerInv
<1>1. PollerInv /\ [PollerNext]_pollVars => PollerInv'
  BY PollerTypeStep, BookkeepingStep, AccountedStep DEF PollerInv
<1> QED
  BY <1>1, PollerInitInv, PTL DEF PollerSpec

-----------------------------------------------------------------------------
(* The theorems.                                                           *)

\* The recordings, events and counts of every goroutine keep their types,
\* and a directory that does not exist holds no file.
THEOREM PollerTypeCorrect == PollerSpec => []PollerTypeOK
<1>1. PollerInv => PollerTypeOK
  BY DEF PollerInv
<1> QED
  BY <1>1, PollerInvariant, PTL

\* No goroutine reports a file as created more often than it was created
\* since its watch began, for any number of files, watches and changes, and
\* whatever the directory does between Stat and Readdir.
THEOREM PollerNeverInvents == PollerSpec => []NoFalseCreate
<1>1. ASSUME PollerInv PROVE NoFalseCreate
  <2> SUFFICES ASSUME NEW g \in Watches, NEW f \in Files PROVE got[g][f] <= created[g][f]
    BY DEF NoFalseCreate
  <2>1. got[g][f] \in Nat /\ created[g][f] \in Nat
    BY <1>1 DEF PollerInv, PollerTypeOK
  <2>2. CASE pc[g] \in {"none", "adding"}
    BY <1>1, <2>1, <2>2 DEF PollerInv, Unused, Empty
  <2>3. CASE pc[g] \notin {"none", "adding"}
    BY <1>1, <2>1, <2>3 DEF PollerInv, Accounted, One
  <2> QED
    BY <2>2, <2>3
<1> QED
  BY <1>1, PollerInvariant, PTL
=============================================================================
