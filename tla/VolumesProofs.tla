--------------------------- MODULE VolumesProofs ---------------------------
(***************************************************************************)
(* For any pods, objects, number of CreatePod calls and failures: the       *)
(* mounting of volumes takes only steps of AtomicWriter on the volume       *)
(* directory, so that its containers see complete payloads, and emptyDir,   *)
(* hostPath and payload volumes make HPK panic only when two CreatePod      *)
(* goroutines mount them.                                                  *)
(*                                                                         *)
(* The invariant speaks of the record of each goroutine (CreatorOK) and of  *)
(* the links of hostPath volumes (LinkMade): some goroutine has made the    *)
(* link and moved on to a later volume, so the one that finds it there is   *)
(* another.                                                                *)
(*                                                                         *)
(* A job that is submitted has its volumes: each volume that a goroutine    *)
(* has got past is in place for good (MountedInv), and of the Writes that   *)
(* have renamed ..data one has linked its names or is about to (LinksInv).  *)
(***************************************************************************)
EXTENDS Volumes, AtomicWriterProofs

Creators == [pc : CreatorSteps, vol : Nat, src : Nat, tries : Nat, bad : BOOLEAN,
             acc : Payloads, failed : BOOLEAN]

CreatorOK(r) ==
    /\ r \in Creators /\ r.vol \in 1 .. Len(pod) + 1 /\ r.tries \in 0 .. MaxTries - 1
    /\ r.pc \in {"get", "write", "pv"} => r.vol \in DOMAIN pod
    /\ r.pc = "pv" => pod[r.vol].kind = "claim"

EnvironmentOK ==
    /\ object \in [Objects -> Payloads] /\ there \subseteq Objects /\ changes \in 0 .. MaxChanges
    /\ claim \in {"missing", "unbound", "bound"} /\ pv \in {"missing", "local"}
    /\ host \in {"missing", "directory", "file", "other"} /\ hpk \in {"up", "panic", "fault"}

CreatorsOK ==
    /\ pod \in Pods /\ placed \subseteq DOMAIN pod
    /\ cr \in [Writers -> Creators] /\ \A c \in Writers : CreatorOK(cr[c])

LinkMade ==
    \A i \in placed : pod[i].kind = "hostPath" =>
        \E d \in Writers : cr[d].pc # "idle" /\ cr[d].vol > i

VolumesInv == EnvironmentOK /\ CreatorsOK /\ LinkMade /\ PanicNeedsCause

\* What a step of goroutine c makes of its record, of the volume directory and of HPK.
Onward(c, r)  == CreatorOK(r) /\ r.vol >= cr[c].vol /\ r.pc # "idle"
Advance(c, r) == cr' = [cr EXCEPT ![c] = r] /\ (Onward(c, r) \/ r = cr[c])

Placing(c, r) ==
    \/ placed' = placed
    \/ /\ cr[c].vol \in DOMAIN pod /\ placed' = placed \cup {cr[c].vol}
       /\ pod[cr[c].vol].kind = "hostPath" => r.vol > cr[c].vol /\ r.pc # "idle"

Panicking(c) ==
    hpk' = "panic" =>
        /\ cr' = cr /\ host' = host
        /\ \/ \E i \in DOMAIN pod : Culprit(i)
           \/ cr[c].pc # "idle" /\ cr[c].vol \in placed /\ pod[cr[c].vol].kind = "hostPath"

CreatorMove(c) ==
    /\ pod' = pod /\ EnvironmentOK' /\ Panicking(c)
    /\ \E r : Advance(c, r) /\ Placing(c, r)

LEMMA PodTypes ==
    ASSUME CreatorsOK
    PROVE  /\ Len(pod) \in Nat /\ DOMAIN pod = 1 .. Len(pod)
           /\ \A i \in DOMAIN pod : pod[i].kind \in Kinds
<1>1. pod \in Pods /\ \A p \in Pods : p \in Seq([kind : Kinds, sources : Seq(Sources)])
  BY VolumesAssumption DEF CreatorsOK
<1> DEFINE S == [kind : Kinds, sources : Seq(Sources)]
<1>2. pod \in Seq(S)
  BY <1>1
<1>3. \A v \in S : v.kind \in Kinds
  OBVIOUS
<1> HIDE DEF S
<1> QED
  BY <1>2, <1>3

LEMMA MergeTypes ==
    ASSUME NEW acc \in Payloads, NEW d \in Payloads, NEW s
    PROVE  Merge(acc, s, d) \in Payloads
  BY WriterAssumption DEF Merge, Payloads

LEMMA TokenTypes == \A c \in Writers : [n \in Names |-> c] \in Payloads /\ [n \in Names |-> 1] \in Payloads
  BY VolumesAssumption, WriterAssumption DEF Payloads, Writers

\* The records that the steps of CreatePod give a goroutine.
LEMMA Records ==
    ASSUME CreatorsOK, NEW c \in Writers
    PROVE  /\ \A t \in {"mount", "submit", "submitted", "saved", "failed"} : Onward(c, [cr[c] EXCEPT !.pc = t])
           /\ Onward(c, [cr[c] EXCEPT !.pc = "failed", !.failed = TRUE])
           /\ cr[c].tries + 1 < MaxTries /\ cr[c].pc # "idle" => Onward(c, [cr[c] EXCEPT !.tries = @ + 1])
<1> cr[c] \in Creators /\ CreatorOK(cr[c])
  BY DEF CreatorsOK
<1>0. Len(pod) \in Nat /\ DOMAIN pod = 1 .. Len(pod) /\ MaxTries \in Nat \ {0}
  BY PodTypes, VolumesAssumption
<1>1. \A t \in {"mount", "submit", "submitted", "saved", "failed"} : Onward(c, [cr[c] EXCEPT !.pc = t])
  BY <1>0 DEF Onward, CreatorOK, Creators, CreatorSteps
<1>2. Onward(c, [cr[c] EXCEPT !.pc = "failed", !.failed = TRUE])
  <2>1. LET r == [cr[c] EXCEPT !.pc = "failed", !.failed = TRUE]
        IN  r \in Creators /\ r.pc = "failed" /\ r.vol = cr[c].vol /\ r.tries = cr[c].tries
    BY DEF Creators, CreatorSteps
  <2>2. cr[c].vol \in Nat
    BY DEF Creators
  <2> QED
    BY <1>0, <2>1, <2>2 DEF Onward, CreatorOK
<1>3. ASSUME cr[c].tries + 1 < MaxTries, cr[c].pc # "idle"
      PROVE  Onward(c, [cr[c] EXCEPT !.tries = @ + 1])
  <2> DEFINE n == cr[c].tries + 1
  <2>1. n \in 0 .. MaxTries - 1 /\ n \in Nat /\ cr[c].vol \in Nat
    BY <1>0, <1>3 DEF Creators
  <2> HIDE DEF n
  <2>2. LET r == [cr[c] EXCEPT !.tries = n]
        IN  r \in Creators /\ r.pc = cr[c].pc /\ r.vol = cr[c].vol /\ r.tries = n
    BY <2>1 DEF Creators
  <2>3. Onward(c, [cr[c] EXCEPT !.tries = n])
    BY <1>3, <2>1, <2>2 DEF Onward, CreatorOK
  <2> QED
    BY <2>3 DEF n
<1> QED
  BY <1>1, <1>2, <1>3

\* The same, while it is at one of the pod's volumes.
LEMMA VolumeRecords ==
    ASSUME CreatorsOK, NEW c \in Writers, cr[c].vol \in DOMAIN pod
    PROVE  /\ Onward(c, NextVolume(cr[c])) /\ NextVolume(cr[c]).vol > cr[c].vol
           /\ Onward(c, [NextVolume(cr[c]) EXCEPT !.failed = TRUE])
           /\ \A t \in {"get", "write"} : Onward(c, [cr[c] EXCEPT !.pc = t])
           /\ pod[cr[c].vol].kind = "claim" => Onward(c, [cr[c] EXCEPT !.pc = "pv", !.tries = 0])
<1> cr[c] \in Creators /\ CreatorOK(cr[c])
  BY DEF CreatorsOK
<1>0. Len(pod) \in Nat /\ DOMAIN pod = 1 .. Len(pod) /\ MaxTries \in Nat \ {0} /\ cr[c].vol \in Nat
  BY PodTypes, VolumesAssumption DEF Creators
<1>1. \A t \in {"get", "write"} : Onward(c, [cr[c] EXCEPT !.pc = t])
  BY <1>0 DEF Onward, CreatorOK, Creators, CreatorSteps
<1>2. ASSUME pod[cr[c].vol].kind = "claim"
      PROVE  Onward(c, [cr[c] EXCEPT !.pc = "pv", !.tries = 0])
  <2>1. LET r == [cr[c] EXCEPT !.pc = "pv", !.tries = 0]
        IN  r \in Creators /\ r.pc = "pv" /\ r.vol = cr[c].vol /\ r.tries = 0
    BY DEF Creators, CreatorSteps
  <2> QED
    BY <1>0, <1>2, <2>1 DEF Onward, CreatorOK
<1>3. /\ NextVolume(cr[c]) \in Creators /\ NextVolume(cr[c]).pc = "mount"
      /\ NextVolume(cr[c]).vol = cr[c].vol + 1 /\ NextVolume(cr[c]).tries = 0
  <2> DEFINE v == cr[c].vol + 1
  <2>1. v \in Nat
    BY DEF Creators
  <2> HIDE DEF v
  <2>2. LET r == [cr[c] EXCEPT !.pc = "mount", !.vol = v, !.src = 1, !.tries = 0, !.bad = FALSE]
        IN  r \in Creators /\ r.pc = "mount" /\ r.vol = v /\ r.tries = 0
    BY <2>1 DEF Creators, CreatorSteps
  <2> QED
    BY <2>2 DEF v, NextVolume
<1>4. LET r == [NextVolume(cr[c]) EXCEPT !.failed = TRUE]
      IN  r \in Creators /\ r.pc = "mount" /\ r.vol = cr[c].vol + 1 /\ r.tries = 0
  BY <1>3 DEF Creators
<1>5. Onward(c, NextVolume(cr[c])) /\ NextVolume(cr[c]).vol > cr[c].vol
  BY <1>0, <1>3 DEF Onward, CreatorOK
<1>6. Onward(c, [NextVolume(cr[c]) EXCEPT !.failed = TRUE])
  BY <1>0, <1>4 DEF Onward, CreatorOK
<1> QED
  BY <1>1, <1>2, <1>5, <1>6

LEMMA CollectRecords ==
    ASSUME CreatorsOK, NEW c \in Writers, cr[c].pc = "get", NEW q \in Payloads, NEW b \in BOOLEAN
    PROVE  Onward(c, [cr[c] EXCEPT !.src = @ + 1, !.tries = 0, !.bad = b, !.acc = q])
<1> cr[c] \in Creators /\ CreatorOK(cr[c])
  BY DEF CreatorsOK
<1> DEFINE n == cr[c].src + 1
<1>1. n \in Nat /\ cr[c].vol \in Nat
  BY DEF Creators
<1> HIDE DEF n
<1>2. LET r == [cr[c] EXCEPT !.src = n, !.tries = 0, !.bad = b, !.acc = q]
      IN  r \in Creators /\ r.pc = "get" /\ r.vol = cr[c].vol /\ r.tries = 0
  BY <1>1 DEF Creators
<1>3. Onward(c, [cr[c] EXCEPT !.src = n, !.tries = 0, !.bad = b, !.acc = q])
  BY <1>1, <1>2, VolumesAssumption DEF Onward, CreatorOK
<1> QED
  BY <1>3 DEF n

-----------------------------------------------------------------------------
\* The three forms a step takes: a new record and nothing else, a panic, a link or a panic.
LEMMA NewRecord ==
    ASSUME EnvironmentOK, NEW c \in Writers, NEW r, Set(c, r), Onward(c, r), hpk = "up",
           UNCHANGED <<pod, placed, envVars, host, hpk>>
    PROVE  CreatorMove(c)
<1>1. Advance(c, r) /\ Placing(c, r)
  BY DEF Set, Advance, Placing
<1>2. EnvironmentOK' /\ Panicking(c)
  BY DEF EnvironmentOK, envVars, Panicking
<1> QED
  BY <1>1, <1>2 DEF CreatorMove

LEMMA Panic ==
    ASSUME EnvironmentOK, CreatorsOK, NEW c \in Writers, SystemPanic, UNCHANGED <<pod, envVars>>,
           \/ \E i \in DOMAIN pod : Culprit(i)
           \/ cr[c].pc # "idle" /\ cr[c].vol \in placed /\ pod[cr[c].vol].kind = "hostPath"
    PROVE  CreatorMove(c)
<1>1. Advance(c, cr[c]) /\ Placing(c, cr[c])
  BY DEF SystemPanic, Advance, Placing, CreatorsOK
<1>2. EnvironmentOK' /\ Panicking(c)
  BY DEF EnvironmentOK, envVars, SystemPanic, Panicking
<1> QED
  BY <1>1, <1>2 DEF CreatorMove

LEMMA Link ==
    ASSUME EnvironmentOK, CreatorsOK, NEW c \in Writers, LinkOrPanic(c), UNCHANGED <<pod, envVars>>,
           hpk = "up", cr[c].pc # "idle", cr[c].vol \in DOMAIN pod,
           Culprit(cr[c].vol) \/ pod[cr[c].vol].kind = "hostPath"
    PROVE  CreatorMove(c)
<1>1. CASE cr[c].vol \in placed /\ SystemPanic
  BY <1>1, Panic
<1>2. CASE /\ cr[c].vol \notin placed /\ placed' = placed \cup {cr[c].vol}
           /\ Set(c, NextVolume(cr[c])) /\ UNCHANGED <<host, hpk>>
  <2>1. Advance(c, NextVolume(cr[c])) /\ Placing(c, NextVolume(cr[c]))
    BY <1>2, VolumeRecords DEF Set, Advance, Placing, Onward
  <2>2. EnvironmentOK' /\ Panicking(c)
    BY <1>2 DEF EnvironmentOK, envVars, Panicking
  <2> QED
    BY <2>1, <2>2 DEF CreatorMove
<1> QED
  BY <1>1, <1>2 DEF LinkOrPanic

LEMMA AtVolume ==
    ASSUME CreatorsOK, NEW c \in Writers, NEW kinds, Mounting(c, kinds)
    PROVE  /\ hpk = "up" /\ cr[c].pc = "mount" /\ cr[c].vol \in DOMAIN pod
           /\ pod[cr[c].vol].kind \in kinds
  BY PodTypes DEF Mounting, At, Vol, CreatorsOK, CreatorOK

LEMMA CollectMove ==
    ASSUME EnvironmentOK, CreatorsOK, NEW c \in Writers, cr[c].pc = "get", hpk = "up",
           UNCHANGED <<pod, placed, envVars, host, hpk>>,
           NotCollected(c) \/ \E d \in Payloads : Collected(c, d)
    PROVE  CreatorMove(c)
<1>0. cr[c] \in Creators /\ cr[c].acc \in Payloads
  BY DEF CreatorsOK, Creators
<1>1. CASE NotCollected(c)
  <2>1. [cr[c] EXCEPT !.src = @ + 1, !.tries = 0, !.bad = TRUE]
          = [cr[c] EXCEPT !.src = @ + 1, !.tries = 0, !.bad = TRUE, !.acc = cr[c].acc]
    BY <1>0 DEF Creators
  <2>2. Onward(c, [cr[c] EXCEPT !.src = @ + 1, !.tries = 0, !.bad = TRUE])
    BY <1>0, <2>1, CollectRecords
  <2> QED
    BY <1>1, <2>2, NewRecord DEF NotCollected
<1>2. CASE \E d \in Payloads : Collected(c, d)
  <2>1. PICK d \in Payloads : Collected(c, d)
    BY <1>2
  <2> DEFINE ok == MakePayloadOK(Source(c), d)
             b  == cr[c].bad \/ ~ok
             q  == IF ok THEN Merge(cr[c].acc, Source(c), d) ELSE cr[c].acc
  <2>2. b \in BOOLEAN
    OBVIOUS
  <2>3. q \in Payloads
    BY <1>0, MergeTypes
  <2>4. Set(c, [cr[c] EXCEPT !.src = @ + 1, !.tries = 0, !.bad = b, !.acc = q])
    BY <2>1 DEF Collected
  <2> HIDE DEF b, q
  <2> QED
    BY <2>2, <2>3, <2>4, CollectRecords, NewRecord
<1> QED
  BY <1>1, <1>2

LEMMA CreatorMoves ==
    ASSUME EnvironmentOK, CreatorsOK, NEW c \in Writers, CreatePod(c) \/ CreateStep(c)
    PROVE  CreatorMove(c)
<1>1. CASE CreatePod(c)
  BY <1>1, Records, NewRecord DEF CreatePod, At
<1>2. CASE MountPanics(c) \/ SubmitPanics(c)
  <2>1. Advance(c, cr[c]) /\ Placing(c, cr[c]) /\ Panicking(c)
    BY <1>2 DEF MountPanics, SubmitPanics, Advance, Placing, Panicking, CreatorsOK
  <2> QED
    BY <1>2, <2>1 DEF MountPanics, SubmitPanics, EnvironmentOK, envVars, CreatorMove
<1>3. CASE MountEmptyDir(c)
  <2>1. hpk = "up" /\ cr[c].vol \in DOMAIN pod /\ pod[cr[c].vol].kind = "emptyDir"
    BY <1>3, AtVolume DEF MountEmptyDir
  <2>2. Advance(c, NextVolume(cr[c])) /\ Placing(c, NextVolume(cr[c])) /\ Panicking(c)
    BY <1>3, <2>1, VolumeRecords DEF MountEmptyDir, Set, Advance, Placing, Panicking
  <2> QED
    BY <1>3, <2>2 DEF MountEmptyDir, EnvironmentOK, envVars, CreatorMove
<1>4. CASE MountHostPath(c)
  <2>1. hpk = "up" /\ cr[c].pc # "idle" /\ cr[c].vol \in DOMAIN pod /\ pod[cr[c].vol].kind = "hostPath"
    BY <1>4, AtVolume DEF MountHostPath
  <2>2. CASE ReturnError(c) /\ UNCHANGED <<placed, host, hpk>>
    BY <1>4, <2>1, <2>2, Records, NewRecord DEF MountHostPath, ReturnError
  <2>3. CASE LinkOrPanic(c)
    BY <1>4, <2>1, <2>3, Link DEF MountHostPath
  <2> QED
    BY <1>4, <2>2, <2>3 DEF MountHostPath
<1>5. CASE CheckType(c)
  <2>1. /\ hpk = "up" /\ cr[c].vol \in DOMAIN pod /\ pod[cr[c].vol].kind \in PathTypes
        /\ Vol(c).kind = pod[cr[c].vol].kind
    BY <1>5, AtVolume DEF CheckType, Vol
  <2>2. CASE ~TypeOK(Vol(c).kind) /\ SystemPanic
    <3>1. Culprit(cr[c].vol)
      BY <2>1, <2>2 DEF Culprit
    <3> QED
      BY <1>5, <2>1, <2>2, <3>1, Panic DEF CheckType
  <2>3. CASE host' = Expected(Vol(c).kind) /\ Set(c, NextVolume(cr[c])) /\ UNCHANGED <<placed, hpk>>
    <3>1. Advance(c, NextVolume(cr[c])) /\ Placing(c, NextVolume(cr[c])) /\ Panicking(c)
      BY <2>1, <2>3, VolumeRecords DEF Set, Advance, Placing, Panicking
    <3>2. Expected(Vol(c).kind) \in {"missing", "directory", "file", "other"}
      BY DEF Expected
    <3> QED
      BY <1>5, <2>3, <3>1, <3>2 DEF CheckType, EnvironmentOK, envVars, CreatorMove
  <2> QED
    BY <1>5, <2>2, <2>3 DEF CheckType
<1>6. CASE DownwardAPIVolumeSource(c)
  <2>1. /\ hpk = "up" /\ cr[c].vol \in DOMAIN pod /\ pod[cr[c].vol].kind = "downwardAPI"
        /\ Culprit(cr[c].vol)
    BY <1>6, AtVolume DEF DownwardAPIVolumeSource, Culprit
  <2>2. CASE SystemPanic
    BY <1>6, <2>1, <2>2, Panic DEF DownwardAPIVolumeSource
  <2>3. CASE /\ placed' = placed \cup {cr[c].vol} /\ UNCHANGED <<host, hpk>>
             /\ MarkFailed(c) \/ Set(c, NextVolume(cr[c]))
    <3>1. PICK r : Set(c, r) /\ Onward(c, r)
      BY <2>1, <2>3, VolumeRecords DEF MarkFailed
    <3>2. Advance(c, r) /\ Placing(c, r) /\ Panicking(c)
      BY <2>1, <2>3, <3>1 DEF Set, Advance, Placing, Panicking
    <3> QED
      BY <1>6, <2>3, <3>2 DEF DownwardAPIVolumeSource, EnvironmentOK, envVars, CreatorMove
  <2> QED
    BY <1>6, <2>2, <2>3 DEF DownwardAPIVolumeSource
<1>7. CASE GetClaim(c)
  <2>1. hpk = "up" /\ cr[c].pc # "idle" /\ cr[c].vol \in DOMAIN pod /\ pod[cr[c].vol].kind = "claim"
    BY <1>7, AtVolume DEF GetClaim
  <2>2. CASE Set(c, [cr[c] EXCEPT !.pc = "pv", !.tries = 0])
    BY <1>7, <2>1, <2>2, VolumeRecords, NewRecord DEF GetClaim
  <2>3. CASE Retry(c)
    BY <1>7, <2>1, <2>3, Records, NewRecord DEF GetClaim, Retry
  <2>4. CASE MarkFailed(c)
    BY <1>7, <2>1, <2>4, VolumeRecords, NewRecord DEF GetClaim, MarkFailed
  <2> QED
    BY <1>7, <2>2, <2>3, <2>4 DEF GetClaim
<1>8. CASE GetVolume(c)
  <2>1. /\ hpk = "up" /\ cr[c].pc = "pv" /\ cr[c].vol \in DOMAIN pod
        /\ Culprit(cr[c].vol)
    BY <1>8 DEF GetVolume, At, CreatorsOK, CreatorOK, Culprit
  <2>2. CASE LinkOrPanic(c)
    BY <1>8, <2>1, <2>2, Link DEF GetVolume
  <2>3. CASE Retry(c) /\ UNCHANGED <<placed, host, hpk>>
    BY <1>8, <2>1, <2>3, Records, NewRecord DEF GetVolume, Retry
  <2>4. CASE SystemPanic
    BY <1>8, <2>1, <2>4, Panic DEF GetVolume
  <2> QED
    BY <1>8, <2>2, <2>3, <2>4 DEF GetVolume
<1>9. CASE MountPayload(c)
  <2>1. hpk = "up" /\ cr[c].vol \in DOMAIN pod /\ pod[cr[c].vol].kind = "payload"
    BY <1>9, AtVolume DEF MountPayload
  <2> DEFINE r == [cr[c] EXCEPT !.pc = "get"]
  <2>2. Advance(c, r) /\ Placing(c, r) /\ Panicking(c)
    BY <1>9, <2>1, VolumeRecords DEF MountPayload, Set, Advance, Placing, Panicking
  <2> QED
    BY <1>9, <2>2 DEF MountPayload, EnvironmentOK, envVars, CreatorMove
<1>10. CASE GetObject(c)
  <2>0. /\ hpk = "up" /\ cr[c].pc = "get" /\ Source(c).from \in Objects
        /\ UNCHANGED <<pod, placed, envVars, host, hpk>>
    BY <1>10 DEF GetObject, Collecting, At
  <2>1. object[Source(c).from] \in Payloads /\ Empty \in Payloads
    BY <2>0, PayloadTypes DEF EnvironmentOK
  <2>2. CASE \E d \in Payloads : Collected(c, d)
    BY <2>0, <2>2, CollectMove
  <2>3. CASE NotCollected(c)
    BY <2>0, <2>3, CollectMove
  <2>4. CASE Retry(c)
    BY <2>0, <2>4, Records, NewRecord DEF Retry
  <2> QED
    BY <1>10, <2>1, <2>2, <2>3, <2>4 DEF GetObject
<1>11. CASE GetToken(c)
  <2>1. /\ hpk = "up" /\ cr[c].pc = "get" /\ UNCHANGED <<pod, placed, envVars, host, hpk>>
        /\ NotCollected(c) \/ Collected(c, [n \in Names |-> c])
    BY <1>11 DEF GetToken, Collecting, At
  <2> QED
    BY <2>1, TokenTypes, CollectMove
<1>12. CASE WritePayload(c)
  BY <1>12, VolumeRecords, NewRecord DEF WritePayload, At, CreatorsOK, CreatorOK
<1>13. CASE PayloadFails(c)
  BY <1>13, Records, NewRecord DEF PayloadFails, At, ReturnError
<1>14. CASE Writing(c)
  <2>1. Advance(c, cr[c]) /\ Placing(c, cr[c]) /\ Panicking(c)
    BY <1>14 DEF Writing, At, mountVars, Advance, Placing, Panicking, CreatorsOK
  <2> QED
    BY <1>14, <2>1 DEF Writing, mountVars, EnvironmentOK, envVars, CreatorMove
<1>15. CASE WriteReturns(c)
  <2>1. CASE Set(c, NextVolume(cr[c]))
    BY <1>15, <2>1, VolumeRecords, NewRecord DEF WriteReturns, At, CreatorsOK, CreatorOK
  <2>2. CASE ReturnError(c)
    BY <1>15, <2>2, Records, NewRecord DEF WriteReturns, At, ReturnError
  <2> QED
    BY <1>15, <2>1, <2>2 DEF WriteReturns
<1>16. CASE Mounted(c)
  BY <1>16, Records, NewRecord DEF Mounted, At
<1>17. CASE Submit(c)
  <2>1. CASE ReturnError(c)
    BY <1>17, <2>1, Records, NewRecord DEF Submit, At, ReturnError
  <2>2. CASE \E t \in {"submitted", "saved"} : Set(c, [cr[c] EXCEPT !.pc = t])
    BY <1>17, <2>2, Records, NewRecord DEF Submit, At
  <2> QED
    BY <1>17, <2>1, <2>2 DEF Submit
<1>18. CASE CollectData(c)
  <2>1. /\ hpk = "up" /\ cr[c].pc = "get" /\ UNCHANGED <<pod, placed, envVars, host, hpk>>
        /\ NotCollected(c) \/ Collected(c, [n \in Names |-> 1])
    BY <1>18 DEF CollectData, Collecting, At
  <2> QED
    BY <2>1, TokenTypes, CollectMove
<1>19. CASE MountUnknown(c)
  <2>1. cr[c].vol \in DOMAIN pod /\ Culprit(cr[c].vol)
    BY <1>19, AtVolume DEF MountUnknown, Culprit
  <2> QED
    BY <1>19, <2>1, Panic DEF MountUnknown
<1> QED
  BY <1>1, <1>2, <1>3, <1>4, <1>5, <1>6, <1>7, <1>8, <1>9, <1>10, <1>11, <1>12, <1>13, <1>14, <1>15,
     <1>16, <1>17, <1>18, <1>19 DEF CreateStep

-----------------------------------------------------------------------------
LEMMA VolumesInitInv == VolumesInit => VolumesInv
<1> SUFFICES ASSUME VolumesInit PROVE VolumesInv
  OBVIOUS
<1>1. EnvironmentOK
  BY VolumesAssumption DEF VolumesInit, EnvironmentOK
<1>2. CreatorsOK
  <2>1. NewCreator \in Creators /\ NewCreator.vol = 1 /\ NewCreator.tries = 0 /\ NewCreator.pc = "idle"
    BY PayloadTypes DEF NewCreator, Creators, CreatorSteps
  <2>2. Len(pod) \in Nat
    BY VolumesAssumption DEF VolumesInit
  <2>3. CreatorOK(NewCreator)
    BY <2>1, <2>2, VolumesAssumption DEF CreatorOK
  <2> QED
    BY <2>1, <2>3 DEF VolumesInit, CreatorsOK
<1>3. LinkMade /\ PanicNeedsCause
  BY DEF VolumesInit, LinkMade, PanicNeedsCause
<1> QED
  BY <1>1, <1>2, <1>3 DEF VolumesInv

LEMMA VolumesInvStep == VolumesInv /\ [VolumesNext]_volumeVars => VolumesInv'
<1> SUFFICES ASSUME VolumesInv, [VolumesNext]_volumeVars PROVE VolumesInv'
  OBVIOUS
<1> USE DEF VolumesInv
<1>1. ASSUME UNCHANGED <<pod, cr, placed, host, hpk>>
      PROVE  CreatorsOK' /\ LinkMade' /\ PanicNeedsCause'
  BY <1>1 DEF CreatorsOK, CreatorOK, LinkMade, PanicNeedsCause, Culprit, TypeOK
<1>2. CASE UNCHANGED volumeVars
  BY <1>1, <1>2 DEF volumeVars, mountVars, envVars, EnvironmentOK
<1>3. CASE ObjectChanges
  <2>1. EnvironmentOK'
    BY <1>3, VolumesAssumption DEF ObjectChanges, EnvironmentOK
  <2> QED
    BY <1>1, <1>3, <2>1 DEF ObjectChanges
<1>4. CASE ClaimChanges
  BY <1>1, <1>4 DEF ClaimChanges, EnvironmentOK
<1>5. ASSUME NEW c \in Writers, CreatePod(c) \/ CreateStep(c) PROVE VolumesInv'
  <2>0. CreatorMove(c)
    BY <1>5, CreatorMoves
  <2>1. PICK r : Advance(c, r) /\ Placing(c, r)
    BY <2>0 DEF CreatorMove
  <2>2. /\ pod' = pod /\ EnvironmentOK' /\ Panicking(c) /\ cr' = [cr EXCEPT ![c] = r]
        /\ cr \in [Writers -> Creators] /\ CreatorOK(r)
    BY <2>0, <2>1 DEF CreatorMove, Advance, Onward, CreatorsOK
  <2>3. \A d \in Writers : cr'[d] = IF d = c THEN r ELSE cr[d]
    BY <2>2
  <2>4. CreatorsOK'
    <3>1. cr' \in [Writers -> Creators]
      BY <2>2 DEF CreatorOK
    <3>2. \A d \in Writers : CreatorOK(cr[d])'
      BY <2>2, <2>3 DEF CreatorsOK, CreatorOK
    <3>3. placed' \subseteq DOMAIN pod
      BY <2>1 DEF Placing, CreatorsOK
    <3> QED
      BY <2>2, <3>1, <3>2, <3>3 DEF CreatorsOK
  <2>5. \A d \in Writers : /\ cr[d].pc # "idle" => cr'[d].pc # "idle"
                           /\ cr'[d].vol >= cr[d].vol /\ cr[d].vol \in Nat /\ cr'[d].vol \in Nat
    <3>1. \A q \in Creators : q.vol \in Nat
      BY DEF Creators
    <3> QED
      BY <2>1, <2>2, <2>3, <3>1 DEF Advance, Onward, CreatorOK
  <2>6. LinkMade'
    <3> SUFFICES ASSUME NEW i \in placed', pod[i].kind = "hostPath"
                 PROVE  \E d \in Writers : cr'[d].pc # "idle" /\ cr'[d].vol > i
      BY <2>2 DEF LinkMade
    <3>0. i \in Nat
      BY <2>2, <2>4, PodTypes DEF CreatorsOK
    <3>1. CASE i \in placed
      <4>1. PICK d \in Writers : cr[d].pc # "idle" /\ cr[d].vol > i
        BY <3>1 DEF LinkMade
      <4> QED
        BY <3>0, <4>1, <2>5
    <3>2. CASE i \notin placed
      BY <2>1, <2>3, <3>2 DEF Placing
    <3> QED
      BY <3>1, <3>2
  <2>7. PanicNeedsCause'
    <3> SUFFICES ASSUME hpk' = "panic"
                 PROVE  \/ \E i \in DOMAIN pod : Culprit(i)
                        \/ \E d, e \in Writers : d # e /\ "idle" \notin {cr'[d].pc, cr'[e].pc}
      BY <2>2 DEF PanicNeedsCause, Panicking, Culprit, TypeOK
    <3>1. CASE cr[c].pc # "idle" /\ cr[c].vol \in placed /\ pod[cr[c].vol].kind = "hostPath"
      <4>1. PICK d \in Writers : cr[d].pc # "idle" /\ cr[d].vol > cr[c].vol
        BY <3>1 DEF LinkMade
      <4>2. d # c
        BY <4>1, <2>5
      <4> QED
        BY <3>1, <4>1, <4>2, <2>5
    <3> QED
      BY <2>2, <3>1 DEF Panicking
  <2> QED
    BY <2>2, <2>4, <2>6, <2>7
<1> QED
  BY <1>2, <1>3, <1>4, <1>5 DEF VolumesNext

\* On the volume directory, CreatePod takes the steps of a Write and no other.
LEMMA IsWriterStep == VolumesInv /\ [VolumesNext]_volumeVars => [WriterNext]_writerVars
<1> SUFFICES ASSUME VolumesInv, [VolumesNext]_volumeVars, ~UNCHANGED writerVars PROVE WriterNext
  OBVIOUS
<1>1. PICK c \in Writers : WritePayload(c) \/ Writing(c)
  BY DEF VolumesNext, volumeVars, CreateStep, CreatePod, ObjectChanges, ClaimChanges, MountPanics,
         MountEmptyDir, MountHostPath, CheckType, DownwardAPIVolumeSource, MountUnknown, GetClaim,
         GetVolume, MountPayload, GetObject, GetToken, CollectData, PayloadFails, WriteReturns, Mounted, Submit, SubmitPanics
<1>2. cr[c].acc \in Payloads
  BY DEF VolumesInv, CreatorsOK, Creators
<1> QED
  BY <1>1, <1>2 DEF WritePayload, Writing, WriterNext

LEMMA RunsWriter == VolumesSpec => WriterSpec
<1>1. VolumesInit => WriterInit
  BY DEF VolumesInit
<1> QED
  BY <1>1, VolumesInitInv, VolumesInvStep, IsWriterStep, PTL DEF VolumesSpec, WriterSpec

-----------------------------------------------------------------------------
\* No Write takes from the volume a name that every payload has.
LEMMA KeepsName ==
    ASSUME WriterInv, Sequential, [WriterNext]_writerVars,
           NEW n \in Names, Reads(n), InEveryPayload(n)'
    PROVE  Reads(n)'
<1>0. /\ WriterInv' /\ WriterTypeOK /\ wpc \in [Writers -> {"idle"} \cup Before \cup After]
      /\ data \in Writers /\ n \in links /\ n \in NamesOf(files[data])
  <2>1. WriterInv'
    BY InvStep
  <2>2. /\ WriterTypeOK /\ wpc \in [Writers -> {"idle"} \cup Before \cup After]
        /\ data \in Writers /\ n \in links /\ n \in NamesOf(files[data])
    BY WriterAssumption DEF WriterInv, Typed, WriterTypeOK, Reads, Writers
  <2> QED
    BY <2>1, <2>2
<1>1. CASE UNCHANGED <<dirs, files, data, tmp, links>>
  BY <1>1 DEF Reads
<1>2. ASSUME NEW i \in Writers, WriteStep(i) \/ Fail(i), ~Rename(i), n \in links' PROVE Reads(n)'
  <2>1. payload' = payload /\ data' = data
    BY <1>0, <1>2, OtherSteps
  <2>2. files'[data] = files[data]
    BY <1>0, <2>1 DEF WriterInv, DataComplete, Reads
  <2> QED
    BY <1>0, <1>2, <2>1, <2>2 DEF Reads
<1>3. ASSUME NEW i \in Writers, Rename(i) PROVE Reads(n)'
  <2>1. tmp = i /\ files[i] = payload[i] /\ i # 0 /\ wpc'[i] = "check"
    BY <1>0, <1>3, WriterAssumption DEF Rename, Step, WriterInv, TmpIsLock, OwnComplete, Writers
  <2>2. n \in NamesOf(payload'[i])
    BY <2>1 DEF InEveryPayload
  <2> QED
    BY <1>0, <1>3, <2>1, <2>2 DEF Rename, Reads, callVars
<1>4. ASSUME NEW i \in Writers, NEW m \in Names, RemoveUserVisiblePath(i, m) PROVE n \in links'
  <2>1. wpc'[i] # "idle" /\ payload' = payload /\ m \in toRemove[i] /\ links' = links \ {m}
    BY <1>4 DEF RemoveUserVisiblePath
  <2>2. n \in NamesOf(payload[i])
    BY <2>1 DEF InEveryPayload
  <2>3. m \notin NamesOf(payload[i])
    BY <2>1 DEF Sequential, PrunesOthers
  <2> QED
    BY <1>0, <2>1, <2>2, <2>3
<1>5. ASSUME NEW i \in Writers, WriteStep(i) \/ Fail(i), \A m \in Names : ~RemoveUserVisiblePath(i, m)
      PROVE  n \in links'
  BY <1>0, <1>5 DEF WriteStep, Fail, Readlink, PathsToRemove, Compare, NewTimestampDir, WriteFile, PayloadWritten,
         SymlinkTmp, Rename, ReadlinkName, SymlinkName, Pruned, RemoveOldDir, diskVars
<1>6. ASSUME NEW i \in Writers, \E p \in Payloads : Write(i, p) PROVE Reads(n)'
  BY <1>1, <1>6 DEF Write, diskVars
<1>7. CASE UNCHANGED writerVars
  BY <1>1, <1>7 DEF writerVars, diskVars
<1> QED
  BY <1>2, <1>3, <1>4, <1>5, <1>6, <1>7 DEF WriterNext

(* Which links there are when Writes overlap, as long as none has failed.   *)
DataThere ==
    \A i \in Writers : wpc[i] \in {"walk", "compare", "check", "link", "prune", "clean", "done"} => data # 0

\* What a Write need not link any more is linked, unless another payload is without it.
LinkedNames ==
    \A i \in Writers, n \in Names :
        wpc[i] # "idle" /\ n \in NamesOf(payload[i]) /\ n \notin toLink[i] /\ InEveryPayload(n) => n \in links

\* Of the Writes that have renamed, one has linked its names or is about to: Symlink in
\* step 9 fails only because another Write has made that very link.
Linker(i) == \/ wpc[i] # "idle" /\ toLink[i] = {}
             \/ wpc[i] = "check"
             \/ wpc[i] = "link" /\ linkname[i] \notin links

LinksInv == errors = 0 => DataThere /\ LinkedNames /\ (data # 0 => \E i \in Writers : Linker(i))

LEMMA LinksInit == WriterInit => LinksInv
  BY DEF WriterInit, LinksInv, DataThere, LinkedNames, Linker

LEMMA LinksStep == WriterInv /\ Sequential /\ LinksInv /\ [WriterNext]_writerVars => LinksInv'
<1> SUFFICES ASSUME WriterInv, Sequential, LinksInv, [WriterNext]_writerVars, errors' = 0
             PROVE  DataThere' /\ LinkedNames' /\ (data' # 0 => \E i \in Writers : Linker(i)')
  BY DEF LinksInv
<1>1. /\ wpc \in [Writers -> {"idle"} \cup Before \cup After] /\ payload \in [Writers -> Payloads]
      /\ toRemove \in [Writers -> SUBSET Names] /\ toLink \in [Writers -> SUBSET Names]
      /\ linkname \in [Writers -> Names \cup {0}] /\ links \subseteq Names /\ 0 \notin Writers
      /\ data = 0 \/ data \in Writers
      /\ errors \in Nat /\ \A p \in Payloads : NamesOf(p) \subseteq Names
      /\ PrunesOthers
  BY WriterAssumption, PayloadTypes DEF WriterInv, Typed, WriterTypeOK, Writers, Sequential
<1>2. CASE UNCHANGED writerVars
  BY <1>2 DEF LinksInv, DataThere, LinkedNames, Linker, InEveryPayload, writerVars, callVars, diskVars, auxVars
<1> SUFFICES ASSUME NEW i \in Writers, WriteStep(i) \/ Fail(i) \/ \E p \in Payloads : Write(i, p)
             PROVE  DataThere' /\ LinkedNames' /\ (data' # 0 => \E j \in Writers : Linker(j)')
  BY <1>2 DEF WriterNext
<1>3. ~Fail(i)
  BY <1>1 DEF Fail
<1>4. CASE \E p \in Payloads : Write(i, p)
  <2>1. PICK p \in Payloads : Write(i, p)
    BY <1>4
  <2>2. /\ wpc[i] = "idle" /\ wpc' = [wpc EXCEPT ![i] = "readlink"] /\ errors = 0
        /\ payload' = [payload EXCEPT ![i] = p] /\ toLink' = [toLink EXCEPT ![i] = NamesOf(p)]
        /\ UNCHANGED <<linkname, data, links>>
    BY <2>1 DEF Write, Step, diskVars
  <2>3. DataThere'
    BY <1>1, <2>2 DEF LinksInv, DataThere
  <2>4. \A n \in Names : InEveryPayload(n)' => InEveryPayload(n)
    BY <1>1, <2>2 DEF InEveryPayload
  <2>5. LinkedNames'
    BY <1>1, <2>2, <2>4 DEF LinksInv, LinkedNames
  <2>6. \A j \in Writers : Linker(j) => Linker(j)'
    BY <1>1, <2>2 DEF Linker
  <2> QED
    BY <2>2, <2>3, <2>5, <2>6 DEF LinksInv
<1> SUFFICES ASSUME WriteStep(i) PROVE DataThere' /\ LinkedNames' /\ (data' # 0 => \E j \in Writers : Linker(j)')
  BY <1>3, <1>4
<1>5. /\ errors = 0 /\ payload' = payload /\ wpc[i] # "idle"
      /\ \E t \in Before \cup After : wpc' = [wpc EXCEPT ![i] = t]
  BY <1>1 DEF WriteStep, Readlink, PathsToRemove, Compare, NewTimestampDir, WriteFile, PayloadWritten, SymlinkTmp,
         Rename, ReadlinkName, SymlinkName, RemoveUserVisiblePath, Pruned, RemoveOldDir, Step, callVars, auxVars, Before, After
<1>6. DataThere /\ LinkedNames /\ (data # 0 => \E j \in Writers : Linker(j))
  BY <1>5 DEF LinksInv
<1>7. \A n \in Names : InEveryPayload(n)' => InEveryPayload(n)
  BY <1>1, <1>5, Steps DEF InEveryPayload
<1>8. \A j \in Writers : wpc'[j] # "idle" => wpc[j] # "idle"
  BY <1>1, <1>5
<1>10. CASE Rename(i)
  <2>1. data' = i /\ data' # 0 /\ wpc'[i] = "check" /\ UNCHANGED <<toLink, links>>
    BY <1>1, <1>10 DEF Rename, Step, WriterInv, TmpIsLock, callVars
  <2> QED
    BY <2>1, <1>5, <1>6, <1>7, <1>8 DEF DataThere, LinkedNames, Linker
<1>11. CASE ReadlinkName(i)
  <2>0. wpc[i] = "check" /\ UNCHANGED <<data, links>>
    BY <1>11 DEF ReadlinkName, Step, diskVars
  <2>1. DataThere'
    BY <1>1, <1>5, <1>6, <2>0 DEF DataThere
  <2>2. LinkedNames'
    <3> SUFFICES ASSUME NEW j \in Writers, NEW n \in Names, wpc'[j] # "idle", n \in NamesOf(payload[j]),
                        n \notin toLink'[j], InEveryPayload(n)
                 PROVE  n \in links
      BY <1>5, <1>7, <2>0 DEF LinkedNames
    <3>1. n \notin toLink[j] \/ n \in links
      BY <1>1, <1>11 DEF ReadlinkName
    <3> QED
      BY <1>6, <1>8, <3>1 DEF LinkedNames
  <2>3. Linker(i)'
    BY <1>1, <1>11 DEF ReadlinkName, Linker, Step, diskVars
  <2> QED
    BY <2>1, <2>2, <2>3
<1>12. CASE SymlinkName(i)
  <2>0. /\ wpc[i] = "link" /\ data' = data /\ links' = links \cup {linkname[i]}
        /\ toLink' = [toLink EXCEPT ![i] = @ \ {linkname[i]}] /\ linkname' = [linkname EXCEPT ![i] = 0]
    BY <1>12 DEF SymlinkName, Step
  <2>1. DataThere'
    BY <1>1, <1>5, <1>6, <2>0 DEF DataThere
  <2>2. LinkedNames'
    <3> SUFFICES ASSUME NEW j \in Writers, NEW n \in Names, wpc'[j] # "idle", n \in NamesOf(payload[j]),
                        n \notin toLink'[j], InEveryPayload(n)
                 PROVE  n \in links'
      BY <1>5, <1>7 DEF LinkedNames
    <3>1. n \notin toLink[j] \/ n \in links'
      BY <1>1, <2>0
    <3> QED
      BY <1>6, <1>8, <2>0, <3>1 DEF LinkedNames
  <2>3. CASE linkname[i] \notin links
    <3>1. wpc'[i] = "check"
      BY <1>1, <1>12, <2>3 DEF SymlinkName, Step
    <3> QED
      BY <2>1, <2>2, <3>1 DEF Linker
  <2>4. CASE linkname[i] \in links
    <3>1. links' = links
      BY <2>0, <2>4
    <3>2. \A j \in Writers : Linker(j) => Linker(j)'
      BY <1>1, <1>5, <2>0, <2>4, <3>1, Steps DEF Linker
    <3> QED
      BY <1>6, <2>0, <2>1, <2>2, <3>2
  <2> QED
    BY <2>3, <2>4
<1>13. CASE \E m \in Names : RemoveUserVisiblePath(i, m)
  <2>0. PICK m \in Names : RemoveUserVisiblePath(i, m)
    BY <1>13
  <2>1. wpc[i] = "prune" /\ UNCHANGED <<wpc, toLink, linkname, data>> /\ links' = links \ {m} /\ m \notin NamesOf(payload[i])
    BY <1>1, <2>0 DEF RemoveUserVisiblePath, PrunesOthers
  <2>2. \A n \in Names : InEveryPayload(n) => n # m
    BY <2>1 DEF InEveryPayload
  <2>3. LinkedNames'
    BY <1>5, <1>6, <1>7, <2>1, <2>2 DEF LinkedNames
  <2>4. \A j \in Writers : Linker(j) => Linker(j)'
    BY <2>1 DEF Linker
  <2> QED
    BY <1>6, <2>1, <2>3, <2>4 DEF DataThere
<1>14. CASE /\ UNCHANGED <<toLink, linkname, data, links>> /\ wpc[i] \notin {"check", "link"}
            /\ DataThere'
  <2>1. LinkedNames'
    BY <1>5, <1>6, <1>7, <1>8, <1>14 DEF LinkedNames
  <2>2. \A j \in Writers : Linker(j) => Linker(j)'
    BY <1>1, <1>5, <1>14, Steps DEF Linker
  <2> QED
    BY <1>6, <1>14, <2>1, <2>2
<1>15. ASSUME Readlink(i) \/ PathsToRemove(i) \/ Compare(i) \/ NewTimestampDir(i) \/ PayloadWritten(i) \/ Pruned(i) \/ RemoveOldDir(i)
       PROVE  UNCHANGED <<toLink, linkname, data, links>> /\ wpc[i] \notin {"check", "link"} /\ DataThere'
  BY <1>1, <1>6, <1>15 DEF Readlink, PathsToRemove, Compare, NewTimestampDir, PayloadWritten, Pruned, RemoveOldDir, Step,
         callVars, diskVars, DataThere
<1>16. ASSUME SymlinkTmp(i) \/ \E n \in Names : WriteFile(i, n)
       PROVE  UNCHANGED <<toLink, linkname, data, links>> /\ wpc[i] \notin {"check", "link"} /\ DataThere'
  BY <1>1, <1>6, <1>16 DEF SymlinkTmp, WriteFile, Step, callVars, diskVars, DataThere
<1> QED
  BY <1>10, <1>11, <1>12, <1>13, <1>14, <1>15, <1>16 DEF WriteStep

-----------------------------------------------------------------------------
(* The volumes that goroutine c has got past, and how: what makes a volume  *)
(* be in place is not undone.                                              *)
Passed(c, i) ==
    /\ pod[i].kind = "payload" => wpc[c] = "done"
    /\ pod[i].kind \in PathTypes => host = Expected(pod[i].kind)
    /\ pod[i].kind \in {"claim", "downwardAPI"} => i \in placed \/ cr[c].failed
    /\ pod[i].kind \in {"emptyDir", "hostPath", "unknown"} => i \in placed

MountedBy(c) ==
    /\ \A i \in DOMAIN pod : i < cr[c].vol => Passed(c, i)
    /\ cr[c].pc \in {"submit", "submitted", "saved"} => cr[c].vol > Len(pod)
    /\ cr[c].pc \in {"get", "write"} => pod[cr[c].vol].kind = "payload"

MountedInv == \A c \in Writers : MountedBy(c)

\* What a step leaves of the world, and the two things it does to a goroutine: it stays at
\* its volume, or goes to the next one when this one has been passed.
Lasting ==
    /\ pod' = pod /\ placed \subseteq placed'
    /\ \A t \in PathTypes : host = Expected(t) => host' = Expected(t)
    /\ \A d \in Writers : wpc[d] = "done" => wpc'[d] = "done"

Stays(c, r) ==
    /\ r.vol = cr[c].vol /\ (cr[c].failed => r.failed)
    /\ r.pc \in {"submit", "submitted", "saved"} => r.vol > Len(pod)
    /\ r.pc \in {"get", "write"} => pod[r.vol].kind = "payload"

Passes(c, r) ==
    /\ r.pc = "mount" /\ (cr[c].failed => r.failed)
    /\ \E i \in DOMAIN pod : i = cr[c].vol /\ r.vol = i + 1 /\ Passed(c, i)'

MountMove(c) == Lasting /\ \E r : cr' = [cr EXCEPT ![c] = r] /\ (Stays(c, r) \/ Passes(c, r))

LEMMA MoveKeepsMounted ==
    ASSUME CreatorsOK, MountedInv, NEW c \in Writers, MountMove(c)
    PROVE  MountedInv'
<1>1. PICK r : cr' = [cr EXCEPT ![c] = r] /\ (Stays(c, r) \/ Passes(c, r))
  BY DEF MountMove
<1>2. Lasting /\ \A d \in Writers : cr'[d] = IF d = c THEN r ELSE cr[d]
  BY <1>1 DEF MountMove, CreatorsOK
<1>3. \A d \in Writers : cr[d].vol \in Nat
  BY DEF CreatorsOK, Creators
<1>4. Len(pod) \in Nat /\ DOMAIN pod = 1 .. Len(pod)
  BY PodTypes
<1>5. \A d \in Writers : cr[d].failed => cr'[d].failed
  BY <1>1, <1>2 DEF Stays, Passes
<1>6. \A d \in Writers, i \in DOMAIN pod : Passed(d, i) => Passed(d, i)'
  BY <1>2, <1>5 DEF Passed, Lasting
<1>7. ASSUME NEW d \in Writers, d # c PROVE MountedBy(d)'
  BY <1>2, <1>6, <1>7 DEF MountedInv, MountedBy, Lasting
<1>8. MountedBy(c)'
  <2>1. CASE Stays(c, r)
    BY <1>2, <1>6, <2>1 DEF MountedInv, MountedBy, Lasting, Stays
  <2>2. CASE Passes(c, r)
    <3>1. \A i \in DOMAIN pod : i < r.vol => i < cr[c].vol \/ i = cr[c].vol
      BY <1>3, <1>4, <2>2 DEF Passes
    <3>2. \A i \in DOMAIN pod : i < r.vol => Passed(c, i)'
      BY <1>6, <2>2, <3>1 DEF Passes, MountedInv, MountedBy
    <3> QED
      BY <1>2, <2>2, <3>2 DEF MountedBy, Lasting, Passes
  <2> QED
    BY <1>1, <2>1, <2>2
<1> QED
  BY <1>7, <1>8 DEF MountedInv

\* The records of CreatePod again: which field each of them changes.
LEMMA RecordFields ==
    ASSUME CreatorsOK, NEW c \in Writers
    PROVE  /\ \A t \in CreatorSteps : LET r == [cr[c] EXCEPT !.pc = t]
                                      IN  r.pc = t /\ r.vol = cr[c].vol /\ r.failed = cr[c].failed
           /\ LET r == [cr[c] EXCEPT !.pc = "failed", !.failed = TRUE]
              IN  r.pc = "failed" /\ r.vol = cr[c].vol /\ r.failed
           /\ LET r == [cr[c] EXCEPT !.tries = @ + 1]
              IN  r.pc = cr[c].pc /\ r.vol = cr[c].vol /\ r.failed = cr[c].failed
           /\ LET r == [cr[c] EXCEPT !.pc = "pv", !.tries = 0]
              IN  r.pc = "pv" /\ r.vol = cr[c].vol /\ r.failed = cr[c].failed
           /\ LET r == NextVolume(cr[c])
              IN  r.pc = "mount" /\ r.vol = cr[c].vol + 1 /\ r.failed = cr[c].failed
           /\ LET r == [NextVolume(cr[c]) EXCEPT !.failed = TRUE]
              IN  r.pc = "mount" /\ r.vol = cr[c].vol + 1 /\ r.failed
<1>0. cr[c] \in Creators
  BY DEF CreatorsOK
<1>1. \A t \in CreatorSteps : LET r == [cr[c] EXCEPT !.pc = t]
                              IN  r.pc = t /\ r.vol = cr[c].vol /\ r.failed = cr[c].failed
  BY <1>0 DEF Creators
<1>2. LET r == [cr[c] EXCEPT !.pc = "failed", !.failed = TRUE]
      IN  r.pc = "failed" /\ r.vol = cr[c].vol /\ r.failed
  BY <1>0 DEF Creators
<1>3. LET r == [cr[c] EXCEPT !.tries = @ + 1]
      IN  r.pc = cr[c].pc /\ r.vol = cr[c].vol /\ r.failed = cr[c].failed
  BY <1>0 DEF Creators
<1>4. LET r == [cr[c] EXCEPT !.pc = "pv", !.tries = 0]
      IN  r.pc = "pv" /\ r.vol = cr[c].vol /\ r.failed = cr[c].failed
  BY <1>0 DEF Creators
<1>5. LET r == NextVolume(cr[c])
      IN  r.pc = "mount" /\ r.vol = cr[c].vol + 1 /\ r.failed = cr[c].failed
  <2> DEFINE v == cr[c].vol + 1
  <2> HIDE DEF v
  <2>1. LET r == [cr[c] EXCEPT !.pc = "mount", !.vol = v, !.src = 1, !.tries = 0, !.bad = FALSE]
        IN  r.pc = "mount" /\ r.vol = v /\ r.failed = cr[c].failed
    BY <1>0 DEF Creators
  <2> QED
    BY <2>1 DEF v, NextVolume
<1>6. LET r == [NextVolume(cr[c]) EXCEPT !.failed = TRUE]
      IN  r.pc = "mount" /\ r.vol = cr[c].vol + 1 /\ r.failed
  <2> DEFINE v == cr[c].vol + 1
  <2> HIDE DEF v
  <2>1. LET r == [[cr[c] EXCEPT !.pc = "mount", !.vol = v, !.src = 1, !.tries = 0, !.bad = FALSE] EXCEPT !.failed = TRUE]
        IN  r.pc = "mount" /\ r.vol = v /\ r.failed
    BY <1>0 DEF Creators
  <2> QED
    BY <2>1 DEF v, NextVolume
<1> QED
  BY <1>1, <1>2, <1>3, <1>4, <1>5, <1>6

LEMMA CollectFields ==
    ASSUME CreatorsOK, NEW c \in Writers, NotCollected(c) \/ \E d : Collected(c, d)
    PROVE  \E r : /\ cr' = [cr EXCEPT ![c] = r]
                  /\ r.pc = cr[c].pc /\ r.vol = cr[c].vol /\ r.failed = cr[c].failed
<1>0. cr[c] \in Creators
  BY DEF CreatorsOK
<1> DEFINE n == cr[c].src + 1
<1>1. CASE NotCollected(c)
  <2> DEFINE r == [cr[c] EXCEPT !.src = n, !.tries = 0, !.bad = TRUE]
  <2>1. cr' = [cr EXCEPT ![c] = r]
    BY <1>1 DEF NotCollected, Set
  <2> HIDE DEF n
  <2>2. r.pc = cr[c].pc /\ r.vol = cr[c].vol /\ r.failed = cr[c].failed
    BY <1>0 DEF Creators
  <2> QED
    BY <2>1, <2>2
<1>2. CASE \E d : Collected(c, d)
  <2>0. PICK d : Collected(c, d)
    BY <1>2
  <2> DEFINE ok == MakePayloadOK(Source(c), d)
             b  == cr[c].bad \/ ~ok
             q  == IF ok THEN Merge(cr[c].acc, Source(c), d) ELSE cr[c].acc
             r  == [cr[c] EXCEPT !.src = n, !.tries = 0, !.bad = b, !.acc = q]
  <2>1. cr' = [cr EXCEPT ![c] = r]
    <3>1. Set(c, [cr[c] EXCEPT !.src = @ + 1, !.tries = 0, !.bad = b, !.acc = q])
      BY <2>0 DEF Collected
    <3> HIDE DEF b, q
    <3> QED
      BY <3>1 DEF Set
  <2> HIDE DEF n, b, q
  <2>2. r.pc = cr[c].pc /\ r.vol = cr[c].vol /\ r.failed = cr[c].failed
    BY <1>0 DEF Creators
  <2> QED
    BY <2>1, <2>2
<1> QED
  BY <1>1, <1>2

\* A step that leaves all but the records alone, one that panics, one that links or panics.
LEMMA OnlyRecord ==
    ASSUME CreatorsOK, NEW c \in Writers, NEW r, Set(c, r), Stays(c, r) \/ Passes(c, r),
           pod' = pod, placed \subseteq placed', host' = host,
           \A d \in Writers : wpc[d] = "done" => wpc'[d] = "done"
    PROVE  MountMove(c)
  BY DEF MountMove, Lasting, Set

LEMMA NothingMoves ==
    ASSUME CreatorsOK, MountedInv, NEW c \in Writers, cr' = cr, pod' = pod, placed' = placed, host' = host,
           \A d \in Writers : wpc[d] = "done" => wpc'[d] = "done"
    PROVE  MountMove(c)
<1>1. cr' = [cr EXCEPT ![c] = cr[c]]
  BY DEF CreatorsOK
<1>2. Stays(c, cr[c])
  BY DEF Stays, MountedInv, MountedBy
<1> QED
  BY <1>1, <1>2 DEF MountMove, Lasting

\* A volume that has just got its entry has been passed.
LEMMA Placed ==
    ASSUME CreatorsOK, NEW c \in Writers, cr[c].vol \in DOMAIN pod, pod' = pod, cr[c].vol \in placed',
           pod[cr[c].vol].kind \in {"emptyDir", "hostPath", "claim", "downwardAPI"}
    PROVE  /\ Passes(c, NextVolume(cr[c]))
           /\ Passes(c, [NextVolume(cr[c]) EXCEPT !.failed = TRUE])
<1>2. \A i \in DOMAIN pod : i = cr[c].vol => Passed(c, i)'
  BY DEF Passed, PathTypes
<1> QED
  BY <1>2, RecordFields DEF Passes

LEMMA LinkMoves ==
    ASSUME CreatorsOK, MountedInv, NEW c \in Writers, LinkOrPanic(c), pod' = pod, wpc' = wpc,
           cr[c].vol \in DOMAIN pod, pod[cr[c].vol].kind \in {"hostPath", "claim"}
    PROVE  MountMove(c)
<1>1. CASE SystemPanic
  BY <1>1, NothingMoves DEF SystemPanic
<1>2. CASE /\ cr[c].vol \notin placed /\ placed' = placed \cup {cr[c].vol}
           /\ Set(c, NextVolume(cr[c])) /\ UNCHANGED <<host, hpk>>
  <2>1. Passes(c, NextVolume(cr[c]))
    BY <1>2, Placed
  <2> QED
    BY <1>2, <2>1, OnlyRecord
<1> QED
  BY <1>1, <1>2 DEF LinkOrPanic

\* A Write that is done takes no further step.
LEMMA DoneIsDone ==
    ASSUME WriterTypeOK, NEW c \in Writers, WriteStep(c) \/ Fail(c) \/ (\E p : Write(c, p))
    PROVE  \A d \in Writers : wpc[d] = "done" => wpc'[d] = "done"
<1>1. wpc \in [Writers -> {"idle"} \cup Before \cup After]
  BY DEF WriterTypeOK
<1>2. wpc[c] # "done" /\ (wpc' = wpc \/ \E t : wpc' = [wpc EXCEPT ![c] = t])
  <2>1. CASE WriteStep(c)
    BY <2>1 DEF WriteStep, Readlink, PathsToRemove, Compare, NewTimestampDir, WriteFile, PayloadWritten, SymlinkTmp,
       Rename, ReadlinkName, SymlinkName, RemoveUserVisiblePath, Pruned, RemoveOldDir, Step
  <2>2. CASE Fail(c)
    BY <2>2 DEF Fail, Step
  <2>3. CASE \E p : Write(c, p)
    BY <2>3 DEF Write, Step
  <2> QED
    BY <2>1, <2>2, <2>3
<1> QED
  BY <1>1, <1>2

LEMMA MountMoves ==
    ASSUME WriterTypeOK, CreatorsOK, MountedInv, NEW c \in Writers, CreatePod(c) \/ CreateStep(c)
    PROVE  MountMove(c)
<1> DEFINE r(t)  == [cr[c] EXCEPT !.pc = t]
           Quiet == pod' = pod /\ placed' = placed /\ host' = host /\ wpc' = wpc
<1>0. /\ MountedBy(c) /\ CreatorOK(cr[c]) /\ cr[c].vol \in Nat
      /\ Len(pod) \in Nat /\ DOMAIN pod = 1 .. Len(pod)
  BY PodTypes DEF MountedInv, CreatorsOK, CreatorOK, Creators
<1>1. \A t \in {"mount", "failed"} : Stays(c, r(t))
  BY RecordFields DEF Stays, CreatorSteps
<1>2. Stays(c, [cr[c] EXCEPT !.pc = "failed", !.failed = TRUE]) /\ Stays(c, [cr[c] EXCEPT !.pc = "pv", !.tries = 0])
  BY RecordFields DEF Stays
<1>3. Stays(c, [cr[c] EXCEPT !.tries = @ + 1])
  BY <1>0, RecordFields DEF Stays, MountedBy
<1>4. ASSUME ReturnError(c), Quiet PROVE MountMove(c)
  BY <1>2, <1>4, OnlyRecord DEF ReturnError
<1>5. ASSUME Retry(c), Quiet PROVE MountMove(c)
  BY <1>3, <1>5, OnlyRecord DEF Retry
<1>6. ASSUME SystemPanic, pod' = pod, wpc' = wpc PROVE MountMove(c)
  BY <1>6, NothingMoves DEF SystemPanic
<1>7. ASSUME NotCollected(c) \/ (\E d : Collected(c, d)), Quiet PROVE MountMove(c)
  <2>1. PICK q : cr' = [cr EXCEPT ![c] = q] /\ q.pc = cr[c].pc /\ q.vol = cr[c].vol /\ q.failed = cr[c].failed
    BY <1>7, CollectFields
  <2>2. Stays(c, q)
    BY <1>0, <2>1 DEF Stays, MountedBy
  <2> QED
    BY <1>7, <2>1, <2>2, OnlyRecord DEF Set
<1>8. CASE CreatePod(c)
  BY <1>1, <1>8, OnlyRecord DEF CreatePod, writerVars
<1>9. CASE MountPanics(c) \/ SubmitPanics(c)
  BY <1>9, NothingMoves DEF MountPanics, SubmitPanics, writerVars
<1>10. CASE MountEmptyDir(c)
  <2>1. cr[c].vol \in DOMAIN pod /\ pod[cr[c].vol].kind = "emptyDir"
    BY <1>10, AtVolume DEF MountEmptyDir
  <2>2. Passes(c, NextVolume(cr[c]))
    BY <1>10, <2>1, Placed DEF MountEmptyDir
  <2> QED
    BY <1>10, <2>2, OnlyRecord DEF MountEmptyDir, writerVars
<1>11. CASE MountHostPath(c)
  <2>1. cr[c].vol \in DOMAIN pod /\ pod[cr[c].vol].kind = "hostPath" /\ pod' = pod /\ wpc' = wpc
    BY <1>11, AtVolume DEF MountHostPath, writerVars
  <2> QED
    BY <1>4, <1>11, <2>1, LinkMoves DEF MountHostPath
<1>12. CASE CheckType(c)
  <2>1. /\ cr[c].vol \in DOMAIN pod /\ pod[cr[c].vol].kind \in PathTypes /\ Vol(c).kind = pod[cr[c].vol].kind
        /\ pod' = pod /\ wpc' = wpc
    BY <1>12, AtVolume DEF CheckType, writerVars, Vol
  <2>2. CASE /\ host = Expected(Vol(c).kind) \/ host = "missing"
             /\ host' = Expected(Vol(c).kind) /\ Set(c, NextVolume(cr[c])) /\ UNCHANGED <<placed, hpk>>
    <3>1. \A t \in PathTypes : host = Expected(t) => host' = Expected(t)
      BY <2>2 DEF Expected
    <3>2. Passes(c, NextVolume(cr[c]))
      <4>1. \A i \in DOMAIN pod : i = cr[c].vol => Passed(c, i)'
        BY <2>1, <2>2 DEF Passed, PathTypes
      <4> QED
        BY <2>1, <4>1, RecordFields DEF Passes
    <3> QED
      BY <2>1, <2>2, <3>1, <3>2 DEF MountMove, Lasting, Set
  <2> QED
    BY <1>6, <1>12, <2>1, <2>2 DEF CheckType, TypeOK
<1>13. CASE DownwardAPIVolumeSource(c)
  <2>1. cr[c].vol \in DOMAIN pod /\ pod[cr[c].vol].kind = "downwardAPI" /\ pod' = pod /\ wpc' = wpc
    BY <1>13, AtVolume DEF DownwardAPIVolumeSource, writerVars
  <2>2. CASE placed' = placed \cup {cr[c].vol} /\ host' = host /\ (MarkFailed(c) \/ Set(c, NextVolume(cr[c])))
    <3>1. Passes(c, NextVolume(cr[c])) /\ Passes(c, [NextVolume(cr[c]) EXCEPT !.failed = TRUE])
      BY <2>1, <2>2, Placed
    <3> QED
      BY <2>1, <2>2, <3>1, OnlyRecord DEF MarkFailed
  <2> QED
    BY <1>6, <1>13, <2>1, <2>2 DEF DownwardAPIVolumeSource
<1>14. CASE MountUnknown(c)
  BY <1>6, <1>14 DEF MountUnknown, writerVars
<1>15. CASE GetClaim(c)
  <2>1. cr[c].vol \in DOMAIN pod /\ pod[cr[c].vol].kind = "claim" /\ Quiet
    BY <1>15, AtVolume DEF GetClaim, writerVars
  <2>2. CASE MarkFailed(c)
    <3> DEFINE q == [NextVolume(cr[c]) EXCEPT !.failed = TRUE]
    <3>0. q.pc = "mount" /\ q.vol = cr[c].vol + 1 /\ q.failed
      BY RecordFields
    <3>1. cr' = [cr EXCEPT ![c] = q] /\ cr'[c] = q
      BY <2>2 DEF MarkFailed, Set, CreatorsOK
    <3> HIDE DEF q
    <3>2. \A i \in DOMAIN pod : i = cr[c].vol => Passed(c, i)'
      BY <2>1, <3>0, <3>1 DEF Passed, PathTypes
    <3>3. Passes(c, q)
      BY <2>1, <3>0, <3>2 DEF Passes
    <3> QED
      BY <2>1, <3>1, <3>3, OnlyRecord DEF Set
  <2>3. CASE Set(c, [cr[c] EXCEPT !.pc = "pv", !.tries = 0])
    BY <1>2, <2>1, <2>3, OnlyRecord
  <2> QED
    BY <1>5, <1>15, <2>1, <2>2, <2>3 DEF GetClaim
<1>16. CASE GetVolume(c)
  <2>1. cr[c].vol \in DOMAIN pod /\ pod[cr[c].vol].kind = "claim" /\ pod' = pod /\ wpc' = wpc
    BY <1>0, <1>16 DEF GetVolume, At, CreatorOK, writerVars
  <2> QED
    BY <1>5, <1>6, <1>16, <2>1, LinkMoves DEF GetVolume
<1>17. CASE MountPayload(c)
  <2>1. cr[c].vol \in DOMAIN pod /\ pod[cr[c].vol].kind = "payload"
    BY <1>17, AtVolume DEF MountPayload
  <2>2. Stays(c, r("get"))
    BY <2>1, RecordFields DEF Stays, CreatorSteps
  <2> QED
    BY <1>17, <2>2, OnlyRecord DEF MountPayload, writerVars
<1>18. CASE GetObject(c) \/ GetToken(c) \/ CollectData(c)
  BY <1>5, <1>7, <1>18 DEF GetObject, GetToken, CollectData, writerVars
<1>19. CASE WritePayload(c)
  <2>1. Stays(c, r("write"))
    BY <1>0, <1>19, RecordFields DEF WritePayload, At, Stays, MountedBy, CreatorSteps
  <2>2. \A d \in Writers : wpc[d] = "done" => wpc'[d] = "done"
    BY <1>19, DoneIsDone DEF WritePayload
  <2> QED
    BY <1>19, <2>1, <2>2, OnlyRecord DEF WritePayload
<1>20. CASE PayloadFails(c)
  BY <1>4, <1>20 DEF PayloadFails, writerVars
<1>21. CASE Writing(c)
  BY <1>21, DoneIsDone, NothingMoves DEF Writing, mountVars
<1>22. CASE WriteReturns(c)
  <2>1. Quiet /\ cr[c].pc = "write"
    BY <1>22 DEF WriteReturns, At, writerVars
  <2>2. CASE wpc[c] = "done" /\ Set(c, NextVolume(cr[c]))
    <3>1. cr[c].vol \in DOMAIN pod /\ pod[cr[c].vol].kind = "payload"
      BY <1>0, <2>1 DEF CreatorOK, MountedBy
    <3>2. \A i \in DOMAIN pod : i = cr[c].vol => Passed(c, i)'
      BY <2>1, <2>2, <3>1 DEF Passed, PathTypes
    <3>3. Passes(c, NextVolume(cr[c]))
      BY <3>1, <3>2, RecordFields DEF Passes
    <3> QED
      BY <2>1, <2>2, <3>3, OnlyRecord
  <2> QED
    BY <1>4, <1>22, <2>1, <2>2 DEF WriteReturns
<1>23. CASE Mounted(c)
  <2>1. Stays(c, r("submit"))
    BY <1>0, <1>23, RecordFields DEF Mounted, Stays, CreatorSteps
  <2> QED
    BY <1>23, <2>1, OnlyRecord DEF Mounted, writerVars
<1>24. CASE Submit(c)
  <2>1. Quiet /\ cr[c].pc \in {"submit", "submitted"}
    BY <1>24 DEF Submit, At, writerVars
  <2>2. \A t \in {"submitted", "saved"} : Stays(c, r(t))
    BY <1>0, <2>1, RecordFields DEF Stays, MountedBy, CreatorSteps
  <2> QED
    BY <1>4, <1>24, <2>1, <2>2, OnlyRecord DEF Submit
<1> QED
  BY <1>8, <1>9, <1>10, <1>11, <1>12, <1>13, <1>14, <1>15, <1>16, <1>17, <1>18, <1>19, <1>20, <1>21,
     <1>22, <1>23, <1>24 DEF CreateStep

LEMMA MountedStep ==
    WriterTypeOK /\ VolumesInv /\ MountedInv /\ [VolumesNext]_volumeVars => MountedInv'
<1> SUFFICES ASSUME WriterTypeOK, VolumesInv, MountedInv, [VolumesNext]_volumeVars PROVE MountedInv'
  OBVIOUS
<1>1. CASE UNCHANGED <<pod, cr, placed, host, wpc>>
  BY <1>1 DEF MountedInv, MountedBy, Passed
<1>2. CASE ObjectChanges \/ ClaimChanges \/ UNCHANGED volumeVars
  BY <1>1, <1>2 DEF ObjectChanges, ClaimChanges, volumeVars, mountVars, writerVars
<1>3. ASSUME NEW c \in Writers, CreatePod(c) \/ CreateStep(c) PROVE MountedInv'
  BY <1>3, MountMoves, MoveKeepsMounted DEF VolumesInv
<1> QED
  BY <1>2, <1>3 DEF VolumesNext

\* A goroutine past its payload volume finds its names linked or about to be.
LEMMA PayloadInPlace ==
    ASSUME WriterInv, LinksInv, errors = 0, NEW c \in Writers, wpc[c] = "done"
    PROVE  /\ data # 0
           /\ \A n \in NamesOf(payload[c]) : InEveryPayload(n) => Reads(n) \/ StillLinking(n)
<1>1. data # 0 /\ LinkedNames /\ \E i \in Writers : Linker(i)
  BY DEF LinksInv, DataThere
<1>2. data \in Writers /\ wpc[data] # "idle" /\ files[data] = payload[data]
  BY <1>1, WriterAssumption, Steps DEF WriterInv, DataComplete, Typed, WriterTypeOK, Writers
<1> SUFFICES ASSUME NEW n \in NamesOf(payload[c]), InEveryPayload(n), n \notin links PROVE StillLinking(n)
  BY <1>1, <1>2 DEF Reads, InEveryPayload
<1>3. n \in Names
  BY DEF NamesOf
<1>4. \A i \in Writers : wpc[i] # "idle" => n \in toLink[i]
  BY <1>1, <1>3 DEF LinkedNames, InEveryPayload
<1>5. PICK i \in Writers : Linker(i)
  BY <1>1
<1> QED
  BY <1>4, <1>5 DEF Linker, StillLinking

-----------------------------------------------------------------------------
(* The retry counts, the positions in the list of volumes and the payloads  *)
(* of all CreatePod goroutines stay in their ranges (volume.go, volumes.go).*)
THEOREM VolumesTypeCorrect == VolumesSpec => []VolumesTypeOK
<1>1. VolumesInv /\ WriterTypeOK => VolumesTypeOK
  BY DEF VolumesInv, EnvironmentOK, CreatorsOK, CreatorOK, Creators, VolumesTypeOK
<1>2. VolumesSpec => []VolumesInv
  BY VolumesInitInv, VolumesInvStep, PTL DEF VolumesSpec
<1> QED
  BY <1>1, <1>2, RunsWriter, WriterTypeCorrect, PTL

(* However many CreatePod goroutines of a pod mount its volumes, its        *)
(* containers see one complete payload or the next (volumes.go, SetUpAt,    *)
(* AtomicWriter.Write).                                                    *)
THEOREM VolumesAtomic == VolumesSpec => ImplementsAtomicVolume
  BY RunsWriter, WriterIsAtomic, PTL

(* HPK survives the mounting of emptyDir, ConfigMap, Secret and projected   *)
(* volumes, of untyped hostPaths and of paths that have their type by a     *)
(* single CreatePod goroutine (volumes.go: the SystemPanic of a failed      *)
(* Symlink).  It does not survive a typed hostPath of the wrong type.      *)
THEOREM PanicHasCause == VolumesSpec => []PanicNeedsCause
<1>1. VolumesInv => PanicNeedsCause
  BY DEF VolumesInv
<1> QED
  BY VolumesInitInv, VolumesInvStep, <1>1, PTL DEF VolumesSpec

(* However many CreatePod goroutines come and go, a name that the running   *)
(* job reads stays readable through every step of their Writes, unless one  *)
(* of them writes a payload without it (AtomicWriter.Write, steps 8 to 11). *)
THEOREM JobsKeepTheirVolume == VolumesSpec => JobKeepsVolume
<1>1. WriterInv /\ Sequential /\ [WriterNext]_writerVars =>
          [\A n \in Names : (\E c \in Writers : Submitted(c)) /\ Reads(n) /\ InEveryPayload(n)' => Reads(n)']_volumeVars
  BY KeepsName
<1> QED
  BY <1>1, RunsWriter, AlwaysSequential, PTL DEF WriterSpec, JobKeepsVolume

(* Writes that neither overlap nor fail leave one timestamped directory, no *)
(* ..data_tmp and exactly the links of the last payload, whatever the       *)
(* payloads before it were (AtomicWriter.Write, steps 9 to 11).            *)
THEOREM WritesLeaveNothingBehind == VolumesSpec => []QuiescentClean
<1>1. Sequential => QuiescentClean
  BY DEF Sequential, Alone, Clean, LinksOf, QuiescentClean
<1> QED
  BY <1>1, RunsWriter, AlwaysSequential, PTL

(* For any pod and any number of CreatePod goroutines: a job that is        *)
(* submitted finds every volume in the pod directory, but for a claim or    *)
(* downward API volume whose failure the pod records and for a typed        *)
(* hostPath, which is only known to be on the host (volumes.go,             *)
(* host_path.go; Symlink in step 9 of Write fails only when another Write   *)
(* has made the link).                                                     *)
THEOREM SubmittedHasVolumes == VolumesSpec => []SubmittedMounted
<1>1. VolumesInit => MountedInv
  <2> SUFFICES ASSUME VolumesInit PROVE MountedInv
    OBVIOUS
  <2>1. \A c \in Writers : cr[c].vol = 1 /\ cr[c].pc = "idle"
    BY DEF VolumesInit, NewCreator
  <2>2. \A i \in DOMAIN pod : i \in Nat /\ i >= 1
    BY VolumesInitInv, PodTypes DEF VolumesInv
  <2> QED
    BY <2>1, <2>2 DEF MountedInv, MountedBy
<1>2. VolumesSpec => [](WriterInv /\ Sequential)
  BY RunsWriter, AlwaysSequential, PTL
<1>3. VolumesSpec => []LinksInv
  BY <1>2, RunsWriter, LinksInit, LinksStep, PTL DEF WriterSpec
<1>4. VolumesSpec => []VolumesInv
  BY VolumesInitInv, VolumesInvStep, PTL DEF VolumesSpec
<1>5. WriterInv => WriterTypeOK
  BY DEF WriterInv, Typed
<1>6. VolumesSpec => []MountedInv
  BY <1>1, <1>2, <1>4, <1>5, MountedStep, PTL DEF VolumesSpec
<1>7. WriterInv /\ LinksInv /\ VolumesInv /\ MountedInv => SubmittedMounted
  <2> SUFFICES ASSUME WriterInv, LinksInv, VolumesInv, MountedInv, NEW c \in Writers, Submitted(c), NEW i \in DOMAIN pod
               PROVE  \/ InPlace(c, i)
                      \/ pod[i].kind \in {"claim", "downwardAPI"} /\ cr[c].failed
                      \/ pod[i].kind \in PathTypes /\ host = Expected(pod[i].kind)
                      \/ pod[i].kind = "payload" /\ errors > 0
    BY DEF SubmittedMounted
  <2>1. /\ Len(pod) \in Nat /\ DOMAIN pod = 1 .. Len(pod) /\ pod[i].kind \in Kinds
        /\ cr[c].vol \in Nat /\ errors \in Nat
    BY PodTypes, WriterAssumption DEF VolumesInv, CreatorsOK, Creators, WriterInv, Typed, WriterTypeOK
  <2>2. Passed(c, i)
    BY <2>1 DEF MountedInv, MountedBy, Submitted
  <2>3. CASE pod[i].kind = "payload"
    BY <2>1, <2>2, <2>3, PayloadInPlace DEF Passed, InPlace
  <2>4. CASE pod[i].kind \in PathTypes
    BY <2>2, <2>4 DEF Passed
  <2>5. CASE pod[i].kind \in {"emptyDir", "hostPath", "unknown", "claim", "downwardAPI"}
    BY <2>2, <2>5 DEF Passed, InPlace
  <2> QED
    BY <2>1, <2>3, <2>4, <2>5 DEF Kinds
<1> QED
  BY <1>2, <1>3, <1>4, <1>6, <1>7, PTL
=============================================================================
