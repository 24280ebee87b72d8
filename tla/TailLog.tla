------------------------------ MODULE TailLog ------------------------------
(***************************************************************************)
(* The log of a container: GetContainerLogs (provider/provider.go) and,     *)
(* for the last lines, GetTailLog with its ReverseReader                    *)
(* (pkg/container/logs.go).  The job appends to the file while a goroutine  *)
(* reads it backwards, page by page, and sends the lines over an unbuffered *)
(* channel to the request, which hangs up once it has enough of them.       *)
(*                                                                         *)
(* A byte is 0 if it ends a line and otherwise its own position, so that    *)
(* every line of a file is told from every other.  Streaming ("follow") is  *)
(* not supported by the code: it goes on as if it were not asked for.       *)
(***************************************************************************)
EXTENDS Integers, Sequences, SequencesExt

CONSTANTS PageSize,    \* os.Getpagesize
          Tails,       \* what may be asked for: 0, all; n > 0, the last n lines
          MaxSize,     \* bound: size of the file when the request arrives
          MaxGrowth    \* bound: bytes the job appends during the request

ASSUME TailAssumption ==
    PageSize \in Nat \ {0} /\ Tails \subseteq Nat /\ MaxSize \in Nat /\ MaxGrowth \in Nat

VARIABLES
    file,       \* the log file
    exists,     \* it has been created
    appended,   \* bytes appended so far
    tail,       \* opts.Tail
    req,        \* the step of GetContainerLogs
    gor,        \* the step of the reading goroutine
    handle,     \* GetTailLog has the file open
    remainder, start, offset,  \* of the ReverseReader, and the offset it began with
    leftover,   \* the beginning of a line whose rest has been read
    chunk,      \* the lines being sent
    closed,     \* the channel is closed
    tailLog,    \* the lines received
    size,       \* auxiliary: size of the file at Stat
    seen        \* auxiliary: the file as far as the first Read could see it

fileVars == <<file, exists, appended>>
readVars == <<gor, remainder, start, offset, leftover, chunk, closed, size, seen>>
tailVars == <<fileVars, tail, req, handle, readVars, tailLog>>

NoBytes == <<>>
Bytes   == {0} \cup 1 .. MaxSize + MaxGrowth
Files   == UNION {{f \in [1 .. n -> 0 .. n] : \A i \in 1 .. n : f[i] \in {0, i}} : n \in 0 .. MaxSize}
Ended   == {"all", "none", "lines", "error"}

TailInit ==
    /\ file \in Files /\ exists \in BOOLEAN /\ (~exists => file = <<>>) /\ appended = 0
    /\ tail \in {-1} \cup Tails /\ req = "open" /\ gor = "idle" /\ handle = FALSE
    /\ remainder = 0 /\ start = 0 /\ offset = 0 /\ leftover = NoBytes
    /\ chunk = <<>> /\ closed = FALSE /\ tailLog = <<>> /\ size = 0 /\ seen = <<>>

-----------------------------------------------------------------------------
(* External: the container writes to its log.                              *)
JobAppends ==
    /\ appended < MaxGrowth /\ appended' = appended + 1 /\ exists' = TRUE
    /\ \E b \in {0, Len(file) + 1} : file' = Append(file, b)
    /\ UNCHANGED <<tail, req, handle, readVars, tailLog>>

(* GetContainerLogs: a log that is missing is empty if all of it is asked   *)
(* for, and an error if a part is.                                         *)
GetContainerLogs ==
    /\ req = "open"
    /\ req' = CASE tail = 0 -> IF exists THEN "all" ELSE "none"
                [] tail > 0 -> IF exists THEN "stat" ELSE "error"
                [] OTHER    -> "none"
    /\ handle' = (tail > 0 /\ exists)
    /\ UNCHANGED <<fileVars, tail, readVars, tailLog>>

OpenFails ==
    /\ req = "open" /\ tail >= 0 /\ req' = "error"
    /\ UNCHANGED <<fileVars, tail, handle, readVars, tailLog>>

(* NewReverseReader: Stat, then Seek to an end that may be another by now.  *)
Stat ==
    /\ req = "stat" /\ req' = "seek"
    /\ remainder' = Len(file) % PageSize /\ size' = Len(file)
    /\ UNCHANGED <<fileVars, tail, handle, gor, start, offset, leftover, chunk, closed, tailLog, seen>>

Seek ==
    /\ req = "seek" /\ req' = "receive" /\ gor' = "read"
    /\ LET from == Len(file) - remainder
       IN start' = (IF from < 0 THEN 0 ELSE from) /\ offset' = start'
    /\ UNCHANGED <<fileVars, tail, handle, remainder, leftover, chunk, closed, tailLog, size, seen>>

\* The error is returned with the file open.
NewReverseReaderFails ==
    /\ req \in {"stat", "seek"} /\ req' = "error"
    /\ UNCHANGED <<fileVars, tail, handle, readVars, tailLog>>

-----------------------------------------------------------------------------
(* The goroutine.                                                          *)
Page == SubSeq(file, offset + 1, IF offset + PageSize < Len(file) THEN offset + PageSize ELSE Len(file))

\* strings.Split(s, "\n"): lines[k] is what the first k bytes split into.
Split(s) ==
    LET lines[k \in 0 .. Len(s)] ==
          IF k = 0 THEN <<NoBytes>>
          ELSE LET before == lines[k - 1]
               IN  IF s[k] = 0 THEN Append(before, NoBytes)
                   ELSE [before EXCEPT ![Len(before)] = Append(@, s[k])]
    IN  lines[Len(s)]

\* Mutant: the rest of a line is put in front of its beginning.
ReadLeftoverFirst ==
    /\ gor = "read" /\ offset >= 0
    /\ LET line == Split(leftover \o Page)
       IN /\ leftover' = Head(line) /\ chunk' = Tail(line)
          /\ gor' = IF Len(line) > 1 THEN "send" ELSE "read"
    /\ offset' = offset - PageSize
    /\ seen' = IF seen = <<>> /\ offset = start THEN SubSeq(file, 1, offset) \o Page ELSE seen
    /\ UNCHANGED <<fileVars, tail, req, handle, remainder, start, closed, tailLog, size>>

Read ==
    /\ gor = "read" /\ offset >= 0
    /\ LET line == Split(Page \o leftover)
       IN /\ leftover' = Head(line) /\ chunk' = Tail(line)
          /\ gor' = IF Len(line) > 1 THEN "send" ELSE "read"
    /\ offset' = offset - PageSize
    /\ seen' = IF seen = <<>> /\ offset = start THEN SubSeq(file, 1, offset) \o Page ELSE seen
    /\ UNCHANGED <<fileVars, tail, req, handle, remainder, start, closed, tailLog, size>>

\* Mutant: what is left at the beginning of the file is not sent.
ReadEOFDrops ==
    /\ gor = "read" /\ offset < 0 /\ gor' = "eof"
    /\ UNCHANGED <<fileVars, tail, req, handle, remainder, start, offset, leftover, chunk, closed,
                   tailLog, size, seen>>

ReadEOF ==
    /\ gor = "read" /\ offset < 0
    /\ chunk' = <<leftover>> /\ gor' = "last"
    /\ UNCHANGED <<fileVars, tail, req, handle, remainder, start, offset, leftover, closed,
                   tailLog, size, seen>>

\* Logged only: the request gets what has been sent so far.
ReadFails ==
    /\ gor = "read" /\ offset >= 0
    /\ gor' = "failed"
    /\ UNCHANGED <<fileVars, tail, req, handle, remainder, start, offset, leftover, chunk, closed,
                   tailLog, size, seen>>

\* The send and the receipt are one step; lines arrive oldest first and are
\* kept newest first.
NonEmpty(lines) ==
    LET kept[k \in 0 .. Len(lines)] ==
          IF k = 0 THEN <<>>
          ELSE IF lines[k] = NoBytes THEN kept[k - 1] ELSE Append(kept[k - 1], lines[k])
    IN  kept[Len(lines)]

\* Mutant: one line more than was asked for is waited for.
SendHangsUpLate ==
    /\ gor \in {"send", "last"} /\ req = "receive"
    /\ tailLog' = tailLog \o Reverse(NonEmpty(chunk))
    /\ req' = IF Len(tailLog') > tail THEN "lines" ELSE "receive"
    /\ gor' = IF gor = "send" THEN "read" ELSE "eof"
    /\ chunk' = <<>>
    /\ UNCHANGED <<fileVars, tail, handle, remainder, start, offset, leftover, closed, size, seen>>

\* All lines of the page are kept, whatever was asked for.
Send ==
    /\ gor \in {"send", "last"} /\ req = "receive"
    /\ tailLog' = tailLog \o Reverse(NonEmpty(chunk))
    /\ req' = IF Len(tailLog') >= tail THEN "lines" ELSE "receive"
    /\ gor' = IF gor = "send" THEN "read" ELSE "eof"
    /\ chunk' = <<>>
    /\ UNCHANGED <<fileVars, tail, handle, remainder, start, offset, leftover, closed, size, seen>>

\* Mutants: the channel, or the file, is left open.
CloseFileOnly ==
    /\ gor \in {"eof", "failed"} /\ gor' = (IF gor = "eof" THEN "ended" ELSE "broken") /\ handle' = FALSE
    /\ UNCHANGED <<fileVars, tail, req, remainder, start, offset, leftover, chunk, closed, tailLog,
                   size, seen>>

CloseChannelOnly ==
    /\ gor \in {"eof", "failed"} /\ gor' = (IF gor = "eof" THEN "ended" ELSE "broken") /\ closed' = TRUE
    /\ UNCHANGED <<fileVars, tail, req, handle, remainder, start, offset, leftover, chunk, tailLog,
                   size, seen>>

CloseAll ==
    /\ gor \in {"eof", "failed"} /\ gor' = (IF gor = "eof" THEN "ended" ELSE "broken")
    /\ closed' = TRUE /\ handle' = FALSE
    /\ UNCHANGED <<fileVars, tail, req, remainder, start, offset, leftover, chunk, tailLog, size, seen>>

RangeEnds ==
    /\ req = "receive" /\ closed /\ req' = "lines"
    /\ UNCHANGED <<fileVars, tail, handle, readVars, tailLog>>

Request   == GetContainerLogs \/ OpenFails \/ Stat \/ Seek \/ NewReverseReaderFails \/ RangeEnds
Goroutine == Read \/ ReadEOF \/ ReadFails \/ Send \/ CloseAll

TailNext == JobAppends \/ Request \/ Goroutine
TailSpec == TailInit /\ [][TailNext]_tailVars /\ WF_tailVars(Request) /\ WF_tailVars(Goroutine)

-----------------------------------------------------------------------------
Newest(s) == Reverse(NonEmpty(Split(s)))
Lost      == start % PageSize   \* bytes at the beginning of the file no page covers
Grew      == start + remainder # size

(* At every moment the lines received are the last non-empty lines of the   *)
(* file as the first Read saw it, newest first and none left out, although  *)
(* lines cross page boundaries and the job goes on writing (GetTailLog and  *)
(* ReverseReader.Read).                                                    *)
TailSound == IsPrefix(tailLog, Newest(SubSeq(seen, Lost + 1, Len(seen))))

(* A request that ends without an error of the file has at least as many    *)
(* lines as it asked for, or all there were when it arrived but for the     *)
(* Lost bytes; and none are lost unless the file grew between Stat and      *)
(* Seek, when the pages are misaligned (NewReverseReader).                 *)
TailComplete ==
    req = "lines" /\ gor # "broken" =>
        /\ ~Grew => Lost = 0
        /\ \/ Len(tailLog) >= tail
           \/ Len(tailLog) >= Len(Newest(SubSeq(file, Lost + 1, size)))

(* A request gets more lines than it asked for, since GetTailLog keeps all  *)
(* lines of a page and trims nothing at the end, but never more than the    *)
(* last page it read can have added: a page has at most one line for every  *)
(* two of its bytes, and one more whose end lies in the page after it.      *)
(* logs.go:121-122 says that lines are added "until we have the same number *)
(* of F type messages as the desired tail".                                *)
TailBounded == tail > 0 => 2 * (Len(tailLog) - tail) < PageSize

(* GetContainerLogs returns, whatever fails.                               *)
RequestEnds == <>(req \in Ended)

(* GetTailLog closes the file, except if its reader could not be made or    *)
(* the request hung up with enough lines: the goroutine may then wait for   *)
(* ever to send the next page.                                             *)
FileClosed == handle ~> (~handle \/ req = "error" \/ Len(tailLog) >= tail)
=============================================================================
