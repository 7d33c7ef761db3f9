-------------------------- MODULE SessionRecorder --------------------------
(***************************************************************************)
(* The recording of a user's session: what the device's shell sends goes   *)
(* through a buffered writer to documents of the "recordings" collection,  *)
(* and control messages (pauses of the output, resizes of the terminal),   *)
(* each with the offset in the output where it belongs, through another    *)
(* one to documents of the "control" collection.                           *)
(*                                                                         *)
(* The session's writer records the output and the pauses, its reader the  *)
(* resizes, and both flush both buffers when they end; nothing locks the   *)
(* buffers, so that one goroutine's steps fall between the other's.  A     *)
(* byte of the output is its position, a control message takes one place,  *)
(* and a document is the sequence it holds, an empty one being one that    *)
(* cannot be decompressed.                                                 *)
(***************************************************************************)
EXTENDS Naturals, Sequences, SequencesExt

CONSTANTS
  BufferSize,    \* app.RecorderBufferSize, in bytes and in control messages
  Limit,         \* app.MessageSizeLimit of the recorded output
  Bodies,        \* lengths of the shell's messages
  MaxMessages,   \* bound on the shell's messages
  MaxResizes,    \* bound on the recorded resizes
  StoreFaults    \* whether an insertion (bound: one) may fail by itself

ASSUME RecorderAssumption ==
  /\ BufferSize \in [{"recording", "control"} -> Nat \ {0}]
  /\ Limit \in Nat
  /\ Bodies # {} /\ Bodies \subseteq 0 .. BufferSize["recording"]
  /\ MaxMessages \in Nat
  /\ MaxResizes \in Nat
  /\ StoreFaults \in BOOLEAN

VARIABLES
  recordedBytes,  \* the writer's count of the output
  bytesRecorded,  \* session.BytesRecorded, which the reader can see
  mem,            \* the memory of the two bufio.Writers, b.buf
  fill,           \* how much of it is in use, b.n
  err,            \* their sticky errors, b.err
  stored,         \* the documents of the session in the two collections
  pc,             \* where the two goroutines are
  job,            \* the write or flush a goroutine performs
  body,           \* bytes of the message the writer records
  resizeAt,       \* the offset the reader has taken for a resize
  messages,       \* how many messages of the shell there have been
  resizes,        \* how many resizes there have been
  overlapped,     \* history: a call came between the steps of another
  late,           \* history: output was recorded while the reader ended
  faulted         \* history: an insertion failed

recorderVars == <<recordedBytes, bytesRecorded, mem, fill, err, stored, pc, job,
                  body, resizeAt, messages, resizes, overlapped, late, faulted>>

Buffers == {"recording", "control"}
Proc == {"reader", "writer"}
Other(p) == IF p = "reader" THEN "writer" ELSE "reader"

\* Positions in the output, and beyond them the byte of memory not yet written.
MaxOutput == Limit + BufferSize["recording"] - 1
Byte == 0 .. MaxOutput
Control == [type : {"none", "delay", "resize"}, offset : 0 .. MaxOutput]

Items(b) == IF b = "recording" THEN Byte ELSE Control
Zero(b) == IF b = "recording" THEN MaxOutput ELSE [type |-> "none", offset |-> 0]

\* Where a goroutine is in a call of bufio: it has copied a piece and not counted
\* it, counted it and found the buffer full, handed the buffer to the recorder,
\* got it back, or has more to write.
Inside == {"copied", "full", "flush", "reset", "again"}

NoJob == [buffer |-> "recording", data |-> <<>>, todo |-> <<>>, after |-> "done"]

RecorderTypeOK ==
  /\ recordedBytes \in 0 .. MaxOutput
  /\ bytesRecorded \in 0 .. recordedBytes
  /\ \A b \in Buffers :
       /\ mem[b] \in [1 .. BufferSize[b] -> Items(b)]
       /\ fill[b] \in 0 .. BufferSize[b]
       /\ stored[b] \in Seq(Seq(Items(b)))
  /\ err \in [Buffers -> BOOLEAN]
  /\ pc["reader"] \in {"read", "resize", "flushRecording", "flushControl",
                       "leaving", "done"} \union Inside
  /\ pc["writer"] \in {"select", "delay", "count", "flushControl",
                       "flushRecording", "done"} \union Inside
  /\ body \in {0} \union Bodies
  /\ resizeAt \in 0 .. MaxOutput
  /\ messages \in 0 .. MaxMessages
  /\ resizes \in 0 .. MaxResizes
  /\ overlapped \in [Buffers -> BOOLEAN]
  /\ late \in BOOLEAN
  /\ faulted \in BOOLEAN

RecorderInit ==
  /\ recordedBytes = 0
  /\ bytesRecorded = 0
  /\ mem = [b \in Buffers |-> [i \in 1 .. BufferSize[b] |-> Zero(b)]]
  /\ fill = [b \in Buffers |-> 0]
  /\ err = [b \in Buffers |-> FALSE]
  /\ stored = [b \in Buffers |-> <<>>]
  /\ pc = [p \in Proc |-> IF p = "reader" THEN "read" ELSE "select"]
  /\ job = [p \in Proc |-> NoJob]
  /\ body = 0
  /\ resizeAt = 0
  /\ messages = 0
  /\ resizes = 0
  /\ overlapped = [b \in Buffers |-> FALSE]
  /\ late = FALSE
  /\ faulted = FALSE

Least(a, b) == IF a <= b THEN a ELSE b
First(s, n) == SubSeq(s, 1, Least(n, Len(s)))
Rest(s, n) == SubSeq(s, n + 1, Len(s))

-----------------------------------------------------------------------------
(* bufio.Writer, used by two goroutines without a lock                     *)

Goto(p, label) == pc' = [pc EXCEPT ![p] = label]

\* A call goes on, with what it has in hand, or returns.
Enter(p, label, b, data, todo, after) ==
  /\ Goto(p, label)
  /\ job' = [job EXCEPT ![p] = [buffer |-> b, data |-> data, todo |-> todo,
                                after |-> after]]

Leave(p, after) ==
  /\ Goto(p, after)
  /\ job' = [job EXCEPT ![p] = NoJob]

\* It goes on if there is more to write.
GoOn(p, label, b, todo, after) ==
  \/ todo # <<>> /\ Enter(p, label, b, <<>>, todo, after)
  \/ todo = <<>> /\ Leave(p, after)

In(p, labels, b) == pc[p] \in labels /\ job[p].buffer = b

\* The goroutine is on its way to a place in its own code, or there.
Toward(p, labels) ==
  pc[p] \in labels \/ (pc[p] \in Inside /\ job[p].after \in labels)

\* The reader has begun its deferred flushes.
ReaderEnding ==
  Toward("reader", {"flushRecording", "flushControl", "leaving", "done"})

\* History: p writes to b, or empties it, while the other goroutine has copied
\* there and not counted, or is about to empty it.
NoteOverlap(p, b) ==
  overlapped' = [overlapped EXCEPT ![b] =
                   @ \/ In(Other(p), {"copied", "reset"}, b)]

NoteLate(p, b) ==
  late' = (late \/ (p = "writer" /\ b = "recording" /\ ReaderEnding))

Room(b) == BufferSize[b] - fill[b]

\* Write: as much as there is room for is copied behind the content ...
CopyIn(p, b, items, after) ==
  \/ /\ err[b]
     /\ Leave(p, after)
     /\ UNCHANGED <<mem, overlapped, late>>
  \/ /\ ~err[b]
     /\ LET now == First(items, Room(b)) IN
          /\ mem' = [mem EXCEPT ![b] = [i \in 1 .. BufferSize[b] |->
                       IF i \in fill[b] + 1 .. fill[b] + Len(now)
                         THEN now[i - fill[b]] ELSE mem[b][i]]]
          /\ Enter(p, "copied", b, now, Rest(items, Room(b)), after)
     /\ NoteOverlap(p, b)
     /\ NoteLate(p, b)

\* The other goroutine is between reading b.n and writing it, too: either of
\* the two new values may be the one that stays.
MayBeLost(p, b) == In(Other(p), {"copied"}, b)

\* ... and counted.  Where two counts overrun the buffer, its next use is a slice
\* out of range, which ends the process: it is not used again here.
Count(p) ==
  LET b == job[p].buffer
      more == fill[b] + Len(job[p].data)
  IN /\ pc[p] = "copied"
     /\ \/ /\ more <= BufferSize[b]
           /\ fill' = [fill EXCEPT ![b] = more]
           /\ UNCHANGED err
        \/ /\ more > BufferSize[b]
           /\ err' = [err EXCEPT ![b] = TRUE]
           /\ UNCHANGED fill
        \/ /\ MayBeLost(p, b)
           /\ UNCHANGED <<fill, err>>
     /\ GoOn(p, "full", b, job[p].todo, job[p].after)
     /\ NoteOverlap(p, b)
     /\ NoteLate(p, b)
     /\ UNCHANGED <<recordedBytes, bytesRecorded, mem, stored, body, resizeAt,
                    messages, resizes, faulted>>

\* Flush: nothing to do if there is an error or no content; else the content is
\* handed to the recorder.
Flush(p, b, todo, after) ==
  \/ /\ err[b]
     /\ Leave(p, after)
     /\ UNCHANGED overlapped
  \/ /\ ~err[b] /\ fill[b] = 0
     /\ GoOn(p, "again", b, todo, after)
     /\ UNCHANGED overlapped
  \/ /\ ~err[b] /\ fill[b] > 0
     /\ Enter(p, "flush", b, SubSeq(mem[b], 1, fill[b]), todo, after)
     /\ overlapped' = [overlapped EXCEPT ![b] =
                         @ \/ In(Other(p), {"flush", "reset"}, b)]

\* A write has filled the buffer, ...
FlushFull(p) ==
  /\ pc[p] = "full"
  /\ Flush(p, job[p].buffer, job[p].todo, job[p].after)
  /\ UNCHANGED <<recordedBytes, bytesRecorded, mem, fill, err, stored, body,
                 resizeAt, messages, resizes, late, faulted>>

\* ... and goes on with the rest when it is empty.
CopyAgain(p) ==
  /\ pc[p] = "again"
  /\ CopyIn(p, job[p].buffer, job[p].todo, job[p].after)
  /\ UNCHANGED <<recordedBytes, bytesRecorded, fill, err, stored, body,
                 resizeAt, messages, resizes, faulted>>

\* The recorder compresses the memory it is given, which may have changed since.
\* Two recorders of output at work at once share their compressor, too; the
\* recorder of control messages has a lock.
Documents(p) ==
  LET b == job[p].buffer IN
    {job[p].data, SubSeq(mem[b], 1, Len(job[p].data))} \union
    (IF b = "recording" /\ In(Other(p), {"flush"}, b) THEN {<<>>} ELSE {})

\* The request's context, which the insertions use, ends with the reader.
CtxDone == pc["reader"] = "done"

\* Mutation: the recorder returns the length of what it has compressed.
CompressedLength(p) == Len(job[p].data) - 1

\* What the recorder returns, the length of what it was given.
Taken(p) == Len(job[p].data)

\* Whatever was counted meanwhile makes the write a short one, which is an error
\* for ever; what is left is moved to the front.
FlushEnds(p) ==
  LET b == job[p].buffer
      short == Taken(p) < fill[b]
  IN /\ pc[p] = "flush"
     /\ ~(CtxDone /\ p = "writer")
     /\ \E doc \in Documents(p) : stored' = [stored EXCEPT ![b] = Append(@, doc)]
     /\ \/ /\ short
           /\ err' = [err EXCEPT ![b] = TRUE]
           /\ mem' = [mem EXCEPT ![b] = [i \in 1 .. BufferSize[b] |->
                        IF i <= fill[b] - Taken(p) THEN mem[b][i + Taken(p)]
                                                   ELSE mem[b][i]]]
           /\ fill' = [fill EXCEPT ![b] = @ - Taken(p)]
           /\ Leave(p, job[p].after)
        \/ /\ ~short
           /\ Enter(p, "reset", b, <<>>, job[p].todo, job[p].after)
           /\ UNCHANGED <<err, mem, fill>>
     /\ UNCHANGED <<recordedBytes, bytesRecorded, body, resizeAt, messages,
                    resizes, overlapped, late, faulted>>

\* The buffer is emptied: what was written since the test is lost with the rest.
Reset(p) ==
  LET b == job[p].buffer IN
    /\ pc[p] = "reset"
    /\ \/ fill' = [fill EXCEPT ![b] = 0]
       \/ MayBeLost(p, b) /\ UNCHANGED fill
    /\ GoOn(p, "again", b, job[p].todo, job[p].after)
    /\ NoteOverlap(p, b)
    /\ UNCHANGED <<recordedBytes, bytesRecorded, mem, err, stored, body,
                   resizeAt, messages, resizes, late, faulted>>

\* Mutation: an error is reported once and then forgotten.
ForgetsError(b) == [err EXCEPT ![b] = FALSE]

KeepsError(b) == [err EXCEPT ![b] = TRUE]

\* The insertion fails, by itself or because the context is cancelled; the
\* document may be stored all the same.  Neither b.n, which is moved, nor the
\* memory matters behind an error.
FlushFails(p) ==
  LET b == job[p].buffer IN
    /\ pc[p] = "flush"
    /\ \/ StoreFaults /\ ~faulted /\ faulted' = TRUE
       \/ CtxDone /\ p = "writer" /\ UNCHANGED faulted
    /\ \/ UNCHANGED stored
       \/ \E doc \in Documents(p) :
            stored' = [stored EXCEPT ![b] = Append(@, doc)]
    /\ err' = KeepsError(b)
    /\ Leave(p, job[p].after)
    /\ UNCHANGED <<recordedBytes, bytesRecorded, mem, fill, body, resizeAt,
                   messages, resizes, overlapped, late>>

BufferNext(p) ==
  \/ Count(p) \/ FlushFull(p) \/ CopyAgain(p)
  \/ FlushEnds(p) \/ FlushFails(p) \/ Reset(p)

-----------------------------------------------------------------------------
(* The writer: recordSession and the end of websocketWriter                *)

\* Mutation: a message that reaches the limit is not the last one.
AtLimit == recordedBytes <= Limit

BelowLimit == recordedBytes < Limit

\* A message of the shell, below the limit, is written to the recording ...
RecordOutput ==
  /\ pc["writer"] = "select"
  /\ BelowLimit
  /\ messages < MaxMessages
  /\ messages' = messages + 1
  /\ \E n \in Bodies :
       /\ body' = n
       /\ CopyIn("writer", "recording", [i \in 1 .. n |-> recordedBytes + i - 1],
               "delay")
  /\ UNCHANGED <<recordedBytes, bytesRecorded, fill, err, stored, resizeAt,
                 resizes, faulted>>

\* ... a pause before it, if there was one, to the control messages, ...
RecordDelay ==
  /\ pc["writer"] = "delay"
  /\ \/ CopyIn("writer", "control",
             <<[type |-> "delay", offset |-> recordedBytes]>>, "count")
     \/ Leave("writer", "count") /\ UNCHANGED <<mem, overlapped, late>>
  /\ UNCHANGED <<recordedBytes, bytesRecorded, fill, err, stored, body,
                 resizeAt, messages, resizes, faulted>>

\* ... and the count is raised, for the reader to see.
CountOutput ==
  /\ pc["writer"] = "count"
  /\ recordedBytes' = recordedBytes + body
  /\ bytesRecorded' = recordedBytes'
  /\ body' = 0
  /\ Goto("writer", "select")
  /\ UNCHANGED <<mem, fill, err, stored, job, resizeAt, messages, resizes,
                 overlapped, late, faulted>>

\* The device has stopped the shell.
StopShell ==
  /\ pc["writer"] = "select"
  /\ Flush("writer", "recording", <<>>, "select")
  /\ UNCHANGED <<recordedBytes, bytesRecorded, mem, fill, err, stored, body,
                 resizeAt, messages, resizes, late, faulted>>

\* A write to the user fails, or the reader has ended; the buffers are flushed
\* by deferred calls, the last one deferred first.
WriterEnds ==
  /\ pc["writer"] = "select"
  /\ Goto("writer", "flushControl")
  /\ UNCHANGED <<recordedBytes, bytesRecorded, mem, fill, err, stored, job,
                 body, resizeAt, messages, resizes, overlapped, late, faulted>>

WriterFlushes ==
  /\ \/ /\ pc["writer"] = "flushControl"
        /\ Flush("writer", "control", <<>>, "flushRecording")
     \/ /\ pc["writer"] = "flushRecording"
        /\ Flush("writer", "recording", <<>>, "done")
  /\ UNCHANGED <<recordedBytes, bytesRecorded, mem, fill, err, stored, body,
                 resizeAt, messages, resizes, late, faulted>>

-----------------------------------------------------------------------------
(* The reader: sendResizeMessage and the end of ConnectServeWS             *)

\* A resize is recorded only if its message carries neither height nor width:
\* the tests for their presence are the wrong way round.  Its offset is read
\* under the mutex ...
TakeResize ==
  /\ pc["reader"] = "read"
  /\ resizes < MaxResizes
  /\ resizes' = resizes + 1
  /\ resizeAt' = bytesRecorded
  /\ Goto("reader", "resize")
  /\ UNCHANGED <<recordedBytes, bytesRecorded, mem, fill, err, stored, job,
                 body, messages, overlapped, late, faulted>>

\* ... and the message is written without it.
RecordResize ==
  /\ pc["reader"] = "resize"
  /\ CopyIn("reader", "control",
          <<[type |-> "resize", offset |-> resizeAt]>>, "read")
  /\ resizeAt' = 0
  /\ UNCHANGED <<recordedBytes, bytesRecorded, fill, err, stored, body,
                 messages, resizes, faulted>>

ReaderEnds ==
  /\ pc["reader"] = "read"
  /\ Goto("reader", "flushRecording")
  /\ UNCHANGED <<recordedBytes, bytesRecorded, mem, fill, err, stored, job,
                 body, resizeAt, messages, resizes, overlapped, late, faulted>>

ReaderFlushes ==
  /\ \/ /\ pc["reader"] = "flushRecording"
        /\ Flush("reader", "recording", <<>>, "flushControl")
     \/ /\ pc["reader"] = "flushControl"
        /\ Flush("reader", "control", <<>>, "leaving")
  /\ UNCHANGED <<recordedBytes, bytesRecorded, mem, fill, err, stored, body,
                 resizeAt, messages, resizes, late, faulted>>

\* The handler returns, which cancels the request's context.
ReaderReturns ==
  /\ pc["reader"] = "leaving"
  /\ Goto("reader", "done")
  /\ UNCHANGED <<recordedBytes, bytesRecorded, mem, fill, err, stored, job,
                 body, resizeAt, messages, resizes, overlapped, late, faulted>>

RecorderNext ==
  \/ \E p \in Proc : BufferNext(p)
  \/ RecordOutput \/ RecordDelay \/ CountOutput
  \/ StopShell \/ WriterEnds \/ WriterFlushes
  \/ TakeResize \/ RecordResize
  \/ ReaderEnds \/ ReaderFlushes \/ ReaderReturns

Recorded == pc["reader"] = "done" /\ pc["writer"] = "done"

-----------------------------------------------------------------------------
(* Properties                                                              *)

\* The recording as a playback concatenates it.
StoredOutput == FlattenSeq(stored["recording"])

StoredControls == FlattenSeq(stored["control"])

PausesInPlace ==
  \A i, j \in DOMAIN StoredControls :
    i < j /\ StoredControls[j].type = "delay" =>
      StoredControls[i].offset <= StoredControls[j].offset

\* Whatever fails, the stored recording is the beginning of the output, no byte
\* missing in it and none twice, and no stored pause lies before a message that
\* is stored in front of it: also where a buffer is written to while the other
\* goroutine waits for the recorder, but not where a call came between the steps
\* of another (overlapped).
StoredInOrder ==
  /\ ~overlapped["recording"] =>
       \A i \in DOMAIN StoredOutput : StoredOutput[i] = i - 1
  /\ ~overlapped["control"] => PausesInPlace

\* And it is all of the output, unless an insertion failed or output was still
\* being written when the reader had begun to end.
StoredIsAll ==
  Recorded /\ ~faulted /\ ~late /\ ~overlapped["recording"]
    => Len(StoredOutput) = recordedBytes
=============================================================================
