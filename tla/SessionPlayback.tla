-------------------------- MODULE SessionPlayback --------------------------
(***************************************************************************)
(* The playback of a session after it was recorded by SessionRecorder:     *)
(* WriteSessionRecords merges the documents of the recording, which it     *)
(* reads through a decompressing reader with a buffer, with the control    *)
(* messages, each of which is due at its offset in the recording.          *)
(***************************************************************************)
EXTENDS SessionRecorder

CONSTANTS
  ReadSize,       \* recordingReadBufferSize
  ControlsRead    \* control messages that fit in controlReadBufferSize

ASSUME PlaybackAssumption == ReadSize \in Nat \ {0} /\ ControlsRead \in Nat

VARIABLES
  play,      \* where the playback is
  docs,      \* the documents behind the cursor
  unzip,     \* what the reader's gzipReader has left of a document
  output,    \* what its buffer has left of that
  controls,  \* the control messages not yet popped
  due,       \* the control message being merged
  played,    \* the bytes sent, by their positions
  shown      \* the control messages sent: when due, when sent, data left

playbackVars == <<play, docs, unzip, output, controls, due, played, shown>>
vars == <<recorderVars, playbackVars>>

NoControl == [type |-> "delay", offset |-> 0]

TypeOK ==
  /\ RecorderTypeOK
  /\ play \in {"idle", "pop", "skip", "upto", "copy", "done", "inconsistent",
               "panic"}
  /\ docs \in Seq(Seq(Byte))
  /\ unzip \in Seq(Byte)
  /\ output \in Seq(Byte) /\ Len(output) <= ReadSize
  /\ controls \in Seq(Control)
  /\ due \in Control
  /\ played \in Seq(Byte)
  /\ shown \in Seq([offset : 0 .. MaxOutput, at : Nat, left : BOOLEAN])

Init ==
  /\ RecorderInit
  /\ play = "idle"
  /\ docs = <<>>
  /\ unzip = <<>>
  /\ output = <<>>
  /\ controls = <<>>
  /\ due = NoControl
  /\ played = <<>>
  /\ shown = <<>>

-----------------------------------------------------------------------------
(* RecordingReader.Read                                                    *)

\* Mutation: what a call leaves in the reader's buffer is dropped.
DropsRest(fresh, n) == <<>>

KeepsRest(fresh, n) == Rest(fresh, n)

\* What is decompressed next, once the reader's buffer is empty.
Fresh(source) == First(source, ReadSize)

\* A call with room for n bytes: from the buffer, else from what is left of the
\* document, else from the next one.  It may return less than there is room for.
Read(n) ==
  CASE output # <<>> ->
         [data |-> First(output, n), output |-> KeepsRest(output, n),
          unzip |-> unzip, docs |-> docs, error |-> FALSE]
    [] output = <<>> /\ unzip # <<>> ->
         [data |-> First(Fresh(unzip), n), output |-> KeepsRest(Fresh(unzip), n),
          unzip |-> Rest(unzip, ReadSize), docs |-> docs, error |-> FALSE]
    [] output = <<>> /\ unzip = <<>> /\ docs # <<>> ->
         [data |-> First(Fresh(Head(docs)), n),
          output |-> KeepsRest(Fresh(Head(docs)), n),
          unzip |-> Rest(Head(docs), ReadSize), docs |-> Tail(docs),
          error |-> Head(docs) = <<>>]
    [] OTHER ->
         [data |-> <<>>, output |-> <<>>, unzip |-> <<>>, docs |-> <<>>,
          error |-> TRUE]

\* The state after a call that returned r, whose data is sent.
Send(r) ==
  /\ played' = played \o r.data
  /\ output' = r.output
  /\ unzip' = r.unzip
  /\ docs' = r.docs

-----------------------------------------------------------------------------
(* WriteSessionRecords                                                     *)

\* ControlMessageReader: the first document, as far as it fits in the buffer,
\* and beyond if no message lies across the buffer's end.
FirstControls ==
  IF stored["control"] = <<>>
    THEN {<<>>}
    ELSE LET doc == Head(stored["control"]) IN {doc, First(doc, ControlsRead)}

\* A user asks for the playback; of the session that was recorded, nothing is
\* left in memory.
Start ==
  /\ play = "idle"
  /\ Recorded
  /\ docs' = stored["recording"]
  /\ controls' \in FirstControls
  /\ play' = "pop"
  /\ mem' = [b \in Buffers |-> [i \in 1 .. BufferSize[b] |-> Zero(b)]]
  /\ fill' = [b \in Buffers |-> 0]
  /\ err' = [b \in Buffers |-> FALSE]
  /\ bytesRecorded' = 0
  /\ UNCHANGED <<recordedBytes, stored, pc, job, body, resizeAt, messages,
                 resizes, overlapped, late, faulted, unzip, output, due, played,
                 shown>>

BytesUntilControl == due.offset - Len(played)

\* The next control message, which should not lie before what was sent.
Pop ==
  /\ play = "pop"
  /\ controls # <<>>
  /\ Head(controls).type # "none"
  /\ due' = Head(controls)
  /\ controls' = Tail(controls)
  /\ play' = IF Len(played) > Head(controls).offset THEN "inconsistent" ELSE "skip"
  /\ UNCHANGED <<recorderVars, docs, unzip, output, played, shown>>

\* There is none, or one of no known type.
PopNone ==
  /\ play = "pop"
  /\ controls # <<>> => Head(controls).type = "none"
  /\ controls' = <<>>
  /\ play' = "copy"
  /\ UNCHANGED <<recorderVars, docs, unzip, output, due, played, shown>>

\* Whole buffers are sent while the control message lies beyond the next one.
Skip ==
  /\ play = "skip"
  /\ IF BytesUntilControl > ReadSize
       THEN LET r == Read(ReadSize) IN
              /\ Send(r)
              /\ play' = IF r.error \/ r.data = <<>> THEN "upto" ELSE "skip"
       ELSE play' = "upto" /\ UNCHANGED <<played, output, unzip, docs>>
  /\ UNCHANGED <<recorderVars, controls, due, shown>>

\* Mutation: the buffer is filled instead of read up to the control message.
FillsBuffer(n) == ReadSize

UpTo(n) == n

\* The rest is read in one call, whatever it returns, and the message is sent.
SendUpTo ==
  /\ play = "upto"
  /\ BytesUntilControl <= ReadSize
  /\ Send(Read(UpTo(BytesUntilControl)))
  /\ shown' = Append(shown,
                [offset |-> due.offset, at |-> Len(played'),
                 left |-> FlattenSeq(<<output', unzip'>> \o docs') # <<>>])
  /\ play' = "pop"
  /\ UNCHANGED <<recorderVars, controls, due>>

\* The slice of the buffer up to the control message is out of its bounds.
SliceOutOfRange ==
  /\ play = "upto"
  /\ BytesUntilControl > ReadSize
  /\ play' = "panic"
  /\ UNCHANGED <<recorderVars, docs, unzip, output, controls, due, played,
                 shown>>

\* io.Copy of the rest of the recording, until an error or its end.
Copy ==
  /\ play = "copy"
  /\ LET r == Read(MaxOutput) IN
       /\ Send(r)
       /\ play' = IF r.error THEN "done" ELSE "copy"
  /\ UNCHANGED <<recorderVars, controls, due, shown>>

PlaybackNext ==
  Start \/ Pop \/ PopNone \/ Skip \/ SendUpTo \/ SliceOutOfRange \/ Copy

Next ==
  \/ RecorderNext /\ UNCHANGED playbackVars
  \/ PlaybackNext

Spec == Init /\ [][Next]_vars

-----------------------------------------------------------------------------
(* Properties                                                              *)

\* No document of the recording was garbled by two flushes at once.
Readable == <<>> \notin Range(stored["recording"])

\* The playback sends what is stored, in its order, without a gap or a
\* repetition, however the calls to the reader cut it into pieces; and all of it,
\* unless it stops at an inconsistency or a document it cannot read.
PlayedIsStored ==
  /\ IsPrefix(played, StoredOutput)
  /\ play = "done" /\ Readable => played = StoredOutput

\* A control message is sent before the output it belongs to, and less than a
\* read buffer early: the read before it may return less than asked for.
ControlsInTime ==
  \A i \in DOMAIN shown :
    /\ shown[i].at <= shown[i].offset
    /\ shown[i].left /\ Readable => shown[i].offset - shown[i].at < ReadSize

\* "this should never happen" (store/mongo/datastore_mongo.go:478), and it does
\* only for a resize, whose offset was taken before the pause it follows, or when
\* calls to the buffer of the control messages overlapped.
InconsistentOnlyByResize ==
  play = "inconsistent" /\ ~overlapped["control"] => due.type = "resize"

\* "this means that the control offset is in the future part of the recording
\* buffer" (store/mongo/datastore_mongo.go:530).
OffsetInBuffer ==
  play = "upto" /\ Readable => BytesUntilControl <= ReadSize
=============================================================================
