------------------------- MODULE TrackBytes_proofs -------------------------
(***************************************************************************)
(* Proofs about the bytes of a track: the buffer a download fills for the  *)
(* readers of one load (StreamBuffer), and the cache on disk a finished    *)
(* one is stored in (TrackCache).                                          *)
(***************************************************************************)
EXTENDS StreamBuffer, TrackCache, FiniteSetTheorems, FunctionTheorems, WellFoundedInduction, TLAPS

(***************************************************************************)
(* THE BUFFER (StreamBuffer).  The bytes a reader of it is told are the    *)
(* file's, and only the whole file is cached, whatever restarts,           *)
(* reconnects, cancels and readers come between.                           *)
(***************************************************************************)
(* The steps of a stream that has not been interrupted; at those of Settled *)
(* no chunk can be discarded any more.                                     *)
Settled == {"backoff", "reconnecting", "parking", "finishing"}
Flowing == {"streaming", "pacing", "writing", "broken", "ended"}

(* The task appends where the buffer ends, unless a restart is pending.    *)
OffsetFollows ==
    /\ at \in Settled \cup Flowing => base = origin
    /\ at \in Settled => offset = End
    /\ at \in Flowing /\ target = None => offset = End
    /\ at \in {"streaming", "pacing", "writing"} => body = offset
    /\ at \in {"pacing", "writing"} => body < Total

(* The buffer never runs past the file.                                    *)
WithinFile == End <= Total

(* A stream that ended, ended where the file does or was cut.              *)
EndIsTheFile ==
    /\ at \in {"ended", "parking", "finishing"} => cut \/ offset = Total
    /\ at = "closing" => cut \/ End = Total
    /\ finished /\ error = None => cut \/ End = Total

(* The staged bytes are the buffer's while they are staged, parked, cached. *)
StagedIsTheBuffer ==
    /\ sink # None => at \in Settled \cup Flowing \cup {"failing"}
    /\ SinkIsTheBuffer
    /\ ciphertext # None => at = "done" /\ ciphertext = data /\ base = 0
    /\ CachedIsWhole

(* What the task holds where it needs it.                                  *)
TaskHolds ==
    /\ at = "taking" => target # None
    /\ at \in {"debounce", "requesting", "partial", "ignored"} => aim # None
    /\ at = "failing" => cause # None

Flow ==
    /\ BufferIsTheFile
    /\ OffsetFollows
    /\ WithinFile
    /\ EndIsTheFile
    /\ StagedIsTheBuffer
    /\ TaskHolds

IInv == TypeOK /\ Flow

flow == <<base, data, finished, error, target, ciphertext, at, aim, origin, offset,
          body, sink, cause, cached, cut>>

LEMMA InitInv == Init => IInv
<1> SUFFICES ASSUME Init PROVE IInv
  OBVIOUS
<1> USE StreamBufferAssumption
<1>e. <<>> \in Seq(Bytes)
  OBVIOUS
<1>s. (sink = <<>> /\ at = "streaming") \/ sink = None
  BY DEF Init, Opened
<1>1. InnerOK
  <2>1. finished \in BOOLEAN
    BY DEF Init
  <2>2. cancelled \in BOOLEAN
    BY DEF Init
  <2>3. stop \in BOOLEAN
    BY DEF Init
  <2>4. cut \in BOOLEAN
    BY DEF Init
  <2>5. /\ session \in Sessions /\ base \in Positions /\ data \in Seq(Bytes)
        /\ error \in Causes \cup {None} /\ target \in Positions \cup {None}
        /\ ciphertext \in Seq(Bytes) \cup {None} /\ cached \in Seq(Bytes) \cup {None}
    BY <1>e DEF Init, Positions
  <2> QED
    BY <2>1, <2>2, <2>3, <2>4, <2>5 DEF InnerOK
<1>2. TaskOK
  <2>1. /\ at \in TaskSteps /\ cause \in Causes \cup {None}
    BY DEF Init, TaskSteps, Awaits, Causes
  <2>2. sink \in Seq(Bytes) \cup {None}
    BY <1>e, <1>s
  <2> QED
    BY <2>1, <2>2 DEF Init, TaskOK, Positions
<1>3. ReadersOK
  <2>1. answer \in [Readers -> Answers]
    BY DEF Init, Answers
  <2> QED
    BY <2>1 DEF Init, ReadersOK, ReaderSteps, Positions, Readers
<1>4. Flow
  <2>2. End = 0
    BY DEF Init, End
  <2>3. BufferIsTheFile
    BY DEF Init, BufferIsTheFile
  <2>4. OffsetFollows
    BY <2>2 DEF Init, OffsetFollows, Settled, Flowing
  <2>5. WithinFile /\ EndIsTheFile
    BY <2>2 DEF Init, WithinFile, EndIsTheFile
  <2>6. StagedIsTheBuffer
    BY <1>s DEF Init, StagedIsTheBuffer, SinkIsTheBuffer, CachedIsWhole, Flowing
  <2>7. TaskHolds
    BY DEF Init, TaskHolds, Causes
  <2> QED
    BY <2>3, <2>4, <2>5, <2>6, <2>7 DEF Flow
<1> QED
  BY <1>1, <1>2, <1>3, <1>4 DEF IInv, TypeOK

---------------------------------------------------------------------------
(* Frames. *)

LEMMA FlowFrame == Flow /\ UNCHANGED flow => Flow'
BY DEF Flow, flow, BufferIsTheFile, OffsetFollows, WithinFile, EndIsTheFile, TaskHolds,
   StagedIsTheBuffer, SinkIsTheBuffer, CachedIsWhole, End, File

LEMMA InnerFrame == InnerOK /\ UNCHANGED <<session, inner, stop, cached, cut>> => InnerOK'
BY DEF InnerOK, inner

LEMMA TaskFrame == TaskOK /\ UNCHANGED task => TaskOK'
BY DEF TaskOK, task, stream

LEMMA ReadersFrame == ReadersOK /\ UNCHANGED readers => ReadersOK'
BY DEF ReadersOK, readers

LEMMA WokenType == ReadersOK => Woken \in [Readers -> ReaderSteps]
BY DEF ReadersOK, Woken, ReaderSteps

LEMMA WakeOK == ReadersOK /\ Wake => ReadersOK'
BY WokenType DEF ReadersOK, Wake

LEMMA WordAnswers ==
    ASSUME NEW w \in Failures \cup {"none", "end"}
    PROVE  Word(w) \in Answers
BY DEF Answers

(* The locals of a stream dropped with it. *)
LEMMA NoStreamOK ==
    ASSUME NoStream, at' \in TaskSteps
    PROVE  TaskOK'
BY StreamBufferAssumption DEF NoStream, TaskOK, Positions

(* A task with no stream leaves the buffer's bytes as they are. *)
LEMMA NoStreamFlow ==
    ASSUME Flow, NoStream, at' \in {"taking", "waiting", "done"},
           at' = "taking" => target' # None,
           at = "done" => at' = "done",
           UNCHANGED <<base, data, finished, error, ciphertext, cached, cut>>
    PROVE  Flow'
<1>1. BufferIsTheFile' /\ WithinFile'
  BY DEF Flow, BufferIsTheFile, WithinFile, End
<1>2. OffsetFollows'
  BY DEF OffsetFollows, Settled, Flowing
<1>3. EndIsTheFile'
  BY DEF Flow, EndIsTheFile, End
<1>4. StagedIsTheBuffer'
  BY DEF Flow, StagedIsTheBuffer, SinkIsTheBuffer, CachedIsWhole, NoStream, File
<1>5. TaskHolds'
  BY DEF TaskHolds
<1> QED
  BY <1>1, <1>2, <1>3, <1>4, <1>5 DEF Flow

---------------------------------------------------------------------------
(* The readers. *)

LEMMA ReaderInv ==
    ASSUME IInv, NEW r \in Readers, Reader(r)
    PROVE  IInv'
<1> USE DEF IInv, TypeOK
<1>1. ASSUME UNCHANGED <<session, inner, stop, task, cached, cut>>, ReadersOK'
      PROVE  IInv'
  <2>1. InnerOK' /\ TaskOK'
    BY <1>1, InnerFrame, TaskFrame
  <2>2. UNCHANGED flow
    BY <1>1 DEF flow, inner, task, stream
  <2> QED
    BY <1>1, <2>1, <2>2, FlowFrame
<1> DEFINE Unmoved == UNCHANGED <<session, inner, stop, task, cached, cut>>
<1>2. CASE Ask(r)
  <2>1. Unmoved
    BY <1>2 DEF Ask
  <2>2. ReadersOK'
    BY <1>2, WordAnswers, StreamBufferAssumption DEF Ask, ReadersOK, ReaderSteps
  <2> QED
    BY <2>1, <2>2, <1>1
<1>3. CASE \E p \in Positions : SeekTo(r, p)
  <2>1. Unmoved
    BY <1>3 DEF SeekTo
  <2>2. ReadersOK'
    BY <1>3, WordAnswers DEF SeekTo, ReadersOK
  <2> QED
    BY <2>1, <2>2, <1>1
<1>4. ASSUME NEW a \in Answers, Told(r, a), cursor' \in [Readers -> Positions]
      PROVE  IInv'
  <2>1. Unmoved
    BY <1>4 DEF Told
  <2>2. ReadersOK'
    BY <1>4, StreamBufferAssumption DEF Told, ReadersOK, ReaderSteps
  <2> QED
    BY <2>1, <2>2, <1>1
<1>5. CASE ReadStops(r)
  <2>1. Word("stopped") \in Answers
    BY WordAnswers DEF Failures
  <2> QED
    BY <1>5, <2>1, <1>4 DEF ReadStops, ReadersOK
<1>6. CASE ReadFails(r)
  <2>1. Word(error) \in Answers
    BY <1>6, WordAnswers DEF ReadFails, Failures, InnerOK
  <2> QED
    BY <1>6, <2>1, <1>4 DEF ReadFails, ReadersOK
<1>7. CASE ReadServes(r)
  <2>1. cursor[r] \in Positions /\ base \in Positions /\ Len(data) \in Nat
    BY DEF ReadersOK, InnerOK
  <2>2. cursor[r] - base + 1 \in 1 .. Len(data) /\ cursor[r] < Total
    BY <1>7, <2>1, StreamBufferAssumption
    DEF ReadServes, Held, Flow, WithinFile, End, Positions
  <2>3. data[cursor[r] - base + 1] \in Bytes
    BY <2>2 DEF InnerOK
  <2>4. Byte(data[cursor[r] - base + 1]) \in Answers
    BY <2>3 DEF Answers
  <2>5. cursor' \in [Readers -> Positions]
    BY <1>7, <2>1, <2>2, StreamBufferAssumption DEF ReadServes, ReadersOK, Positions
  <2> QED
    BY <1>7, <2>4, <2>5, <1>4 DEF ReadServes
<1>8. CASE ReadEnds(r)
  BY <1>8, WordAnswers, <1>4 DEF ReadEnds, ReadersOK
<1>9. CASE Park(r)
  <2>1. Unmoved
    BY <1>9 DEF Park
  <2>2. ReadersOK'
    BY <1>9 DEF Park, ReadersOK, ReaderSteps
  <2> QED
    BY <2>1, <2>2, <1>1
<1>10. CASE TimesOut(r)
  <2>1. CASE starved[r] + 1 < StallCycles
    <3>1. Unmoved /\ UNCHANGED <<answer, live>>
      BY <1>10, <2>1, StreamBufferAssumption DEF TimesOut, Told, ReadersOK
    <3>2. ReadersOK'
      BY <1>10, <2>1, <3>1, StreamBufferAssumption DEF TimesOut, ReadersOK, ReaderSteps
    <3> QED
      BY <3>1, <3>2, <1>1
  <2>2. CASE starved[r] + 1 >= StallCycles
    <3>1. Told(r, Word("starved")) /\ UNCHANGED cursor
      BY <1>10, <2>2, StreamBufferAssumption DEF TimesOut, ReadersOK
    <3>2. Word("starved") \in Answers
      BY WordAnswers DEF Failures
    <3> QED
      BY <3>1, <3>2, <1>4 DEF ReadersOK
  <2> QED
    BY <2>1, <2>2, StreamBufferAssumption DEF ReadersOK
<1>11. CASE ReadWaits(r)
  <2>1. ReadersOK' /\ TaskOK'
    <3>1. step' \in [Readers -> ReaderSteps]
      BY <1>11 DEF ReadWaits, ReadersOK, ReaderSteps
    <3> QED
      BY <3>1, <1>11, TaskFrame DEF ReadWaits, ReadersOK
  <2>2. target' \in Positions \cup {None} /\ (target # None => target' # None)
    BY <1>11, StreamBufferAssumption DEF ReadWaits, ReadersOK, InnerOK, Positions
  <2>3. InnerOK'
    BY <1>11, <2>2 DEF ReadWaits, InnerOK
  <2>4. /\ finished' = FALSE
        /\ UNCHANGED <<base, data, error, ciphertext, at, aim, origin, offset, body,
                       sink, cause, cached, cut>>
    BY <1>11 DEF ReadWaits, task, stream
  <2>5. Flow'
    <3>1. BufferIsTheFile' /\ WithinFile' /\ StagedIsTheBuffer'
      BY <2>4 DEF Flow, BufferIsTheFile, WithinFile, StagedIsTheBuffer, SinkIsTheBuffer,
         CachedIsWhole, End, File
    <3>2. OffsetFollows' /\ EndIsTheFile' /\ TaskHolds'
      BY <2>2, <2>4 DEF Flow, OffsetFollows, EndIsTheFile, TaskHolds, End
    <3> QED
      BY <3>1, <3>2 DEF Flow
  <2> QED
    BY <2>1, <2>3, <2>5
<1> QED
  BY <1>2, <1>3, <1>5, <1>6, <1>7, <1>8, <1>9, <1>10, <1>11 DEF Reader, Read

---------------------------------------------------------------------------
(* Who holds the buffer. *)

LEMMA HolderInv ==
    ASSUME IInv, Respawn \/ Cancel \/ CancelDownload \/ StoreCiphertext
    PROVE  IInv'
<1> USE DEF IInv, TypeOK
<1>1. CASE Respawn
  <2>1. ReadersOK'
    BY <1>1, WokenType, StreamBufferAssumption DEF Respawn, ReadersOK, Readers
  <2>2. InnerOK' /\ TaskOK' /\ UNCHANGED flow
    BY <1>1, InnerFrame, TaskFrame DEF Respawn, flow, inner, task, stream
  <2> QED
    BY <2>1, <2>2, FlowFrame
<1>2. CASE Cancel
  <2>1. ReadersOK' /\ TaskOK'
    BY <1>2, WakeOK, TaskFrame DEF Cancel
  <2>2. cancelled' \in BOOLEAN /\ stop' \in BOOLEAN
    BY <1>2 DEF Cancel
  <2>3. InnerOK'
    BY <1>2, <2>2 DEF Cancel, InnerOK
  <2>4. UNCHANGED flow
    BY <1>2 DEF Cancel, flow, task, stream
  <2> QED
    BY <2>1, <2>3, <2>4, FlowFrame
<1>3. CASE CancelDownload
  <2>1. ReadersOK' /\ TaskOK'
    BY <1>3, ReadersFrame, TaskFrame DEF CancelDownload
  <2>2. stop' \in BOOLEAN
    BY <1>3 DEF CancelDownload
  <2>3. InnerOK'
    BY <1>3, <2>2 DEF CancelDownload, InnerOK, inner
  <2>4. UNCHANGED flow
    BY <1>3 DEF CancelDownload, flow, inner, task, stream
  <2> QED
    BY <2>1, <2>3, <2>4, FlowFrame
<1>4. CASE StoreCiphertext
  <2>1. ReadersOK' /\ TaskOK'
    BY <1>4, ReadersFrame, TaskFrame DEF StoreCiphertext
  <2>2. InnerOK'
    BY <1>4 DEF StoreCiphertext, InnerOK
  <2>3. UNCHANGED <<base, data, finished, error, target, at, aim, origin, offset, body,
                    sink, cause, cut>>
    BY <1>4 DEF StoreCiphertext, task, stream
  <2>4. ciphertext = data /\ base = 0 /\ Len(data) = Total
    BY <1>4, StreamBufferAssumption
    DEF StoreCiphertext, Flow, StagedIsTheBuffer, IsWhole, WithinFile, End, InnerOK
  <2>5. data = File
    BY <2>4, StreamBufferAssumption DEF Flow, BufferIsTheFile, File, InnerOK
  <2>6. StagedIsTheBuffer'
    BY <1>4, <2>3, <2>4, <2>5
    DEF StoreCiphertext, Flow, StagedIsTheBuffer, SinkIsTheBuffer, CachedIsWhole, File
  <2>7. /\ BufferIsTheFile' /\ OffsetFollows' /\ WithinFile' /\ EndIsTheFile'
        /\ TaskHolds'
    BY <2>3 DEF Flow, BufferIsTheFile, OffsetFollows, WithinFile, EndIsTheFile, End,
       TaskHolds
  <2> QED
    BY <2>1, <2>2, <2>6, <2>7 DEF Flow
<1> QED
  BY <1>1, <1>2, <1>3, <1>4

---------------------------------------------------------------------------
(* The task. *)

LEMMA ReturnInv ==
    ASSUME IInv, at # "done", Return, target' \in Positions \cup {None}
    PROVE  IInv'
<1> USE DEF IInv, TypeOK
<1>1. TaskOK'
  BY NoStreamOK DEF Return, TaskSteps
<1>2. ReadersOK'
  BY WakeOK, ReadersFrame DEF Return
<1>3. cancelled' \in BOOLEAN
  BY DEF Return, InnerOK
<1>4. InnerOK'
  BY <1>3 DEF Return, InnerOK
<1>5. Flow'
  BY NoStreamFlow DEF Return
<1> QED
  BY <1>1, <1>2, <1>4, <1>5

(* A step of the task that moves to s with its stream as it was. *)
LEMMA GoesOK ==
    ASSUME IInv, NEW s \in TaskSteps, Goes(s)
    PROVE  /\ ReadersOK'
           /\ at' = s
           /\ UNCHANGED <<base, data, finished, error, target, ciphertext, cached>>
           /\ cut' \in BOOLEAN => InnerOK'
<1>1. UNCHANGED readers /\ UNCHANGED inner
  BY DEF Goes
<1>2. ReadersOK'
  BY <1>1, ReadersFrame DEF IInv, TypeOK
<1>3. cut' \in BOOLEAN => InnerOK'
  BY <1>1 DEF Goes, IInv, TypeOK, InnerOK, inner
<1> QED
  BY <1>1, <1>2, <1>3 DEF Goes, inner

LEMMA GoesWithStream ==
    ASSUME IInv, NEW s \in TaskSteps, Goes(s), UNCHANGED <<stream, cut>>
    PROVE  /\ InnerOK' /\ TaskOK' /\ ReadersOK'
           /\ BufferIsTheFile' /\ WithinFile'
           /\ End' = End
           /\ at' = s
           /\ UNCHANGED <<base, data, finished, error, target, ciphertext, cached,
                         aim, origin, offset, body, sink, attempts, cause, cut>>
<1>1. cut' \in BOOLEAN
  BY DEF IInv, TypeOK, InnerOK
<1>2. TaskOK'
  BY DEF IInv, TypeOK, TaskOK, stream, Goes
<1> QED
  BY <1>1, <1>2, GoesOK
  DEF IInv, Flow, BufferIsTheFile, WithinFile, End, stream

LEMMA FailsInv ==
    ASSUME IInv, at \in {"requesting", "writing", "broken", "reconnecting"},
           NEW why \in Causes, Fails(why), UNCHANGED cut
    PROVE  IInv'
<1>1. Goes("failing") /\ "failing" \in TaskSteps
  BY DEF Fails, TaskSteps
<1>2. /\ ReadersOK' /\ InnerOK' /\ at' = "failing"
      /\ UNCHANGED <<base, data, finished, error, target, ciphertext, cached, cut,
                    aim, origin, offset, body, sink, attempts>>
  <2>1. cut' \in BOOLEAN
    BY DEF IInv, TypeOK, InnerOK
  <2> QED
    BY <1>1, <2>1, GoesOK DEF Fails
<1>3. TaskOK'
  BY <1>2 DEF Fails, IInv, TypeOK, TaskOK, TaskSteps
<1>4. BufferIsTheFile' /\ WithinFile' /\ OffsetFollows' /\ EndIsTheFile'
  BY <1>2 DEF IInv, Flow, BufferIsTheFile, WithinFile, OffsetFollows, EndIsTheFile, End,
     Settled, Flowing
<1>5. StagedIsTheBuffer'
  BY <1>2 DEF IInv, Flow, StagedIsTheBuffer, SinkIsTheBuffer, CachedIsWhole, File
<1>6. TaskHolds'
  BY <1>2, StreamBufferAssumption DEF Fails, TaskHolds
<1> QED
  BY <1>2, <1>3, <1>4, <1>5, <1>6 DEF IInv, TypeOK, Flow

(* The conjuncts of Flow that a move of the task may disturb. *)
LEMMA MoveFlow ==
    ASSUME IInv, NEW s \in TaskSteps, Goes(s), UNCHANGED <<stream, cut>>,
           OffsetFollows', EndIsTheFile', TaskHolds',
           sink # None => s \in Settled \cup Flowing \cup {"failing"},
           at # "done"
    PROVE  IInv'
<1>1. StagedIsTheBuffer'
  BY GoesWithStream DEF IInv, Flow, StagedIsTheBuffer, SinkIsTheBuffer, CachedIsWhole, File
<1> QED
  BY <1>1, GoesWithStream DEF IInv, TypeOK, Flow

LEMMA InterruptedInv ==
    ASSUME IInv, Interrupted
    PROVE  IInv'
<1> USE DEF IInv, TypeOK
<1>1. target \in Positions \cup {None}
  BY DEF InnerOK
<1>2. CASE Return /\ UNCHANGED target
  BY <1>1, <1>2, ReturnInv DEF Interrupted
<1>3. CASE ~(Return /\ UNCHANGED target)
  <2>1. /\ target # None /\ at # "done" /\ at' = "taking" /\ NoStream
        /\ UNCHANGED <<session, inner, stop, readers, cached, cut>>
    BY <1>3 DEF Interrupted
  <2>2. InnerOK' /\ ReadersOK' /\ TaskOK'
    BY <2>1, InnerFrame, ReadersFrame, NoStreamOK DEF TaskSteps
  <2>3. Flow'
    BY <2>1, NoStreamFlow DEF inner
  <2> QED
    BY <2>2, <2>3
<1> QED
  BY <1>2, <1>3

LEMMA TakeTargetInv ==
    ASSUME IInv, TakeTarget
    PROVE  IInv'
<1> USE DEF IInv, TypeOK
<1>1. InnerOK'
  BY DEF TakeTarget, InnerOK
<1>2. TaskOK'
  BY DEF TakeTarget, TaskOK, InnerOK, TaskSteps, Awaits
<1>3. ReadersOK'
  BY ReadersFrame DEF TakeTarget
<1>4. at = "taking" /\ at' = "debounce" /\ aim' # None
  BY DEF TakeTarget, Flow, TaskHolds
<1>5. UNCHANGED <<base, data, finished, error, ciphertext, origin, offset, body, sink,
                 cause, cached, cut>>
  BY DEF TakeTarget
<1>6. BufferIsTheFile' /\ WithinFile' /\ OffsetFollows' /\ EndIsTheFile' /\ TaskHolds'
  BY <1>4, <1>5 DEF Flow, BufferIsTheFile, WithinFile, OffsetFollows, EndIsTheFile, End,
     Settled, Flowing, TaskHolds
<1>7. StagedIsTheBuffer'
  BY <1>4, <1>5 DEF Flow, StagedIsTheBuffer, SinkIsTheBuffer, CachedIsWhole, File,
     Settled, Flowing
<1> QED
  BY <1>1, <1>2, <1>3, <1>6, <1>7 DEF Flow

LEMMA DebounceInv ==
    ASSUME IInv, Debounce
    PROVE  IInv'
<1> USE DEF IInv, TypeOK
<1>1. CASE Return
  BY <1>1, ReturnInv DEF Debounce
<1>2. CASE ~Return
  <2>1. /\ at = "debounce" /\ target' = None /\ at' = "requesting"
        /\ aim' = IF target # None THEN target ELSE aim
        /\ UNCHANGED <<session, base, data, finished, cancelled, error, ciphertext,
                       stop, origin, offset, body, sink, attempts, cause, readers,
                       cached, cut>>
    BY <1>2 DEF Debounce
  <2>2. aim' \in Positions \cup {None} /\ aim' # None
    BY <2>1 DEF InnerOK, TaskOK, Flow, TaskHolds
  <2>3. InnerOK'
    BY <2>1 DEF InnerOK
  <2>4. TaskOK'
    BY <2>1, <2>2 DEF TaskOK, TaskSteps, Awaits
  <2>5. ReadersOK'
    BY <2>1, ReadersFrame
  <2>6. /\ BufferIsTheFile' /\ WithinFile' /\ OffsetFollows' /\ EndIsTheFile'
        /\ TaskHolds'
    BY <2>1, <2>2 DEF Flow, BufferIsTheFile, WithinFile, OffsetFollows, EndIsTheFile,
       End, Settled, Flowing, TaskHolds
  <2>7. StagedIsTheBuffer'
    BY <2>1 DEF Flow, StagedIsTheBuffer, SinkIsTheBuffer, CachedIsWhole, File,
       Settled, Flowing
  <2> QED
    BY <2>3, <2>4, <2>5, <2>6, <2>7 DEF Flow
<1> QED
  BY <1>1, <1>2

LEMMA RangeAnsweredInv ==
    ASSUME IInv, RangeAnswered
    PROVE  IInv'
<1>1. at = "requesting" /\ aim # None /\ sink = None
  BY DEF RangeAnswered, IInv, Flow, TaskHolds, StagedIsTheBuffer, Settled, Flowing
<1>2. ASSUME NEW why \in Causes, Fails(why), UNCHANGED cut PROVE IInv'
  BY <1>1, <1>2, FailsInv
<1>3. CASE \E why \in Causes : Fails(why)
  BY <1>2, <1>3 DEF Fails
<1>4. ASSUME NEW s \in {"ignored", "partial"}, Goes(s), UNCHANGED <<stream, cut>>
      PROVE  IInv'
  <2>1. s \in TaskSteps
    BY DEF TaskSteps
  <2>2. OffsetFollows' /\ EndIsTheFile' /\ TaskHolds'
    BY <1>1, <1>4, <2>1, GoesWithStream
    DEF IInv, Flow, OffsetFollows, EndIsTheFile, TaskHolds, Settled, Flowing
  <2> QED
    BY <1>1, <1>4, <2>1, <2>2, MoveFlow
<1>5. CASE Goes("closing") /\ cut' = (cut \/ End # Total) /\ UNCHANGED stream
  <2>1. cut' \in BOOLEAN
    BY <1>5 DEF IInv, TypeOK, InnerOK
  <2>2. "closing" \in TaskSteps
    BY DEF TaskSteps
  <2>3. /\ ReadersOK' /\ InnerOK' /\ at' = "closing"
        /\ UNCHANGED <<base, data, finished, error, target, ciphertext, cached>>
    BY <1>5, <2>1, <2>2, GoesOK
  <2>4. TaskOK'
    BY <1>5, <2>2, <2>3 DEF IInv, TypeOK, TaskOK, stream
  <2>5. /\ BufferIsTheFile' /\ WithinFile' /\ OffsetFollows' /\ TaskHolds'
    BY <2>3 DEF IInv, Flow, BufferIsTheFile, WithinFile, OffsetFollows, End,
       Settled, Flowing, TaskHolds
  <2>6. StagedIsTheBuffer'
    BY <1>1, <1>5, <2>3 DEF IInv, Flow, StagedIsTheBuffer, SinkIsTheBuffer,
       CachedIsWhole, File, stream
  <2>7. EndIsTheFile'
    BY <1>5, <2>3 DEF IInv, Flow, EndIsTheFile, End
  <2> QED
    BY <2>3, <2>4, <2>5, <2>6, <2>7 DEF IInv, TypeOK, Flow
<1> QED
  BY <1>3, <1>4, <1>5 DEF RangeAnswered, Causes

LEMMA RestartInv ==
    ASSUME IInv, Restart
    PROVE  IInv'
<1> USE DEF IInv, TypeOK
<1>1. PICK from \in Positions : StreamFrom(from)
  <2>1. at \in {"partial", "ignored"} => aim \in Positions
    BY DEF Flow, TaskHolds, TaskOK
  <2>2. 0 \in Positions
    BY StreamBufferAssumption DEF Positions
  <2> QED
    BY <2>1, <2>2 DEF Restart
<1>2. at # "done" /\ ciphertext = None
  BY DEF Restart, Flow, StagedIsTheBuffer
<1>3. /\ base' = from /\ data' = <<>> /\ finished' = FALSE /\ error' = None
      /\ at' = "streaming" /\ aim' = None /\ origin' = from /\ offset' = from
      /\ body' = from
      /\ UNCHANGED <<session, cancelled, target, ciphertext, stop, attempts, cause,
                     cached, cut>>
  BY <1>1 DEF StreamFrom, Reset
<1>4. sink' = None \/ (sink' = <<>> /\ from = 0)
  BY <1>1 DEF StreamFrom, Opened
<1>5. <<>> \in Seq(Bytes)
  OBVIOUS
<1>6. InnerOK'
  BY <1>3, <1>5 DEF InnerOK
<1>7. TaskOK'
  BY <1>3, <1>4, <1>5 DEF TaskOK, TaskSteps, Awaits
<1>8. ReadersOK'
  BY <1>1, WakeOK DEF StreamFrom, Reset
<1>9. End' = from /\ from <= Total
  BY <1>3, StreamBufferAssumption DEF End, Positions
<1>10. BufferIsTheFile'
  BY <1>3 DEF BufferIsTheFile
<1>11. WithinFile' /\ OffsetFollows' /\ EndIsTheFile' /\ TaskHolds'
  BY <1>3, <1>9 DEF WithinFile, OffsetFollows, EndIsTheFile, Settled, Flowing, TaskHolds
<1>12. StagedIsTheBuffer'
  BY <1>2, <1>3, <1>4 DEF Flow, StagedIsTheBuffer, SinkIsTheBuffer, CachedIsWhole, File,
     Flowing
<1> QED
  BY <1>6, <1>7, <1>8, <1>10, <1>11, <1>12 DEF Flow

LEMMA StreamYieldsInv ==
    ASSUME IInv, StreamYields
    PROVE  IInv'
<1>1. at = "streaming" /\ body = offset /\ body \in Positions
  BY DEF StreamYields, IInv, TypeOK, TaskOK, Flow, OffsetFollows
<1>2. ASSUME NEW s \in {"pacing", "broken"}, Goes(s), UNCHANGED <<stream, cut>>,
             s = "pacing" => body < Total
      PROVE  IInv'
  <2>1. s \in TaskSteps /\ s \in Flowing
    BY DEF TaskSteps, Awaits, Flowing
  <2>2. OffsetFollows' /\ EndIsTheFile' /\ TaskHolds'
    BY <1>1, <1>2, <2>1, GoesWithStream
    DEF IInv, Flow, OffsetFollows, EndIsTheFile, TaskHolds, Settled, Flowing
  <2> QED
    BY <1>1, <1>2, <2>1, <2>2, MoveFlow
<1>3. CASE /\ body = Total \/ "short" \in session
           /\ Goes("ended")
           /\ cut' = (cut \/ body < Total)
           /\ UNCHANGED stream
  <2>1. cut' \in BOOLEAN
    BY <1>3 DEF IInv, TypeOK, InnerOK
  <2>2. "ended" \in TaskSteps /\ "ended" \in Flowing
    BY DEF TaskSteps, Flowing
  <2>3. /\ ReadersOK' /\ InnerOK' /\ at' = "ended"
        /\ UNCHANGED <<base, data, finished, error, target, ciphertext, cached>>
    BY <1>3, <2>1, <2>2, GoesOK
  <2>4. TaskOK'
    BY <1>3, <2>2, <2>3 DEF IInv, TypeOK, TaskOK, stream
  <2>5. BufferIsTheFile' /\ WithinFile' /\ TaskHolds'
    BY <2>3 DEF IInv, Flow, BufferIsTheFile, WithinFile, End, TaskHolds
  <2>6. OffsetFollows'
    BY <1>1, <1>3, <2>3 DEF IInv, Flow, OffsetFollows, End, Settled, Flowing, stream
  <2>7. StagedIsTheBuffer'
    BY <1>1, <1>3, <2>2, <2>3 DEF IInv, Flow, StagedIsTheBuffer, SinkIsTheBuffer,
       CachedIsWhole, File, stream
  <2>8. cut' \/ offset' = Total
    <3>1. body = Total \/ body < Total
      BY <1>1, StreamBufferAssumption DEF Positions
    <3>2. body < Total => cut'
      BY <1>3
    <3>3. offset' = body
      BY <1>1, <1>3 DEF stream
    <3> QED
      BY <3>1, <3>2, <3>3
  <2>9. cut => cut'
    BY <1>3
  <2>10. EndIsTheFile'
    BY <2>3, <2>8, <2>9 DEF IInv, Flow, EndIsTheFile, End
  <2> QED
    BY <2>3, <2>4, <2>5, <2>6, <2>7, <2>10 DEF IInv, TypeOK, Flow
<1> QED
  BY <1>2, <1>3 DEF StreamYields

LEMMA PacedInv ==
    ASSUME IInv, Paced
    PROVE  IInv'
<1>1. at = "pacing" /\ Goes("writing") /\ UNCHANGED <<stream, cut>>
  BY DEF Paced
<1>2. "writing" \in TaskSteps /\ "writing" \in Flowing
  BY DEF TaskSteps, Flowing
<1>3. OffsetFollows' /\ EndIsTheFile' /\ TaskHolds'
  BY <1>1, <1>2, GoesWithStream
  DEF IInv, Flow, OffsetFollows, EndIsTheFile, TaskHolds, Settled, Flowing
<1> QED
  BY <1>1, <1>2, <1>3, MoveFlow

LEMMA WriteInv ==
    ASSUME IInv, Write
    PROVE  IInv'
<1> USE DEF IInv, TypeOK
<1>1. /\ at = "writing" /\ at' = "streaming" /\ attempts' = 0
      /\ offset' = offset + 1 /\ body' = body + 1
      /\ UNCHANGED <<session, base, finished, cancelled, error, target, ciphertext,
                     stop, aim, origin, cause, cached, cut>>
  BY DEF Write
<1>2. /\ body = offset /\ body < Total /\ base = origin /\ ciphertext = None
      /\ target = None => offset = End
  BY <1>1 DEF Flow, OffsetFollows, StagedIsTheBuffer, Flowing
<1>3. /\ body \in Nat /\ body \in Bytes /\ body + 1 \in Positions
      /\ data \in Seq(Bytes) /\ base \in Nat
  BY <1>2, StreamBufferAssumption DEF TaskOK, InnerOK, Positions, Bytes
<1>4. CASE target = None
  <2>1. /\ data' = Append(data, body)
        /\ sink' = IF sink = None THEN None ELSE Append(sink, body)
        /\ Wake
    BY <1>4 DEF Write
  <2>2. /\ data' \in Seq(Bytes) /\ Len(data') = Len(data) + 1
        /\ \A i \in 1 .. Len(data) : data'[i] = data[i]
        /\ data'[Len(data) + 1] = body
    BY <1>3, <2>1
  <2>3. sink = None \/ (sink = data /\ base = 0)
    BY DEF Flow, StagedIsTheBuffer, SinkIsTheBuffer
  <2>4. sink' = None \/ (sink' = data' /\ base = 0)
    BY <2>1, <2>3
  <2>5. InnerOK'
    BY <1>1, <2>2 DEF InnerOK
  <2>6. TaskOK'
    BY <1>1, <1>2, <1>3, <2>2, <2>4, StreamBufferAssumption DEF TaskOK, TaskSteps, Awaits
  <2>7. ReadersOK'
    BY <2>1, WakeOK
  <2>8. End' = End + 1 /\ End = body /\ End' <= Total
    BY <1>1, <1>2, <1>3, <1>4, <2>2, StreamBufferAssumption DEF End
  <2>9. BufferIsTheFile'
    <3> SUFFICES ASSUME NEW i \in 1 .. (Len(data) + 1) PROVE data'[i] = base + i - 1
      BY <1>1, <2>2 DEF BufferIsTheFile
    <3>1. CASE i \in 1 .. Len(data)
      BY <3>1, <2>2 DEF Flow, BufferIsTheFile
    <3>2. CASE i = Len(data) + 1
      BY <3>2, <1>3, <2>2, <2>8 DEF End
    <3> QED
      BY <3>1, <3>2, <1>3
  <2>10. WithinFile' /\ OffsetFollows' /\ TaskHolds'
    BY <1>1, <1>2, <1>3, <2>8 DEF WithinFile, OffsetFollows, TaskHolds, Settled, Flowing
  <2>11. EndIsTheFile'
    BY <1>1, <1>2, <1>3, <2>8, StreamBufferAssumption DEF Flow, EndIsTheFile
  <2>12. StagedIsTheBuffer'
    BY <1>1, <1>2, <2>4 DEF Flow, StagedIsTheBuffer, SinkIsTheBuffer, CachedIsWhole,
       File, Flowing
  <2> QED
    BY <2>5, <2>6, <2>7, <2>9, <2>10, <2>11, <2>12 DEF Flow
<1>5. CASE target # None
  <2>1. sink' = None /\ UNCHANGED <<data, readers>>
    BY <1>5 DEF Write
  <2>2. InnerOK'
    BY <1>1, <2>1 DEF InnerOK
  <2>3. TaskOK'
    BY <1>1, <1>2, <1>3, <2>1, StreamBufferAssumption DEF TaskOK, TaskSteps, Awaits
  <2>4. ReadersOK'
    BY <2>1, ReadersFrame
  <2>5. BufferIsTheFile' /\ WithinFile' /\ EndIsTheFile' /\ TaskHolds'
    BY <1>1, <2>1 DEF Flow, BufferIsTheFile, WithinFile, EndIsTheFile, End, TaskHolds
  <2>6. OffsetFollows'
    BY <1>1, <1>2, <1>5, <2>1 DEF OffsetFollows, Settled, Flowing
  <2>7. StagedIsTheBuffer'
    BY <1>1, <1>2, <2>1 DEF Flow, StagedIsTheBuffer, SinkIsTheBuffer, CachedIsWhole, File
  <2> QED
    BY <2>2, <2>3, <2>4, <2>5, <2>6, <2>7 DEF Flow
<1> QED
  BY <1>4, <1>5

LEMMA UndecryptedInv ==
    ASSUME IInv, Undecrypted
    PROVE  IInv'
BY FailsInv DEF Undecrypted, Fails, Causes

LEMMA ReconnectInv ==
    ASSUME IInv, Reconnect
    PROVE  IInv'
<1>1. at = "broken" /\ target = None
  BY DEF Reconnect
<1>2. CASE Fails("network")
  BY <1>1, <1>2, FailsInv DEF Reconnect, Fails, Causes
<1>3. CASE /\ attempts + 1 <= MaxReconnects
           /\ Goes("backoff")
           /\ attempts' = attempts + 1
           /\ UNCHANGED <<aim, origin, offset, body, sink, cause, cut>>
  <2>1. "backoff" \in TaskSteps /\ cut' \in BOOLEAN
    BY <1>3 DEF TaskSteps, Awaits, IInv, TypeOK, InnerOK
  <2>2. /\ ReadersOK' /\ InnerOK' /\ at' = "backoff"
        /\ UNCHANGED <<base, data, finished, error, target, ciphertext, cached>>
    BY <1>3, <2>1, GoesOK
  <2>3. attempts' \in 0 .. MaxReconnects
    BY <1>3, StreamBufferAssumption DEF IInv, TypeOK, TaskOK
  <2>4. TaskOK'
    BY <1>3, <2>1, <2>2, <2>3 DEF IInv, TypeOK, TaskOK
  <2>5. BufferIsTheFile' /\ WithinFile' /\ TaskHolds' /\ EndIsTheFile'
    BY <1>3, <2>2 DEF IInv, Flow, BufferIsTheFile, WithinFile, End, TaskHolds, EndIsTheFile
  <2>6. OffsetFollows'
    BY <1>1, <1>3, <2>2 DEF IInv, Flow, OffsetFollows, End, Settled, Flowing
  <2>7. StagedIsTheBuffer'
    BY <1>1, <1>3, <2>2 DEF IInv, Flow, StagedIsTheBuffer, SinkIsTheBuffer,
       CachedIsWhole, File, Settled
  <2> QED
    BY <2>2, <2>4, <2>5, <2>6, <2>7 DEF IInv, TypeOK, Flow
<1> QED
  BY <1>2, <1>3 DEF Reconnect

LEMMA BackedOffInv ==
    ASSUME IInv, BackedOff
    PROVE  IInv'
<1>1. at = "backoff"
  BY DEF BackedOff
<1>2. CASE Goes("reconnecting") /\ UNCHANGED <<stream, cut>>
  <2>1. "reconnecting" \in TaskSteps /\ "reconnecting" \in Settled
    BY DEF TaskSteps, Awaits, Settled
  <2>2. OffsetFollows' /\ EndIsTheFile' /\ TaskHolds'
    BY <1>1, <1>2, <2>1, GoesWithStream
    DEF IInv, Flow, OffsetFollows, EndIsTheFile, TaskHolds, Settled, Flowing
  <2> QED
    BY <1>1, <1>2, <2>1, <2>2, MoveFlow
<1>3. CASE Return /\ UNCHANGED target
  <2>1. target' \in Positions \cup {None}
    BY <1>3 DEF IInv, TypeOK, InnerOK
  <2> QED
    BY <1>1, <1>3, <2>1, ReturnInv
<1> QED
  BY <1>2, <1>3 DEF BackedOff

LEMMA ReconnectedInv ==
    ASSUME IInv, Reconnected
    PROVE  IInv'
<1>1. /\ at = "reconnecting" /\ offset = End /\ base = origin
      /\ offset \in Positions
  BY DEF Reconnected, IInv, TypeOK, TaskOK, Flow, OffsetFollows, Settled
<1>2. CASE Fails("source")
  BY <1>1, <1>2, FailsInv DEF Fails, Causes, Reconnected
<1>3. CASE Goes("broken") /\ UNCHANGED <<stream, cut>>
  <2>1. "broken" \in TaskSteps /\ "broken" \in Flowing
    BY DEF TaskSteps, Flowing
  <2>2. OffsetFollows' /\ EndIsTheFile' /\ TaskHolds'
    BY <1>1, <1>3, <2>1, GoesWithStream
    DEF IInv, Flow, OffsetFollows, EndIsTheFile, TaskHolds, Settled, Flowing
  <2> QED
    BY <1>1, <1>3, <2>1, <2>2, MoveFlow
<1>4. CASE /\ offset < Total
           /\ Goes("streaming")
           /\ body' = offset
           /\ UNCHANGED <<aim, origin, offset, sink, attempts, cause, cut>>
  <2>1. "streaming" \in TaskSteps /\ cut' \in BOOLEAN
    BY <1>4 DEF TaskSteps, Awaits, IInv, TypeOK, InnerOK
  <2>2. /\ ReadersOK' /\ InnerOK' /\ at' = "streaming"
        /\ UNCHANGED <<base, data, finished, error, target, ciphertext, cached>>
    BY <1>4, <2>1, GoesOK
  <2>3. TaskOK'
    BY <1>1, <1>4, <2>1, <2>2 DEF IInv, TypeOK, TaskOK
  <2>4. BufferIsTheFile' /\ WithinFile' /\ TaskHolds' /\ EndIsTheFile'
    BY <1>4, <2>2 DEF IInv, Flow, BufferIsTheFile, WithinFile, End, TaskHolds, EndIsTheFile
  <2>5. OffsetFollows'
    BY <1>1, <1>4, <2>2 DEF OffsetFollows, End, Settled, Flowing
  <2>6. StagedIsTheBuffer'
    BY <1>1, <1>4, <2>2 DEF IInv, Flow, StagedIsTheBuffer, SinkIsTheBuffer,
       CachedIsWhole, File, Flowing
  <2> QED
    BY <2>2, <2>3, <2>4, <2>5, <2>6 DEF IInv, TypeOK, Flow
<1>5. CASE /\ offset >= Total
           /\ Goes(IF origin = 0 THEN "parking" ELSE "closing")
           /\ UNCHANGED <<stream, cut>>
  <2>1. offset = Total
    BY <1>1, <1>5, StreamBufferAssumption DEF Positions
  <2>2. PICK s \in {"parking", "closing"} : Goes(s) /\ (s = "closing" => origin # 0)
    BY <1>5
  <2>3. s \in TaskSteps
    BY DEF TaskSteps, Awaits
  <2>4. sink # None => s = "parking"
    BY <1>1, <2>2 DEF IInv, Flow, StagedIsTheBuffer, SinkIsTheBuffer
  <2>5. OffsetFollows' /\ EndIsTheFile' /\ TaskHolds'
    BY <1>1, <1>5, <2>1, <2>2, <2>3, GoesWithStream
    DEF IInv, Flow, OffsetFollows, EndIsTheFile, TaskHolds, Settled, Flowing
  <2> QED
    BY <1>1, <1>5, <2>2, <2>3, <2>4, <2>5, MoveFlow DEF Settled
<1> QED
  BY <1>2, <1>3, <1>4, <1>5 DEF Reconnected

LEMMA StreamEndedInv ==
    ASSUME IInv, StreamEnded
    PROVE  IInv'
<1>1. at = "ended" /\ target = None /\ offset = End /\ base = origin
  BY DEF StreamEnded, IInv, Flow, OffsetFollows, Flowing
<1>2. PICK s \in {"parking", "finishing"} : Goes(s) /\ UNCHANGED <<stream, cut>>
  BY DEF StreamEnded
<1>3. s \in TaskSteps /\ s \in Settled
  BY DEF TaskSteps, Awaits, Settled
<1>4. OffsetFollows' /\ EndIsTheFile' /\ TaskHolds'
  BY <1>1, <1>2, <1>3, GoesWithStream
  DEF IInv, Flow, OffsetFollows, EndIsTheFile, TaskHolds, Settled, Flowing
<1> QED
  BY <1>1, <1>2, <1>3, <1>4, MoveFlow

(* The steps that mark the stream finished and drop its locals. *)
LEMMA FinishOK ==
    ASSUME IInv, NoStream, Finish, at' \in {"waiting", "done"}, at # "done",
           UNCHANGED <<session, base, data, cancelled, target, stop, cached, cut>>,
           error' \in Causes \cup {None},
           error' = None => error = None /\ (cut \/ End = Total),
           \/ ciphertext' = None
           \/ ciphertext' \in Seq(Bytes) /\ ciphertext' = data /\ base = 0 /\ at' = "done"
    PROVE  IInv'
<1> USE DEF IInv, TypeOK
<1>1. finished' = TRUE /\ ReadersOK'
  BY WakeOK DEF Finish
<1>2. InnerOK'
  BY <1>1 DEF InnerOK
<1>3. TaskOK'
  BY NoStreamOK DEF TaskSteps, Awaits
<1>4. BufferIsTheFile' /\ WithinFile' /\ OffsetFollows' /\ TaskHolds'
  BY DEF Flow, BufferIsTheFile, WithinFile, OffsetFollows, End, TaskHolds, Settled, Flowing
<1>5. EndIsTheFile'
  BY DEF EndIsTheFile, End
<1>6. StagedIsTheBuffer'
  BY DEF Flow, StagedIsTheBuffer, SinkIsTheBuffer, CachedIsWhole, NoStream, File
<1> QED
  BY <1>1, <1>2, <1>3, <1>4, <1>5, <1>6 DEF Flow

LEMMA ParkAndFinishInv ==
    ASSUME IInv, ParkAndFinish
    PROVE  IInv'
<1> USE DEF IInv, TypeOK
<1>1. /\ at = "parking" /\ at' = "done" /\ NoStream /\ Finish
      /\ UNCHANGED <<session, base, data, cancelled, error, target, stop, cached, cut>>
  BY DEF ParkAndFinish
<1>2. cut \/ End = Total
  BY <1>1 DEF Flow, EndIsTheFile, OffsetFollows, Settled
<1>3. ciphertext = None /\ error \in Causes \cup {None}
  BY <1>1 DEF Flow, StagedIsTheBuffer, InnerOK
<1>4. \/ ciphertext' = None
      \/ ciphertext' \in Seq(Bytes) /\ ciphertext' = data /\ base = 0
  BY <1>3 DEF ParkAndFinish, Flow, StagedIsTheBuffer, SinkIsTheBuffer, TaskOK
<1> QED
  BY <1>1, <1>2, <1>3, <1>4, FinishOK

LEMMA FinishRangeInv ==
    ASSUME IInv, FinishRange
    PROVE  IInv'
<1> USE DEF IInv, TypeOK
<1>1. /\ at \in {"finishing", "closing"} /\ at' \in {"waiting", "done"}
      /\ NoStream /\ Finish
      /\ UNCHANGED <<session, base, data, cancelled, error, target, ciphertext, stop,
                     cached, cut>>
  BY DEF FinishRange
<1>2. cut \/ End = Total
  BY <1>1 DEF Flow, EndIsTheFile, OffsetFollows, Settled
<1>3. ciphertext = None /\ error \in Causes \cup {None}
  BY <1>1 DEF Flow, StagedIsTheBuffer, InnerOK
<1> QED
  BY <1>1, <1>2, <1>3, FinishOK

LEMMA FinishWithErrorInv ==
    ASSUME IInv, FinishWithError
    PROVE  IInv'
<1> USE DEF IInv, TypeOK
<1>1. /\ at = "failing" /\ at' = "done" /\ NoStream /\ Finish /\ error' = cause
      /\ UNCHANGED <<session, base, data, cancelled, target, ciphertext, stop, cached,
                     cut>>
  BY DEF FinishWithError
<1>2. cause \in Causes /\ ciphertext = None /\ None \notin Causes
  BY <1>1, StreamBufferAssumption DEF Flow, StagedIsTheBuffer, TaskHolds, TaskOK
<1> QED
  BY <1>1, <1>2, FinishOK

LEMMA TaskDroppedInv ==
    ASSUME IInv, TaskDropped
    PROVE  IInv'
<1>1. target' \in Positions \cup {None}
  BY DEF TaskDropped, IInv, TypeOK, InnerOK
<1> QED
  BY <1>1, ReturnInv DEF TaskDropped, Awaits

---------------------------------------------------------------------------
(* The theorems. *)

LEMMA StepInv == IInv /\ [Next]_vars => IInv'
<1> SUFFICES ASSUME IInv, [Next]_vars PROVE IInv'
  OBVIOUS
<1>1. CASE \E r \in Readers : Reader(r)
  BY <1>1, ReaderInv
<1>2. CASE Respawn \/ Cancel \/ CancelDownload \/ StoreCiphertext
  BY <1>2, HolderInv
<1>3. CASE Download
  BY <1>3, TaskDroppedInv, InterruptedInv, TakeTargetInv, DebounceInv, RangeAnsweredInv,
     RestartInv, StreamYieldsInv, PacedInv, WriteInv, UndecryptedInv, ReconnectInv,
     BackedOffInv, ReconnectedInv, StreamEndedInv, ParkAndFinishInv, FinishRangeInv,
     FinishWithErrorInv
  DEF Download
<1>4. CASE UNCHANGED vars
  <2>1. UNCHANGED flow
    BY <1>4 DEF vars, flow, inner, task, stream
  <2>2. InnerOK' /\ TaskOK' /\ ReadersOK'
    BY <1>4, InnerFrame, TaskFrame, ReadersFrame DEF vars, IInv, TypeOK
  <2> QED
    BY <2>1, <2>2, FlowFrame DEF IInv, TypeOK
<1> QED
  BY <1>1, <1>2, <1>3, <1>4 DEF Next

THEOREM Invariant == Spec => []IInv
BY InitInv, StepInv, PTL DEF Spec

(* Every variable of the buffer, its task and its readers keeps its type   *)
(* (RamBuffer, download_stream).                                           *)
THEOREM TypeCorrect == Spec => []TypeOK
<1>1. IInv => TypeOK
  BY DEF IInv
<1> QED
  BY <1>1, Invariant, PTL

(* Whatever was restarted, reconnected or discarded, the buffer holds the  *)
(* file's bytes from its base on (write_counted, reset_for_range).         *)
THEOREM FileCorrect == Spec => []BufferIsTheFile
<1>1. IInv => BufferIsTheFile
  BY DEF IInv, Flow
<1> QED
  BY <1>1, Invariant, PTL

(* The ciphertext staged beside the buffer never diverges from it          *)
(* (download_stream).                                                      *)
THEOREM SinkCorrect == Spec => []SinkIsTheBuffer
<1>1. IInv => SinkIsTheBuffer
  BY DEF IInv, Flow, StagedIsTheBuffer
<1> QED
  BY <1>1, Invariant, PTL

(* Only the whole file reaches the disk cache (take_ciphertext).           *)
THEOREM CacheCorrect == Spec => []CachedIsWhole
<1>1. IInv => CachedIsWhole
  BY DEF IInv, Flow, StagedIsTheBuffer
<1> QED
  BY <1>1, Invariant, PTL

(* The buffer, the staged ciphertext and the cache hold the file's bytes.  *)
THEOREM HoldsCorrect == Spec => []HoldsTheFile
<1>1. BufferIsTheFile /\ SinkIsTheBuffer /\ CachedIsWhole => HoldsTheFile
  BY DEF HoldsTheFile
<1> QED
  BY <1>1, FileCorrect, SinkCorrect, CacheCorrect, PTL

---------------------------------------------------------------------------
(* The refinement. *)

LEMMA SourceInit == Init => Source!Init
BY DEF Init, Source!Init, Word, Source!Word

(* A read that is told a works for the source as one that is told a. *)
LEMMA SourceTold ==
    ASSUME IInv, NEW r \in Readers, step[r] = "looking" \/ step[r] = "parked",
           NEW a, Told(r, a)
    PROVE  Source!Told(r, a)
<1>1. [s \in Readers |-> step'[s] # "idle"]
        = [[s \in Readers |-> step[s] # "idle"] EXCEPT ![r] = FALSE]
  BY DEF Told, IInv, TypeOK, ReadersOK
<1> QED
  BY <1>1 DEF Told, Source!Told

(* What leaves every reader in or out of its read is no step of the source. *)
LEMMA SourceStutter ==
    ASSUME IInv, UNCHANGED <<cursor, answer>>, \/ cut' = cut
                                              \/ cut' = TRUE,
           \A r \in Readers : step'[r] = "idle" <=> step[r] = "idle"
    PROVE  [Source!Next]_(Source!vars)
<1>1. [r \in Readers |-> step'[r] # "idle"] = [r \in Readers |-> step[r] # "idle"]
  OBVIOUS
<1> QED
  BY <1>1 DEF Source!Next, Source!Cut, Source!vars

LEMMA SourceReader ==
    ASSUME IInv, NEW r \in Readers, Reader(r)
    PROVE  [Source!Next]_(Source!vars)
<1>1. CASE Ask(r)
  <2>1. [s \in Readers |-> step'[s] # "idle"]
          = [[s \in Readers |-> step[s] # "idle"] EXCEPT ![r] = TRUE]
    BY <1>1 DEF Ask, IInv, TypeOK, ReadersOK
  <2>2. Source!Ask(r)
    BY <1>1, <2>1 DEF Ask, Reads, Source!Ask, Word, Source!Word
  <2> QED
    BY <2>2 DEF Source!Next
<1>2. CASE \E p \in Positions : SeekTo(r, p)
  <2>1. PICK p \in Positions : SeekTo(r, p)
    BY <1>2
  <2>2. Source!Move(r, p)
    BY <2>1 DEF SeekTo, Reads, Source!Move, Word, Source!Word
  <2> QED
    BY <2>2 DEF Source!Next, Positions
<1>3. ASSUME NEW why \in Failures, Told(r, Word(why)), UNCHANGED cursor,
             step[r] = "looking" \/ step[r] = "parked"
      PROVE  [Source!Next]_(Source!vars)
  <2>1. Source!Told(r, Source!Word(why))
    BY <1>3, SourceTold DEF Word, Source!Word
  <2> QED
    BY <1>3, <2>1 DEF Source!Fail, Source!Next
<1>4. CASE ReadStops(r)
  BY <1>3, <1>4 DEF ReadStops, Failures
<1>5. CASE ReadFails(r)
  <2>1. error \in Failures
    BY <1>5 DEF ReadFails, Failures, IInv, TypeOK, InnerOK
  <2> QED
    BY <1>3, <1>5, <2>1 DEF ReadFails
<1>6. CASE ReadServes(r)
  <2>1. cursor[r] \in Nat /\ base \in Nat /\ Len(data) \in Nat
    BY StreamBufferAssumption DEF IInv, TypeOK, ReadersOK, InnerOK, Positions
  <2>2. cursor[r] - base + 1 \in 1 .. Len(data) /\ cursor[r] < Total
    BY <1>6, <2>1, StreamBufferAssumption
    DEF ReadServes, Held, IInv, Flow, WithinFile, End
  <2>3. data[cursor[r] - base + 1] = cursor[r]
    BY <2>1, <2>2 DEF IInv, Flow, BufferIsTheFile
  <2>4. Source!Told(r, Source!Byte(cursor[r]))
    <3>1. PICK b : b = Byte(data[cursor[r] - base + 1])
      OBVIOUS
    <3>2. Told(r, b) /\ step[r] = "looking"
      BY <1>6, <3>1 DEF ReadServes, Told
    <3>3. Source!Told(r, b)
      BY <3>2, SourceTold
    <3>4. b = Source!Byte(cursor[r])
      BY <2>3, <3>1 DEF Byte, Source!Byte
    <3> QED
      BY <3>3, <3>4 DEF Source!Told
  <2>5. Source!Serve(r)
    BY <1>6, <2>2, <2>4 DEF ReadServes, Source!Serve
  <2> QED
    BY <2>5 DEF Source!Next
<1>7. CASE ReadEnds(r)
  <2>1. cursor[r] = Total \/ cut
    <3>1. cut \/ End = Total
      BY <1>7 DEF ReadEnds, AtEnd, IInv, Flow, EndIsTheFile
    <3>2. End = Total => cursor[r] = Total
      BY <1>7, StreamBufferAssumption
      DEF ReadEnds, AtEnd, IInv, TypeOK, ReadersOK, Positions
    <3> QED
      BY <3>1, <3>2
  <2>2. Source!Told(r, Source!Word("end"))
    BY <1>7, SourceTold DEF ReadEnds, Word, Source!Word
  <2> QED
    BY <1>7, <2>1, <2>2 DEF ReadEnds, Source!End, Source!Next
<1>8. CASE ReadWaits(r)
  <2>1. \A s \in Readers : step'[s] = "idle" <=> step[s] = "idle"
    BY <1>8 DEF ReadWaits, IInv, TypeOK, ReadersOK
  <2> QED
    BY <1>8, <2>1, SourceStutter DEF ReadWaits
<1>9. CASE Park(r)
  <2>1. \A s \in Readers : step'[s] = "idle" <=> step[s] = "idle"
    BY <1>9 DEF Park, IInv, TypeOK, ReadersOK
  <2> QED
    BY <1>9, <2>1, SourceStutter DEF Park
<1>10. CASE TimesOut(r)
  <2>1. CASE Told(r, Word("starved"))
    BY <1>3, <1>10, <2>1 DEF TimesOut, Failures
  <2>2. CASE ~Told(r, Word("starved"))
    <3>1. \A s \in Readers : step'[s] = "idle" <=> step[s] = "idle"
      BY <1>10, <2>2 DEF TimesOut, IInv, TypeOK, ReadersOK
    <3> QED
      BY <1>10, <2>2, <3>1, SourceStutter DEF TimesOut
  <2> QED
    BY <2>1, <2>2
<1> QED
  BY <1>1, <1>2, <1>4, <1>5, <1>6, <1>7, <1>8, <1>9, <1>10 DEF Reader, Read

(* A notify_all, or nothing, done to the readers. *)
LEMMA SourceWake ==
    ASSUME IInv, step' = Woken \/ step' = step, UNCHANGED <<cursor, answer>>,
           cut' = cut \/ cut' = TRUE
    PROVE  [Source!Next]_(Source!vars)
<1>1. \A r \in Readers : step'[r] = "idle" <=> step[r] = "idle"
  BY DEF Woken
<1> QED
  BY <1>1, SourceStutter

LEMMA SourceRest ==
    ASSUME IInv, Respawn \/ Cancel \/ CancelDownload \/ StoreCiphertext \/ Download
    PROVE  [Source!Next]_(Source!vars)
<1> DEFINE Kept == /\ step' = Woken \/ step' = step
                   /\ UNCHANGED <<cursor, answer>>
<1>1. Wake \/ UNCHANGED readers => Kept
  BY DEF Wake, readers
<1>2. Return => Kept /\ cut' = cut
  BY <1>1 DEF Return
<1>3. \A s \in TaskSteps : Goes(s) => Kept
  BY <1>1 DEF Goes
<1>4. CASE Respawn \/ Cancel \/ CancelDownload \/ StoreCiphertext
  BY <1>1, <1>4, SourceWake DEF Respawn, Cancel, CancelDownload, StoreCiphertext
<1>5. CASE TaskDropped \/ Interrupted \/ TakeTarget \/ Debounce
  BY <1>1, <1>2, <1>5, SourceWake DEF TaskDropped, Interrupted, TakeTarget, Debounce
<1>6. CASE Restart \/ Write \/ ParkAndFinish \/ FinishRange \/ FinishWithError
  BY <1>1, <1>6, SourceWake
  DEF Restart, StreamFrom, Reset, Write, ParkAndFinish, FinishRange, FinishWithError, Finish
<1>7. CASE Undecrypted \/ Reconnect \/ BackedOff \/ Reconnected \/ StreamEnded \/ Paced
  <2>1. Kept /\ cut' = cut
    BY <1>1, <1>2, <1>7
    DEF Undecrypted, Reconnect, BackedOff, Reconnected, StreamEnded, Paced, Fails, Goes
  <2> QED
    BY <2>1, SourceWake
<1>8. CASE RangeAnswered \/ StreamYields
  <2>1. Kept
    BY <1>1, <1>8 DEF RangeAnswered, StreamYields, Fails, Goes
  <2>2. cut \in BOOLEAN
    BY DEF IInv, TypeOK, InnerOK
  <2>3. \/ cut' = cut
        \/ cut' = (cut \/ End # Total)
        \/ cut' = (cut \/ body < Total)
    BY <1>8 DEF RangeAnswered, StreamYields, Fails
  <2>4. cut' = cut \/ cut' = TRUE
    BY <2>2, <2>3
  <2> QED
    BY <2>1, <2>4, SourceWake
<1> QED
  BY <1>4, <1>5, <1>6, <1>7, <1>8 DEF Download

(* A reader of the buffer hears what a reader of the file would: the byte  *)
(* at its position, the end where the file or its stream ended, or a       *)
(* failure (RamBuffer::read).                                              *)
THEOREM SourceCorrect == Spec => ReadsTheFile
<1>1. Init => Source!Init
  BY SourceInit
<1>2. IInv /\ [Next]_vars => [Source!Next]_(Source!vars)
  <2> SUFFICES ASSUME IInv, [Next]_vars PROVE [Source!Next]_(Source!vars)
    OBVIOUS
  <2>1. CASE UNCHANGED vars
    BY <2>1 DEF vars, readers, Source!vars
  <2> QED
    BY <2>1, SourceReader, SourceRest DEF Next
<1> QED
  BY <1>1, <1>2, Invariant, PTL DEF Spec, ReadsTheFile, Source!Spec

(***************************************************************************)
(* THE CACHE (TrackCache).                                                 *)
(***************************************************************************)
Moving == {"reserved", "moved"}
Gates  == {"wipe", "sweep"}

Rows   == UNION {[D -> Row] : D \in SUBSET Tracks}
Passes == [at : {"none", "claim", "unlink", "end"}, all : BOOLEAN, keep : Tracks \cup {NoTrack},
           slack : Nat, first : BOOLEAN, cursor : Nat \X Nat, batch : Rows,
           unlinked : SUBSET Tracks, kept : SUBSET Tracks]
Entries == [at : {"new", "reserved", "moved", "done"}, track : Tracks \cup {NoTrack}, bytes : Nat]
Looks   == [at : {"idle", "seen", "missing", "read", "playing"}, track : Tracks \cup {NoTrack},
            gen : Nat, by : Stores \cup {NoFile}]

(* Every variable holds a value of its kind.                                *)
DiskOK    == row \in Rows /\ file \in [Tracks -> Stores \cup {NoFile}] /\ nextGen \in Nat
AccountOK == size \in Nat /\ stranded \in Nat /\ blocked \in BOOLEAN
MarksOK   == pending \subseteq Tracks /\ doomed \subseteq Tracks /\ wiping \in BOOLEAN
SettingOK == cap \in Caps /\ enabled \in BOOLEAN
ActorsOK  == store \in [Stores -> Entries] /\ pass \in [Actors -> Passes]
ClearOK   == /\ applier \in {"idle", "resize", "wipe", "sweep", "answer"}
             /\ owned \subseteq Tracks /\ todo \subseteq Tracks /\ failed \in BOOLEAN
LoadsOK   == reader \in [CacheReaders -> Looks]
CacheTyped == /\ incidents \in Launches /\ left \subseteq Tracks /\ astray \subseteq Tracks /\ unread \in BOOLEAN
              /\ DiskOK /\ AccountOK /\ MarksOK /\ SettingOK /\ ActorsOK /\ ClearOK /\ LoadsOK

(* The path of a track has one owner: its row, the store moving a download  *)
(* in, the pass unlinking it.  What a refused statement did to an id stays  *)
(* with that id.                                                            *)
OwnerInv ==
    /\ DOMAIN row \cap pending \subseteq astray /\ (DOMAIN row \cup pending) \cap doomed \subseteq astray
    /\ \A s \in Stores : store[s].at \in Moving => store[s].track \in pending /\ store[s].bytes \in Sizes
    /\ \A s, q \in Stores : s # q /\ {store[s].at, store[q].at} \subseteq Moving => store[s].track # store[q].track
    /\ \A a \in Actors : DOMAIN pass[a].batch \subseteq doomed \cup astray
    /\ \A a, b \in Actors : a # b => DOMAIN pass[a].batch \cap DOMAIN pass[b].batch \subseteq astray

(* What a pass is at, and whose it is: the Clear's is the applier's.        *)
PassInv ==
    /\ \A a \in Actors :
          /\ pass[a].at # "unlink" => pass[a].batch = <<>> /\ pass[a].unlinked = {} /\ pass[a].kept = {}
          /\ pass[a].kept \subseteq pass[a].unlinked /\ pass[a].unlinked \subseteq DOMAIN pass[a].batch
          /\ pass[a].kept # {} => Refuses
          /\ pass[a].all => a = Applier /\ pass[a].at # "none"
    /\ pass[Applier].all <=> applier = "wipe"
    /\ applier \in {"idle", "sweep", "answer"} => pass[Applier].at = "none"
    /\ \A s \in Stores : store[s].at # "done" => pass[s].at = "none"
    /\ wiping <=> applier \in Gates

(* What is on a path: the bytes its row, or the row of its pass, was        *)
(* measured from; what a store moved there; nothing once unlinked.          *)
FileInv ==
    /\ "vanish" \notin incidents => \A t \in DOMAIN row \ astray : file[t] = row[t].by
    /\ \A a \in Actors, t \in Tracks \ astray :
          /\ "vanish" \notin incidents /\ t \in DOMAIN pass[a].batch \ (pass[a].unlinked \ pass[a].kept)
                 => file[t] = pass[a].batch[t].by
          /\ t \in pass[a].unlinked \ pass[a].kept => file[t] = NoFile
    /\ \A s \in Stores : store[s].at = "moved" => file[store[s].track] \in {s, NoFile}

(* A file nobody owns was left by a failure, is the Clear's to remove, or a *)
(* store's that has yet to commit it.                                       *)
MovedIn(t) == \E s \in Stores : store[s].at = "moved" /\ store[s].track = t
StrayInv ==
    /\ \A t \in Unowned \ astray :
                          \/ t \in left \/ applier = "wipe" \/ (applier = "sweep" /\ t \in todo)
                          \/ applier # "sweep" /\ MovedIn(t)
    /\ applier = "sweep" => todo \cap (DOMAIN row \cup doomed) \subseteq astray
    /\ ~failed /\ ~({"refuse", "index"} \subseteq incidents) =>
          /\ applier = "sweep" => Unowned \subseteq todo \cup astray
          /\ applier = "answer" => Unowned \subseteq astray

(* A generation names one row: what a load saw and what is there by then.   *)
Agrees(l, t, rw) ==
    l.track = t /\ l.gen = rw.gen => l.by = rw.by /\ (l.at = "missing" /\ t \notin astray => file[t] = NoFile)
Twins(x, y) == x.gen = y.gen => x.by = y.by
TwinsInv ==
    /\ \A a \in Actors : \A t \in DOMAIN row \cap DOMAIN pass[a].batch : Twins(row[t], pass[a].batch[t])
    /\ \A a, b \in Actors : \A t \in DOMAIN pass[a].batch \cap DOMAIN pass[b].batch :
          Twins(pass[a].batch[t], pass[b].batch[t])
LooksInv ==
    /\ TwinsInv
    /\ \A t \in DOMAIN row : row[t].gen < nextGen
    /\ \A a \in Actors : \A t \in DOMAIN pass[a].batch : pass[a].batch[t].gen < nextGen
    /\ \A r \in CacheReaders : reader[r].at # "idle" =>
          /\ reader[r].gen < nextGen
          /\ \A t \in DOMAIN row : Agrees(reader[r], t, row[t])
          /\ \A a \in Actors : \A t \in DOMAIN pass[a].batch : Agrees(reader[r], t, pass[a].batch[t])

(* With no trim under way and no Clear that failed, a cache over its cap    *)
(* was said to be, or the Clear under way has all its rows ahead of it.     *)
Trimming == \E a \in Actors : pass[a].at # "none" /\ ~pass[a].all
SaidInv ==
    ~Trimming /\ ~failed /\ ~unread /\ size > cap =>
        \/ blocked
        \/ /\ applier = "wipe" /\ pass[Applier].at \in {"claim", "unlink"}
           /\ DOMAIN row \subseteq Candidates(pass[Applier])

CacheInv == CacheTyped /\ OwnerInv /\ PassInv /\ FileInv /\ StrayInv /\ SizeIsSum /\ LooksInv /\ SaidInv

-----------------------------------------------------------------------------
(***************************************************************************)
(* Sums over a finite set of rows.                                         *)
(***************************************************************************)
Pick(s) == CHOOSE x \in s : TRUE
SumStep(rows, D, g) == [s \in SUBSET D |-> IF s = {} THEN 0 ELSE rows[Pick(s)].bytes + g[s \ {Pick(s)}]]
IsSum(rows, D, g)   == g = SumStep(rows, D, g)

(* Of some subsets of a finite set one has none of the others inside it.    *)
LEMMA LeastSet ==
    ASSUME NEW S, IsFiniteSet(S), NEW Q \in SUBSET (SUBSET S), Q # {}
    PROVE  \E m \in Q : \A q \in Q : q \subseteq m => q = m
<1>1. IsWellFoundedOn(StrictSubsetOrdering(S), SUBSET S)
  BY FS_StrictSubsetOrderingWellFounded, FS_FiniteSubsetsOfFinite
<1>2. PICK m \in Q : \A q \in Q : <<q, m>> \notin StrictSubsetOrdering(S)
  BY <1>1, WFMin
<1> QED
  BY <1>2 DEF StrictSubsetOrdering

LEMMA PickIn == ASSUME NEW s, s # {} PROVE Pick(s) \in s
BY DEF Pick

LEMMA SumUnique ==
    ASSUME NEW rows, NEW D, NEW E, NEW g, NEW h, IsFiniteSet(D), IsSum(rows, D, g), IsSum(rows, E, h),
           NEW u, u \subseteq D, u \subseteq E
    PROVE  g[u] = h[u]
<1> DEFINE Q == {s \in SUBSET D : s \subseteq E /\ g[s] # h[s]}
<1> SUFFICES ASSUME Q # {} PROVE FALSE
  OBVIOUS
<1>1. PICK m \in Q : \A q \in Q : q \subseteq m => q = m
  <2>1. Q \in SUBSET (SUBSET D)
    OBVIOUS
  <2> HIDE DEF Q
  <2> QED
    BY <2>1, LeastSet
<1>2. m # {}
  BY DEF IsSum, SumStep
<1>3. Pick(m) \in m
  BY <1>2, PickIn
<1>4. m \ {Pick(m)} \notin Q
  BY <1>1, <1>3
<1>5. g[m \ {Pick(m)}] = h[m \ {Pick(m)}]
  BY <1>4
<1>6. g[m] = rows[Pick(m)].bytes + g[m \ {Pick(m)}]
  BY <1>2 DEF IsSum, SumStep
<1>7. h[m] = rows[Pick(m)].bytes + h[m \ {Pick(m)}]
  BY <1>2 DEF IsSum, SumStep
<1> QED
  BY <1>5, <1>6, <1>7

LEMMA SumExists == ASSUME NEW rows, NEW S, IsFiniteSet(S) PROVE \E g : IsSum(rows, S, g)
<1> DEFINE Q == {s \in SUBSET S : ~ \E g : IsSum(rows, s, g)}
<1> SUFFICES ASSUME Q # {} PROVE FALSE
  OBVIOUS
<1>1. PICK m \in Q : \A q \in Q : q \subseteq m => q = m
  <2>1. Q \in SUBSET (SUBSET S)
    OBVIOUS
  <2> HIDE DEF Q
  <2> QED
    BY <2>1, LeastSet
<1> DEFINE G(u) == CHOOSE g : IsSum(rows, u, g)
           V(u) == G(u)[u]
           w    == [u \in SUBSET m |-> IF u = m /\ m # {} THEN rows[Pick(m)].bytes + V(m \ {Pick(m)}) ELSE IF u = {} THEN 0 ELSE V(u)]
<1>2. ASSUME NEW u, u \subseteq m, u # m PROVE IsSum(rows, u, G(u))
  BY <1>1, <1>2
<1>3. ASSUME NEW u, u \subseteq m, u # m, u # {} PROVE V(u) = rows[Pick(u)].bytes + V(u \ {Pick(u)})
  <2>1. Pick(u) \in u
    BY <1>3, PickIn
  <2>2. IsSum(rows, u, G(u)) /\ IsSum(rows, u \ {Pick(u)}, G(u \ {Pick(u)}))
    BY <1>2, <1>3, <2>1
  <2>3. V(u) = rows[Pick(u)].bytes + G(u)[u \ {Pick(u)}]
    <3> HIDE DEF G
    <3> QED
      BY <1>3, <2>2 DEF IsSum, SumStep
  <2>4. IsFiniteSet(u)
    BY <1>3, <1>1, FS_Subset
  <2>5. G(u)[u \ {Pick(u)}] = G(u \ {Pick(u)})[u \ {Pick(u)}]
    <3> HIDE DEF G
    <3> QED
      BY <2>2, <2>4, SumUnique
  <2> QED
    BY <2>3, <2>5
<1>4. m # {} => V({}) = 0
  <2> SUFFICES ASSUME m # {} PROVE V({}) = 0
    OBVIOUS
  <2>1. IsSum(rows, {}, G({}))
    BY <1>2
  <2> HIDE DEF G
  <2> QED
    BY <2>1 DEF IsSum, SumStep
<1>5. ASSUME NEW u \in SUBSET m PROVE w[u] = SumStep(rows, m, w)[u]
  <2> HIDE DEF V
  <2>1. CASE u = {}
    BY <2>1 DEF SumStep
  <2>2. CASE u # {} /\ u = m
    <3>1. Pick(m) \in m /\ m \ {Pick(m)} # m
      BY <2>2, PickIn
    <3>2. w[m \ {Pick(m)}] = V(m \ {Pick(m)})
      BY <3>1, <1>4, <2>2
    <3> QED
      BY <2>2, <3>2 DEF SumStep
  <2>3. CASE u # {} /\ u # m
    <3>1. Pick(u) \in u
      BY <2>3, PickIn
    <3>2. w[u \ {Pick(u)}] = V(u \ {Pick(u)})
      BY <3>1, <1>4, <2>3
    <3> QED
      BY <2>3, <3>2, <1>3 DEF SumStep
  <2> QED
    BY <2>1, <2>2, <2>3
<1>6. w = SumStep(rows, m, w)
  <2> HIDE DEF w
  <2>1. DOMAIN SumStep(rows, m, w) = SUBSET m /\ DOMAIN w = SUBSET m
    BY DEF SumStep, w
  <2>2. w = [u \in DOMAIN w |-> w[u]] /\ SumStep(rows, m, w) = [u \in DOMAIN SumStep(rows, m, w) |-> SumStep(rows, m, w)[u]]
    BY DEF SumStep, w
  <2> QED
    BY <1>5, <2>1, <2>2
<1>7. IsSum(rows, m, w)
  BY <1>6 DEF IsSum
<1> QED
  BY <1>1, <1>7

LEMMA WeightIs == ASSUME NEW rows, NEW S PROVE Weight(rows, S) = (CHOOSE g : IsSum(rows, S, g))[S]
BY DEF Weight, MapThenSumSet, MapThenFoldSet, IsSum, SumStep, Pick

LEMMA WeightNone == ASSUME NEW rows PROVE Weight(rows, {}) = 0
<1>1. PICK g : IsSum(rows, {}, g)
  BY SumExists, FS_EmptySet
<1> DEFINE h == CHOOSE f : IsSum(rows, {}, f)
<1>2. IsSum(rows, {}, h)
  BY <1>1
<1>3. h[{}] = 0
  <2> HIDE DEF h
  <2> QED
    BY <1>2 DEF IsSum, SumStep
<1> QED
  BY <1>3, WeightIs

LEMMA WeightPick ==
    ASSUME NEW rows, NEW S, IsFiniteSet(S), S # {}
    PROVE  Weight(rows, S) = rows[Pick(S)].bytes + Weight(rows, S \ {Pick(S)})
<1> DEFINE G(u) == CHOOSE g : IsSum(rows, u, g)
<1>1. Pick(S) \in S /\ IsFiniteSet(S \ {Pick(S)})
  BY PickIn, FS_Subset
<1>2. IsSum(rows, S, G(S)) /\ IsSum(rows, S \ {Pick(S)}, G(S \ {Pick(S)}))
  BY <1>1, SumExists
<1>3. Weight(rows, S) = G(S)[S] /\ Weight(rows, S \ {Pick(S)}) = G(S \ {Pick(S)})[S \ {Pick(S)}]
  BY WeightIs
<1> HIDE DEF G
<1>4. G(S)[S] = rows[Pick(S)].bytes + G(S)[S \ {Pick(S)}]
  BY <1>2 DEF IsSum, SumStep
<1>5. G(S)[S \ {Pick(S)}] = G(S \ {Pick(S)})[S \ {Pick(S)}]
  BY <1>2, SumUnique
<1> QED
  BY <1>3, <1>4, <1>5

LEMMA WeightNat ==
    ASSUME NEW rows, NEW S, IsFiniteSet(S), \A x \in S : rows[x].bytes \in Nat
    PROVE  Weight(rows, S) \in Nat
<1> DEFINE Q == {s \in SUBSET S : Weight(rows, s) \notin Nat}
<1> SUFFICES ASSUME Q # {} PROVE FALSE
  OBVIOUS
<1>1. PICK m \in Q : \A q \in Q : q \subseteq m => q = m
  <2>1. Q \in SUBSET (SUBSET S)
    OBVIOUS
  <2> HIDE DEF Q
  <2> QED
    BY <2>1, LeastSet
<1>2. m # {}
  BY WeightNone
<1>3. Pick(m) \in m /\ IsFiniteSet(m)
  BY <1>2, PickIn, FS_Subset
<1>4. Weight(rows, m \ {Pick(m)}) \in Nat
  BY <1>1, <1>3
<1>5. Weight(rows, m) = rows[Pick(m)].bytes + Weight(rows, m \ {Pick(m)})
  BY <1>2, <1>3, WeightPick
<1>6. rows[Pick(m)].bytes \in Nat
  BY <1>3
<1> QED
  BY <1>4, <1>5, <1>6

(* The order of a sum does not matter.                                      *)
LEMMA WeightAdd ==
    ASSUME NEW rows, NEW S, IsFiniteSet(S), \A x \in S : rows[x].bytes \in Nat,
           NEW a, a \notin S, rows[a].bytes \in Nat
    PROVE  Weight(rows, S \cup {a}) = Weight(rows, S) + rows[a].bytes
<1> DEFINE T    == S \cup {a}
           W(s) == Weight(rows, s)
           N(x) == rows[x].bytes
           Q    == {s \in SUBSET T : \E x \in T \ s : W(s \cup {x}) # W(s) + N(x)}
<1>0. IsFiniteSet(T) /\ \A x \in T : N(x) \in Nat
  BY FS_AddElement
<1> HIDE DEF T, N
<1> SUFFICES ASSUME Q # {} PROVE FALSE
  BY DEF T, N
<1>1. PICK m \in Q : \A q \in Q : q \subseteq m => q = m
  <2>1. Q \in SUBSET (SUBSET T)
    OBVIOUS
  <2> HIDE DEF Q
  <2> QED
    BY <2>1, <1>0, LeastSet
<1>2. PICK x \in T \ m : W(m \cup {x}) # W(m) + N(x)
  OBVIOUS
<1> DEFINE y == Pick(m \cup {x})
<1>3. y \in m \cup {x} /\ IsFiniteSet(m \cup {x}) /\ IsFiniteSet(m) /\ m \cup {x} # {}
  BY <1>0, <1>2, PickIn, FS_Subset
<1>4. W(m \cup {x}) = N(y) + W((m \cup {x}) \ {y})
  BY <1>3, WeightPick DEF N
<1>4a. \A s \in SUBSET T : W(s) \in Nat
  <2>1. \A s \in SUBSET T : IsFiniteSet(s)
    BY <1>0, FS_Subset
  <2> QED
    BY <2>1, <1>0, WeightNat DEF N
<1> HIDE DEF y, W
<1>5. y # x
  <2> SUFFICES ASSUME y = x PROVE FALSE
    OBVIOUS
  <2>1. (m \cup {x}) \ {y} = m
    BY <1>2
  <2>2. W(m) \in Nat /\ N(x) \in Nat
    BY <1>0, <1>4a, <1>2
  <2> QED
    BY <1>2, <1>4, <2>1, <2>2
<1>6. y \in m
  BY <1>3, <1>5
<1> DEFINE k == m \ {y}
<1>7. k \notin Q
  BY <1>1, <1>6
<1>8. W(k \cup {x}) = W(k) + N(x) /\ W(k \cup {y}) = W(k) + N(y)
  BY <1>7, <1>6, <1>2
<1>9. k \cup {y} = m /\ (m \cup {x}) \ {y} = k \cup {x}
  BY <1>2, <1>5, <1>6
<1>10. W(k) \in Nat /\ N(x) \in Nat /\ N(y) \in Nat
  BY <1>0, <1>4a, <1>2, <1>6
<1>11. W(m \cup {x}) = N(y) + W(k \cup {x}) /\ W(m) = W(k \cup {y}) /\ W(m \cup {x}) # W(m) + N(x)
  BY <1>2, <1>4, <1>9
<1> HIDE DEF k, Q
<1> QED
  BY <1>8, <1>10, <1>11

LEMMA WeightUnion ==
    ASSUME NEW rows, NEW S, NEW R, IsFiniteSet(S), IsFiniteSet(R), S \cap R = {},
           \A x \in S \cup R : rows[x].bytes \in Nat
    PROVE  Weight(rows, S \cup R) = Weight(rows, S) + Weight(rows, R)
<1> DEFINE W(s) == Weight(rows, s)
           Q    == {s \in SUBSET R : W(S \cup s) # W(S) + W(s)}
<1> SUFFICES ASSUME Q # {} PROVE FALSE
  OBVIOUS
<1>1. PICK m \in Q : \A q \in Q : q \subseteq m => q = m
  <2>1. Q \in SUBSET (SUBSET R)
    OBVIOUS
  <2> HIDE DEF Q
  <2> QED
    BY <2>1, LeastSet
<1>2. \A s \in SUBSET R : IsFiniteSet(s) /\ IsFiniteSet(S \cup s)
  BY FS_Subset, FS_Union
<1>3. \A s \in SUBSET R : W(s) \in Nat /\ W(S \cup s) \in Nat
  BY <1>2, WeightNat
<1>4. m # {}
  <2> SUFFICES ASSUME m = {} PROVE FALSE
    OBVIOUS
  <2>1. W({}) = 0 /\ S \cup {} = S /\ W(S) \in Nat
    BY WeightNone, WeightNat
  <2> HIDE DEF W
  <2> QED
    BY <2>1
<1> DEFINE y == Pick(m)
           k == m \ {y}
<1>5. y \in m /\ k \notin Q /\ y \notin S \cup k /\ k \cup {y} = m /\ (S \cup k) \cup {y} = S \cup m /\ k \in SUBSET R
  BY <1>1, <1>4, PickIn
<1>6. W(S \cup k) = W(S) + W(k)
  BY <1>5
<1>7. W(k \cup {y}) = W(k) + rows[y].bytes /\ W((S \cup k) \cup {y}) = W(S \cup k) + rows[y].bytes
  <2> HIDE DEF k, y
  <2> QED
    BY <1>2, <1>5, WeightAdd
<1>8. W(S) \in Nat /\ W(k) \in Nat /\ rows[y].bytes \in Nat
  BY <1>3, <1>5, WeightNat
<1>9. W(S \cup m) # W(S) + W(m)
  BY <1>1
<1> HIDE DEF W, k, y, Q
<1>10. W(S \cup m) = W(S \cup k) + rows[y].bytes /\ W(m) = W(k) + rows[y].bytes
  BY <1>5, <1>7
<1> QED
  BY <1>6, <1>8, <1>9, <1>10

LEMMA WeightSame ==
    ASSUME NEW rows, NEW rws, NEW S, IsFiniteSet(S), \A x \in S : rows[x].bytes = rws[x].bytes
    PROVE  Weight(rows, S) = Weight(rws, S)
<1> DEFINE Q == {s \in SUBSET S : Weight(rows, s) # Weight(rws, s)}
<1> SUFFICES ASSUME Q # {} PROVE FALSE
  OBVIOUS
<1>1. PICK m \in Q : \A q \in Q : q \subseteq m => q = m
  <2>1. Q \in SUBSET (SUBSET S)
    OBVIOUS
  <2> HIDE DEF Q
  <2> QED
    BY <2>1, LeastSet
<1>2. m # {}
  BY WeightNone
<1>3. Pick(m) \in m /\ IsFiniteSet(m)
  BY <1>2, PickIn, FS_Subset
<1>4. Weight(rows, m \ {Pick(m)}) = Weight(rws, m \ {Pick(m)})
  BY <1>1, <1>3
<1>5. /\ Weight(rows, m) = rows[Pick(m)].bytes + Weight(rows, m \ {Pick(m)})
      /\ Weight(rws, m) = rws[Pick(m)].bytes + Weight(rws, m \ {Pick(m)})
  BY <1>2, <1>3, WeightPick
<1>6. rows[Pick(m)].bytes = rws[Pick(m)].bytes
  BY <1>3
<1> QED
  BY <1>4, <1>5, <1>6

(***************************************************************************)
(* Rows: taken out, put in, and what they weigh.                           *)
(***************************************************************************)
LEMMA RowsAre ==
    ASSUME NEW rows \in Rows
    PROVE  /\ DOMAIN rows \subseteq Tracks /\ IsFiniteSet(DOMAIN rows) /\ rows \in [DOMAIN rows -> Row]
           /\ \A t \in DOMAIN rows : rows[t] \in Row /\ rows[t].bytes \in Nat /\ rows[t].bytes \in Sizes
                                     /\ rows[t].gen \in Nat /\ rows[t].stamp \in Nat /\ rows[t].by \in Stores
<1>1. PICK D \in SUBSET Tracks : rows \in [D -> Row]
  BY DEF Rows
<1>2. IsFiniteSet(D) /\ DOMAIN rows = D
  BY <1>1, TrackCacheAssumption, FS_Subset
<1>3. \A w \in Row : w.bytes \in Nat /\ w.bytes \in Sizes /\ w.gen \in Nat /\ w.stamp \in Nat /\ w.by \in Stores
  BY TrackCacheAssumption DEF Row
<1> QED
  BY <1>1, <1>2, <1>3

LEMMA RowsFit == ASSUME NEW rows, NEW D \in SUBSET Tracks, rows \in [D -> Row] PROVE rows \in Rows
BY DEF Rows

LEMMA NoRows == <<>> \in Rows /\ DOMAIN <<>> = {} /\ RowBytes(<<>>) = 0
<1>1. DOMAIN <<>> = {} /\ <<>> \in [{} -> Row]
  OBVIOUS
<1> QED
  BY <1>1, RowsFit, WeightNone DEF RowBytes

LEMMA WithoutIs ==
    ASSUME NEW rows \in Rows, NEW ids
    PROVE  /\ Without(rows, ids) \in Rows /\ DOMAIN Without(rows, ids) = DOMAIN rows \ ids
           /\ \A t \in DOMAIN rows \ ids : Without(rows, ids)[t] = rows[t]
<1>1. DOMAIN rows \ ids \in SUBSET Tracks /\ Without(rows, ids) \in [DOMAIN rows \ ids -> Row]
  BY RowsAre DEF Without
<1> QED
  BY <1>1, RowsFit DEF Without

LEMMA WithIs ==
    ASSUME NEW rows \in Rows, NEW more \in Rows
    PROVE  /\ With(rows, more) \in Rows /\ DOMAIN With(rows, more) = DOMAIN rows \cup DOMAIN more
           /\ \A t \in DOMAIN more : With(rows, more)[t] = more[t]
           /\ \A t \in DOMAIN rows \ DOMAIN more : With(rows, more)[t] = rows[t]
<1>1. DOMAIN rows \cup DOMAIN more \in SUBSET Tracks /\ With(rows, more) \in [DOMAIN rows \cup DOMAIN more -> Row]
  BY RowsAre DEF With
<1> QED
  BY <1>1, RowsFit DEF With

LEMMA RowBytesNat == ASSUME NEW rows \in Rows PROVE RowBytes(rows) \in Nat
BY RowsAre, WeightNat DEF RowBytes

LEMMA RowsWithout ==
    ASSUME NEW rows \in Rows, NEW ids, ids \subseteq DOMAIN rows
    PROVE  /\ Minus(RowBytes(rows), Weight(rows, ids)) = RowBytes(Without(rows, ids))
           /\ RowBytes(rows) = RowBytes(Without(rows, ids)) + Weight(rows, ids)
<1> DEFINE rest == DOMAIN rows \ ids
           out  == Without(rows, ids)
<1>1. IsFiniteSet(rest) /\ IsFiniteSet(ids) /\ rest \cap ids = {} /\ rest \cup ids = DOMAIN rows
  BY RowsAre, FS_Subset
<1>2. RowBytes(rows) = Weight(rows, rest) + Weight(rows, ids)
  <2> HIDE DEF rest
  <2> QED
    BY <1>1, RowsAre, WeightUnion DEF RowBytes
<1>3. Weight(rows, rest) = RowBytes(out)
  <2>1. DOMAIN out = rest /\ \A t \in rest : out[t] = rows[t]
    BY WithoutIs
  <2> HIDE DEF rest, out
  <2> QED
    BY <1>1, <2>1, WeightSame DEF RowBytes
<1>4. Weight(rows, rest) \in Nat /\ Weight(rows, ids) \in Nat
  <2> HIDE DEF rest
  <2> QED
    BY <1>1, RowsAre, WeightNat
<1> HIDE DEF rest, out
<1>5. Minus(RowBytes(rows), Weight(rows, ids)) = Weight(rows, rest)
  BY <1>2, <1>4 DEF Minus
<1> QED
  BY <1>2, <1>3, <1>5 DEF out

LEMMA RowsWith ==
    ASSUME NEW rows \in Rows, NEW more \in Rows, DOMAIN rows \cap DOMAIN more = {}
    PROVE  RowBytes(With(rows, more)) = RowBytes(rows) + RowBytes(more)
<1> DEFINE both == With(rows, more)
           D    == DOMAIN rows
           M    == DOMAIN more
<1>1. /\ both \in Rows /\ DOMAIN both = D \cup M /\ IsFiniteSet(D) /\ IsFiniteSet(M)
      /\ (\A t \in D : both[t] = rows[t]) /\ (\A t \in M : both[t] = more[t])
  <2>1. IsFiniteSet(D) /\ IsFiniteSet(M)
    BY RowsAre
  <2>2. both \in Rows /\ DOMAIN both = D \cup M /\ (\A t \in M : both[t] = more[t]) /\ (\A t \in D \ M : both[t] = rows[t])
    BY WithIs
  <2>3. D \ M = D
    OBVIOUS
  <2> HIDE DEF both, D, M
  <2> QED
    BY <2>1, <2>2, <2>3
<1>2. \A t \in D \cup M : both[t].bytes \in Nat
  BY <1>1, RowsAre
<1> HIDE DEF both, D, M
<1>3. D \cap M = {}
  BY DEF D, M
<1>4. Weight(both, D \cup M) = Weight(both, D) + Weight(both, M)
  BY <1>1, <1>2, <1>3, WeightUnion
<1>5. Weight(both, D) = Weight(rows, D) /\ Weight(both, M) = Weight(more, M)
  BY <1>1, WeightSame
<1> QED
  BY <1>1, <1>4, <1>5 DEF RowBytes, both, D, M

LEMMA RowsOne ==
    ASSUME NEW t \in Tracks, NEW w \in Row
    PROVE  [u \in {t} |-> w] \in Rows /\ RowBytes([u \in {t} |-> w]) = w.bytes
<1> DEFINE one == [u \in {t} |-> w]
<1>1. one \in Rows
  <2>1. {t} \in SUBSET Tracks /\ one \in [{t} -> Row]
    OBVIOUS
  <2> QED
    BY <2>1, RowsFit
<1>2. DOMAIN one = {t} /\ one[t] = w /\ {} \cup {t} = {t}
  OBVIOUS
<1>3. w.bytes \in Nat
  BY TrackCacheAssumption DEF Row
<1> HIDE DEF one
<1>4. Weight(one, {} \cup {t}) = Weight(one, {}) + one[t].bytes
  BY <1>2, <1>3, FS_EmptySet, WeightAdd
<1>5. Weight(one, {t}) = w.bytes
  BY <1>2, <1>3, <1>4, WeightNone
<1> QED
  BY <1>1, <1>2, <1>5 DEF RowBytes, one

(***************************************************************************)
(* The newest stamp, and the order of the rows.                            *)
(***************************************************************************)
Higher(S, x) == {y \in S : y > x}

LEMMA WeightOne == ASSUME NEW rows \in Rows, NEW t \in DOMAIN rows PROVE Weight(rows, {t}) = rows[t].bytes
<1>1. rows[t].bytes \in Nat
  BY RowsAre
<1>2. Weight(rows, {} \cup {t}) = Weight(rows, {}) + rows[t].bytes
  BY <1>1, FS_EmptySet, WeightAdd
<1>3. {} \cup {t} = {t}
  OBVIOUS
<1> QED
  BY <1>1, <1>2, <1>3, WeightNone

LEMMA RowPut ==
    ASSUME NEW rows \in Rows, NEW t \in Tracks, NEW w \in Row
    PROVE  LET one == [u \in {t} |-> w]
               old == IF t \in DOMAIN rows THEN rows[t].bytes ELSE 0
           IN  /\ With(rows, one) \in Rows /\ DOMAIN With(rows, one) = DOMAIN rows \cup {t}
               /\ With(rows, one)[t] = w
               /\ \A u \in DOMAIN rows \ {t} : With(rows, one)[u] = rows[u]
               /\ old \in Nat /\ RowBytes(With(rows, one)) = Minus(RowBytes(rows) + w.bytes, old)
<1> DEFINE one  == [u \in {t} |-> w]
           rest == Without(rows, {t})
           old  == IF t \in DOMAIN rows THEN rows[t].bytes ELSE 0
<1>1. one \in Rows /\ DOMAIN one = {t} /\ one[t] = w /\ RowBytes(one) = w.bytes
  BY RowsOne
<1>2. /\ rest \in Rows /\ DOMAIN rest = DOMAIN rows \ {t} /\ \A u \in DOMAIN rows \ {t} : rest[u] = rows[u]
  BY WithoutIs
<1>3. With(rows, one) = With(rest, one)
  <2>1. DOMAIN rows \cup {t} = DOMAIN rest \cup {t}
    BY <1>2
  <2> HIDE DEF one, rest
  <2>2. \A u \in DOMAIN rows \cup {t} : (IF u \in {t} THEN one[u] ELSE rows[u]) = (IF u \in {t} THEN one[u] ELSE rest[u])
    BY <1>2
  <2> QED
    BY <1>1, <2>1, <2>2 DEF With
<1> HIDE DEF one, rest
<1>4. RowBytes(With(rows, one)) = RowBytes(rest) + w.bytes
  <2>1. DOMAIN rest \cap DOMAIN one = {}
    BY <1>1, <1>2
  <2> QED
    BY <1>1, <1>2, <1>3, <2>1, RowsWith
<1>5. RowBytes(rows) = RowBytes(rest) + old /\ old \in Nat
  <2>1. CASE t \in DOMAIN rows
    BY <2>1, RowsWithout, WeightOne, RowsAre DEF rest
  <2>2. CASE t \notin DOMAIN rows
    <3>1. rest = rows
      <4>1. rows = [u \in DOMAIN rows |-> rows[u]] /\ DOMAIN rows \ {t} = DOMAIN rows
        BY <2>2, RowsAre
      <4> QED
        BY <4>1 DEF rest, Without
    <3> QED
      BY <2>2, <3>1, RowBytesNat
  <2> QED
    BY <2>1, <2>2
<1>6. RowBytes(rest) \in Nat /\ w.bytes \in Nat
  BY <1>2, RowBytesNat, TrackCacheAssumption DEF Row
<1> HIDE DEF old
<1>7. RowBytes(With(rows, one)) = Minus(RowBytes(rows) + w.bytes, old)
  BY <1>4, <1>5, <1>6 DEF Minus
<1>8. /\ With(rows, one) \in Rows /\ DOMAIN With(rows, one) = DOMAIN rows \cup {t} /\ With(rows, one)[t] = w
      /\ \A u \in DOMAIN rows \ {t} : With(rows, one)[u] = rows[u]
  <2> DEFINE all == With(rows, one)
  <2>1. /\ all \in Rows /\ DOMAIN all = DOMAIN rows \cup DOMAIN one
        /\ \A u \in DOMAIN one : all[u] = one[u]
        /\ \A u \in DOMAIN rows \ DOMAIN one : all[u] = rows[u]
    BY <1>1, WithIs
  <2> HIDE DEF all
  <2>2. t \in DOMAIN one /\ one[t] = w /\ DOMAIN one = {t}
    BY <1>1
  <2>3. /\ all \in Rows /\ DOMAIN all = DOMAIN rows \cup {t} /\ all[t] = w
        /\ \A u \in DOMAIN rows \ {t} : all[u] = rows[u]
    BY <2>1, <2>2
  <2> QED
    BY <2>3 DEF all
<1> QED
  BY <1>5, <1>7, <1>8 DEF one, old

LEMMA LeastHigher ==
    ASSUME NEW S, IsFiniteSet(S), S # {}
    PROVE  \E x \in S : \A y \in S : Higher(S, y) \subseteq Higher(S, x) => Higher(S, y) = Higher(S, x)
<1> DEFINE Q == {s \in SUBSET S : \E x \in S : s = Higher(S, x)}
<1>0. \A x \in S : Higher(S, x) \in Q
  BY DEF Higher
<1>1. PICK m \in Q : \A q \in Q : q \subseteq m => q = m
  <2>1. Q \in SUBSET (SUBSET S) /\ Q # {}
    BY <1>0
  <2> HIDE DEF Q
  <2> QED
    BY <2>1, LeastSet
<1>2. PICK x \in S : m = Higher(S, x)
  OBVIOUS
<1> HIDE DEF Q
<1> QED
  BY <1>0, <1>1, <1>2

LEMMA MaxIs ==
    ASSUME NEW S, IsFiniteSet(S), S \subseteq Nat, S # {}
    PROVE  Max(S) \in S /\ \A y \in S : Max(S) >= y
<1>1. PICK x \in S : \A y \in S : Higher(S, y) \subseteq Higher(S, x) => Higher(S, y) = Higher(S, x)
  BY LeastHigher
<1>3. \A y \in S : x >= y
  <2> SUFFICES ASSUME NEW y \in S, y > x PROVE FALSE
    OBVIOUS
  <2>1. \A z \in S : z > y => z > x
    OBVIOUS
  <2>2. Higher(S, y) \subseteq Higher(S, x)
    BY <2>1 DEF Higher
  <2>3. y \in Higher(S, x)
    BY DEF Higher
  <2>4. ~(y > y)
    OBVIOUS
  <2>5. y \notin Higher(S, y)
    BY <2>4 DEF Higher
  <2> QED
    BY <1>1, <2>2, <2>3, <2>5
<1> QED
  BY <1>3 DEF Max

LEMMA MaxPlus ==
    ASSUME NEW D, IsFiniteSet(D), NEW rws, \A t \in D : rws[t] \in Nat
    PROVE  LET m == Max({0} \cup {rws[t] : t \in D})
           IN  m \in Nat /\ 1 + m \in Nat /\ \A t \in D : rws[t] < 1 + m
<1> DEFINE S == {0} \cup {rws[t] : t \in D}
<1>1. IsFiniteSet(S) /\ S \subseteq Nat /\ S # {}
  <2> DEFINE f == [t \in D |-> rws[t]]
             R == {rws[t] : t \in D}
  <2>1. f \in Surjection(D, R)
    BY DEF Surjection
  <2>2. IsFiniteSet({0} \cup R)
    <3> HIDE DEF f, R
    <3> QED
      BY <2>1, FS_Surjection, FS_Union, FS_Singleton
  <2> QED
    BY <2>2
<1>2. Max(S) \in S /\ \A y \in S : Max(S) >= y
  <2> HIDE DEF S
  <2> QED
    BY <1>1, MaxIs
<1>3. \A t \in D : rws[t] \in S
  OBVIOUS
<1> HIDE DEF S
<1>4. Max(S) \in Nat /\ \A t \in D : rws[t] =< Max(S)
  BY <1>1, <1>2, <1>3
<1>5. Max(S) \in Nat /\ 1 + Max(S) \in Nat /\ \A t \in D : rws[t] < 1 + Max(S)
  <2> HIDE <1>1, <1>2, <1>3
  <2> QED
    BY <1>4
<1> QED
  BY <1>5, Zenon DEF S

LEMMA StampIsNewer ==
    ASSUME row \in Rows
    PROVE  LastStamp \in Nat /\ \A t \in DOMAIN row : row[t].stamp < LastStamp + 1
<1> DEFINE st == [t \in DOMAIN row |-> row[t].stamp]
           S  == {0} \cup {st[t] : t \in DOMAIN row}
<1>1. IsFiniteSet(DOMAIN row) /\ \A t \in DOMAIN row : st[t] \in Nat
  BY RowsAre
<1>2. {st[t] : t \in DOMAIN row} = {row[t].stamp : t \in DOMAIN row}
  OBVIOUS
<1>3. LastStamp = Max(S)
  BY <1>2 DEF LastStamp
<1> HIDE DEF st
<1>4. 1 + Max(S) \in Nat /\ Max(S) \in Nat /\ \A t \in DOMAIN row : st[t] < 1 + Max(S)
  BY <1>1, MaxPlus
<1> HIDE DEF S
<1>5. LastStamp \in Nat /\ \A t \in DOMAIN row : st[t] < LastStamp + 1
  BY <1>3, <1>4
<1> QED
  BY <1>5 DEF st

(* What a look that may be refused answers.                                 *)
LEMMA AnswersAre ==
    ASSUME NEW n \in Nat, NEW m \in Looked(n)
    PROVE  m \in Nat /\ m =< n /\ (~IndexErrs => m = n)
BY DEF Looked

LEMMA GenIsNewer ==
    ASSUME row \in Rows, NEW n, n = 1 + Max({0} \cup {row[t].gen : t \in DOMAIN row})
    PROVE  n \in Nat /\ \A t \in DOMAIN row : row[t].gen < n
<1> DEFINE st == [t \in DOMAIN row |-> row[t].gen]
<1>1. IsFiniteSet(DOMAIN row) /\ \A t \in DOMAIN row : st[t] \in Nat
  BY RowsAre
<1>2. {st[t] : t \in DOMAIN row} = {row[t].gen : t \in DOMAIN row}
  OBVIOUS
<1> HIDE DEF st
<1>3. LET k == 1 + Max({0} \cup {st[t] : t \in DOMAIN row}) IN k \in Nat /\ \A t \in DOMAIN row : st[t] < k
  BY <1>1, MaxPlus
<1> QED
  BY <1>2, <1>3 DEF st

(* Rows are ordered by stamp, and by id when their stamps are the same.     *)
Older(S, x) == {u \in S : Before(u, Mark(x))}
Later(S, x) == {u \in S : Before(x, Mark(u))}

LEMMA Order ==
    ASSUME row \in Rows
    PROVE  /\ \A t \in DOMAIN row : ~Before(t, Mark(t))
           /\ \A t, u, v \in DOMAIN row : Before(t, Mark(u)) /\ Before(u, Mark(v)) => Before(t, Mark(v))
           /\ \A t, u \in DOMAIN row : t = u \/ Before(t, Mark(u)) \/ Before(u, Mark(t))
<1>1. \A t \in DOMAIN row : t \in Nat /\ row[t].stamp \in Nat
  BY RowsAre, TrackCacheAssumption
<1>2. \A t, u : Before(t, Mark(u)) <=> row[t].stamp < row[u].stamp \/ (row[t].stamp = row[u].stamp /\ t < u)
  BY DEF Before, Mark
<1> QED
  BY <1>1, <1>2

LEMMA LeastOlder ==
    ASSUME NEW S, IsFiniteSet(S), S # {}
    PROVE  \E x \in S : \A y \in S : Older(S, y) \subseteq Older(S, x) => Older(S, y) = Older(S, x)
<1> DEFINE Q == {s \in SUBSET S : \E x \in S : s = Older(S, x)}
<1>0. \A x \in S : Older(S, x) \in Q
  BY DEF Older
<1>1. PICK m \in Q : \A q \in Q : q \subseteq m => q = m
  <2>1. Q \in SUBSET (SUBSET S) /\ Q # {}
    BY <1>0
  <2> HIDE DEF Q
  <2> QED
    BY <2>1, LeastSet
<1>2. PICK x \in S : m = Older(S, x)
  OBVIOUS
<1> HIDE DEF Q
<1> QED
  BY <1>0, <1>1, <1>2

LEMMA LeastLater ==
    ASSUME NEW S, IsFiniteSet(S), S # {}
    PROVE  \E x \in S : \A y \in S : Later(S, y) \subseteq Later(S, x) => Later(S, y) = Later(S, x)
<1> DEFINE Q == {s \in SUBSET S : \E x \in S : s = Later(S, x)}
<1>0. \A x \in S : Later(S, x) \in Q
  BY DEF Later
<1>1. PICK m \in Q : \A q \in Q : q \subseteq m => q = m
  <2>1. Q \in SUBSET (SUBSET S) /\ Q # {}
    BY <1>0
  <2> HIDE DEF Q
  <2> QED
    BY <2>1, LeastSet
<1>2. PICK x \in S : m = Later(S, x)
  OBVIOUS
<1> HIDE DEF Q
<1> QED
  BY <1>0, <1>1, <1>2

LEMMA OldestExists ==
    ASSUME row \in Rows, NEW S, S \subseteq DOMAIN row, S # {}
    PROVE  \E x \in S : Older(S, x) = {}
<1>1. IsFiniteSet(S)
  BY RowsAre, FS_Subset
<1>2. PICK x \in S : \A y \in S : Older(S, y) \subseteq Older(S, x) => Older(S, y) = Older(S, x)
  BY <1>1, LeastOlder
<1>3. ASSUME NEW u \in S, Before(u, Mark(x)) PROVE FALSE
  <2>1. Older(S, u) \subseteq Older(S, x)
    BY <1>3, Order DEF Older
  <2>2. u \in Older(S, x) /\ u \notin Older(S, u)
    BY <1>3, Order DEF Older
  <2> QED
    BY <1>2, <2>1, <2>2
<1> QED
  BY <1>3 DEF Older

LEMMA NewestIn ==
    ASSUME row \in Rows, NEW S, S \subseteq DOMAIN row, S # {}
    PROVE  Newest(S) \in S
<1>1. IsFiniteSet(S)
  BY RowsAre, FS_Subset
<1>2. PICK x \in S : \A y \in S : Later(S, y) \subseteq Later(S, x) => Later(S, y) = Later(S, x)
  BY <1>1, LeastLater
<1>3. ASSUME NEW u \in S, Before(x, Mark(u)) PROVE FALSE
  <2>1. Later(S, u) \subseteq Later(S, x)
    BY <1>3, Order DEF Later
  <2>2. u \in Later(S, x) /\ u \notin Later(S, u)
    BY <1>3, Order DEF Later
  <2> QED
    BY <1>2, <2>1, <2>2
<1>4. \A u \in S : u = x \/ Before(u, Mark(x))
  BY <1>3, Order
<1> QED
  BY <1>4 DEF Newest

(* What a Clear claims: something while a row is ahead of it, and the rows  *)
(* it leaves are past its new cursor.                                       *)
LEMMA ChosenIn == ASSUME NEW p PROVE Chosen(p) \subseteq Candidates(p) /\ Candidates(p) \subseteq DOMAIN row
BY DEF Chosen, Candidates

LEMMA ClearClaims ==
    ASSUME row \in Rows, NEW p, p.all, Candidates(p) # {}
    PROVE  Chosen(p) # {}
<1> DEFINE cs == Candidates(p)
<1>1. PICK x \in cs : Older(cs, x) = {}
  BY ChosenIn, OldestExists
<1>2. Cardinality({}) < Batch
  BY FS_EmptySet, TrackCacheAssumption
<1>3. {u \in Candidates(p) : Before(u, Mark(x))} = {}
  BY <1>1 DEF Older
<1>4. x \in Chosen(p)
  BY <1>1, <1>2, <1>3 DEF Chosen
<1> QED
  BY <1>4

LEMMA ClearGoesOn ==
    ASSUME row \in Rows, NEW p, p.all, NEW n \in Chosen(p), NEW t \in Candidates(p) \ Chosen(p)
    PROVE  ~Before(t, Mark(n)) /\ Mark(t) # Mark(n)
<1> DEFINE cs == Candidates(p)
<1>1. Cardinality(Older(cs, n)) < Batch
  BY DEF Chosen, Older
<1>2. ~(Cardinality(Older(cs, t)) < Batch)
  BY DEF Chosen, Older
<1>3. cs \subseteq DOMAIN row /\ n \in cs /\ t \in cs
  BY ChosenIn
<1>4. IsFiniteSet(Older(cs, n))
  BY <1>3, RowsAre, FS_Subset DEF Older
<1>5. ASSUME Before(t, Mark(n)) PROVE FALSE
  <2>1. Older(cs, t) \subseteq Older(cs, n)
    BY <1>3, <1>5, Order DEF Older
  <2>2. /\ IsFiniteSet(Older(cs, t))
        /\ Cardinality(Older(cs, t)) =< Cardinality(Older(cs, n))
    BY <1>4, <2>1, FS_Subset
  <2>3. Cardinality(Older(cs, t)) \in Nat /\ Cardinality(Older(cs, n)) \in Nat /\ Batch \in Nat
    BY <1>4, <2>2, FS_CardinalityType, TrackCacheAssumption
  <2> HIDE DEF cs
  <2> QED
    BY <1>1, <1>2, <2>2, <2>3
<1>6. t # n
  OBVIOUS
<1> QED
  BY <1>5, <1>6 DEF Mark

(***************************************************************************)
(* What one assignment does, and what it leaves true.                      *)
(***************************************************************************)
LEMMA PassKinds ==
    /\ NoPass \in Passes /\ NoPass.at = "none" /\ ~NoPass.all
    /\ NoPass.batch = <<>> /\ NoPass.unlinked = {} /\ NoPass.kept = {}
    /\ \A keep \in Tracks \cup {NoTrack}, slack \in Nat :
          /\ Trim(keep, slack) \in Passes /\ Trim(keep, slack).at = "claim" /\ ~Trim(keep, slack).all
          /\ Trim(keep, slack).batch = <<>> /\ Trim(keep, slack).unlinked = {} /\ Trim(keep, slack).kept = {}
<1> DEFINE none == <<>>
<1>1. none \in Rows /\ <<0, 0>> \in Nat \X Nat /\ {} \in SUBSET Tracks
  BY NoRows
<1>2. NoPass = [at |-> "none", all |-> FALSE, keep |-> NoTrack, slack |-> 0, first |-> FALSE,
                cursor |-> <<0, 0>>, batch |-> none, unlinked |-> {}, kept |-> {}]
  BY DEF NoPass
<1> HIDE DEF none
<1>4. NoPass \in Passes
  BY <1>1, <1>2 DEF Passes
<1>5. ASSUME NEW keep \in Tracks \cup {NoTrack}, NEW slack \in Nat PROVE Trim(keep, slack) \in Passes
  BY <1>4 DEF Trim, Passes
<1>6. NoPass.at = "none" /\ ~NoPass.all /\ NoPass.batch = none /\ NoPass.unlinked = {} /\ NoPass.kept = {}
  BY <1>2
<1>7. ASSUME NEW keep, NEW slack
      PROVE  /\ Trim(keep, slack).at = "claim" /\ ~Trim(keep, slack).all
             /\ Trim(keep, slack).batch = none /\ Trim(keep, slack).unlinked = {}
             /\ Trim(keep, slack).kept = {}
  BY <1>2 DEF Trim
<1> QED
  BY <1>4, <1>5, <1>6, <1>7 DEF none

LEMMA PassPut ==
    ASSUME pass \in [Actors -> Passes], NEW a \in Actors, NEW p \in Passes, pass' = [pass EXCEPT ![a] = p]
    PROVE  pass' \in [Actors -> Passes] /\ pass'[a] = p /\ \A b \in Actors : b # a => pass'[b] = pass[b]
OBVIOUS

LEMMA StorePut ==
    ASSUME store \in [Stores -> Entries], NEW s \in Stores, NEW e \in Entries, store' = [store EXCEPT ![s] = e]
    PROVE  store' \in [Stores -> Entries] /\ store'[s] = e /\ \A q \in Stores : q # s => store'[q] = store[q]
OBVIOUS

LEMMA StoreAt ==
    ASSUME store \in [Stores -> Entries], NEW s \in Stores, NEW k \in {"new", "reserved", "moved", "done"},
           store' = [store EXCEPT ![s].at = k]
    PROVE  /\ store' \in [Stores -> Entries] /\ store'[s].at = k
           /\ store'[s].track = store[s].track /\ store'[s].bytes = store[s].bytes
           /\ \A q \in Stores : q # s => store'[q] = store[q]
BY DEF Entries

LEMMA LookPut ==
    ASSUME reader \in [CacheReaders -> Looks], NEW r \in CacheReaders, NEW e \in Looks, reader' = [reader EXCEPT ![r] = e]
    PROVE  reader' \in [CacheReaders -> Looks] /\ reader'[r] = e /\ \A q \in CacheReaders : q # r => reader'[q] = reader[q]
OBVIOUS

LEMMA LookAt ==
    ASSUME reader \in [CacheReaders -> Looks], NEW r \in CacheReaders,
           NEW k \in {"idle", "seen", "missing", "read", "playing"}, reader' = [reader EXCEPT ![r].at = k]
    PROVE  /\ reader' \in [CacheReaders -> Looks] /\ reader'[r].at = k
           /\ reader'[r].track = reader[r].track /\ reader'[r].gen = reader[r].gen /\ reader'[r].by = reader[r].by
           /\ \A q \in CacheReaders : q # r => reader'[q] = reader[q]
BY DEF Looks

LEMMA UnreadIs == Unread \in Looks /\ Unread.at = "idle"
BY DEF Unread, Looks, NoTrack

LEMMA GoneIs ==
    ASSUME file \in [Tracks -> Stores \cup {NoFile}], NEW t \in Tracks, Gone({t})
    PROVE  /\ file' \in [Tracks -> Stores \cup {NoFile}] /\ file'[t] = NoFile
           /\ \A u \in Tracks : u # t => file'[u] = file[u]
BY DEF Gone

LEMMA OwnerStays ==
    ASSUME OwnerInv, DOMAIN row' \subseteq DOMAIN row, pending' = pending, doomed' = doomed, store' = store,
           astray \subseteq astray',
           \A a \in Actors : DOMAIN pass'[a].batch \subseteq DOMAIN pass[a].batch
    PROVE  OwnerInv'
<1>1. \A a, b \in Actors : a # b => DOMAIN pass'[a].batch \cap DOMAIN pass'[b].batch \subseteq astray'
  BY DEF OwnerInv
<1>2. \A a \in Actors : DOMAIN pass'[a].batch \subseteq doomed' \cup astray'
  BY DEF OwnerInv
<1> QED
  BY <1>1, <1>2 DEF OwnerInv

LEMMA PassStays ==
    ASSUME PassInv, incidents' = incidents, store' = store, pass' = pass, applier' = applier, wiping' = wiping
    PROVE  PassInv'
BY DEF PassInv, Refuses

(* Files stay, and the rows left name the stores they named.                *)
LEMMA FileStays ==
    ASSUME FileInv, incidents' = incidents, file' = file, store' = store, pass' = pass, astray \subseteq astray',
           \A t \in DOMAIN row' : t \in DOMAIN row /\ row'[t].by = row[t].by
    PROVE  FileInv'
BY DEF FileInv

LEMMA StrayStays ==
    ASSUME StrayInv, incidents' = incidents, applier' = applier, todo' = todo, failed => failed',
           Unowned' \ astray' \subseteq Unowned, left \subseteq left', astray \subseteq astray',
           applier = "sweep" => DOMAIN row' \cup doomed' \subseteq DOMAIN row \cup doomed \cup astray,
           \A t \in Unowned' : MovedIn(t) => MovedIn(t)'
    PROVE  StrayInv'
<1>1. \A t \in Unowned' \ astray' :
         \/ t \in left' \/ applier' = "wipe" \/ (applier' = "sweep" /\ t \in todo')
         \/ applier' # "sweep" /\ MovedIn(t)'
  <2>1. \A t \in Unowned' \ astray' : t \in Unowned \ astray
    OBVIOUS
  <2> QED
    BY <2>1 DEF StrayInv
<1>2. applier' = "sweep" => todo' \cap (DOMAIN row' \cup doomed') \subseteq astray'
  BY DEF StrayInv
<1>3. ~failed' /\ ~({"refuse", "index"} \subseteq incidents') =>
          /\ applier' = "sweep" => Unowned' \subseteq todo' \cup astray'
          /\ applier' = "answer" => Unowned' \subseteq astray'
  BY DEF StrayInv
<1> QED
  BY <1>1, <1>2, <1>3 DEF StrayInv

LEMMA StraySame ==
    ASSUME StrayInv, UNCHANGED <<incidents, applier, todo, failed, file, row, doomed, left, store>>,
           astray \subseteq astray'
    PROVE  StrayInv'
BY DEF StrayInv, Unowned, MovedIn

LEMMA TwinsStay ==
    ASSUME TwinsInv,
           \A t \in DOMAIN row' : t \in DOMAIN row /\ row'[t].gen = row[t].gen /\ row'[t].by = row[t].by,
           \A a \in Actors : pass'[a].batch = pass[a].batch
    PROVE  TwinsInv'
<1>1. ASSUME NEW a \in Actors, NEW t \in DOMAIN row' \cap DOMAIN pass'[a].batch PROVE Twins(row[t], pass[a].batch[t])'
  <2>1. t \in DOMAIN row \cap DOMAIN pass[a].batch /\ pass'[a].batch = pass[a].batch
    BY <1>1
  <2>2. Twins(row[t], pass[a].batch[t])
    BY <2>1 DEF TwinsInv
  <2> QED
    BY <1>1, <2>1, <2>2 DEF Twins
<1>2. ASSUME NEW a \in Actors, NEW b \in Actors, NEW t \in DOMAIN pass'[a].batch \cap DOMAIN pass'[b].batch
      PROVE  Twins(pass[a].batch[t], pass[b].batch[t])'
  BY <1>2 DEF Twins, TwinsInv
<1> QED
  BY <1>1, <1>2 DEF TwinsInv

(* The rows left keep their generations, and a file that went stays gone.   *)
LEMMA LooksStay ==
    ASSUME LooksInv, nextGen' = nextGen, reader' = reader,
           \A t \in DOMAIN row' : t \in DOMAIN row /\ row'[t].gen = row[t].gen /\ row'[t].by = row[t].by,
           \A a \in Actors : pass'[a].batch = pass[a].batch,
           astray \subseteq astray', \A t \in DOMAIN row' \ astray' : file[t] = NoFile => file'[t] = NoFile,
           \A a \in Actors : \A t \in DOMAIN pass[a].batch \ astray' : file[t] = NoFile => file'[t] = NoFile
    PROVE  LooksInv'
<1>1. (\A t \in DOMAIN row' : row'[t].gen < nextGen')
      /\ \A a \in Actors : \A t \in DOMAIN pass'[a].batch : pass'[a].batch[t].gen < nextGen'
  BY DEF LooksInv
<1>2. ASSUME NEW r \in CacheReaders, reader'[r].at # "idle"
      PROVE  /\ reader'[r].gen < nextGen'
             /\ \A t \in DOMAIN row' : Agrees(reader[r], t, row[t])
             /\ \A a \in Actors : \A t \in DOMAIN pass'[a].batch : Agrees(reader[r], t, pass[a].batch[t])
  BY <1>2 DEF LooksInv
<1>3. ASSUME NEW r \in CacheReaders, reader'[r].at # "idle"
      PROVE  \A t \in DOMAIN row' : Agrees(reader[r], t, row[t])'
  BY <1>2, <1>3 DEF Agrees
<1>4. ASSUME NEW r \in CacheReaders, reader'[r].at # "idle"
      PROVE  \A a \in Actors : \A t \in DOMAIN pass'[a].batch : Agrees(reader[r], t, pass[a].batch[t])'
  BY <1>2, <1>4 DEF Agrees
<1>5. TwinsInv'
  BY TwinsStay DEF LooksInv
<1> QED
  BY <1>1, <1>2, <1>3, <1>4, <1>5 DEF LooksInv

(* A reader that lets go of what it read.                                   *)
LEMMA LooksLeft ==
    ASSUME LooksInv, NEW r \in CacheReaders, reader'[r].at = "idle",
           \A q \in CacheReaders : q # r => reader'[q] = reader[q], nextGen' = nextGen,
           \A t \in DOMAIN row' : t \in DOMAIN row /\ row'[t].gen = row[t].gen /\ row'[t].by = row[t].by,
           \A a \in Actors : pass'[a].batch = pass[a].batch,
           astray \subseteq astray', \A t \in DOMAIN row' \ astray' : file[t] = NoFile => file'[t] = NoFile,
           \A a \in Actors : \A t \in DOMAIN pass[a].batch \ astray' : file[t] = NoFile => file'[t] = NoFile
    PROVE  LooksInv'
<1>1. (\A t \in DOMAIN row' : row'[t].gen < nextGen')
      /\ \A a \in Actors : \A t \in DOMAIN pass'[a].batch : pass'[a].batch[t].gen < nextGen'
  BY DEF LooksInv
<1>2. ASSUME NEW q \in CacheReaders, reader'[q].at # "idle"
      PROVE  /\ reader'[q] = reader[q]
             /\ reader'[q].gen < nextGen'
             /\ \A t \in DOMAIN row' : Agrees(reader[q], t, row[t])
             /\ \A a \in Actors : \A t \in DOMAIN pass'[a].batch : Agrees(reader[q], t, pass[a].batch[t])
  <2>1. q # r
    BY <1>2
  <2> QED
    BY <1>2, <2>1 DEF LooksInv
<1>3. ASSUME NEW q \in CacheReaders, reader'[q].at # "idle"
      PROVE  \A t \in DOMAIN row' : Agrees(reader[q], t, row[t])'
  BY <1>2, <1>3 DEF Agrees
<1>4. ASSUME NEW q \in CacheReaders, reader'[q].at # "idle"
      PROVE  \A a \in Actors : \A t \in DOMAIN pass'[a].batch : Agrees(reader[q], t, pass[a].batch[t])'
  BY <1>2, <1>4 DEF Agrees
<1>5. TwinsInv'
  BY TwinsStay DEF LooksInv
<1> QED
  BY <1>1, <1>2, <1>3, <1>4, <1>5 DEF LooksInv

(* A row that is used, or goes, stays ahead of the Clear that has it ahead. *)
LEMMA SaidStays ==
    ASSUME SaidInv, CacheTyped, pass' = pass, applier' = applier, cap' = cap, blocked' = blocked, failed => failed',
           unread => unread',
           size' \in Nat, size' =< size, row' \in Rows,
           \A t \in DOMAIN row' : t \in DOMAIN row /\ row'[t].stamp >= row[t].stamp
    PROVE  SaidInv'
<1>1. Trimming' <=> Trimming
  BY DEF Trimming
<1>2. cap \in Nat /\ size \in Nat /\ row \in Rows
  BY TrackCacheAssumption DEF CacheTyped, SettingOK, AccountOK, DiskOK
<1>3. size' > cap' => size > cap
  BY <1>2
<1>4. ASSUME applier = "wipe", DOMAIN row \subseteq Candidates(pass[Applier]), NEW t \in DOMAIN row'
      PROVE  t \in Candidates(pass[Applier])'
  <2>1. pass[Applier].cursor[1] \in Nat /\ pass[Applier].cursor[2] \in Nat
    BY DEF CacheTyped, ActorsOK, Passes, Actors
  <2>2. t \in Nat /\ row[t].stamp \in Nat /\ row'[t].stamp \in Nat /\ row'[t].stamp >= row[t].stamp /\ t \in DOMAIN row
    <3>1. t \in Nat
      BY <1>2, RowsAre, TrackCacheAssumption
    <3>2. row'[t].stamp \in Nat
      BY RowsAre
    <3>3. row[t].stamp \in Nat
      BY <1>2, RowsAre
    <3> QED
      BY <3>1, <3>2, <3>3
  <2>3. t # pass[Applier].keep /\ ~Before(t, pass[Applier].cursor) /\ Mark(t) # pass[Applier].cursor
    BY <1>4, <2>2 DEF Candidates
  <2> DEFINE c == pass[Applier].cursor
  <2>4. ~(row[t].stamp < c[1] \/ (row[t].stamp = c[1] /\ t < c[2])) /\ ~(row[t].stamp = c[1] /\ t = c[2])
    <3>1. c = <<c[1], c[2]>>
      BY DEF CacheTyped, ActorsOK, Passes, Actors
    <3> QED
      BY <2>3, <3>1 DEF Before, Mark
  <2>5. ~(row'[t].stamp < c[1] \/ (row'[t].stamp = c[1] /\ t < c[2])) /\ ~(row'[t].stamp = c[1] /\ t = c[2])
    <3> HIDE DEF c
    <3> QED
      BY <2>1, <2>2, <2>4 DEF c
  <2>6. ~Before(t, c)' /\ Mark(t)' # c
    BY <2>5 DEF Before, Mark
  <2> QED
    BY <2>3, <2>6 DEF Candidates
<1> QED
  BY <1>1, <1>3, <1>4 DEF SaidInv

-----------------------------------------------------------------------------
(***************************************************************************)
(* A store: reserve, move, commit.                                         *)
(***************************************************************************)
(* The rows, the size and the passes are as they were.                      *)
LEMMA SaidSame ==
    ASSUME CacheTyped, SaidInv, UNCHANGED <<pass, applier, cap, blocked, size, row>>, failed => failed',
           unread => unread'
    PROVE  SaidInv'
<1>1. row \in Rows /\ size \in Nat
  BY DEF CacheTyped, DiskOK, AccountOK
<1>2. \A t \in DOMAIN row : row[t].stamp \in Nat
  BY <1>1, RowsAre
<1>3. size' \in Nat /\ size' =< size /\ row' \in Rows
      /\ \A t \in DOMAIN row' : t \in DOMAIN row /\ row'[t].stamp >= row[t].stamp
  BY <1>1, <1>2
<1> QED
  BY <1>3, SaidStays

LEMMA ReserveStep ==
    ASSUME CacheInv, NEW s \in Stores, NEW t \in Tracks, NEW n \in Sizes, Reserve(s, t, n)
    PROVE  CacheInv'
<1> USE DEF CacheInv
<1>0. /\ store[s].at = "new"
      /\ UNCHANGED <<incidents, row, file, nextGen, size, blocked, stranded, doomed, wiping, cap, enabled, pass,
                     applier, owned, todo, failed, changes, reader, reads, left, unread, kills>>
      /\ \A q \in Stores : q # s => store'[q] = store[q]
      /\ store' \in [Stores -> Entries] /\ pending \subseteq pending' /\ pending' \subseteq pending \cup {t}
      /\ astray \subseteq astray' /\ astray' \subseteq Tracks
      /\ \/ store'[s].at = "done" /\ pending' = pending
         \/ /\ store'[s].at = "reserved" /\ store'[s].track = t /\ store'[s].bytes = n
            /\ t \notin doomed \cup pending /\ (t \in DOMAIN row => t \in astray')
            /\ pending' = pending \cup {t}
  <2>1. store \in [Stores -> Entries] /\ astray \subseteq Tracks
    BY DEF CacheTyped, ActorsOK
  <2>2. UNCHANGED <<incidents, row, file, nextGen, size, blocked, stranded, doomed, wiping, cap, enabled, pass,
                     applier, owned, todo, failed, changes, reader, reads, left, unread, kills>> /\ store[s].at = "new"
    BY DEF Reserve, disk, account, setting, clear, loads
  <2>3. CASE store' = [store EXCEPT ![s].at = "done"] /\ UNCHANGED <<pending, astray>>
    BY <2>1, <2>2, <2>3, StoreAt
  <2> DEFINE e == [at |-> "reserved", track |-> t, bytes |-> n]
  <2>4. CASE /\ ~Refused(t) \/ Overlooked(t)
             /\ store' = [store EXCEPT ![s] = e] /\ pending' = pending \cup {t}
             /\ astray' = IF Overlooked(t) THEN astray \cup {t} ELSE astray
    <3>1. e \in Entries
      BY TrackCacheAssumption DEF Entries
    <3>2. store' \in [Stores -> Entries] /\ store'[s] = e /\ \A q \in Stores : q # s => store'[q] = store[q]
      <4> HIDE DEF e
      <4> QED
        BY <2>1, <2>4, <3>1, StorePut
    <3>3. t \notin doomed \cup pending /\ (t \in DOMAIN row => t \in astray')
      BY <2>4 DEF Refused, Overlooked
    <3> QED
      BY <2>1, <2>2, <2>4, <3>2, <3>3
  <2> QED
    BY <2>3, <2>4 DEF Reserve
<1>1. CacheTyped'
  BY <1>0 DEF CacheTyped, DiskOK, AccountOK, MarksOK, SettingOK, ActorsOK, ClearOK, LoadsOK
<1>2. OwnerInv'
  <2>1. /\ DOMAIN row' \cap pending' \subseteq astray' /\ (DOMAIN row' \cup pending') \cap doomed' \subseteq astray'
        /\ \A a \in Actors : DOMAIN pass'[a].batch \subseteq doomed' \cup astray'
        /\ \A a, b \in Actors : a # b => DOMAIN pass'[a].batch \cap DOMAIN pass'[b].batch \subseteq astray'
    BY <1>0 DEF OwnerInv
  <2>2. ASSUME NEW q \in Stores, store'[q].at \in Moving
        PROVE  store'[q].track \in pending' /\ store'[q].bytes \in Sizes
    BY <1>0, <2>2 DEF OwnerInv, Moving
  <2>3. ASSUME NEW q \in Stores, store'[q].at \in Moving, q # s PROVE store'[q].track \in pending
    BY <1>0, <2>3 DEF OwnerInv
  <2>4. ASSUME NEW q \in Stores, NEW z \in Stores, q # z, {store'[q].at, store'[z].at} \subseteq Moving
        PROVE  store'[q].track # store'[z].track
    <3>1. CASE q = s
      BY <1>0, <2>3, <2>4, <3>1 DEF Moving
    <3>2. CASE z = s
      BY <1>0, <2>3, <2>4, <3>2 DEF Moving
    <3>3. CASE q # s /\ z # s
      BY <1>0, <2>4, <3>3 DEF OwnerInv
    <3> QED
      BY <3>1, <3>2, <3>3
  <2> QED
    BY <1>0, <2>1, <2>2, <2>4 DEF OwnerInv
<1>3. PassInv'
  <2>1. \A q \in Stores : store'[q].at # "done" => pass'[q].at = "none"
    BY <1>0 DEF PassInv
  <2> QED
    BY <1>0, <2>1 DEF PassInv, Refuses
<1>4. FileInv'
  <2>1. \A q \in Stores : store'[q].at = "moved" => store[q] = store'[q]
    BY <1>0
  <2> QED
    BY <1>0, <2>1 DEF FileInv
<1>5. StrayInv'
  <2>1. \A u : MovedIn(u) => MovedIn(u)'
    BY <1>0 DEF MovedIn
  <2>2. Unowned' = Unowned
    BY <1>0 DEF Unowned
  <2> QED
    BY <1>0, <2>1, <2>2, StrayStays
<1>6. SizeIsSum'
  BY <1>0 DEF SizeIsSum
<1>7. LooksInv'
  BY <1>0, LooksStay
<1>8. SaidInv'
  BY <1>0, SaidSame
<1> QED
  BY <1>1, <1>2, <1>3, <1>4, <1>5, <1>6, <1>7, <1>8

LEMMA MoveInStep ==
    ASSUME CacheInv, NEW s \in Stores, MoveIn(s)
    PROVE  CacheInv'
<1> USE DEF CacheInv
<1> DEFINE t == store[s].track
<1>0. /\ store[s].at = "reserved" /\ applier \notin {"wipe", "sweep", "answer"}
      /\ UNCHANGED <<incidents, row, nextGen, size, blocked, stranded, pending, doomed, wiping, cap, enabled, pass,
                     applier, owned, todo, failed, changes, reader, reads, astray, unread, kills>>
      /\ left' = left \ {t} /\ file' = [file EXCEPT ![t] = s]
      /\ store' = [store EXCEPT ![s].at = "moved"]
  BY DEF MoveIn, GateHeld, account, marks, setting, clear, loads, refused
<1>a. store \in [Stores -> Entries] /\ file \in [Tracks -> Stores \cup {NoFile}] /\ pending \subseteq Tracks
  BY DEF CacheTyped, ActorsOK, DiskOK, MarksOK
<1>b. /\ store' \in [Stores -> Entries] /\ store'[s].at = "moved"
      /\ store'[s].track = t /\ store'[s].bytes = store[s].bytes
      /\ \A q \in Stores : q # s => store'[q] = store[q]
  BY <1>0, <1>a, StoreAt
<1>c. t \in pending /\ t \in Tracks /\ (t \in DOMAIN row \cup doomed => t \in astray) /\ store[s].bytes \in Sizes
  BY <1>0, <1>a DEF OwnerInv, Moving
<1>d. file' \in [Tracks -> Stores \cup {NoFile}] /\ file'[t] = s /\ \A u \in Tracks : u # t => file'[u] = file[u]
  BY <1>0, <1>a, <1>c
<1>e. \A a \in Actors : (t \in DOMAIN pass[a].batch => t \in astray) /\ DOMAIN pass[a].batch \subseteq Tracks
  BY <1>c DEF OwnerInv, CacheTyped, MarksOK
<1>f. DOMAIN row \subseteq Tracks
  BY RowsAre DEF CacheTyped, DiskOK
<1> HIDE DEF t
<1>1. CacheTyped'
  BY <1>0, <1>b, <1>d DEF CacheTyped, DiskOK, AccountOK, MarksOK, SettingOK, ActorsOK, ClearOK, LoadsOK
<1>2. OwnerInv'
  <2>1. \A q \in Stores : store'[q].at \in Moving => store[q].at \in Moving /\ store'[q].track = store[q].track
                                                     /\ store'[q].bytes = store[q].bytes
    BY <1>0, <1>b DEF Moving, t
  <2> QED
    BY <1>0, <2>1 DEF OwnerInv
<1>3. PassInv'
  <2>1. \A q \in Stores : store'[q].at # "done" => pass'[q].at = "none"
    BY <1>0, <1>b DEF PassInv
  <2> QED
    BY <1>0, <2>1 DEF PassInv, Refuses
<1>4. FileInv'
  <2>1. "vanish" \notin incidents => \A u \in DOMAIN row \ astray : file'[u] = row[u].by
    BY <1>c, <1>d, <1>f DEF FileInv
  <2>2. ASSUME NEW a \in Actors, NEW u \in Tracks \ astray
        PROVE  /\ "vanish" \notin incidents /\ u \in DOMAIN pass[a].batch \ (pass[a].unlinked \ pass[a].kept)
                     => file'[u] = pass[a].batch[u].by
               /\ u \in pass[a].unlinked \ pass[a].kept => file'[u] = NoFile
    <3>1. u \in DOMAIN pass[a].batch \/ u \in pass[a].unlinked => u # t
      BY <1>e DEF PassInv
    <3> QED
      BY <1>d, <3>1 DEF FileInv
  <2>3. ASSUME NEW q \in Stores, store'[q].at = "moved" PROVE file'[store'[q].track] \in {q, NoFile}
    <3>1. CASE q = s
      BY <1>b, <1>d, <3>1
    <3>2. CASE q # s
      <4>1. store[q].at = "moved" /\ store'[q] = store[q]
        BY <1>b, <2>3, <3>2
      <4>2. store[q].track # t /\ store[q].track \in Tracks
        BY <1>0, <1>a, <3>2, <4>1 DEF OwnerInv, Moving, t
      <4> QED
        BY <1>d, <4>1, <4>2 DEF FileInv
    <3> QED
      BY <3>1, <3>2
  <2> QED
    BY <1>0, <2>1, <2>2, <2>3 DEF FileInv
<1>5. StrayInv'
  <2>1. Unowned' \subseteq Unowned \cup {t}
    BY <1>0, <1>d DEF Unowned
  <2>2. \A u : u = t \/ MovedIn(u) => MovedIn(u)'
    <3>1. \A q \in Stores : store[q].at = "moved" => q # s
      BY <1>0
    <3> QED
      BY <1>b, <3>1 DEF MovedIn
  <2>3. \A u \in Unowned' \ astray : u \in left' \/ MovedIn(u)'
    <3>1. \A u \in Unowned \ astray : u \in left \/ MovedIn(u)
      BY <1>0 DEF StrayInv
    <3> QED
      BY <1>0, <2>1, <2>2, <3>1
  <2> QED
    BY <1>0, <2>3 DEF StrayInv
<1>6. SizeIsSum'
  BY <1>0 DEF SizeIsSum
<1>7. LooksInv'
  <2>1. \A u \in DOMAIN row \ astray : file[u] = NoFile => file'[u] = NoFile
    BY <1>c, <1>d, <1>f
  <2>2. \A a \in Actors : \A u \in DOMAIN pass[a].batch \ astray : file[u] = NoFile => file'[u] = NoFile
    BY <1>d, <1>e
  <2> QED
    BY <1>0, <2>1, <2>2, LooksStay
<1>8. SaidInv'
  BY <1>0, SaidSame
<1> QED
  BY <1>1, <1>2, <1>3, <1>4, <1>5, <1>6, <1>7, <1>8

LEMMA MoveFailsStep ==
    ASSUME CacheInv, NEW s \in Stores, MoveFails(s)
    PROVE  CacheInv'
<1> USE DEF CacheInv
<1>0. /\ store[s].at = "reserved"
      /\ UNCHANGED <<incidents, row, file, nextGen, size, blocked, stranded, doomed, wiping, cap, enabled, pass,
                     applier, owned, todo, failed, changes, reader, reads, left, astray, unread, kills>>
      /\ pending' = pending \ {store[s].track}
      /\ store' = [store EXCEPT ![s].at = "done"]
  BY DEF MoveFails, disk, account, setting, clear, loads, refused
<1>a. store \in [Stores -> Entries] /\ pending \subseteq Tracks
  BY DEF CacheTyped, ActorsOK, MarksOK
<1>b. /\ store' \in [Stores -> Entries] /\ store'[s].at = "done"
      /\ \A q \in Stores : q # s => store'[q] = store[q]
  BY <1>0, <1>a, StoreAt
<1>1. CacheTyped'
  BY <1>0, <1>a, <1>b DEF CacheTyped, DiskOK, AccountOK, MarksOK, SettingOK, ActorsOK, ClearOK, LoadsOK
<1>2. OwnerInv'
  <2>1. \A q \in Stores : store'[q].at \in Moving => q # s /\ store[q].at \in Moving /\ store'[q] = store[q]
    BY <1>b DEF Moving
  <2>2. \A q \in Stores : store'[q].at \in Moving => store'[q].track \in pending' /\ store'[q].bytes \in Sizes
    BY <1>0, <2>1 DEF OwnerInv, Moving
  <2> QED
    BY <1>0, <2>1, <2>2 DEF OwnerInv
<1>3. PassInv'
  <2>1. \A q \in Stores : store'[q].at # "done" => pass'[q].at = "none"
    BY <1>0, <1>b DEF PassInv
  <2> QED
    BY <1>0, <2>1 DEF PassInv, Refuses
<1>4. FileInv'
  <2>1. \A q \in Stores : store'[q].at = "moved" => store[q] = store'[q]
    BY <1>b
  <2> QED
    BY <1>0, <2>1 DEF FileInv
<1>5. StrayInv'
  <2>1. \A u : MovedIn(u) => MovedIn(u)'
    BY <1>0, <1>b DEF MovedIn
  <2>2. Unowned' = Unowned
    BY <1>0 DEF Unowned
  <2> QED
    BY <1>0, <2>1, <2>2, StrayStays
<1>6. SizeIsSum'
  BY <1>0 DEF SizeIsSum
<1>7. LooksInv'
  BY <1>0, LooksStay
<1>8. SaidInv'
  BY <1>0, SaidSame
<1> QED
  BY <1>1, <1>2, <1>3, <1>4, <1>5, <1>6, <1>7, <1>8

(* A commit gives the reservation back, and ...                             *)
Commits(s) ==
    /\ store[s].at = "moved"
    /\ pending' = pending \ {store[s].track}
    /\ store' = [store EXCEPT ![s].at = "done"]
    /\ UNCHANGED <<incidents, blocked, stranded, doomed, wiping, cap, enabled, applier, owned, todo, failed,
                   changes, reader, reads, kills>>

LEMMA CommitFacts ==
    ASSUME CacheInv, NEW s \in Stores, Commits(s)
    PROVE  /\ store' \in [Stores -> Entries] /\ store'[s].at = "done"
           /\ \A q \in Stores : q # s => store'[q] = store[q]
           /\ store[s].track \in pending /\ store[s].track \in Tracks
           /\ (store[s].track \in DOMAIN row \cup doomed => store[s].track \in astray) /\ store[s].bytes \in Sizes
           /\ \A a \in Actors : (store[s].track \in DOMAIN pass[a].batch => store[s].track \in astray) /\ DOMAIN pass[a].batch \subseteq Tracks
           /\ DOMAIN row \subseteq Tracks
           /\ \A q \in Stores : store'[q].at \in Moving =>
                 q # s /\ store[q].at \in Moving /\ store'[q] = store[q] /\ store[q].track # store[s].track
           /\ file \in [Tracks -> Stores \cup {NoFile}] /\ file[store[s].track] \in {s, NoFile}
           /\ pass[s].at = "none"
<1> USE DEF CacheInv
<1>1. store \in [Stores -> Entries] /\ pending \subseteq Tracks /\ file \in [Tracks -> Stores \cup {NoFile}] /\ row \in Rows
  BY DEF CacheTyped, ActorsOK, DiskOK, MarksOK
<1>2. store'[s].at = "done" /\ store' \in [Stores -> Entries] /\ \A q \in Stores : q # s => store'[q] = store[q]
  BY <1>1, StoreAt DEF Commits
<1>3. store[s].at \in Moving
  BY DEF Commits, Moving
<1>4. store[s].track \in pending /\ store[s].bytes \in Sizes
  BY <1>3 DEF OwnerInv
<1>5. store[s].track \in DOMAIN row \cup doomed => store[s].track \in astray
  BY <1>4 DEF OwnerInv
<1>6. \A a \in Actors : (store[s].track \in DOMAIN pass[a].batch => store[s].track \in astray) /\ DOMAIN pass[a].batch \subseteq Tracks
  BY <1>5 DEF OwnerInv, CacheTyped, MarksOK
<1>7. DOMAIN row \subseteq Tracks
  BY <1>1, RowsAre
<1>8. ASSUME NEW q \in Stores, store'[q].at \in Moving
      PROVE  q # s /\ store[q].at \in Moving /\ store'[q] = store[q] /\ store[q].track # store[s].track
  <2>1. q # s
    BY <1>2, <1>8 DEF Moving
  <2>2. store[q].at \in Moving /\ store'[q] = store[q]
    BY <1>2, <1>8, <2>1
  <2> QED
    BY <1>3, <2>1, <2>2 DEF OwnerInv
<1>9. file[store[s].track] \in {s, NoFile}
  BY DEF FileInv, Commits
<1>10. pass[s].at = "none"
  BY DEF PassInv, Commits
<1> QED
  BY <1>1, <1>2, <1>4, <1>5, <1>6, <1>7, <1>8, <1>9, <1>10

(* A row is taken out, or a refused statement leaves it.                    *)
LEMMA RowGoes ==
    ASSUME CacheInv, NEW t, RemoveRow(t)
    PROVE  /\ row' \in Rows /\ DOMAIN row' \subseteq DOMAIN row /\ DOMAIN row \subseteq DOMAIN row' \cup {t}
           /\ \A u \in DOMAIN row' : row'[u] = row[u] /\ row'[u].stamp >= row[u].stamp
           /\ SizeIsSum' /\ size' \in Nat /\ size' =< size /\ unread' \in BOOLEAN /\ (unread => unread')
<1> USE DEF CacheInv
<1>1. row \in Rows /\ size \in Nat /\ unread \in BOOLEAN
  BY DEF CacheTyped, DiskOK, AccountOK
<1>2. \A u \in DOMAIN row : row[u].stamp >= row[u].stamp
  <2>1. \A u \in DOMAIN row : row[u].stamp \in Nat
    BY <1>1, RowsAre
  <2> QED
    BY <2>1
<1>3. CASE /\ t \in DOMAIN row /\ row' = Without(row, {t})
           /\ \E known \in Looked(row[t].bytes) :
                 size' = Minus(size, known) /\ unread' = (unread \/ known # row[t].bytes)
  <2> DEFINE w == row[t].bytes
  <2>1. PICK known \in Looked(w) : size' = Minus(size, known) /\ unread' = (unread \/ known # w)
    BY <1>3
  <2>2. w \in Nat
    BY <1>1, <1>3, RowsAre
  <2>3. /\ row' \in Rows /\ DOMAIN row' = DOMAIN row \ {t} /\ \A u \in DOMAIN row \ {t} : row'[u] = row[u]
    BY <1>1, <1>3, WithoutIs
  <2>4. RowBytes(row') = Minus(RowBytes(row), w)
    BY <1>1, <1>3, RowsWithout, WeightOne
  <2>5. known \in Nat
    BY <2>1, <2>2, AnswersAre
  <2> HIDE DEF w
  <2>6. size' \in Nat /\ size' =< size
    BY <1>1, <2>1, <2>5 DEF Minus
  <2>7. SizeIsSum'
    BY <2>1, <2>4 DEF SizeIsSum
  <2>8. unread' \in BOOLEAN /\ (unread => unread')
    BY <1>1, <2>1
  <2> QED
    BY <1>2, <2>3, <2>6, <2>7, <2>8
<1>4. CASE UNCHANGED <<row, size, unread>>
  BY <1>1, <1>2, <1>4 DEF SizeIsSum
<1> QED
  BY <1>3, <1>4 DEF RemoveRow

(* ... no row: the file stays a Clear's, is left by a failure, or goes, and *)
(* with it the row a store was not shown, if the index lets it.             *)
LEMMA CommitNone ==
    ASSUME CacheInv, NEW s \in Stores, Commits(s), pass' = pass,
           row' \in Rows, DOMAIN row' \subseteq DOMAIN row, DOMAIN row \subseteq DOMAIN row' \cup {store[s].track},
           \A u \in DOMAIN row' : row'[u] = row[u] /\ row'[u].stamp >= row[u].stamp,
           SizeIsSum', size' \in Nat, size' =< size, unread' \in BOOLEAN, unread => unread',
           astray \subseteq astray', astray' \subseteq Tracks,
           nextGen' \in {nextGen, nextGen + 1}, file' = file \/ Gone({store[s].track}),
           left' \in {left, left \cup {store[s].track}},
           file'[store[s].track] = NoFile \/ (row' = row /\ (store[s].track \in left' \/ wiping))
    PROVE  CacheInv'
<1> USE DEF CacheInv
<1> DEFINE t == store[s].track
<1>0. /\ store' \in [Stores -> Entries] /\ store'[s].at = "done"
      /\ \A q \in Stores : q # s => store'[q] = store[q]
      /\ t \in pending /\ t \in Tracks /\ (t \in DOMAIN row \cup doomed => t \in astray)
      /\ \A a \in Actors : (t \in DOMAIN pass[a].batch => t \in astray) /\ DOMAIN pass[a].batch \subseteq Tracks
      /\ DOMAIN row \subseteq Tracks
      /\ \A q \in Stores : store'[q].at \in Moving =>
             q # s /\ store[q].at \in Moving /\ store'[q] = store[q] /\ store[q].track # t
      /\ file \in [Tracks -> Stores \cup {NoFile}]
  BY CommitFacts
<1>a. /\ pending' = pending \ {t} /\ store[s].at = "moved"
      /\ UNCHANGED <<incidents, pass, blocked, stranded, doomed, wiping, cap, enabled, applier, owned, todo,
                     failed, changes, reader, reads, kills>>
      /\ nextGen' \in {nextGen, nextGen + 1} /\ left' \in {left, left \cup {t}}
      /\ file'[t] = NoFile \/ (row' = row /\ (t \in left' \/ wiping))
      /\ DOMAIN row \subseteq DOMAIN row' \cup {t}
  BY DEF Commits
<1>b. /\ file' \in [Tracks -> Stores \cup {NoFile}] /\ file'[t] \in {file[t], NoFile}
      /\ \A u \in Tracks : u # t => file'[u] = file[u]
  BY <1>0, GoneIs
<1> HIDE DEF t
<1>c. nextGen \in Nat /\ nextGen' \in Nat /\ nextGen =< nextGen'
  BY <1>a DEF CacheTyped, DiskOK
<1>1. CacheTyped'
  BY <1>0, <1>a, <1>b, <1>c DEF CacheTyped, DiskOK, AccountOK, MarksOK, SettingOK, ActorsOK, ClearOK, LoadsOK
<1>2. OwnerInv'
  <2>1. \A q \in Stores : store'[q].at \in Moving => store'[q].track \in pending' /\ store'[q].bytes \in Sizes
    BY <1>0, <1>a DEF OwnerInv
  <2>2. \A q \in Stores, z \in Stores : q # z /\ {store'[q].at, store'[z].at} \subseteq Moving => store'[q].track # store'[z].track
    BY <1>0 DEF OwnerInv
  <2>3. /\ DOMAIN row' \cap pending' \subseteq astray' /\ (DOMAIN row' \cup pending') \cap doomed' \subseteq astray'
        /\ \A a \in Actors : DOMAIN pass'[a].batch \subseteq doomed' \cup astray'
        /\ \A a, b \in Actors : a # b => DOMAIN pass'[a].batch \cap DOMAIN pass'[b].batch \subseteq astray'
    BY <1>a DEF OwnerInv
  <2> QED
    BY <1>a, <2>1, <2>2, <2>3 DEF OwnerInv
<1>3. PassInv'
  <2>1. \A q \in Stores : store'[q].at # "done" => pass'[q].at = "none"
    BY <1>0, <1>a DEF PassInv
  <2> QED
    BY <1>a, <2>1 DEF PassInv, Refuses
<1>4. FileInv'
  <2>1. "vanish" \notin incidents => \A u \in DOMAIN row' \ astray' : file'[u] = row'[u].by
    BY <1>0, <1>b DEF FileInv
  <2>2. ASSUME NEW a \in Actors, NEW u \in Tracks \ astray'
        PROVE  /\ "vanish" \notin incidents /\ u \in DOMAIN pass[a].batch \ (pass[a].unlinked \ pass[a].kept)
                     => file'[u] = pass[a].batch[u].by
               /\ u \in pass[a].unlinked \ pass[a].kept => file'[u] = NoFile
    <3>1. u \in DOMAIN pass[a].batch \/ u \in pass[a].unlinked => u # t
      BY <1>0 DEF PassInv
    <3> QED
      BY <1>b, <3>1 DEF FileInv
  <2>3. ASSUME NEW q \in Stores, store'[q].at = "moved" PROVE file'[store'[q].track] \in {q, NoFile}
    <3>1. store[q].at = "moved" /\ store'[q] = store[q] /\ store[q].track # t
      BY <1>0, <2>3 DEF Moving
    <3>2. store[q].track \in Tracks
      BY <3>1 DEF OwnerInv, Moving, CacheTyped, MarksOK
    <3> QED
      BY <1>b, <3>1, <3>2 DEF FileInv
  <2> QED
    BY <1>a, <2>1, <2>2, <2>3 DEF FileInv
<1>5. StrayInv'
  <2>1. Unowned' \subseteq Unowned /\ \A u \in Unowned' : file'[u] # NoFile
    <3>1. \A u \in Tracks : file'[u] # NoFile => file[u] # NoFile /\ (u = t => row' = row)
      BY <1>a, <1>b
    <3> QED
      BY <1>a, <3>1 DEF Unowned
  <2>2. ASSUME NEW u, u # t, MovedIn(u) PROVE MovedIn(u)'
    <3>1. PICK q \in Stores : store[q].at = "moved" /\ store[q].track = u
      BY <2>2 DEF MovedIn
    <3>2. q # s
      BY <2>2, <3>1 DEF t
    <3> QED
      BY <1>0, <3>1, <3>2 DEF MovedIn
  <2>3. \A u \in Unowned' \ astray' :
           \/ u \in left' \/ applier' = "wipe" \/ (applier' = "sweep" /\ u \in todo')
           \/ applier' # "sweep" /\ MovedIn(u)'
    <3>1. ASSUME NEW u \in Unowned' \ astray'
          PROVE  \/ u \in left' \/ applier = "wipe" \/ (applier = "sweep" /\ u \in todo)
                 \/ applier # "sweep" /\ MovedIn(u)'
      <4>0. u \in Unowned \ astray
        BY <2>1
      <4>1. \/ u \in left \/ applier = "wipe" \/ (applier = "sweep" /\ u \in todo)
            \/ applier # "sweep" /\ MovedIn(u)
        BY <4>0 DEF StrayInv
      <4>2. CASE u # t
        BY <1>a, <2>2, <4>1, <4>2
      <4>3. CASE u = t
        <5>1. t \in left' \/ applier \in Gates
          BY <1>a, <2>1, <4>3 DEF PassInv
        <5> QED
          BY <1>a, <4>1, <4>3, <5>1 DEF Gates
      <4> QED
        BY <4>2, <4>3
    <3> QED
      BY <1>a, <3>1
  <2>4. applier' = "sweep" => todo' \cap (DOMAIN row' \cup doomed') \subseteq astray'
    BY <1>a DEF StrayInv
  <2>5. ~failed' /\ ~({"refuse", "index"} \subseteq incidents') =>
          /\ applier' = "sweep" => Unowned' \subseteq todo' \cup astray'
          /\ applier' = "answer" => Unowned' \subseteq astray'
    BY <1>a, <2>1 DEF StrayInv
  <2> QED
    BY <2>3, <2>4, <2>5 DEF StrayInv
<1>7. LooksInv'
  <2>1. \A u \in DOMAIN row' \ astray' : file[u] = NoFile => file'[u] = NoFile
    BY <1>0, <1>b
  <2>2. \A a \in Actors : \A u \in DOMAIN pass[a].batch \ astray' : file[u] = NoFile => file'[u] = NoFile
    BY <1>0, <1>b
  <2>3. CASE nextGen' = nextGen
    BY <1>a, <2>1, <2>2, <2>3, LooksStay
  <2>4. CASE nextGen' = nextGen + 1
    <3>1. (\A u \in DOMAIN row : row[u].gen \in Nat /\ row[u].gen < nextGen)
          /\ \A a \in Actors : \A u \in DOMAIN pass[a].batch : pass[a].batch[u].gen \in Nat /\ pass[a].batch[u].gen < nextGen
      <4>1. row \in Rows /\ \A a \in Actors : pass[a].batch \in Rows
        BY DEF CacheTyped, DiskOK, ActorsOK, Passes
      <4> QED
        BY <4>1, RowsAre DEF LooksInv
    <3>2. (\A u \in DOMAIN row' : row'[u].gen < nextGen')
          /\ \A a \in Actors : \A u \in DOMAIN pass'[a].batch : pass'[a].batch[u].gen < nextGen'
      BY <1>a, <1>c, <2>4, <3>1
    <3>3. ASSUME NEW r \in CacheReaders, reader'[r].at # "idle"
          PROVE  /\ reader'[r].gen < nextGen'
                 /\ (\A u \in DOMAIN row : Agrees(reader[r], u, row[u]))
                 /\ \A a \in Actors : \A u \in DOMAIN pass[a].batch : Agrees(reader[r], u, pass[a].batch[u])
      <4>1. reader[r].gen \in Nat
        BY DEF CacheTyped, LoadsOK, Looks
      <4> QED
        BY <1>a, <1>c, <2>4, <3>3, <4>1 DEF LooksInv
    <3>4. ASSUME NEW r \in CacheReaders, reader'[r].at # "idle"
          PROVE  /\ (\A u \in DOMAIN row' : Agrees(reader[r], u, row[u])')
                 /\ \A a \in Actors : \A u \in DOMAIN pass'[a].batch : Agrees(reader[r], u, pass[a].batch[u])'
      BY <1>a, <2>1, <2>2, <3>3, <3>4 DEF Agrees
    <3>5. TwinsInv'
      BY <1>a, TwinsStay DEF LooksInv
    <3> QED
      BY <3>2, <3>3, <3>4, <3>5 DEF LooksInv
  <2> QED
    BY <1>a, <2>3, <2>4
<1>8. SaidInv'
  BY <1>a, SaidStays
<1> QED
  BY <1>1, <1>2, <1>3, <1>4, <1>5, <1>7, <1>8

(* ... its row: the bytes on its path, and a pass to keep the cap.          *)
LEMMA CommitSome ==
    ASSUME CacheInv, NEW s \in Stores, NEW slack \in Nat, Commits(s), InsertRow(s, slack),
           ~wiping, file[store[s].track] # NoFile
    PROVE  CacheInv'
<1> USE DEF CacheInv
<1> DEFINE t   == store[s].track
           old == IF t \in DOMAIN row THEN row[t].bytes ELSE 0
           p   == Trim(t, slack)
<1>x. PICK last \in Looked(LastStamp), known \in Looked(old) :
         /\ row' = With(row, [u \in {t} |-> [gen |-> nextGen, bytes |-> store[s].bytes, stamp |-> last + 1, by |-> s]])
         /\ size' = Minus(size + store[s].bytes, known)
         /\ unread' = (unread \/ last # LastStamp \/ known # old)
         /\ pass' = [pass EXCEPT ![s] = p]
         /\ UNCHANGED <<file, left, astray>>
  BY DEF InsertRow, NewRow
<1> DEFINE w == [gen |-> nextGen, bytes |-> store[s].bytes, stamp |-> last + 1, by |-> s]
<1>0. /\ store' \in [Stores -> Entries] /\ store'[s].at = "done"
      /\ \A q \in Stores : q # s => store'[q] = store[q]
      /\ t \in pending /\ t \in Tracks /\ (t \in DOMAIN row \cup doomed => t \in astray)
      /\ \A a \in Actors : (t \in DOMAIN pass[a].batch => t \in astray) /\ DOMAIN pass[a].batch \subseteq Tracks
      /\ DOMAIN row \subseteq Tracks
      /\ \A q \in Stores : store'[q].at \in Moving =>
             q # s /\ store[q].at \in Moving /\ store'[q] = store[q] /\ store[q].track # t
      /\ file \in [Tracks -> Stores \cup {NoFile}] /\ file[t] = s /\ pass[s].at = "none" /\ store[s].bytes \in Sizes
  BY CommitFacts
<1>a. /\ pending' = pending \ {t} /\ store[s].at = "moved"
      /\ UNCHANGED <<incidents, file, left, blocked, stranded, doomed, wiping, cap, enabled, applier, owned, todo,
                     failed, changes, reader, reads, astray, kills>>
      /\ nextGen' = nextGen + 1 /\ pass' = [pass EXCEPT ![s] = p]
  BY <1>x DEF Commits, InsertRow
<1>b. /\ row \in Rows /\ nextGen \in Nat /\ size \in Nat /\ pass \in [Actors -> Passes] /\ s \in Actors
      /\ unread \in BOOLEAN /\ last \in Nat
  BY StampIsNewer, AnswersAre DEF CacheTyped, DiskOK, AccountOK, ActorsOK, Actors
<1>c. w \in Row /\ w.gen = nextGen /\ w.by = s /\ w.bytes = store[s].bytes
  BY <1>0, <1>b DEF Row
<1>d. /\ p \in Passes /\ p.at = "claim" /\ ~p.all /\ p.batch = <<>> /\ p.unlinked = {} /\ p.kept = {}
  BY <1>0, PassKinds
<1> HIDE DEF p
<1>e. pass' \in [Actors -> Passes] /\ pass'[s] = p /\ \A b \in Actors : b # s => pass'[b] = pass[b]
  BY <1>a, <1>b, <1>d, PassPut
<1>f. row' = With(row, [u \in {t} |-> w])
  BY <1>x
<1>h. store[s].bytes \in Nat
  BY <1>0, TrackCacheAssumption
<1> HIDE DEF w, t
<1>g. /\ row' \in Rows /\ DOMAIN row' = DOMAIN row \cup {t} /\ row'[t] = w
      /\ \A u \in DOMAIN row \ {t} : row'[u] = row[u]
      /\ old \in Nat /\ RowBytes(row') = Minus(RowBytes(row) + w.bytes, old)
  <2> DEFINE one == [u \in {t} |-> w]
             all == With(row, one)
             had == IF t \in DOMAIN row THEN row[t].bytes ELSE 0
  <2>1. /\ all \in Rows /\ DOMAIN all = DOMAIN row \cup {t} /\ all[t] = w
        /\ \A u \in DOMAIN row \ {t} : all[u] = row[u]
        /\ had \in Nat /\ RowBytes(all) = Minus(RowBytes(row) + w.bytes, had)
    <3>1. row \in Rows /\ t \in Tracks /\ w \in Row
      BY <1>0, <1>b, <1>c
    <3>2. \A r \in Rows, v \in Row :
             /\ With(r, [u \in {t} |-> v]) \in Rows /\ DOMAIN With(r, [u \in {t} |-> v]) = DOMAIN r \cup {t}
             /\ With(r, [u \in {t} |-> v])[t] = v
             /\ \A u \in DOMAIN r \ {t} : With(r, [x \in {t} |-> v])[u] = r[u]
             /\ (IF t \in DOMAIN r THEN r[t].bytes ELSE 0) \in Nat
             /\ RowBytes(With(r, [u \in {t} |-> v]))
                   = Minus(RowBytes(r) + v.bytes, IF t \in DOMAIN r THEN r[t].bytes ELSE 0)
      BY <3>1, RowPut
    <3> QED
      BY <3>1, <3>2
  <2>2. row' = all
    BY <1>f
  <2>3. old = had
    OBVIOUS
  <2> HIDE DEF all, old, had
  <2> QED
    BY <2>1, <2>2, <2>3
<1> HIDE DEF old
<1>j. known \in Nat /\ size' \in Nat /\ unread' \in BOOLEAN
  <2>1. known \in Nat
    BY <1>g, <1>x, AnswersAre
  <2>2. size' \in Nat
    BY <1>b, <1>h, <1>x, <2>1 DEF Minus
  <2>3. unread' \in BOOLEAN
    BY <1>x, Zenon
  <2> QED
    BY <2>1, <2>2, <2>3
<1>i. \A a \in Actors : pass'[a].batch \in Rows /\ DOMAIN pass'[a].batch \subseteq DOMAIN pass[a].batch
                        /\ \A u \in DOMAIN pass'[a].batch : a # s /\ pass'[a] = pass[a]
  <2>1. \A a \in Actors : a # s => pass'[a] = pass[a]
    BY <1>e
  <2>2. DOMAIN pass'[s].batch = {}
    BY <1>d, <1>e, NoRows
  <2>3. \A a \in Actors : pass'[a].batch \in Rows
    BY <1>e DEF Passes
  <2> QED
    BY <2>1, <2>2, <2>3
<1>1. CacheTyped'
  <2>1. nextGen' \in Nat
    BY <1>a, <1>b
  <2> QED
    BY <1>0, <1>a, <1>e, <1>g, <1>j, <2>1 DEF CacheTyped, DiskOK, AccountOK, MarksOK, SettingOK, ActorsOK, ClearOK, LoadsOK
<1>2. OwnerInv'
  <2>1. \A q \in Stores : store'[q].at \in Moving => store'[q].track \in pending' /\ store'[q].bytes \in Sizes
    BY <1>0, <1>a DEF OwnerInv
  <2>2. \A q \in Stores, z \in Stores : q # z /\ {store'[q].at, store'[z].at} \subseteq Moving => store'[q].track # store'[z].track
    BY <1>0 DEF OwnerInv
  <2>3. DOMAIN row' \cap pending' \subseteq astray' /\ (DOMAIN row' \cup pending') \cap doomed' \subseteq astray'
    BY <1>0, <1>a, <1>g DEF OwnerInv
  <2>4. \A a \in Actors : DOMAIN pass'[a].batch \subseteq doomed' \cup astray'
    BY <1>a, <1>i DEF OwnerInv
  <2>5. \A a, b \in Actors : a # b => DOMAIN pass'[a].batch \cap DOMAIN pass'[b].batch \subseteq astray'
    BY <1>a, <1>i DEF OwnerInv
  <2> QED
    BY <2>1, <2>2, <2>3, <2>4, <2>5 DEF OwnerInv
<1>3. PassInv'
  <2>1. \A q \in Stores : store'[q].at # "done" => pass'[q].at = "none"
    BY <1>0, <1>e DEF PassInv, Actors
  <2>2. s # Applier /\ Applier \in Actors
    BY TrackCacheAssumption DEF Actors
  <2>3. pass'[Applier] = pass[Applier]
    BY <1>e, <2>2
  <2>4. ASSUME NEW a \in Actors
        PROVE  /\ pass'[a].at # "unlink" => pass'[a].batch = <<>> /\ pass'[a].unlinked = {} /\ pass'[a].kept = {}
               /\ pass'[a].kept \subseteq pass'[a].unlinked /\ pass'[a].unlinked \subseteq DOMAIN pass'[a].batch
               /\ pass'[a].kept # {} => Refuses'
               /\ pass'[a].all => a = Applier /\ pass'[a].at # "none"
    <3>1. CASE a = s
      BY <1>d, <1>e, <3>1
    <3>2. CASE a # s
      BY <1>a, <1>e, <3>2 DEF PassInv, Refuses
    <3> QED
      BY <3>1, <3>2
  <2> QED
    BY <1>a, <2>1, <2>3, <2>4 DEF PassInv
<1>4. FileInv'
  <2>1. "vanish" \notin incidents => \A u \in DOMAIN row' \ astray : file[u] = row'[u].by
    BY <1>0, <1>c, <1>g DEF FileInv
  <2>2. ASSUME NEW a \in Actors, NEW u \in Tracks \ astray
        PROVE  /\ "vanish" \notin incidents /\ u \in DOMAIN pass'[a].batch \ (pass'[a].unlinked \ pass'[a].kept)
                     => file[u] = pass'[a].batch[u].by
               /\ u \in pass'[a].unlinked \ pass'[a].kept => file[u] = NoFile
    <3>1. CASE a = s
      BY <1>d, <1>e, <1>i, <3>1
    <3>2. CASE a # s
      BY <1>e, <3>2 DEF FileInv
    <3> QED
      BY <3>1, <3>2
  <2>3. ASSUME NEW q \in Stores, store'[q].at = "moved" PROVE file[store'[q].track] \in {q, NoFile}
    BY <1>0, <2>3 DEF FileInv, Moving
  <2> QED
    BY <1>a, <2>1, <2>2, <2>3 DEF FileInv
<1>5. StrayInv'
  <2>1. Unowned' \subseteq Unowned /\ t \notin Unowned'
    BY <1>a, <1>g DEF Unowned
  <2>2. ASSUME NEW u, u # t, MovedIn(u) PROVE MovedIn(u)'
    <3>1. PICK q \in Stores : store[q].at = "moved" /\ store[q].track = u
      BY <2>2 DEF MovedIn
    <3>2. q # s
      BY <2>2, <3>1 DEF t
    <3> QED
      BY <1>0, <3>1, <3>2 DEF MovedIn
  <2>3. \A u \in Unowned' : MovedIn(u) => MovedIn(u)'
    BY <2>1, <2>2
  <2>4. applier # "sweep"
    BY DEF PassInv, Gates
  <2> QED
    BY <1>a, <2>1, <2>3, <2>4, StrayStays
<1>6. SizeIsSum'
  BY <1>c, <1>g, <1>x DEF SizeIsSum
<1>7. LooksInv'
  <2>1. (\A u \in DOMAIN row : row[u].gen \in Nat /\ row[u].gen < nextGen)
        /\ \A a \in Actors : \A u \in DOMAIN pass[a].batch : pass[a].batch[u].gen \in Nat /\ pass[a].batch[u].gen < nextGen
    <3>1. row \in Rows /\ \A a \in Actors : pass[a].batch \in Rows
      BY DEF CacheTyped, DiskOK, ActorsOK, Passes
    <3> QED
      BY <3>1, RowsAre DEF LooksInv
  <2>2. \A u \in DOMAIN row' : row'[u].gen < nextGen'
    BY <1>a, <1>b, <1>c, <1>g, <2>1
  <2>3. \A a \in Actors : \A u \in DOMAIN pass'[a].batch : pass'[a].batch[u].gen < nextGen'
    BY <1>a, <1>b, <1>i, <2>1
  <2>4. ASSUME NEW r \in CacheReaders, reader'[r].at # "idle"
        PROVE  /\ reader[r].gen < nextGen /\ reader[r].gen \in Nat
               /\ (\A u \in DOMAIN row : Agrees(reader[r], u, row[u]))
               /\ \A a \in Actors : \A u \in DOMAIN pass[a].batch : Agrees(reader[r], u, pass[a].batch[u])
    BY <1>a, <2>4 DEF LooksInv, CacheTyped, LoadsOK, Looks
  <2>5. ASSUME NEW r \in CacheReaders, reader'[r].at # "idle"
        PROVE  reader'[r].gen < nextGen' /\ reader[r].gen # nextGen
    <3>1. reader[r].gen < nextGen /\ reader[r].gen \in Nat
      BY <2>4, <2>5
    <3> QED
      BY <1>a, <1>b, <3>1
  <2>6. ASSUME NEW r \in CacheReaders, reader'[r].at # "idle", NEW u \in DOMAIN row'
        PROVE  Agrees(reader[r], u, row[u])'
    <3>1. CASE u = t
      BY <1>a, <1>c, <1>g, <2>5, <2>6, <3>1 DEF Agrees
    <3>2. CASE u # t
      BY <1>a, <1>g, <2>4, <2>6, <3>2 DEF Agrees
    <3> QED
      BY <3>1, <3>2
  <2>7. ASSUME NEW r \in CacheReaders, reader'[r].at # "idle"
        PROVE  \A a \in Actors : \A u \in DOMAIN pass'[a].batch : Agrees(reader[r], u, pass[a].batch[u])'
    BY <1>a, <1>i, <2>4, <2>7 DEF Agrees
  <2>8. TwinsInv'
    <3>1. ASSUME NEW a \in Actors, NEW u \in DOMAIN row' \cap DOMAIN pass'[a].batch
          PROVE  Twins(row[u], pass[a].batch[u])'
      <4>1. u \in DOMAIN pass[a].batch /\ pass'[a].batch[u] = pass[a].batch[u]
        BY <1>i, <3>1
      <4>2. CASE u = t
        <5>1. pass[a].batch[u].gen \in Nat /\ pass[a].batch[u].gen < nextGen
          BY <2>1, <4>1
        <5>2. row'[u].gen = nextGen
          BY <1>c, <1>g, <3>1, <4>2
        <5> QED
          BY <1>a, <4>1, <5>1, <5>2 DEF Twins
      <4>3. CASE u # t
        <5>1. u \in DOMAIN row /\ row'[u] = row[u]
          BY <1>g, <3>1, <4>3
        <5>2. Twins(row[u], pass[a].batch[u])
          BY <4>1, <5>1 DEF LooksInv, TwinsInv
        <5> QED
          BY <4>1, <5>1, <5>2 DEF Twins
      <4> QED
        BY <4>2, <4>3
    <3>2. ASSUME NEW a \in Actors, NEW b \in Actors, NEW u \in DOMAIN pass'[a].batch \cap DOMAIN pass'[b].batch
          PROVE  Twins(pass[a].batch[u], pass[b].batch[u])'
      BY <1>i, <3>2 DEF Twins, LooksInv, TwinsInv
    <3> QED
      BY <3>1, <3>2 DEF TwinsInv
  <2> QED
    BY <2>2, <2>3, <2>5, <2>6, <2>7, <2>8 DEF LooksInv
<1>8. SaidInv'
  <2>1. Trimming'
    BY <1>b, <1>d, <1>e DEF Trimming
  <2> QED
    BY <2>1 DEF SaidInv
<1> QED
  BY <1>1, <1>2, <1>3, <1>4, <1>5, <1>6, <1>7, <1>8

LEMMA CommitRowStep ==
    ASSUME CacheInv, NEW s \in Stores, CommitRow(s)
    PROVE  CacheInv'
<1> DEFINE t == store[s].track
<1>1. Commits(s)
  BY DEF CommitRow, Commits, setting, clear, loads
<1>2. t \in Tracks /\ file \in [Tracks -> Stores \cup {NoFile}] /\ store[s].bytes \in Nat
  BY <1>1, CommitFacts, TrackCacheAssumption
<1>a. ASSUME UNCHANGED <<row, size, pass, refused>>, nextGen' \in {nextGen, nextGen + 1}, file' = file \/ Gone({t}),
             left' \in {left, left \cup {t}}, file'[t] = NoFile \/ t \in left' \/ wiping
      PROVE  CacheInv'
  <2>1. row \in Rows /\ size \in Nat /\ unread \in BOOLEAN /\ astray \subseteq Tracks /\ SizeIsSum
    BY DEF CacheInv, CacheTyped, DiskOK, AccountOK
  <2>2. \A u \in DOMAIN row : row[u].stamp >= row[u].stamp
    <3>1. \A u \in DOMAIN row : row[u].stamp \in Nat
      BY <2>1, RowsAre
    <3> QED
      BY <3>1
  <2>3. row' = row /\ size' = size /\ pass' = pass /\ unread' = unread /\ astray' = astray
    BY <1>a DEF refused
  <2>4. SizeIsSum' /\ size' =< size
    BY <2>1, <2>3 DEF SizeIsSum
  <2> QED
    BY <1>1, <1>a, <2>1, <2>2, <2>3, <2>4, CommitNone
<1>3. ASSUME ~enabled, NoRow(s, FALSE) PROVE CacheInv'
  <2>0. UNCHANGED <<row, size, pass, refused>> /\ nextGen' = nextGen
    BY <1>3 DEF NoRow
  <2>1. CASE Gone({t}) /\ left' = left
    <3>1. file'[t] = NoFile
      BY <1>2, <2>1, GoneIs
    <3> QED
      BY <1>a, <2>0, <2>1, <3>1
  <2>2. CASE left' = left \cup {t} /\ file' = file
    BY <1>a, <2>0, <2>2
  <2> QED
    BY <1>3, <2>1, <2>2 DEF NoRow
<1>4. ASSUME wiping \/ file[t] = NoFile, NoRow(s, TRUE) PROVE CacheInv'
  <2>1. UNCHANGED <<row, size, pass, refused>> /\ nextGen' = nextGen /\ file' = file /\ left' = left
    BY <1>4 DEF NoRow
  <2> QED
    BY <1>a, <1>4, <2>1
<1>5. ASSUME DropEntry(t), UNCHANGED <<nextGen, pass, left>> PROVE CacheInv'
  <2>1. file'[t] = NoFile
    BY <1>2, <1>5, GoneIs DEF DropEntry
  <2>2. astray \subseteq astray' /\ astray' \subseteq Tracks
    BY <1>2, <1>5 DEF DropEntry, CacheInv, CacheTyped
  <2>3. RemoveRow(t) /\ Gone({t})
    BY <1>5 DEF DropEntry
  <2>4. /\ row' \in Rows /\ DOMAIN row' \subseteq DOMAIN row /\ DOMAIN row \subseteq DOMAIN row' \cup {t}
        /\ \A u \in DOMAIN row' : row'[u] = row[u] /\ row'[u].stamp >= row[u].stamp
        /\ SizeIsSum' /\ size' \in Nat /\ size' =< size /\ unread' \in BOOLEAN /\ (unread => unread')
    BY <2>3, RowGoes
  <2> QED
    BY <1>1, <1>5, <2>1, <2>2, <2>3, <2>4, CommitNone
<1>6. ASSUME nextGen' = nextGen + 1, left' = left \cup {t}, UNCHANGED <<row, size, pass, file, refused>> PROVE CacheInv'
  BY <1>a, <1>6
<1>7. ASSUME ~wiping, file[t] # NoFile, InsertRow(s, store[s].bytes) \/ InsertRow(s, 0) PROVE CacheInv'
  BY <1>1, <1>2, <1>7, CommitSome
<1> HIDE DEF t
<1> QED
  BY <1>3, <1>4, <1>5, <1>6, <1>7 DEF CommitRow, t

-----------------------------------------------------------------------------
(***************************************************************************)
(* A pass: claim, unlink, settle.                                          *)
(***************************************************************************)
LEMMA FileKeeps ==
    ASSUME FileInv, incidents' = incidents, file' = file, store' = store, row' = row, astray \subseteq astray',
           \A a \in Actors : pass'[a].batch = pass[a].batch /\ pass'[a].unlinked = pass[a].unlinked
                             /\ pass'[a].kept = pass[a].kept
    PROVE  FileInv'
BY DEF FileInv

LEMMA PassIs ==
    ASSUME CacheTyped, NEW a \in Actors
    PROVE  /\ pass \in [Actors -> Passes] /\ pass[a] \in Passes /\ pass[a].batch \in Rows
           /\ row \in Rows /\ size \in Nat /\ cap \in Nat /\ nextGen \in Nat
           /\ file \in [Tracks -> Stores \cup {NoFile}] /\ DOMAIN row \subseteq Tracks
BY RowsAre, TrackCacheAssumption DEF CacheTyped, ActorsOK, DiskOK, AccountOK, SettingOK, Passes

LEMMA NoRowsNoBytes ==
    ASSUME row \in Rows, DOMAIN row = {}
    PROVE  RowBytes(row) = 0
BY WeightNone DEF RowBytes

LEMMA ClaimNothingStep ==
    ASSUME CacheInv, NEW a \in Actors, ClaimNothing(a)
    PROVE  CacheInv'
<1> USE DEF CacheInv
<1> DEFINE p == pass[a]
           e == [p EXCEPT !.at = "end"]
<1>0. /\ p.at = "claim" /\ pass' = [pass EXCEPT ![a] = e]
      /\ UNCHANGED <<incidents, row, file, nextGen, size, blocked, stranded, pending, doomed, wiping, cap, enabled,
                     store, applier, owned, todo, failed, changes, reader, reads, left, astray, kills>>
  BY DEF ClaimNothing, Ended, disk, account, marks, setting, clear, loads
<1>u. unread' \in BOOLEAN /\ (unread => unread') /\ (~unread' => ~Over(p) \/ Chosen(p) = {})
  BY DEF ClaimNothing
<1>a. pass \in [Actors -> Passes] /\ p \in Passes /\ row \in Rows /\ size \in Nat /\ cap \in Nat
  BY PassIs
<1>b. /\ e \in Passes /\ e.at = "end" /\ e.all = p.all /\ e.batch = p.batch /\ e.unlinked = p.unlinked /\ e.kept = p.kept
  BY <1>a DEF Passes
<1> HIDE DEF e
<1>c. pass' \in [Actors -> Passes] /\ pass'[a] = e /\ \A b \in Actors : b # a => pass'[b] = pass[b]
  BY <1>0, <1>a, <1>b, PassPut
<1>d. \A b \in Actors : /\ pass'[b].batch = pass[b].batch /\ pass'[b].unlinked = pass[b].unlinked
                        /\ pass'[b].kept = pass[b].kept /\ pass'[b].all = pass[b].all
                        /\ pass'[b].at = "none" <=> pass[b].at = "none"
                        /\ pass'[b].at = "unlink" <=> pass[b].at = "unlink"
  BY <1>0, <1>b, <1>c
<1> HIDE DEF p
<1>1. CacheTyped'
  BY <1>0, <1>u, <1>c DEF CacheTyped, DiskOK, AccountOK, MarksOK, SettingOK, ActorsOK, ClearOK, LoadsOK
<1>2. OwnerInv'
  BY <1>0, <1>d, OwnerStays
<1>3. PassInv'
  BY <1>0, <1>d DEF PassInv, Refuses, Actors
<1>4. FileInv'
  BY <1>0, <1>d, FileKeeps
<1>5. StrayInv'
  BY <1>0, StraySame
<1>6. SizeIsSum'
  BY <1>0, <1>u DEF SizeIsSum
<1>7. LooksInv'
  BY <1>0, <1>d, LooksStay
<1>8. SaidInv'
  <2>1. Trimming' <=> Trimming
    BY <1>d DEF Trimming
  <2>2. SUFFICES ASSUME ~Trimming, ~failed, ~unread', size > cap, ~blocked PROVE SaidInv'
    BY <1>0, <2>1 DEF SaidInv
  <2>3. /\ applier = "wipe" /\ pass[Applier].at \in {"claim", "unlink"}
        /\ DOMAIN row \subseteq Candidates(pass[Applier])
    BY <1>u, <2>2 DEF SaidInv
  <2>4. p.all /\ a = Applier
    BY <1>0, <2>2 DEF Trimming, PassInv, p
  <2>5. Chosen(p) = {}
    BY <1>u, <2>2, <2>4 DEF Over
  <2>6. DOMAIN row = {}
    BY <1>a, <2>3, <2>4, <2>5, ClearClaims DEF p
  <2>7. size = 0
    BY <1>u, <1>a, <2>2, <2>6, NoRowsNoBytes DEF SizeIsSum
  <2> QED
    BY <1>a, <2>2, <2>7
<1> QED
  BY <1>1, <1>2, <1>3, <1>4, <1>5, <1>6, <1>7, <1>8

(* A pass that ends says why the cache is over its cap, if it is.           *)
LEMMA PassOver ==
    ASSUME CacheInv, NEW a \in Actors, pass[a].at \in {"claim", "end"}, ~pass[a].all,
           pass' = [pass EXCEPT ![a] = NoPass], applier' = IF a = Applier THEN "idle" ELSE applier,
           blocked' \in BOOLEAN, size > cap => blocked',
           UNCHANGED <<incidents, row, file, nextGen, size, stranded, pending, doomed, wiping, cap, enabled,
                       store, owned, todo, failed, changes, reader, reads, left, astray, unread, kills>>
    PROVE  CacheInv'
<1> USE DEF CacheInv
<1>a. pass \in [Actors -> Passes]
  BY PassIs
<1>b. /\ NoPass \in Passes /\ NoPass.at = "none" /\ ~NoPass.all
      /\ NoPass.batch = <<>> /\ NoPass.unlinked = {} /\ NoPass.kept = {}
  BY PassKinds
<1>c. pass' \in [Actors -> Passes] /\ pass'[a] = NoPass /\ \A b \in Actors : b # a => pass'[b] = pass[b]
  BY <1>a, <1>b, PassPut
<1>d. \A b \in Actors : /\ pass'[b].batch = pass[b].batch /\ pass'[b].unlinked = pass[b].unlinked
                        /\ pass'[b].kept = pass[b].kept
  BY <1>b, <1>c DEF PassInv
<1>e. a = Applier => applier = "resize" /\ applier' = "idle"
  BY DEF PassInv, CacheTyped, ClearOK
<1>f. a # Applier => applier' = applier
  OBVIOUS
<1>1. CacheTyped'
  BY <1>c, <1>e, <1>f DEF CacheTyped, DiskOK, AccountOK, MarksOK, SettingOK, ActorsOK, ClearOK, LoadsOK
<1>2. OwnerInv'
  BY <1>d, OwnerStays
<1>3. PassInv'
  <2>1. ASSUME NEW b \in Actors
        PROVE  /\ pass'[b].at # "unlink" => pass'[b].batch = <<>> /\ pass'[b].unlinked = {} /\ pass'[b].kept = {}
               /\ pass'[b].kept \subseteq pass'[b].unlinked /\ pass'[b].unlinked \subseteq DOMAIN pass'[b].batch
               /\ pass'[b].kept # {} => Refuses'
               /\ pass'[b].all => b = Applier /\ pass'[b].at # "none"
    <3>1. CASE b = a
      BY <1>b, <1>c, <3>1
    <3>2. CASE b # a
      BY <1>c, <3>2 DEF PassInv, Refuses
    <3> QED
      BY <3>1, <3>2
  <2>2. Applier \in Actors /\ Stores \subseteq Actors
    BY DEF Actors
  <2>3. /\ pass'[Applier].all <=> applier' = "wipe"
        /\ applier' \in {"idle", "sweep", "answer"} => pass'[Applier].at = "none"
        /\ wiping' <=> applier' \in Gates
    <3>1. CASE a = Applier
      BY <1>b, <1>c, <1>e, <3>1 DEF PassInv, Gates
    <3>2. CASE a # Applier
      BY <1>c, <1>f, <2>2, <3>2 DEF PassInv
    <3> QED
      BY <3>1, <3>2
  <2>4. \A q \in Stores : store'[q].at # "done" => pass'[q].at = "none"
    BY <1>b, <1>c, <2>2 DEF PassInv
  <2> QED
    BY <2>1, <2>3, <2>4 DEF PassInv
<1>4. FileInv'
  BY <1>d, FileKeeps
<1>5. StrayInv'
  BY <1>e, <1>f DEF StrayInv, Unowned, MovedIn
<1>6. SizeIsSum'
  BY DEF SizeIsSum
<1>7. LooksInv'
  BY <1>d, LooksStay
<1>8. SaidInv'
  BY DEF SaidInv
<1> QED
  BY <1>1, <1>2, <1>3, <1>4, <1>5, <1>6, <1>7, <1>8

LEMMA FinishPassStep ==
    ASSUME CacheInv, NEW a \in Actors, FinishPass(a) \/ PassFails(a)
    PROVE  CacheInv'
<1>1. blocked' = (size > cap) \/ blocked' = TRUE
  BY DEF FinishPass, PassFails, SayBlocked
<1>2. (size > cap) \in BOOLEAN
  BY PassIs DEF CacheInv
<1>3. blocked' \in BOOLEAN /\ (size > cap => blocked')
  BY <1>1, <1>2, Zenon
<1> QED
  BY <1>3, PassOver DEF FinishPass, PassFails, disk, marks, setting, loads, refused

LEMMA UnlinkStep ==
    ASSUME CacheInv, NEW a \in Actors, NEW t \in Tracks, Unlink(a, t)
    PROVE  CacheInv'
<1> USE DEF CacheInv
<1> DEFINE p == pass[a]
<1>0. /\ p.at = "unlink" /\ t \in DOMAIN p.batch /\ t \notin p.unlinked
      /\ UNCHANGED <<incidents, row, nextGen, size, blocked, stranded, pending, doomed, wiping, cap, enabled,
                     store, applier, owned, todo, failed, changes, reader, reads, left, astray, unread, kills>>
  BY DEF Unlink, account, marks, setting, clear, loads, refused
<1>a. /\ pass \in [Actors -> Passes] /\ p \in Passes /\ row \in Rows /\ DOMAIN row \subseteq Tracks
      /\ file \in [Tracks -> Stores \cup {NoFile}]
  BY PassIs
<1>b. PICK k \in SUBSET {t} :
         /\ pass' = [pass EXCEPT ![a] = [p EXCEPT !.unlinked = p.unlinked \cup {t}, !.kept = p.kept \cup k]]
         /\ k = {} => Gone({t})
         /\ k # {} => k = {t} /\ Refuses /\ file' = file
  <2>1. CASE Gone({t}) /\ pass' = [pass EXCEPT ![a].unlinked = @ \cup {t}]
    <3>1. [p EXCEPT !.unlinked = p.unlinked \cup {t}, !.kept = p.kept \cup {}] = [p EXCEPT !.unlinked = p.unlinked \cup {t}]
      BY <1>a DEF Passes
    <3>2. pass' = [pass EXCEPT ![a] = [p EXCEPT !.unlinked = p.unlinked \cup {t}]]
      BY <2>1
    <3> QED
      BY <2>1, <3>1, <3>2
  <2>2. CASE Refuses /\ file' = file /\ pass' = [pass EXCEPT ![a].unlinked = @ \cup {t}, ![a].kept = @ \cup {t}]
    <3>1. pass' = [pass EXCEPT ![a] = [p EXCEPT !.unlinked = p.unlinked \cup {t}, !.kept = p.kept \cup {t}]]
      BY <1>a, <2>2
    <3> QED
      BY <2>2, <3>1
  <2> QED
    BY <2>1, <2>2 DEF Unlink
<1> DEFINE e == [p EXCEPT !.unlinked = p.unlinked \cup {t}, !.kept = p.kept \cup k]
<1>c. /\ e \in Passes /\ e.at = "unlink" /\ e.all = p.all /\ e.batch = p.batch /\ e.keep = p.keep /\ e.cursor = p.cursor
      /\ e.unlinked = p.unlinked \cup {t} /\ e.kept = p.kept \cup k
  BY <1>0, <1>a DEF Passes
<1>d. pass' \in [Actors -> Passes] /\ pass'[a] = e /\ \A b \in Actors : b # a => pass'[b] = pass[b]
  <2> HIDE DEF e
  <2> QED
    BY <1>a, <1>b, <1>c, PassPut DEF e
<1> HIDE DEF e
<1>e. /\ file' \in [Tracks -> Stores \cup {NoFile}] /\ file'[t] \in {file[t], NoFile} /\ (k = {} => file'[t] = NoFile)
      /\ (k # {} => file' = file) /\ \A u \in Tracks : u # t => file'[u] = file[u]
  <2>1. CASE k = {}
    BY <1>a, <1>b, <2>1, GoneIs
  <2>2. CASE k # {}
    BY <1>a, <1>b, <2>2
  <2> QED
    BY <2>1, <2>2
<1>f. \A b \in Actors : /\ pass'[b].batch = pass[b].batch /\ pass'[b].all = pass[b].all /\ pass'[b].at = pass[b].at
                        /\ pass'[b].keep = pass[b].keep /\ pass'[b].cursor = pass[b].cursor
  BY <1>0, <1>c, <1>d
<1>g. /\ t \in DOMAIN row => t \in astray
      /\ \A b \in Actors : b # a /\ t \in DOMAIN pass[b].batch => t \in astray
  BY <1>0 DEF OwnerInv
<1>1. CacheTyped'
  BY <1>0, <1>d, <1>e DEF CacheTyped, DiskOK, AccountOK, MarksOK, SettingOK, ActorsOK, ClearOK, LoadsOK
<1>2. OwnerInv'
  BY <1>0, <1>f, OwnerStays
<1>3. PassInv'
  <2>1. ASSUME NEW b \in Actors
        PROVE  /\ pass'[b].at # "unlink" => pass'[b].batch = <<>> /\ pass'[b].unlinked = {} /\ pass'[b].kept = {}
               /\ pass'[b].kept \subseteq pass'[b].unlinked /\ pass'[b].unlinked \subseteq DOMAIN pass'[b].batch
               /\ pass'[b].kept # {} => Refuses'
               /\ pass'[b].all => b = Applier /\ pass'[b].at # "none"
    <3>1. CASE b = a
      BY <1>0, <1>b, <1>c, <1>d, <3>1 DEF PassInv, Refuses
    <3>2. CASE b # a
      BY <1>0, <1>d, <3>2 DEF PassInv, Refuses
    <3> QED
      BY <3>1, <3>2
  <2>2. Applier \in Actors /\ Stores \subseteq Actors
    BY DEF Actors
  <2>3. /\ pass'[Applier].all <=> applier' = "wipe"
        /\ applier' \in {"idle", "sweep", "answer"} => pass'[Applier].at = "none"
        /\ wiping' <=> applier' \in Gates
        /\ \A q \in Stores : store'[q].at # "done" => pass'[q].at = "none"
    BY <1>0, <1>f, <2>2 DEF PassInv
  <2> QED
    BY <2>1, <2>3 DEF PassInv
<1>4. FileInv'
  <2>1. "vanish" \notin incidents => \A u \in DOMAIN row \ astray : file'[u] = row[u].by
    BY <1>a, <1>e, <1>g DEF FileInv
  <2>2. ASSUME NEW b \in Actors, NEW u \in Tracks \ astray
        PROVE  /\ "vanish" \notin incidents /\ u \in DOMAIN pass'[b].batch \ (pass'[b].unlinked \ pass'[b].kept)
                     => file'[u] = pass'[b].batch[u].by
               /\ u \in pass'[b].unlinked \ pass'[b].kept => file'[u] = NoFile
    <3>1. CASE b # a
      <4>1. u \in DOMAIN pass[b].batch \/ u \in pass[b].unlinked => u # t
        BY <1>g, <3>1 DEF PassInv
      <4> QED
        BY <1>d, <1>e, <3>1, <4>1 DEF FileInv
    <3>2. CASE b = a /\ u # t
      BY <1>b, <1>c, <1>d, <1>e, <3>2 DEF FileInv
    <3>3. CASE b = a /\ u = t
      <4>1. CASE k = {}
        <5>1. t \notin p.kept
          BY <1>0 DEF PassInv
        <5>2. pass'[b].kept = p.kept /\ t \in pass'[b].unlinked
          BY <1>c, <1>d, <3>3, <4>1
        <5> QED
          BY <1>e, <3>3, <4>1, <5>1, <5>2
      <4>2. CASE k # {}
        <5>1. t \in pass'[b].kept /\ pass'[b].batch = p.batch /\ file' = file
          BY <1>b, <1>c, <1>d, <1>e, <3>3, <4>2
        <5> QED
          BY <1>0, <3>3, <5>1 DEF FileInv
      <4> QED
        BY <4>1, <4>2
    <3> QED
      BY <3>1, <3>2, <3>3
  <2>3. ASSUME NEW q \in Stores, store'[q].at = "moved" PROVE file'[store'[q].track] \in {q, NoFile}
    <3>1. store[q].at = "moved" /\ store'[q] = store[q]
      BY <1>0, <2>3
    <3>2. store[q].track \in Tracks
      BY <3>1 DEF OwnerInv, Moving, CacheTyped, MarksOK
    <3>3. file[store[q].track] \in {q, NoFile}
      BY <3>1 DEF FileInv
    <3>4. CASE store[q].track = t
      BY <1>e, <3>1, <3>3, <3>4
    <3>5. CASE store[q].track # t
      BY <1>e, <3>1, <3>2, <3>3, <3>5
    <3> QED
      BY <3>4, <3>5
  <2> QED
    BY <1>0, <2>1, <2>2, <2>3 DEF FileInv
<1>5. StrayInv'
  <2>1. \A u \in Tracks : file'[u] # NoFile => file[u] # NoFile
    BY <1>e
  <2>2. Unowned' \subseteq Unowned
    BY <1>0, <2>1 DEF Unowned
  <2>3. \A u : MovedIn(u) => MovedIn(u)'
    BY <1>0 DEF MovedIn
  <2> QED
    BY <1>0, <2>2, <2>3, StrayStays
<1>6. SizeIsSum'
  BY <1>0 DEF SizeIsSum
<1>7. LooksInv'
  <2>1. \A u \in Tracks : file[u] = NoFile => file'[u] = NoFile
    BY <1>e
  <2>2. \A b \in Actors : DOMAIN pass[b].batch \subseteq Tracks
    BY DEF OwnerInv, CacheTyped, MarksOK
  <2> QED
    BY <1>0, <1>a, <1>f, <2>1, <2>2, LooksStay
<1>8. SaidInv'
  <2>1. Trimming' <=> Trimming
    BY <1>f DEF Trimming
  <2>2. Applier \in Actors
    BY DEF Actors
  <2>3. Candidates(pass[Applier])' = Candidates(pass[Applier])
    BY <1>0, <1>f, <2>2 DEF Candidates, Before, Mark
  <2> QED
    BY <1>0, <1>f, <2>1, <2>2, <2>3 DEF SaidInv
<1> QED
  BY <1>1, <1>2, <1>3, <1>4, <1>5, <1>6, <1>7, <1>8

LEMMA ClaimStep ==
    ASSUME CacheInv, NEW a \in Actors, Claim(a)
    PROVE  CacheInv'
<1> USE DEF CacheInv
<1> DEFINE p   == pass[a]
           ids == Chosen(p)
           nx  == Mark(Newest(ids))
           b0  == [t \in ids |-> row[t]]
           e   == [p EXCEPT !.at = "unlink", !.first = FALSE, !.cursor = nx, !.batch = b0, !.unlinked = {}, !.kept = {}]
<1>0. /\ p.at = "claim" /\ ids # {} /\ pass' = [pass EXCEPT ![a] = e]
      /\ row' = Without(row, ids) /\ doomed' = doomed \cup ids /\ size' = Minus(size, Weight(row, ids))
      /\ UNCHANGED <<incidents, file, nextGen, blocked, stranded, pending, wiping, cap, enabled,
                     store, applier, owned, todo, failed, changes, reader, reads, left, astray, unread, kills>>
  BY DEF Claim, Doom, setting, clear, loads, refused
<1>a. pass \in [Actors -> Passes] /\ p \in Passes /\ row \in Rows /\ size \in Nat /\ cap \in Nat /\ DOMAIN row \subseteq Tracks
  BY PassIs
<1>b. ids \subseteq Candidates(p) /\ ids \subseteq DOMAIN row /\ Newest(ids) \in ids
  <2>1. ids \subseteq Candidates(p) /\ ids \subseteq DOMAIN row
    BY ChosenIn
  <2> HIDE DEF ids, p
  <2> QED
    BY <1>0, <1>a, <2>1, NewestIn
<1> HIDE DEF ids
<1>c. nx \in Nat \X Nat
  BY <1>a, <1>b, RowsAre, TrackCacheAssumption DEF Mark
<1>d. b0 \in Rows /\ DOMAIN b0 = ids /\ \A t \in ids : b0[t] = row[t]
  <2>1. ids \in SUBSET Tracks /\ b0 \in [ids -> Row]
    BY <1>a, <1>b, RowsAre
  <2> QED
    BY <2>1, RowsFit
<1> HIDE DEF nx, b0
<1>e. /\ e \in Passes /\ e.at = "unlink" /\ e.all = p.all /\ e.keep = p.keep /\ e.cursor = nx
      /\ e.batch = b0 /\ e.unlinked = {} /\ e.kept = {}
  BY <1>a, <1>c, <1>d DEF Passes
<1> HIDE DEF e
<1>f. pass' \in [Actors -> Passes] /\ pass'[a] = e /\ \A b \in Actors : b # a => pass'[b] = pass[b]
  BY <1>0, <1>a, <1>e, PassPut
<1>g. row' \in Rows /\ DOMAIN row' = DOMAIN row \ ids /\ \A t \in DOMAIN row' : t \in DOMAIN row /\ row'[t] = row[t]
  <2>1. /\ Without(row, ids) \in Rows /\ DOMAIN Without(row, ids) = DOMAIN row \ ids
        /\ \A t \in DOMAIN row \ ids : Without(row, ids)[t] = row[t]
    BY <1>a, WithoutIs
  <2> QED
    BY <1>0, <2>1
<1>h. Stores \subseteq Actors /\ Applier \in Actors
  BY DEF Actors
<1>i. SizeIsSum' /\ size' \in Nat
  <2>1. Weight(row, ids) \in Nat
    BY <1>a, <1>b, RowsAre, WeightNat, FS_Subset
  <2>2. RowBytes(row') = Minus(RowBytes(row), Weight(row, ids))
    BY <1>0, <1>a, <1>b, RowsWithout
  <2>3. size' \in Nat
    BY <1>0, <1>a, <2>1 DEF Minus
  <2> QED
    BY <1>0, <2>2, <2>3 DEF SizeIsSum
<1> HIDE DEF p
<1>1. CacheTyped'
  <2>1. ids \subseteq Tracks
    BY <1>a, <1>b
  <2> QED
    BY <1>0, <1>f, <1>g, <1>i, <2>1 DEF CacheTyped, DiskOK, AccountOK, MarksOK, SettingOK, ActorsOK, ClearOK, LoadsOK
<1>2. OwnerInv'
  <2>1. DOMAIN row' \cap pending' \subseteq astray' /\ (DOMAIN row' \cup pending') \cap doomed' \subseteq astray'
    BY <1>0, <1>b, <1>g DEF OwnerInv
  <2>2. \A b \in Actors : DOMAIN pass'[b].batch \subseteq doomed' \cup astray'
    BY <1>0, <1>d, <1>e, <1>f DEF OwnerInv
  <2>3. \A b \in Actors : DOMAIN pass[b].batch \cap ids \subseteq astray
    BY <1>b DEF OwnerInv
  <2>4. \A b, c \in Actors : b # c => DOMAIN pass'[b].batch \cap DOMAIN pass'[c].batch \subseteq astray'
    BY <1>0, <1>d, <1>e, <1>f, <2>3 DEF OwnerInv
  <2> QED
    BY <1>0, <2>1, <2>2, <2>4 DEF OwnerInv
<1>3. PassInv'
  <2>1. ASSUME NEW b \in Actors
        PROVE  /\ pass'[b].at # "unlink" => pass'[b].batch = <<>> /\ pass'[b].unlinked = {} /\ pass'[b].kept = {}
               /\ pass'[b].kept \subseteq pass'[b].unlinked /\ pass'[b].unlinked \subseteq DOMAIN pass'[b].batch
               /\ pass'[b].kept # {} => Refuses'
               /\ pass'[b].all => b = Applier /\ pass'[b].at # "none"
    <3>1. CASE b = a
      BY <1>e, <1>f, <3>1 DEF PassInv, p
    <3>2. CASE b # a
      BY <1>0, <1>f, <3>2 DEF PassInv, Refuses
    <3> QED
      BY <3>1, <3>2
  <2>2. \A b \in Actors : pass'[b].all = pass[b].all /\ (pass'[b].at = "none" <=> pass[b].at = "none")
    BY <1>0, <1>e, <1>f DEF p
  <2>3. /\ pass'[Applier].all <=> applier' = "wipe"
        /\ applier' \in {"idle", "sweep", "answer"} => pass'[Applier].at = "none"
        /\ wiping' <=> applier' \in Gates
        /\ \A q \in Stores : store'[q].at # "done" => pass'[q].at = "none"
    BY <1>0, <1>h, <2>2 DEF PassInv
  <2> QED
    BY <2>1, <2>3 DEF PassInv
<1>4. FileInv'
  <2>1. "vanish" \notin incidents => \A u \in DOMAIN row' \ astray : file[u] = row'[u].by
    BY <1>g DEF FileInv
  <2>2. ASSUME NEW b \in Actors, NEW u \in Tracks \ astray
        PROVE  /\ "vanish" \notin incidents /\ u \in DOMAIN pass'[b].batch \ (pass'[b].unlinked \ pass'[b].kept)
                     => file[u] = pass'[b].batch[u].by
               /\ u \in pass'[b].unlinked \ pass'[b].kept => file[u] = NoFile
    <3>1. CASE b = a
      BY <1>b, <1>d, <1>e, <1>f, <3>1 DEF FileInv
    <3>2. CASE b # a
      BY <1>f, <3>2 DEF FileInv
    <3> QED
      BY <3>1, <3>2
  <2>3. \A q \in Stores : store'[q].at = "moved" => file[store'[q].track] \in {q, NoFile}
    BY <1>0 DEF FileInv
  <2> QED
    BY <1>0, <2>1, <2>2, <2>3 DEF FileInv
<1>5. StrayInv'
  <2>1. DOMAIN row' \cup doomed' = DOMAIN row \cup doomed
    BY <1>0, <1>b, <1>g
  <2>2. Unowned' = Unowned
    BY <1>0, <2>1 DEF Unowned
  <2>3. \A u : MovedIn(u) => MovedIn(u)'
    BY <1>0 DEF MovedIn
  <2> QED
    BY <1>0, <2>1, <2>2, <2>3, StrayStays
<1>6. SizeIsSum'
  BY <1>i
<1>7. LooksInv'
  <2>1. (\A t \in DOMAIN row' : row'[t].gen < nextGen')
        /\ \A b \in Actors : \A t \in DOMAIN pass'[b].batch : pass'[b].batch[t].gen < nextGen'
    BY <1>0, <1>b, <1>d, <1>e, <1>f, <1>g DEF LooksInv
  <2>2. ASSUME NEW r \in CacheReaders, reader'[r].at # "idle"
        PROVE  /\ reader'[r].gen < nextGen'
               /\ (\A t \in DOMAIN row : Agrees(reader[r], t, row[t]))
               /\ \A b \in Actors : \A t \in DOMAIN pass[b].batch : Agrees(reader[r], t, pass[b].batch[t])
    BY <1>0, <2>2 DEF LooksInv
  <2>3. ASSUME NEW r \in CacheReaders, reader'[r].at # "idle"
        PROVE  /\ (\A t \in DOMAIN row' : Agrees(reader[r], t, row[t])')
               /\ \A b \in Actors : \A t \in DOMAIN pass'[b].batch : Agrees(reader[r], t, pass[b].batch[t])'
    <3>1. \A t \in DOMAIN row' : Agrees(reader[r], t, row[t])'
      BY <1>0, <1>g, <2>2, <2>3 DEF Agrees
    <3>2. ASSUME NEW b \in Actors, NEW t \in DOMAIN pass'[b].batch PROVE Agrees(reader[r], t, pass[b].batch[t])'
      <4>1. CASE b = a
        BY <1>0, <1>b, <1>d, <1>e, <1>f, <2>2, <2>3, <3>2, <4>1 DEF Agrees
      <4>2. CASE b # a
        BY <1>0, <1>f, <2>2, <2>3, <3>2, <4>2 DEF Agrees
      <4> QED
        BY <4>1, <4>2
    <3> QED
      BY <3>1, <3>2
  <2>4. TwinsInv'
    <3>1. ASSUME NEW b \in Actors, NEW t \in DOMAIN row' \cap DOMAIN pass'[b].batch
          PROVE  Twins(row[t], pass[b].batch[t])'
      <4>1. b # a
        BY <1>d, <1>e, <1>f, <1>g, <3>1
      <4>2. t \in DOMAIN row /\ row'[t] = row[t] /\ pass'[b] = pass[b] /\ t \in DOMAIN pass[b].batch
        BY <1>f, <1>g, <3>1, <4>1
      <4>3. Twins(row[t], pass[b].batch[t])
        BY <4>2 DEF LooksInv, TwinsInv
      <4> QED
        BY <4>2, <4>3 DEF Twins
    <3>2. ASSUME NEW b \in Actors, NEW t \in DOMAIN pass'[b].batch
          PROVE  \/ b = a /\ t \in DOMAIN row /\ pass'[b].batch[t] = row[t]
                 \/ b # a /\ t \in DOMAIN pass[b].batch /\ pass'[b].batch[t] = pass[b].batch[t]
      BY <1>b, <1>d, <1>e, <1>f, <3>2
    <3>3. ASSUME NEW b \in Actors, NEW c \in Actors, NEW t \in DOMAIN pass'[b].batch \cap DOMAIN pass'[c].batch
          PROVE  Twins(pass[b].batch[t], pass[c].batch[t])'
      <4> DEFINE x == pass'[b].batch[t]
                 y == pass'[c].batch[t]
      <4>1. x = y \/ Twins(x, y)
        <5>1. CASE b = a /\ c = a
          BY <5>1
        <5>2. CASE b = a /\ c # a
          BY <3>2, <3>3, <5>2 DEF LooksInv, TwinsInv
        <5>3. CASE b # a /\ c = a
          <6>1. t \in DOMAIN row /\ y = row[t] /\ t \in DOMAIN pass[b].batch /\ x = pass[b].batch[t]
            BY <3>2, <3>3, <5>3
          <6>2. Twins(row[t], pass[b].batch[t])
            BY <6>1 DEF LooksInv, TwinsInv
          <6> QED
            BY <6>1, <6>2 DEF Twins
        <5>4. CASE b # a /\ c # a
          BY <3>2, <3>3, <5>4 DEF LooksInv, TwinsInv
        <5> QED
          BY <5>1, <5>2, <5>3, <5>4
      <4> QED
        BY <4>1 DEF Twins
    <3> QED
      BY <3>1, <3>3 DEF TwinsInv
  <2> QED
    BY <2>1, <2>2, <2>3, <2>4 DEF LooksInv
<1>8. SaidInv'
  <2>1. CASE ~p.all
    <3>1. Trimming'
      BY <1>e, <1>f, <2>1 DEF Trimming
    <3> QED
      BY <3>1 DEF SaidInv
  <2>2. CASE p.all
    <3>1. a = Applier
      BY <2>2 DEF PassInv, p
    <3>2. Trimming' <=> Trimming
      BY <1>e, <1>f, <2>2 DEF Trimming, p
    <3>3. size' > cap' => size > cap
      <4>1. Weight(row, ids) \in Nat
        BY <1>a, <1>b, RowsAre, WeightNat, FS_Subset
      <4> QED
        BY <1>0, <1>a, <4>1 DEF Minus
    <3>4. SUFFICES ASSUME ~Trimming, ~failed, ~unread, size > cap, ~blocked PROVE SaidInv'
      BY <1>0, <3>2, <3>3 DEF SaidInv
    <3>5. applier = "wipe" /\ DOMAIN row \subseteq Candidates(p)
      BY <3>1, <3>4 DEF SaidInv, p
    <3>6. ASSUME NEW t \in DOMAIN row' PROVE t \in Candidates(pass[Applier])'
      <4>1. t \in Candidates(p) /\ t \notin ids /\ t \in DOMAIN row /\ row'[t] = row[t]
        BY <1>g, <3>5
      <4>2. ~Before(t, nx) /\ Mark(t) # nx
        BY <1>a, <1>b, <2>2, <4>1, ClearGoesOn DEF nx, ids
      <4>3. PICK c : c = nx
        OBVIOUS
      <4>4. ~(row[t].stamp < c[1] \/ (row[t].stamp = c[1] /\ t < c[2])) /\ <<row[t].stamp, t>> # c
        BY <4>2, <4>3 DEF Before, Mark
      <4>5. ~(row'[t].stamp < c[1] \/ (row'[t].stamp = c[1] /\ t < c[2])) /\ <<row'[t].stamp, t>> # c
        BY <4>1, <4>4
      <4>6. ~Before(t, c)' /\ Mark(t)' # c
        BY <4>5 DEF Before, Mark
      <4>7. pass'[Applier].cursor = c /\ pass'[Applier].keep = p.keep
        BY <1>e, <1>f, <3>1, <4>3
      <4>8. t # p.keep
        BY <4>1 DEF Candidates
      <4> QED
        BY <4>6, <4>7, <4>8 DEF Candidates
    <3>7. pass'[Applier].at = "unlink"
      BY <1>e, <1>f, <3>1
    <3> QED
      BY <1>0, <3>5, <3>6, <3>7 DEF SaidInv
  <2> QED
    BY <2>1, <2>2
<1> QED
  BY <1>1, <1>2, <1>3, <1>4, <1>5, <1>6, <1>7, <1>8

LEMMA SettleUnlinksStep ==
    ASSUME CacheInv, NEW a \in Actors, SettleUnlinks(a)
    PROVE  CacheInv'
<1> USE DEF CacheInv
<1> DEFINE p    == pass[a]
           D    == DOMAIN p.batch
           back == [t \in p.kept |-> p.batch[t]]
           fin  == IF ~p.all /\ p.kept = D THEN "end" ELSE "claim"
           none == <<>>
           e    == [p EXCEPT !.at = fin, !.batch = none, !.unlinked = {}, !.kept = {}]
<1>0. /\ p.at = "unlink" /\ p.unlinked = D /\ pass' = [pass EXCEPT ![a] = e]
      /\ doomed' = doomed \ D
      /\ \/ row' = With(row, back) /\ size' = size + RowBytes(back) /\ stranded' = stranded /\ left' = left
            /\ unread' = (unread \/ DOMAIN back \cap DOMAIN row # {})
         \/ /\ "index" \in incidents /\ p.kept # {} /\ row' = row /\ size' = size /\ unread' = unread
            /\ stranded' = stranded + RowBytes(back) /\ left' = left \cup p.kept
      /\ failed' = IF p.all THEN failed \/ p.kept # {} ELSE failed
      /\ UNCHANGED <<incidents, file, nextGen, blocked, pending, wiping, cap, enabled,
                     store, applier, owned, todo, changes, reader, reads, astray, kills>>
  BY DEF SettleUnlinks, PutBack, IndexErrs, setting, loads
<1>a. /\ pass \in [Actors -> Passes] /\ p \in Passes /\ p.batch \in Rows /\ row \in Rows /\ size \in Nat /\ cap \in Nat
      /\ DOMAIN row \subseteq Tracks
  BY PassIs
<1>b. p.kept \subseteq D /\ D \subseteq Tracks /\ (p.kept # {} => Refuses)
  BY <1>a, RowsAre DEF PassInv
<1>c. back \in Rows /\ DOMAIN back = p.kept /\ \A t \in p.kept : back[t] = p.batch[t]
  <2>1. p.kept \in SUBSET Tracks /\ back \in [p.kept -> Row]
    BY <1>a, <1>b, RowsAre
  <2> QED
    BY <2>1, RowsFit
<1> HIDE DEF back
<1>d. fin \in {"end", "claim"} /\ (p.all => fin = "claim")
  OBVIOUS
<1>e. none \in Rows /\ DOMAIN none = {}
  BY NoRows
<1> HIDE DEF fin, none
<1>f. /\ e \in Passes /\ e.at = fin /\ e.all = p.all /\ e.keep = p.keep /\ e.cursor = p.cursor
      /\ e.batch = none /\ e.unlinked = {} /\ e.kept = {}
  BY <1>a, <1>d, <1>e DEF Passes
<1> HIDE DEF e
<1>g. pass' \in [Actors -> Passes] /\ pass'[a] = e /\ \A b \in Actors : b # a => pass'[b] = pass[b]
  BY <1>0, <1>a, <1>f, PassPut
<1>h. Stores \subseteq Actors /\ Applier \in Actors
  BY DEF Actors
<1>i. /\ D \subseteq doomed \cup astray /\ DOMAIN row \cap D \subseteq astray /\ pending \cap D \subseteq astray
      /\ \A b \in Actors : b # a => DOMAIN pass[b].batch \cap D \subseteq astray
  BY DEF OwnerInv
<1> HIDE DEF p, D
<1>j. RowBytes(back) \in Nat
  BY <1>c, RowBytesNat
<1>k. /\ row' \in Rows /\ DOMAIN row \subseteq DOMAIN row' /\ DOMAIN row' \subseteq DOMAIN row \cup p.kept
      /\ (\A t \in DOMAIN row' : (t \in DOMAIN row /\ row'[t] = row[t]) \/ (t \in p.kept /\ row'[t] = p.batch[t]))
      /\ (p.kept = {} => DOMAIN row' = DOMAIN row /\ unread' = unread /\ \A t \in DOMAIN row : row'[t] = row[t])
      /\ unread' \in BOOLEAN /\ (unread => unread')
      /\ (p.kept \subseteq DOMAIN row' \/ ("index" \in incidents /\ p.kept # {} /\ p.kept \subseteq left'))
      /\ SizeIsSum' /\ size' \in Nat /\ left \subseteq left' /\ left' \subseteq left \cup p.kept
  <2>1. CASE row' = With(row, back) /\ size' = size + RowBytes(back) /\ left' = left
              /\ unread' = (unread \/ DOMAIN back \cap DOMAIN row # {})
    <3>1. unread \in BOOLEAN
      BY DEF CacheTyped
    <3>2. DOMAIN row \cap DOMAIN back = {} => RowBytes(With(row, back)) = RowBytes(row) + RowBytes(back)
      BY <1>a, <1>c, RowsWith
    <3>3. /\ With(row, back) \in Rows /\ DOMAIN With(row, back) = DOMAIN row \cup DOMAIN back
          /\ \A u \in DOMAIN back : With(row, back)[u] = back[u]
          /\ \A u \in DOMAIN row \ DOMAIN back : With(row, back)[u] = row[u]
      BY <1>a, <1>c, WithIs
    <3>4. unread' \in BOOLEAN /\ (unread => unread') /\ (p.kept = {} => unread' = unread)
      BY <1>c, <2>1, <3>1
    <3>5. SizeIsSum'
      <4>1. CASE unread'
        BY <4>1 DEF SizeIsSum
      <4>2. CASE ~unread'
        <5>1. ~unread /\ DOMAIN row \cap DOMAIN back = {}
          BY <2>1, <4>2
        <5> QED
          BY <2>1, <3>2, <5>1 DEF SizeIsSum
      <4> QED
        BY <4>1, <4>2
    <3>6. size' \in Nat
      BY <1>a, <1>j, <2>1
    <3> QED
      BY <1>c, <2>1, <3>3, <3>4, <3>5, <3>6
  <2>2. CASE "index" \in incidents /\ p.kept # {} /\ row' = row /\ size' = size /\ left' = left \cup p.kept /\ unread' = unread
    BY <1>a, <1>b, <2>2 DEF SizeIsSum, CacheTyped
  <2> QED
    BY <1>0, <2>1, <2>2
<1>l. size' \in Nat /\ stranded' \in Nat
  <2>1. size' \in Nat
    BY <1>k
  <2>2. stranded \in Nat
    BY DEF CacheTyped, AccountOK
  <2> QED
    BY <1>0, <1>j, <2>1, <2>2
<1>1. CacheTyped'
  <2>1. failed' \in BOOLEAN
    <3>1. failed \in BOOLEAN
      BY DEF CacheTyped, ClearOK
    <3> QED
      BY <1>0, <3>1
  <2>2. left' \subseteq Tracks
    BY <1>b, <1>k DEF CacheTyped
  <2>3. doomed' \subseteq Tracks
    BY <1>0 DEF CacheTyped, MarksOK
  <2> QED
    BY <1>0, <1>g, <1>k, <1>l, <2>1, <2>2, <2>3 DEF CacheTyped, DiskOK, AccountOK, MarksOK, SettingOK, ActorsOK, ClearOK, LoadsOK
<1>2. OwnerInv'
  <2>1. DOMAIN row' \cap pending' \subseteq astray' /\ (DOMAIN row' \cup pending') \cap doomed' \subseteq astray'
    BY <1>0, <1>b, <1>i, <1>k DEF OwnerInv
  <2>2. \A b \in Actors : DOMAIN pass'[b].batch \subseteq doomed' \cup astray'
    BY <1>0, <1>e, <1>f, <1>g, <1>i DEF OwnerInv
  <2>3. \A b, c \in Actors : b # c => DOMAIN pass'[b].batch \cap DOMAIN pass'[c].batch \subseteq astray'
    BY <1>0, <1>e, <1>f, <1>g DEF OwnerInv
  <2> QED
    BY <1>0, <2>1, <2>2, <2>3 DEF OwnerInv
<1>3. PassInv'
  <2>1. ASSUME NEW b \in Actors
        PROVE  /\ pass'[b].at # "unlink" => pass'[b].batch = <<>> /\ pass'[b].unlinked = {} /\ pass'[b].kept = {}
               /\ pass'[b].kept \subseteq pass'[b].unlinked /\ pass'[b].unlinked \subseteq DOMAIN pass'[b].batch
               /\ pass'[b].kept # {} => Refuses'
               /\ pass'[b].all => b = Applier /\ pass'[b].at # "none"
    <3>1. CASE b = a
      <4>1. p.all => a = Applier
        BY DEF PassInv, p
      <4> QED
        BY <1>d, <1>f, <1>g, <3>1, <4>1 DEF none
    <3>2. CASE b # a
      BY <1>0, <1>g, <3>2 DEF PassInv, Refuses
    <3> QED
      BY <3>1, <3>2
  <2>2. \A b \in Actors : pass'[b].all = pass[b].all /\ (pass'[b].at = "none" <=> pass[b].at = "none")
    BY <1>0, <1>d, <1>f, <1>g DEF p
  <2>3. /\ pass'[Applier].all <=> applier' = "wipe"
        /\ applier' \in {"idle", "sweep", "answer"} => pass'[Applier].at = "none"
        /\ wiping' <=> applier' \in Gates
        /\ \A q \in Stores : store'[q].at # "done" => pass'[q].at = "none"
    BY <1>0, <1>h, <2>2 DEF PassInv
  <2> QED
    BY <2>1, <2>3 DEF PassInv
<1>m. \A t \in D \ astray : (t \in p.kept /\ "vanish" \notin incidents => file[t] = p.batch[t].by)
                   /\ (t \notin p.kept => file[t] = NoFile)
  BY <1>0, <1>b DEF FileInv, p, D
<1>4. FileInv'
  <2>1. "vanish" \notin incidents => \A u \in DOMAIN row' \ astray : file[u] = row'[u].by
    BY <1>b, <1>k, <1>m DEF FileInv
  <2>2. ASSUME NEW b \in Actors, NEW u \in Tracks \ astray
        PROVE  /\ "vanish" \notin incidents /\ u \in DOMAIN pass'[b].batch \ (pass'[b].unlinked \ pass'[b].kept)
                     => file[u] = pass'[b].batch[u].by
               /\ u \in pass'[b].unlinked \ pass'[b].kept => file[u] = NoFile
    <3>1. CASE b = a
      BY <1>e, <1>f, <1>g, <3>1
    <3>2. CASE b # a
      BY <1>g, <3>2 DEF FileInv
    <3> QED
      BY <3>1, <3>2
  <2>3. \A q \in Stores : store'[q].at = "moved" => file[store'[q].track] \in {q, NoFile}
    BY <1>0 DEF FileInv
  <2> QED
    BY <1>0, <2>1, <2>2, <2>3 DEF FileInv
<1>5. StrayInv'
  <2>1. Unowned' \ astray \subseteq Unowned \cup (left' \cap p.kept)
    <3>1. ASSUME NEW u \in Unowned' \ astray, u \notin Unowned PROVE u \in left' \cap p.kept
      <4>1. u \in Tracks /\ file[u] # NoFile /\ u \notin DOMAIN row' /\ u \notin doomed'
        BY <1>0, <3>1 DEF Unowned
      <4>2. u \in DOMAIN row \/ u \in doomed
        BY <3>1, <4>1 DEF Unowned
      <4>3. u \in D
        BY <1>0, <1>k, <4>1, <4>2
      <4>4. u \in p.kept
        BY <1>m, <4>1, <4>3
      <4> QED
        BY <1>k, <4>1, <4>4
    <3> QED
      BY <3>1
  <2>2. DOMAIN row' \cup doomed' \subseteq DOMAIN row \cup doomed \cup astray
    BY <1>0, <1>b, <1>i, <1>k
  <2>3. \A u : MovedIn(u) => MovedIn(u)'
    BY <1>0 DEF MovedIn
  <2>4. failed => failed'
    BY <1>0
  <2>5. CASE p.kept \subseteq DOMAIN row'
    <3>1. Unowned' \ astray \subseteq Unowned
      BY <2>1, <2>5 DEF Unowned
    <3> QED
      BY <1>0, <1>k, <2>2, <2>3, <2>4, <3>1, StrayStays
  <2>6. CASE "index" \in incidents /\ p.kept # {}
    <3>1. {"refuse", "index"} \subseteq incidents'
      BY <1>0, <1>b, <2>6 DEF Refuses
    <3>2. \A u \in Unowned' \ astray : \/ u \in left' \/ applier = "wipe" \/ (applier = "sweep" /\ u \in todo)
                                       \/ applier # "sweep" /\ MovedIn(u)'
      <4>1. ASSUME NEW u \in Unowned' \ astray, u \notin left' PROVE u \in Unowned \ astray /\ u \notin left
        BY <1>k, <2>1, <4>1
      <4>2. \A u \in Unowned \ astray : \/ u \in left \/ applier = "wipe" \/ (applier = "sweep" /\ u \in todo)
                                        \/ applier # "sweep" /\ MovedIn(u)
        BY DEF StrayInv
      <4> QED
        BY <2>3, <4>1, <4>2
    <3>3. applier = "sweep" => todo \cap (DOMAIN row' \cup doomed') \subseteq astray
      BY <2>2 DEF StrayInv
    <3> QED
      BY <1>0, <3>1, <3>2, <3>3 DEF StrayInv
  <2> QED
    BY <1>k, <2>5, <2>6
<1>6. SizeIsSum'
  BY <1>k
<1>7. LooksInv'
  <2>1. (\A t \in DOMAIN row' : row'[t].gen < nextGen')
        /\ \A b \in Actors : \A t \in DOMAIN pass'[b].batch : pass'[b].batch[t].gen < nextGen'
    <3>1. \A t \in DOMAIN row' : row'[t].gen < nextGen'
      BY <1>0, <1>b, <1>k DEF LooksInv, p, D
    <3>2. ASSUME NEW b \in Actors, NEW t \in DOMAIN pass'[b].batch PROVE pass'[b].batch[t].gen < nextGen'
      <4>1. b # a
        BY <1>e, <1>f, <1>g, <3>2
      <4> QED
        BY <1>0, <1>g, <3>2, <4>1 DEF LooksInv
    <3> QED
      BY <3>1, <3>2
  <2>2. ASSUME NEW r \in CacheReaders, reader'[r].at # "idle"
        PROVE  /\ reader'[r].gen < nextGen'
               /\ (\A t \in DOMAIN row : Agrees(reader[r], t, row[t]))
               /\ \A b \in Actors : \A t \in DOMAIN pass[b].batch : Agrees(reader[r], t, pass[b].batch[t])
    BY <1>0, <2>2 DEF LooksInv
  <2>3. ASSUME NEW r \in CacheReaders, reader'[r].at # "idle"
        PROVE  /\ (\A t \in DOMAIN row' : Agrees(reader[r], t, row[t])')
               /\ \A b \in Actors : \A t \in DOMAIN pass'[b].batch : Agrees(reader[r], t, pass[b].batch[t])'
    <3>1. ASSUME NEW t \in DOMAIN row' PROVE Agrees(reader[r], t, row[t])'
      <4>1. CASE t \in DOMAIN row /\ row'[t] = row[t]
        BY <1>0, <1>k, <2>2, <2>3, <4>1 DEF Agrees
      <4>2. CASE t \in p.kept /\ row'[t] = p.batch[t]
        <5>1. t \in D
          BY <1>b, <4>2
        <5> QED
          BY <1>0, <2>2, <2>3, <4>2, <5>1 DEF Agrees, p, D
      <4> QED
        BY <1>k, <3>1, <4>1, <4>2
    <3>2. ASSUME NEW b \in Actors, NEW t \in DOMAIN pass'[b].batch PROVE Agrees(reader[r], t, pass[b].batch[t])'
      <4>1. b # a
        BY <1>e, <1>f, <1>g, <3>2
      <4> QED
        BY <1>0, <1>g, <2>2, <2>3, <3>2, <4>1 DEF Agrees
    <3> QED
      BY <3>1, <3>2
  <2>4. TwinsInv'
    <3>1. ASSUME NEW b \in Actors, NEW t \in DOMAIN pass'[b].batch
          PROVE  b # a /\ t \in DOMAIN pass[b].batch /\ pass'[b].batch[t] = pass[b].batch[t]
      BY <1>e, <1>f, <1>g, <3>1
    <3>2. ASSUME NEW b \in Actors, NEW t \in DOMAIN row' \cap DOMAIN pass'[b].batch
          PROVE  Twins(row[t], pass[b].batch[t])'
      <4>1. CASE t \in DOMAIN row /\ row'[t] = row[t]
        <5>1. Twins(row[t], pass[b].batch[t])
          BY <3>1, <3>2, <4>1 DEF LooksInv, TwinsInv
        <5> QED
          BY <3>1, <3>2, <4>1, <5>1 DEF Twins
      <4>2. CASE t \in p.kept /\ row'[t] = p.batch[t]
        <5>1. Twins(pass[a].batch[t], pass[b].batch[t])
          BY <1>b, <3>1, <3>2, <4>2 DEF LooksInv, TwinsInv, p, D
        <5> QED
          BY <3>1, <3>2, <4>2, <5>1 DEF Twins, p
      <4> QED
        BY <1>k, <3>2, <4>1, <4>2
    <3>3. ASSUME NEW b \in Actors, NEW c \in Actors, NEW t \in DOMAIN pass'[b].batch \cap DOMAIN pass'[c].batch
          PROVE  Twins(pass[b].batch[t], pass[c].batch[t])'
      BY <3>1, <3>3 DEF Twins, LooksInv, TwinsInv
    <3> QED
      BY <3>2, <3>3 DEF TwinsInv
  <2> QED
    BY <2>1, <2>2, <2>3, <2>4 DEF LooksInv
<1>8. SaidInv'
  <2>1. CASE ~p.all
    <3>1. Trimming'
      BY <1>d, <1>f, <1>g, <2>1 DEF Trimming
    <3> QED
      BY <3>1 DEF SaidInv
  <2>2. CASE p.all /\ p.kept # {}
    <3>1. failed'
      BY <1>0, <2>2
    <3> QED
      BY <3>1 DEF SaidInv
  <2>3. CASE p.all /\ p.kept = {}
    <3>1. a = Applier
      BY <2>3 DEF PassInv, p
    <3>2. Trimming' <=> Trimming
      BY <1>f, <1>g, <2>3 DEF Trimming, p
    <3>3. DOMAIN row' = DOMAIN row /\ \A t \in DOMAIN row : row'[t] = row[t]
      BY <1>k, <2>3
    <3>4. size' = size
      <4>1. RowBytes(back) = 0
        BY <1>c, <2>3, WeightNone DEF RowBytes
      <4> QED
        BY <1>0, <1>a, <4>1
    <3>5. Candidates(pass[Applier])' = Candidates(pass[Applier])
      <4>1. pass'[Applier].keep = pass[Applier].keep /\ pass'[Applier].cursor = pass[Applier].cursor
        BY <1>f, <1>g, <3>1 DEF p
      <4> QED
        BY <3>3, <4>1 DEF Candidates, Before, Mark
    <3>6. pass[Applier].at = "unlink" /\ pass'[Applier].at = "claim"
      BY <1>0, <1>d, <1>f, <1>g, <2>3, <3>1 DEF p
    <3>7. failed' = (failed \/ FALSE)
      BY <1>0, <2>3
    <3> QED
      BY <1>0, <1>k, <2>3, <3>2, <3>3, <3>4, <3>5, <3>6, <3>7 DEF SaidInv
  <2> QED
    BY <2>1, <2>2, <2>3
<1> QED
  BY <1>1, <1>2, <1>3, <1>4, <1>5, <1>6, <1>7, <1>8

-----------------------------------------------------------------------------
(***************************************************************************)
(* The thread of CHANGES.                                                  *)
(***************************************************************************)
LEMMA SetEnabledStep == ASSUME CacheInv, SetEnabled PROVE CacheInv'
<1> USE DEF CacheInv
<1>0. UNCHANGED <<incidents, row, file, nextGen, size, blocked, stranded, pending, doomed, wiping, cap, store, pass,
                  applier, owned, todo, failed, reader, reads, left, astray, unread, kills>> /\ enabled' = ~enabled
  BY DEF SetEnabled, disk, account, marks, loads, refused
<1>1. CacheTyped'
  BY <1>0 DEF CacheTyped, DiskOK, AccountOK, MarksOK, SettingOK, ActorsOK, ClearOK, LoadsOK
<1>2. OwnerInv' /\ PassInv' /\ FileInv' /\ StrayInv' /\ SizeIsSum' /\ LooksInv' /\ SaidInv'
  BY <1>0, OwnerStays, PassStays, FileKeeps, StraySame, LooksStay, SaidSame DEF SizeIsSum
<1> QED
  BY <1>1, <1>2

(* The applier takes a pass up, or lets one go: its files are nobody's news. *)
LEMMA ApplierTurns ==
    ASSUME CacheInv, NEW e \in Passes, pass' = [pass EXCEPT ![Applier] = e],
           pass[Applier].at # "unlink", e.batch = <<>>, e.unlinked = {}, e.kept = {},
           UNCHANGED <<incidents, row, file, nextGen, size, store, pending, doomed, reader, astray, unread>>
    PROVE  /\ pass' \in [Actors -> Passes] /\ pass'[Applier] = e /\ Applier \in Actors
           /\ (\A b \in Actors : b # Applier => pass'[b] = pass[b])
           /\ \A s \in Stores : s # Applier /\ s \in Actors
           /\ OwnerInv' /\ FileInv' /\ SizeIsSum' /\ LooksInv'
<1> USE DEF CacheInv
<1>1. pass \in [Actors -> Passes] /\ Applier \in Actors /\ \A s \in Stores : s # Applier /\ s \in Actors
  BY TrackCacheAssumption DEF CacheTyped, ActorsOK, Actors
<1>2. pass' \in [Actors -> Passes] /\ pass'[Applier] = e /\ \A b \in Actors : b # Applier => pass'[b] = pass[b]
  BY <1>1, PassPut
<1>3. \A b \in Actors : pass'[b].batch = pass[b].batch /\ pass'[b].unlinked = pass[b].unlinked /\ pass'[b].kept = pass[b].kept
  BY <1>1, <1>2 DEF PassInv
<1>4. OwnerInv' /\ FileInv' /\ SizeIsSum' /\ LooksInv'
  BY <1>3, OwnerStays, FileKeeps, LooksStay DEF SizeIsSum
<1> QED
  BY <1>1, <1>2, <1>4

LEMMA ResizeStep == ASSUME CacheInv, NEW c \in Caps, Resize(c) PROVE CacheInv'
<1> USE DEF CacheInv
<1> DEFINE e == Trim(NoTrack, 0)
<1>0. /\ applier = "idle" /\ applier' = "resize" /\ cap' = c /\ pass' = [pass EXCEPT ![Applier] = e]
      /\ UNCHANGED <<incidents, row, file, nextGen, size, blocked, stranded, pending, doomed, wiping, enabled, store,
                     owned, todo, failed, reader, reads, left, astray, unread, kills>>
  BY DEF Resize, NewChange, disk, account, marks, loads, refused
<1>a. e \in Passes /\ e.at = "claim" /\ ~e.all /\ e.batch = <<>> /\ e.unlinked = {} /\ e.kept = {}
  BY PassKinds
<1> HIDE DEF e
<1>b. pass[Applier].at = "none"
  BY <1>0 DEF PassInv
<1>c. /\ pass' \in [Actors -> Passes] /\ pass'[Applier] = e /\ Applier \in Actors
      /\ (\A b \in Actors : b # Applier => pass'[b] = pass[b])
      /\ \A s \in Stores : s # Applier /\ s \in Actors
      /\ OwnerInv' /\ FileInv' /\ SizeIsSum' /\ LooksInv'
  BY <1>0, <1>a, <1>b, ApplierTurns
<1>1. CacheTyped'
  BY <1>0, <1>c DEF CacheTyped, DiskOK, AccountOK, MarksOK, SettingOK, ActorsOK, ClearOK, LoadsOK
<1>2. PassInv'
  <2>1. ASSUME NEW b \in Actors
        PROVE  /\ pass'[b].at # "unlink" => pass'[b].batch = <<>> /\ pass'[b].unlinked = {} /\ pass'[b].kept = {}
               /\ pass'[b].kept \subseteq pass'[b].unlinked /\ pass'[b].unlinked \subseteq DOMAIN pass'[b].batch
               /\ pass'[b].kept # {} => Refuses'
               /\ pass'[b].all => b = Applier /\ pass'[b].at # "none"
    <3>1. CASE b = Applier
      BY <1>a, <1>c, <3>1
    <3>2. CASE b # Applier
      BY <1>0, <1>c, <3>2 DEF PassInv, Refuses
    <3> QED
      BY <3>1, <3>2
  <2> QED
    BY <1>0, <1>a, <1>c, <2>1 DEF PassInv, Gates
<1>3. StrayInv'
  BY <1>0 DEF StrayInv, Unowned, MovedIn
<1>4. SaidInv'
  BY <1>a, <1>c DEF SaidInv, Trimming
<1> QED
  BY <1>c, <1>1, <1>2, <1>3, <1>4

LEMMA BeginClearStep == ASSUME CacheInv, BeginClear PROVE CacheInv'
<1> USE DEF CacheInv
<1> DEFINE e == [NoPass EXCEPT !.at = "claim", !.all = TRUE]
<1>0. /\ applier = "idle" /\ applier' = "wipe" /\ wiping' = TRUE /\ failed' = FALSE
      /\ pass' = [pass EXCEPT ![Applier] = e]
      /\ UNCHANGED <<incidents, row, file, nextGen, size, blocked, stranded, pending, doomed, cap, enabled, store,
                     owned, todo, reader, reads, left, astray, unread, kills>>
  BY DEF BeginClear, NewChange, disk, account, setting, loads, refused
<1>a. /\ e \in Passes /\ e.at = "claim" /\ e.all /\ e.batch = <<>> /\ e.unlinked = {} /\ e.kept = {}
      /\ e.keep = NoTrack /\ e.cursor = <<0, 0>>
  <2>1. /\ e.at = "claim" /\ e.all /\ e.batch = NoPass.batch /\ e.unlinked = NoPass.unlinked /\ e.kept = NoPass.kept
        /\ e.keep = NoPass.keep /\ e.cursor = NoPass.cursor /\ NoPass.keep = NoTrack /\ NoPass.cursor = <<0, 0>>
    BY DEF NoPass
  <2>2. NoPass \in Passes /\ NoPass.batch = <<>> /\ NoPass.unlinked = {} /\ NoPass.kept = {}
    BY PassKinds
  <2>3. e \in Passes
    BY <2>2 DEF Passes
  <2> QED
    BY <2>1, <2>2, <2>3
<1> HIDE DEF e
<1>b. pass[Applier].at = "none"
  BY <1>0 DEF PassInv
<1>c. /\ pass' \in [Actors -> Passes] /\ pass'[Applier] = e /\ Applier \in Actors
      /\ (\A b \in Actors : b # Applier => pass'[b] = pass[b])
      /\ \A s \in Stores : s # Applier /\ s \in Actors
      /\ OwnerInv' /\ FileInv' /\ SizeIsSum' /\ LooksInv'
  BY <1>0, <1>a, <1>b, ApplierTurns
<1>1. CacheTyped'
  BY <1>0, <1>c DEF CacheTyped, DiskOK, AccountOK, MarksOK, SettingOK, ActorsOK, ClearOK, LoadsOK
<1>2. PassInv'
  <2>1. ASSUME NEW b \in Actors
        PROVE  /\ pass'[b].at # "unlink" => pass'[b].batch = <<>> /\ pass'[b].unlinked = {} /\ pass'[b].kept = {}
               /\ pass'[b].kept \subseteq pass'[b].unlinked /\ pass'[b].unlinked \subseteq DOMAIN pass'[b].batch
               /\ pass'[b].kept # {} => Refuses'
               /\ pass'[b].all => b = Applier /\ pass'[b].at # "none"
    <3>1. CASE b = Applier
      BY <1>a, <1>c, <3>1
    <3>2. CASE b # Applier
      BY <1>0, <1>c, <3>2 DEF PassInv, Refuses
    <3> QED
      BY <3>1, <3>2
  <2> QED
    BY <1>0, <1>a, <1>c, <2>1 DEF PassInv, Gates
<1>3. StrayInv'
  BY <1>0 DEF StrayInv, Unowned, MovedIn
<1>4. SaidInv'
  <2>1. \A t \in DOMAIN row : t \in Nat /\ t # 0 /\ row[t].stamp \in Nat
    BY PassIs, RowsAre, TrackCacheAssumption DEF CacheTyped, DiskOK
  <2>2. \A t \in DOMAIN row' : t # NoTrack /\ ~Before(t, <<0, 0>>)' /\ Mark(t)' # <<0, 0>>
    BY <1>0, <2>1 DEF Before, Mark, NoTrack
  <2>3. DOMAIN row' \subseteq Candidates(pass[Applier])'
    BY <1>a, <1>c, <2>2 DEF Candidates
  <2> QED
    BY <1>0, <1>a, <1>c, <2>3 DEF SaidInv
<1> QED
  BY <1>c, <1>1, <1>2, <1>3, <1>4

(* The Clear's pass is over: the sweep begins, or the Clear stops there.    *)
LEMMA WipeEnds ==
    ASSUME CacheInv, applier = "wipe", pass[Applier].at \in {"claim", "end"},
           pass' = [pass EXCEPT ![Applier] = NoPass], applier' \in {"sweep", "answer"},
           wiping' = (applier' = "sweep"), failed' \in BOOLEAN, owned' \subseteq Tracks, todo' \subseteq Tracks, left' \subseteq Tracks,
           UNCHANGED <<incidents, row, file, nextGen, size, blocked, stranded, pending, doomed, cap, enabled, store,
                       reader, reads, astray, unread, kills>>,
           failed => failed', ~failed' => pass[Applier].at = "end", StrayInv'
    PROVE  CacheInv'
<1> USE DEF CacheInv
<1>a. /\ NoPass \in Passes /\ NoPass.at = "none" /\ ~NoPass.all
      /\ NoPass.batch = <<>> /\ NoPass.unlinked = {} /\ NoPass.kept = {}
  BY PassKinds
<1>c. /\ pass' \in [Actors -> Passes] /\ pass'[Applier] = NoPass /\ Applier \in Actors
      /\ (\A b \in Actors : b # Applier => pass'[b] = pass[b])
      /\ \A s \in Stores : s # Applier /\ s \in Actors
      /\ OwnerInv' /\ FileInv' /\ SizeIsSum' /\ LooksInv'
  BY <1>a, ApplierTurns
<1>1. CacheTyped'
  BY <1>c DEF CacheTyped, DiskOK, AccountOK, MarksOK, SettingOK, ActorsOK, ClearOK, LoadsOK
<1>2. PassInv'
  <2>1. ASSUME NEW b \in Actors
        PROVE  /\ pass'[b].at # "unlink" => pass'[b].batch = <<>> /\ pass'[b].unlinked = {} /\ pass'[b].kept = {}
               /\ pass'[b].kept \subseteq pass'[b].unlinked /\ pass'[b].unlinked \subseteq DOMAIN pass'[b].batch
               /\ pass'[b].kept # {} => Refuses'
               /\ pass'[b].all => b = Applier /\ pass'[b].at # "none"
    <3>1. CASE b = Applier
      BY <1>a, <1>c, <3>1
    <3>2. CASE b # Applier
      BY <1>c, <3>2 DEF PassInv, Refuses
    <3> QED
      BY <3>1, <3>2
  <2> QED
    BY <1>a, <1>c, <2>1 DEF PassInv, Gates
<1>3. SaidInv'
  <2>1. Trimming <=> Trimming'
    <3>1. pass[Applier].all
      BY DEF PassInv
    <3> QED
      BY <1>a, <1>c, <3>1 DEF Trimming
  <2>2. SUFFICES ASSUME ~Trimming, ~failed', ~unread, size > cap PROVE blocked
    BY <2>1 DEF SaidInv
  <2> QED
    BY <2>2 DEF SaidInv
<1> QED
  BY <1>c, <1>1, <1>2, <1>3

LEMMA OwnedNamesStep == ASSUME CacheInv, OwnedNames PROVE CacheInv'
<1> USE DEF CacheInv
<1>0. /\ applier = "wipe" /\ pass[Applier].at = "end" /\ owned' = Owned /\ todo' = Tracks \ Owned /\ applier' = "sweep"
      /\ pass' = [pass EXCEPT ![Applier] = NoPass]
      /\ UNCHANGED <<incidents, row, file, nextGen, size, blocked, stranded, pending, doomed, wiping, cap, enabled, store,
                     failed, reader, reads, left, astray, unread, kills>>
  BY DEF OwnedNames, disk, account, marks, setting, loads, refused
<1>1. Owned \subseteq Tracks /\ Unowned \subseteq Tracks \ Owned /\ failed \in BOOLEAN /\ left \subseteq Tracks /\ wiping = TRUE
  <2>1. wiping \in BOOLEAN /\ (wiping <=> applier \in Gates)
    BY DEF CacheTyped, MarksOK, PassInv
  <2> QED
    BY <1>0, <2>1, RowsAre DEF Owned, Unowned, CacheTyped, DiskOK, MarksOK, ClearOK, Gates
<1>2. StrayInv'
  <2>1. Unowned' = Unowned
    BY <1>0 DEF Unowned
  <2> QED
    BY <1>0, <1>1, <2>1 DEF StrayInv, Owned
<1> QED
  BY <1>0, <1>1, <1>2, WipeEnds

LEMMA WipeFailsStep == ASSUME CacheInv, WipeFails PROVE CacheInv'
<1> USE DEF CacheInv
<1>0. /\ applier = "wipe" /\ pass[Applier].at \in {"claim", "end"} /\ wiping' = FALSE /\ failed' = TRUE
      /\ left' = left \cup Unowned /\ applier' = "answer"
      /\ pass' = [pass EXCEPT ![Applier] = NoPass]
      /\ UNCHANGED <<incidents, row, file, nextGen, size, blocked, stranded, pending, doomed, cap, enabled, store,
                     owned, todo, reader, reads, astray, unread, kills>>
  BY DEF WipeFails, disk, account, setting, loads, refused
<1>1. left' \subseteq Tracks /\ owned' \subseteq Tracks /\ todo' \subseteq Tracks
  BY <1>0 DEF Unowned, CacheTyped, ClearOK
<1>2. StrayInv'
  <2>1. Unowned' = Unowned
    BY <1>0 DEF Unowned
  <2> QED
    BY <1>0, <2>1 DEF StrayInv
<1>3. wiping' = (applier' = "sweep")
  BY <1>0
<1> QED
  BY <1>0, <1>1, <1>2, <1>3, WipeEnds

LEMMA SweepStep == ASSUME CacheInv, NEW t \in Tracks, Sweep(t) PROVE CacheInv'
<1> USE DEF CacheInv
<1>0. /\ applier = "sweep" /\ t \in todo /\ todo' = todo \ {t}
      /\ \/ Gone({t}) /\ failed' = failed /\ left' = left
         \/ failed' = TRUE /\ left' = left \cup {t} /\ file' = file
      /\ UNCHANGED <<incidents, row, nextGen, size, blocked, stranded, pending, doomed, wiping, cap, enabled, store, pass,
                     applier, owned, reader, reads, astray, unread, kills>>
  BY DEF Sweep, account, marks, setting, loads, refused
<1>a. file \in [Tracks -> Stores \cup {NoFile}] /\ DOMAIN row \subseteq Tracks
  BY RowsAre DEF CacheTyped, DiskOK
<1>b. /\ file' \in [Tracks -> Stores \cup {NoFile}] /\ file'[t] \in {file[t], NoFile}
      /\ \A u \in Tracks : u # t => file'[u] = file[u]
      /\ file'[t] = NoFile \/ (failed' /\ t \in left')
  BY <1>0, <1>a, GoneIs
<1>c. /\ t \in DOMAIN row \cup doomed => t \in astray
      /\ \A b \in Actors : (t \in DOMAIN pass[b].batch => t \in astray) /\ DOMAIN pass[b].batch \subseteq Tracks
  BY <1>0 DEF StrayInv, OwnerInv, CacheTyped, MarksOK
<1>d. left \subseteq left' /\ (failed => failed')
  BY <1>0
<1>1. CacheTyped'
  <2>1. failed' \in BOOLEAN /\ left' \subseteq Tracks /\ todo' \subseteq Tracks
    BY <1>0 DEF CacheTyped, ClearOK
  <2> QED
    BY <1>0, <1>b, <2>1 DEF CacheTyped, DiskOK, AccountOK, MarksOK, SettingOK, ActorsOK, ClearOK, LoadsOK
<1>2. OwnerInv'
  BY <1>0, OwnerStays
<1>3. PassInv'
  BY <1>0, PassStays
<1>4. FileInv'
  <2>1. "vanish" \notin incidents => \A u \in DOMAIN row \ astray : file'[u] = row[u].by
    BY <1>a, <1>b, <1>c DEF FileInv
  <2>2. ASSUME NEW b \in Actors, NEW u \in Tracks \ astray
        PROVE  /\ "vanish" \notin incidents /\ u \in DOMAIN pass[b].batch \ (pass[b].unlinked \ pass[b].kept)
                     => file'[u] = pass[b].batch[u].by
               /\ u \in pass[b].unlinked \ pass[b].kept => file'[u] = NoFile
    <3>1. u \in DOMAIN pass[b].batch \/ u \in pass[b].unlinked => u # t
      BY <1>c DEF PassInv
    <3> QED
      BY <1>b, <3>1 DEF FileInv
  <2>3. ASSUME NEW q \in Stores, store[q].at = "moved" PROVE file'[store[q].track] \in {q, NoFile}
    <3>1. file[store[q].track] \in {q, NoFile}
      BY <2>3 DEF FileInv
    <3>2. store[q].track \in Tracks
      BY <2>3 DEF OwnerInv, Moving, CacheTyped, MarksOK
    <3> QED
      BY <1>b, <3>1, <3>2
  <2> QED
    BY <1>0, <2>1, <2>2, <2>3 DEF FileInv
<1>5. StrayInv'
  <2>1. Unowned' \subseteq Unowned /\ (t \in Unowned' => t \in left' /\ failed')
    <3>1. \A u \in Tracks : file'[u] # NoFile => file[u] # NoFile
      BY <1>b
    <3> QED
      BY <1>0, <1>b, <3>1 DEF Unowned
  <2>2. \A u \in Unowned' \ astray : u \in left' \/ u \in todo'
    <3>1. \A u \in Unowned \ astray : u \in left \/ u \in todo
      BY <1>0 DEF StrayInv
    <3> QED
      BY <1>0, <1>d, <2>1, <3>1
  <2>3. todo' \cap (DOMAIN row' \cup doomed') \subseteq astray
    BY <1>0 DEF StrayInv
  <2>4. ~failed' /\ ~({"refuse", "index"} \subseteq incidents') => Unowned' \subseteq todo' \cup astray
    BY <1>0, <1>d, <2>1 DEF StrayInv
  <2> QED
    BY <1>0, <2>2, <2>3, <2>4 DEF StrayInv
<1>6. SizeIsSum'
  BY <1>0 DEF SizeIsSum
<1>7. LooksInv'
  <2>1. \A u \in Tracks : file[u] = NoFile => file'[u] = NoFile
    BY <1>b
  <2> QED
    BY <1>0, <1>a, <1>c, <2>1, LooksStay
<1>8. SaidInv'
  BY <1>0, <1>d, SaidSame
<1> QED
  BY <1>1, <1>2, <1>3, <1>4, <1>5, <1>6, <1>7, <1>8

LEMMA SweepEndsStep == ASSUME CacheInv, SweepEnds PROVE CacheInv'
<1> USE DEF CacheInv
<1>0. /\ applier = "sweep" /\ todo = {} /\ wiping' = FALSE /\ applier' = "answer"
      /\ UNCHANGED <<incidents, row, file, nextGen, size, blocked, stranded, pending, doomed, cap, enabled, store, pass,
                     owned, todo, failed, reader, reads, left, astray, unread, kills>>
  BY DEF SweepEnds, disk, account, setting, loads, refused
<1>1. CacheTyped'
  BY <1>0 DEF CacheTyped, DiskOK, AccountOK, MarksOK, SettingOK, ActorsOK, ClearOK, LoadsOK
<1>2. OwnerInv' /\ FileInv' /\ SizeIsSum' /\ LooksInv'
  BY <1>0, OwnerStays, FileKeeps, LooksStay DEF SizeIsSum
<1>3. PassInv'
  BY <1>0 DEF PassInv, Gates, Refuses
<1>4. StrayInv'
  <2>1. Unowned' = Unowned
    BY <1>0 DEF Unowned
  <2> QED
    BY <1>0, <2>1 DEF StrayInv
<1>5. SaidInv'
  BY <1>0 DEF SaidInv, Trimming
<1> QED
  BY <1>1, <1>2, <1>3, <1>4, <1>5

LEMMA AnswerClearStep == ASSUME CacheInv, AnswerClear PROVE CacheInv'
<1> USE DEF CacheInv
<1>0. /\ applier = "answer" /\ stranded' = (IF failed THEN stranded ELSE 0) /\ applier' = "idle"
      /\ UNCHANGED <<incidents, row, file, nextGen, size, blocked, pending, doomed, wiping, cap, enabled, store, pass,
                     owned, todo, failed, reader, reads, left, astray, unread, kills>>
  BY DEF AnswerClear, disk, marks, setting, loads, refused
<1>1. CacheTyped'
  <2>1. stranded' \in Nat
    BY <1>0 DEF CacheTyped, AccountOK
  <2> QED
    BY <1>0, <2>1 DEF CacheTyped, DiskOK, AccountOK, MarksOK, SettingOK, ActorsOK, ClearOK, LoadsOK
<1>2. OwnerInv' /\ FileInv' /\ SizeIsSum' /\ LooksInv'
  BY <1>0, OwnerStays, FileKeeps, LooksStay DEF SizeIsSum
<1>3. PassInv'
  BY <1>0 DEF PassInv, Gates, Refuses
<1>4. StrayInv'
  <2>1. Unowned' = Unowned /\ \A u : MovedIn(u) => MovedIn(u)'
    BY <1>0 DEF Unowned, MovedIn
  <2> QED
    BY <1>0, <2>1 DEF StrayInv
<1>5. SaidInv'
  BY <1>0 DEF SaidInv, Trimming
<1> QED
  BY <1>1, <1>2, <1>3, <1>4, <1>5

-----------------------------------------------------------------------------
(***************************************************************************)
(* A load: look up, read, judge.                                           *)
(***************************************************************************)
LEMMA OnlyLooks ==
    ASSUME CacheInv, reader' \in [CacheReaders -> Looks], LooksInv',
           UNCHANGED <<incidents, row, file, nextGen, size, blocked, stranded, pending, doomed, wiping, cap, enabled,
                       store, pass, applier, owned, todo, failed, left, astray, unread>>
    PROVE  CacheInv'
<1> USE DEF CacheInv
<1>1. CacheTyped'
  BY DEF CacheTyped, DiskOK, AccountOK, MarksOK, SettingOK, ActorsOK, ClearOK, LoadsOK
<1>2. OwnerInv' /\ PassInv' /\ FileInv' /\ StrayInv' /\ SizeIsSum' /\ SaidInv'
  BY OwnerStays, PassStays, FileKeeps, StraySame, SaidSame DEF SizeIsSum
<1> QED
  BY <1>1, <1>2

(* One reader's news, the rows and the batches as they were.                *)
LEMMA LooksNew ==
    ASSUME CacheInv, NEW r \in CacheReaders, \A q \in CacheReaders : q # r => reader'[q] = reader[q],
           UNCHANGED <<row, file, nextGen, pass, astray>>,
           reader'[r].at # "idle" =>
               /\ reader'[r].gen < nextGen
               /\ \A t \in DOMAIN row : Agrees(reader'[r], t, row[t])
               /\ \A a \in Actors : \A t \in DOMAIN pass[a].batch : Agrees(reader'[r], t, pass[a].batch[t])
    PROVE  LooksInv'
<1> USE DEF CacheInv
<1>1. ASSUME NEW q \in CacheReaders, reader'[q].at # "idle"
      PROVE  /\ reader'[q].gen < nextGen
             /\ \A t \in DOMAIN row : Agrees(reader'[q], t, row[t])
             /\ \A a \in Actors : \A t \in DOMAIN pass[a].batch : Agrees(reader'[q], t, pass[a].batch[t])
  <2>1. CASE q = r
    BY <1>1, <2>1
  <2>2. CASE q # r
    BY <1>1, <2>2 DEF LooksInv
  <2> QED
    BY <2>1, <2>2
<1>2. ASSUME NEW q \in CacheReaders, reader'[q].at # "idle"
      PROVE  /\ \A t \in DOMAIN row' : Agrees(reader[q], t, row[t])'
             /\ \A a \in Actors : \A t \in DOMAIN pass'[a].batch : Agrees(reader[q], t, pass[a].batch[t])'
  BY <1>1, <1>2 DEF Agrees
<1>3. TwinsInv'
  BY TwinsStay DEF LooksInv
<1> QED
  BY <1>1, <1>2, <1>3 DEF LooksInv

LEMMA LookUpStep == ASSUME CacheInv, NEW r \in CacheReaders, NEW t \in Tracks, LookUp(r, t) PROVE CacheInv'
<1> USE DEF CacheInv
<1> DEFINE e == [at |-> "seen", track |-> t, gen |-> row[t].gen, by |-> row[t].by]
<1>0. /\ t \in DOMAIN row /\ reader' = [reader EXCEPT ![r] = e]
      /\ UNCHANGED <<incidents, row, file, nextGen, size, blocked, stranded, pending, doomed, wiping, cap, enabled,
                     store, pass, applier, owned, todo, failed, left, astray, unread>>
  BY DEF LookUp, disk, account, marks, setting, clear, refused
<1>1. row \in Rows /\ reader \in [CacheReaders -> Looks]
  BY DEF CacheTyped, DiskOK, LoadsOK
<1>2. e \in Looks
  BY <1>0, <1>1, RowsAre DEF Looks
<1>3. reader' \in [CacheReaders -> Looks] /\ reader'[r] = e /\ \A q \in CacheReaders : q # r => reader'[q] = reader[q]
  <2> HIDE DEF e
  <2> QED
    BY <1>0, <1>1, <1>2, LookPut
<1>4. /\ e.gen < nextGen
      /\ \A u \in DOMAIN row : Agrees(e, u, row[u])
      /\ \A a \in Actors : \A u \in DOMAIN pass[a].batch : Agrees(e, u, pass[a].batch[u])
  <2>1. e.gen < nextGen
    BY <1>0 DEF LooksInv
  <2>2. \A u \in DOMAIN row : Agrees(e, u, row[u])
    BY <1>0 DEF Agrees
  <2>3. \A a \in Actors : t \in DOMAIN pass[a].batch => Twins(row[t], pass[a].batch[t])
    BY <1>0 DEF LooksInv, TwinsInv
  <2>4. \A a \in Actors : \A u \in DOMAIN pass[a].batch : Agrees(e, u, pass[a].batch[u])
    BY <2>3 DEF Agrees, Twins
  <2> QED
    BY <2>1, <2>2, <2>4
<1>5. LooksInv'
  <2> HIDE DEF e
  <2> QED
    BY <1>0, <1>3, <1>4, LooksNew
<1> QED
  BY <1>0, <1>3, <1>5, OnlyLooks

LEMMA LetsGo ==
    ASSUME CacheInv, NEW r \in CacheReaders, reader' = [reader EXCEPT ![r] = Unread],
           UNCHANGED <<incidents, row, file, nextGen, size, blocked, stranded, pending, doomed, wiping, cap, enabled,
                       store, pass, applier, owned, todo, failed, left, astray, unread>>
    PROVE  CacheInv'
<1> USE DEF CacheInv
<1>1. reader' \in [CacheReaders -> Looks] /\ reader'[r] = Unread /\ \A q \in CacheReaders : q # r => reader'[q] = reader[q]
  BY LookPut, UnreadIs DEF CacheTyped, LoadsOK
<1>2. LooksInv'
  BY <1>1, UnreadIs, LooksNew
<1> QED
  BY <1>1, <1>2, OnlyLooks

LEMMA ReadFileStep == ASSUME CacheInv, NEW r \in CacheReaders, ReadFile(r) PROVE CacheInv'
<1> USE DEF CacheInv
<1> DEFINE k == IF file[reader[r].track] = NoFile THEN "missing" ELSE "read"
<1>0. /\ reader[r].at = "seen"
      /\ reader' = [reader EXCEPT ![r].at = k] \/ reader' = [reader EXCEPT ![r] = Unread]
      /\ UNCHANGED <<incidents, row, file, nextGen, size, blocked, stranded, pending, doomed, wiping, cap, enabled,
                     store, pass, applier, owned, todo, failed, left, astray, unread>>
  BY DEF ReadFile, disk, account, marks, setting, clear, refused
<1>1. CASE reader' = [reader EXCEPT ![r] = Unread]
  BY <1>0, <1>1, LetsGo
<1>2. CASE reader' = [reader EXCEPT ![r].at = k]
  <2>1. reader \in [CacheReaders -> Looks]
    BY DEF CacheTyped, LoadsOK
  <2>2. /\ reader' \in [CacheReaders -> Looks] /\ reader'[r].at = k
        /\ reader'[r].track = reader[r].track /\ reader'[r].gen = reader[r].gen /\ reader'[r].by = reader[r].by
        /\ \A q \in CacheReaders : q # r => reader'[q] = reader[q]
    <3>1. k \in {"idle", "seen", "missing", "read", "playing"}
      OBVIOUS
    <3> HIDE DEF k
    <3> QED
      BY <1>2, <2>1, <3>1, LookAt
  <2>3. /\ reader[r].gen < nextGen
        /\ \A t \in DOMAIN row : Agrees(reader[r], t, row[t])
        /\ \A a \in Actors : \A t \in DOMAIN pass[a].batch : Agrees(reader[r], t, pass[a].batch[t])
    BY <1>0 DEF LooksInv
  <2>4. /\ \A t \in DOMAIN row : Agrees(reader'[r], t, row[t])
        /\ \A a \in Actors : \A t \in DOMAIN pass[a].batch : Agrees(reader'[r], t, pass[a].batch[t])
    BY <2>2, <2>3 DEF Agrees
  <2>5. LooksInv'
    BY <1>0, <2>2, <2>3, <2>4, LooksNew
  <2> QED
    BY <1>0, <2>2, <2>5, OnlyLooks
<1> QED
  BY <1>0, <1>1, <1>2

LEMMA PlayedOutStep == ASSUME CacheInv, NEW r \in CacheReaders, PlayedOut(r) PROVE CacheInv'
BY LetsGo DEF PlayedOut, disk, account, marks, setting, clear, refused

(* A row is taken out, of a track whose file is gone by then.               *)
LEMMA RowTaken ==
    ASSUME CacheInv, NEW r \in CacheReaders, NEW t \in DOMAIN row, RemoveRow(t), reader' = [reader EXCEPT ![r] = Unread],
           astray \subseteq astray', astray' \subseteq astray \cup {t},
           \/ file' = file /\ (t \notin astray => file[t] = NoFile)
           \/ Gone({t}) /\ (t \in DOMAIN row' => t \in astray'),
           UNCHANGED <<incidents, nextGen, blocked, stranded, pending, doomed, wiping, cap, enabled,
                       store, pass, applier, owned, todo, failed, left>>
    PROVE  CacheInv'
<1> USE DEF CacheInv
<1>a. row \in Rows /\ file \in [Tracks -> Stores \cup {NoFile}] /\ DOMAIN row \subseteq Tracks /\ t \in Tracks
  BY RowsAre DEF CacheTyped, DiskOK
<1>b. /\ row' \in Rows /\ DOMAIN row' \subseteq DOMAIN row /\ DOMAIN row \subseteq DOMAIN row' \cup {t}
      /\ \A u \in DOMAIN row' : row'[u] = row[u] /\ row'[u].stamp >= row[u].stamp
      /\ SizeIsSum' /\ size' \in Nat /\ size' =< size /\ unread' \in BOOLEAN /\ (unread => unread')
  BY RowGoes
<1>d. /\ file' \in [Tracks -> Stores \cup {NoFile}] /\ (\A u \in Tracks : u # t => file'[u] = file[u])
      /\ file'[t] \in {file[t], NoFile}
      /\ file'[t] # NoFile => t \in astray
      /\ t \notin astray' => file'[t] = NoFile /\ (file'[t] = file[t] \/ t \notin DOMAIN row')
  BY <1>a, GoneIs
<1>e. reader' \in [CacheReaders -> Looks] /\ reader'[r].at = "idle" /\ \A q \in CacheReaders : q # r => reader'[q] = reader[q]
  BY LookPut, UnreadIs DEF CacheTyped, LoadsOK
<1>f. /\ t \in doomed => t \in astray
      /\ \A b \in Actors : (t \in DOMAIN pass[b].batch => t \in astray) /\ DOMAIN pass[b].batch \subseteq Tracks
  BY <1>a DEF OwnerInv, CacheTyped, MarksOK
<1>1. CacheTyped'
  <2>1. astray' \subseteq Tracks
    BY <1>a DEF CacheTyped
  <2> QED
    BY <1>b, <1>d, <1>e, <2>1 DEF CacheTyped, DiskOK, AccountOK, MarksOK, SettingOK, ActorsOK, ClearOK, LoadsOK
<1>2. OwnerInv'
  BY <1>b, OwnerStays
<1>3. PassInv'
  BY PassStays
<1>4. FileInv'
  <2>1. ASSUME "vanish" \notin incidents, NEW u \in DOMAIN row' \ astray' PROVE file'[u] = row'[u].by
    <3>1. u \in DOMAIN row \ astray /\ row'[u] = row[u] /\ u \in Tracks
      BY <1>a, <1>b, <2>1
    <3>2. file[u] = row[u].by
      BY <2>1, <3>1 DEF FileInv
    <3>3. file'[u] = file[u]
      BY <1>d, <2>1, <3>1
    <3> QED
      BY <3>1, <3>2, <3>3
  <2>2. ASSUME NEW b \in Actors, NEW u \in Tracks \ astray'
        PROVE  /\ "vanish" \notin incidents /\ u \in DOMAIN pass[b].batch \ (pass[b].unlinked \ pass[b].kept)
                     => file'[u] = pass[b].batch[u].by
               /\ u \in pass[b].unlinked \ pass[b].kept => file'[u] = NoFile
    <3>1. u \in DOMAIN pass[b].batch \/ u \in pass[b].unlinked => u # t
      BY <1>f, <2>2 DEF PassInv
    <3> QED
      BY <1>d, <2>2, <3>1 DEF FileInv
  <2>3. ASSUME NEW q \in Stores, store[q].at = "moved" PROVE file'[store[q].track] \in {q, NoFile}
    <3>1. file[store[q].track] \in {q, NoFile}
      BY <2>3 DEF FileInv
    <3>2. store[q].track \in Tracks
      BY <2>3 DEF OwnerInv, Moving, CacheTyped, MarksOK
    <3>3. CASE store[q].track = t
      BY <1>d, <3>1, <3>3
    <3>4. CASE store[q].track # t
      BY <1>d, <3>1, <3>2, <3>4
    <3> QED
      BY <3>3, <3>4
  <2> QED
    BY <2>1, <2>2, <2>3 DEF FileInv
<1>5. StrayInv'
  <2>1. Unowned' \ astray' \subseteq Unowned
    <3>1. \A u \in Tracks \ astray' : file'[u] # NoFile => u # t /\ file[u] # NoFile
      BY <1>d
    <3> QED
      BY <1>b, <3>1 DEF Unowned
  <2>2. DOMAIN row' \cup doomed' \subseteq DOMAIN row \cup doomed
    BY <1>b
  <2>3. \A u : MovedIn(u) => MovedIn(u)'
    BY DEF MovedIn
  <2> QED
    BY <2>1, <2>2, <2>3, StrayStays
<1>6. SizeIsSum'
  BY <1>b
<1>7. LooksInv'
  <2>1. \A u \in Tracks : file[u] = NoFile => file'[u] = NoFile
    BY <1>a, <1>d
  <2>2. \A u \in DOMAIN row' : u \in DOMAIN row /\ row'[u].gen = row[u].gen /\ row'[u].by = row[u].by
    BY <1>b
  <2> QED
    BY <1>a, <1>e, <1>f, <2>1, <2>2, LooksLeft
<1>8. SaidInv'
  BY <1>b, SaidStays
<1> QED
  BY <1>1, <1>2, <1>3, <1>4, <1>5, <1>6, <1>7, <1>8

LEMMA RemoveOrphanStep == ASSUME CacheInv, NEW r \in CacheReaders, RemoveOrphan(r) PROVE CacheInv'
<1> DEFINE t == reader[r].track
<1>0. /\ reader[r].at = "missing" /\ reader' = [reader EXCEPT ![r] = Unread]
      /\ UNCHANGED <<incidents, file, nextGen, blocked, stranded, pending, doomed, wiping, cap, enabled,
                     store, pass, applier, owned, todo, failed, left, astray>>
      /\ IF IsSeen(r) THEN RemoveRow(t) ELSE UNCHANGED <<row, size, unread>>
  BY DEF RemoveOrphan, marks, setting, clear
<1>1. CASE IsSeen(r)
  <2>1. t \in DOMAIN row /\ row[t].gen = reader[r].gen
    BY <1>1 DEF IsSeen
  <2>2. t \notin astray => file[t] = NoFile
    BY <1>0, <2>1 DEF CacheInv, LooksInv, Agrees
  <2> HIDE DEF t
  <2> QED
    BY <1>0, <1>1, <2>1, <2>2, RowTaken
<1>2. CASE ~IsSeen(r)
  BY <1>0, <1>2, LetsGo
<1> QED
  BY <1>1, <1>2

LEMMA DropSeenStep == ASSUME CacheInv, NEW r \in CacheReaders, DropSeen(r) PROVE CacheInv'
<1> DEFINE t == reader[r].track
<1>0. /\ reader' = [reader EXCEPT ![r] = Unread]
      /\ UNCHANGED <<incidents, nextGen, blocked, stranded, pending, doomed, wiping, cap, enabled,
                     store, pass, applier, owned, todo, failed, left>>
      /\ \/ UNCHANGED <<row, size, file, astray, unread>>
         \/ IsSeen(r) /\ DropEntry(t)
  BY DEF DropSeen, marks, setting, clear, refused
<1>1. CASE UNCHANGED <<row, size, file, astray, unread>>
  BY <1>0, <1>1, LetsGo
<1>2. CASE IsSeen(r) /\ DropEntry(t)
  <2>1. t \in DOMAIN row
    BY <1>2 DEF IsSeen
  <2> HIDE DEF t
  <2>3. /\ Gone({t}) /\ RemoveRow(t) /\ astray \subseteq astray' /\ astray' \subseteq astray \cup {t}
        /\ t \in DOMAIN row' => t \in astray'
    BY <1>2 DEF DropEntry
  <2> QED
    BY <1>0, <2>1, <2>3, RowTaken
<1> QED
  BY <1>0, <1>1, <1>2

LEMMA TouchStep == ASSUME CacheInv, NEW r \in CacheReaders, Touch(r) PROVE CacheInv'
<1> USE DEF CacheInv
<1> DEFINE t == reader[r].track
<1>0. /\ reader[r].at = "read" /\ reader' = [reader EXCEPT ![r].at = "playing"]
      /\ UNCHANGED <<incidents, file, nextGen, size, blocked, stranded, pending, doomed, wiping, cap, enabled,
                     store, pass, applier, owned, todo, failed, left, astray>>
  BY DEF Touch, account, marks, setting, clear
<1>a. /\ row \in Rows /\ size \in Nat /\ reader \in [CacheReaders -> Looks]
      /\ \A u \in DOMAIN row : row[u] \in Row /\ row[u].stamp \in Nat /\ row[u].stamp < LastStamp + 1
      /\ LastStamp \in Nat /\ unread \in BOOLEAN /\ DOMAIN row \subseteq Tracks /\ IsFiniteSet(DOMAIN row) /\ row \in [DOMAIN row -> Row]
  BY RowsAre, StampIsNewer DEF CacheTyped, DiskOK, AccountOK, LoadsOK
<1>b. /\ DOMAIN row' = DOMAIN row /\ unread' \in BOOLEAN /\ (unread => unread')
      /\ \A u \in DOMAIN row : /\ row'[u] \in Row /\ row'[u].gen = row[u].gen /\ row'[u].bytes = row[u].bytes
                               /\ row'[u].by = row[u].by /\ (unread' \/ row'[u].stamp >= row[u].stamp)
      /\ row' \in [DOMAIN row -> Row]
  <2> HIDE DEF t
  <2>1. ASSUME NEW last \in Looked(LastStamp), t \in DOMAIN row, row' = [row EXCEPT ![t].stamp = last + 1],
               unread' = (unread \/ last # LastStamp)
        PROVE  /\ DOMAIN row' = DOMAIN row /\ unread' \in BOOLEAN /\ (unread => unread')
               /\ \A u \in DOMAIN row : /\ row'[u] \in Row /\ row'[u].gen = row[u].gen /\ row'[u].bytes = row[u].bytes
                                        /\ row'[u].by = row[u].by /\ (unread' \/ row'[u].stamp >= row[u].stamp)
               /\ row' \in [DOMAIN row -> Row]
    <3> DEFINE w == [row[t] EXCEPT !.stamp = last + 1]
    <3>0. last \in Nat
      BY <1>a, AnswersAre
    <3>1. w \in Row /\ w.gen = row[t].gen /\ w.bytes = row[t].bytes /\ w.by = row[t].by /\ w.stamp = last + 1
      BY <1>a, <2>1, <3>0 DEF Row
    <3>2. row' = [row EXCEPT ![t] = w]
      BY <2>1
    <3> HIDE DEF w
    <3>3. DOMAIN row' = DOMAIN row /\ row'[t] = w /\ (\A u \in DOMAIN row : u # t => row'[u] = row[u]) /\ row' \in [DOMAIN row -> Row]
      BY <1>a, <2>1, <3>1, <3>2
    <3>4. unread' \in BOOLEAN /\ (unread => unread') /\ (~unread' => last = LastStamp)
      BY <1>a, <2>1
    <3>5. ~unread' => w.stamp >= row[t].stamp
      BY <1>a, <2>1, <3>0, <3>1, <3>4
    <3> QED
      BY <1>a, <2>1, <3>1, <3>3, <3>4, <3>5
  <2>2. CASE row' = row /\ unread' \in BOOLEAN /\ (unread => unread')
    BY <1>a, <2>2
  <2>3. CASE UNCHANGED <<row, unread>>
    BY <1>a, <2>2, <2>3
  <2>4. ASSUME NEW last \in Looked(LastStamp), t \notin DOMAIN row, row' = row, unread' = (unread \/ last # LastStamp)
        PROVE  row' = row /\ unread' \in BOOLEAN /\ (unread => unread')
    BY <1>a, <2>4
  <2> QED
    BY <2>1, <2>2, <2>3, <2>4 DEF Touch, t
<1>c. row' \in Rows
  BY <1>a, <1>b, RowsFit
<1>d. /\ reader' \in [CacheReaders -> Looks] /\ reader'[r].at = "playing"
      /\ reader'[r].track = reader[r].track /\ reader'[r].gen = reader[r].gen /\ reader'[r].by = reader[r].by
      /\ \A q \in CacheReaders : q # r => reader'[q] = reader[q]
  BY <1>0, <1>a, LookAt
<1> HIDE DEF t
<1>1. CacheTyped'
  BY <1>0, <1>b, <1>c, <1>d DEF CacheTyped, DiskOK, AccountOK, MarksOK, SettingOK, ActorsOK, ClearOK, LoadsOK
<1>2. OwnerInv'
  BY <1>0, <1>b, OwnerStays
<1>3. PassInv'
  BY <1>0, PassStays
<1>4. FileInv'
  BY <1>0, <1>b, FileStays
<1>5. StrayInv'
  <2>1. Unowned' = Unowned /\ \A u : MovedIn(u) => MovedIn(u)'
    BY <1>0, <1>b DEF Unowned, MovedIn
  <2> QED
    BY <1>0, <1>b, <2>1, StrayStays
<1>6. SizeIsSum'
  <2>1. RowBytes(row') = RowBytes(row)
    BY <1>a, <1>b, WeightSame DEF RowBytes
  <2> QED
    BY <1>0, <1>b, <2>1 DEF SizeIsSum
<1>7. LooksInv'
  <2>1. (\A u \in DOMAIN row' : row'[u].gen < nextGen')
        /\ \A b \in Actors : \A u \in DOMAIN pass'[b].batch : pass'[b].batch[u].gen < nextGen'
    BY <1>0, <1>b DEF LooksInv
  <2>2. ASSUME NEW q \in CacheReaders, reader'[q].at # "idle"
        PROVE  /\ reader[q].at # "idle" /\ reader'[q].track = reader[q].track /\ reader'[q].gen = reader[q].gen
               /\ reader'[q].by = reader[q].by /\ (reader'[q].at = "missing" => reader[q].at = "missing")
    BY <1>0, <1>d, <2>2
  <2>3. ASSUME NEW q \in CacheReaders, reader'[q].at # "idle"
        PROVE  /\ reader'[q].gen < nextGen'
               /\ (\A u \in DOMAIN row : Agrees(reader[q], u, row[u]))
               /\ \A b \in Actors : \A u \in DOMAIN pass[b].batch : Agrees(reader[q], u, pass[b].batch[u])
    BY <1>0, <2>2, <2>3 DEF LooksInv
  <2>4. ASSUME NEW q \in CacheReaders, reader'[q].at # "idle"
        PROVE  /\ (\A u \in DOMAIN row' : Agrees(reader[q], u, row[u])')
               /\ \A b \in Actors : \A u \in DOMAIN pass'[b].batch : Agrees(reader[q], u, pass[b].batch[u])'
    BY <1>0, <1>b, <2>2, <2>3, <2>4 DEF Agrees
  <2>5. TwinsInv'
    BY <1>0, <1>b, TwinsStay DEF LooksInv
  <2> QED
    BY <2>1, <2>3, <2>4, <2>5 DEF LooksInv
<1>8. SaidInv'
  <2>1. CASE unread'
    BY <2>1 DEF SaidInv
  <2>2. CASE ~unread'
    BY <1>0, <1>a, <1>b, <1>c, <2>2, SaidStays
  <2> QED
    BY <2>1, <2>2
<1> QED
  BY <1>1, <1>2, <1>3, <1>4, <1>5, <1>6, <1>7, <1>8

-----------------------------------------------------------------------------
(***************************************************************************)
(* The folder and the process; every step; what follows.                   *)
(***************************************************************************)
LEMMA VanishStep == ASSUME CacheInv, NEW t \in Tracks, Vanish(t) PROVE CacheInv'
<1> USE DEF CacheInv
<1>0. /\ "vanish" \in incidents /\ Gone({t})
      /\ UNCHANGED <<incidents, row, nextGen, size, blocked, stranded, pending, doomed, wiping, cap, enabled, store, pass,
                     applier, owned, todo, failed, reader, reads, left, astray, unread, kills>>
  BY DEF Vanish, account, marks, setting, clear, loads, refused
<1>a. row \in Rows /\ file \in [Tracks -> Stores \cup {NoFile}] /\ DOMAIN row \subseteq Tracks
  BY RowsAre DEF CacheTyped, DiskOK
<1>b. /\ file' \in [Tracks -> Stores \cup {NoFile}]
      /\ \A u \in Tracks : file'[u] = file[u] \/ file'[u] = NoFile
  BY <1>0, <1>a, GoneIs
<1>1. CacheTyped'
  BY <1>0, <1>b DEF CacheTyped, DiskOK, AccountOK, MarksOK, SettingOK, ActorsOK, ClearOK, LoadsOK
<1>2. OwnerInv'
  BY <1>0, OwnerStays
<1>3. PassInv'
  BY <1>0, PassStays
<1>4. FileInv'
  <2>1. ASSUME NEW b \in Actors, NEW u \in Tracks \ astray, u \in pass[b].unlinked \ pass[b].kept PROVE file'[u] = NoFile
    <3>1. file[u] = NoFile
      BY <2>1 DEF FileInv
    <3> QED
      BY <1>b, <3>1
  <2>2. ASSUME NEW q \in Stores, store[q].at = "moved" PROVE file'[store[q].track] \in {q, NoFile}
    <3>1. file[store[q].track] \in {q, NoFile} /\ store[q].track \in Tracks
      BY <2>2 DEF FileInv, OwnerInv, Moving, CacheTyped, MarksOK
    <3> QED
      BY <1>b, <3>1
  <2> QED
    BY <1>0, <2>1, <2>2 DEF FileInv
<1>5. StrayInv'
  <2>1. Unowned' \subseteq Unowned
    BY <1>0, <1>b DEF Unowned
  <2>2. \A u : MovedIn(u) => MovedIn(u)'
    BY <1>0 DEF MovedIn
  <2> QED
    BY <1>0, <2>1, <2>2, StrayStays
<1>6. SizeIsSum'
  BY <1>0 DEF SizeIsSum
<1>7. LooksInv'
  <2>1. \A u \in Tracks : file[u] = NoFile => file'[u] = NoFile
    BY <1>b
  <2>2. \A b \in Actors : DOMAIN pass[b].batch \subseteq Tracks
    BY DEF OwnerInv, CacheTyped, MarksOK
  <2> QED
    BY <1>0, <1>a, <2>1, <2>2, LooksStay
<1>8. SaidInv'
  BY <1>0, SaidSame
<1> QED
  BY <1>1, <1>2, <1>3, <1>4, <1>5, <1>6, <1>7, <1>8

LEMMA RelaunchStep == ASSUME CacheInv, NEW c \in Caps, NEW on \in BOOLEAN, Relaunch(c, on) PROVE CacheInv'
<1> USE DEF CacheInv
<1> DEFINE e == Trim(NoTrack, 0)
<1>0. /\ nextGen' = 1 + Max({0} \cup {row[t].gen : t \in DOMAIN row})
      /\ size' \in Looked(RowBytes(row)) /\ unread' = (size' # RowBytes(row)) /\ blocked' = FALSE /\ stranded' = 0
      /\ pending' = {} /\ doomed' = {} /\ wiping' = FALSE /\ cap' = c /\ enabled' = on
      /\ store' = [s \in Stores |-> IF store[s].at = "new" THEN store[s] ELSE [store[s] EXCEPT !.at = "done"]]
      /\ pass' = [a \in Actors |-> IF a = Opener THEN e ELSE NoPass]
      /\ applier' = "idle" /\ owned' = {} /\ todo' = {} /\ failed' = FALSE
      /\ reader' = [r \in CacheReaders |-> Unread]
      /\ incidents' = incidents /\ row' = row
      /\ astray' = {t \in astray \cap DOMAIN row : file[t] # row[t].by}
  BY DEF Relaunch
<1>a. PICK kept \in SUBSET ({t \in Tracks : file[t] # NoFile} \ DOMAIN row) :
         /\ file' = [t \in Tracks |-> IF t \in DOMAIN row \cup kept THEN file[t] ELSE NoFile]
         /\ left' = kept
  BY DEF Relaunch
<1>b. row \in Rows /\ file \in [Tracks -> Stores \cup {NoFile}] /\ DOMAIN row \subseteq Tracks /\ store \in [Stores -> Entries]
  BY RowsAre DEF CacheTyped, DiskOK, ActorsOK
<1>c. nextGen' \in Nat /\ \A t \in DOMAIN row : row[t].gen < nextGen'
  BY <1>0, <1>b, GenIsNewer
<1>d. /\ NoPass \in Passes /\ NoPass.at = "none" /\ ~NoPass.all /\ NoPass.batch = <<>> /\ NoPass.unlinked = {} /\ NoPass.kept = {}
      /\ e \in Passes /\ e.at = "claim" /\ ~e.all /\ e.batch = <<>> /\ e.unlinked = {} /\ e.kept = {}
  BY PassKinds
<1> HIDE DEF e
<1>e. /\ pass' \in [Actors -> Passes] /\ Opener \in Actors /\ Applier \in Actors /\ pass'[Opener] = e /\ pass'[Applier] = NoPass
      /\ (\A s \in Stores : s \in Actors /\ pass'[s] = NoPass) /\ \A a \in Actors : pass'[a] \in {NoPass, e}
  BY <1>0, <1>d, TrackCacheAssumption DEF Actors
<1>f. \A a \in Actors : /\ pass'[a].at # "unlink" /\ pass'[a].batch = <<>> /\ pass'[a].unlinked = {} /\ pass'[a].kept = {}
                        /\ ~pass'[a].all
  BY <1>d, <1>e
<1>g. store' \in [Stores -> Entries] /\ \A s \in Stores : store'[s].at \in {"new", "done"}
  BY <1>0, <1>b DEF Entries
<1>h. file' \in [Tracks -> Stores \cup {NoFile}] /\ (\A t \in DOMAIN row : file'[t] = file[t])
      /\ \A t \in Tracks : file'[t] # NoFile => t \in DOMAIN row \cup kept
  BY <1>a, <1>b
<1>i. DOMAIN <<>> = {}
  BY NoRows
<1>1. CacheTyped'
  <2>1. size' \in Nat
    BY <1>0, <1>b, RowBytesNat, AnswersAre
  <2>2. reader' \in [CacheReaders -> Looks]
    BY <1>0, UnreadIs
  <2> QED
    BY <1>0, <1>a, <1>b, <1>c, <1>e, <1>g, <1>h, <2>1, <2>2
    DEF CacheTyped, DiskOK, AccountOK, MarksOK, SettingOK, ActorsOK, ClearOK, LoadsOK
<1>2. OwnerInv'
  BY <1>0, <1>f, <1>g, <1>i DEF OwnerInv, Moving
<1>3. PassInv'
  <2>1. \A a \in Actors :
          /\ pass'[a].at # "unlink" => pass'[a].batch = <<>> /\ pass'[a].unlinked = {} /\ pass'[a].kept = {}
          /\ pass'[a].kept \subseteq pass'[a].unlinked /\ pass'[a].unlinked \subseteq DOMAIN pass'[a].batch
          /\ pass'[a].kept # {} => Refuses'
          /\ pass'[a].all => a = Applier /\ pass'[a].at # "none"
    BY <1>f
  <2> QED
    BY <1>0, <1>d, <1>e, <2>1 DEF PassInv, Gates
<1>4. FileInv'
  <2>1. "vanish" \notin incidents => \A t \in DOMAIN row \ astray' : file'[t] = row[t].by
    BY <1>0, <1>h DEF FileInv
  <2> QED
    BY <1>0, <1>f, <1>g, <1>i, <2>1 DEF FileInv
<1>5. StrayInv'
  <2>1. Unowned' \subseteq left'
    BY <1>0, <1>a, <1>h DEF Unowned
  <2> QED
    BY <1>0, <2>1 DEF StrayInv
<1>6. SizeIsSum'
  BY <1>0 DEF SizeIsSum
<1>7. LooksInv'
  <2>1. \A r \in CacheReaders : reader'[r].at = "idle"
    BY <1>0, UnreadIs
  <2> QED
    BY <1>0, <1>c, <1>f, <1>i, <2>1 DEF LooksInv, TwinsInv
<1>8. SaidInv'
  BY <1>d, <1>e DEF SaidInv, Trimming
<1> QED
  BY <1>1, <1>2, <1>3, <1>4, <1>5, <1>6, <1>7, <1>8

LEMMA CacheBegins == CacheInit => CacheInv
<1> SUFFICES ASSUME CacheInit PROVE CacheInv
  OBVIOUS
<1>0. /\ incidents \in Launches /\ row = <<>> /\ file = [t \in Tracks |-> NoFile] /\ nextGen = 1
      /\ size = 0 /\ blocked = FALSE /\ stranded = 0 /\ pending = {} /\ doomed = {} /\ wiping = FALSE
      /\ cap \in Caps /\ enabled = TRUE
      /\ store = [s \in Stores |-> [at |-> "new", track |-> NoTrack, bytes |-> 0]]
      /\ pass = [a \in Actors |-> NoPass]
      /\ applier = "idle" /\ owned = {} /\ todo = {} /\ failed = FALSE
      /\ reader = [r \in CacheReaders |-> Unread] /\ left = {} /\ astray = {} /\ unread = FALSE
  BY DEF CacheInit
<1>a. /\ NoPass \in Passes /\ NoPass.at = "none" /\ ~NoPass.all /\ NoPass.batch = <<>> /\ NoPass.unlinked = {} /\ NoPass.kept = {}
  BY PassKinds
<1>b. row \in Rows /\ DOMAIN row = {} /\ RowBytes(row) = 0 /\ DOMAIN <<>> = {}
  BY <1>0, NoRows
<1>c. \A a \in Actors : pass[a] = NoPass
  BY <1>0
<1>d. store \in [Stores -> Entries] /\ \A s \in Stores : store[s].at = "new"
  BY <1>0 DEF Entries, NoTrack
<1>e. \A r \in CacheReaders : reader[r].at = "idle"
  BY <1>0, UnreadIs
<1>f. Unowned = {}
  BY <1>0 DEF Unowned
<1>g. Applier \in Actors
  BY DEF Actors
<1>1. CacheTyped
  <2>1. pass \in [Actors -> Passes] /\ reader \in [CacheReaders -> Looks] /\ file \in [Tracks -> Stores \cup {NoFile}]
    BY <1>0, <1>a, UnreadIs
  <2> QED
    BY <1>0, <1>b, <1>d, <2>1 DEF CacheTyped, DiskOK, AccountOK, MarksOK, SettingOK, ActorsOK, ClearOK, LoadsOK
<1>2. OwnerInv
  BY <1>0, <1>a, <1>b, <1>c, <1>d DEF OwnerInv, Moving
<1>3. PassInv
  <2>1. \A a \in Actors :
          /\ pass[a].at # "unlink" => pass[a].batch = <<>> /\ pass[a].unlinked = {} /\ pass[a].kept = {}
          /\ pass[a].kept \subseteq pass[a].unlinked /\ pass[a].unlinked \subseteq DOMAIN pass[a].batch
          /\ pass[a].kept # {} => Refuses
          /\ pass[a].all => a = Applier /\ pass[a].at # "none"
    BY <1>a, <1>c
  <2>2. \A s \in Stores : pass[s].at = "none"
    BY <1>a, <1>c DEF Actors
  <2> QED
    BY <1>0, <1>a, <1>c, <1>g, <2>1, <2>2 DEF PassInv, Gates
<1>4. FileInv
  BY <1>a, <1>b, <1>c, <1>d DEF FileInv
<1>5. StrayInv
  BY <1>0, <1>f DEF StrayInv
<1>6. SizeIsSum
  BY <1>0, <1>b DEF SizeIsSum
<1>7. LooksInv
  BY <1>a, <1>b, <1>c, <1>e DEF LooksInv, TwinsInv
<1>8. SaidInv
  <2>1. cap \in Nat
    BY <1>0, TrackCacheAssumption
  <2> QED
    BY <1>0, <2>1 DEF SaidInv
<1> QED
  BY <1>1, <1>2, <1>3, <1>4, <1>5, <1>6, <1>7, <1>8 DEF CacheInv

LEMMA CacheStays == CacheInv /\ [CacheNext]_cacheVars => CacheInv'
<1> SUFFICES ASSUME CacheInv, [CacheNext]_cacheVars PROVE CacheInv'
  OBVIOUS
<1>1. ASSUME NEW s \in Stores, StoreStep(s) \/ \E t \in Tracks, n \in Sizes : Reserve(s, t, n) PROVE CacheInv'
  BY <1>1, ReserveStep, MoveInStep, MoveFailsStep, CommitRowStep DEF StoreStep
<1>2. ASSUME NEW a \in Actors, PassStep(a) PROVE CacheInv'
  BY <1>2, ClaimNothingStep, ClaimStep, SettleUnlinksStep, FinishPassStep, UnlinkStep DEF PassStep
<1>3. ASSUME ClearStep \/ BeginClear \/ SetEnabled PROVE CacheInv'
  BY <1>3, OwnedNamesStep, WipeFailsStep, SweepStep, SweepEndsStep, AnswerClearStep, BeginClearStep, SetEnabledStep
  DEF ClearStep
<1>4. ASSUME NEW r \in CacheReaders, LoadStep(r) \/ \E t \in Tracks : LookUp(r, t) PROVE CacheInv'
  BY <1>4, ReadFileStep, RemoveOrphanStep, TouchStep, DropSeenStep, PlayedOutStep, LookUpStep DEF LoadStep
<1>5. CASE UNCHANGED cacheVars
  <2> USE DEF CacheInv
  <2>0. UNCHANGED <<incidents, row, file, nextGen, size, blocked, stranded, pending, doomed, wiping, cap, enabled, store,
                    pass, applier, owned, todo, failed, reader, reads, left, astray, unread, kills>>
    BY <1>5 DEF cacheVars, disk, account, marks, setting, clear, loads, refused
  <2>1. reader' \in [CacheReaders -> Looks] /\ LooksInv'
    BY <2>0, LooksStay DEF CacheTyped, LoadsOK
  <2> QED
    BY <2>0, <2>1, OnlyLooks
<1> QED
  BY <1>1, <1>2, <1>3, <1>4, <1>5, ResizeStep, VanishStep, RelaunchStep DEF CacheNext

LEMMA CacheHolds == CacheSpec => []CacheInv
<1> QED
  BY CacheBegins, CacheStays, PTL DEF CacheSpec

(* Every value has its type, an id being moved in stays pending and a batch *)
(* stays doomed (cache.rs: CacheState, the eviction passes).                *)
THEOREM CacheTypeCorrect == CacheSpec => []CacheTypeOK
<1>1. CacheInv => CacheTypeOK
  <2> SUFFICES ASSUME CacheInv PROVE CacheTypeOK
    OBVIOUS
  <2>1. DOMAIN row \subseteq Tracks /\ \A t \in DOMAIN row : row[t] \in Row
    BY RowsAre DEF CacheInv, CacheTyped, DiskOK
  <2>2. \A s \in Stores : /\ store[s].at \in {"new", "reserved", "moved", "done"}
                          /\ store[s].at \in {"reserved", "moved"} => store[s].track \in pending /\ store[s].bytes \in Sizes
    <3>1. \A s \in Stores : store[s] \in Entries
      BY DEF CacheInv, CacheTyped, ActorsOK
    <3> QED
      BY <3>1 DEF Entries, CacheInv, OwnerInv, Moving
  <2>3. \A a \in Actors : /\ pass[a].at \in {"none", "claim", "unlink", "end"}
                          /\ DOMAIN pass[a].batch \subseteq doomed \cup astray
                          /\ pass[a].kept \subseteq pass[a].unlinked
                          /\ pass[a].unlinked \subseteq DOMAIN pass[a].batch
    <3>1. \A a \in Actors : pass[a] \in Passes
      BY DEF CacheInv, CacheTyped, ActorsOK
    <3> QED
      BY <3>1 DEF Passes, CacheInv, OwnerInv, PassInv
  <2> QED
    BY <2>1, <2>2, <2>3
    DEF CacheTypeOK, CacheInv, CacheTyped, DiskOK, AccountOK, MarksOK, SettingOK, ClearOK
<1> QED
  BY <1>1, CacheHolds, PTL

(* The index is true: one owner of a path, a row for its own file only, no  *)
(* file but somebody's, a size that is the sum of the rows whatever passes  *)
(* run at once, and a page told when the cap is not kept (cache.rs:         *)
(* store_ciphertext, run_eviction, clear, open).                            *)
THEOREM IndexCorrect == CacheSpec => []IndexIsTrue
<1>1. CacheInv => IndexIsTrue
  <2> SUFFICES ASSUME CacheInv PROVE IndexIsTrue
    OBVIOUS
  <2> USE DEF CacheInv
  <2>1. OneOwner
    BY DEF OneOwner, OwnerInv, Moving
  <2>2. RowHasItsFile
    BY DEF RowHasItsFile, FileInv
  <2>3. NoStrayFile
    <3> SUFFICES ASSUME NEW t \in Unowned \ (pending \cup left \cup astray) PROVE wiping /\ (applier = "wipe" \/ t \in todo)
      BY DEF NoStrayFile
    <3>1. MovedIn(t) => t \in pending
      BY DEF MovedIn, OwnerInv, Moving
    <3>2. applier = "wipe" \/ (applier = "sweep" /\ t \in todo)
      BY <3>1 DEF StrayInv
    <3> QED
      BY <3>2 DEF PassInv, Gates
  <2>4. SaidWhenOver
    BY DEF SaidWhenOver, Quiet, SaidInv, Trimming
  <2> QED
    BY <2>1, <2>2, <2>3, <2>4 DEF IndexIsTrue, RowsAreFiles, SizeIsKnown
<1> QED
  BY <1>1, CacheHolds, PTL

LEMMA KillsStay == kills \in Nat /\ [CacheNext]_cacheVars => kills' \in Nat
<1> SUFFICES ASSUME kills \in Nat, [CacheNext]_cacheVars PROVE kills' \in Nat
  OBVIOUS
<1>1. ASSUME NEW s \in Stores, StoreStep(s) \/ \E t \in Tracks, n \in Sizes : Reserve(s, t, n) PROVE kills' = kills
  BY <1>1 DEF StoreStep, Reserve, MoveIn, MoveFails, CommitRow
<1>2. ASSUME NEW a \in Actors, PassStep(a) PROVE kills' = kills
  BY <1>2 DEF PassStep, ClaimNothing, Claim, SettleUnlinks, FinishPass, PassFails, Unlink
<1>3. ASSUME ClearStep \/ BeginClear \/ SetEnabled PROVE kills' = kills
  BY <1>3 DEF ClearStep, OwnedNames, WipeFails, Sweep, SweepEnds, AnswerClear, BeginClear, SetEnabled
<1>4. ASSUME NEW r \in CacheReaders, LoadStep(r) \/ \E t \in Tracks : LookUp(r, t) PROVE kills' = kills
  BY <1>4 DEF LoadStep, ReadFile, RemoveOrphan, Touch, DropSeen, PlayedOut, LookUp
<1>5. ASSUME (\E c \in Caps : Resize(c)) \/ (\E t \in Tracks : Vanish(t)) PROVE kills' = kills
  BY <1>5 DEF Resize, Vanish
<1>6. ASSUME NEW c \in Caps, NEW on \in BOOLEAN, Relaunch(c, on) PROVE kills' \in Nat
  BY <1>6 DEF Relaunch
<1>7. CASE UNCHANGED cacheVars
  BY <1>7 DEF cacheVars
<1> QED
  BY <1>1, <1>2, <1>3, <1>4, <1>5, <1>6, <1>7 DEF CacheNext

(* What makes a load let go of what it read: its own verdict, or a kill.    *)
LEMMA Verdicts ==
    ASSUME CacheInv, kills \in Nat, CacheNext, NEW r \in CacheReaders, reader[r].at \in {"missing", "read", "playing"},
           reader'[r].at = "idle", kills' = kills
    PROVE  RemoveOrphan(r) \/ DropSeen(r) \/ PlayedOut(r)
<1>0. reader \in [CacheReaders -> Looks] /\ kills' # kills + 1 /\ reader' # reader
  BY DEF CacheInv, CacheTyped, LoadsOK
<1>1. ASSUME NEW s \in Stores, StoreStep(s) \/ \E t \in Tracks, n \in Sizes : Reserve(s, t, n) PROVE FALSE
  BY <1>0, <1>1 DEF StoreStep, Reserve, MoveIn, MoveFails, CommitRow, loads
<1>2. ASSUME NEW a \in Actors, PassStep(a) PROVE FALSE
  BY <1>0, <1>2 DEF PassStep, ClaimNothing, Claim, SettleUnlinks, FinishPass, PassFails, Unlink, loads
<1>3. ASSUME ClearStep \/ BeginClear \/ SetEnabled PROVE FALSE
  BY <1>0, <1>3 DEF ClearStep, OwnedNames, WipeFails, Sweep, SweepEnds, AnswerClear, BeginClear, SetEnabled, loads
<1>4. ASSUME NEW q \in CacheReaders, LoadStep(q) \/ \E t \in Tracks : LookUp(q, t)
      PROVE  RemoveOrphan(r) \/ DropSeen(r) \/ PlayedOut(r)
  <2>1. q = r
    <3>1. q # r => reader'[r] = reader[r]
      BY <1>0, <1>4 DEF LoadStep, ReadFile, RemoveOrphan, Touch, DropSeen, PlayedOut, LookUp
    <3> QED
      BY <3>1
  <2>2. ~ReadFile(r) /\ \A t \in Tracks : ~LookUp(r, t)
    BY DEF ReadFile, LookUp
  <2>3. ~Touch(r)
    BY <1>0 DEF Touch, Looks
  <2> QED
    BY <1>4, <2>1, <2>2, <2>3 DEF LoadStep
<1>5. ASSUME (\E c \in Caps : Resize(c)) \/ (\E t \in Tracks : Vanish(t)) PROVE FALSE
  BY <1>0, <1>5 DEF Resize, Vanish, loads
<1>6. ASSUME NEW c \in Caps, NEW on \in BOOLEAN, Relaunch(c, on) PROVE FALSE
  BY <1>0, <1>6 DEF Relaunch
<1> QED
  BY <1>1, <1>2, <1>3, <1>4, <1>5, <1>6 DEF CacheNext

(* A removal takes what it was asked to take: a Clear answered as done      *)
(* leaves only files a pass owns or put back, and a load's verdict takes    *)
(* the row that load looked up, never a later store's (cache.rs: clear,     *)
(* remove_orphan, drop_seen).                                               *)
THEOREM RemovesCorrect == CacheSpec => RemovesWhatItMeant
<1> DEFINE I == CacheInv /\ kills \in Nat
<1>1. CacheInit => I
  BY CacheBegins DEF CacheInit
<1>2. I /\ [CacheNext]_cacheVars => I'
  BY CacheStays, KillsStay
<1>3. I /\ [CacheNext]_cacheVars =>
        [applier = "answer" /\ applier' = "idle" /\ ~failed /\ kills' = kills
           /\ ~({"refuse", "index"} \subseteq incidents)
         => \A t \in Tracks \ astray : file[t] # NoFile => t \in DOMAIN row \cup doomed]_cacheVars
  BY DEF CacheInv, StrayInv, Unowned
<1>4. I /\ [CacheNext]_cacheVars =>
        [\A r \in CacheReaders : reader[r].at \in {"missing", "read", "playing"} /\ reader'[r].at = "idle"
           /\ kills' = kills
         => \A t \in DOMAIN row \ DOMAIN row' : t = reader[r].track /\ row[t].by = reader[r].by]_cacheVars
  <2> SUFFICES ASSUME I, CacheNext, NEW r \in CacheReaders, reader[r].at \in {"missing", "read", "playing"},
                      reader'[r].at = "idle", kills' = kills, NEW t \in DOMAIN row \ DOMAIN row'
               PROVE  t = reader[r].track /\ row[t].by = reader[r].by
    OBVIOUS
  <2>1. RemoveOrphan(r) \/ DropSeen(r) \/ PlayedOut(r)
    BY Verdicts
  <2>2. IsSeen(r) /\ row' = Without(row, {reader[r].track})
    <3>1. RemoveOrphan(r) \/ DropSeen(r)
      BY <2>1 DEF PlayedOut, disk
    <3>2. IsSeen(r) /\ RemoveRow(reader[r].track)
      BY <3>1 DEF RemoveOrphan, DropSeen, DropEntry
    <3> QED
      BY <3>2 DEF RemoveRow
  <2>3. t = reader[r].track
    BY <2>2 DEF Without
  <2>4. Agrees(reader[r], t, row[t])
    BY DEF CacheInv, LooksInv
  <2> QED
    BY <2>2, <2>3, <2>4 DEF IsSeen, Agrees
<1> QED
  BY <1>1, <1>2, <1>3, <1>4, PTL DEF CacheSpec, RemovesWhatItMeant, ClearLeavesNothing, VerdictSparesNewer
=============================================================================
