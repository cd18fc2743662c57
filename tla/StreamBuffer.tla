---------------------------- MODULE StreamBuffer ----------------------------
(***************************************************************************)
(* The buffer a track streams through (src/src/player/buffer.rs) and the   *)
(* task that fills it (src/src/audio/preload.rs, download_stream).         *)
(*                                                                         *)
(* Decoders read and seek; a read the buffer cannot serve waits, or posts  *)
(* a restart target and waits.  The task appends what the server sends,    *)
(* reconnects a connection that breaks, and restarts its request where a   *)
(* reader asked.  Every step is one critical section of the buffer's lock, *)
(* or one await of the task: a reader that arms a restart lets the lock go *)
(* before it waits.                                                        *)
(*                                                                         *)
(* A chunk is one byte and a byte is named by its position in the file.    *)
(* The head waits, the governor's rates, the decryption and the two pools  *)
(* of connections are left out; the server and what replaces the current   *)
(* track are external.                                                     *)
(***************************************************************************)
EXTENDS Naturals, Sequences

CONSTANTS MaxReaders,     \* bound: decoders that read the buffer one after the other
          Total,          \* total_len
          Lookahead,      \* SEEK_LOOKAHEAD
          StallCycles,    \* STALL_CYCLES
          MaxReconnects,  \* MAX_RECONNECTS
          None,
          Sessions        \* what a session may meet, each a set of Meets

(* Connections that break, bodies that end under their announced length,   *)
(* statuses and bytes that are unusable, a server that ignores Range, a    *)
(* task whose track was replaced, buffers and downloads cancelled,         *)
(* decoders respawned, ciphertexts no staging file could be opened for.    *)
Meets == {"error", "short", "status", "ignored", "stale", "cancel", "respawn",
          "unstaged"}

Causes == {"network", "source"}  \* DownloadFailure

ASSUME StreamBufferAssumption ==
    /\ MaxReaders \in Nat \ {0}
    /\ Total \in Nat \ {0}
    /\ Lookahead \in Nat
    /\ StallCycles \in Nat \ {0}
    /\ MaxReconnects \in Nat
    /\ \A n \in 0 .. Total : None # n
    /\ None \notin Causes
    /\ Sessions \subseteq SUBSET Meets

Readers   == 1 .. MaxReaders
Positions == 0 .. Total
Bytes     == 0 .. (Total - 1)
File      == [i \in 1 .. Total |-> i - 1]
Failures  == Causes \cup {"stopped", "starved"}
Byte(b)   == <<"byte", b>>
Word(w)   == <<w, 0>>
Answers   == {Byte(b) : b \in Bytes} \cup {Word(w) : w \in Failures \cup {"none", "end"}}

(* Where a reader is: in no read, about to look under the lock, between    *)
(* the restart it posted and its wait, waiting.                            *)
ReaderSteps == {"idle", "looking", "armed", "parked"}

(* Where the task is.  At the steps of Awaits its future may be dropped.   *)
Awaits == {"streaming", "pacing", "backoff", "reconnecting", "debounce",
           "requesting", "parking", "waiting"}
TaskSteps == Awaits \cup
    {"writing", "broken", "taking", "partial", "ignored", "ended",
     "finishing", "closing", "failing", "done"}

VARIABLES
    session,   \* rigid: what this session meets
    base, data, finished, cancelled, error, target, ciphertext,  \* Inner
    stop,      \* DownloadHandle.cancel was cancelled
    at,        \* the task's step
    aim,       \* the restart target the task holds
    origin,    \* stream_offset
    offset,    \* offset: where the task believes the next byte belongs
    body,      \* the byte the server sends next
    sink,      \* cipher_sink
    attempts,  \* reconnect_attempts
    cause,     \* the failure the task is about to report
    step, cursor, starved, answer,  \* each reader's read
    live,      \* the reader not retired; those before it are
    cached,    \* what the disk cache was handed
    cut        \* history: the stream ended before the file did

inner   == <<base, data, finished, cancelled, error, target, ciphertext>>
stream  == <<aim, origin, offset, body, sink, attempts, cause>>
task    == <<at, stream>>
readers == <<step, cursor, starved, answer, live>>
vars == <<session, inner, stop, task, readers, cached, cut>>

---------------------------------------------------------------------------
(* Inner and the readers' wait. *)

End == base + Len(data)

(* Faulty: a stream that ended is taken for the file. *)
IsFinished == finished /\ error = None /\ base = 0

(* Inner::is_whole. *)
IsWhole == finished /\ error = None /\ base = 0 /\ Len(data) >= Total

(* notify_all: who waits looks again. *)
Woken == [r \in Readers |-> IF step[r] = "parked" THEN "looking" ELSE step[r]]
Wake  == step' = Woken /\ UNCHANGED <<cursor, starved, answer, live>>

Finish ==
    /\ finished' = TRUE
    /\ Wake

(* reset_for_range. *)
Reset(from) ==
    /\ base' = from
    /\ data' = <<>>
    /\ finished' = FALSE
    /\ error' = None
    /\ Wake

(* The restart or the cancel a select of the task would see first: one     *)
(* that was also notified.                                                 *)
Signalled ==
    \/ cancelled
    \/ target # None /\ \A r \in Readers : step[r] # "armed"

---------------------------------------------------------------------------
(* The decoders. *)

Reads(r) == r = live /\ step[r] = "idle" /\ answer[r][1] \in {"none", "byte", "end"}

(* A read begins. *)
Ask(r) ==
    /\ Reads(r)
    /\ step' = [step EXCEPT ![r] = "looking"]
    /\ starved' = [starved EXCEPT ![r] = 0]
    /\ answer' = [answer EXCEPT ![r] = Word("none")]
    /\ UNCHANGED <<session, inner, stop, task, cursor, live, cached, cut>>

(* Seek moves the cursor and nothing else, within the announced length. *)
SeekTo(r, p) ==
    /\ Reads(r)
    /\ p # cursor[r]
    /\ cursor' = [cursor EXCEPT ![r] = p]
    /\ answer' = [answer EXCEPT ![r] = Word("none")]
    /\ UNCHANGED <<session, inner, stop, task, step, starved, live, cached, cut>>

(* A device switch retires the reader, wakes it and clones the buffer for  *)
(* the next decoder, which starts at zero.                                 *)
Respawn ==
    /\ "respawn" \in session /\ live < MaxReaders
    /\ live' = live + 1
    /\ step' = Woken
    /\ UNCHANGED <<session, inner, stop, task, cursor, starved, answer, cached, cut>>

(* Faulty: a finished stream ends every read it holds no byte for. *)
AtAnyEnd(r) == finished

(* One pass of the loop of read, under the lock. *)
Stopped(r)  == cancelled \/ r # live
Held(r)     == base <= cursor[r] /\ cursor[r] < End
AtEnd(r)    == finished /\ cursor[r] >= End
TooFar(r)   == cursor[r] < base \/ cursor[r] > End + Lookahead

Told(r, a) ==
    /\ step' = [step EXCEPT ![r] = "idle"]
    /\ answer' = [answer EXCEPT ![r] = a]
    /\ starved' = [starved EXCEPT ![r] = 0]
    /\ UNCHANGED <<session, inner, stop, task, live, cached, cut>>

ReadStops(r) ==
    /\ step[r] = "looking" /\ Stopped(r)
    /\ Told(r, Word("stopped"))
    /\ UNCHANGED cursor

ReadFails(r) ==
    /\ step[r] = "looking" /\ ~Stopped(r) /\ error # None
    /\ Told(r, Word(error))
    /\ UNCHANGED cursor

ReadServes(r) ==
    /\ step[r] = "looking" /\ ~Stopped(r) /\ error = None /\ Held(r)
    /\ Told(r, Byte(data[cursor[r] - base + 1]))
    /\ cursor' = [cursor EXCEPT ![r] = cursor[r] + 1]

ReadEnds(r) ==
    /\ step[r] = "looking" /\ ~Stopped(r) /\ error = None /\ ~Held(r) /\ AtEnd(r)
    /\ Told(r, Word("end"))
    /\ UNCHANGED cursor

(* No byte and no end: a finished stream is reopened, a restart is posted  *)
(* unless this one already is, and the reader waits.  A posted restart     *)
(* lets the lock go before the wait.                                       *)
ReadWaits(r) ==
    /\ step[r] = "looking" /\ ~Stopped(r) /\ error = None /\ ~Held(r) /\ ~AtEnd(r)
    /\ finished' = FALSE
    /\ \/ /\ TooFar(r) /\ target # cursor[r]
          /\ target' = cursor[r]
          /\ step' = [step EXCEPT ![r] = "armed"]
       \/ /\ ~TooFar(r) \/ target = cursor[r]
          /\ step' = [step EXCEPT ![r] = "parked"]
          /\ UNCHANGED target
    /\ UNCHANGED <<session, base, data, cancelled, error, ciphertext, stop, task,
                   cursor, starved, answer, live, cached, cut>>

(* The lock is taken again for the wait, whatever was notified meanwhile. *)
Park(r) ==
    /\ step[r] = "armed"
    /\ step' = [step EXCEPT ![r] = "parked"]
    /\ UNCHANGED <<session, inner, stop, task, cursor, starved, answer, live,
                   cached, cut>>

(* Faulty: the cycles are not counted. *)
TimesOutUncounted(r) ==
    /\ step[r] = "parked"
    /\ step' = [step EXCEPT ![r] = "looking"]
    /\ UNCHANGED <<session, inner, stop, task, cursor, starved, answer, live,
                   cached, cut>>

(* Five seconds without a word; the last cycle gives the read up. *)
TimesOut(r) ==
    /\ step[r] = "parked"
    /\ \/ /\ starved[r] + 1 < StallCycles
          /\ starved' = [starved EXCEPT ![r] = starved[r] + 1]
          /\ step' = [step EXCEPT ![r] = "looking"]
          /\ UNCHANGED <<session, inner, stop, task, answer, live, cached, cut>>
       \/ /\ starved[r] + 1 >= StallCycles
          /\ Told(r, Word("starved"))
    /\ UNCHANGED cursor

---------------------------------------------------------------------------
(* The task. *)

NoStream ==
    /\ aim' = None /\ origin' = 0 /\ offset' = 0 /\ body' = 0
    /\ sink' = None /\ attempts' = 0 /\ cause' = None

(* The task returns and its writer is dropped. *)
Return ==
    /\ at' = "done"
    /\ NoStream
    /\ IF finished THEN UNCHANGED <<cancelled, readers>>
       ELSE cancelled' = TRUE /\ Wake
    /\ UNCHANGED <<session, base, data, finished, error, ciphertext, stop,
                   cached, cut>>

(* start_download races the token against the task. *)
TaskDropped ==
    /\ stop /\ at \in Awaits
    /\ Return
    /\ UNCHANGED target

(* wait_for_restart_or_cancel wins a select, or a restart is found pending. *)
Interrupted ==
    \/ /\ cancelled
       /\ at \in {"streaming", "pacing", "backoff", "reconnecting", "requesting",
                 "waiting", "broken"}
       /\ Return
       /\ UNCHANGED target
    \/ /\ target # None
       /\ \/ at \in {"broken", "ended"}
          \/ /\ ~cancelled
             /\ at \in {"streaming", "pacing", "backoff", "reconnecting",
                       "requesting", "waiting"}
       /\ at' = "taking"
       /\ NoStream
       /\ UNCHANGED <<session, inner, stop, readers, cached, cut>>

TakeTarget ==
    /\ at = "taking"
    /\ at' = "debounce"
    /\ aim' = target
    /\ target' = None
    /\ UNCHANGED <<session, base, data, finished, cancelled, error, ciphertext, stop,
                   origin, offset, body, sink, attempts, cause, readers, cached, cut>>

(* A newer target replaces the one in hand; a task whose track is no       *)
(* longer the current one has no url to ask with.                          *)
Debounce ==
    /\ at = "debounce"
    /\ target' = None
    /\ \/ /\ ~cancelled
          /\ at' = "requesting"
          /\ aim' = IF target # None THEN target ELSE aim
          /\ UNCHANGED <<session, base, data, finished, cancelled, error, ciphertext,
                         stop, origin, offset, body, sink, attempts, cause, readers,
                         cached, cut>>
       \/ /\ cancelled \/ "stale" \in session
          /\ Return

Goes(s) ==
    /\ at' = s
    /\ UNCHANGED <<session, inner, stop, readers, cached>>

Fails(why) ==
    /\ Goes("failing")
    /\ cause' = why
    /\ UNCHANGED <<aim, origin, offset, body, sink, attempts, cut>>

(* The answer to a range request. *)
RangeAnswered ==
    /\ at = "requesting" /\ ~Signalled
    /\ \/ "error" \in session /\ Fails("network")
       \/ "status" \in session /\ Fails("source")
       \/ /\ "ignored" \in session
          /\ Goes("ignored") /\ UNCHANGED <<stream, cut>>
       \/ /\ aim < Total
          /\ Goes("partial") /\ UNCHANGED <<stream, cut>>
       \/ /\ aim >= Total
          /\ Goes("closing")
          /\ cut' = (cut \/ End # Total)
          /\ UNCHANGED stream

(* Only a stream from zero is staged. *)
Opened(from) ==
    IF from # 0 THEN {None}
    ELSE {<<>>} \cup (IF "unstaged" \in session THEN {None} ELSE {})

StreamFrom(from) ==
    /\ at' = "streaming"
    /\ Reset(from)
    /\ aim' = None
    /\ origin' = from /\ offset' = from /\ body' = from
    /\ sink' \in Opened(from)
    /\ UNCHANGED <<session, cancelled, target, ciphertext, stop, attempts, cause,
                   cached, cut>>

(* 206, and a 200 that starts again at zero whatever was asked. *)
Restart ==
    \/ at = "partial" /\ StreamFrom(aim)
    \/ at = "ignored" /\ StreamFrom(0)

(* The stream yields a chunk, its end, or an error. *)
StreamYields ==
    /\ at = "streaming" /\ ~Signalled
    /\ \/ /\ body < Total
          /\ Goes("pacing") /\ UNCHANGED <<stream, cut>>
       \/ /\ body = Total \/ "short" \in session
          /\ Goes("ended")
          /\ cut' = (cut \/ body < Total)
          /\ UNCHANGED stream
       \/ /\ "error" \in session
          /\ Goes("broken") /\ UNCHANGED <<stream, cut>>

(* The governor lets the chunk through. *)
Paced ==
    /\ at = "pacing" /\ ~Signalled
    /\ Goes("writing")
    /\ UNCHANGED <<stream, cut>>

(* write_counted discards the chunk while a restart is pending, and the    *)
(* ciphertext of a discarded chunk ends the staging.                       *)
Write ==
    /\ at = "writing"
    /\ at' = "streaming"
    /\ offset' = offset + 1 /\ body' = body + 1
    /\ attempts' = 0
    /\ IF target = None
       THEN /\ data' = Append(data, body)
            /\ sink' = IF sink = None THEN None ELSE Append(sink, body)
            /\ Wake
       ELSE sink' = None /\ UNCHANGED <<data, readers>>
    /\ UNCHANGED <<session, base, finished, cancelled, error, target, ciphertext,
                   stop, aim, origin, cause, cached, cut>>

(* A chunk that does not decrypt. *)
Undecrypted ==
    /\ at = "writing" /\ "status" \in session
    /\ Fails("source")

(* Faulty: one reconnect too many. *)
ReconnectMore ==
    /\ at = "broken" /\ target = None
    /\ \/ /\ attempts > MaxReconnects
          /\ Fails("network")
       \/ /\ attempts <= MaxReconnects
          /\ Goes("backoff")
          /\ attempts' = attempts + 1
          /\ UNCHANGED <<aim, origin, offset, body, sink, cause, cut>>

(* The head of the reconnect loop. *)
Reconnect ==
    /\ at = "broken" /\ target = None
    /\ \/ /\ attempts + 1 > MaxReconnects
          /\ Fails("network")
       \/ /\ attempts + 1 <= MaxReconnects
          /\ Goes("backoff")
          /\ attempts' = attempts + 1
          /\ UNCHANGED <<aim, origin, offset, body, sink, cause, cut>>

BackedOff ==
    /\ at = "backoff" /\ ~Signalled
    /\ \/ Goes("reconnecting") /\ UNCHANGED <<stream, cut>>
       \/ "stale" \in session /\ Return /\ UNCHANGED target

(* The answer to a reconnect: the stream goes on where it broke, or, past  *)
(* the end, the download is over.                                          *)
Reconnected ==
    /\ at = "reconnecting" /\ ~Signalled
    /\ \/ /\ "error" \in session
          /\ Goes("broken") /\ UNCHANGED <<stream, cut>>
       \/ {"status", "ignored"} \cap session # {} /\ Fails("source")
       \/ /\ offset < Total
          /\ Goes("streaming")
          /\ body' = offset
          /\ UNCHANGED <<aim, origin, offset, sink, attempts, cause, cut>>
       \/ /\ offset >= Total
          /\ Goes(IF origin = 0 THEN "parking" ELSE "closing")
          /\ UNCHANGED <<stream, cut>>

(* A clean end with no restart pending. *)
StreamEnded ==
    /\ at = "ended" /\ target = None
    /\ Goes(IF origin = 0 THEN "parking" ELSE "finishing")
    /\ UNCHANGED <<stream, cut>>

(* park_ciphertext flushes the tail and parks the file, then the stream is *)
(* finished and the task returns.                                          *)
ParkAndFinish ==
    /\ at = "parking"
    /\ at' = "done" /\ NoStream
    /\ Finish
    /\ \/ ciphertext' = IF sink \in {None, <<>>} THEN ciphertext ELSE sink
       \/ "unstaged" \in session /\ UNCHANGED ciphertext
    /\ UNCHANGED <<session, base, data, cancelled, error, target, stop, cached, cut>>

(* A range stream that ends keeps its task for a seek before its base;     *)
(* a 416 ends the task.                                                    *)
FinishRange ==
    /\ \/ at = "finishing" /\ at' = "waiting"
       \/ at = "closing" /\ at' = "done"
    /\ NoStream
    /\ Finish
    /\ UNCHANGED <<session, base, data, cancelled, error, target, ciphertext, stop,
                   cached, cut>>

FinishWithError ==
    /\ at = "failing"
    /\ at' = "done" /\ NoStream
    /\ error' = cause
    /\ Finish
    /\ UNCHANGED <<session, base, data, cancelled, target, ciphertext, stop, cached,
                   cut>>

---------------------------------------------------------------------------
(* Who holds the buffer. *)

Cancel ==
    /\ "cancel" \in session /\ ~cancelled
    /\ cancelled' = TRUE
    /\ stop' = TRUE
    /\ Wake
    /\ UNCHANGED <<session, base, data, finished, error, target, ciphertext, task,
                   cached, cut>>

CancelDownload ==
    /\ "cancel" \in session /\ ~stop
    /\ stop' = TRUE
    /\ UNCHANGED <<session, inner, task, readers, cached, cut>>

(* store_finished_ciphertext and retire_attempt, through take_ciphertext. *)
StoreCiphertext ==
    /\ IsWhole /\ ciphertext # None
    /\ cached' = ciphertext
    /\ ciphertext' = None
    /\ UNCHANGED <<session, base, data, finished, cancelled, error, target, stop,
                   task, readers, cut>>

---------------------------------------------------------------------------
Init ==
    /\ session \in Sessions
    /\ base = 0 /\ data = <<>> /\ finished = FALSE /\ cancelled = FALSE
    /\ error = None /\ target = None /\ ciphertext = None
    /\ stop = FALSE
    /\ \/ at = "streaming" /\ cause = None /\ sink \in Opened(0)
       \/ at = "failing" /\ cause = "source" /\ sink = None /\ "status" \in session
    /\ aim = None /\ origin = 0 /\ offset = 0 /\ body = 0
    /\ attempts = 0
    /\ step = [r \in Readers |-> "idle"]
    /\ cursor = [r \in Readers |-> 0]
    /\ starved = [r \in Readers |-> 0]
    /\ answer = [r \in Readers |-> Word("none")]
    /\ live = 1
    /\ cached = None
    /\ cut = FALSE

Read(r) ==
    \/ ReadStops(r) \/ ReadFails(r) \/ ReadServes(r) \/ ReadEnds(r)
    \/ ReadWaits(r) \/ Park(r) \/ TimesOut(r)

Reader(r) ==
    \/ Ask(r) \/ Read(r)
    \/ \E p \in Positions : SeekTo(r, p)

Download ==
    \/ TaskDropped \/ Interrupted \/ TakeTarget \/ Debounce \/ RangeAnswered
    \/ Restart \/ StreamYields \/ Paced \/ Write \/ Undecrypted \/ Reconnect
    \/ BackedOff \/ Reconnected \/ StreamEnded \/ ParkAndFinish \/ FinishRange
    \/ FinishWithError

Next ==
    \/ \E r \in Readers : Reader(r)
    \/ Respawn \/ Download
    \/ Cancel \/ CancelDownload \/ StoreCiphertext

Spec == Init /\ [][Next]_vars

(* A thread inside a read keeps running, its wait times out, and the task  *)
(* and the server go on.                                                   *)
Fairness ==
    /\ \A r \in Readers : WF_vars(Read(r))
    /\ WF_vars(Download)

FairSpec == Spec /\ Fairness

---------------------------------------------------------------------------
InnerOK ==
    /\ session \in Sessions
    /\ base \in Positions /\ data \in Seq(Bytes)
    /\ finished \in BOOLEAN /\ cancelled \in BOOLEAN
    /\ error \in Causes \cup {None}
    /\ target \in Positions \cup {None}
    /\ ciphertext \in Seq(Bytes) \cup {None}
    /\ stop \in BOOLEAN
    /\ cached \in Seq(Bytes) \cup {None}
    /\ cut \in BOOLEAN

TaskOK ==
    /\ at \in TaskSteps
    /\ aim \in Positions \cup {None}
    /\ origin \in Positions /\ offset \in Positions /\ body \in Positions
    /\ sink \in Seq(Bytes) \cup {None}
    /\ attempts \in 0 .. MaxReconnects
    /\ cause \in Causes \cup {None}

ReadersOK ==
    /\ step \in [Readers -> ReaderSteps]
    /\ cursor \in [Readers -> Positions]
    /\ starved \in [Readers -> 0 .. (StallCycles - 1)]
    /\ answer \in [Readers -> Answers]
    /\ live \in Readers

TypeOK == InnerOK /\ TaskOK /\ ReadersOK

(* The bytes held are the file's, from the base on, whatever restarted,    *)
(* reconnected or was discarded (write_counted, reset_for_range).          *)
BufferIsTheFile == \A i \in DOMAIN data : data[i] = base + i - 1

(* The staged ciphertext never diverges from the buffer (download_stream). *)
SinkIsTheBuffer == sink # None => sink = data /\ base = 0

(* Only the whole file reaches the disk cache (is_whole, take_ciphertext). *)
CachedIsWhole == cached # None => cached = File

(* What is buffered, staged beside it and handed to the cache is the file, *)
(* and in the cache all of it.                                             *)
HoldsTheFile == BufferIsTheFile /\ SinkIsTheBuffer /\ CachedIsWhole

(* A reader hears the file: each read is told the byte at its position,    *)
(* the end where the file or its stream ended, or a failure.               *)
Source == INSTANCE ByteSource
            WITH asking <- [r \in Readers |-> step[r] # "idle"]
ReadsTheFile == Source!Spec

(* A reader of a server that honours Range is always answered.             *)
ReadAnswered ==
    \A r \in Readers :
        "ignored" \notin session => (step[r] # "idle" ~> step[r] = "idle")
=============================================================================
