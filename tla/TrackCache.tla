----------------------------- MODULE TrackCache -----------------------------
(***************************************************************************)
(* The track cache on disk (src/src/player/cache.rs): an index of rows and *)
(* the files they describe, kept in step by threads that hold the cache    *)
(* lock for the rows and never for the files.  A store moves its download  *)
(* into place between two lock sections; an eviction pass or a Clear takes *)
(* rows out, unlinks their files with the lock free, and settles the       *)
(* account; a reader judges a file it read after its lookup.               *)
(*                                                                         *)
(* Each action is one lock section, or one file operation between two.     *)
(* A file's content is the store that wrote it.                            *)
(***************************************************************************)
EXTENDS Naturals, FiniteSets, FiniteSetsExt

CONSTANTS Tracks,      \* track ids, ordered as SQLite orders them
          Stores,      \* downloads given to store_ciphertext_detached, as they come
          CacheReaders, \* loads that look the cache up
          Applier,     \* the thread of CHANGES
          Opener,      \* the thread of settle_after_open
          NoFile,      \* no file
          Sizes,       \* bytes of a download
          Caps,        \* bytes the user may allow the cache
          Batch,       \* EVICTION_BATCH
          MaxChanges,  \* bound: changes the user queues
          MaxReads,    \* bound: lookups
          MaxKills,    \* bound: kills of the process
          Launches     \* the sets of incidents a history may meet

Actors  == Stores \cup {Applier, Opener}   \* who runs passes
NoTrack == 0

(* A file that will not delete; the index refuses a statement; a file      *)
(* deleted behind the app's back; a kill; loads that read the cache; changes *)
(* the user queues.                                                        *)
Incidents == {"refuse", "index", "vanish", "kill", "load", "change"}

ASSUME TrackCacheAssumption ==
    /\ Tracks \subseteq Nat \ {0} /\ IsFiniteSet(Tracks)
    /\ Stores \subseteq Nat /\ NoFile \notin Stores
    /\ Applier \notin Stores /\ Opener \notin Stores /\ Applier # Opener
    /\ Sizes \subseteq Nat \ {0} /\ Caps \subseteq Nat
    /\ Batch \in Nat \ {0}
    /\ MaxChanges \in Nat /\ MaxReads \in Nat /\ MaxKills \in Nat
    /\ Launches \subseteq SUBSET Incidents

VARIABLES
    incidents,  \* rigid: which of Incidents this history meets
    row,        \* audio_cache: indexed track -> its row (on disk)
    file,       \* track -> the store whose bytes are on its path, or NoFile (on disk)
    size,       \* current_size
    cap,        \* max_bytes
    enabled,
    pending,
    doomed,
    wiping,
    stranded,
    nextGen,    \* next_generation
    blocked,    \* trim_blocked is some reason
    store,      \* store -> its step, its track and its bytes
    pass,       \* actor -> its eviction pass or Clear
    applier,    \* what the thread of CHANGES is doing
    owned,      \* the sweep: ids owned_names found
    todo,       \* the sweep: paths not visited yet
    failed,     \* the Clear at hand met a refusal
    reader,     \* reader -> its step, its track, the row and the file it saw
    left,       \* history: paths whose file an ignored or reported failure left
    astray,     \* history: ids a refused statement set apart from what their row says
    unread,     \* history: a refused look at the index was taken for an empty one
    changes, reads, kills   \* bounds

account == <<size, blocked, stranded>>
marks   == <<pending, doomed, wiping>>
disk    == <<row, file, nextGen>>
setting == <<cap, enabled>>
clear   == <<applier, owned, todo, failed, changes>>
loads   == <<reader, reads>>
refused == <<astray, unread>>
cacheVars == <<incidents, disk, account, marks, setting, store, pass, clear, loads, left, refused, kills>>

Refuses   == "refuse" \in incidents
IndexErrs == "index" \in incidents

-----------------------------------------------------------------------------
(* The index *)

Row == [gen: Nat, bytes: Sizes, stamp: Nat, by: Stores]

Without(rows, ids) == [t \in DOMAIN rows \ ids |-> rows[t]]
With(rows, more)   == [t \in DOMAIN rows \cup DOMAIN more |->
                          IF t \in DOMAIN more THEN more[t] ELSE rows[t]]
Weight(rows, ids)  == MapThenSumSet(LAMBDA t: rows[t].bytes, ids)
RowBytes(rows)     == Weight(rows, DOMAIN rows)
Minus(a, b)        == IF a > b THEN a - b ELSE 0

(* unwrap_or(0): a look that is refused answers nothing.                    *)
Looked(n) == IF IndexErrs THEN {n, 0} ELSE {n}

Target             == (cap * 9) \div 10

(* The clock never runs ahead of the stamps here.                           *)
LastStamp == Max({0} \cup {row[t].stamp : t \in DOMAIN row})

Gone(ts) == file' = [t \in Tracks |-> IF t \in ts THEN NoFile ELSE file[t]]

NoPass == [at |-> "none", all |-> FALSE, keep |-> NoTrack, slack |-> 0, first |-> FALSE,
           cursor |-> <<0, 0>>, batch |-> <<>>, unlinked |-> {}, kept |-> {}]
Trim(keep, slack) == [NoPass EXCEPT !.at = "claim", !.keep = keep, !.slack = slack, !.first = TRUE]

-----------------------------------------------------------------------------
(* A store: reserve, move, commit *)

(* Faulty: an id whose old file is being unlinked is taken, or one another *)
(* store is moving in.                                                     *)
RefusedNotDoomed(t)  == ~enabled \/ t \in DOMAIN row \cup pending
RefusedNotPending(t) == ~enabled \/ t \in DOMAIN row \cup doomed

Refused(t) == ~enabled \/ t \in DOMAIN row \cup doomed \cup pending

(* The look refused: an id that has a row is taken for one that has none.   *)
Overlooked(t) == IndexErrs /\ enabled /\ t \in DOMAIN row \ (doomed \cup pending)

Reserve(s, t, n) ==
    /\ store[s].at = "new" /\ \A q \in Stores : q < s => store[q].at # "new"
    /\ \/ /\ Refused(t)
          /\ store' = [store EXCEPT ![s].at = "done"]
          /\ UNCHANGED <<pending, astray>>
       \/ /\ ~Refused(t) \/ Overlooked(t)
          /\ store' = [store EXCEPT ![s] = [at |-> "reserved", track |-> t, bytes |-> n]]
          /\ pending' = pending \cup {t}
          /\ astray' = IF Overlooked(t) THEN astray \cup {t} ELSE astray
    /\ UNCHANGED <<incidents, disk, account, doomed, wiping, setting, pass, clear, loads, left, unread, kills>>

(* MOVE_GATE: held for writing from the first step of a Clear to its answer. *)
GateHeld == applier \in {"wipe", "sweep", "answer"}

MoveIn(s) == LET t == store[s].track IN
    /\ store[s].at = "reserved"
    /\ ~GateHeld
    /\ file' = [file EXCEPT ![t] = s]
    /\ left' = left \ {t}
    /\ store' = [store EXCEPT ![s].at = "moved"]
    /\ UNCHANGED <<incidents, row, nextGen, account, marks, setting, pass, clear, loads, refused, kills>>

(* A rename that fails, or a panic: the reservation is given back, no row. *)
MoveFails(s) ==
    /\ store[s].at = "reserved"
    /\ Refuses
    /\ pending' = pending \ {store[s].track}
    /\ store' = [store EXCEPT ![s].at = "done"]
    /\ UNCHANGED <<incidents, disk, account, doomed, wiping, setting, pass, clear, loads, left, refused, kills>>

(* A refused look at the stamps puts the row first in line; one at the size *)
(* of the row replaced leaves that counted.                                 *)
NewRow(s, slack) ==
    LET t   == store[s].track
        old == IF t \in DOMAIN row THEN row[t].bytes ELSE 0
    IN  \E last \in Looked(LastStamp), known \in Looked(old) :
           /\ row' = With(row, [u \in {t} |-> [gen |-> nextGen, bytes |-> store[s].bytes,
                                               stamp |-> last + 1, by |-> s]])
           /\ size' = Minus(size + store[s].bytes, known)
           /\ unread' = (unread \/ last # LastStamp \/ known # old)
           /\ pass' = [pass EXCEPT ![s] = Trim(t, slack)]
           /\ UNCHANGED <<file, left, astray>>

(* Faulty: the generation is taken and not advanced. *)
InsertRowSameGen(s, slack) == NewRow(s, slack) /\ UNCHANGED nextGen

(* insert_row, the row going in: an oversized file that would not delete is *)
(* indexed all the same, its bytes beyond the pass's reach.                 *)
InsertRow(s, slack) == NewRow(s, slack) /\ nextGen' = nextGen + 1

(* remove_row: the statement refused, the row stays; the look at its size   *)
(* refused, its bytes stay counted.                                         *)
RemoveRow(t) ==
    \/ /\ t \in DOMAIN row
       /\ row' = Without(row, {t})
       /\ \E known \in Looked(row[t].bytes) :
             size' = Minus(size, known) /\ unread' = (unread \/ known # row[t].bytes)
    \/ /\ t \notin DOMAIN row \/ IndexErrs
       /\ UNCHANGED <<row, size, unread>>

(* drop_entry_with, the file going: the row once it is gone.                *)
DropEntry(t) ==
    /\ Gone({t}) /\ RemoveRow(t)
    /\ astray' = IF t \in DOMAIN row' THEN astray \cup {t} ELSE astray

(* No row: the file stays where it is (keep) or is removed, if it will go. *)
NoRow(s, stays) == LET t == store[s].track IN
    /\ UNCHANGED <<row, size, nextGen, pass, refused>>
    /\ \/ stays /\ UNCHANGED <<file, left>>
       \/ ~stays /\ Gone({t}) /\ UNCHANGED left
       \/ ~stays /\ Refuses /\ file[t] # NoFile /\ left' = left \cup {t} /\ UNCHANGED file

CommitRow(s) == LET t == store[s].track IN
    /\ store[s].at = "moved"
    /\ pending' = pending \ {t}
    /\ store' = [store EXCEPT ![s].at = "done"]
    /\ \/ ~enabled /\ NoRow(s, FALSE)
       \/ enabled /\ (wiping \/ file[t] = NoFile) /\ NoRow(s, TRUE)
       \/ /\ enabled /\ ~wiping /\ file[t] # NoFile
          /\ \/ store[s].bytes > cap /\ DropEntry(t) /\ UNCHANGED <<nextGen, pass, left>>
             \/ store[s].bytes > cap /\ Refuses /\ InsertRow(s, store[s].bytes)
             \/ store[s].bytes =< cap /\ InsertRow(s, 0)
             \/ /\ IndexErrs /\ (store[s].bytes =< cap \/ Refuses)
                /\ nextGen' = nextGen + 1 /\ left' = left \cup {t}
                /\ UNCHANGED <<row, size, pass, file, refused>>
    /\ UNCHANGED <<incidents, blocked, stranded, doomed, wiping, setting, clear, loads, kills>>

-----------------------------------------------------------------------------
(* A pass: claim, unlink, settle, over and over *)

Before(t, c) == row[t].stamp < c[1] \/ (row[t].stamp = c[1] /\ t < c[2])
Mark(t)      == <<row[t].stamp, t>>

(* Faulty: the cursor is not looked at. *)
CandidatesAll(p) == {t \in DOMAIN row : t # p.keep}

Candidates(p) == {t \in DOMAIN row : /\ t # p.keep
                                     /\ ~Before(t, p.cursor) /\ Mark(t) # p.cursor}

(* The oldest rows past the cursor, a batch at most; for a trim, as many as *)
(* bring the size, less what no row can free, to the target.                *)
Chosen(p) ==
    LET cs       == Candidates(p)
        older(t) == {u \in cs : Before(u, Mark(t))}
        freed(t) == Weight(row, older(t))
    IN  {t \in cs : /\ Cardinality(older(t)) < Batch
                    /\ p.all \/ Minus(size, p.slack) > Target + freed(t)}

Newest(ids) == CHOOSE t \in ids : \A u \in ids : u = t \/ Before(u, Mark(t))

(* Faulty: the chosen ids are not marked. *)
DoomNone(ids) == UNCHANGED doomed

Doom(ids) == doomed' = doomed \cup ids

Over(p)  == p.all \/ ((p.first => size > cap) /\ Minus(size, p.slack) > Target)
Ended(p) == [p EXCEPT !.at = "end"]

(* The claim that finds nothing ends the pass: there is nothing, or a look  *)
(* at the candidates that is refused half-way passes for the end of them.   *)
ClaimNothing(a) ==
    LET nothing == ~Over(pass[a]) \/ Chosen(pass[a]) = {}
    IN  /\ pass[a].at = "claim"
        /\ nothing \/ IndexErrs
        /\ pass' = [pass EXCEPT ![a] = Ended(pass[a])]
        /\ unread' = (unread \/ ~nothing)
        /\ UNCHANGED <<incidents, disk, account, marks, setting, store, clear, loads, left, astray, kills>>

Claim(a) ==
    LET p   == pass[a]
        ids == Chosen(p)
    IN  /\ p.at = "claim"
        /\ Over(p) /\ ids # {}
        /\ pass' = [pass EXCEPT ![a] = [p EXCEPT !.at = "unlink", !.first = FALSE,
                        !.cursor = Mark(Newest(ids)),
                        !.batch = [t \in ids |-> row[t]], !.unlinked = {}, !.kept = {}]]
        /\ row' = Without(row, ids)
        /\ Doom(ids)
        /\ size' = Minus(size, Weight(row, ids))
        /\ UNCHANGED <<incidents, file, nextGen, blocked, stranded, pending, wiping, setting, store,
                       clear, loads, left, refused, kills>>

Unlink(a, t) ==
    LET p == pass[a]
    IN  /\ p.at = "unlink"
        /\ t \in DOMAIN p.batch \ p.unlinked
        /\ \/ /\ Gone({t})
              /\ pass' = [pass EXCEPT ![a].unlinked = @ \cup {t}]
           \/ /\ Refuses /\ file[t] # NoFile
              /\ pass' = [pass EXCEPT ![a].unlinked = @ \cup {t}, ![a].kept = @ \cup {t}]
              /\ UNCHANGED file
        /\ UNCHANGED <<incidents, row, nextGen, account, marks, setting, store, clear, loads, left, refused, kills>>

(* Counted in full, whatever row it replaces.                               *)
PutBack(back) == /\ row' = With(row, back) /\ size' = size + RowBytes(back)
                 /\ unread' = (unread \/ DOMAIN back \cap DOMAIN row # {})

(* Every id is released; the rows of files that would not delete go back as *)
(* they were, or their bytes are stranded.  A trim that freed nothing stops. *)
SettleUnlinks(a) ==
    LET p    == pass[a]
        back == [t \in p.kept |-> p.batch[t]]
        stalled == ~p.all /\ p.kept = DOMAIN p.batch
    IN  /\ p.at = "unlink"
        /\ p.unlinked = DOMAIN p.batch
        /\ doomed' = doomed \ DOMAIN p.batch
        /\ \/ PutBack(back) /\ UNCHANGED <<stranded, left>>
           \/ /\ IndexErrs /\ p.kept # {}
              /\ stranded' = stranded + RowBytes(back) /\ left' = left \cup p.kept
              /\ UNCHANGED <<row, size, unread>>
        /\ pass' = [pass EXCEPT ![a] = [p EXCEPT !.at = IF stalled THEN "end" ELSE "claim",
                                        !.batch = <<>>, !.unlinked = {}, !.kept = {}]]
        /\ failed' = IF p.all THEN failed \/ p.kept # {} ELSE failed
        /\ UNCHANGED <<incidents, file, nextGen, blocked, pending, wiping, setting, store, applier,
                       owned, todo, changes, loads, astray, kills>>

(* Faulty: a pass that did not fail has nothing to say. *)
SayNothing == blocked' = FALSE

(* Why the pass left the cache over its cap, from the sizes now. *)
SayBlocked == blocked' = (size > cap)

FinishPass(a) ==
    /\ pass[a].at = "end" /\ ~pass[a].all
    /\ SayBlocked
    /\ pass' = [pass EXCEPT ![a] = NoPass]
    /\ applier' = IF a = Applier THEN "idle" ELSE applier
    /\ UNCHANGED <<incidents, disk, size, stranded, marks, setting, store, owned, todo, failed,
                   changes, loads, left, refused, kills>>

(* A claim the index refuses: the pass ends with that reason. *)
PassFails(a) ==
    /\ IndexErrs
    /\ pass[a].at = "claim" /\ ~pass[a].all
    /\ Over(pass[a])
    /\ blocked' = TRUE
    /\ pass' = [pass EXCEPT ![a] = NoPass]
    /\ applier' = IF a = Applier THEN "idle" ELSE applier
    /\ UNCHANGED <<incidents, disk, size, stranded, marks, setting, store, owned, todo, failed,
                   changes, loads, left, refused, kills>>

-----------------------------------------------------------------------------
(* The thread of CHANGES: one change at a time, in the order they were made *)

NewChange == /\ "change" \in incidents /\ applier = "idle"
             /\ changes < MaxChanges /\ changes' = changes + 1

SetEnabled ==
    /\ NewChange
    /\ enabled' = ~enabled
    /\ UNCHANGED <<incidents, disk, account, marks, cap, store, pass, applier, owned, todo, failed,
                   loads, left, refused, kills>>

Resize(c) ==
    /\ NewChange
    /\ cap' = c
    /\ applier' = "resize"
    /\ pass' = [pass EXCEPT ![Applier] = Trim(NoTrack, 0)]
    /\ UNCHANGED <<incidents, disk, account, marks, enabled, store, owned, todo, failed, loads, left, refused, kills>>

(* The gate, then wiping, then a pass over every row. *)
BeginClear ==
    /\ NewChange
    /\ applier' = "wipe"
    /\ wiping' = TRUE
    /\ failed' = FALSE
    /\ pass' = [pass EXCEPT ![Applier] = [NoPass EXCEPT !.at = "claim", !.all = TRUE]]
    /\ UNCHANGED <<incidents, disk, account, pending, doomed, setting, store, owned, todo, loads, left, refused, kills>>

(* What the sweep must leave: the files of the rows left and of the passes  *)
(* in flight, read in one section.                                          *)
Owned == DOMAIN row \cup doomed

OwnedNames ==
    /\ applier = "wipe" /\ pass[Applier].at = "end"
    /\ owned' = Owned
    /\ todo' = Tracks \ owned'
    /\ pass' = [pass EXCEPT ![Applier] = NoPass]
    /\ applier' = "sweep"
    /\ UNCHANGED <<incidents, disk, account, marks, setting, store, failed, changes, loads, left, refused, kills>>

Unowned == {t \in Tracks : file[t] # NoFile} \ (DOMAIN row \cup doomed)

(* A claim or the names refused by the index: the Clear stops there. *)
WipeFails ==
    /\ IndexErrs
    /\ applier = "wipe" /\ pass[Applier].at \in {"claim", "end"}
    /\ wiping' = FALSE
    /\ failed' = TRUE
    /\ left' = left \cup Unowned
    /\ pass' = [pass EXCEPT ![Applier] = NoPass]
    /\ applier' = "answer"
    /\ UNCHANGED <<incidents, disk, account, pending, doomed, setting, store, owned, todo, changes, loads, refused, kills>>

(* sweep_unowned, one path at a time, no lock held. *)
Sweep(t) ==
    /\ applier = "sweep" /\ t \in todo
    /\ todo' = todo \ {t}
    /\ \/ Gone({t}) /\ UNCHANGED <<failed, left>>
       \/ /\ Refuses /\ file[t] # NoFile
          /\ failed' = TRUE /\ left' = left \cup {t} /\ UNCHANGED file
    /\ UNCHANGED <<incidents, row, nextGen, account, marks, setting, store, pass, applier, owned,
                   changes, loads, refused, kills>>

SweepEnds ==
    /\ applier = "sweep" /\ todo = {}
    /\ wiping' = FALSE
    /\ applier' = "answer"
    /\ UNCHANGED <<incidents, disk, account, pending, doomed, setting, store, pass, owned, todo,
                   failed, changes, loads, left, refused, kills>>

(* The outcome is settled and answered; only then is the gate given back.   *)
AnswerClear ==
    /\ applier = "answer"
    /\ stranded' = IF failed THEN stranded ELSE 0
    /\ applier' = "idle"
    /\ UNCHANGED <<incidents, disk, size, blocked, marks, setting, store, pass, owned, todo, failed,
                   changes, loads, left, refused, kills>>

-----------------------------------------------------------------------------
(* A load: look the index up, read the file, judge what was read *)

Unread == [at |-> "idle", track |-> NoTrack, gen |-> 0, by |-> NoFile]

LookUp(r, t) ==
    /\ "load" \in incidents /\ reads < MaxReads
    /\ reader[r].at = "idle"
    /\ enabled /\ t \in DOMAIN row
    /\ reads' = reads + 1
    /\ reader' = [reader EXCEPT ![r] = [at |-> "seen", track |-> t, gen |-> row[t].gen, by |-> row[t].by]]
    /\ UNCHANGED <<incidents, disk, account, marks, setting, store, pass, clear, left, refused, kills>>

(* Stale by then, or unreadable: the entry is left alone. *)
ReadFile(r) ==
    /\ reader[r].at = "seen"
    /\ \/ reader' = [reader EXCEPT ![r].at = IF file[reader[r].track] = NoFile THEN "missing" ELSE "read"]
       \/ reader' = [reader EXCEPT ![r] = Unread]
    /\ UNCHANGED <<incidents, disk, account, marks, setting, store, pass, clear, reads, left, refused, kills>>

IsSeen(r) == reader[r].track \in DOMAIN row /\ row[reader[r].track].gen = reader[r].gen

RemoveOrphan(r) ==
    /\ reader[r].at = "missing"
    /\ IF IsSeen(r) THEN RemoveRow(reader[r].track) ELSE UNCHANGED <<row, size, unread>>
    /\ reader' = [reader EXCEPT ![r] = Unread]
    /\ UNCHANGED <<incidents, file, nextGen, blocked, stranded, marks, setting, store, pass, clear,
                   reads, left, astray, kills>>

(* A touch the index refuses is ignored. *)
Touch(r) == LET t == reader[r].track IN
    /\ reader[r].at = "read"
    /\ \/ \E last \in Looked(LastStamp) :
             /\ row' = IF t \in DOMAIN row THEN [row EXCEPT ![t].stamp = last + 1] ELSE row
             /\ unread' = (unread \/ last # LastStamp)
       \/ IndexErrs /\ UNCHANGED <<row, unread>>
    /\ reader' = [reader EXCEPT ![r].at = "playing"]
    /\ UNCHANGED <<incidents, file, nextGen, account, marks, setting, store, pass, clear, reads, left,
                   astray, kills>>

(* drop_seen, of bytes that are no media or, later, do not decode: nothing  *)
(* if the row is another, or the look refused; else the file and the row.   *)
DropSeen(r) == LET t == reader[r].track IN
    /\ reader[r].at \in {"read", "playing"}
    /\ \/ /\ ~IsSeen(r) \/ IndexErrs \/ (Refuses /\ file[t] # NoFile)
          /\ UNCHANGED <<row, size, file, refused>>
       \/ IsSeen(r) /\ DropEntry(t)
    /\ reader' = [reader EXCEPT ![r] = Unread]
    /\ UNCHANGED <<incidents, nextGen, blocked, stranded, marks, setting, store, pass, clear, reads,
                   left, kills>>

PlayedOut(r) ==
    /\ reader[r].at = "playing"
    /\ reader' = [reader EXCEPT ![r] = Unread]
    /\ UNCHANGED <<incidents, disk, account, marks, setting, store, pass, clear, reads, left, refused, kills>>

-----------------------------------------------------------------------------
(* What happens to the process and to its folder *)

Vanish(t) ==
    /\ "vanish" \in incidents
    /\ file[t] # NoFile
    /\ Gone({t})
    /\ UNCHANGED <<incidents, row, nextGen, account, marks, setting, store, pass, clear, loads, left, refused, kills>>

(* A kill, and the next launch's open: files no row describes are swept, the *)
(* size is summed from the rows, and a pass is owed.                         *)
Relaunch(c, on) ==
    /\ "kill" \in incidents /\ kills < MaxKills /\ kills' = kills + 1
    /\ \E kept \in SUBSET ({t \in Tracks : file[t] # NoFile} \ DOMAIN row) :
          /\ kept = {} \/ Refuses \/ IndexErrs
          /\ file' = [t \in Tracks |-> IF t \in DOMAIN row \cup kept THEN file[t] ELSE NoFile]
          /\ left' = kept
    /\ nextGen' = 1 + Max({0} \cup {row[t].gen : t \in DOMAIN row})
    /\ size' \in Looked(RowBytes(row)) /\ unread' = (size' # RowBytes(row))
    /\ astray' = {t \in astray \cap DOMAIN row : file[t] # row[t].by}
    /\ blocked' = FALSE /\ stranded' = 0
    /\ pending' = {} /\ doomed' = {} /\ wiping' = FALSE
    /\ cap' = c /\ enabled' = on
    /\ store' = [s \in Stores |-> IF store[s].at = "new" THEN store[s] ELSE [store[s] EXCEPT !.at = "done"]]
    /\ pass' = [a \in Actors |-> IF a = Opener THEN Trim(NoTrack, 0) ELSE NoPass]
    /\ applier' = "idle" /\ owned' = {} /\ todo' = {} /\ failed' = FALSE
    /\ reader' = [r \in CacheReaders |-> Unread]
    /\ UNCHANGED <<incidents, row, changes, reads>>

-----------------------------------------------------------------------------
CacheInit ==
    /\ incidents \in Launches
    /\ row = <<>> /\ file = [t \in Tracks |-> NoFile] /\ nextGen = 1
    /\ size = 0 /\ blocked = FALSE /\ stranded = 0
    /\ pending = {} /\ doomed = {} /\ wiping = FALSE
    /\ cap \in Caps /\ enabled = TRUE
    /\ store = [s \in Stores |-> [at |-> "new", track |-> NoTrack, bytes |-> 0]]
    /\ pass = [a \in Actors |-> NoPass]
    /\ applier = "idle" /\ owned = {} /\ todo = {} /\ failed = FALSE
    /\ reader = [r \in CacheReaders |-> Unread]
    /\ left = {} /\ astray = {} /\ unread = FALSE /\ changes = 0 /\ reads = 0 /\ kills = 0

StoreStep(s) == MoveIn(s) \/ MoveFails(s) \/ CommitRow(s)
PassStep(a)  == \/ ClaimNothing(a) \/ Claim(a) \/ SettleUnlinks(a) \/ FinishPass(a) \/ PassFails(a)
                \/ \E t \in Tracks : Unlink(a, t)
ClearStep    == \/ OwnedNames \/ WipeFails \/ SweepEnds \/ AnswerClear
                \/ \E t \in Tracks : Sweep(t)
LoadStep(r)  == ReadFile(r) \/ RemoveOrphan(r) \/ Touch(r) \/ DropSeen(r) \/ PlayedOut(r)

CacheNext ==
    \/ \E s \in Stores : StoreStep(s) \/ \E t \in Tracks, n \in Sizes : Reserve(s, t, n)
    \/ \E a \in Actors : PassStep(a)
    \/ ClearStep \/ BeginClear \/ SetEnabled
    \/ \E c \in Caps : Resize(c)
    \/ \E r \in CacheReaders : LoadStep(r) \/ \E t \in Tracks : LookUp(r, t)
    \/ \E t \in Tracks : Vanish(t)
    \/ \E c \in Caps, on \in BOOLEAN : Relaunch(c, on)

(* The thread of CHANGES runs what it took to the end; nothing is assumed of *)
(* the others, not even that a store or another pass goes on.                *)
CacheFairness == WF_cacheVars(PassStep(Applier) \/ ClearStep)

CacheSpec == CacheInit /\ [][CacheNext]_cacheVars /\ CacheFairness

-----------------------------------------------------------------------------
(* Properties *)

(* Every field holds what the code's can hold. *)
CacheTypeOK ==
    /\ incidents \in Launches
    /\ DOMAIN row \subseteq Tracks /\ \A t \in DOMAIN row : row[t] \in Row
    /\ file \in [Tracks -> Stores \cup {NoFile}]
    /\ size \in Nat /\ stranded \in Nat /\ nextGen \in Nat /\ cap \in Caps
    /\ {blocked, wiping, enabled, failed} \subseteq BOOLEAN
    /\ pending \subseteq Tracks /\ doomed \subseteq Tracks
    /\ \A s \in Stores : /\ store[s].at \in {"new", "reserved", "moved", "done"}
                         /\ store[s].at \in {"reserved", "moved"} =>
                               store[s].track \in pending /\ store[s].bytes \in Sizes
    /\ \A a \in Actors : /\ pass[a].at \in {"none", "claim", "unlink", "end"}
                         /\ DOMAIN pass[a].batch \subseteq doomed \cup astray
                         /\ pass[a].kept \subseteq pass[a].unlinked
                         /\ pass[a].unlinked \subseteq DOMAIN pass[a].batch
    /\ applier \in {"idle", "resize", "wipe", "sweep", "answer"}
    /\ {owned, todo, left, astray} \subseteq SUBSET Tracks /\ unread \in BOOLEAN

(* The path of a track has one owner: its row, the store moving a download  *)
(* onto it, or the pass unlinking it, and never two passes (but an id a     *)
(* store was given because the look for its row was refused); and never two *)
(* stores, whatever is refused.                                             *)
OneOwner ==
    /\ DOMAIN row \cap pending \subseteq astray
    /\ (DOMAIN row \cup pending) \cap doomed \subseteq astray
    /\ \A s, q \in Stores : s # q /\ {store[s].at, store[q].at} \subseteq {"reserved", "moved"}
                               => store[s].track # store[q].track
    /\ \A a, b \in Actors : a # b => DOMAIN pass[a].batch \cap DOMAIN pass[b].batch \subseteq astray

(* Unless somebody deletes files behind the app, a row never describes a    *)
(* missing file, nor the bytes of another store: what it measured is what   *)
(* is on its path, across evictions, Clears, drops and kills.  A statement  *)
(* that is refused costs at most the id it was about: the row that outlives *)
(* its dropped file, the row a store was not shown.                         *)
RowHasItsFile ==
    "vanish" \notin incidents => \A t \in DOMAIN row \ astray : file[t] = row[t].by

(* The running size is the sum of the rows, whatever passes run at once and *)
(* whichever rows, files or deletes are refused, as long as no look at the  *)
(* index is: a refused one is taken for zero.                               *)
SizeIsSum == unread \/ size = RowBytes(row)

(* Bytes on disk without a row are somebody's: a store still to commit, a   *)
(* pass still to settle, the sweep of the Clear under way; or a removal     *)
(* that failed left them.                                                   *)
NoStrayFile ==
    \A t \in Unowned \ (pending \cup left \cup astray) : wiping /\ (applier = "wipe" \/ t \in todo)

(* The index and the folder say the same: one owner of a path at a time, a  *)
(* row only for its own file, and no file but somebody's.                   *)
RowsAreFiles == OneOwner /\ RowHasItsFile /\ NoStrayFile

Quiet == applier = "idle" /\ \A a \in Actors : pass[a].at = "none"

(* With no pass under way the cache is within its cap, or the page is told  *)
(* why it is not: the last pass to end has the last word, or a Clear failed  *)
(* (or a refused look at the rows passed for the end of them).               *)
SaidWhenOver == Quiet /\ size > cap => blocked \/ failed \/ unread

(* The size the cap is held against is the truth, and the page is told when *)
(* the cap is not kept.                                                     *)
SizeIsKnown == SizeIsSum /\ SaidWhenOver

(* The index is true: to the folder, to the bytes in it, and to the page.   *)
IndexIsTrue == RowsAreFiles /\ SizeIsKnown

(* A Clear answered as done leaves on disk only files that have a row (a    *)
(* pass it met put it back, or the look at the rows was cut short) or that   *)
(* a pass still owns; not when deletes and the index both fail, and not an   *)
(* id whose row a store was not shown.                                      *)
ClearLeavesNothing ==
    [][applier = "answer" /\ applier' = "idle" /\ ~failed /\ kills' = kills
           /\ ~({"refuse", "index"} \subseteq incidents)
         => \A t \in Tracks \ astray : file[t] # NoFile => t \in DOMAIN row \cup doomed]_cacheVars

(* A verdict on a file takes the row the reader looked up, never the row of *)
(* a later store of the track.                                              *)
VerdictSparesNewer ==
    [][\A r \in CacheReaders : reader[r].at \in {"missing", "read", "playing"} /\ reader'[r].at = "idle"
           /\ kills' = kills
         => \A t \in DOMAIN row \ DOMAIN row' : t = reader[r].track /\ row[t].by = reader[r].by]_cacheVars

(* A removal takes all it was asked to take, and nothing stored since.      *)
RemovesWhatItMeant == ClearLeavesNothing /\ VerdictSparesNewer

(* A change is applied and answered, though files refuse to go and whatever *)
(* the other threads do or leave undone: its pass meets no row for ever.     *)
ChangesEnd == (applier # "idle") ~> (applier = "idle")
=============================================================================
