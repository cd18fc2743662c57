---------------------------- MODULE Player_proofs ----------------------------
(***************************************************************************)
(* The player's own state (src/player/mod.rs), in two parts.               *)
(*                                                                         *)
(* The level the install plays, for every set of levels and every bound:   *)
(* what is saved is what plays, at most one write is queued, an unmute     *)
(* gives back an audible level, and the page comes to show what Rust       *)
(* plays, whatever is on the wires between them.                           *)
(*                                                                         *)
(* Whoever mints between two looks at the player, for every set of tracks, *)
(* every bound and every session: a staged track is promoted in this       *)
(* host's own name only, a re-arm carries on the load it saw, a load the   *)
(* thread waits for is still to answer, a stop is not undone by what was   *)
(* under way, and the thread never goes back to an older load's events.    *)
(***************************************************************************)
EXTENDS OutputLevel, LoadCoordinator, SequenceTheorems, TLAPS

(***************************************************************************)
(* THE OUTPUT LEVEL (OutputLevel).                                         *)
(***************************************************************************)
Sound(l) == l \in Level /\ Heard(l) /\ l.floor <= l.seq

(* Every pair on its way to the disk, or on it, is one an unmute can use.  *)
PairsHeard == /\ unsaved # NoPair => Heard(unsaved)
              /\ writing # NoPair => Heard(writing)
              /\ saved # NoPair => Heard(saved)

(* LevelTypeOK without the page and the wires. *)
RustTypeOK == /\ level \in Level
              /\ unsaved \in Pair \cup {NoPair}
              /\ queued \in Nat
              /\ writing \in Pair \cup {NoPair}
              /\ saved \in Pair \cup {NoPair}
              /\ lastBy \in {"none", "page", "remote", "plugin"}

PageTypeOK == /\ page \in PageIds
              /\ phase \in {"loading", "up"}
              /\ store \in Levels
              /\ held \in Levels \cup {NotHeld}
              /\ seen \in Nat
              /\ toRust \in Seq(Send \cup Ask)
              /\ reports \subseteq Report
              /\ restore \in {"idle", "read", "done"}
              /\ moves \in Nat

RustInv == /\ RustTypeOK
           /\ UnmuteIsHeard
           /\ level.floor <= level.seq
           /\ OneWriteQueued
           /\ SavedIsNewest
           /\ PairsHeard

-----------------------------------------------------------------------------
(* The operations on a level *)

(* A stamp counts one change and marks the level chosen, nothing else. *)
LEMMA StampSound ==
    ASSUME NEW l \in Level, l.floor <= l.seq, NEW by \in Writer
    PROVE  LET n == Stamp(l, by) IN
           /\ n \in Level /\ n.floor <= n.seq /\ n.seq = l.seq + 1 /\ n.chosen
           /\ n.volume = l.volume /\ n.audible = l.audible
           /\ n.floor = IF by = "Remote" THEN n.seq ELSE l.floor
<1> DEFINE n == Stamp(l, by)
           k == l.seq + 1
           f == IF by = "Remote" THEN k ELSE l.floor
<1>1. k \in Nat /\ f \in Nat /\ f <= k
  BY DEF Level
<1>2. n = [l EXCEPT !.seq = k, !.chosen = TRUE, !.floor = f]
  BY DEF Stamp
<1> HIDE DEF k, f
<1>3. n \in Level
  BY <1>1, <1>2 DEF Level
<1>4. n.volume = l.volume /\ n.audible = l.audible /\ n.seq = k /\ n.floor = f
  BY <1>2 DEF Level
<1>5. n.chosen
  BY <1>2 DEF Level
<1> QED
  BY <1>1, <1>3, <1>4, <1>5 DEF k, f

(* A set plays the level given, and moves the audible one unless silent. *)
LEMMA SetLevelSound ==
    ASSUME NEW l \in Level, l.audible # Silent, l.floor <= l.seq,
           NEW v \in Levels, NEW by \in Writer
    PROVE  LET n == SetLevel(l, v, by) IN
           /\ Sound(n) /\ n.seq = l.seq + 1 /\ n.chosen
           /\ n.volume = v /\ n.audible = IF v = Silent THEN l.audible ELSE v
           /\ n.floor = IF by = "Remote" THEN n.seq ELSE l.floor
<1> DEFINE a == IF v = Silent THEN l.audible ELSE v
           m == [l EXCEPT !.volume = v, !.audible = a]
           n == SetLevel(l, v, by)
<1>1. m \in Level /\ m.volume = v /\ m.audible = a /\ m.seq = l.seq /\ m.floor = l.floor
  BY DEF Level
<1>2. n = Stamp(m, by)
  BY DEF SetLevel
<1> HIDE DEF m
<1>3. /\ n \in Level /\ n.floor <= n.seq /\ n.seq = l.seq + 1 /\ n.chosen
      /\ n.volume = v /\ n.audible = a
      /\ n.floor = IF by = "Remote" THEN n.seq ELSE l.floor
  BY <1>1, <1>2, StampSound
<1>4. Heard(n)
  BY <1>3, LevelAssumption DEF Heard
<1> QED
  BY <1>3, <1>4 DEF Sound

(* A mute keeps the audible level, and an unmute plays it. *)
LEMMA MuteSound ==
    ASSUME NEW l \in Level, Heard(l), l.floor <= l.seq
    PROVE  /\ Sound(Mute(l)) /\ Mute(l).seq = l.seq + 1 /\ Mute(l).chosen
           /\ Sound(Unmute(l)) /\ Unmute(l).seq = l.seq + 1 /\ Unmute(l).chosen
           /\ Mute(l).floor = Mute(l).seq /\ Unmute(l).floor = Unmute(l).seq
<1> DEFINE m == [l EXCEPT !.volume = Silent]
           u == [l EXCEPT !.volume = l.audible]
<1>1. m \in Level /\ m.volume = Silent /\ m.audible = l.audible
      /\ m.seq = l.seq /\ m.floor = l.floor
  BY LevelAssumption DEF Level
<1>2. u \in Level /\ u.volume = l.audible /\ u.audible = l.audible
      /\ u.seq = l.seq /\ u.floor = l.floor
  BY DEF Level
<1>3. Mute(l) = Stamp(m, "Remote") /\ Unmute(l) = Stamp(u, "Remote")
  BY DEF Mute, Unmute
<1>4. "Remote" \in Writer
  BY DEF Writer
<1> HIDE DEF m, u
<1>5. /\ Mute(l) \in Level /\ Mute(l).floor <= Mute(l).seq /\ Mute(l).seq = l.seq + 1
      /\ Mute(l).chosen /\ Mute(l).volume = Silent /\ Mute(l).audible = l.audible
      /\ Mute(l).floor = Mute(l).seq
  BY <1>1, <1>3, <1>4, StampSound
<1>6. /\ Unmute(l) \in Level /\ Unmute(l).floor <= Unmute(l).seq
      /\ Unmute(l).seq = l.seq + 1 /\ Unmute(l).chosen
      /\ Unmute(l).volume = l.audible /\ Unmute(l).audible = l.audible
      /\ Unmute(l).floor = Unmute(l).seq
  BY <1>2, <1>3, <1>4, StampSound
<1> QED
  BY <1>5, <1>6 DEF Sound, Heard

(* A page catching up counts, and leaves what plays and what is saved. *)
LEMMA CatchUpSound ==
    ASSUME NEW l \in Level, Heard(l)
    PROVE  /\ Sound(CatchUp(l)) /\ CatchUp(l).seq = l.seq + 1
           /\ CatchUp(l).chosen = l.chosen /\ PairOf(CatchUp(l)) = PairOf(l)
           /\ CatchUp(l).floor = l.seq + 1 /\ CatchUp(l).volume = l.volume
<1> DEFINE n == CatchUp(l)
           k == l.seq + 1
<1>1. k \in Nat
  BY DEF Level
<1>2. n = [l EXCEPT !.seq = k, !.floor = k]
  BY DEF CatchUp
<1> HIDE DEF k
<1>3. n \in Level
  BY <1>1, <1>2 DEF Level
<1>4. n.volume = l.volume /\ n.audible = l.audible /\ n.seq = k /\ n.floor = k
  BY <1>2 DEF Level
<1>5. n.chosen = l.chosen
  BY <1>2 DEF Level
<1> QED
  BY <1>1, <1>3, <1>4, <1>5 DEF Sound, Heard, PairOf, k

(* A restored level is sound, and plays the pair it was restored from. *)
LEMMA RestoredSound ==
    ASSUME NEW p \in Pair
    PROVE  /\ Sound(Restored(p)) /\ Restored(p).chosen /\ Restored(p).seq = 1
           /\ Heard(p) => PairOf(Restored(p)) = p
<1> DEFINE a == IF p.audible = Silent THEN Full ELSE p.audible
           s == [Start EXCEPT !.audible = a]
           n == SetLevel(s, p.volume, "Remote")
<1>1. s \in Level /\ s.audible = a /\ s.seq = 0 /\ s.floor = 0
  BY LevelAssumption DEF Start, Level, Pair
<1>2. a # Silent /\ p.volume \in Levels /\ "Remote" \in Writer
  BY LevelAssumption DEF Pair, Writer
<1>3. Restored(p) = n
  BY DEF Restored
<1> HIDE DEF s
<1>4. /\ Sound(n) /\ n.seq = 1 /\ n.chosen
      /\ n.volume = p.volume /\ n.audible = IF p.volume = Silent THEN a ELSE p.volume
  BY <1>1, <1>2, SetLevelSound
<1>5. ASSUME Heard(p) PROVE PairOf(n) = p
  <2>1. n.audible = p.audible
    BY <1>4, <1>5 DEF Heard
  <2>2. p = [volume |-> p.volume, audible |-> p.audible]
    BY DEF Pair
  <2> QED
    BY <1>4, <2>1, <2>2 DEF PairOf
<1> QED
  BY <1>3, <1>4, <1>5
-----------------------------------------------------------------------------
(* Rust's side of a step *)

ReportsKnown == /\ seen <= level.seq
                /\ \A r \in reports : r.seq <= level.seq

IInv == RustInv /\ PageTypeOK /\ ReportsKnown

(* A sound new level that is kept stays the newest one saved.              *)
LEMMA KeepRustInv ==
    ASSUME RustInv, NEW l, Sound(l), l.chosen, level' = l, Keep(l),
           lastBy' \in {"none", "page", "remote", "plugin"}
    PROVE  RustInv' /\ PairOf(l) \in Pair
<1> USE DEF RustInv, RustTypeOK
<1>1. PairOf(l) \in Pair /\ Heard(PairOf(l))
  BY DEF Sound, Level, Pair, PairOf, Heard
<1>2. PairOf(l) # NoPair
  BY <1>1, OutputLevelAssumption
<1>3. unsaved' = PairOf(l) /\ queued' = 1 /\ writing' = writing /\ saved' = saved
  BY DEF Keep, OneWriteQueued
<1>4. RustTypeOK'
  BY <1>1, <1>3 DEF Sound
<1>5. UnmuteIsHeard' /\ level'.floor <= level'.seq
  BY DEF Sound, UnmuteIsHeard
<1>6. OneWriteQueued'
  BY <1>2, <1>3 DEF OneWriteQueued
<1>7. SavedIsNewest'
  BY <1>2, <1>3 DEF SavedIsNewest, Newest
<1>8. PairsHeard'
  BY <1>1, <1>3 DEF PairsHeard
<1> QED
  BY <1>1, <1>4, <1>5, <1>6, <1>7, <1>8

(* A change no page makes.                                                 *)
LEMMA RemoteIInv ==
    ASSUME IInv, NEW l, Sound(l), l.chosen, l.seq = level.seq + 1, Remote(l)
    PROVE  IInv'
<1> USE DEF IInv
<1>1. RustInv' /\ level.seq \in Nat
  <2>1. level' = l /\ Keep(l) /\ lastBy' = "remote"
    BY DEF Remote
  <2> QED
    BY <2>1, KeepRustInv DEF RustInv, RustTypeOK, Level
<1>2. ReportOf(l, "event") \in Report
  BY DEF ReportOf, Report, Sound, Level
<1>3. PageTypeOK'
  BY <1>2 DEF PageTypeOK, Remote, Move, webpage
<1>4. ReportsKnown'
  <2>1. ReportOf(l, "event").seq = l.seq
    BY DEF ReportOf
  <2>2. seen \in Nat /\ \A r \in reports : r.seq \in Nat
    BY DEF PageTypeOK, Report
  <2> QED
    BY <1>1, <2>1, <2>2 DEF ReportsKnown, Remote, webpage
<1> QED
  BY <1>1, <1>3, <1>4

(* A level a page or a plugin sets, admitted.                              *)
LEMMA ApplyRustInv ==
    ASSUME RustInv, NEW v \in Levels, NEW by \in {"page", "plugin"}, Apply(v, by)
    PROVE  /\ RustInv'
           /\ level'.seq \in Nat
           /\ level'.seq >= level.seq
<1> DEFINE l == SetFromPage(level, v)
<1>0. level \in Level /\ level.seq \in Nat
  BY DEF RustInv, RustTypeOK, Level
<1>1. CASE l = level
  BY <1>0, <1>1 DEF Apply, rust, RustInv, RustTypeOK, UnmuteIsHeard, OneWriteQueued,
                    SavedIsNewest, Newest, PairsHeard
<1>2. CASE l # level
  <2>1. l = SetLevel(level, v, "Page") /\ "Page" \in Writer
    BY <1>2 DEF SetFromPage, Writer
  <2>2. Sound(l) /\ l.chosen /\ l.seq = level.seq + 1
    BY <2>1, <1>0, SetLevelSound DEF RustInv, UnmuteIsHeard, Heard
  <2>3. level' = l /\ Keep(l) /\ lastBy' = by
    BY <1>2 DEF Apply
  <2>4. RustInv'
    BY <2>2, <2>3, KeepRustInv
  <2> QED
    BY <1>0, <2>2, <2>3, <2>4
<1> QED
  BY <1>1, <1>2

-----------------------------------------------------------------------------
(* The step lemmas, one per group of actions *)

(* A message leaves the head of the pages' wire.                           *)
LEMMA WireHead ==
    ASSUME toRust \in Seq(Send \cup Ask), NEW kind, FromPage(kind)
    PROVE  /\ toRust' \in Seq(Send \cup Ask)
           /\ Head(toRust).kind = kind
           /\ kind = "volume" => Head(toRust) \in Send
           /\ kind = "catchUp" => Head(toRust) \in Ask
<1>1. toRust # <<>> /\ Head(toRust).kind = kind /\ toRust' = Tail(toRust)
  BY DEF FromPage
<1>2. Head(toRust) \in Send \cup Ask /\ toRust' \in Seq(Send \cup Ask)
  BY <1>1
<1>3. \A m \in Send : m.kind = "volume"
  BY DEF Send
<1>4. \A m \in Ask : m.kind = "catchUp"
  BY DEF Ask
<1> QED
  BY <1>1, <1>2, <1>3, <1>4

LEMMA RustStep ==
    ASSUME IInv, Rust
    PROVE  IInv'
<1> USE DEF IInv
<1>0. /\ level \in Level /\ Heard(level) /\ level.floor <= level.seq /\ level.seq \in Nat
      /\ level.audible # Silent /\ "Remote" \in Writer
  BY DEF RustInv, RustTypeOK, UnmuteIsHeard, Heard, Level, Writer
<1>1. ASSUME NEW v \in Levels, SetRemoteVolume(v) \/ NoteVolume(v) PROVE IInv'
  <2> DEFINE l == SetLevel(level, v, "Remote")
  <2>1. Sound(l) /\ l.chosen /\ l.seq = level.seq + 1
    BY <1>0, SetLevelSound
  <2>2. Remote(l)
    BY <1>1 DEF SetRemoteVolume, NoteVolume
  <2> QED
    BY <2>1, <2>2, RemoteIInv
<1>2. ASSUME NEW mute \in BOOLEAN, SetMute(mute) PROVE IInv'
  <2> DEFINE l == IF mute THEN Mute(level) ELSE Unmute(level)
  <2>1. Sound(l) /\ l.chosen /\ l.seq = level.seq + 1
    BY <1>0, MuteSound
  <2>2. Remote(l)
    BY <1>2 DEF SetMute
  <2> QED
    BY <2>1, <2>2, RemoteIInv
<1>3. ASSUME NEW v \in Levels, PluginVolume(v) PROVE IInv'
  <2>1. RustInv' /\ level'.seq \in Nat /\ level'.seq >= level.seq
    BY <1>3, ApplyRustInv DEF PluginVolume
  <2>2. PageTypeOK'
    BY <1>3 DEF PluginVolume, PageTypeOK, Move, webpage, wires
  <2>3. ReportsKnown'
    BY <1>0, <1>3, <2>1 DEF PluginVolume, PageTypeOK, ReportsKnown, Report, webpage, wires
  <2> QED
    BY <2>1, <2>2, <2>3
<1>4. ASSUME SetVolume PROVE IInv'
  <2> DEFINE m == Head(toRust)
  <2>1. m \in Send /\ toRust' \in Seq(Send \cup Ask)
    BY <1>4, WireHead DEF SetVolume, PageTypeOK
  <2>2. m.volume \in Levels
    BY <2>1 DEF Send
  <2>3. RustInv' /\ level'.seq \in Nat /\ level'.seq >= level.seq
    <3>1. CASE Admits(level, m.seen)
      BY <1>4, <2>2, <3>1, ApplyRustInv DEF SetVolume
    <3>2. CASE ~ Admits(level, m.seen)
      BY <1>0, <1>4, <3>2 DEF SetVolume, rust, RustInv, RustTypeOK, UnmuteIsHeard,
                         OneWriteQueued, SavedIsNewest, Newest, PairsHeard
    <3> QED
      BY <3>1, <3>2
  <2>4. PageTypeOK'
    BY <1>4, <2>1 DEF SetVolume, PageTypeOK, webpage
  <2>5. ReportsKnown'
    BY <1>0, <1>4, <2>3 DEF SetVolume, PageTypeOK, ReportsKnown, Report, webpage
  <2> QED
    BY <2>3, <2>4, <2>5
<1>5. ASSUME CatchUpPage PROVE IInv'
  <2> DEFINE l == CatchUp(level)
             r == ReportOf(l, "reply")
  <2>1. /\ Sound(l) /\ l.seq = level.seq + 1
        /\ l.chosen = level.chosen /\ PairOf(l) = PairOf(level)
    BY <1>0, CatchUpSound
  <2>2. toRust' \in Seq(Send \cup Ask)
    BY <1>5, WireHead DEF CatchUpPage, PageTypeOK
  <2>3. /\ level' = l /\ reports' \subseteq reports \cup {r}
        /\ UNCHANGED <<unsaved, queued, writing, saved, lastBy, webpage, moves>>
    BY <1>5 DEF CatchUpPage
  <2> HIDE DEF l
  <2>4. RustInv'
    BY <2>1, <2>3 DEF RustInv, RustTypeOK, UnmuteIsHeard, OneWriteQueued, SavedIsNewest,
                      Newest, PairsHeard, Sound
  <2>5. r \in Report /\ r.seq = l.seq
    BY <2>1 DEF ReportOf, Report, Sound, Level
  <2>6. PageTypeOK'
    BY <2>2, <2>3, <2>5 DEF PageTypeOK, webpage
  <2>7. ReportsKnown'
    BY <1>0, <2>1, <2>3, <2>5 DEF PageTypeOK, ReportsKnown, Report, webpage
  <2> QED
    BY <2>4, <2>6, <2>7
<1> QED
  BY <1>1, <1>2, <1>3, <1>4, <1>5 DEF Rust

LEMMA DatabaseStep ==
    ASSUME IInv, Database
    PROVE  IInv'
<1> USE DEF IInv, RustInv, RustTypeOK, UnmuteIsHeard, PageTypeOK, ReportsKnown
<1>1. CASE SaveTakes
  <2>1. unsaved # NoPair /\ queued = 1
    BY <1>1 DEF SaveTakes, OneWriteQueued
  <2>2. /\ unsaved' = NoPair /\ queued' = 0 /\ writing' = unsaved /\ writing = NoPair
        /\ UNCHANGED <<level, saved, lastBy, webpage, wires, moves>>
    BY <1>1, <2>1 DEF SaveTakes
  <2>3. OneWriteQueued' /\ SavedIsNewest' /\ PairsHeard'
    BY <2>1, <2>2 DEF OneWriteQueued, SavedIsNewest, Newest, PairsHeard
  <2> QED
    BY <2>1, <2>2, <2>3 DEF webpage, wires
<1>2. CASE SaveCommits
  <2>1. /\ writing # NoPair /\ saved' = writing /\ writing' = NoPair
        /\ UNCHANGED <<level, unsaved, queued, lastBy, webpage, wires, moves>>
    BY <1>2 DEF SaveCommits
  <2>2. OneWriteQueued' /\ SavedIsNewest' /\ PairsHeard'
    BY <2>1 DEF OneWriteQueued, SavedIsNewest, Newest, PairsHeard
  <2> QED
    BY <2>1, <2>2 DEF webpage, wires
<1> QED
  BY <1>1, <1>2 DEF Database

(* The page's own steps leave Rust alone: only its state and wires move.   *)
LEMMA RustUnchanged ==
    ASSUME RustInv, UNCHANGED rust
    PROVE  RustInv' /\ level' = level
  BY DEF rust, RustInv, RustTypeOK, UnmuteIsHeard, OneWriteQueued, SavedIsNewest, Newest,
         PairsHeard

(* What a page sends is a message Rust reads.                              *)
LEMMA SendTyped ==
    ASSUME PageTypeOK, NEW v \in Levels, NEW k \in Nat, NEW b \in BOOLEAN
    PROVE  Append(toRust, [kind |-> "volume", volume |-> v, seen |-> k, restored |-> b])
               \in Seq(Send \cup Ask)
<1>1. [kind |-> "volume", volume |-> v, seen |-> k, restored |-> b] \in Send
  BY DEF Send
<1> QED
  BY <1>1 DEF PageTypeOK

LEMMA ForwardTyped ==
    ASSUME PageTypeOK, NEW v \in Levels, NEW b \in BOOLEAN, Forward(v, b)
    PROVE  held' \in Levels \cup {NotHeld} /\ toRust' \in Seq(Send \cup Ask)
<1>1. CASE v = held
  BY <1>1 DEF Forward, PageTypeOK
<1>2. CASE v # held
  BY <1>2, SendTyped DEF Forward, Resend, PageTypeOK
<1> QED
  BY <1>1, <1>2

LEMMA MirrorTyped ==
    ASSUME PageTypeOK, ReportsKnown, NEW r \in reports, Mirror(r)
    PROVE  /\ store' \in Levels /\ held' \in Levels \cup {NotHeld}
           /\ seen' \in Nat /\ seen' <= level.seq
<1>1. r \in Report /\ r.volume \in Levels /\ r.seq \in Nat /\ r.seq <= level.seq
  BY DEF PageTypeOK, ReportsKnown, Report
<1> QED
  BY <1>1 DEF Mirror, PageTypeOK, ReportsKnown

LEMMA PageStep ==
    ASSUME IInv, Page
    PROVE  IInv'
<1> USE DEF IInv
<1>1. RustInv' /\ level' = level
  <2>1. UNCHANGED rust
    BY DEF Page, UserVolume, RestoreApplies, ApplyVolume, StoreUp, ReceiveEvent, ReceiveReply,
           RestoreAsks
  <2> QED
    BY <2>1, RustUnchanged
<1>2. ASSUME NEW v \in Levels, UserVolume(v) PROVE PageTypeOK' /\ ReportsKnown'
  <2>1. held' \in Levels \cup {NotHeld} /\ toRust' \in Seq(Send \cup Ask)
    BY <1>2, ForwardTyped DEF UserVolume, PageTypeOK
  <2> QED
    BY <1>1, <1>2, <2>1 DEF UserVolume, Move, PageTypeOK, ReportsKnown
<1>3. ASSUME NEW v \in Levels, RestoreApplies(v) PROVE PageTypeOK' /\ ReportsKnown'
  <2>1. held' \in Levels \cup {NotHeld} /\ toRust' \in Seq(Send \cup Ask)
    BY <1>3, ForwardTyped DEF RestoreApplies, PageTypeOK
  <2> QED
    BY <1>1, <1>3, <2>1 DEF RestoreApplies, PageTypeOK, ReportsKnown
<1>4. ASSUME ApplyVolume PROVE PageTypeOK' /\ ReportsKnown'
  <2>1. held' \in Levels \cup {NotHeld} /\ toRust' \in Seq(Send \cup Ask)
    BY <1>4, ForwardTyped DEF ApplyVolume, PageTypeOK
  <2> QED
    BY <1>1, <1>4, <2>1 DEF ApplyVolume, PageTypeOK, ReportsKnown
<1>5. ASSUME StoreUp PROVE PageTypeOK' /\ ReportsKnown'
  <2>1. [kind |-> "catchUp", page |-> page] \in Ask
    BY DEF Ask, PageTypeOK
  <2>2. toRust' \in Seq(Send \cup Ask)
    BY <1>5, <2>1 DEF StoreUp, PageTypeOK
  <2> QED
    BY <1>1, <1>5, <2>2 DEF StoreUp, PageTypeOK, ReportsKnown
<1>6. ASSUME NEW r \in reports, ReceiveEvent(r) PROVE PageTypeOK' /\ ReportsKnown'
  <2>1. /\ store' \in Levels /\ held' \in Levels \cup {NotHeld}
        /\ seen' \in Nat /\ seen' <= level.seq
    BY <1>6, MirrorTyped DEF ReceiveEvent
  <2> QED
    BY <1>1, <1>6, <2>1 DEF ReceiveEvent, PageTypeOK, ReportsKnown
<1>7. ASSUME NEW r \in reports, ReceiveReply(r) PROVE PageTypeOK' /\ ReportsKnown'
  <2>1. /\ store' \in Levels /\ held' \in Levels \cup {NotHeld}
        /\ seen' \in Nat /\ seen' <= level.seq /\ toRust' \in Seq(Send \cup Ask)
    <3>1. CASE r.chosen
      BY <1>7, <3>1, MirrorTyped DEF ReceiveReply, PageTypeOK
    <3>2. CASE ~ r.chosen
      <4> DEFINE known == IF r.seq > seen THEN r.seq ELSE seen
      <4>1. known \in Nat /\ known <= level.seq
        BY DEF PageTypeOK, ReportsKnown, Report
      <4>2. SeedRust(r)
        BY <1>7, <3>2 DEF ReceiveReply
      <4>3. seen' = known /\ held' = store /\ store' = store
        BY <4>2 DEF SeedRust
      <4>4. toRust' = Append(toRust, [kind |-> "volume", volume |-> store,
                                      seen |-> known, restored |-> FALSE])
        BY <4>2 DEF SeedRust
      <4> HIDE DEF known
      <4>5. toRust' \in Seq(Send \cup Ask)
        BY <4>1, <4>4, SendTyped DEF PageTypeOK
      <4> QED
        BY <4>1, <4>3, <4>5 DEF PageTypeOK
    <3> QED
      BY <3>1, <3>2
  <2> QED
    BY <1>1, <1>7, <2>1 DEF ReceiveReply, PageTypeOK, ReportsKnown
<1>8. ASSUME RestoreAsks PROVE PageTypeOK' /\ ReportsKnown'
  BY <1>1, <1>8 DEF RestoreAsks, PageTypeOK, ReportsKnown, wires
<1> QED
  BY <1>1, <1>2, <1>3, <1>4, <1>5, <1>6, <1>7, <1>8 DEF Page

(* A launch starts from what the last one saved.                           *)
LEMMA RelaunchStep ==
    ASSUME IInv, Relaunch
    PROVE  IInv'
<1> USE DEF IInv
<1> DEFINE l == IF saved = NoPair THEN Start ELSE Restored(saved)
<1>1. /\ level' = l /\ unsaved' = NoPair /\ queued' = 0 /\ writing' = NoPair
      /\ saved' = saved /\ lastBy' \in {"none", "remote"} /\ seen' = 0 /\ reports' = {}
      /\ toRust' = <<>> /\ moves' = moves
  BY DEF Relaunch, FreshPage
<1>2. saved # NoPair => saved \in Pair /\ Heard(saved)
  BY DEF RustInv, RustTypeOK, PairsHeard
<1>3. /\ Sound(l) /\ (l.chosen <=> saved # NoPair)
      /\ saved # NoPair => PairOf(l) = saved
  <2>1. CASE saved = NoPair
    <3>1. Start \in Level /\ Heard(Start) /\ Start.floor <= Start.seq
      BY LevelAssumption DEF Start, Level, Heard
    <3>2. ~ Start.chosen
      BY DEF Start
    <3> QED
      BY <2>1, <3>1, <3>2 DEF Sound
  <2>2. CASE saved # NoPair
    BY <1>2, <2>2, RestoredSound
  <2> QED
    BY <2>1, <2>2
<1> HIDE DEF l
<1>4. RustInv'
  <2>1. RustTypeOK'
    BY <1>1, <1>3 DEF RustInv, RustTypeOK, Sound
  <2>2. UnmuteIsHeard' /\ level'.floor <= level'.seq /\ OneWriteQueued'
    BY <1>1, <1>3 DEF UnmuteIsHeard, Sound, OneWriteQueued
  <2>3. SavedIsNewest' /\ PairsHeard'
    BY <1>1, <1>2, <1>3 DEF SavedIsNewest, Newest, PairsHeard
  <2> QED
    BY <2>1, <2>2, <2>3 DEF RustInv
<1>5. PageTypeOK'
  <2>1. page' \in PageIds
    BY OutputLevelAssumption DEF PageTypeOK, Relaunch, FreshPage, PageIds
  <2> QED
    BY <1>1, <2>1, LevelAssumption DEF PageTypeOK, Relaunch, FreshPage
<1>6. ReportsKnown'
  BY <1>1, <1>3 DEF ReportsKnown, Sound, Level
<1> QED
  BY <1>4, <1>5, <1>6

LEMMA PageLoadStep ==
    ASSUME IInv, PageLoad
    PROVE  IInv'
<1> USE DEF IInv
<1>1. RustInv' /\ level' = level
  BY RustUnchanged DEF PageLoad
<1>2. reports' \subseteq reports /\ seen' = 0 /\ toRust' = toRust /\ moves' = moves
  BY DEF PageLoad, FreshPage
<1>3. PageTypeOK'
  <2>1. page' \in PageIds
    BY OutputLevelAssumption DEF PageTypeOK, PageLoad, FreshPage, PageIds
  <2> QED
    BY <1>2, <2>1, LevelAssumption DEF PageTypeOK, PageLoad, FreshPage
<1>4. ReportsKnown'
  BY <1>1, <1>2 DEF ReportsKnown, RustInv, RustTypeOK, Level
<1> QED
  BY <1>1, <1>3, <1>4

-----------------------------------------------------------------------------
(* The theorems *)

LEMMA InitIInv == LevelInit => IInv
<1> SUFFICES ASSUME LevelInit PROVE IInv
  OBVIOUS
<1>1. Start \in Level /\ Heard(Start) /\ Start.floor = 0 /\ Start.seq = 0
  BY LevelAssumption DEF Start, Level, Heard
<1>2. ~ Start.chosen
  BY DEF Start
<1>3. RustInv
  BY <1>1, <1>2 DEF LevelInit, RustInv, RustTypeOK, UnmuteIsHeard, OneWriteQueued, SavedIsNewest,
                    Newest, PairsHeard
<1>4. PageTypeOK /\ ReportsKnown
  BY <1>1, LevelAssumption, OutputLevelAssumption DEF LevelInit, PageTypeOK, ReportsKnown, PageIds
<1> QED
  BY <1>3, <1>4 DEF IInv

LEMMA NextIInv == IInv /\ [LevelNext]_levelVars => IInv'
<1> SUFFICES ASSUME IInv, [LevelNext]_levelVars PROVE IInv'
  OBVIOUS
<1>1. CASE Rust
  BY <1>1, RustStep
<1>2. CASE Database
  BY <1>2, DatabaseStep
<1>3. CASE Page
  BY <1>3, PageStep
<1>4. CASE PageLoad
  BY <1>4, PageLoadStep
<1>5. CASE Kill \/ Quit
  BY <1>5, RelaunchStep DEF Kill, Quit
<1>6. CASE UNCHANGED levelVars
  BY <1>6, RustUnchanged DEF levelVars, webpage, wires, IInv, PageTypeOK, ReportsKnown
<1> QED
  BY <1>1, <1>2, <1>3, <1>4, <1>5, <1>6 DEF LevelNext

(* The inductive invariant holds in every behaviour.                       *)
THEOREM Invariant == LevelSpec => []IInv
  BY InitIInv, NextIInv, PTL DEF LevelSpec

(* Every variable keeps its type.                                          *)
THEOREM LevelTypeCorrect == LevelSpec => []LevelTypeOK
<1>1. IInv => LevelTypeOK
  BY DEF IInv, RustInv, RustTypeOK, PageTypeOK, LevelTypeOK
<1> QED
  BY <1>1, Invariant, PTL

(* An unmute gives back the last audible level, however the page, the      *)
(* controllers and the restarts alternate (OutputLevel::unmute).           *)
THEOREM UnmuteCorrect == LevelSpec => []UnmuteIsHeard
<1>1. IInv => UnmuteIsHeard
  BY DEF IInv, RustInv
<1> QED
  BY <1>1, Invariant, PTL

(* One write is queued exactly while a level waits (LevelStore::save).     *)
THEOREM QueueCorrect == LevelSpec => []OneWriteQueued
<1>1. IInv => OneWriteQueued
  BY DEF IInv, RustInv
<1> QED
  BY <1>1, Invariant, PTL

(* What waits, is written or is on disk last is the level that plays.      *)
THEOREM SaveCorrect == LevelSpec => []SavedIsNewest
<1>1. IInv => SavedIsNewest
  BY DEF IInv, RustInv
<1> QED
  BY <1>1, Invariant, PTL

(* Neither a mute nor the disk loses a level, whoever sets one while another *)
(* is being written (LevelStore, OutputLevel::unmute).                       *)
THEOREM LevelKept == LevelSpec => []LevelNotLost
<1>1. UnmuteIsHeard /\ OneWriteQueued /\ SavedIsNewest => LevelNotLost
  BY DEF LevelNotLost
<1> QED
  BY <1>1, UnmuteCorrect, QueueCorrect, SaveCorrect, PTL

(* A page that took in the newest report is admitted.                      *)
THEOREM AdmitCorrect == LevelSpec => []NewestReportAdmitted
<1>1. IInv => NewestReportAdmitted
  BY DEF IInv, RustInv, ReportsKnown, NewestReportAdmitted
<1> QED
  BY <1>1, Invariant, PTL

(* A clean quit hands the next launch the level this one played.           *)
THEOREM QuitCorrect == LevelSpec => QuitKeepsLevel
<1>1. IInv /\ Quit /\ level.chosen => PairOf(level') = PairOf(level)
  <2> SUFFICES ASSUME IInv, Quit, level.chosen PROVE PairOf(level') = PairOf(level)
    OBVIOUS
  <2>1. queued = 0 /\ writing = NoPair /\ Relaunch
    BY DEF Quit
  <2>2. unsaved = NoPair /\ saved = PairOf(level)
    BY <2>1 DEF IInv, RustInv, OneWriteQueued, SavedIsNewest, Newest
  <2>3. saved \in Pair /\ saved # NoPair /\ Heard(saved)
    <3>1. PairOf(level) \in Pair
      BY DEF IInv, RustInv, RustTypeOK, PairOf, Level, Pair
    <3> QED
      BY <2>2, <3>1, OutputLevelAssumption DEF IInv, RustInv, PairsHeard
  <2>4. level' = Restored(saved)
    BY <2>1, <2>3 DEF Relaunch
  <2> QED
    BY <2>2, <2>3, <2>4, RestoredSound
<1>2. IInv /\ [LevelNext]_levelVars => [Quit /\ level.chosen => PairOf(level') = PairOf(level)]_levelVars
  BY <1>1
<1> QED
  BY <1>2, Invariant, PTL DEF LevelSpec, QuitKeepsLevel

-----------------------------------------------------------------------------
(* The page and Rust agree *)

Places == 1 .. Len(toRust)
Wire   == Seq(Send \cup Ask)

IsAsk(i) == toRust[i].kind = "catchUp"

(* Some page asks to catch up and Rust has not read it. *)
Asking == \E i \in Places : IsAsk(i)

(* Pages ask once each and in the order they were loaded, so that nothing  *)
(* of an older page is left once the newest one has its answer.            *)
AsksInOrder ==
    /\ \A i \in Places : IsAsk(i) => /\ toRust[i].page <= page
                                     /\ toRust[i].page = page => phase = "up"
    /\ \A i, j \in Places : i < j /\ IsAsk(i) /\ IsAsk(j) => toRust[i].page < toRust[j].page
    /\ phase = "up" /\ Asking => \E i \in Places : IsAsk(i) /\ toRust[i].page = page

(* No page knows a report newer than the last change it did not make. *)
FloorKnown == /\ seen <= level.floor
              /\ \A r \in reports : r.seq <= level.floor
              /\ \A i \in Places : ~IsAsk(i) => toRust[i].seen <= level.floor

(* A page knows no report before it has its store, and shows the one it took in. *)
Told == /\ phase = "up" /\ seen > 0 => held = store
        /\ phase = "loading" => seen = 0 /\ \A r \in reports : r.kind = "event"

(* Rust has read what the newest page asked, and so all that any page asked. *)
Answered == phase = "up" /\ ~Asking

(* A page behind the last change has it on its way, and is refused until then. *)
Behind == seen < level.floor =>
    /\ \A i \in Places : toRust[i].seen < level.floor
    /\ \E r \in reports : r.seq = level.floor
    /\ lastBy # "plugin" => \A r \in reports : r.seq = level.floor => r.volume = level.volume

(* The last message on the wire is one Rust takes. *)
LastCounts == toRust # <<>> /\ toRust[Len(toRust)].seen = level.floor

(* A page that is not behind has sent what it shows last, or Rust plays it. *)
Abreast == seen = level.floor =>
    /\ LastCounts => toRust[Len(toRust)].volume = store
    /\ ~LastCounts => \A i \in Places : toRust[i].seen # level.floor
    /\ ~LastCounts /\ lastBy # "plugin" => store = level.volume

Followed == Answered => level.floor > 0 /\ Behind /\ Abreast

FollowInv == AsksInOrder /\ FloorKnown /\ Told /\ Followed

(* A message joins the end of the wire. *)
LEMMA WireAppend ==
    ASSUME toRust \in Wire, NEW m \in Send \cup Ask, toRust' = Append(toRust, m)
    PROVE  /\ Places' = 1 .. Len(toRust) + 1
           /\ Len(toRust') = Len(toRust) + 1
           /\ toRust' # <<>>
           /\ \A i \in Places : toRust'[i] = toRust[i]
           /\ toRust'[Len(toRust) + 1] = m
  BY DEF Places, Wire

(* A message leaves its head. *)
LEMMA WireTail ==
    ASSUME toRust \in Wire, toRust # <<>>, toRust' = Tail(toRust)
    PROVE  /\ Places' = 1 .. Len(toRust) - 1
           /\ Len(toRust') = Len(toRust) - 1
           /\ Len(toRust) \in Nat \ {0}
           /\ \A i \in 1 .. Len(toRust) - 1 : toRust'[i] = toRust[i + 1]
           /\ Head(toRust) = toRust[1]
  BY DEF Places, Wire

(* What a place of the wire holds. *)
LEMMA WireTyped ==
    ASSUME toRust \in Wire, NEW i \in Places
    PROVE  IF IsAsk(i) THEN toRust[i] \in Ask ELSE toRust[i] \in Send
<1>1. toRust[i] \in Send \cup Ask
  BY DEF Places, Wire
<1> QED
  BY <1>1 DEF IsAsk, Send, Ask

(* Nothing moves that the page and Rust compare. *)
LEMMA QuietFollow ==
    ASSUME FollowInv, phase = "up" /\ seen > 0 => store' = store,
           UNCHANGED <<level, lastBy, page, phase, seen, held, toRust, reports>>
    PROVE  FollowInv'
<1>1. AsksInOrder' /\ FloorKnown' /\ Told'
  BY DEF FollowInv, AsksInOrder, FloorKnown, Told, Places, IsAsk, Asking
<1>2. ASSUME Answered' PROVE level'.floor > 0 /\ Behind' /\ Abreast'
  <2>1. Answered
    BY <1>2 DEF Answered, Asking, Places, IsAsk
  <2>2. level.floor > 0 /\ Behind /\ Abreast
    BY <2>1 DEF FollowInv, Followed
  <2>3. Behind'
    BY <2>2 DEF Behind, Places
  <2>4. Abreast'
    BY <2>1, <2>2 DEF Abreast, LastCounts, Places, Answered
  <2> QED
    BY <2>2, <2>3, <2>4
<1> QED
  BY <1>1, <1>2 DEF FollowInv, Followed

Says(v, k, b) == [kind |-> "volume", volume |-> v, seen |-> k, restored |-> b]

(* The page sends what it shows, knowing the reports up to k. *)
LEMMA SaysFollow ==
    ASSUME IInv, FollowInv, NEW v \in Levels, NEW k \in Nat, NEW b \in BOOLEAN,
           toRust' = Append(toRust, Says(v, k, b)), store' = v, held' = v, seen' = k,
           seen <= k, k <= level.floor, phase = "loading" => k = 0,
           UNCHANGED <<level, lastBy, page, phase>>,
           reports' \subseteq reports, \A r \in reports \ reports' : r.seq <= k
    PROVE  FollowInv'
<1> DEFINE m == Says(v, k, b)
<1>0. /\ toRust \in Wire /\ seen \in Nat /\ level.floor \in Nat /\ Len(toRust) \in Nat
      /\ \A r \in reports : r.seq \in Nat
  BY DEF IInv, PageTypeOK, RustInv, RustTypeOK, Level, Wire, Report
<1>1. m \in Send /\ m.kind = "volume" /\ m.volume = v /\ m.seen = k
  BY DEF Says, Send
<1> HIDE DEF m
<1>2. /\ Places' = 1 .. Len(toRust) + 1 /\ Len(toRust') = Len(toRust) + 1 /\ toRust' # <<>>
      /\ \A i \in Places : toRust'[i] = toRust[i]
      /\ toRust'[Len(toRust) + 1] = m
  BY <1>0, <1>1, WireAppend DEF m
<1>3. /\ \A i \in Places' : i \in Places \/ i = Len(toRust) + 1
      /\ \A i \in Places : i \in Places' /\ i # Len(toRust) + 1
      /\ Len(toRust) + 1 \in Places'
  BY <1>0, <1>2 DEF Places
<1>4. /\ \A i \in Places : IsAsk(i)' <=> IsAsk(i)
      /\ \A i \in Places' : IsAsk(i)' => i \in Places
  BY <1>1, <1>2, <1>3 DEF IsAsk
<1>5. AsksInOrder'
  <2>1. /\ \A i \in Places : IsAsk(i) => /\ toRust[i].page <= page
                                         /\ toRust[i].page = page => phase = "up"
        /\ \A i, j \in Places : i < j /\ IsAsk(i) /\ IsAsk(j) => toRust[i].page < toRust[j].page
        /\ phase = "up" /\ Asking => \E i \in Places : IsAsk(i) /\ toRust[i].page = page
    BY DEF FollowInv, AsksInOrder
  <2>2. Asking' => Asking
    BY <1>4 DEF Asking
  <2> QED
    BY <1>2, <1>3, <1>4, <2>1, <2>2 DEF AsksInOrder
<1>6. FloorKnown'
  <2>1. /\ \A r \in reports : r.seq <= level.floor
        /\ \A i \in Places : ~IsAsk(i) => toRust[i].seen <= level.floor
    BY DEF FollowInv, FloorKnown
  <2> QED
    BY <1>1, <1>2, <1>3, <1>4, <2>1 DEF FloorKnown
<1>7. Told'
  BY DEF FollowInv, Told
<1>8. ASSUME Answered' PROVE level'.floor > 0 /\ Behind' /\ Abreast'
  <2>1. Answered
    BY <1>3, <1>4, <1>8 DEF Answered, Asking
  <2>2. level.floor > 0 /\ Behind /\ Abreast
    BY <2>1 DEF FollowInv, Followed
  <2>3. ASSUME k < level.floor PROVE Behind'
    <3>1. seen < level.floor
      BY <1>0, <2>3
    <3>2. \A i \in Places : toRust[i].seen < level.floor
      BY <2>2, <3>1 DEF Behind
    <3>3. \A i \in Places' : toRust'[i].seen < level.floor
      BY <1>1, <1>2, <1>3, <2>3, <3>2
    <3>4. PICK r \in reports : r.seq = level.floor
      BY <2>2, <3>1 DEF Behind
    <3>5. r \in reports'
      BY <1>0, <2>3, <3>4
    <3>6. lastBy # "plugin" => \A q \in reports : q.seq = level.floor => q.volume = level.volume
      BY <2>2, <3>1 DEF Behind
    <3> QED
      BY <3>3, <3>4, <3>5, <3>6 DEF Behind
  <2>4. Abreast'
    <3>1. toRust'[Len(toRust')].volume = v /\ (k = level.floor => LastCounts')
      BY <1>1, <1>2 DEF LastCounts
    <3> QED
      BY <3>1 DEF Abreast
  <2> QED
    BY <1>0, <2>2, <2>3, <2>4 DEF Behind
<1> QED
  BY <1>5, <1>6, <1>7, <1>8 DEF FollowInv, Followed

(* The page takes in a report, or has taken in a later one. *)
LEMMA MirrorFollow ==
    ASSUME IInv, FollowInv, NEW r \in reports, Mirror(r), reports' = reports \ {r},
           UNCHANGED <<level, lastBy, page, phase, toRust>>
    PROVE  FollowInv'
<1>0. /\ seen \in Nat /\ level.floor \in Nat /\ \A q \in reports : q.seq \in Nat
      /\ phase \in {"loading", "up"}
  BY DEF IInv, PageTypeOK, RustInv, RustTypeOK, Level, Report
<1>1. AsksInOrder'
  BY DEF FollowInv, AsksInOrder, Places, IsAsk, Asking
<1>2. r.seq <= level.floor /\ seen <= level.floor
  BY DEF FollowInv, FloorKnown
<1>3. FloorKnown'
  <2>1. seen' <= level'.floor
    BY <1>2 DEF Mirror
  <2>2. \A q \in reports' : q.seq <= level'.floor
    BY DEF FollowInv, FloorKnown
  <2>3. \A i \in Places' : ~IsAsk(i)' => toRust'[i].seen <= level'.floor
    BY DEF FollowInv, FloorKnown, Places, IsAsk
  <2> QED
    BY <2>1, <2>2, <2>3 DEF FloorKnown
<1>4. Told'
  BY DEF FollowInv, Told, Mirror
<1>5. ASSUME Answered' PROVE level'.floor > 0 /\ Behind' /\ Abreast'
  <2>1. Answered /\ phase = "up"
    BY <1>5 DEF Answered, Asking, Places, IsAsk
  <2>2. level.floor > 0 /\ Behind /\ Abreast
    BY <2>1 DEF FollowInv, Followed
  <2>3. seen' = (IF r.seq <= seen THEN seen ELSE r.seq)
        /\ store' = (IF r.seq <= seen THEN store ELSE r.volume)
    BY <2>1 DEF Mirror
  <2>4. Behind'
    <3>1. SUFFICES ASSUME seen' < level.floor
                   PROVE  /\ \A i \in Places : toRust[i].seen < level.floor
                          /\ \E q \in reports' : q.seq = level.floor
                          /\ lastBy # "plugin" =>
                               \A q \in reports : q.seq = level.floor => q.volume = level.volume
      BY DEF Behind, Places
    <3>2. seen < level.floor /\ r.seq # level.floor
      BY <1>0, <2>3, <3>1
    <3> QED
      BY <2>2, <3>2 DEF Behind
  <2>5. Abreast'
    <3>1. CASE r.seq <= seen
      BY <2>2, <2>3, <3>1 DEF Abreast, LastCounts, Places
    <3>2. CASE ~ r.seq <= seen
      <4>1. SUFFICES ASSUME r.seq = level.floor PROVE Abreast'
        BY <2>3, <3>2 DEF Abreast
      <4>2. seen < level.floor /\ store' = r.volume
        BY <1>0, <2>3, <3>2, <4>1
      <4>3. \A i \in Places : toRust[i].seen < level.floor
        BY <2>2, <4>2 DEF Behind
      <4>4. \A i \in Places : toRust[i].seen # level.floor
        BY <1>0, <4>3
      <4>5. ~LastCounts
        <5>1. toRust # <<>> => Len(toRust) \in Places
          BY DEF IInv, PageTypeOK, Places
        <5> QED
          BY <4>4, <5>1 DEF LastCounts
      <4>6. lastBy # "plugin" => r.volume = level.volume
        BY <2>2, <4>1, <4>2 DEF Behind
      <4> QED
        BY <4>2, <4>4, <4>5, <4>6 DEF Abreast, LastCounts, Places
    <3> QED
      BY <3>1, <3>2
  <2> QED
    BY <2>2, <2>4, <2>5
<1> QED
  BY <1>1, <1>3, <1>4, <1>5 DEF FollowInv, Followed

(* The page has its store and asks: nothing it may go by has come yet. *)
LEMMA StoreUpFollow ==
    ASSUME IInv, FollowInv, StoreUp
    PROVE  FollowInv'
<1> DEFINE m == [kind |-> "catchUp", page |-> page]
<1>0. /\ toRust \in Wire /\ Len(toRust) \in Nat /\ page \in Nat
      /\ \A i \in Places : IsAsk(i) => toRust[i].page \in Nat
  <2>1. toRust \in Wire /\ Len(toRust) \in Nat /\ page \in Nat
    BY DEF IInv, PageTypeOK, Wire, PageIds
  <2>2. \A i \in Places : IsAsk(i) => toRust[i].page \in Nat
    BY <2>1, WireTyped DEF Ask, PageIds
  <2> QED
    BY <2>1, <2>2
<1>1. m \in Ask /\ m.kind = "catchUp" /\ m.page = page
  BY DEF Ask, IInv, PageTypeOK
<1>2. /\ phase = "loading" /\ phase' = "up" /\ toRust' = Append(toRust, m)
      /\ UNCHANGED <<level, lastBy, page, store, held, seen, reports>>
  BY DEF StoreUp, rust
<1> HIDE DEF m
<1>n. PICK n \in Nat : n = Len(toRust) + 1
  BY <1>0
<1>3. /\ Places' = 1 .. n
      /\ \A i \in Places : toRust'[i] = toRust[i]
      /\ toRust'[n] = m
  BY <1>0, <1>1, <1>2, <1>n, WireAppend
<1>4. /\ \A i \in Places' : i \in Places \/ i = n
      /\ n \in Places' /\ n \notin Places /\ \A i \in Places : i \in Places' /\ i < n
  BY <1>0, <1>3, <1>n DEF Places
<1>5. /\ \A i \in Places : IsAsk(i)' <=> IsAsk(i)
      /\ IsAsk(n)'
  BY <1>1, <1>3 DEF IsAsk
<1>6. \A i \in Places : IsAsk(i) => toRust[i].page < page
  BY <1>0, <1>2 DEF FollowInv, AsksInOrder
<1>7. AsksInOrder'
  <2>1. ASSUME NEW i \in Places', IsAsk(i)' PROVE toRust'[i].page <= page /\ phase' = "up"
    <3>1. CASE i \in Places
      <4>1. toRust[i].page \in Nat /\ toRust[i].page < page /\ toRust'[i] = toRust[i]
        BY <1>0, <1>3, <1>5, <1>6, <2>1, <3>1
      <4> QED
        BY <1>0, <1>2, <4>1
    <3>2. CASE i = n
      <4>1. toRust'[i] = m
        BY <1>3, <3>2
      <4>2. m.page <= page
        BY <1>0, <1>1
      <4> QED
        BY <1>2, <4>1, <4>2
    <3> QED
      BY <1>4, <3>1, <3>2
  <2>2. ASSUME NEW i \in Places', NEW j \in Places', i < j, IsAsk(i)', IsAsk(j)'
        PROVE  toRust'[i].page < toRust'[j].page
    <3>1. i \in Places
      BY <1>3, <1>4, <2>2
    <3>2. CASE j \in Places
      BY <1>3, <1>5, <2>2, <3>1, <3>2 DEF FollowInv, AsksInOrder
    <3>3. CASE j = n
      BY <1>1, <1>3, <1>5, <1>6, <2>2, <3>1, <3>3
    <3> QED
      BY <1>4, <3>2, <3>3
  <2>3. \E i \in Places' : IsAsk(i)' /\ toRust'[i].page = page'
    BY <1>1, <1>2, <1>3, <1>4, <1>5
  <2> QED
    BY <1>2, <2>1, <2>2, <2>3 DEF AsksInOrder
<1>8. FloorKnown'
  BY <1>2, <1>3, <1>4, <1>5 DEF FollowInv, FloorKnown
<1>9. Told'
  BY <1>2 DEF FollowInv, Told
<1>10. ~Answered'
  BY <1>4, <1>5 DEF Answered, Asking
<1> QED
  BY <1>7, <1>8, <1>9, <1>10 DEF FollowInv, Followed

(* What holds of every message on the wire holds when its head is read. *)
LEMMA TakenFollow ==
    ASSUME toRust \in Wire, toRust # <<>>, toRust' = Tail(toRust)
    PROVE  /\ \A i \in Places' : i + 1 \in Places /\ i + 1 > 1 /\ toRust'[i] = toRust[i + 1]
           /\ \A i \in Places : i > 1 => i - 1 \in Places' /\ toRust'[i - 1] = toRust[i]
           /\ 1 \in Places /\ Len(toRust) \in Places
           /\ toRust' = <<>> <=> Len(toRust) = 1
           /\ toRust' # <<>> => Len(toRust') \in Places' /\ toRust'[Len(toRust')] = toRust[Len(toRust)]
<1>1. /\ Places' = 1 .. Len(toRust) - 1 /\ Len(toRust') = Len(toRust) - 1
      /\ Len(toRust) \in Nat \ {0}
      /\ \A i \in 1 .. Len(toRust) - 1 : toRust'[i] = toRust[i + 1]
  BY WireTail
<1>2. /\ \A i \in Places' : i + 1 \in Places /\ i + 1 > 1 /\ toRust'[i] = toRust[i + 1]
      /\ \A i \in Places : i > 1 => i - 1 \in Places' /\ toRust'[i - 1] = toRust[i]
      /\ 1 \in Places /\ Len(toRust) \in Places
  BY <1>1 DEF Places
<1>3. toRust' \in Seq(Send \cup Ask)
  BY DEF Wire
<1>4. toRust' = <<>> <=> Len(toRust') = 0
  BY <1>3, EmptySeq
<1> QED
  BY <1>1, <1>2, <1>4

(* Rust reads a level: one the page may set plays, another is dropped. *)
LEMMA SetVolumeFollow ==
    ASSUME IInv, FollowInv, SetVolume
    PROVE  FollowInv'
<1> DEFINE m == Head(toRust)
<1>0. /\ toRust \in Wire /\ toRust # <<>> /\ toRust' = Tail(toRust) /\ m = toRust[1]
      /\ m.kind = "volume" /\ m.volume \in Levels /\ level \in Level
      /\ level.floor \in Nat /\ seen \in Nat /\ level.floor <= level.seq
      /\ level.audible # Silent
  <2>1. toRust \in Wire /\ level \in Level
    BY DEF IInv, PageTypeOK, RustInv, RustTypeOK, Wire
  <2>2. toRust # <<>> /\ toRust' = Tail(toRust) /\ m.kind = "volume"
    BY DEF SetVolume, FromPage
  <2>3. m = toRust[1] /\ m \in Send
    <3>1. Len(toRust) \in Nat \ {0} /\ m = toRust[1]
      BY <2>1, <2>2, WireTail
    <3>2. 1 \in Places
      BY <3>1 DEF Places
    <3> QED
      BY <2>1, <2>2, <3>1, <3>2, WireTyped DEF IsAsk
  <2> QED
    BY <2>1, <2>2, <2>3 DEF Send, IInv, PageTypeOK, RustInv, UnmuteIsHeard, Heard, Level
<1> HIDE DEF m
<1>1. UNCHANGED <<page, phase, store, held, seen, reports>>
  BY DEF SetVolume, webpage
<1>2. /\ \A i \in Places' : i + 1 \in Places /\ i + 1 > 1 /\ toRust'[i] = toRust[i + 1]
      /\ \A i \in Places : i > 1 => i - 1 \in Places' /\ toRust'[i - 1] = toRust[i]
      /\ 1 \in Places /\ Len(toRust) \in Places
      /\ toRust' = <<>> <=> Len(toRust) = 1
      /\ toRust' # <<>> => Len(toRust') \in Places' /\ toRust'[Len(toRust')] = toRust[Len(toRust)]
  BY <1>0, TakenFollow
<1>3. /\ level'.floor = level.floor
      /\ ~Admits(level, m.seen) => UNCHANGED <<level, lastBy>>
      /\ Admits(level, m.seen) => level'.volume = m.volume
  <2>1. CASE ~Admits(level, m.seen)
    BY <2>1 DEF SetVolume, rust, m
  <2>2. CASE Admits(level, m.seen)
    <3>1. Apply(m.volume, "page")
      BY <2>2 DEF SetVolume, m
    <3>2. CASE SetFromPage(level, m.volume) = level
      <4>1. level' = level
        BY <3>1, <3>2 DEF Apply, rust
      <4>2. m.volume # level.volume => SetFromPage(level, m.volume).volume = m.volume
        BY <1>0, SetLevelSound DEF SetFromPage, Writer
      <4> QED
        BY <2>2, <3>2, <4>1, <4>2
    <3>3. CASE SetFromPage(level, m.volume) # level
      <4>1. level' = SetLevel(level, m.volume, "Page")
        BY <3>1, <3>3 DEF Apply, SetFromPage
      <4> QED
        BY <1>0, <2>2, <4>1, SetLevelSound DEF Writer
    <3> QED
      BY <3>2, <3>3
  <2> QED
    BY <2>1, <2>2
<1>4. /\ \A i \in Places' : IsAsk(i)' <=> IsAsk(i + 1)
      /\ \A i \in Places : IsAsk(i) => i > 1 /\ IsAsk(i - 1)'
  <2>1. \A i \in Places' : IsAsk(i)' <=> IsAsk(i + 1)
    BY <1>2 DEF IsAsk
  <2>2. \A i \in Places : IsAsk(i) => i > 1
    BY <1>0 DEF IsAsk, Places
  <2> QED
    BY <1>2, <2>1, <2>2 DEF IsAsk
<1>5. AsksInOrder'
  <2>1. \A i \in Places' : IsAsk(i)' => /\ toRust'[i].page <= page
                                        /\ toRust'[i].page = page => phase = "up"
    BY <1>2, <1>4 DEF FollowInv, AsksInOrder
  <2>2. \A i, j \in Places' : i < j /\ IsAsk(i)' /\ IsAsk(j)' => toRust'[i].page < toRust'[j].page
    <3>1. \A i, j \in Places' : i < j => i + 1 < j + 1
      BY DEF Places
    <3> QED
      BY <1>2, <1>4, <3>1 DEF FollowInv, AsksInOrder
  <2>3. ASSUME phase = "up", Asking' PROVE \E i \in Places' : IsAsk(i)' /\ toRust'[i].page = page
    <3>1. Asking
      BY <1>2, <1>4, <2>3 DEF Asking
    <3>2. PICK i \in Places : IsAsk(i) /\ toRust[i].page = page
      BY <2>3, <3>1 DEF FollowInv, AsksInOrder
    <3> QED
      BY <1>2, <1>4, <3>2
  <2> QED
    BY <1>1, <2>1, <2>2, <2>3 DEF AsksInOrder
<1>6. FloorKnown'
  BY <1>1, <1>2, <1>3, <1>4 DEF FollowInv, FloorKnown
<1>7. Told'
  BY <1>1 DEF FollowInv, Told
<1>8. ASSUME Answered' PROVE level'.floor > 0 /\ Behind' /\ Abreast'
  <2>1. Answered
    BY <1>1, <1>4, <1>8, <1>2 DEF Answered, Asking
  <2>2. level.floor > 0 /\ Behind /\ Abreast
    BY <2>1 DEF FollowInv, Followed
  <2>3. Admits(level, m.seen) => m.seen = level.floor
    <3>1. m.seen \in Nat /\ m.seen <= level.floor
      <4>1. ~IsAsk(1)
        BY <1>0 DEF IsAsk
      <4> QED
        BY <1>0, <1>2, <4>1, WireTyped DEF FollowInv, FloorKnown, Send
    <3> QED
      BY <1>0, <3>1 DEF Admits
  <2>4. Behind'
    <3>1. SUFFICES ASSUME seen < level.floor PROVE Behind'
      BY <1>1, <1>3 DEF Behind
    <3>2. m.seen < level.floor
      BY <1>0, <1>2, <2>2, <3>1 DEF Behind
    <3>3. UNCHANGED <<level, lastBy>>
      BY <1>0, <1>3, <2>3, <3>2
    <3> QED
      BY <1>1, <1>2, <2>2, <3>1, <3>3 DEF Behind
  <2>5. Abreast'
    <3>1. SUFFICES ASSUME seen = level.floor PROVE Abreast'
      BY <1>1, <1>3 DEF Abreast
    <3>2. CASE toRust' # <<>>
      <4>1. LastCounts' <=> LastCounts
        BY <1>0, <1>2, <1>3, <3>2 DEF LastCounts
      <4>2. LastCounts => toRust'[Len(toRust')].volume = store
        BY <1>2, <2>2, <3>1, <3>2 DEF Abreast
      <4>3. ASSUME ~LastCounts PROVE /\ \A i \in Places' : toRust'[i].seen # level.floor
                                     /\ lastBy' # "plugin" => store = level'.volume
        <5>1. \A i \in Places : toRust[i].seen # level.floor
          BY <2>2, <3>1, <4>3 DEF Abreast
        <5>2. UNCHANGED <<level, lastBy>>
          BY <1>0, <1>2, <1>3, <2>3, <5>1
        <5> QED
          BY <1>2, <2>2, <3>1, <4>3, <5>1, <5>2 DEF Abreast
      <4> QED
        BY <1>1, <1>3, <4>1, <4>2, <4>3 DEF Abreast
    <3>3. CASE toRust' = <<>>
      <4>1. ~LastCounts' /\ Places' = {}
        BY <3>3 DEF LastCounts, Places
      <4>2. CASE m.seen = level.floor
        <5>1. LastCounts /\ Admits(level, m.seen) /\ toRust[Len(toRust)] = m
          BY <1>0, <1>2, <3>3, <4>2 DEF LastCounts, Admits
        <5>2. m.volume = store
          BY <2>2, <3>1, <5>1 DEF Abreast
        <5> QED
          BY <1>1, <1>3, <4>1, <5>1, <5>2 DEF Abreast
      <4>3. CASE m.seen # level.floor
        <5>1. ~LastCounts
          BY <1>0, <1>2, <3>3, <4>3 DEF LastCounts
        <5> QED
          BY <1>1, <1>3, <2>2, <2>3, <3>1, <4>1, <4>3, <5>1 DEF Abreast
      <4> QED
        BY <4>2, <4>3
    <3> QED
      BY <3>2, <3>3
  <2> QED
    BY <1>3, <2>2, <2>4, <2>5
<1> QED
  BY <1>5, <1>6, <1>7, <1>8 DEF FollowInv, Followed

(* Rust answers the oldest question: whoever asked it knows nothing newer. *)
LEMMA CatchUpFollow ==
    ASSUME IInv, FollowInv, CatchUpPage
    PROVE  FollowInv'
<1> DEFINE f == level.seq + 1
           r == ReportOf(CatchUp(level), "reply")
<1>0. /\ toRust \in Wire /\ toRust # <<>> /\ toRust' = Tail(toRust) /\ Head(toRust) = toRust[1]
      /\ IsAsk(1) /\ level.floor \in Nat /\ level.seq \in Nat /\ level.floor <= level.seq
      /\ seen \in Nat /\ page \in Nat
  <2>1. toRust \in Wire /\ toRust # <<>> /\ toRust' = Tail(toRust)
    BY DEF CatchUpPage, FromPage, IInv, PageTypeOK, Wire
  <2>2. Head(toRust) = toRust[1]
    BY <2>1, WireTail
  <2>3. IsAsk(1)
    BY <2>2 DEF CatchUpPage, FromPage, IsAsk
  <2> QED
    BY <2>1, <2>2, <2>3 DEF IInv, RustInv, RustTypeOK, Level, PageTypeOK, PageIds
<1>1. /\ level'.floor = f /\ level'.volume = level.volume
      /\ UNCHANGED <<lastBy, page, phase, store, held, seen>>
      /\ reports' = IF toRust[1].page = page THEN reports \cup {r} ELSE reports
  BY <1>0, CatchUpSound DEF CatchUpPage, webpage, IInv, RustInv, RustTypeOK, UnmuteIsHeard
<1>2. f \in Nat /\ f > 0 /\ level.floor < f /\ seen < f
  BY <1>0 DEF FollowInv, FloorKnown
<1>3. r.seq = f /\ r.volume = level.volume /\ r.kind = "reply"
  BY CatchUpSound DEF ReportOf, CatchUp, IInv, RustInv, RustTypeOK, UnmuteIsHeard, Level
<1> HIDE DEF f, r
<1>4. /\ \A i \in Places' : i + 1 \in Places /\ i + 1 > 1 /\ toRust'[i] = toRust[i + 1]
      /\ \A i \in Places : i > 1 => i - 1 \in Places' /\ toRust'[i - 1] = toRust[i]
      /\ 1 \in Places
  BY <1>0, TakenFollow
<1>5. /\ \A i \in Places' : IsAsk(i)' <=> IsAsk(i + 1)
      /\ \A i \in Places : i > 1 => (IsAsk(i - 1)' <=> IsAsk(i))
  BY <1>4 DEF IsAsk
<1>6. AsksInOrder'
  <2>1. \A i \in Places' : IsAsk(i)' => /\ toRust'[i].page <= page
                                        /\ toRust'[i].page = page => phase = "up"
    BY <1>4, <1>5 DEF FollowInv, AsksInOrder
  <2>2. \A i, j \in Places' : i < j /\ IsAsk(i)' /\ IsAsk(j)' => toRust'[i].page < toRust'[j].page
    <3>1. \A i, j \in Places' : i < j => i + 1 < j + 1
      BY DEF Places
    <3> QED
      BY <1>4, <1>5, <3>1 DEF FollowInv, AsksInOrder
  <2>3. ASSUME phase = "up", Asking' PROVE \E i \in Places' : IsAsk(i)' /\ toRust'[i].page = page
    <3>1. PICK j \in Places' : IsAsk(j)'
      BY <2>3 DEF Asking
    <3>2. j + 1 \in Places /\ IsAsk(j + 1) /\ j + 1 > 1
      BY <1>4, <1>5, <3>1
    <3>3. PICK i \in Places : IsAsk(i) /\ toRust[i].page = page
      BY <2>3, <3>2 DEF FollowInv, AsksInOrder, Asking
    <3>4. i # 1
      <4>1. SUFFICES ASSUME i = 1 PROVE FALSE
        OBVIOUS
      <4>2. page < toRust[j + 1].page /\ toRust[j + 1].page <= page
        BY <1>4, <3>2, <3>3, <4>1 DEF FollowInv, AsksInOrder
      <4>3. toRust[j + 1].page \in Nat
        BY <1>0, <3>2, WireTyped DEF Ask, PageIds
      <4> QED
        BY <1>0, <4>2, <4>3
    <3>5. i > 1
      BY <3>4 DEF Places
    <3> QED
      BY <1>4, <1>5, <3>3, <3>5
  <2> QED
    BY <1>1, <2>1, <2>2, <2>3 DEF AsksInOrder
<1>7. /\ \A q \in reports : q.seq \in Nat /\ q.seq < f
      /\ \A i \in Places : ~IsAsk(i) => toRust[i].seen \in Nat /\ toRust[i].seen < f
  <2>1. \A q \in reports : q.seq \in Nat /\ q.seq <= level.floor
    BY DEF FollowInv, FloorKnown, IInv, PageTypeOK, Report
  <2>2. ASSUME NEW i \in Places, ~IsAsk(i)
        PROVE  toRust[i].seen \in Nat /\ toRust[i].seen <= level.floor
    BY <1>0, <2>2, WireTyped DEF FollowInv, FloorKnown, Send
  <2> QED
    BY <1>0, <1>2, <2>1, <2>2
<1>8. FloorKnown'
  <2>1. seen' <= level'.floor
    BY <1>0, <1>1, <1>2
  <2>2. \A q \in reports' : q.seq <= level'.floor
    BY <1>1, <1>2, <1>3, <1>7
  <2>3. ASSUME NEW i \in Places', ~IsAsk(i)' PROVE toRust'[i].seen <= level'.floor
    <3>1. toRust'[i] = toRust[i + 1] /\ i + 1 \in Places /\ ~IsAsk(i + 1)
      BY <1>4, <1>5, <2>3
    <3>2. toRust[i + 1].seen \in Nat /\ toRust[i + 1].seen < f
      BY <1>7, <3>1
    <3> QED
      BY <1>1, <1>2, <3>1, <3>2
  <2> QED
    BY <2>1, <2>2, <2>3 DEF FloorKnown
<1>9. Told'
  <2>1. toRust[1].page = page => phase = "up"
    BY <1>0, <1>4 DEF FollowInv, AsksInOrder
  <2> QED
    BY <1>1, <2>1 DEF FollowInv, Told
<1>10. ASSUME Answered' PROVE level'.floor > 0 /\ Behind' /\ Abreast'
  <2>1. phase = "up" /\ \A i \in Places' : ~IsAsk(i)'
    BY <1>1, <1>10 DEF Answered, Asking
  <2>2. toRust[1].page = page
    <3>1. PICK i \in Places : IsAsk(i) /\ toRust[i].page = page
      BY <1>0, <1>4, <2>1 DEF FollowInv, AsksInOrder, Asking
    <3>2. ~ i > 1
      BY <1>4, <1>5, <2>1, <3>1
    <3>3. i = 1
      BY <3>2 DEF Places
    <3> QED
      BY <3>1, <3>3
  <2>3. reports' = reports \cup {r}
    BY <1>1, <2>2
  <2>4. \A i \in Places' : toRust'[i].seen < f
    BY <1>4, <1>5, <1>7, <2>1
  <2>5. \A q \in reports' : q.seq = f => q = r
    <3>1. \A q \in reports : q.seq # f
      BY <1>2, <1>7
    <3> QED
      BY <2>3, <3>1
  <2>6. Behind'
    BY <1>1, <1>3, <2>3, <2>4, <2>5 DEF Behind
  <2>7. Abreast'
    BY <1>0, <1>1, <1>2 DEF Abreast
  <2> QED
    BY <1>1, <1>2, <2>6, <2>7
<1> QED
  BY <1>6, <1>8, <1>9, <1>10 DEF FollowInv, Followed

(* A change no page makes is reported, and outdates all any page has sent. *)
LEMMA RemoteFollow ==
    ASSUME IInv, FollowInv, NEW l, Sound(l), l.seq = level.seq + 1, l.floor = l.seq, Remote(l)
    PROVE  FollowInv'
<1> DEFINE r == ReportOf(l, "event")
<1>0. /\ level' = l /\ reports' = reports \cup {r}
      /\ UNCHANGED <<toRust, page, phase, store, held, seen>>
  BY DEF Remote, webpage
<1>1. r.seq = l.floor /\ r.volume = l.volume /\ r.kind = "event"
  BY DEF ReportOf
<1> HIDE DEF r
<1>2. /\ toRust \in Wire /\ level.floor \in Nat /\ l.floor \in Nat /\ seen \in Nat
      /\ level.floor < l.floor /\ l.floor > 0
  BY DEF IInv, PageTypeOK, RustInv, RustTypeOK, Level, Wire, Sound
<1>3. seen < l.floor
  BY <1>2 DEF FollowInv, FloorKnown
<1>4. /\ \A q \in reports : q.seq \in Nat /\ q.seq < l.floor
      /\ \A i \in Places : ~IsAsk(i) => toRust[i].seen \in Nat /\ toRust[i].seen < l.floor
  <2>1. \A q \in reports : q.seq \in Nat /\ q.seq <= level.floor
    BY DEF FollowInv, FloorKnown, IInv, PageTypeOK, Report
  <2>2. ASSUME NEW i \in Places, ~IsAsk(i)
        PROVE  toRust[i].seen \in Nat /\ toRust[i].seen <= level.floor
    BY <1>2, <2>2, WireTyped DEF FollowInv, FloorKnown, Send
  <2> QED
    BY <1>2, <2>1, <2>2
<1>5. AsksInOrder'
  BY <1>0 DEF FollowInv, AsksInOrder, Places, IsAsk, Asking
<1>6. FloorKnown'
  BY <1>0, <1>1, <1>2, <1>3, <1>4 DEF FloorKnown, Places, IsAsk
<1>7. Told'
  BY <1>0, <1>1 DEF FollowInv, Told
<1>8. ASSUME Answered' PROVE level'.floor > 0 /\ Behind' /\ Abreast'
  <2>1. \A i \in Places : ~IsAsk(i)
    BY <1>0, <1>8 DEF Answered, Asking, Places, IsAsk
  <2>2. \A q \in reports' : q.seq = l.floor => q = r
    <3>1. \A q \in reports : q.seq # l.floor
      BY <1>2, <1>4
    <3> QED
      BY <1>0, <3>1
  <2>3. Behind'
    BY <1>0, <1>1, <1>4, <2>1, <2>2 DEF Behind, Places
  <2>4. Abreast'
    BY <1>0, <1>2, <1>3 DEF Abreast
  <2> QED
    BY <1>0, <1>2, <2>3, <2>4
<1> QED
  BY <1>5, <1>6, <1>7, <1>8 DEF FollowInv, Followed

(* A plugin's level is excused, and outdates no report. *)
LEMMA PluginFollow ==
    ASSUME IInv, FollowInv, NEW v \in Levels, PluginVolume(v)
    PROVE  FollowInv'
<1>1. Apply(v, "plugin") /\ UNCHANGED <<page, phase, store, held, seen, toRust, reports>>
  BY DEF PluginVolume, webpage, wires
<1>2. CASE SetFromPage(level, v) = level
  BY <1>1, <1>2, QuietFollow DEF Apply, rust
<1>3. CASE SetFromPage(level, v) # level
  <2>1. level' = SetLevel(level, v, "Page") /\ lastBy' = "plugin"
    BY <1>1, <1>3 DEF Apply, SetFromPage
  <2>2. level'.floor = level.floor
    BY <2>1, SetLevelSound DEF IInv, RustInv, RustTypeOK, UnmuteIsHeard, Heard, Writer
  <2>3. AsksInOrder' /\ FloorKnown' /\ Told'
    BY <1>1, <2>2 DEF FollowInv, AsksInOrder, FloorKnown, Told, Places, IsAsk, Asking
  <2>4. ASSUME Answered' PROVE level'.floor > 0 /\ Behind' /\ Abreast'
    <3>1. level.floor > 0 /\ Behind /\ Abreast
      BY <1>1, <2>4 DEF FollowInv, Followed, Answered, Asking, Places, IsAsk
    <3>2. Behind'
      BY <1>1, <2>1, <2>2, <3>1 DEF Behind, Places
    <3>3. Abreast'
      BY <1>1, <2>1, <2>2, <3>1 DEF Abreast, LastCounts, Places
    <3> QED
      BY <2>2, <3>1, <3>2, <3>3
  <2> QED
    BY <2>3, <2>4 DEF FollowInv, Followed
<1> QED
  BY <1>2, <1>3

(* A new page knows nothing, and has asked nothing. *)
LEMMA FreshFollow ==
    ASSUME IInv, FollowInv, FreshPage,
           \/ PageLoad
           \/ Relaunch
    PROVE  FollowInv'
<1>0. /\ page' = page + 1 /\ phase' = "loading" /\ seen' = 0 /\ page \in Nat
      /\ \A i \in Places : IsAsk(i) => toRust[i].page \in Nat
  <2>1. toRust \in Wire /\ page \in Nat
    BY DEF IInv, PageTypeOK, Wire, PageIds
  <2> QED
    BY <2>1, WireTyped DEF FreshPage, Ask, PageIds
<1>1. ~Answered'
  BY <1>0 DEF Answered
<1>2. CASE PageLoad
  <2>1. toRust' = toRust /\ level' = level /\ reports' \subseteq {r \in reports : r.kind = "event"}
    BY <1>2 DEF PageLoad, rust
  <2>2. level.floor \in Nat
    BY DEF IInv, RustInv, RustTypeOK, Level
  <2>3. \A i \in Places : IsAsk(i) => toRust[i].page < page'
    BY <1>0 DEF FollowInv, AsksInOrder
  <2>4. AsksInOrder'
    <3>1. \A i \in Places : IsAsk(i) => toRust[i].page <= page' /\ toRust[i].page # page'
      BY <1>0, <2>3
    <3> QED
      BY <1>0, <2>1, <3>1 DEF FollowInv, AsksInOrder, Places, IsAsk
  <2>5. FloorKnown'
    BY <1>0, <2>1, <2>2 DEF FollowInv, FloorKnown, Places, IsAsk
  <2>6. Told'
    BY <1>0, <2>1 DEF Told
  <2> QED
    BY <1>1, <2>4, <2>5, <2>6 DEF FollowInv, Followed
<1>3. CASE Relaunch
  <2>1. toRust' = <<>> /\ reports' = {}
    BY <1>3 DEF Relaunch
  <2>2. IInv'
    BY <1>3, RelaunchStep
  <2>3. level'.floor \in Nat
    BY <2>2 DEF IInv, RustInv, RustTypeOK, Level
  <2>4. Places' = {}
    BY <2>1 DEF Places
  <2>5. AsksInOrder' /\ FloorKnown' /\ Told'
    BY <1>0, <2>1, <2>3, <2>4 DEF AsksInOrder, FloorKnown, Told, Asking
  <2> QED
    BY <1>1, <2>5 DEF FollowInv, Followed
<1> QED
  BY <1>2, <1>3

(* What the page forwards is what it shows. *)
LEMMA ForwardFollow ==
    ASSUME IInv, FollowInv, NEW v \in Levels, NEW b \in BOOLEAN, Forward(v, b), store' = v,
           UNCHANGED <<level, lastBy, page, phase, seen, reports>>
    PROVE  FollowInv'
<1>1. CASE v = held
  <2>1. UNCHANGED <<held, toRust>>
    BY <1>1 DEF Forward
  <2>2. phase = "up" /\ seen > 0 => store' = store
    BY <1>1 DEF FollowInv, Told
  <2> QED
    BY <2>1, <2>2, QuietFollow
<1>2. CASE v # held
  <2>1. seen \in Nat /\ seen <= level.floor /\ (phase = "loading" => seen = 0)
    BY DEF IInv, PageTypeOK, FollowInv, FloorKnown, Told
  <2>2. held' = v /\ toRust' = Append(toRust, Says(v, seen, b))
    BY <1>2 DEF Forward, Resend, Says
  <2> QED
    BY <2>1, <2>2, SaysFollow
<1> QED
  BY <1>1, <1>2

LEMMA PageFollow ==
    ASSUME IInv, FollowInv, Page
    PROVE  FollowInv'
<1>0. UNCHANGED <<level, lastBy>> /\ store \in Levels /\ phase \in {"loading", "up"}
  BY DEF Page, UserVolume, RestoreApplies, ApplyVolume, StoreUp, ReceiveEvent, ReceiveReply,
         RestoreAsks, rust, IInv, PageTypeOK
<1>1. ASSUME NEW v \in Levels, UserVolume(v) PROVE FollowInv'
  <2>1. store' = v /\ UNCHANGED <<page, phase, seen, reports>>
    BY <1>1 DEF UserVolume
  <2>2. CASE phase = "up"
    BY <1>0, <1>1, <2>1, <2>2, ForwardFollow DEF UserVolume
  <2>3. CASE phase # "up"
    BY <1>0, <1>1, <2>1, <2>3, QuietFollow DEF UserVolume
  <2> QED
    BY <2>2, <2>3
<1>2. ASSUME NEW v \in Levels, RestoreApplies(v) PROVE FollowInv'
  <2>1. store' = v /\ UNCHANGED <<page, phase, seen, reports>>
    BY <1>2 DEF RestoreApplies
  <2>2. CASE phase = "up" /\ v # store
    BY <1>0, <1>2, <2>1, <2>2, ForwardFollow DEF RestoreApplies
  <2>3. CASE ~(phase = "up" /\ v # store)
    BY <1>0, <1>2, <2>1, <2>3, QuietFollow DEF RestoreApplies
  <2> QED
    BY <2>2, <2>3
<1>3. ASSUME ApplyVolume PROVE FollowInv'
  BY <1>0, <1>3, ForwardFollow DEF ApplyVolume
<1>4. ASSUME StoreUp PROVE FollowInv'
  BY <1>4, StoreUpFollow
<1>5. ASSUME NEW r \in reports, ReceiveEvent(r) PROVE FollowInv'
  BY <1>0, <1>5, MirrorFollow DEF ReceiveEvent
<1>6. ASSUME NEW r \in reports, ReceiveReply(r) PROVE FollowInv'
  <2>1. reports' = reports \ {r} /\ UNCHANGED <<page, phase>>
    BY <1>6 DEF ReceiveReply
  <2>2. CASE r.chosen
    BY <1>0, <1>6, <2>1, <2>2, MirrorFollow DEF ReceiveReply
  <2>3. CASE ~ r.chosen
    <3> DEFINE k == IF r.seq > seen THEN r.seq ELSE seen
    <3>1. /\ seen' = k /\ held' = store /\ store' = store
          /\ toRust' = Append(toRust, Says(store, k, FALSE))
      BY <1>6, <2>3 DEF ReceiveReply, SeedRust, Says
    <3>2. k \in Nat /\ seen <= k /\ k <= level.floor /\ r.seq <= k
      BY DEF FollowInv, FloorKnown, IInv, PageTypeOK, Report
    <3>3. phase # "loading"
      BY <1>6 DEF FollowInv, Told, ReceiveReply
    <3> HIDE DEF k
    <3> QED
      BY <1>0, <2>1, <3>1, <3>2, <3>3, SaysFollow
  <2> QED
    BY <2>2, <2>3
<1>7. ASSUME RestoreAsks PROVE FollowInv'
  BY <1>0, <1>7, QuietFollow DEF RestoreAsks, wires
<1> QED
  BY <1>1, <1>2, <1>3, <1>4, <1>5, <1>6, <1>7 DEF Page

LEMMA RustFollow ==
    ASSUME IInv, FollowInv, Rust
    PROVE  FollowInv'
<1>0. /\ level \in Level /\ Heard(level) /\ level.floor <= level.seq
      /\ level.audible # Silent /\ "Remote" \in Writer
  BY DEF IInv, RustInv, RustTypeOK, UnmuteIsHeard, Heard, Level, Writer
<1>1. ASSUME NEW v \in Levels, SetRemoteVolume(v) \/ NoteVolume(v) PROVE FollowInv'
  <2> DEFINE l == SetLevel(level, v, "Remote")
  <2>1. Sound(l) /\ l.seq = level.seq + 1 /\ l.floor = l.seq
    BY <1>0, SetLevelSound
  <2>2. Remote(l)
    BY <1>1 DEF SetRemoteVolume, NoteVolume
  <2> QED
    BY <2>1, <2>2, RemoteFollow
<1>2. ASSUME NEW mute \in BOOLEAN, SetMute(mute) PROVE FollowInv'
  <2> DEFINE l == IF mute THEN Mute(level) ELSE Unmute(level)
  <2>1. Sound(l) /\ l.seq = level.seq + 1 /\ l.floor = l.seq
    BY <1>0, MuteSound
  <2>2. Remote(l)
    BY <1>2 DEF SetMute
  <2> QED
    BY <2>1, <2>2, RemoteFollow
<1> QED
  BY <1>1, <1>2, PluginFollow, SetVolumeFollow, CatchUpFollow DEF Rust

LEMMA InitFollow == LevelInit => FollowInv
<1> SUFFICES ASSUME LevelInit PROVE FollowInv
  OBVIOUS
<1>1. Places = {} /\ level.floor = 0
  BY DEF LevelInit, Places, Start
<1> QED
  BY <1>1 DEF LevelInit, FollowInv, AsksInOrder, FloorKnown, Told, Followed, Answered, Asking

LEMMA NextFollow == IInv /\ FollowInv /\ [LevelNext]_levelVars => FollowInv'
<1> SUFFICES ASSUME IInv, FollowInv, [LevelNext]_levelVars PROVE FollowInv'
  OBVIOUS
<1>1. CASE Rust
  BY <1>1, RustFollow
<1>2. CASE Database
  BY <1>2, QuietFollow DEF Database, SaveTakes, SaveCommits, webpage, wires
<1>3. CASE Page
  BY <1>3, PageFollow
<1>4. CASE PageLoad
  BY <1>4, FreshFollow DEF PageLoad
<1>5. CASE Kill \/ Quit
  BY <1>5, FreshFollow DEF Kill, Quit, Relaunch
<1>6. CASE UNCHANGED levelVars
  BY <1>6, QuietFollow DEF levelVars, rust, webpage, wires
<1> QED
  BY <1>1, <1>2, <1>3, <1>4, <1>5, <1>6 DEF LevelNext

(* Once nothing is on its way, the page shows the level Rust plays, and    *)
(* the page that took in the newest report is always admitted: whichever   *)
(* of the pages, controllers, the mixer and TIDAL's restore raced          *)
(* (OutputLevel::admits, VolumeForwarder, catchUpWithRust).                *)
THEOREM FollowsCorrect == LevelSpec => []PageFollows
<1>1. IInv /\ FollowInv => Agree
  <2> SUFFICES ASSUME IInv, FollowInv, Quiescent, lastBy # "plugin" PROVE store = level.volume
    BY DEF Agree
  <2>1. toRust = <<>> /\ reports = {} /\ phase = "up"
    BY DEF Quiescent
  <2>2. Answered
    BY <2>1 DEF Answered, Asking, Places
  <2>3. Behind /\ Abreast /\ seen <= level.floor /\ seen \in Nat /\ level.floor \in Nat
    BY <2>2 DEF FollowInv, Followed, FloorKnown, IInv, PageTypeOK, RustInv, RustTypeOK, Level
  <2>4. ~ seen < level.floor
    BY <2>1, <2>3 DEF Behind
  <2> QED
    BY <2>1, <2>3, <2>4 DEF Abreast, LastCounts
<1>2. NewestReportAdmitted /\ Agree => PageFollows
  BY DEF PageFollows
<1> QED
  BY <1>1, <1>2, Invariant, AdmitCorrect, InitFollow, NextFollow, PTL DEF LevelSpec

-----------------------------------------------------------------------------
(***************************************************************************)
(* THE LOADS (LoadCoordinator).                                            *)
(***************************************************************************)
(* TypeOK without the channel and what follows from the words.             *)
StateOK ==
    /\ uses \in Sessions
    /\ gen \in GenOr0
    /\ mint \in [Gens -> Mint]
    /\ at \in [Gens -> Steps]
    /\ lock \in GenOr0
    /\ eventSeq \in Nat
    /\ seqOf \in [Gens -> Nat]
    /\ handle \in GenOr0
    /\ token \in GenOr0
    /\ cancelled \subseteq Gens
    /\ published \in GenOr0
    /\ task \in [Gens -> {"none", "spawned", "running", "done", "dropped"}]
    /\ aborted \subseteq Gens
    /\ staged \in [track : Tracks, gen : GenOr0] \cup {None}
    /\ ended \in Nat
    /\ takers \in Nat
    /\ asks \in Nat
    /\ asked \in BOOLEAN
    /\ undercut \in BOOLEAN

ThreadOK ==
    /\ committed \in Tracks \cup {Dash, None}
    /\ currentTrack \in Tracks \cup {Dash, None}
    /\ hasTrack \in BOOLEAN
    /\ playing \in BOOLEAN
    /\ orphaned \in BOOLEAN
    /\ resume \in BOOLEAN
    /\ loadingGen \in GenOr0
    /\ pendingPlay \in GenOr0
    /\ currentSeq \in Nat

(* The newest word still says what a replay, or a re-arm, was taken from. *)
Saw(g, t) == /\ g \in 1 .. gen
             /\ mint[g].kind # "stop"
             /\ mint[g].track = t

LoadSteps == {"announce", "abort", "publish", "spawn"}

(* Every generation up to the newest was minted, and a stop never loads.   *)
StepsOK == \A g \in Gens :
    /\ at[g] # "none" <=> g <= gen
    /\ at[g] \in LoadSteps => mint[g].kind # "stop" /\ mint[g].track \in Tracks \cup {Dash}

SourceOK ==
    /\ retained \in [track : Tracks, gen : Gens] \cup {None}
    /\ retained # None => Saw(retained.gen, retained.track)

ReplaysOK ==
    /\ replays \subseteq [over : Gens, track : Tracks, play : BOOLEAN]
    /\ \A r \in replays : Saw(r.over, r.track)

Tails == [kind : {"advance", "rearm"}, over : GenOr0, track : Tracks, play : BOOLEAN]

(* A tail of the newest load is of this host's own, or saw that load.      *)
TailOK(t) ==
    /\ t.over <= gen
    /\ t.kind = "advance" /\ t.over = gen => Owner = "Local"
    /\ t.kind = "rearm" => Saw(t.over, t.track)

TailsOK == tails \subseteq Tails /\ \A t \in tails : TailOK(t)

WordInv == /\ StateOK
           /\ ThreadOK
           /\ StepsOK
           /\ SourceOK
           /\ ReplaysOK
           /\ TailsOK
           /\ AdvanceIsLocal
           /\ RearmCarriesOn

-----------------------------------------------------------------------------
(* What a step does to the words and to what was taken from them *)

(* A mint: a continuation of a load it saw, or a request over whatever plays. *)
MintFrame == \E m \in Mint, s \in {"announce", "send"} :
    /\ MintAs(m, s)
    /\ s = "announce" => m.kind # "stop" /\ m.track \in Tracks \cup {Dash}
    /\ m.kind = "advance" => m.owner = "Local"
    /\ m.kind = "rearm" => Saw(gen, m.track) /\ m.owner = Owner
    /\ UNCHANGED <<retained, replays>>
    /\ tails' \subseteq tails

Published(g) ==
    retained' = IF mint[g].track = Dash THEN None ELSE [track |-> mint[g].track, gen |-> g]

(* A request's next step. *)
CarryFrame == \E g \in Gens, s \in Steps \ {"none"} :
    /\ UNCHANGED <<gen, mint, replays, tails>>
    /\ at[g] # "none"
    /\ s \in LoadSteps => at[g] \in LoadSteps
    /\ at' = [at EXCEPT ![g] = s]
    /\ retained' = retained \/ (at[g] = "publish" /\ Published(g))

Replay(r, p) == [over |-> r.gen, track |-> r.track, play |-> p]

(* Any other step takes replays from the source, and tails from a replay or the staged track. *)
RuntimeFrame ==
    /\ UNCHANGED <<gen, mint, at, retained>>
    /\ \A r \in replays' : r \in replays
         \/ (retained # None /\ \E p \in BOOLEAN : r = Replay(retained, p))
    /\ \A t \in tails' : \/ t \in tails
         \/ /\ staged # None /\ Owner = "Local"
            /\ t = [kind |-> "advance", over |-> gen, track |-> staged.track, play |-> TRUE]
         \/ \E r \in replays :
              t = [kind |-> "rearm", over |-> r.over, track |-> r.track, play |-> r.play]

USE DEF word, seqs, slots, source, futures, thread, history, Gens, GenOr0

LEMMA BeginLoadFrame ==
    ASSUME StateOK, NEW t \in Tracks \cup {Dash}, NEW p \in BOOLEAN, NEW o \in Owners,
           BeginLoad(t, p, o)
    PROVE  MintFrame
<1> DEFINE m == [kind |-> "load", track |-> t, play |-> p, owner |-> o, orphans |-> FALSE]
<1>1. m \in Mint
  BY DEF Mint, Kinds
<1>2. MintAs(m, "announce") /\ UNCHANGED <<retained, replays>> /\ tails' \subseteq tails
  BY DEF BeginLoad
<1> QED BY <1>1, <1>2 DEF MintFrame

LEMMA StopFrame ==
    ASSUME StateOK, NEW scope \in Scopes, Stop(scope)
    PROVE  MintFrame
<1> DEFINE m == [kind |-> "stop", track |-> None, play |-> FALSE, owner |-> Claim(scope),
                 orphans |-> scope = "OwnMusic"]
<1>1. Owner \in Owners
  BY DEF StateOK, Owner, Mint, Owners
<1>2. Claim(scope) \in Owners
  <2>1. Claim(scope) # None
    BY DEF Stop
  <2> QED BY <1>1, <2>1 DEF Claim, Scopes, Owners
<1>3. m \in Mint
  BY <1>2 DEF Mint, Kinds
<1>4. MintAs(m, "send") /\ UNCHANGED <<retained, replays>> /\ tails' \subseteq tails
  BY DEF Stop
<1> QED BY <1>3, <1>4 DEF MintFrame

LEMMA ContinueFrame ==
    ASSUME StateOK, TailsOK, NEW t \in tails, Continue(t)
    PROVE  MintFrame \/ RuntimeFrame
<1> DEFINE m == [kind |-> t.kind, track |-> t.track, play |-> t.play, owner |-> Owner,
                 orphans |-> FALSE]
<1>1. Owner \in Owners
  BY DEF StateOK, Owner, Mint, Owners
<1>2. t \in Tails /\ TailOK(t)
  BY DEF TailsOK
<1>3. m \in Mint
  BY <1>1, <1>2 DEF Mint, Kinds, Tails
<1>4. UNCHANGED <<retained, replays>> /\ tails' \subseteq tails
  BY DEF Continue
<1>5. CASE ContinueLoad(t.kind, t.over, t.track, t.play)
  <2>1. MintAs(m, "announce") /\ gen = t.over
    BY <1>5 DEF ContinueLoad
  <2>2. m.kind # "stop" /\ m.track \in Tracks \cup {Dash}
    BY <1>2 DEF Tails
  <2>3. m.kind = "advance" => m.owner = "Local"
    BY <1>2, <2>1 DEF TailOK
  <2>4. m.kind = "rearm" => Saw(gen, m.track) /\ m.owner = Owner
    BY <1>2, <2>1 DEF TailOK
  <2> QED BY <1>3, <1>4, <2>1, <2>2, <2>3, <2>4 DEF MintFrame
<1>6. CASE UNCHANGED <<gen, mint, at>>
  BY <1>4, <1>6 DEF RuntimeFrame
<1> QED BY <1>5, <1>6 DEF Continue

LEMMA CarryFrames ==
    ASSUME StateOK, NEW g \in Gens, Carry(g)
    PROVE  CarryFrame
<1> USE DEF Advance, Steps, LoadSteps, CarryFrame
<1>1. CASE SendStop(g)
  BY <1>1 DEF SendStop
<1>2. CASE Announce(g)
  BY <1>2 DEF Announce
<1>3. CASE AbortPrevious(g)
  BY <1>3 DEF AbortPrevious
<1>4. CASE PublishLoad(g)
  BY <1>4 DEF PublishLoad, Published
<1>5. CASE Spawn(g)
  BY <1>5 DEF Spawn
<1> QED BY <1>1, <1>2, <1>3, <1>4, <1>5 DEF Carry

LEMMA RuntimeFrames ==
    ASSUME StateOK, TailsOK, Runtime
    PROVE  MintFrame \/ RuntimeFrame
<1>1. CASE \E g \in Gens : StartTask(g)
  BY <1>1 DEF StartTask, RuntimeFrame
<1>2. CASE \E g \in Gens, d \in BOOLEAN : EndTask(g, d)
  BY <1>2 DEF EndTask, RuntimeFrame
<1>3. CASE \E t \in Tracks : Stage(t)
  BY <1>3 DEF Stage, RuntimeFrame
<1>4. CASE TakeNext
  BY <1>4 DEF TakeNext, RuntimeFrame
<1>5. CASE DispatchCompleted
  BY <1>5 DEF DispatchCompleted, RuntimeFrame
<1>6. CASE \E r \in replays : DispatchReplay(r)
  <2>1. PICK r \in replays : DispatchReplay(r)
    BY <1>6
  <2> QED BY <2>1 DEF DispatchReplay, RuntimeFrame
<1>7. CASE \E t \in tails : Continue(t)
  BY <1>7, ContinueFrame
<1> QED BY <1>1, <1>2, <1>3, <1>4, <1>5, <1>6, <1>7 DEF Runtime

(* Replays are of the retained source, under the generation it was published under. *)
LEMMA ReplayFrame ==
    ASSUME NEW p \in BOOLEAN,
           ReplayRetained(IF retained = None THEN 0 ELSE retained.gen, p),
           UNCHANGED <<gen, mint, at, retained, tails>>
    PROVE  RuntimeFrame
BY DEF ReplayRetained, RuntimeFrame, Replay

LEMMA PlayFrame ==
    ASSUME NEW o \in BOOLEAN, PlayFrom(o), UNCHANGED <<gen, mint, at, retained, tails>>
    PROVE  RuntimeFrame
<1>1. CASE UNCHANGED replays
  BY <1>1 DEF RuntimeFrame
<1>2. CASE ReplayRetained(IF retained = None THEN 0 ELSE retained.gen, TRUE)
  BY <1>2, ReplayFrame
<1> QED BY <1>1, <1>2 DEF PlayFrom

LEMMA ThreadFrames ==
    ASSUME StateOK, ThreadOK, Thread
    PROVE  RuntimeFrame
<1>1. CASE HandleLoadStarted
  BY <1>1 DEF HandleLoadStarted, RuntimeFrame
<1>2. CASE HandleLoadSettled
  BY <1>2 DEF HandleLoadSettled, RuntimeFrame
<1>3. CASE HandleLoad
  BY <1>3 DEF HandleLoad, RuntimeFrame
<1>4. CASE HandlePlay
  BY <1>4, PlayFrame DEF HandlePlay, ThreadOK
<1>5. CASE HandleReassert
  <2>1. PICK t \in Tracks, want \in BOOLEAN :
          /\ orphaned' = (orphaned /\ currentTrack # t)
          /\ \/ PlayFrom(orphaned')
             \/ UNCHANGED <<playing, pendingPlay, replays>>
          /\ UNCHANGED <<gen, mint, at, retained, tails>>
    BY <1>5 DEF HandleReassert
  <2>2. CASE PlayFrom(orphaned')
    <3>1. orphaned' \in BOOLEAN
      BY <2>1
    <3> QED BY <2>1, <2>2, <3>1, PlayFrame
  <2>3. CASE UNCHANGED replays
    BY <2>1, <2>3 DEF RuntimeFrame
  <2> QED BY <2>1, <2>2, <2>3
<1>6. CASE HandlePause \/ HandleStop \/ HandleOrphan
  BY <1>6 DEF HandlePause, HandleStop, HandleOrphan, RuntimeFrame
<1>7. CASE \E completed \in BOOLEAN : EndTrack(completed)
  BY <1>7 DEF EndTrack, RuntimeFrame
<1>8. CASE ReleaseDevice
  BY <1>8 DEF ReleaseDevice, RuntimeFrame
<1>9. CASE RearmShared
  BY <1>9, ReplayFrame DEF RearmShared, ThreadOK
<1> QED BY <1>1, <1>2, <1>3, <1>4, <1>5, <1>6, <1>7, <1>8, <1>9 DEF Thread

LEMMA NextFrames ==
    ASSUME StateOK, ThreadOK, TailsOK, [Next]_vars
    PROVE  MintFrame \/ CarryFrame \/ RuntimeFrame
<1>1. CASE Request
  <2>1. CASE \E t \in Tracks \cup {Dash}, p \in BOOLEAN, o \in Owners : BeginLoad(t, p, o)
    BY <2>1, BeginLoadFrame
  <2>2. CASE \E scope \in Scopes : Stop(scope)
    BY <2>2, StopFrame
  <2>3. CASE SendPlay \/ SendPause \/ \E want \in BOOLEAN : LoadCommitted(want)
    BY <2>3 DEF SendPlay, SendPause, LoadCommitted, RuntimeFrame
  <2> QED BY <1>1, <2>1, <2>2, <2>3 DEF Request
<1>2. CASE \E g \in Gens : Carry(g)
  BY <1>2, CarryFrames
<1>3. CASE Runtime
  BY <1>3, RuntimeFrames
<1>4. CASE Thread
  BY <1>4, ThreadFrames
<1>5. CASE UNCHANGED vars
  BY <1>5 DEF vars, RuntimeFrame
<1> QED BY <1>1, <1>2, <1>3, <1>4, <1>5 DEF Next

-----------------------------------------------------------------------------
(* The words and what was taken from them *)

(* A minted generation is never rewritten. *)
LEMMA MintKept ==
    ASSUME StateOK, MintFrame \/ CarryFrame \/ RuntimeFrame
    PROVE  /\ gen' \in gen .. gen + 1
           /\ \A g \in 1 .. gen : mint'[g] = mint[g]
<1>1. CASE MintFrame
  BY <1>1 DEF MintFrame, MintAs, StateOK
<1>2. CASE CarryFrame \/ RuntimeFrame
  <2>1. gen' = gen /\ mint' = mint
    BY <1>2 DEF CarryFrame, RuntimeFrame
  <2> QED BY <2>1 DEF StateOK
<1> QED BY <1>1, <1>2

LEMMA SawKept ==
    ASSUME StateOK, MintFrame \/ CarryFrame \/ RuntimeFrame, NEW g, NEW t, Saw(g, t)
    PROVE  Saw(g, t)'
<1>1. g \in 1 .. gen' /\ mint'[g] = mint[g]
  BY MintKept DEF Saw, StateOK
<1> QED BY <1>1 DEF Saw

LEMMA StepsKept ==
    ASSUME StateOK, StepsOK, MintFrame \/ CarryFrame \/ RuntimeFrame
    PROVE  StepsOK'
<1>1. CASE MintFrame
  <2>1. PICK m \in Mint, s \in {"announce", "send"} :
          /\ MintAs(m, s)
          /\ s = "announce" => m.kind # "stop" /\ m.track \in Tracks \cup {Dash}
    BY <1>1 DEF MintFrame
  <2>2. gen + 1 \in Gens /\ gen' = gen + 1
    BY <2>1, LoadCoordinatorAssumption DEF MintAs, StateOK
  <2> SUFFICES ASSUME NEW g \in Gens
               PROVE  /\ at'[g] # "none" <=> g <= gen'
                      /\ at'[g] \in LoadSteps =>
                           mint'[g].kind # "stop" /\ mint'[g].track \in Tracks \cup {Dash}
    BY DEF StepsOK
  <2>3. CASE g = gen + 1
    <3>1. at'[g] = s /\ mint'[g] = m
      BY <2>1, <2>2, <2>3 DEF MintAs, StateOK
    <3> QED BY <2>1, <2>2, <2>3, <3>1 DEF LoadSteps, StateOK
  <2>4. CASE g # gen + 1
    <3>1. at'[g] = at[g] /\ mint'[g] = mint[g]
      BY <2>1, <2>2, <2>4 DEF MintAs, StateOK
    <3>2. g <= gen' <=> g <= gen
      BY <2>2, <2>4 DEF StateOK
    <3> QED BY <3>1, <3>2 DEF StepsOK
  <2> QED BY <2>3, <2>4
<1>2. CASE CarryFrame
  BY <1>2 DEF CarryFrame, StepsOK, StateOK
<1>3. CASE RuntimeFrame
  BY <1>3 DEF RuntimeFrame, StepsOK
<1> QED BY <1>1, <1>2, <1>3

LEMMA SourceKept ==
    ASSUME StateOK, StepsOK, SourceOK, MintFrame \/ CarryFrame \/ RuntimeFrame
    PROVE  SourceOK'
<1>1. CASE retained' = retained
  BY <1>1, SawKept DEF SourceOK
<1>2. CASE \E g \in Gens : at[g] = "publish" /\ Published(g) /\ gen' = gen /\ mint' = mint
  <2>1. PICK g \in Gens : at[g] = "publish" /\ Published(g) /\ gen' = gen /\ mint' = mint
    BY <1>2
  <2>2. g <= gen /\ mint[g].kind # "stop" /\ mint[g].track \in Tracks \cup {Dash}
    BY <2>1 DEF StepsOK, LoadSteps
  <2>3. CASE mint[g].track = Dash
    BY <2>1, <2>3 DEF Published, SourceOK
  <2>4. CASE mint[g].track # Dash
    <3>1. retained' = [track |-> mint[g].track, gen |-> g]
      BY <2>1, <2>4 DEF Published
    <3>2. retained' \in [track : Tracks, gen : Gens]
      BY <2>2, <2>4, <3>1
    <3>3. retained'.gen = g /\ retained'.track = mint[g].track
      BY <3>1
    <3>4. Saw(retained.gen, retained.track)'
      BY <2>1, <2>2, <3>3 DEF Saw, StateOK
    <3> QED BY <3>2, <3>4 DEF SourceOK
  <2> QED BY <2>3, <2>4
<1> QED BY <1>1, <1>2 DEF MintFrame, CarryFrame, RuntimeFrame

LEMMA ReplaysKept ==
    ASSUME StateOK, SourceOK, ReplaysOK, MintFrame \/ CarryFrame \/ RuntimeFrame
    PROVE  ReplaysOK'
<1> SUFFICES ASSUME NEW r \in replays'
             PROVE  r \in [over : Gens, track : Tracks, play : BOOLEAN] /\ Saw(r.over, r.track)'
  BY DEF ReplaysOK
<1>1. CASE r \in replays
  BY <1>1, SawKept DEF ReplaysOK
<1>2. CASE retained # None /\ \E p \in BOOLEAN : r = Replay(retained, p)
  <2>1. PICK p \in BOOLEAN : r = Replay(retained, p)
    BY <1>2
  <2>2. retained \in [track : Tracks, gen : Gens] /\ Saw(retained.gen, retained.track)
    BY <1>2 DEF SourceOK
  <2> QED BY <2>1, <2>2, SawKept DEF Replay
<1> QED BY <1>1, <1>2 DEF MintFrame, CarryFrame, RuntimeFrame

LEMMA TailsKept ==
    ASSUME StateOK, SourceOK, ReplaysOK, TailsOK, MintFrame \/ CarryFrame \/ RuntimeFrame
    PROVE  TailsOK'
<1> SUFFICES ASSUME NEW t \in tails'
             PROVE  t \in Tails /\ TailOK(t)'
  BY DEF TailsOK
<1>1. CASE t \in tails
  <2>1. t \in Tails /\ TailOK(t)
    BY <1>1 DEF TailsOK
  <2>2. t.over \in GenOr0 /\ t.over <= gen'
    BY <2>1, MintKept DEF TailOK, Tails, StateOK
  <2>3. t.kind = "rearm" => Saw(t.over, t.track)'
    BY <2>1, SawKept DEF TailOK
  <2>4. t.kind = "advance" /\ t.over = gen' => Owner' = "Local"
    <3>1. SUFFICES ASSUME t.kind = "advance", t.over = gen'
                   PROVE  Owner' = "Local"
      OBVIOUS
    <3>2. gen' = gen
      BY <2>1, <3>1, MintKept DEF TailOK, StateOK
    <3>3. Owner = "Local"
      BY <2>1, <3>1, <3>2 DEF TailOK
    <3> QED BY <3>2, <3>3, MintKept DEF Owner, StateOK
  <2> QED BY <2>1, <2>2, <2>3, <2>4 DEF TailOK
<1>2. CASE UNCHANGED <<gen, mint>> /\ staged # None /\ Owner = "Local"
           /\ t = [kind |-> "advance", over |-> gen, track |-> staged.track, play |-> TRUE]
  <2>1. t \in Tails /\ t.kind = "advance" /\ t.over = gen
    BY <1>2 DEF StateOK, Tails
  <2>2. Owner' = "Local"
    BY <1>2 DEF Owner
  <2> QED BY <1>2, <2>1, <2>2 DEF TailOK, StateOK
<1>3. CASE \E r \in replays :
              t = [kind |-> "rearm", over |-> r.over, track |-> r.track, play |-> r.play]
  <2>1. PICK r \in replays :
              t = [kind |-> "rearm", over |-> r.over, track |-> r.track, play |-> r.play]
    BY <1>3
  <2>2. r \in [over : Gens, track : Tracks, play : BOOLEAN] /\ Saw(r.over, r.track)
    BY DEF ReplaysOK
  <2>3. t \in Tails /\ t.kind = "rearm" /\ t.over = r.over /\ t.track = r.track
    BY <2>1, <2>2 DEF Tails
  <2>4. Saw(t.over, t.track)'
    BY <2>2, <2>3, SawKept
  <2> QED BY <2>3, <2>4 DEF TailOK, Saw
<1> QED BY <1>1, <1>2, <1>3 DEF MintFrame, CarryFrame, RuntimeFrame

LEMMA ContinuationsKept ==
    ASSUME StateOK, AdvanceIsLocal, RearmCarriesOn, MintFrame \/ CarryFrame \/ RuntimeFrame
    PROVE  AdvanceIsLocal' /\ RearmCarriesOn'
<1>1. CASE gen' = gen /\ mint' = mint
  BY <1>1 DEF AdvanceIsLocal, RearmCarriesOn
<1>2. CASE MintFrame
  <2>1. PICK m \in Mint, s \in {"announce", "send"} :
          /\ MintAs(m, s)
          /\ m.kind = "advance" => m.owner = "Local"
          /\ m.kind = "rearm" => Saw(gen, m.track) /\ m.owner = Owner
    BY <1>2 DEF MintFrame
  <2>2. gen + 1 \in Gens /\ gen' = gen + 1 /\ mint'[gen + 1] = m
    BY <2>1, LoadCoordinatorAssumption DEF MintAs, StateOK
  <2>3. \A g \in 1 .. gen : mint'[g] = mint[g]
    BY <1>2, MintKept
  <2>4. AdvanceIsLocal'
    BY <2>1, <2>2, <2>3 DEF AdvanceIsLocal, StateOK
  <2>5. ASSUME NEW g \in 1 .. gen', mint'[g].kind = "rearm"
        PROVE  /\ g > 1
               /\ mint'[g - 1].kind # "stop"
               /\ mint'[g].track = mint'[g - 1].track
               /\ mint'[g].owner = mint'[g - 1].owner
    <3>1. CASE g = gen + 1
      <4>1. mint'[g] = m /\ Saw(gen, m.track) /\ m.owner = Owner
        BY <2>1, <2>2, <2>5, <3>1
      <4>2. gen >= 1 /\ g > 1 /\ g - 1 = gen /\ mint'[gen] = mint[gen]
        BY <2>3, <3>1, <4>1 DEF Saw, StateOK
      <4> QED BY <4>1, <4>2 DEF Saw, Owner, StateOK
    <3>2. CASE g # gen + 1
      <4>1. g \in 1 .. gen /\ mint'[g] = mint[g]
        BY <2>2, <2>3, <2>5, <3>2 DEF StateOK
      <4>2. g > 1 /\ g - 1 \in 1 .. gen
        BY <2>5, <4>1 DEF RearmCarriesOn, StateOK
      <4>3. mint'[g - 1] = mint[g - 1]
        BY <2>3, <4>2
      <4> QED BY <2>5, <4>1, <4>2, <4>3 DEF RearmCarriesOn
    <3> QED BY <3>1, <3>2
  <2>6. RearmCarriesOn'
    BY <2>5 DEF RearmCarriesOn
  <2> QED BY <2>4, <2>6
<1> QED BY <1>1, <1>2 DEF CarryFrame, RuntimeFrame

-----------------------------------------------------------------------------
(* Types *)

LEMMA MintState ==
    ASSUME StateOK, NEW m \in Mint, NEW s \in Steps, MintAs(m, s)
    PROVE  /\ gen' \in GenOr0 /\ gen + 1 \in GenOr0
           /\ mint' \in [Gens -> Mint]
           /\ at' \in [Gens -> Steps]
BY LoadCoordinatorAssumption DEF MintAs, StateOK

LEMMA RequestState ==
    ASSUME StateOK, Request
    PROVE  StateOK'
<1> USE DEF StateOK
<1>1. Owner \in Owners
  BY DEF Owner, Mint, Owners
<1>2. OverStop \in BOOLEAN
  BY DEF OverStop
<1>3. ASSUME NEW t \in Tracks \cup {Dash}, NEW p \in BOOLEAN, NEW o \in Owners, BeginLoad(t, p, o)
      PROVE  StateOK'
  <2> DEFINE m == [kind |-> "load", track |-> t, play |-> p, owner |-> o, orphans |-> FALSE]
  <2>1. m \in Mint /\ "announce" \in Steps
    BY DEF Mint, Kinds, Steps
  <2>2. MintAs(m, "announce") /\ lock' = gen + 1
    BY <1>3 DEF BeginLoad
  <2> QED BY <1>3, <2>1, <2>2, MintState DEF BeginLoad
<1>4. ASSUME NEW scope \in Scopes, Stop(scope)
      PROVE  StateOK'
  <2> DEFINE m == [kind |-> "stop", track |-> None, play |-> FALSE, owner |-> Claim(scope),
                   orphans |-> scope = "OwnMusic"]
  <2>1. Claim(scope) \in Owners
    <3>1. Claim(scope) # None
      BY <1>4 DEF Stop
    <3> QED BY <1>1, <3>1 DEF Claim, Scopes, Owners
  <2>2. m \in Mint /\ "send" \in Steps
    BY <2>1 DEF Mint, Kinds, Steps
  <2>3. MintAs(m, "send") /\ lock' = gen + 1
    BY <1>4 DEF Stop
  <2> QED BY <1>4, <2>2, <2>3, MintState DEF Stop
<1>5. ASSUME SendPlay \/ SendPause \/ \E want \in BOOLEAN : LoadCommitted(want)
      PROVE  StateOK'
  <2>1. asked' \in BOOLEAN
    BY <1>2, <1>5 DEF SendPlay, SendPause, LoadCommitted
  <2>2. asks' \in Nat
    BY <1>5 DEF SendPlay, SendPause, LoadCommitted
  <2>3. UNCHANGED <<word, seqs, slots, source, staged, futures, uses, undercut>>
    BY <1>5 DEF SendPlay, SendPause, LoadCommitted
  <2> QED BY <2>1, <2>2, <2>3
<1> QED BY <1>3, <1>4, <1>5 DEF Request

LEMMA CarryState ==
    ASSUME StateOK, NEW g \in Gens, Carry(g)
    PROVE  StateOK'
<1> USE DEF StateOK, Advance, Steps
<1>1. CASE SendStop(g)
  <2>1. eventSeq' \in Nat /\ seqOf' \in [Gens -> Nat]
    BY <1>1 DEF SendStop, TakeSeq
  <2>2. at' \in [Gens -> Steps] /\ lock' \in GenOr0
    BY <1>1, LoadCoordinatorAssumption DEF SendStop
  <2>3. UNCHANGED <<gen, mint, slots, source, staged, futures, history>>
    BY <1>1 DEF SendStop
  <2> QED BY <2>1, <2>2, <2>3
<1>2. CASE Announce(g)
  <2>1. eventSeq' \in Nat /\ seqOf' \in [Gens -> Nat]
    BY <1>2 DEF Announce, TakeSeq
  <2>2. at' \in [Gens -> Steps]
    BY <1>2 DEF Announce
  <2> QED BY <1>2, <2>1, <2>2 DEF Announce
<1>3. CASE AbortPrevious(g)
  <2>1. handle # 0 => handle \in Gens
    OBVIOUS
  <2>2. aborted' \subseteq Gens
    BY <1>3, <2>1 DEF AbortPrevious
  <2>3. task' \in [Gens -> {"none", "spawned", "running", "done", "dropped"}]
    BY <1>3, <2>1 DEF AbortPrevious
  <2>4. token' \in GenOr0
    BY <1>3 DEF AbortPrevious
  <2>5. cancelled' \subseteq Gens
    <3>1. cancelled' \in {cancelled, cancelled \cup ({token} \ {0})}
      BY <1>3 DEF AbortPrevious
    <3> QED BY <3>1
  <2>6. at' \in [Gens -> Steps] /\ handle' \in GenOr0
    BY <1>3, LoadCoordinatorAssumption DEF AbortPrevious
  <2>7. UNCHANGED <<gen, mint, lock, seqs, source, staged, futures, history>>
    BY <1>3 DEF AbortPrevious
  <2> QED BY <2>2, <2>3, <2>4, <2>5, <2>6, <2>7
<1>4. CASE PublishLoad(g)
  BY <1>4 DEF PublishLoad
<1>5. CASE Spawn(g)
  <2>1. task' \in [Gens -> {"none", "spawned", "running", "done", "dropped"}]
    BY <1>5 DEF Spawn
  <2>2. at' \in [Gens -> Steps] /\ handle' \in GenOr0 /\ lock' \in GenOr0
    BY <1>5, LoadCoordinatorAssumption DEF Spawn
  <2>3. UNCHANGED <<gen, mint, seqs, token, cancelled, aborted, source, staged, futures, history>>
    BY <1>5 DEF Spawn
  <2> QED BY <2>1, <2>2, <2>3
<1> QED BY <1>1, <1>2, <1>3, <1>4, <1>5 DEF Carry

LEMMA RuntimeState ==
    ASSUME StateOK, TailsOK, Runtime
    PROVE  StateOK'
<1> USE DEF StateOK
<1>1. CASE \E g \in Gens : StartTask(g)
  BY <1>1 DEF StartTask
<1>2. CASE \E g \in Gens, d \in BOOLEAN : EndTask(g, d)
  BY <1>2 DEF EndTask
<1>3. CASE \E t \in Tracks : Stage(t)
  BY <1>3 DEF Stage, OverStop
<1>4. CASE TakeNext
  BY <1>4 DEF TakeNext
<1>5. CASE DispatchCompleted
  BY <1>5 DEF DispatchCompleted
<1>6. CASE \E r \in replays : DispatchReplay(r)
  BY <1>6 DEF DispatchReplay
<1>7. CASE \E t \in tails : Continue(t)
  <2>1. PICK t \in tails : Continue(t)
    BY <1>7
  <2> DEFINE m == [kind |-> t.kind, track |-> t.track, play |-> t.play, owner |-> Owner,
                   orphans |-> FALSE]
  <2>2. m \in Mint /\ "announce" \in Steps
    BY DEF TailsOK, Tails, Mint, Kinds, Steps, Owner, Owners
  <2>3. CASE ContinueLoad(t.kind, t.over, t.track, t.play)
    <3>1. MintAs(m, "announce") /\ asked' = FALSE
      BY <2>3 DEF ContinueLoad
    <3>2. undercut' \in BOOLEAN
      BY <2>3 DEF ContinueLoad
    <3> QED BY <2>1, <2>2, <3>1, <3>2, MintState DEF Continue
  <2>4. CASE UNCHANGED <<gen, mint, at, asked, undercut>>
    BY <2>1, <2>4 DEF Continue
  <2> QED BY <2>1, <2>3, <2>4 DEF Continue
<1> QED BY <1>1, <1>2, <1>3, <1>4, <1>5, <1>6, <1>7 DEF Runtime

LEMMA PlayTypes ==
    ASSUME ThreadOK, NEW o \in BOOLEAN, PlayFrom(o)
    PROVE  playing' \in BOOLEAN /\ pendingPlay' \in GenOr0
<1>1. playing' \in BOOLEAN
  BY DEF PlayFrom, ThreadOK
<1>2. pendingPlay' \in GenOr0
  <2>1. pendingPlay' \in {pendingPlay, 0, loadingGen}
    BY DEF PlayFrom
  <2> QED BY <2>1, LoadCoordinatorAssumption DEF ThreadOK
<1> QED BY <1>1, <1>2

(* The thread's steps keep the types of its own fields, and of the rest of the state. *)
LEMMA ThreadState ==
    ASSUME StateOK, ThreadOK, Thread
    PROVE  StateOK' /\ ThreadOK'
<1> USE DEF StateOK, ThreadOK
<1>1. CASE HandleLoadStarted
  BY <1>1 DEF HandleLoadStarted
<1>2. CASE HandleLoadSettled
  <2>1. loadingGen' \in GenOr0 /\ pendingPlay' \in GenOr0
    BY <1>2, LoadCoordinatorAssumption DEF HandleLoadSettled
  <2> QED BY <1>2, <2>1 DEF HandleLoadSettled
<1>3. CASE HandleLoad
  <2>1. PICK g \in Gens :
          /\ Open(g) \/ UNCHANGED <<orphaned, currentSeq, committed, currentTrack, hasTrack,
                                    playing, pendingPlay>>
          /\ UNCHANGED <<word, seqs, slots, source, staged, futures, resume, loadingGen, history>>
    BY <1>3 DEF HandleLoad
  <2>2. mint[g].track \in Tracks \cup {Dash, None} /\ mint[g].play \in BOOLEAN
    BY DEF Mint
  <2>3. CASE Open(g)
    <3>1. (mint[g].play \/ pendingPlay = g) \in BOOLEAN
      OBVIOUS
    <3>2. /\ orphaned' \in BOOLEAN /\ currentSeq' \in Nat
          /\ committed' \in Tracks \cup {Dash, None}
          /\ currentTrack' \in Tracks \cup {Dash, None} /\ hasTrack' \in BOOLEAN
      BY <2>2, <2>3 DEF Open
    <3>3. playing' \in BOOLEAN
      BY <2>3, <3>1 DEF Open
    <3>4. pendingPlay' \in GenOr0
      BY <2>3, LoadCoordinatorAssumption DEF Open
    <3> QED BY <2>1, <3>2, <3>3, <3>4
  <2> QED BY <2>1, <2>3
<1>4. CASE HandlePlay
  BY <1>4, PlayTypes DEF HandlePlay
<1>5. CASE HandleReassert
  <2>1. PICK t \in Tracks, want \in BOOLEAN :
          /\ orphaned' = (orphaned /\ currentTrack # t)
          /\ PlayFrom(orphaned') \/ UNCHANGED <<playing, pendingPlay, replays>>
          /\ UNCHANGED <<word, seqs, slots, source, staged, ended, takers, tails, committed,
                         currentTrack, hasTrack, resume, loadingGen, currentSeq, history>>
    BY <1>5 DEF HandleReassert
  <2>2. orphaned' \in BOOLEAN
    BY <2>1
  <2>3. playing' \in BOOLEAN /\ pendingPlay' \in GenOr0
    BY <2>1, <2>2, PlayTypes
  <2> QED BY <2>1, <2>2, <2>3
<1>6. CASE HandlePause
  <2>1. pendingPlay' \in GenOr0
    BY <1>6, LoadCoordinatorAssumption DEF HandlePause
  <2> QED BY <1>6, <2>1 DEF HandlePause
<1>7. CASE HandleStop
  <2>1. pendingPlay' = 0 /\ \E g \in Gens : currentSeq' = seqOf[g]
    BY <1>7 DEF HandleStop
  <2>2. pendingPlay' \in GenOr0 /\ currentSeq' \in Nat
    BY <2>1, LoadCoordinatorAssumption
  <2>4. playing' \in BOOLEAN
    BY <1>7 DEF HandleStop
  <2>5. resume' \in BOOLEAN
    BY <1>7 DEF HandleStop
  <2>3. UNCHANGED <<word, seqs, slots, source, staged, futures, committed, currentTrack, hasTrack,
                    orphaned, loadingGen, history>>
    BY <1>7 DEF HandleStop
  <2> QED BY <2>2, <2>3, <2>4, <2>5
<1>8. CASE HandleOrphan
  BY <1>8 DEF HandleOrphan
<1>9. CASE \E completed \in BOOLEAN : EndTrack(completed)
  <2>1. ended' \in Nat
    BY <1>9 DEF EndTrack
  <2>2. committed' = None /\ currentTrack' = None /\ hasTrack' = FALSE /\ playing' = FALSE
    BY <1>9 DEF EndTrack
  <2>3. UNCHANGED <<word, seqs, slots, source, staged, takers, orphaned, resume, loadingGen,
                    pendingPlay, currentSeq, history>>
    BY <1>9 DEF EndTrack
  <2> QED BY <2>1, <2>2, <2>3
<1>10. CASE ReleaseDevice
  BY <1>10 DEF ReleaseDevice
<1>11. CASE RearmShared
  <2>1. loadingGen' \in GenOr0 /\ pendingPlay' \in GenOr0
    BY <1>11, LoadCoordinatorAssumption DEF RearmShared
  <2> QED BY <1>11, <2>1 DEF RearmShared
<1> QED BY <1>1, <1>2, <1>3, <1>4, <1>5, <1>6, <1>7, <1>8, <1>9, <1>10, <1>11 DEF Thread

LEMMA OtherThread ==
    ASSUME ThreadOK, Request \/ (\E g \in Gens : Carry(g)) \/ Runtime
    PROVE  ThreadOK'
<1> USE DEF ThreadOK
<1>1. CASE Request
  BY <1>1 DEF Request, BeginLoad, Stop, SendPlay, SendPause, LoadCommitted
<1>2. CASE \E g \in Gens : Carry(g)
  BY <1>2 DEF Carry, SendStop, Announce, AbortPrevious, PublishLoad, Spawn
<1>3. CASE Runtime
  BY <1>3 DEF Runtime, StartTask, EndTask, Stage, TakeNext, DispatchCompleted, DispatchReplay,
              Continue
<1> QED BY <1>1, <1>2, <1>3

LEMMA WordKept ==
    ASSUME WordInv, [Next]_vars
    PROVE  WordInv'
<1>1. CASE UNCHANGED vars
  BY <1>1 DEF vars, WordInv, StateOK, ThreadOK, StepsOK, SourceOK, ReplaysOK, TailsOK, TailOK, Saw,
              Owner, AdvanceIsLocal, RearmCarriesOn
<1>2. CASE Next
  <2>1. MintFrame \/ CarryFrame \/ RuntimeFrame
    BY <1>2, NextFrames DEF WordInv
  <2>2. StateOK' /\ ThreadOK'
    BY <1>2, RequestState, CarryState, RuntimeState, ThreadState, OtherThread DEF Next, WordInv
  <2>3. StepsOK' /\ SourceOK' /\ ReplaysOK' /\ TailsOK'
    BY <2>1, StepsKept, SourceKept, ReplaysKept, TailsKept DEF WordInv
  <2>4. AdvanceIsLocal' /\ RearmCarriesOn'
    BY <2>1, ContinuationsKept DEF WordInv
  <2> QED BY <2>2, <2>3, <2>4 DEF WordInv
<1> QED BY <1>1, <1>2

LEMMA WordInit ==
    ASSUME Init
    PROVE  WordInv
<1> USE LoadCoordinatorAssumption DEF Init
<1>1. StateOK
  <2>1. NoMint \in Mint
    BY DEF NoMint, Mint, Kinds, Owners
  <2>2. asked \in BOOLEAN /\ undercut \in BOOLEAN
    OBVIOUS
  <2>3. mint \in [Gens -> Mint] /\ at \in [Gens -> Steps] /\ seqOf \in [Gens -> Nat]
    BY <2>1 DEF Steps
  <2>4. task \in [Gens -> {"none", "spawned", "running", "done", "dropped"}]
    OBVIOUS
  <2>5. /\ gen \in GenOr0 /\ lock \in GenOr0 /\ handle \in GenOr0 /\ token \in GenOr0
        /\ published \in GenOr0 /\ eventSeq \in Nat /\ ended \in Nat /\ takers \in Nat
        /\ asks \in Nat
    OBVIOUS
  <2>6. cancelled = {} /\ aborted = {} /\ staged = None /\ uses \in Sessions
    OBVIOUS
  <2> HIDE DEF Init
  <2> QED BY <2>2, <2>3, <2>4, <2>5, <2>6 DEF StateOK
<1>2. ThreadOK
  <2>1. hasTrack \in BOOLEAN /\ playing \in BOOLEAN /\ orphaned \in BOOLEAN /\ resume \in BOOLEAN
    OBVIOUS
  <2> QED BY <2>1 DEF ThreadOK
<1>3. StepsOK /\ SourceOK /\ ReplaysOK /\ TailsOK
  <2>1. \A g \in Gens : at[g] = "none" /\ ~(g <= gen)
    OBVIOUS
  <2>2. StepsOK
    BY <2>1 DEF StepsOK, LoadSteps
  <2> QED BY <2>2 DEF SourceOK, ReplaysOK, TailsOK
<1>4. AdvanceIsLocal /\ RearmCarriesOn
  BY DEF AdvanceIsLocal, RearmCarriesOn
<1> QED BY <1>1, <1>2, <1>3, <1>4 DEF WordInv

THEOREM WordInvariant == Spec => []WordInv
<1>1. Init => WordInv
  BY WordInit
<1>2. WordInv /\ [Next]_vars => WordInv'
  BY WordKept
<1> QED BY <1>1, <1>2, PTL DEF Spec

(* A track staged off the renderer's queue is promoted in this host's own  *)
(* name, whoever mints between the take and the advance (take_next_track,  *)
(* Player::advance).                                                       *)
THEOREM AdvanceCorrect == Spec => []AdvanceIsLocal
<1>1. WordInv => AdvanceIsLocal
  BY DEF WordInv
<1> QED BY <1>1, WordInvariant, PTL

(* A re-arm names the track, and the owner, of the load just before it, and *)
(* never follows a stop (Player::rearm, RetainedTrack).                     *)
THEOREM RearmCorrect == Spec => []RearmCarriesOn
<1>1. WordInv => RearmCarriesOn
  BY DEF WordInv
<1> QED BY <1>1, WordInvariant, PTL

(* A continuation acts only for the load and the owner it saw, whoever mints *)
(* between its look and its own mint (continue_load, Player::advance).       *)
THEOREM CarriesOnCorrect == Spec => []CarriesItsLoadOn
<1>1. AdvanceIsLocal /\ RearmCarriesOn => CarriesItsLoadOn
  BY DEF CarriesItsLoadOn
<1> QED
  BY <1>1, AdvanceCorrect, RearmCorrect, PTL

-----------------------------------------------------------------------------
(* The command channel *)

(* A load announced has its task ahead of it, or in flight.                 *)
StillOut(g) == \/ at[g] \in {"abort", "publish", "spawn"}
               \/ task[g] \in {"spawned", "running", "dropped"}

(* A load announced and not yet taken is still out, or its settle follows.  *)
ChannelOK ==
    /\ cmds \in Seq(Commands)
    /\ \A i \in 1 .. Len(cmds), g \in Gens : cmds[i] = Started(g) =>
         StillOut(g) \/ \E j \in i + 1 .. Len(cmds) : cmds[j] = Settled(g)

(* A step that sends, or only carries a request on; one it settles is in what it sends. *)
SendFrame == \E e \in Seq(Commands) :
    /\ cmds' = cmds \o e
    /\ \A g \in Gens : /\ StillOut(g) => StillOut(g)' \/ \E j \in 1 .. Len(e) : e[j] = Settled(g)
                       /\ \A j \in 1 .. Len(e) : e[j] = Started(g) => StillOut(g)'
    /\ loadingGen' \in {loadingGen, 0}
    /\ pendingPlay' \in {pendingPlay, 0}

(* The thread takes a command: what it waits for then is not what that settles. *)
TakeFrame ==
    /\ cmds # <<>>
    /\ cmds' = Tail(cmds)
    /\ UNCHANGED <<at, task>>
    /\ \A g \in {loadingGen', pendingPlay'} \ {0} :
         \/ g \in {loadingGen, pendingPlay} /\ Head(cmds) # Settled(g)
         \/ g \in Gens /\ Head(cmds) = Started(g)

LEMMA CommandForms ==
    ASSUME NEW g \in Gens, NEW h \in Gens
    PROVE  /\ Started(g) # Settled(h) /\ Loaded(g) # Settled(h) /\ Stopped(g) # Settled(h)
           /\ Loaded(g) # Started(h) /\ Stopped(g) # Started(h)
           /\ Started(g) = Started(h) => g = h
           /\ Settled(g) = Settled(h) => g = h
BY DEF Started, Settled, Loaded, Stopped

LEMMA AskForms ==
    ASSUME NEW g \in Gens, NEW c \in {Play, Pause, Orphan} \cup
             {Reassert(t, want) : t \in Tracks, want \in BOOLEAN}
    PROVE  c # Settled(g) /\ c # Started(g) /\ c \in Commands
BY DEF Started, Settled, Play, Pause, Orphan, Reassert, Commands

LEMMA EmptySend ==
    ASSUME ChannelOK, cmds' = cmds, \A g \in Gens : StillOut(g) => StillOut(g)',
           loadingGen' \in {loadingGen, 0}, pendingPlay' \in {pendingPlay, 0}
    PROVE  SendFrame
<1> DEFINE e == <<>>
<1>1. e \in Seq(Commands) /\ Len(e) = 0
  OBVIOUS
<1>2. cmds' = cmds \o e
  BY ConcatEmptySeq DEF ChannelOK
<1>3. 1 .. Len(e) = {}
  BY <1>1
<1> HIDE DEF e
<1> QED BY <1>1, <1>2, <1>3 DEF SendFrame

LEMMA SingleSend ==
    ASSUME ChannelOK, NEW c \in Commands, cmds' = Append(cmds, c),
           \A g \in Gens : (StillOut(g) => StillOut(g)') /\ (c = Started(g) => StillOut(g)'),
           UNCHANGED <<loadingGen, pendingPlay>>
    PROVE  SendFrame
<1> DEFINE e == <<c>>
<1>1. e \in Seq(Commands) /\ Len(e) = 1 /\ e[1] = c
  OBVIOUS
<1>2. cmds' = cmds \o e
  BY AppendIsConcat DEF ChannelOK
<1> HIDE DEF e
<1> QED BY <1>1, <1>2 DEF SendFrame

LEMMA MintSend ==
    ASSUME StateOK, StepsOK, ChannelOK, NEW m, NEW s, MintAs(m, s),
           UNCHANGED <<cmds, task, loadingGen, pendingPlay>>
    PROVE  SendFrame
<1>1. ASSUME NEW g \in Gens, StillOut(g)
      PROVE  StillOut(g)'
  <2>1. CASE g = gen + 1
    <3>1. at[g] = "none"
      BY <2>1 DEF StepsOK, StateOK
    <3> QED BY <1>1, <3>1 DEF StillOut
  <2>2. CASE g # gen + 1
    <3>1. at'[g] = at[g]
      BY <2>2 DEF MintAs, StateOK
    <3> QED BY <1>1, <3>1 DEF StillOut
  <2> QED BY <2>1, <2>2
<1> QED BY <1>1, EmptySend

LEMMA RequestSends ==
    ASSUME StateOK, StepsOK, ChannelOK, Request
    PROVE  SendFrame
<1>1. ASSUME NEW t, NEW p, NEW o, BeginLoad(t, p, o)
      PROVE  SendFrame
  <2>1. UNCHANGED <<cmds, task, loadingGen, pendingPlay>> /\ MintAs([kind |-> "load", track |-> t,
          play |-> p, owner |-> o, orphans |-> FALSE], "announce")
    BY <1>1 DEF BeginLoad
  <2> QED BY <2>1, MintSend
<1>2. ASSUME NEW scope, Stop(scope)
      PROVE  SendFrame
  <2>1. UNCHANGED <<cmds, task, loadingGen, pendingPlay>> /\ MintAs([kind |-> "stop",
          track |-> None, play |-> FALSE, owner |-> Claim(scope), orphans |-> scope = "OwnMusic"],
          "send")
    BY <1>2 DEF Stop
  <2> QED BY <2>1, MintSend
<1>3. ASSUME NEW c \in {Play, Pause, Orphan}
                       \cup {Reassert(t, want) : t \in Tracks, want \in BOOLEAN},
             cmds' = Append(cmds, c), UNCHANGED <<at, task, loadingGen, pendingPlay>>
      PROVE  SendFrame
  <2>1. \A g \in Gens : c # Started(g) /\ (StillOut(g) => StillOut(g)')
    BY <1>3, AskForms DEF StillOut
  <2>2. c \in Commands
    BY DEF Commands
  <2> QED BY <1>3, <2>1, <2>2, SingleSend
<1>4. ASSUME NEW want \in BOOLEAN, LoadCommitted(want)
      PROVE  SendFrame
  <2>1. committed \in Tracks /\ cmds' = Append(cmds, Reassert(committed, want))
        /\ UNCHANGED <<at, task, loadingGen, pendingPlay>>
    BY <1>4 DEF LoadCommitted
  <2> QED BY <2>1, <1>3
<1>5. CASE SendPlay
  <2>1. cmds' = Append(cmds, Play) /\ UNCHANGED <<at, task, loadingGen, pendingPlay>>
    BY <1>5 DEF SendPlay
  <2> QED BY <2>1, <1>3
<1>6. CASE SendPause
  <2>1. cmds' = Append(cmds, Pause) /\ UNCHANGED <<at, task, loadingGen, pendingPlay>>
    BY <1>6 DEF SendPause
  <2> QED BY <2>1, <1>3
<1> QED BY <1>1, <1>2, <1>4, <1>5, <1>6 DEF Request

LEMMA CarrySends ==
    ASSUME StateOK, StepsOK, ChannelOK, NEW g \in Gens, Carry(g)
    PROVE  SendFrame
<1>1. CASE SendStop(g)
  <2> DEFINE e == <<Stopped(g)>> \o (IF mint[g].orphans THEN <<Orphan>> ELSE <<>>)
  <2>1. Stopped(g) \in Commands /\ Orphan \in Commands
    BY DEF Commands
  <2>2. e \in Seq(Commands) /\ \A j \in 1 .. Len(e) : e[j] \in {Stopped(g), Orphan}
    BY <2>1
  <2>3. cmds' = cmds \o e
    <3>1. cmds' = (cmds \o <<Stopped(g)>>) \o (IF mint[g].orphans THEN <<Orphan>> ELSE <<>>)
      BY <1>1 DEF SendStop
    <3>2. <<Stopped(g)>> \in Seq(Commands) /\ <<Orphan>> \in Seq(Commands) /\ <<>> \in Seq(Commands)
      BY <2>1
    <3> QED BY <3>1, <3>2, ConcatAssociative DEF ChannelOK
  <2>4. \A h \in Gens : Stopped(g) # Started(h) /\ Orphan # Started(h)
    BY CommandForms, AskForms
  <2>5. \A h \in Gens : StillOut(h) => StillOut(h)'
    BY <1>1 DEF SendStop, Advance, StillOut, StateOK
  <2>6. UNCHANGED <<loadingGen, pendingPlay>>
    BY <1>1 DEF SendStop
  <2> HIDE DEF e
  <2> QED BY <2>2, <2>3, <2>4, <2>5, <2>6 DEF SendFrame
<1>2. CASE Announce(g)
  <2>1. \A h \in Gens : StillOut(h) => StillOut(h)'
    BY <1>2 DEF Announce, Advance, StillOut, StateOK
  <2>2. StillOut(g)'
    BY <1>2 DEF Announce, Advance, StillOut, StateOK
  <2>3. Started(g) \in Commands /\ \A h \in Gens : Started(g) = Started(h) => g = h
    BY CommandForms DEF Commands
  <2>4. cmds' = Append(cmds, Started(g)) /\ UNCHANGED <<loadingGen, pendingPlay>>
    BY <1>2 DEF Announce
  <2> QED BY <2>1, <2>2, <2>3, <2>4, SingleSend
<1>3. CASE AbortPrevious(g)
  <2>1. ASSUME NEW h \in Gens, StillOut(h)
        PROVE  StillOut(h)'
    <3>1. at'[h] = at[h] \/ at'[h] = "publish"
      BY <1>3 DEF AbortPrevious, Advance, StateOK
    <3>2. task'[h] = task[h] \/ task'[h] = "dropped"
      BY <1>3 DEF AbortPrevious, StateOK
    <3> QED BY <2>1, <3>1, <3>2 DEF StillOut
  <2>2. UNCHANGED <<cmds, loadingGen, pendingPlay>>
    BY <1>3 DEF AbortPrevious
  <2> QED BY <2>1, <2>2, EmptySend
<1>4. CASE PublishLoad(g)
  <2>1. \A h \in Gens : StillOut(h) => StillOut(h)'
    BY <1>4 DEF PublishLoad, Advance, StillOut, StateOK
  <2>2. UNCHANGED <<cmds, loadingGen, pendingPlay>>
    BY <1>4 DEF PublishLoad
  <2> QED BY <2>1, <2>2, EmptySend
<1>5. CASE Spawn(g)
  <2>1. \A h \in Gens : StillOut(h) => StillOut(h)'
    BY <1>5 DEF Spawn, Advance, StillOut, StateOK
  <2>2. UNCHANGED <<cmds, loadingGen, pendingPlay>>
    BY <1>5 DEF Spawn
  <2> QED BY <2>1, <2>2, EmptySend
<1> QED BY <1>1, <1>2, <1>3, <1>4, <1>5 DEF Carry

LEMMA RuntimeSends ==
    ASSUME StateOK, StepsOK, ChannelOK, Runtime
    PROVE  SendFrame
<1>1. ASSUME NEW g \in Gens, StartTask(g)
      PROVE  SendFrame
  <2>1. ASSUME NEW h \in Gens, StillOut(h)
        PROVE  StillOut(h)'
    <3>1. task'[h] = task[h] \/ task'[h] = "running"
      BY <1>1 DEF StartTask, StateOK
    <3>2. at' = at
      BY <1>1 DEF StartTask
    <3> QED BY <2>1, <3>1, <3>2 DEF StillOut
  <2>2. UNCHANGED <<cmds, loadingGen, pendingPlay>>
    BY <1>1 DEF StartTask
  <2> QED BY <2>1, <2>2, EmptySend
<1>2. ASSUME NEW g \in Gens, NEW d \in BOOLEAN, EndTask(g, d)
      PROVE  SendFrame
  <2> DEFINE l == IF d THEN <<Loaded(g)>> ELSE <<>>
             e == l \o <<Settled(g)>>
  <2>1. Loaded(g) \in Commands /\ Settled(g) \in Commands
    BY DEF Commands
  <2>2. /\ e \in Seq(Commands)
        /\ \A j \in 1 .. Len(e) : e[j] \in {Loaded(g), Settled(g)}
        /\ \E j \in 1 .. Len(e) : e[j] = Settled(g)
    <3>1. l \in Seq(Commands) /\ Len(l) \in Nat /\ \A j \in 1 .. Len(l) : l[j] = Loaded(g)
      BY <2>1
    <3> HIDE DEF l
    <3>2. e \in Seq(Commands) /\ Len(e) = Len(l) + 1
      BY <2>1, <3>1
    <3>3. \A j \in 1 .. Len(l) : e[j] = Loaded(g)
      BY <2>1, <3>1
    <3>4. e[Len(l) + 1] = Settled(g)
      BY <2>1, <3>1
    <3> HIDE DEF e
    <3> QED BY <3>1, <3>2, <3>3, <3>4
  <2>3. cmds' = cmds \o e
    <3>1. cmds' = (cmds \o l) \o <<Settled(g)>>
      BY <1>2 DEF EndTask
    <3>2. <<Settled(g)>> \in Seq(Commands) /\ l \in Seq(Commands)
      BY <2>1
    <3> HIDE DEF l
    <3> QED BY <3>1, <3>2, ConcatAssociative DEF ChannelOK
  <2>4. \A h \in Gens : Loaded(g) # Started(h) /\ Settled(g) # Started(h)
    BY CommandForms
  <2>5. ASSUME NEW h \in Gens, StillOut(h), h # g
        PROVE  StillOut(h)'
    BY <1>2, <2>5 DEF EndTask, StillOut, StateOK
  <2>6. UNCHANGED <<loadingGen, pendingPlay>>
    BY <1>2 DEF EndTask
  <2> HIDE DEF e
  <2> QED BY <2>2, <2>3, <2>4, <2>5, <2>6 DEF SendFrame
<1>3. CASE UNCHANGED <<at, cmds, task, loadingGen, pendingPlay>>
  BY <1>3, EmptySend DEF StillOut
<1>4. ASSUME NEW t \in tails, Continue(t)
      PROVE  SendFrame
  <2>1. CASE ContinueLoad(t.kind, t.over, t.track, t.play)
    <3>1. MintAs([kind |-> t.kind, track |-> t.track, play |-> t.play, owner |-> Owner,
                  orphans |-> FALSE], "announce")
      BY <2>1 DEF ContinueLoad
    <3>2. UNCHANGED <<cmds, task, loadingGen, pendingPlay>>
      BY <1>4 DEF Continue
    <3> QED BY <3>1, <3>2, MintSend
  <2>2. CASE UNCHANGED <<gen, mint, at, asked, undercut>>
    BY <1>4, <1>3, <2>2 DEF Continue
  <2> QED BY <1>4, <2>1, <2>2 DEF Continue
<1>5. ASSUME TakeNext \/ DispatchCompleted \/ (\E t \in Tracks : Stage(t))
             \/ (\E r \in replays : DispatchReplay(r))
      PROVE  UNCHANGED <<at, cmds, task, loadingGen, pendingPlay>>
  BY <1>5 DEF TakeNext, DispatchCompleted, Stage, DispatchReplay
<1> QED BY <1>1, <1>2, <1>3, <1>4, <1>5 DEF Runtime

(* A command that settles nothing leaves the thread waiting for what it waited for, or less. *)
LEMMA PlainTake ==
    ASSUME ThreadOK, NEW c, Take(c), \A g \in Gens : c # Settled(g), UNCHANGED <<at, task>>,
           loadingGen' \in {loadingGen, 0}, pendingPlay' \in {pendingPlay, loadingGen, 0}
    PROVE  TakeFrame
<1>1. \A g \in {loadingGen', pendingPlay'} \ {0} : g \in {loadingGen, pendingPlay} /\ g \in Gens
  BY DEF ThreadOK
<1> QED BY <1>1 DEF Take, TakeFrame

LEMMA ThreadSends ==
    ASSUME StateOK, ThreadOK, ChannelOK, Thread
    PROVE  SendFrame \/ TakeFrame
<1>1. CASE HandleLoadStarted
  <2>1. PICK g \in Gens : /\ Take(Started(g))
                          /\ loadingGen' \in {g, loadingGen}
                          /\ UNCHANGED <<at, task, pendingPlay>>
    BY <1>1 DEF HandleLoadStarted
  <2>2. \A h \in Gens : Started(g) # Settled(h)
    BY CommandForms
  <2>3. \A h \in {loadingGen', pendingPlay'} \ {0} :
          h = g \/ (h \in {loadingGen, pendingPlay} /\ h \in Gens)
    BY <2>1 DEF ThreadOK
  <2> QED BY <2>1, <2>2, <2>3 DEF Take, TakeFrame
<1>2. CASE HandleLoadSettled
  <2>1. PICK g \in Gens : /\ Take(Settled(g))
                          /\ loadingGen' = IF loadingGen = g THEN 0 ELSE loadingGen
                          /\ pendingPlay' = IF pendingPlay = g THEN 0 ELSE pendingPlay
                          /\ UNCHANGED <<at, task>>
    BY <1>2 DEF HandleLoadSettled
  <2>2. \A h \in {loadingGen', pendingPlay'} \ {0} :
          h # g /\ h \in Gens /\ h \in {loadingGen, pendingPlay}
    BY <2>1 DEF ThreadOK
  <2>3. \A h \in Gens : h # g => Settled(g) # Settled(h)
    BY CommandForms
  <2> QED BY <2>1, <2>2, <2>3 DEF Take, TakeFrame
<1>3. CASE HandleLoad
  <2>1. PICK g \in Gens : /\ Take(Loaded(g))
                          /\ Open(g) \/ pendingPlay' = pendingPlay
                          /\ UNCHANGED <<at, task, loadingGen>>
    BY <1>3 DEF HandleLoad
  <2>2. pendingPlay' \in {pendingPlay, 0}
    BY <2>1 DEF Open
  <2>3. \A h \in Gens : Loaded(g) # Settled(h)
    BY CommandForms
  <2> QED BY <2>1, <2>2, <2>3, PlainTake
<1>4. CASE HandlePlay
  <2>1. Take(Play) /\ UNCHANGED <<at, task, loadingGen>>
    BY <1>4 DEF HandlePlay
  <2>2. pendingPlay' \in {pendingPlay, loadingGen, 0}
    BY <1>4 DEF HandlePlay, PlayFrom
  <2> QED BY <2>1, <2>2, PlainTake, AskForms
<1>5. CASE HandleReassert
  <2>1. PICK t \in Tracks, want \in BOOLEAN :
          /\ Take(Reassert(t, want))
          /\ PlayFrom(orphaned') \/ pendingPlay' = pendingPlay
          /\ UNCHANGED <<at, task, loadingGen>>
    BY <1>5 DEF HandleReassert
  <2>2. pendingPlay' \in {pendingPlay, loadingGen, 0}
    BY <2>1 DEF PlayFrom
  <2> QED BY <2>1, <2>2, PlainTake, AskForms
<1>6. CASE HandlePause
  <2>1. Take(Pause) /\ UNCHANGED <<at, task, loadingGen>> /\ pendingPlay' = 0
    BY <1>6 DEF HandlePause
  <2> QED BY <2>1, PlainTake, AskForms
<1>7. CASE HandleStop
  <2>1. PICK g \in Gens : Take(Stopped(g)) /\ UNCHANGED <<at, task, loadingGen>> /\ pendingPlay' = 0
    BY <1>7 DEF HandleStop
  <2>2. \A h \in Gens : Stopped(g) # Settled(h)
    BY CommandForms
  <2> QED BY <2>1, <2>2, PlainTake
<1>8. CASE HandleOrphan
  <2>1. Take(Orphan) /\ UNCHANGED <<at, task, loadingGen, pendingPlay>>
    BY <1>8 DEF HandleOrphan
  <2> QED BY <2>1, PlainTake, AskForms
<1>9. CASE (\E completed \in BOOLEAN : EndTrack(completed)) \/ ReleaseDevice
  <2>1. UNCHANGED <<cmds, at, task, loadingGen, pendingPlay>>
    BY <1>9 DEF EndTrack, ReleaseDevice
  <2> QED BY <2>1, EmptySend DEF StillOut
<1>10. CASE RearmShared
  <2>1. UNCHANGED <<cmds, at, task>> /\ loadingGen' = 0 /\ pendingPlay' = 0
    BY <1>10 DEF RearmShared
  <2> QED BY <2>1, EmptySend DEF StillOut
<1> QED BY <1>1, <1>2, <1>3, <1>4, <1>5, <1>6, <1>7, <1>8, <1>9, <1>10 DEF Thread

LEMMA ChannelKept ==
    ASSUME ThreadOK, ChannelOK, LoadingIsLive, SendFrame \/ TakeFrame
    PROVE  ChannelOK' /\ LoadingIsLive'
<1>1. CASE SendFrame
  <2>1. PICK e \in Seq(Commands) :
          /\ cmds' = cmds \o e
          /\ \A g \in Gens :
               /\ StillOut(g) => StillOut(g)' \/ \E j \in 1 .. Len(e) : e[j] = Settled(g)
               /\ \A j \in 1 .. Len(e) : e[j] = Started(g) => StillOut(g)'
          /\ loadingGen' \in {loadingGen, 0}
          /\ pendingPlay' \in {pendingPlay, 0}
    BY <1>1 DEF SendFrame
  <2>2. /\ cmds' \in Seq(Commands)
        /\ Len(cmds') = Len(cmds) + Len(e)
        /\ \A i \in 1 .. Len(cmds) : cmds'[i] = cmds[i]
        /\ \A i \in Len(cmds) + 1 .. Len(cmds) + Len(e) : cmds'[i] = e[i - Len(cmds)]
        /\ Len(cmds) \in Nat /\ Len(e) \in Nat
    BY <2>1, ConcatProperties DEF ChannelOK
  <2>3. ASSUME NEW g \in Gens, NEW j \in 1 .. Len(e), e[j] = Settled(g)
        PROVE  Len(cmds) + j \in Len(cmds) + 1 .. Len(cmds') /\ cmds'[Len(cmds) + j] = Settled(g)
    <3>1. Len(cmds) + j \in Len(cmds) + 1 .. Len(cmds') /\ (Len(cmds) + j) - Len(cmds) = j
      BY <2>2
    <3>2. cmds'[Len(cmds) + j] = e[(Len(cmds) + j) - Len(cmds)]
      BY <2>2, <3>1
    <3> QED BY <2>3, <3>1, <3>2
  <2>4. ASSUME NEW i \in 1 .. Len(cmds'), NEW g \in Gens, cmds'[i] = Started(g)
        PROVE  StillOut(g)' \/ \E j \in i + 1 .. Len(cmds') : cmds'[j] = Settled(g)
    <3>1. CASE i \in 1 .. Len(cmds)
      <4>1. StillOut(g) \/ \E j \in i + 1 .. Len(cmds) : cmds[j] = Settled(g)
        BY <2>2, <2>4, <3>1 DEF ChannelOK
      <4>2. ASSUME NEW j \in 1 .. Len(e), e[j] = Settled(g)
            PROVE  \E k \in i + 1 .. Len(cmds') : cmds'[k] = Settled(g)
        <5>1. Len(cmds) + j \in i + 1 .. Len(cmds')
          BY <2>2, <3>1
        <5> QED BY <2>3, <4>2, <5>1
      <4>3. ASSUME NEW j \in i + 1 .. Len(cmds), cmds[j] = Settled(g)
            PROVE  \E k \in i + 1 .. Len(cmds') : cmds'[k] = Settled(g)
        <5>1. j \in i + 1 .. Len(cmds') /\ cmds'[j] = Settled(g)
          BY <2>2, <3>1, <4>3
        <5> QED BY <5>1
      <4> QED BY <2>1, <4>1, <4>2, <4>3
    <3>2. CASE i \notin 1 .. Len(cmds)
      <4>1. i - Len(cmds) \in 1 .. Len(e) /\ e[i - Len(cmds)] = Started(g)
        BY <2>2, <2>4, <3>2
      <4> QED BY <2>1, <4>1
    <3> QED BY <3>1, <3>2
  <2>5. ASSUME NEW g \in {loadingGen', pendingPlay'} \ {0}
        PROVE  InFlight(g)'
    <3>1. g \in {loadingGen, pendingPlay} \ {0} /\ g \in Gens
      BY <2>1, <2>5 DEF ThreadOK
    <3>2. StillOut(g) \/ InChannel(Settled(g))
      BY <3>1 DEF LoadingIsLive, InFlight, StillOut
    <3>3. CASE StillOut(g)
      <4>1. CASE StillOut(g)'
        BY <4>1 DEF StillOut, InFlight
      <4>2. CASE \E j \in 1 .. Len(e) : e[j] = Settled(g)
        <5>1. PICK j \in 1 .. Len(e) : e[j] = Settled(g)
          BY <4>2
        <5>2. Len(cmds) + j \in 1 .. Len(cmds') /\ cmds'[Len(cmds) + j] = Settled(g)
          BY <2>2, <2>3, <3>1, <5>1
        <5> QED BY <5>2 DEF InFlight, InChannel
      <4> QED BY <2>1, <3>1, <3>3, <4>1, <4>2
    <3>4. CASE InChannel(Settled(g))
      <4>1. \E j \in 1 .. Len(cmds') : cmds'[j] = Settled(g)
        BY <2>2, <3>4 DEF InChannel
      <4> QED BY <4>1 DEF InFlight, InChannel
    <3> QED BY <3>2, <3>3, <3>4
  <2>6. ChannelOK'
    BY <2>2, <2>4 DEF ChannelOK
  <2>7. LoadingIsLive'
    BY <2>5 DEF LoadingIsLive
  <2> QED BY <2>6, <2>7
<1>2. CASE TakeFrame
  <2>1. /\ cmds' \in Seq(Commands)
        /\ Len(cmds') = Len(cmds) - 1
        /\ Len(cmds) \in Nat /\ Len(cmds) > 0
        /\ \A i \in 1 .. Len(cmds') : cmds'[i] = cmds[i + 1]
        /\ cmds[1] = Head(cmds)
    BY <1>2, HeadTailProperties DEF TakeFrame, ChannelOK
  <2>2. \A g : StillOut(g)' <=> StillOut(g)
    BY <1>2 DEF TakeFrame, StillOut
  <2>3. ASSUME NEW g, NEW i \in 1 .. Len(cmds), NEW j \in i + 1 .. Len(cmds), cmds[j] = Settled(g)
        PROVE  j - 1 \in i .. Len(cmds') /\ cmds'[j - 1] = Settled(g)
    BY <2>1, <2>3
  <2>4. ASSUME NEW i \in 1 .. Len(cmds'), NEW g \in Gens, cmds'[i] = Started(g)
        PROVE  StillOut(g)' \/ \E j \in i + 1 .. Len(cmds') : cmds'[j] = Settled(g)
    <3>1. i + 1 \in 1 .. Len(cmds) /\ cmds[i + 1] = Started(g)
      BY <2>1, <2>4
    <3>2. StillOut(g) \/ \E j \in (i + 1) + 1 .. Len(cmds) : cmds[j] = Settled(g)
      BY <3>1 DEF ChannelOK
    <3> QED BY <2>2, <2>3, <3>1, <3>2
  <2>5. ASSUME NEW g \in {loadingGen', pendingPlay'} \ {0}
        PROVE  InFlight(g)'
    <3>1. \/ g \in {loadingGen, pendingPlay} /\ Head(cmds) # Settled(g)
          \/ g \in Gens /\ Head(cmds) = Started(g)
      BY <1>2, <2>5 DEF TakeFrame
    <3>2. StillOut(g) \/ \E j \in 2 .. Len(cmds) : cmds[j] = Settled(g)
      <4>1. CASE g \in {loadingGen, pendingPlay} /\ Head(cmds) # Settled(g)
        <5>1. StillOut(g) \/ InChannel(Settled(g))
          BY <2>5, <4>1 DEF LoadingIsLive, InFlight, StillOut
        <5>2. ASSUME NEW j \in 1 .. Len(cmds), cmds[j] = Settled(g)
              PROVE  j \in 2 .. Len(cmds)
          BY <2>1, <4>1, <5>2
        <5> QED BY <5>1, <5>2 DEF InChannel
      <4>2. CASE g \in Gens /\ Head(cmds) = Started(g)
        <5>1. 1 \in 1 .. Len(cmds) /\ cmds[1] = Started(g)
          BY <2>1, <4>2
        <5>2. StillOut(g) \/ \E j \in 1 + 1 .. Len(cmds) : cmds[j] = Settled(g)
          BY <4>2, <5>1 DEF ChannelOK
        <5> QED BY <5>2
      <4> QED BY <3>1, <4>1, <4>2
    <3>3. CASE StillOut(g)
      BY <2>2, <3>3 DEF InFlight, StillOut
    <3>4. CASE \E j \in 2 .. Len(cmds) : cmds[j] = Settled(g)
      <4>1. \E j \in 1 .. Len(cmds') : cmds'[j] = Settled(g)
        BY <2>1, <2>3, <3>4
      <4> QED BY <4>1 DEF InFlight, InChannel
    <3> QED BY <3>2, <3>3, <3>4
  <2>6. ChannelOK'
    BY <2>1, <2>4 DEF ChannelOK
  <2>7. LoadingIsLive'
    BY <2>5 DEF LoadingIsLive
  <2> QED BY <2>6, <2>7
<1> QED BY <1>1, <1>2

ChannelInv == ChannelOK /\ LoadingIsLive

THEOREM ChannelInvariant == Spec => []ChannelInv
<1>1. ASSUME Init
      PROVE  ChannelInv
  <2>1. cmds = <<>> /\ loadingGen = 0 /\ pendingPlay = 0
    BY <1>1 DEF Init
  <2> QED BY <2>1 DEF ChannelInv, ChannelOK, LoadingIsLive
<1>2. ASSUME WordInv, ChannelInv, [Next]_vars
      PROVE  ChannelInv'
  <2>1. CASE UNCHANGED vars
    <3>1. UNCHANGED <<at, task, cmds, loadingGen, pendingPlay>>
      BY <2>1 DEF vars
    <3>2. SendFrame
      BY <1>2, <3>1, EmptySend DEF StillOut, ChannelInv
    <3> QED BY <1>2, <3>2, ChannelKept DEF WordInv, ChannelInv
  <2>2. CASE Next
    <3>1. SendFrame \/ TakeFrame
      BY <1>2, <2>2, RequestSends, CarrySends, RuntimeSends, ThreadSends
         DEF Next, WordInv, ChannelInv
    <3> QED BY <1>2, <3>1, ChannelKept DEF WordInv, ChannelInv
  <2> QED BY <1>2, <2>1, <2>2
<1>3. Init => ChannelInv
  BY <1>1
<1>4. WordInv /\ ChannelInv /\ [Next]_vars => ChannelInv'
  BY <1>2
<1> QED BY <1>3, <1>4, WordInvariant, PTL DEF Spec

(* A load the thread waits for, or has deferred a play to, still has its   *)
(* task ahead of it or its settle on the way, however loads are aborted    *)
(* (LoadSettleGuard).                                                      *)
THEOREM LoadingCorrect == Spec => []LoadingIsLive
<1>1. ChannelInv => LoadingIsLive
  BY DEF ChannelInv
<1> QED BY <1>1, ChannelInvariant, PTL

(* Every field, atomic and channel of the player holds what it can hold.   *)
THEOREM TypeCorrect == Spec => []TypeOK
<1>1. WordInv /\ ChannelInv => TypeOK
  <2> SUFFICES ASSUME WordInv, ChannelInv
               PROVE  TypeOK
    OBVIOUS
  <2>1. /\ retained \in [track : Tracks, gen : Gens] \cup {None}
        /\ replays \subseteq [over : Gens, track : Tracks, play : BOOLEAN]
        /\ tails \subseteq [kind : {"advance", "rearm"}, over : GenOr0, track : Tracks,
                            play : BOOLEAN]
        /\ cmds \in Seq(Commands)
    BY DEF WordInv, ChannelInv, ChannelOK, SourceOK, ReplaysOK, TailsOK, Tails
  <2>2. StateOK /\ ThreadOK
    BY DEF WordInv
  <2> QED BY <2>1, <2>2 DEF TypeOK, StateOK, ThreadOK
<1> QED BY <1>1, WordInvariant, ChannelInvariant, PTL

-----------------------------------------------------------------------------
(* What was replaced stays so *)

(* The commands that may start the music. *)
Plays == {Play} \cup {Reassert(t, want) : t \in Tracks, want \in BOOLEAN}

(* Where a command waits. *)
Spots == 1 .. Len(cmds)

(* A request takes its sequence with its word, a stop under the lock, and a task follows both. *)
Behaved == \A g \in Gens :
    /\ at[g] \in {"none", "announce", "send"} <=> seqOf[g] = 0
    /\ seqOf[g] <= eventSeq
    /\ at[g] = "send" => lock = g /\ mint[g].kind = "stop"
    /\ task[g] # "none" => at[g] = "done" /\ mint[g].kind # "stop"

(* What waits in the channel was sent by a request that is through. *)
Posted == \A i \in Spots, g \in Gens :
    /\ cmds[i] = Loaded(g) => at[g] = "done" /\ mint[g].kind # "stop"
    /\ cmds[i] = Stopped(g) => at[g] = "done" /\ mint[g].kind = "stop"

(* An Orphan follows its Stop with nothing between them. *)
Silenced ==
    /\ OrphanedIsSilent
    /\ \A i \in Spots : cmds[i] = Orphan =>
         IF i = 1 THEN ~playing ELSE \E g \in Gens : cmds[i - 1] = Stopped(g)

(* A stop is sent before a newer word is minted, so the channel has its sequence in order. *)
InOrder ==
    /\ \A g \in Gens : at[g] = "send" => g = gen
    /\ currentSeq <= eventSeq
    /\ gen # 0 /\ seqOf[gen] # 0 =>
         /\ currentSeq <= seqOf[gen]
         /\ \A i \in Spots, g \in Gens : cmds[i] = Stopped(g) => seqOf[g] <= seqOf[gen]
    /\ \A i \in Spots, g \in Gens : cmds[i] = Stopped(g) => currentSeq <= seqOf[g]
    /\ \A i, j \in Spots, g, h \in Gens :
         i < j /\ cmds[i] \in {Loaded(g), Stopped(g)} /\ cmds[j] = Stopped(h)
             => seqOf[g] <= seqOf[h]

(* Under a stop nobody has asked over, whatever may start the music is read before the stop. *)
Obeyed == OverStop /\ at[gen] = "done" /\ ~asked =>
    /\ \A i \in Spots : cmds[i] \in Plays =>
         \E j \in Spots : i < j /\ cmds[j] = Stopped(gen)
    /\ InChannel(Stopped(gen)) \/ ~playing

(* What makes a replacement final: the order the channel keeps. *)
PastInv == Behaved /\ Posted /\ Silenced /\ (~undercut => InOrder) /\ Obeyed

(* A request that is through stays so, as it was minted and numbered. *)
LEMMA DoneStays ==
    ASSUME WordInv, [Next]_vars, NEW g \in Gens, at[g] = "done"
    PROVE  at'[g] = "done" /\ mint'[g] = mint[g] /\ seqOf'[g] = seqOf[g]
<1> USE DEF WordInv, StateOK
<1>1. g <= gen /\ g # gen + 1
  BY DEF StepsOK
<1>2. ASSUME NEW m, NEW s, MintAs(m, s), UNCHANGED seqOf
      PROVE  at'[g] = "done" /\ mint'[g] = mint[g] /\ seqOf'[g] = seqOf[g]
  BY <1>1, <1>2 DEF MintAs
<1>3. CASE Request
  BY <1>2, <1>3 DEF Request, BeginLoad, Stop, LoadCommitted, SendPlay, SendPause
<1>4. CASE \E h \in Gens : Carry(h)
  <2>1. PICK h \in Gens : Carry(h)
    BY <1>4
  <2>2. h # g /\ mint' = mint
    BY <2>1 DEF Carry, SendStop, Announce, AbortPrevious, PublishLoad, Spawn
  <2>3. \E s : at' = [at EXCEPT ![h] = s]
    BY <2>1 DEF Carry, SendStop, Announce, AbortPrevious, PublishLoad, Spawn, Advance
  <2>4. seqOf' = seqOf \/ \E n : seqOf' = [seqOf EXCEPT ![h] = n]
    BY <2>1 DEF Carry, SendStop, Announce, AbortPrevious, PublishLoad, Spawn, TakeSeq
  <2> QED
    BY <2>2, <2>3, <2>4
<1>5. CASE Runtime
  <2>1. ASSUME NEW t \in tails, Continue(t)
        PROVE  at'[g] = "done" /\ mint'[g] = mint[g] /\ seqOf'[g] = seqOf[g]
    BY <1>2, <2>1 DEF Continue, ContinueLoad
  <2>2. CASE UNCHANGED <<at, mint, seqOf>>
    BY <2>2
  <2> QED
    BY <1>5, <2>1, <2>2 DEF Runtime, StartTask, EndTask, Stage, TakeNext, DispatchCompleted,
                            DispatchReplay
<1>6. CASE Thread
  BY <1>6 DEF Thread, HandleLoadStarted, HandleLoadSettled, HandleLoad, HandlePlay,
              HandleReassert, HandlePause, HandleStop, HandleOrphan, EndTrack, ReleaseDevice,
              RearmShared
<1>7. CASE UNCHANGED vars
  BY <1>7 DEF vars
<1> QED
  BY <1>3, <1>4, <1>5, <1>6, <1>7 DEF Next

(* A mint leaves every request where it is, the new one before its announcement or its send. *)
LEMMA MintBehaves ==
    ASSUME WordInv, Behaved, NEW m, NEW s \in {"announce", "send"}, MintAs(m, s),
           s = "send" => lock' = gen + 1 /\ m.kind = "stop",
           \A g \in Gens : at[g] = "send" => lock' = lock,
           UNCHANGED <<eventSeq, seqOf, task>>
    PROVE  Behaved'
<1> USE DEF WordInv, StateOK
<1>1. ASSUME NEW g \in Gens, g # gen + 1
      PROVE  at'[g] = at[g] /\ mint'[g] = mint[g]
  BY <1>1 DEF MintAs
<1>2. ASSUME NEW g \in Gens, g = gen + 1
      PROVE  at[g] = "none" /\ at'[g] = s /\ mint'[g] = m
  BY <1>2 DEF MintAs, StepsOK
<1>3. \A g \in Gens : g # gen + 1 =>
        /\ at'[g] \in {"none", "announce", "send"} <=> seqOf'[g] = 0
        /\ seqOf'[g] <= eventSeq'
        /\ at'[g] = "send" => lock' = g /\ mint'[g].kind = "stop"
        /\ task'[g] # "none" => at'[g] = "done" /\ mint'[g].kind # "stop"
  BY <1>1 DEF Behaved
<1>4. \A g \in Gens : g = gen + 1 =>
        /\ seqOf'[g] = 0 /\ seqOf'[g] <= eventSeq' /\ at'[g] \in {"announce", "send"}
        /\ at'[g] = "send" => lock' = g /\ mint'[g].kind = "stop"
        /\ task'[g] = "none"
  BY <1>2 DEF Behaved
<1> QED
  BY <1>3, <1>4 DEF Behaved

LEMMA CarryBehaves ==
    ASSUME WordInv, Behaved, NEW g \in Gens, Carry(g)
    PROVE  Behaved'
<1> USE DEF WordInv, StateOK, Advance
<1>1. mint' = mint /\ \A h \in Gens : h # g => at'[h] = at[h]
  BY DEF Carry, SendStop, Announce, AbortPrevious, PublishLoad, Spawn
<1>2. CASE SendStop(g) \/ Announce(g)
  <2>1. /\ eventSeq' = eventSeq + 1 /\ seqOf'[g] = eventSeq + 1
        /\ \A h \in Gens : h # g => seqOf'[h] = seqOf[h]
        /\ task' = task /\ at'[g] \in {"abort", "done"}
    BY <1>2 DEF SendStop, Announce, TakeSeq
  <2>2. \A h \in Gens : at'[h] = "send" => at[h] = "send" /\ lock' = lock
    <3>1. CASE SendStop(g)
      BY <1>1, <2>1, <3>1 DEF SendStop, Behaved
    <3>2. CASE Announce(g)
      BY <1>1, <2>1, <3>2 DEF Announce
    <3> QED
      BY <1>2, <3>1, <3>2
  <2>3. task[g] = "none"
    BY <1>2 DEF SendStop, Announce, Behaved
  <2>4. eventSeq \in Nat /\ \A h \in Gens : seqOf[h] \in Nat /\ seqOf[h] <= eventSeq + 1
    BY DEF Behaved
  <2>5. ASSUME NEW h \in Gens
        PROVE  /\ at'[h] \in {"none", "announce", "send"} <=> seqOf'[h] = 0
               /\ seqOf'[h] <= eventSeq'
               /\ at'[h] = "send" => lock' = h /\ mint'[h].kind = "stop"
               /\ task'[h] # "none" => at'[h] = "done" /\ mint'[h].kind # "stop"
    <3>1. CASE h = g
      BY <2>1, <2>3, <2>4, <3>1
    <3>2. CASE h # g
      BY <1>1, <2>1, <2>2, <2>4, <3>2 DEF Behaved
    <3> QED
      BY <3>1, <3>2
  <2> QED
    BY <2>5 DEF Behaved
<1>3. CASE AbortPrevious(g) \/ PublishLoad(g) \/ Spawn(g)
  <2>1. /\ UNCHANGED <<eventSeq, seqOf>> /\ at[g] \in {"abort", "publish", "spawn"}
        /\ at'[g] \in {"publish", "spawn", "done"}
    BY <1>3 DEF AbortPrevious, PublishLoad, Spawn
  <2>2. lock' = lock \/ lock = g
    BY <1>3 DEF AbortPrevious, PublishLoad, Spawn
  <2>3. \A h \in Gens : h # g /\ at[h] = "send" => lock' = lock
    BY <2>2 DEF Behaved
  <2>4. /\ \A h \in Gens : h # g /\ task'[h] # "none" => task[h] # "none"
        /\ task'[g] # "none" => at'[g] = "done" /\ at[g] = "spawn"
    <3>1. CASE AbortPrevious(g)
      <4>1. \A h \in Gens : task'[h] # "none" => task[h] # "none"
        BY <3>1 DEF AbortPrevious, Alive
      <4> QED
        BY <2>1, <4>1 DEF Behaved
    <3>2. CASE PublishLoad(g)
      BY <2>1, <3>2 DEF PublishLoad, Behaved
    <3>3. CASE Spawn(g)
      BY <3>3 DEF Spawn
    <3> QED
      BY <1>3, <3>1, <3>2, <3>3
  <2>5. mint[g].kind # "stop"
    BY <2>1 DEF StepsOK, LoadSteps
  <2>6. ASSUME NEW h \in Gens
        PROVE  /\ at'[h] \in {"none", "announce", "send"} <=> seqOf'[h] = 0
               /\ seqOf'[h] <= eventSeq'
               /\ at'[h] = "send" => lock' = h /\ mint'[h].kind = "stop"
               /\ task'[h] # "none" => at'[h] = "done" /\ mint'[h].kind # "stop"
    <3>1. CASE h = g
      BY <1>1, <2>1, <2>4, <2>5, <3>1 DEF Behaved
    <3>2. CASE h # g
      BY <1>1, <2>1, <2>3, <2>4, <3>2 DEF Behaved
    <3> QED
      BY <3>1, <3>2
  <2> QED
    BY <2>6 DEF Behaved
<1> QED
  BY <1>2, <1>3 DEF Carry

LEMMA BehavedKept ==
    ASSUME WordInv, Behaved, [Next]_vars
    PROVE  Behaved'
<1> USE DEF WordInv, StateOK
<1>1. CASE UNCHANGED <<mint, at, lock, eventSeq, seqOf, task>>
  BY <1>1 DEF Behaved
<1>2. CASE Request
  <2>1. ASSUME NEW t, NEW p, NEW o, BeginLoad(t, p, o) PROVE Behaved'
    <3>1. /\ MintAs([kind |-> "load", track |-> t, play |-> p, owner |-> o, orphans |-> FALSE],
                    "announce")
          /\ lock = 0 /\ UNCHANGED <<eventSeq, seqOf, task>>
      BY <2>1 DEF BeginLoad
    <3>2. \A g \in Gens : at[g] # "send"
      BY <3>1 DEF Behaved
    <3> QED
      BY <3>1, <3>2, MintBehaves
  <2>2. ASSUME NEW scope, Stop(scope) PROVE Behaved'
    <3> DEFINE m == [kind |-> "stop", track |-> None, play |-> FALSE, owner |-> Claim(scope),
                     orphans |-> scope = "OwnMusic"]
    <3>1. /\ MintAs(m, "send") /\ lock = 0 /\ lock' = gen + 1
          /\ UNCHANGED <<eventSeq, seqOf, task>>
      BY <2>2 DEF Stop
    <3>2. m.kind = "stop"
      OBVIOUS
    <3>3. \A g \in Gens : at[g] # "send"
      BY <3>1 DEF Behaved
    <3> HIDE DEF m
    <3> QED
      BY <3>1, <3>2, <3>3, MintBehaves
  <2>3. CASE SendPlay \/ SendPause \/ \E want \in BOOLEAN : LoadCommitted(want)
    BY <1>1, <2>3 DEF SendPlay, SendPause, LoadCommitted
  <2> QED
    BY <1>2, <2>1, <2>2, <2>3 DEF Request
<1>3. CASE \E g \in Gens : Carry(g)
  BY <1>3, CarryBehaves
<1>4. CASE Runtime
  <2>1. ASSUME NEW g \in Gens, StartTask(g) \/ \E d \in BOOLEAN : EndTask(g, d) PROVE Behaved'
    <3>1. /\ UNCHANGED <<mint, at, lock, eventSeq, seqOf>> /\ task[g] # "none"
          /\ \A h \in Gens : h # g => task'[h] = task[h]
      BY <2>1 DEF StartTask, EndTask
    <3>2. \A h \in Gens : task'[h] # "none" => task[h] # "none"
      BY <3>1
    <3> QED
      BY <3>1, <3>2 DEF Behaved
  <2>2. ASSUME NEW t \in tails, Continue(t) PROVE Behaved'
    <3>1. CASE ContinueLoad(t.kind, t.over, t.track, t.play)
      <4>1. /\ MintAs([kind |-> t.kind, track |-> t.track, play |-> t.play, owner |-> Owner,
                       orphans |-> FALSE], "announce")
            /\ UNCHANGED <<lock, eventSeq, seqOf, task>>
        BY <2>2, <3>1 DEF Continue, ContinueLoad
      <4> QED
        BY <4>1, MintBehaves
    <3>2. CASE UNCHANGED <<gen, mint, at, asked, undercut>>
      BY <1>1, <2>2, <3>2 DEF Continue
    <3> QED
      BY <2>2, <3>1, <3>2 DEF Continue
  <2>3. CASE TakeNext \/ DispatchCompleted \/ (\E t \in Tracks : Stage(t))
             \/ (\E r \in replays : DispatchReplay(r))
    BY <1>1, <2>3 DEF TakeNext, DispatchCompleted, Stage, DispatchReplay
  <2> QED
    BY <1>4, <2>1, <2>2, <2>3 DEF Runtime
<1>5. CASE Thread
  BY <1>1, <1>5 DEF Thread, HandleLoadStarted, HandleLoadSettled, HandleLoad, HandlePlay,
              HandleReassert, HandlePause, HandleStop, HandleOrphan, EndTrack, ReleaseDevice,
              RearmShared
<1>6. CASE UNCHANGED vars
  BY <1>1, <1>6 DEF vars
<1> QED
  BY <1>2, <1>3, <1>4, <1>5, <1>6 DEF Next

(* A step that takes nothing from the channel, by what it puts there. *)
SendRule == \E e \in Seq(Commands) :
    /\ cmds' = cmds \o e
    /\ \A j \in 1 .. Len(e), g \in Gens :
         /\ e[j] = Loaded(g) => task[g] # "none"
         /\ e[j] = Stopped(g) => j = 1 /\ at[g] = "send" /\ at'[g] = "done"
    /\ \A j \in 1 .. Len(e) :
         /\ e[j] = Orphan => j > 1 /\ \E g \in Gens : e[j - 1] = Stopped(g)
         /\ e[j] \in Plays => (OverStop => asked')
    /\ UNCHANGED <<currentSeq, orphaned>>
    /\ playing' \in {playing, FALSE}
    /\ gen' = gen /\ OverStop =>
         /\ asked => asked'
         /\ at[gen] # "done" /\ at'[gen] = "done" => \E j \in 1 .. Len(e) : e[j] = Stopped(gen)

(* A step that takes a command, by what it does to the music and the events. *)
TakeRule == \E c \in Commands :
    /\ Take(c)
    /\ UNCHANGED <<word, seqs, task, history>>
    /\ playing' => playing \/ c \in Plays \/ \E g \in Gens : g = gen /\ c = Loaded(g)
    /\ \A g \in Gens : c = Stopped(g) => ~playing'
    /\ orphaned' => c = Orphan \/ orphaned
    /\ orphaned' => playing' \in {playing, FALSE}
    /\ \/ currentSeq' = currentSeq
       \/ \E g \in Gens : currentSeq' = seqOf[g] /\ (c = Stopped(g) \/ (g = gen /\ c = Loaded(g)))

LEMMA PlayForms ==
    ASSUME NEW g \in Gens, NEW h \in Gens, NEW c \in Plays \cup {Pause, Orphan}
    PROVE  /\ c # Loaded(g) /\ c # Stopped(g) /\ c \in Commands
           /\ c # Started(g) /\ c # Settled(g)
           /\ Loaded(g) # Stopped(h) /\ Started(g) # Stopped(h) /\ Settled(g) # Stopped(h)
           /\ Started(g) # Loaded(h) /\ Settled(g) # Loaded(h)
           /\ Loaded(g) = Loaded(h) => g = h
           /\ Stopped(g) = Stopped(h) => g = h
           /\ \A x \in {Orphan, Pause, Started(g), Settled(g), Loaded(g), Stopped(g)} : x \notin Plays
           /\ \A x \in {Pause, Started(g), Settled(g), Loaded(g), Stopped(g)} : x # Orphan
<1>1. \A x \in Plays : x.type \in {"Play", "ReassertResume"} /\ x \in Commands
  BY DEF Plays, Play, Reassert, Commands
<1>2. /\ Orphan.type = "Orphan" /\ Pause.type = "Pause"
      /\ \A x \in Gens : /\ Started(x).type = "LoadStarted" /\ Settled(x).type = "LoadSettled"
                         /\ Loaded(x).type = "Load" /\ Stopped(x).type = "Stop"
                         /\ Loaded(x).arg = x /\ Stopped(x).arg = x
  BY DEF Started, Settled, Loaded, Stopped, Pause, Orphan
<1>3. {Pause, Orphan} \subseteq Commands
  BY DEF Commands
<1>4. c \in Commands /\ c.type \in {"Play", "ReassertResume", "Pause", "Orphan"}
  BY <1>1, <1>2, <1>3
<1>5. /\ c # Loaded(g) /\ c # Stopped(g) /\ c # Started(g) /\ c # Settled(g)
  BY <1>2, <1>4
<1>6. /\ Loaded(g) # Stopped(h) /\ Started(g) # Stopped(h) /\ Settled(g) # Stopped(h)
      /\ Started(g) # Loaded(h) /\ Settled(g) # Loaded(h)
      /\ Loaded(g) = Loaded(h) => g = h
      /\ Stopped(g) = Stopped(h) => g = h
  BY <1>2
<1>7. /\ \A x \in {Orphan, Pause, Started(g), Settled(g), Loaded(g), Stopped(g)} : x \notin Plays
      /\ \A x \in {Pause, Started(g), Settled(g), Loaded(g), Stopped(g)} : x # Orphan
  BY <1>1, <1>2
<1> QED
  BY <1>4, <1>5, <1>6, <1>7

LEMMA SentNothing ==
    ASSUME ChannelOK, UNCHANGED <<cmds, currentSeq, orphaned>>, playing' \in {playing, FALSE},
           gen' = gen /\ OverStop => (asked => asked') /\ (at'[gen] = "done" => at[gen] = "done")
    PROVE  SendRule
<1> DEFINE e == <<>>
<1>1. e \in Seq(Commands) /\ Len(e) = 0
  OBVIOUS
<1>2. cmds' = cmds \o e
  BY ConcatEmptySeq DEF ChannelOK
<1>3. 1 .. Len(e) = {}
  BY <1>1
<1> HIDE DEF e
<1> QED BY <1>1, <1>2, <1>3 DEF SendRule

LEMMA SentOne ==
    ASSUME ChannelOK, NEW c \in Commands, cmds' = Append(cmds, c), c # Orphan,
           \A g \in Gens : c # Loaded(g) /\ c # Stopped(g),
           c \in Plays => (OverStop => asked'),
           UNCHANGED <<currentSeq, orphaned, playing>>,
           gen' = gen /\ OverStop => (asked => asked') /\ (at'[gen] = "done" => at[gen] = "done")
    PROVE  SendRule
<1> DEFINE e == <<c>>
<1>1. e \in Seq(Commands) /\ Len(e) = 1 /\ e[1] = c
  OBVIOUS
<1>2. cmds' = cmds \o e
  BY AppendIsConcat DEF ChannelOK
<1>3. \A j \in 1 .. Len(e) : e[j] = c
  BY <1>1
<1> HIDE DEF e
<1> QED BY <1>1, <1>2, <1>3 DEF SendRule

LEMMA RequestRule ==
    ASSUME WordInv, ChannelOK, Request
    PROVE  SendRule
<1>0. gen \in Nat
  BY DEF WordInv, StateOK
<1>1. ASSUME gen' = gen + 1, UNCHANGED <<cmds, currentSeq, orphaned, playing>>
      PROVE  SendRule
  BY <1>0, <1>1, SentNothing
<1>2. ASSUME NEW t, NEW p, NEW o, BeginLoad(t, p, o) PROVE SendRule
  BY <1>1, <1>2 DEF BeginLoad, MintAs
<1>3. ASSUME NEW scope, Stop(scope) PROVE SendRule
  BY <1>1, <1>3 DEF Stop, MintAs
<1>4. ASSUME NEW c \in Plays \cup {Pause}, cmds' = Append(cmds, c),
             asked' = OverStop \/ (c = Pause /\ asked' = asked),
             UNCHANGED <<currentSeq, orphaned, playing, at>>
      PROVE  SendRule
  <2>1. c \in Commands /\ c # Orphan
    BY DEF Plays, Commands, Play, Pause, Orphan, Reassert
  <2>2. \A g \in Gens : c # Loaded(g) /\ c # Stopped(g)
    BY PlayForms
  <2>3. c \in Plays => c # Pause
    BY DEF Plays, Play, Pause, Reassert
  <2> QED
    BY <1>4, <2>1, <2>2, <2>3, SentOne
<1>5. ASSUME NEW want \in BOOLEAN, LoadCommitted(want) PROVE SendRule
  <2>1. /\ committed \in Tracks /\ cmds' = Append(cmds, Reassert(committed, want))
        /\ asked' = OverStop /\ UNCHANGED <<currentSeq, orphaned, playing, at>>
    BY <1>5 DEF LoadCommitted
  <2> QED
    BY <1>4, <2>1 DEF Plays
<1>6. CASE SendPlay
  BY <1>4, <1>6 DEF SendPlay, Plays
<1>7. CASE SendPause
  BY <1>4, <1>7 DEF SendPause
<1> QED
  BY <1>2, <1>3, <1>5, <1>6, <1>7 DEF Request

LEMMA CarryRule ==
    ASSUME WordInv, ChannelOK, NEW g \in Gens, Carry(g)
    PROVE  SendRule
<1>0. UNCHANGED <<gen, mint, asked, currentSeq, orphaned, playing>>
  BY DEF Carry, SendStop, Announce, AbortPrevious, PublishLoad, Spawn
<1>1. CASE SendStop(g)
  <2> DEFINE o == IF mint[g].orphans THEN <<Orphan>> ELSE <<>>
             e == <<Stopped(g)>> \o o
  <2>1. Stopped(g) \in Commands /\ Orphan \in Commands
    BY DEF Commands
  <2>2. o \in Seq(Commands) /\ Len(o) \in Nat /\ \A j \in 1 .. Len(o) : j = 1 /\ o[j] = Orphan
    BY <2>1
  <2> HIDE DEF o
  <2>3. /\ e \in Seq(Commands) /\ Len(e) = Len(o) + 1 /\ e[1] = Stopped(g)
        /\ \A j \in 2 .. Len(e) : j = 2 /\ e[j] = Orphan
    <3>1. <<Stopped(g)>> \in Seq(Commands) /\ Len(<<Stopped(g)>>) = 1
      BY <2>1
    <3>2. /\ e \in Seq(Commands) /\ Len(e) = 1 + Len(o) /\ e[1] = <<Stopped(g)>>[1]
          /\ \A j \in 2 .. 1 + Len(o) : e[j] = o[j - 1]
      BY <2>2, <3>1, ConcatProperties
    <3>3. \A j \in 2 .. 1 + Len(o) : j - 1 \in 1 .. Len(o)
      BY <2>2
    <3> QED
      BY <2>2, <3>2, <3>3
  <2>4. cmds' = cmds \o e
    <3>1. cmds' = (cmds \o <<Stopped(g)>>) \o o
      BY <1>1 DEF SendStop, o
    <3>2. <<Stopped(g)>> \in Seq(Commands)
      BY <2>1
    <3> QED
      BY <2>2, <3>1, <3>2, ConcatAssociative DEF ChannelOK
  <2>5. /\ at[g] = "send" /\ at'[g] = "done" /\ \A h \in Gens : h # g => at'[h] = at[h]
    BY <1>1 DEF SendStop, Advance, WordInv, StateOK
  <2>6. \A j \in 1 .. Len(e) : (j = 1 /\ e[j] = Stopped(g)) \/ (j = 2 /\ e[j] = Orphan)
    BY <2>3
  <2>7. 1 \in 1 .. Len(e)
    BY <2>2, <2>3
  <2> HIDE DEF e
  <2>8. \A j \in 1 .. Len(e), h \in Gens :
          /\ e[j] = Loaded(h) => task[h] # "none"
          /\ e[j] = Stopped(h) => j = 1 /\ at[h] = "send" /\ at'[h] = "done"
    <3>1. \A h \in Gens : /\ Stopped(g) # Loaded(h) /\ Orphan # Loaded(h) /\ Orphan # Stopped(h)
                          /\ Stopped(g) = Stopped(h) => g = h
      BY PlayForms
    <3> QED
      BY <2>5, <2>6, <3>1
  <2>9. \A j \in 1 .. Len(e) :
          /\ e[j] = Orphan => j > 1 /\ \E h \in Gens : e[j - 1] = Stopped(h)
          /\ e[j] \notin Plays
    <3>1. Stopped(g) # Orphan /\ Orphan \notin Plays /\ Stopped(g) \notin Plays
      BY PlayForms
    <3>2. ASSUME NEW j \in 1 .. Len(e), j = 2 PROVE j > 1 /\ j - 1 = 1 /\ e[j - 1] = Stopped(g)
      BY <2>3, <3>2
    <3> QED
      BY <2>6, <3>1, <3>2
  <2>10. OverStop => /\ asked => asked'
                     /\ at[gen] # "done" /\ at'[gen] = "done"
                           => \E j \in 1 .. Len(e) : e[j] = Stopped(gen)
    <3>1. OverStop => gen \in Gens
      BY DEF OverStop, WordInv, StateOK
    <3>2. OverStop /\ at[gen] # "done" /\ at'[gen] = "done" => gen = g
      BY <2>5, <3>1
    <3> QED
      BY <1>0, <2>3, <2>7, <3>2
  <2> QED
    BY <1>0, <2>3, <2>4, <2>8, <2>9, <2>10 DEF SendRule
<1>2. CASE ~SendStop(g)
  <2>1. OverStop /\ at'[gen] = "done" => at[gen] = "done"
    <3>1. SUFFICES ASSUME OverStop, at[gen] # "done" PROVE at'[gen] # "done"
      OBVIOUS
    <3>2. gen \in Gens /\ mint[gen].kind = "stop"
      BY <3>1 DEF OverStop, WordInv, StateOK
    <3>3. at[g] \in LoadSteps
      BY <1>2 DEF Carry, Announce, AbortPrevious, PublishLoad, Spawn, LoadSteps
    <3>4. gen # g
      BY <3>2, <3>3 DEF WordInv, StepsOK
    <3> QED
      BY <1>2, <3>1, <3>2, <3>4 DEF Carry, Announce, AbortPrevious, PublishLoad, Spawn, Advance,
                                 WordInv, StateOK
  <2>2. CASE Announce(g)
    <3>1. Started(g) \in Commands /\ Started(g) # Orphan /\ Started(g) \notin Plays
      BY PlayForms DEF Commands
    <3>2. \A h \in Gens : Started(g) # Loaded(h) /\ Started(g) # Stopped(h)
      BY PlayForms
    <3> QED
      BY <1>0, <2>1, <2>2, <3>1, <3>2, SentOne DEF Announce
  <2>3. CASE AbortPrevious(g) \/ PublishLoad(g) \/ Spawn(g)
    <3>1. cmds' = cmds
      BY <2>3 DEF AbortPrevious, PublishLoad, Spawn
    <3> QED
      BY <1>0, <2>1, <3>1, SentNothing
  <2> QED
    BY <1>2, <2>2, <2>3 DEF Carry
<1> QED
  BY <1>1, <1>2

LEMMA RuntimeRule ==
    ASSUME WordInv, ChannelOK, Runtime
    PROVE  SendRule
<1>0. gen \in Nat /\ UNCHANGED <<currentSeq, orphaned, playing>>
  <2>1. gen \in Nat
    BY DEF WordInv, StateOK
  <2>2. UNCHANGED thread
    BY DEF Runtime, StartTask, EndTask, Stage, TakeNext, DispatchCompleted, DispatchReplay,
           Continue
  <2> QED
    BY <2>1, <2>2
<1>1. CASE UNCHANGED <<gen, at, cmds>> /\ (OverStop /\ asked => asked')
  BY <1>0, <1>1, SentNothing
<1>2. ASSUME NEW g \in Gens, StartTask(g) PROVE SendRule
  BY <1>1, <1>2 DEF StartTask
<1>3. ASSUME NEW g \in Gens, NEW d \in BOOLEAN, EndTask(g, d) PROVE SendRule
  <2> DEFINE l == IF d THEN <<Loaded(g)>> ELSE <<>>
             e == l \o <<Settled(g)>>
  <2>1. Loaded(g) \in Commands /\ Settled(g) \in Commands
    BY DEF Commands
  <2>2. l \in Seq(Commands) /\ Len(l) \in Nat /\ \A j \in 1 .. Len(l) : l[j] = Loaded(g)
    BY <2>1
  <2>3. cmds' = (cmds \o l) \o <<Settled(g)>>
    BY <1>3 DEF EndTask
  <2> HIDE DEF l
  <2>4. <<Settled(g)>> \in Seq(Commands)
    BY <2>1
  <2>5. cmds' = cmds \o e
    BY <2>2, <2>3, <2>4, ConcatAssociative DEF ChannelOK
  <2>6. e \in Seq(Commands) /\ \A j \in 1 .. Len(e) : e[j] \in {Loaded(g), Settled(g)}
    <3>1. /\ e \in Seq(Commands) /\ Len(e) = Len(l) + 1
          /\ \A j \in 1 .. Len(l) : e[j] = l[j]
          /\ e[Len(l) + 1] = Settled(g)
      BY <2>1, <2>2
    <3> HIDE DEF e
    <3> QED
      BY <2>2, <3>1
  <2> HIDE DEF e
  <2>7. /\ \A h \in Gens : /\ Loaded(g) = Loaded(h) => g = h
                           /\ Settled(g) # Loaded(h) /\ Loaded(g) # Stopped(h)
                           /\ Settled(g) # Stopped(h)
        /\ {Loaded(g), Settled(g)} \cap (Plays \cup {Orphan}) = {}
    BY PlayForms
  <2>8. UNCHANGED <<gen, at, asked>> /\ task[g] # "none"
    BY <1>3 DEF EndTask
  <2> QED
    BY <1>0, <2>5, <2>6, <2>7, <2>8 DEF SendRule
<1>4. ASSUME NEW t \in tails, Continue(t) PROVE SendRule
  <2>1. cmds' = cmds
    BY <1>4 DEF Continue
  <2>2. CASE gen' = gen + 1
    BY <1>0, <2>1, <2>2, SentNothing
  <2>3. CASE UNCHANGED <<gen, at, asked>>
    BY <1>1, <2>1, <2>3
  <2> QED
    BY <1>4, <2>2, <2>3 DEF Continue, ContinueLoad, MintAs
<1>5. ASSUME NEW t \in Tracks, Stage(t) PROVE SendRule
  BY <1>1, <1>5 DEF Stage
<1>6. CASE TakeNext \/ DispatchCompleted \/ (\E r \in replays : DispatchReplay(r))
  BY <1>1, <1>6 DEF TakeNext, DispatchCompleted, DispatchReplay
<1> QED
  BY <1>2, <1>3, <1>4, <1>5, <1>6 DEF Runtime

(* What a play the thread follows does to the music. *)
LEMMA PlayFromRule ==
    ASSUME ThreadOK, NEW o \in BOOLEAN, PlayFrom(o)
    PROVE  o => playing' = playing
  BY DEF PlayFrom

LEMMA ThreadRule ==
    ASSUME WordInv, ChannelOK, Thread
    PROVE  SendRule \/ TakeRule
<1>0. ThreadOK
  BY DEF WordInv
<1>1. ASSUME NEW c \in Commands, Take(c), UNCHANGED <<word, seqs, task, history, orphaned>>,
             currentSeq' = currentSeq, playing' \in {playing, FALSE},
             \A g \in Gens : c # Stopped(g)
      PROVE  TakeRule
  <2>1. playing' = playing \/ playing' = FALSE
    BY <1>1
  <2>2. orphaned' = orphaned
    BY <1>1
  <2>3. CASE playing' = playing
    BY <1>1, <2>2, <2>3 DEF TakeRule
  <2>4. CASE playing' = FALSE
    <3>1. ~playing' /\ playing' \in {playing, FALSE}
      BY <2>4
    <3>2. orphaned' => c = Orphan \/ orphaned
      BY <2>2
    <3> QED
      BY <1>1, <3>1, <3>2 DEF TakeRule
  <2> QED
    BY <2>1, <2>3, <2>4
<1>2. CASE HandleLoadStarted
  <2>1. PICK g \in Gens : /\ Take(Started(g))
                          /\ UNCHANGED <<word, seqs, task, history, orphaned, currentSeq, playing>>
    BY <1>2 DEF HandleLoadStarted
  <2>2. Started(g) \in Commands /\ \A h \in Gens : Started(g) # Stopped(h)
    BY PlayForms DEF Commands
  <2> QED
    BY <1>1, <2>1, <2>2
<1>3. CASE HandleLoadSettled
  <2>1. PICK g \in Gens : /\ Take(Settled(g))
                          /\ UNCHANGED <<word, seqs, task, history, orphaned, currentSeq, playing>>
    BY <1>3 DEF HandleLoadSettled
  <2>2. Settled(g) \in Commands /\ \A h \in Gens : Settled(g) # Stopped(h)
    BY PlayForms DEF Commands
  <2> QED
    BY <1>1, <2>1, <2>2
<1>4. CASE HandleLoad
  <2>1. PICK g \in Gens : /\ Take(Loaded(g)) /\ UNCHANGED <<word, seqs, task, history>>
                          /\ \/ g = gen /\ Open(g)
                             \/ g # gen /\ UNCHANGED <<orphaned, currentSeq, playing>>
    BY <1>4 DEF HandleLoad
  <2>2. Loaded(g) \in Commands /\ \A h \in Gens : Loaded(g) # Stopped(h)
    BY PlayForms DEF Commands
  <2>3. CASE g = gen /\ Open(g)
    <3>1. orphaned' = FALSE /\ currentSeq' = seqOf[g]
      BY <2>3 DEF Open
    <3>2. \E h \in Gens : h = gen /\ Loaded(g) = Loaded(h)
      BY <2>3
    <3>3. \E h \in Gens : currentSeq' = seqOf[h] /\ (Loaded(g) = Stopped(h)
                                                      \/ (h = gen /\ Loaded(g) = Loaded(h)))
      BY <2>3, <3>1
    <3> QED
      BY <2>1, <2>2, <3>1, <3>2, <3>3 DEF TakeRule
  <2>4. CASE UNCHANGED <<orphaned, currentSeq, playing>>
    BY <1>1, <2>1, <2>2, <2>4
  <2> QED
    BY <2>1, <2>3, <2>4
<1>5. CASE HandlePlay
  <2>1. /\ Take(Play) /\ UNCHANGED <<word, seqs, task, history, orphaned, currentSeq>>
        /\ PlayFrom(orphaned)
    BY <1>5 DEF HandlePlay
  <2>2. Play \in Plays /\ Play \in Commands /\ \A h \in Gens : Play # Stopped(h)
    BY PlayForms DEF Plays, Commands
  <2>3. orphaned => playing' = playing
    BY <1>0, <2>1, PlayFromRule DEF ThreadOK
  <2> QED
    BY <2>1, <2>2, <2>3 DEF TakeRule
<1>6. CASE HandleReassert
  <2>1. PICK t \in Tracks, want \in BOOLEAN :
          /\ Take(Reassert(t, want)) /\ UNCHANGED <<word, seqs, task, history, currentSeq>>
          /\ orphaned' = (orphaned /\ currentTrack # t)
          /\ PlayFrom(orphaned') \/ playing' = playing
    BY <1>6 DEF HandleReassert
  <2>2. /\ Reassert(t, want) \in Plays /\ Reassert(t, want) \in Commands
        /\ \A h \in Gens : Reassert(t, want) # Stopped(h)
    <3>1. Reassert(t, want) \in Plays
      BY DEF Plays
    <3> QED
      BY <3>1, PlayForms DEF Commands
  <2>3. orphaned' => orphaned /\ playing' = playing
    <3>1. PICK o \in BOOLEAN : o = orphaned'
      BY <2>1
    <3>2. PlayFrom(o) \/ playing' = playing
      BY <2>1, <3>1
    <3>3. o => playing' = playing
      BY <1>0, <3>2, PlayFromRule
    <3>4. orphaned' => orphaned
      BY <2>1
    <3> QED
      BY <3>1, <3>3, <3>4
  <2> QED
    BY <2>1, <2>2, <2>3 DEF TakeRule
<1>7. CASE HandlePause
  <2>1. Pause \in Commands /\ \A h \in Gens : Pause # Stopped(h)
    BY PlayForms DEF Commands
  <2> QED
    BY <1>1, <1>7, <2>1 DEF HandlePause
<1>8. CASE HandleStop
  <2>1. PICK g \in Gens : /\ Take(Stopped(g)) /\ UNCHANGED <<word, seqs, task, history, orphaned>>
                          /\ currentSeq' = seqOf[g] /\ playing' = FALSE
    BY <1>8 DEF HandleStop
  <2>2. Stopped(g) \in Commands
    BY DEF Commands
  <2> QED
    BY <2>1, <2>2 DEF TakeRule
<1>9. CASE HandleOrphan
  <2>1. Orphan \in Commands /\ \A h \in Gens : Orphan # Stopped(h)
    BY PlayForms DEF Commands
  <2>2. /\ Take(Orphan) /\ UNCHANGED <<word, seqs, task, history, currentSeq, playing>>
    BY <1>9 DEF HandleOrphan
  <2> QED
    BY <2>1, <2>2 DEF TakeRule
<1>10. CASE (\E completed \in BOOLEAN : EndTrack(completed)) \/ ReleaseDevice \/ RearmShared
  <2>1. /\ UNCHANGED <<gen, at, cmds, asked, currentSeq, orphaned>> /\ playing' \in {playing, FALSE}
    BY <1>10 DEF EndTrack, ReleaseDevice, RearmShared
  <2> QED
    BY <2>1, SentNothing
<1> QED BY <1>2, <1>3, <1>4, <1>5, <1>6, <1>7, <1>8, <1>9, <1>10 DEF Thread

LEMMA NextRule ==
    ASSUME WordInv, ChannelOK, [Next]_vars
    PROVE  SendRule \/ TakeRule
<1>1. CASE UNCHANGED vars
  BY <1>1, SentNothing DEF vars
<1> QED
  BY <1>1, RequestRule, CarryRule, RuntimeRule, ThreadRule DEF Next

(* What is sent joins the end of the channel. *)
LEMMA SentSpots ==
    ASSUME ChannelOK, NEW e \in Seq(Commands), cmds' = cmds \o e
    PROVE  /\ Len(cmds) \in Nat /\ Len(e) \in Nat
           /\ \A i \in Spots : i \in Spots' /\ cmds'[i] = cmds[i]
           /\ \A j \in 1 .. Len(e) : Len(cmds) + j \in Spots' /\ cmds'[Len(cmds) + j] = e[j]
           /\ \A i \in Spots' : i \in Spots \/ \E j \in 1 .. Len(e) : i = Len(cmds) + j
<1>1. /\ Len(cmds') = Len(cmds) + Len(e)
      /\ \A i \in 1 .. Len(cmds) : cmds'[i] = cmds[i]
      /\ \A i \in Len(cmds) + 1 .. Len(cmds) + Len(e) : cmds'[i] = e[i - Len(cmds)]
      /\ Len(cmds) \in Nat /\ Len(e) \in Nat
  BY ConcatProperties DEF ChannelOK
<1>2. \A j \in 1 .. Len(e) : /\ Len(cmds) + j \in Len(cmds) + 1 .. Len(cmds) + Len(e)
                             /\ (Len(cmds) + j) - Len(cmds) = j
                             /\ Len(cmds) + j \in 1 .. Len(cmds')
  BY <1>1
<1>3. ASSUME NEW i \in 1 .. Len(cmds'), i \notin 1 .. Len(cmds)
      PROVE  \E j \in 1 .. Len(e) : i = Len(cmds) + j
  <2>1. i - Len(cmds) \in 1 .. Len(e) /\ i = Len(cmds) + (i - Len(cmds))
    BY <1>1, <1>3
  <2> QED
    BY <2>1
<1>4. \A i \in 1 .. Len(cmds) : i \in 1 .. Len(cmds')
  BY <1>1
<1>5. \A j \in 1 .. Len(e) : cmds'[Len(cmds) + j] = e[j]
  <2> TAKE j \in 1 .. Len(e)
  <2>1. cmds'[Len(cmds) + j] = e[(Len(cmds) + j) - Len(cmds)]
    BY <1>1, <1>2
  <2> QED
    BY <1>2, <2>1
<1> QED
  BY <1>1, <1>2, <1>3, <1>4, <1>5 DEF Spots

(* What is taken was at its head. *)
LEMMA TakenSpots ==
    ASSUME ChannelOK, NEW c, Take(c)
    PROVE  /\ 1 \in Spots /\ cmds[1] = c
           /\ \A i \in Spots' : i + 1 \in Spots /\ cmds'[i] = cmds[i + 1]
           /\ \A i \in Spots : i = 1 \/ (i - 1 \in Spots' /\ cmds'[i - 1] = cmds[i])
<1>1. /\ Len(cmds') = Len(cmds) - 1 /\ Len(cmds) \in Nat /\ Len(cmds) > 0
      /\ \A i \in 1 .. Len(cmds') : cmds'[i] = cmds[i + 1]
      /\ cmds[1] = c
  BY HeadTailProperties DEF Take, ChannelOK
<1>2. \A i \in 1 .. Len(cmds) : i = 1 \/ (i - 1 \in 1 .. Len(cmds') /\ (i - 1) + 1 = i)
  BY <1>1
<1>3. \A i \in 1 .. Len(cmds) : i = 1 \/ cmds'[i - 1] = cmds[i]
  BY <1>1, <1>2
<1>4. 1 \in 1 .. Len(cmds) /\ \A i \in 1 .. Len(cmds') : i + 1 \in 1 .. Len(cmds)
  BY <1>1
<1> QED
  BY <1>1, <1>2, <1>3, <1>4 DEF Spots

LEMMA PostedKept ==
    ASSUME WordInv, ChannelOK, Behaved, Posted, [Next]_vars, SendRule \/ TakeRule
    PROVE  Posted'
<1>0. \A g \in Gens : at[g] = "done" => at'[g] = "done" /\ mint'[g] = mint[g]
  BY DoneStays
<1>1. CASE SendRule
  <2>1. PICK e \in Seq(Commands) :
          /\ cmds' = cmds \o e
          /\ \A j \in 1 .. Len(e), g \in Gens :
               /\ e[j] = Loaded(g) => task[g] # "none"
               /\ e[j] = Stopped(g) => j = 1 /\ at[g] = "send" /\ at'[g] = "done"
    BY <1>1 DEF SendRule
  <2>2. /\ \A i \in Spots : i \in Spots' /\ cmds'[i] = cmds[i]
        /\ \A j \in 1 .. Len(e) : cmds'[Len(cmds) + j] = e[j]
        /\ \A i \in Spots' : i \in Spots \/ \E j \in 1 .. Len(e) : i = Len(cmds) + j
    BY <2>1, SentSpots
  <2>3. ASSUME NEW i \in Spots', NEW g \in Gens
        PROVE  /\ cmds'[i] = Loaded(g) => at'[g] = "done" /\ mint'[g].kind # "stop"
               /\ cmds'[i] = Stopped(g) => at'[g] = "done" /\ mint'[g].kind = "stop"
    <3>1. CASE i \in Spots
      BY <1>0, <2>2, <3>1 DEF Posted
    <3>2. CASE \E j \in 1 .. Len(e) : i = Len(cmds) + j
      <4>1. PICK j \in 1 .. Len(e) : i = Len(cmds) + j
        BY <3>2
      <4>2. cmds'[i] = e[j]
        BY <2>2, <4>1
      <4>3. cmds'[i] = Loaded(g) => at[g] = "done" /\ mint[g].kind # "stop"
        BY <2>1, <4>2 DEF Behaved
      <4>4. cmds'[i] = Stopped(g) => at[g] = "send" /\ at'[g] = "done" /\ mint[g].kind = "stop"
        BY <2>1, <4>2 DEF Behaved
      <4>5. at[g] = "send" => mint'[g] = mint[g]
        <5>1. at[g] = "send" => g \in 1 .. gen
          BY DEF WordInv, StepsOK, StateOK
        <5>2. MintFrame \/ CarryFrame \/ RuntimeFrame
          BY NextFrames DEF WordInv
        <5> QED
          BY <5>1, <5>2, MintKept DEF WordInv
      <4> QED
        BY <1>0, <4>3, <4>4, <4>5
    <3> QED
      BY <2>2, <3>1, <3>2
  <2> QED
    BY <2>3 DEF Posted
<1>2. CASE TakeRule
  <2>1. PICK c \in Commands : Take(c) /\ UNCHANGED word
    BY <1>2 DEF TakeRule
  <2>2. \A i \in Spots' : i + 1 \in Spots /\ cmds'[i] = cmds[i + 1]
    BY <2>1, TakenSpots
  <2> QED
    BY <1>0, <2>1, <2>2 DEF Posted
<1> QED
  BY <1>1, <1>2

LEMMA SilencedKept ==
    ASSUME WordInv, ChannelOK, Silenced, SendRule \/ TakeRule
    PROVE  Silenced'
<1>0. playing \in BOOLEAN /\ orphaned \in BOOLEAN
  BY DEF WordInv, ThreadOK
<1>1. CASE SendRule
  <2>1. PICK e \in Seq(Commands) :
          /\ cmds' = cmds \o e
          /\ \A j \in 1 .. Len(e) :
               e[j] = Orphan => j > 1 /\ \E g \in Gens : e[j - 1] = Stopped(g)
          /\ orphaned' = orphaned
          /\ playing' \in {playing, FALSE}
    BY <1>1 DEF SendRule
  <2>2. /\ Len(cmds) \in Nat /\ Len(e) \in Nat
        /\ \A i \in Spots : i \in Spots' /\ cmds'[i] = cmds[i]
        /\ \A j \in 1 .. Len(e) : cmds'[Len(cmds) + j] = e[j]
        /\ \A i \in Spots' : i \in Spots \/ \E j \in 1 .. Len(e) : i = Len(cmds) + j
    BY <2>1, SentSpots
  <2>3. ~playing => ~playing'
    <3>1. CASE playing' = playing
      BY <3>1
    <3>2. CASE playing' = FALSE
      BY <3>2
    <3> QED
      BY <2>1, <3>1, <3>2
  <2>4. ASSUME NEW i \in Spots', cmds'[i] = Orphan
        PROVE  IF i = 1 THEN ~playing' ELSE \E g \in Gens : cmds'[i - 1] = Stopped(g)
    <3>1. CASE i \in Spots
      <4>1. CASE i = 1
        BY <2>2, <2>3, <2>4, <3>1, <4>1 DEF Silenced
      <4>2. CASE i # 1
        <5>1. PICK g \in Gens : cmds[i - 1] = Stopped(g)
          BY <2>2, <2>4, <3>1, <4>2 DEF Silenced
        <5>2. i - 1 \in Spots
          BY <2>2, <3>1, <4>2 DEF Spots
        <5> QED
          BY <2>2, <4>2, <5>1, <5>2
      <4> QED
        BY <4>1, <4>2
    <3>2. CASE \E j \in 1 .. Len(e) : i = Len(cmds) + j
      <4>1. PICK j \in 1 .. Len(e) : i = Len(cmds) + j
        BY <3>2
      <4>2. PICK g \in Gens : j > 1 /\ e[j - 1] = Stopped(g)
        BY <2>1, <2>2, <2>4, <4>1
      <4>3. j - 1 \in 1 .. Len(e) /\ i - 1 = Len(cmds) + (j - 1) /\ i # 1
        BY <2>2, <4>1, <4>2
      <4> QED
        BY <2>2, <4>2, <4>3
    <3> QED
      BY <2>2, <3>1, <3>2
  <2>5. OrphanedIsSilent'
    <3>1. orphaned => ~playing
      BY DEF Silenced, OrphanedIsSilent
    <3>2. orphaned' => orphaned
      BY <2>1
    <3> QED
      BY <2>3, <3>1, <3>2 DEF OrphanedIsSilent
  <2> QED
    BY <2>4, <2>5 DEF Silenced
<1>2. CASE TakeRule
  <2>1. PICK c \in Commands :
          /\ Take(c)
          /\ \A g \in Gens : c = Stopped(g) => ~playing'
          /\ orphaned' => c = Orphan \/ orphaned
          /\ orphaned' => playing' \in {playing, FALSE}
    BY <1>2 DEF TakeRule
  <2>2. /\ 1 \in Spots /\ cmds[1] = c
        /\ \A i \in Spots' : i + 1 \in Spots /\ cmds'[i] = cmds[i + 1]
        /\ \A i \in Spots : i = 1 \/ (i - 1 \in Spots' /\ cmds'[i - 1] = cmds[i])
    BY <2>1, TakenSpots
  <2>3. ASSUME NEW i \in Spots', cmds'[i] = Orphan
        PROVE  IF i = 1 THEN ~playing' ELSE \E g \in Gens : cmds'[i - 1] = Stopped(g)
    <3>1. i + 1 \in Spots /\ cmds[i + 1] = Orphan /\ i + 1 # 1 /\ (i + 1) - 1 = i /\ i \in Spots
      BY <2>2, <2>3 DEF Spots
    <3>2. PICK g \in Gens : cmds[i] = Stopped(g)
      BY <3>1 DEF Silenced
    <3>3. CASE i = 1
      BY <2>1, <2>2, <3>2, <3>3
    <3>4. CASE i # 1
      BY <2>2, <3>1, <3>2, <3>4
    <3> QED
      BY <3>3, <3>4
  <2>4. ASSUME orphaned' PROVE ~playing'
    <3>1. ~playing
      <4>1. c = Orphan => ~playing
        BY <2>2 DEF Silenced
      <4>2. orphaned => ~playing
        BY DEF Silenced, OrphanedIsSilent
      <4> QED
        BY <2>1, <2>4, <4>1, <4>2
    <3>2. CASE playing' = playing
      BY <3>1, <3>2
    <3>3. CASE playing' = FALSE
      BY <3>3
    <3> QED
      BY <2>1, <2>4, <3>2, <3>3
  <2> QED
    BY <2>3, <2>4 DEF Silenced, OrphanedIsSilent
<1> QED
  BY <1>1, <1>2

(* A step mints, or numbers one request, or leaves the words and the sequences. *)
Mints == /\ gen' = gen + 1
         /\ gen' \in Gens
         /\ at'[gen'] \in {"announce", "send"}
         /\ \A g \in Gens : g # gen' => at'[g] = at[g]
         /\ UNCHANGED seqs
         /\ undercut' \/ \A g \in Gens : at[g] # "send"

Numbers == \E g \in Gens : at[g] \in {"announce", "send"} /\ TakeSeq(g)

LEMMA WordMoves ==
    ASSUME WordInv, Behaved, [Next]_vars
    PROVE  /\ undercut => undercut'
           /\ \/ Mints
              \/ /\ UNCHANGED <<gen, mint>>
                 /\ \A g \in Gens : at'[g] = "send" => at[g] = "send"
                 /\ UNCHANGED seqs \/ Numbers
<1> USE DEF WordInv, StateOK
<1> DEFINE Still == /\ UNCHANGED <<gen, mint>>
                    /\ \A g \in Gens : at'[g] = "send" => at[g] = "send"
                    /\ UNCHANGED seqs \/ Numbers
           Goal == (undercut => undercut') /\ (Mints \/ Still)
<1>1. CASE UNCHANGED <<gen, mint, at, seqs, undercut>>
  BY <1>1
<1>2. ASSUME NEW m, NEW s \in {"announce", "send"}, MintAs(m, s), UNCHANGED seqs,
             undercut => undercut', undercut' \/ \A g \in Gens : at[g] # "send"
      PROVE  Goal
  <2>1. gen' = gen + 1 /\ gen' \in Gens
    <3>1. gen \in Nat /\ MaxGen \in Nat
      BY LoadCoordinatorAssumption
    <3>2. gen < MaxGen /\ gen' = gen + 1
      BY <1>2 DEF MintAs
    <3> QED
      BY <3>1, <3>2
  <2>2. at'[gen'] = s /\ \A g \in Gens : g # gen' => at'[g] = at[g]
    BY <1>2, <2>1 DEF MintAs
  <2>3. at'[gen'] \in {"announce", "send"}
    BY <2>2
  <2>4. Mints
    BY <1>2, <2>1, <2>2, <2>3 DEF Mints
  <2> QED
    BY <1>2, <2>4
<1>3. CASE Request
  <2>1. \A g \in Gens : lock = 0 => at[g] # "send"
    BY DEF Behaved
  <2>2. ASSUME NEW t, NEW p, NEW o, BeginLoad(t, p, o) PROVE Goal
    BY <1>2, <2>1, <2>2 DEF BeginLoad
  <2>3. ASSUME NEW scope, Stop(scope) PROVE Goal
    BY <1>2, <2>1, <2>3 DEF Stop
  <2>4. CASE SendPlay \/ SendPause \/ \E want \in BOOLEAN : LoadCommitted(want)
    BY <1>1, <2>4 DEF SendPlay, SendPause, LoadCommitted
  <2> QED
    BY <1>3, <2>2, <2>3, <2>4 DEF Request
<1>4. ASSUME NEW g \in Gens, Carry(g) PROVE Goal
  <2>1. UNCHANGED <<gen, mint, undercut>>
    BY <1>4 DEF Carry, SendStop, Announce, AbortPrevious, PublishLoad, Spawn
  <2>2. \A h \in Gens : at'[h] = "send" => at[h] = "send"
    BY <1>4 DEF Carry, SendStop, Announce, AbortPrevious, PublishLoad, Spawn, Advance
  <2>3. UNCHANGED seqs \/ Numbers
    <3>1. CASE SendStop(g) \/ Announce(g)
      BY <3>1 DEF SendStop, Announce, Numbers
    <3>2. CASE AbortPrevious(g) \/ PublishLoad(g) \/ Spawn(g)
      BY <3>2 DEF AbortPrevious, PublishLoad, Spawn
    <3> QED
      BY <1>4, <3>1, <3>2 DEF Carry
  <2> QED
    BY <2>1, <2>2, <2>3
<1>5. CASE Runtime
  <2>1. ASSUME NEW t \in tails, Continue(t) PROVE Goal
    <3>1. CASE ContinueLoad(t.kind, t.over, t.track, t.play)
      <4>1. /\ MintAs([kind |-> t.kind, track |-> t.track, play |-> t.play, owner |-> Owner,
                       orphans |-> FALSE], "announce")
            /\ UNCHANGED seqs
            /\ undercut' = (undercut \/ (lock # 0 /\ at[lock] = "send"))
        BY <2>1, <3>1 DEF Continue, ContinueLoad
      <4>2. undercut => undercut'
        BY <4>1
      <4>3. ASSUME NEW g \in Gens, at[g] = "send" PROVE undercut'
        <5>1. lock = g /\ g # 0
          BY <4>3 DEF Behaved
        <5>2. lock # 0 /\ at[lock] = "send"
          BY <4>3, <5>1
        <5> QED
          BY <4>1, <5>2
      <4> QED
        BY <1>2, <4>1, <4>2, <4>3
    <3>2. CASE UNCHANGED <<gen, mint, at, asked, undercut>>
      BY <1>1, <2>1, <3>2 DEF Continue
    <3> QED
      BY <2>1, <3>1, <3>2 DEF Continue
  <2>2. CASE \/ \E g \in Gens : StartTask(g) \/ \E d \in BOOLEAN : EndTask(g, d)
             \/ TakeNext \/ DispatchCompleted
             \/ (\E t \in Tracks : Stage(t)) \/ (\E r \in replays : DispatchReplay(r))
    BY <1>1, <2>2 DEF StartTask, EndTask, TakeNext, DispatchCompleted, Stage, DispatchReplay
  <2> QED
    BY <1>5, <2>1, <2>2 DEF Runtime
<1>6. CASE Thread
  BY <1>1, <1>6 DEF Thread, HandleLoadStarted, HandleLoadSettled, HandleLoad, HandlePlay,
              HandleReassert, HandlePause, HandleStop, HandleOrphan, EndTrack, ReleaseDevice,
              RearmShared
<1>7. CASE UNCHANGED vars
  BY <1>1, <1>7 DEF vars
<1> QED
  BY <1>3, <1>4, <1>5, <1>6, <1>7 DEF Next

LEMMA ObeyedKept ==
    ASSUME WordInv, ChannelOK, Behaved, Posted, Obeyed, [Next]_vars, SendRule \/ TakeRule
    PROVE  Obeyed'
<1> SUFFICES ASSUME OverStop', at'[gen'] = "done", ~asked'
             PROVE  /\ \A i \in Spots' : cmds'[i] \in Plays =>
                         \E j \in Spots' : i < j /\ cmds'[j] = Stopped(gen')
                    /\ (\E j \in Spots' : cmds'[j] = Stopped(gen')) \/ ~playing'
  BY DEF Obeyed, InChannel, Spots
<1>0. playing \in BOOLEAN
  BY DEF WordInv, ThreadOK
<1>1. UNCHANGED <<gen, mint>> /\ OverStop /\ gen \in Gens /\ mint[gen].kind = "stop"
  <2>1. ~Mints
    BY DEF Mints
  <2>2. UNCHANGED <<gen, mint>>
    BY <2>1, WordMoves
  <2> QED
    BY <2>2 DEF OverStop, WordInv, StateOK
<1>2. PICK c : c = Stopped(gen)
  OBVIOUS
<1>3. SUFFICES /\ \A i \in Spots' : cmds'[i] \in Plays => \E j \in Spots' : i < j /\ cmds'[j] = c
               /\ (\E j \in Spots' : cmds'[j] = c) \/ ~playing'
  BY <1>1, <1>2
<1>4. at[gen] = "done" /\ ~asked =>
        /\ \A i \in Spots : cmds[i] \in Plays => \E j \in Spots : i < j /\ cmds[j] = c
        /\ (\E j \in Spots : cmds[j] = c) \/ ~playing
  BY <1>1, <1>2 DEF Obeyed, InChannel, Spots
<1>5. CASE SendRule
  <2>1. PICK e \in Seq(Commands) :
          /\ cmds' = cmds \o e
          /\ \A j \in 1 .. Len(e) : e[j] \in Plays => (OverStop => asked')
          /\ playing' \in {playing, FALSE}
          /\ asked => asked'
          /\ at[gen] # "done" /\ at'[gen] = "done" => \E j \in 1 .. Len(e) : e[j] = c
    BY <1>1, <1>2, <1>5 DEF SendRule
  <2>2. ~asked /\ \A j \in 1 .. Len(e) : e[j] \notin Plays
    BY <1>1, <2>1
  <2>3. /\ Len(cmds) \in Nat
        /\ \A i \in Spots : i \in Spots' /\ cmds'[i] = cmds[i]
        /\ \A j \in 1 .. Len(e) : Len(cmds) + j \in Spots' /\ cmds'[Len(cmds) + j] = e[j]
        /\ \A i \in Spots' : i \in Spots \/ \E j \in 1 .. Len(e) : i = Len(cmds) + j
    BY <2>1, SentSpots
  <2>4. \A i \in Spots' : cmds'[i] \in Plays => i \in Spots /\ cmds[i] \in Plays
    BY <2>2, <2>3
  <2>5. CASE at[gen] = "done"
    <3>1. ~playing => ~playing'
      <4>1. CASE playing' = playing
        BY <4>1
      <4>2. CASE playing' = FALSE
        BY <4>2
      <4> QED
        BY <2>1, <4>1, <4>2
    <3>2. (\E j \in Spots : cmds[j] = c) => \E j \in Spots' : cmds'[j] = c
      BY <2>3
    <3>3. \A i \in Spots' : cmds'[i] \in Plays => \E j \in Spots' : i < j /\ cmds'[j] = c
      BY <1>4, <2>2, <2>3, <2>4, <2>5
    <3> QED
      BY <1>4, <2>2, <2>5, <3>1, <3>2, <3>3
  <2>6. CASE at[gen] # "done"
    <3>1. PICK j \in 1 .. Len(e) : e[j] = c
      BY <1>1, <2>1, <2>6
    <3>2. Len(cmds) + j \in Spots' /\ cmds'[Len(cmds) + j] = c
      BY <2>3, <3>1
    <3>3. \A i \in Spots : i < Len(cmds) + j
      BY <2>3 DEF Spots
    <3> QED
      BY <2>4, <3>2, <3>3
  <2> QED
    BY <2>5, <2>6
<1>6. CASE TakeRule
  <2>1. PICK d \in Commands :
          /\ Take(d)
          /\ UNCHANGED <<at, asked>>
          /\ playing' => playing \/ d \in Plays \/ d = Loaded(gen)
          /\ d = c => ~playing'
    BY <1>1, <1>2, <1>6 DEF TakeRule
  <2>2. at[gen] = "done" /\ ~asked
    BY <1>1, <2>1
  <2>3. /\ 1 \in Spots /\ cmds[1] = d
        /\ \A i \in Spots' : i + 1 \in Spots /\ cmds'[i] = cmds[i + 1]
        /\ \A i \in Spots : i = 1 \/ (i - 1 \in Spots' /\ cmds'[i - 1] = cmds[i])
    BY <2>1, TakenSpots
  <2>4. ASSUME NEW i \in Spots', cmds'[i] \in Plays
        PROVE  \E j \in Spots' : i < j /\ cmds'[j] = c
    <3>1. PICK j \in Spots : i + 1 < j /\ cmds[j] = c
      BY <1>4, <2>2, <2>3, <2>4
    <3>2. i \in Nat /\ j \in Nat /\ i >= 1
      BY <2>3 DEF Spots
    <3>3. j # 1 /\ i < j - 1
      BY <3>1, <3>2
    <3> QED
      BY <2>3, <3>1, <3>3
  <2>5. (\E j \in Spots' : cmds'[j] = c) \/ ~playing'
    <3>1. CASE d = c
      BY <2>1, <3>1
    <3>2. CASE d # c /\ \E j \in Spots : cmds[j] = c
      <4>1. PICK j \in Spots : cmds[j] = c
        BY <3>2
      <4>2. j # 1
        BY <2>3, <3>2, <4>1
      <4> QED
        BY <2>3, <4>1, <4>2
    <3>3. CASE ~\E j \in Spots : cmds[j] = c
      <4>1. ~playing
        BY <1>4, <2>2, <3>3
      <4>2. d \notin Plays
        BY <1>4, <2>2, <2>3, <3>3
      <4>3. d # Loaded(gen)
        BY <1>1, <2>3 DEF Posted
      <4> QED
        BY <2>1, <4>1, <4>2, <4>3
    <3> QED
      BY <3>1, <3>2, <3>3
  <2> QED
    BY <2>4, <2>5
<1> QED
  BY <1>5, <1>6

(* A stop sent while no advance undercuts it is the newest word's, and has the newest sequence. *)
LEMMA NewestSent ==
    ASSUME WordInv, Behaved, Behaved', InOrder, ~undercut', [Next]_vars
    PROVE  /\ eventSeq \in Nat /\ eventSeq' \in Nat /\ eventSeq <= eventSeq'
           /\ \A g \in Gens : seqOf'[g] \in Nat /\ seqOf'[g] <= eventSeq'
           /\ \A g \in Gens : at'[g] = "send" => g = gen'
           /\ \A g \in Gens : at[g] = "send" /\ at'[g] = "done" => g = gen' /\ seqOf'[g] = eventSeq'
           /\ gen' # 0 /\ seqOf'[gen'] # 0 =>
                gen' = gen /\ seqOf'[gen] \in {seqOf[gen], eventSeq'}
<1>1. \A g \in Gens : seqOf[g] \in Nat /\ seqOf[g] <= eventSeq
  BY DEF WordInv, StateOK, Behaved
<1>2. eventSeq \in Nat /\ seqOf \in [Gens -> Nat] /\ gen \in GenOr0
  BY DEF WordInv, StateOK
<1>3. Mints \/ (gen' = gen /\ (\A g \in Gens : at'[g] = "send" => at[g] = "send")
                /\ (UNCHANGED seqs \/ Numbers))
  BY WordMoves
<1>4. UNCHANGED seqs \/ Numbers
  BY <1>3 DEF Mints
<1>5. \A g \in Gens : at[g] = "send" => g = gen
  BY DEF InOrder
<1>6. /\ eventSeq' \in Nat /\ eventSeq <= eventSeq'
      /\ \A g \in Gens : seqOf'[g] \in {seqOf[g], eventSeq'}
  <2>1. CASE UNCHANGED seqs
    BY <1>2, <2>1
  <2>2. CASE Numbers
    <3>1. PICK h \in Gens : TakeSeq(h)
      BY <2>2 DEF Numbers
    <3> QED
      BY <1>2, <3>1 DEF TakeSeq
  <2> QED
    BY <1>4, <2>1, <2>2
<1>7. \A g \in Gens : seqOf'[g] \in Nat /\ seqOf'[g] <= eventSeq'
  BY <1>1, <1>6, <1>2
<1>8. CASE Mints
  <2>1. gen' \in Gens /\ at'[gen'] \in {"announce", "send"} /\ \A g \in Gens : at[g] # "send"
    BY <1>8 DEF Mints
  <2>2. seqOf'[gen'] = 0
    BY <2>1 DEF Behaved
  <2>3. \A g \in Gens : at'[g] = "send" => g = gen'
    BY <1>8, <2>1 DEF Mints
  <2> QED
    BY <1>2, <1>6, <1>7, <2>1, <2>2, <2>3
<1>9. CASE gen' = gen /\ \A g \in Gens : at'[g] = "send" => at[g] = "send"
  <2>1. ASSUME NEW g \in Gens, at[g] = "send", at'[g] = "done"
        PROVE  g = gen' /\ seqOf'[g] = eventSeq'
    <3>1. seqOf[g] = 0
      BY <2>1 DEF Behaved
    <3>2. seqOf'[g] # 0
      BY <2>1 DEF Behaved
    <3> QED
      BY <1>5, <1>6, <1>9, <2>1, <3>1, <3>2
  <2>2. gen # 0 => gen \in Gens
    BY <1>2
  <2>3. \A g \in Gens : at'[g] = "send" => g = gen'
    BY <1>5, <1>9
  <2>4. gen' # 0 => seqOf'[gen] \in {seqOf[gen], eventSeq'}
    BY <1>6, <1>9, <2>2
  <2> QED
    BY <1>2, <1>6, <1>7, <1>9, <2>1, <2>3, <2>4
<1> QED
  BY <1>3, <1>8, <1>9

LEMMA InOrderKept ==
    ASSUME WordInv, ChannelOK, Behaved, Behaved', Posted, InOrder, ~undercut', [Next]_vars,
           SendRule \/ TakeRule
    PROVE  InOrder'
<1>1. /\ eventSeq \in Nat /\ eventSeq' \in Nat /\ eventSeq <= eventSeq'
      /\ \A g \in Gens : seqOf'[g] \in Nat /\ seqOf'[g] <= eventSeq'
      /\ \A g \in Gens : at'[g] = "send" => g = gen'
      /\ \A g \in Gens : at[g] = "send" /\ at'[g] = "done" => g = gen' /\ seqOf'[g] = eventSeq'
      /\ gen' # 0 /\ seqOf'[gen'] # 0 => gen' = gen /\ seqOf'[gen] \in {seqOf[gen], eventSeq'}
  BY NewestSent
<1>2. currentSeq \in Nat /\ seqOf \in [Gens -> Nat] /\ gen \in GenOr0
  BY DEF WordInv, StateOK, ThreadOK
<1>3. /\ currentSeq <= eventSeq
      /\ gen # 0 /\ seqOf[gen] # 0 =>
           /\ currentSeq <= seqOf[gen]
           /\ \A i \in Spots, g \in Gens : cmds[i] = Stopped(g) => seqOf[g] <= seqOf[gen]
      /\ \A i \in Spots, g \in Gens : cmds[i] = Stopped(g) => currentSeq <= seqOf[g]
      /\ \A i, j \in Spots, g, h \in Gens :
           i < j /\ cmds[i] \in {Loaded(g), Stopped(g)} /\ cmds[j] = Stopped(h)
               => seqOf[g] <= seqOf[h]
  BY DEF InOrder
<1> SUFFICES /\ currentSeq' <= eventSeq'
             /\ gen' # 0 /\ seqOf'[gen'] # 0 =>
                  /\ currentSeq' <= seqOf'[gen']
                  /\ \A i \in Spots', g \in Gens : cmds'[i] = Stopped(g) => seqOf'[g] <= seqOf'[gen']
             /\ \A i \in Spots', g \in Gens : cmds'[i] = Stopped(g) => currentSeq' <= seqOf'[g]
             /\ \A i, j \in Spots', g, h \in Gens :
                  i < j /\ cmds'[i] \in {Loaded(g), Stopped(g)} /\ cmds'[j] = Stopped(h)
                      => seqOf'[g] <= seqOf'[h]
  BY <1>1 DEF InOrder
<1>4. CASE SendRule
  <2>1. PICK e \in Seq(Commands) :
          /\ cmds' = cmds \o e
          /\ \A j \in 1 .. Len(e), g \in Gens :
               e[j] = Stopped(g) => j = 1 /\ at[g] = "send" /\ at'[g] = "done"
          /\ currentSeq' = currentSeq
    BY <1>4 DEF SendRule
  <2>2. /\ Len(cmds) \in Nat
        /\ \A i \in Spots : i \in Spots' /\ cmds'[i] = cmds[i]
        /\ \A j \in 1 .. Len(e) : Len(cmds) + j \in Spots' /\ cmds'[Len(cmds) + j] = e[j]
        /\ \A i \in Spots' : i \in Spots \/ \E j \in 1 .. Len(e) : i = Len(cmds) + j
    BY <2>1, SentSpots
  <2>3. ASSUME NEW i \in Spots', i \notin Spots, NEW g \in Gens, cmds'[i] = Stopped(g)
        PROVE  i = Len(cmds) + 1 /\ g = gen' /\ seqOf'[g] = eventSeq'
    <3>1. PICK j \in 1 .. Len(e) : i = Len(cmds) + j
      BY <2>2, <2>3
    <3>2. e[j] = Stopped(g)
      BY <2>2, <2>3, <3>1
    <3> QED
      BY <1>1, <2>1, <3>1, <3>2
  <2>4. \A i \in Spots, g \in Gens : cmds[i] \in {Loaded(g), Stopped(g)} => seqOf'[g] = seqOf[g]
    BY DoneStays DEF Posted
  <2>5. ASSUME NEW i \in Spots', NEW g \in Gens, cmds'[i] = Stopped(g)
        PROVE  currentSeq' <= seqOf'[g]
    <3>1. CASE i \in Spots
      <4>1. cmds[i] = Stopped(g)
        BY <2>2, <2>5, <3>1
      <4>2. currentSeq <= seqOf[g]
        BY <1>3, <3>1, <4>1
      <4>3. seqOf'[g] = seqOf[g]
        BY <2>4, <3>1, <4>1
      <4> QED
        BY <2>1, <4>2, <4>3
    <3>2. CASE i \notin Spots
      <4>1. seqOf'[g] = eventSeq'
        BY <2>3, <2>5, <3>2
      <4>2. currentSeq <= eventSeq /\ eventSeq <= eventSeq'
        BY <1>1, <1>3
      <4> QED
        BY <1>1, <1>2, <2>1, <4>1, <4>2
    <3> QED
      BY <3>1, <3>2
  <2>6. ASSUME NEW i \in Spots', NEW j \in Spots', NEW g \in Gens, NEW h \in Gens,
               i < j, cmds'[i] \in {Loaded(g), Stopped(g)}, cmds'[j] = Stopped(h)
        PROVE  seqOf'[g] <= seqOf'[h]
    <3>1. CASE j \in Spots
      <4>1. i \in Spots
        BY <2>2, <2>6, <3>1 DEF Spots
      <4> QED
        BY <1>3, <2>2, <2>4, <2>6, <3>1, <4>1
    <3>2. CASE j \notin Spots
      BY <1>1, <2>3, <2>6, <3>2
    <3> QED
      BY <3>1, <3>2
  <2>7. ASSUME gen' # 0, seqOf'[gen'] # 0
        PROVE  /\ currentSeq' <= seqOf'[gen']
               /\ \A i \in Spots', g \in Gens : cmds'[i] = Stopped(g) => seqOf'[g] <= seqOf'[gen']
    <3>1. gen' = gen /\ gen \in Gens /\ seqOf'[gen] \in {seqOf[gen], eventSeq'}
      BY <1>1, <1>2, <2>7
    <3>2. CASE seqOf'[gen] = eventSeq'
      BY <1>1, <1>2, <1>3, <2>1, <3>1, <3>2
    <3>3. CASE seqOf'[gen] = seqOf[gen]
      <4>1. currentSeq <= seqOf[gen]
        BY <1>3, <2>7, <3>1, <3>3
      <4>2. ASSUME NEW i \in Spots', NEW g \in Gens, cmds'[i] = Stopped(g)
            PROVE  seqOf'[g] <= seqOf'[gen]
        <5>1. CASE i \in Spots
          BY <1>3, <2>2, <2>4, <2>7, <3>1, <3>3, <4>2, <5>1
        <5>2. CASE i \notin Spots
          BY <1>1, <2>3, <3>1, <4>2, <5>2
        <5> QED
          BY <5>1, <5>2
      <4> QED
        BY <2>1, <3>1, <3>3, <4>1, <4>2
    <3> QED
      BY <3>1, <3>2, <3>3
  <2>8. currentSeq' <= eventSeq'
    BY <1>1, <1>2, <1>3, <2>1
  <2> QED
    BY <2>5, <2>6, <2>7, <2>8
<1>5. CASE TakeRule
  <2>1. PICK c \in Commands :
          /\ Take(c)
          /\ UNCHANGED <<gen, eventSeq, seqOf>>
          /\ \/ currentSeq' = currentSeq
             \/ \E g \in Gens : currentSeq' = seqOf[g] /\ (c = Stopped(g) \/ (g = gen /\ c = Loaded(g)))
    BY <1>5 DEF TakeRule
  <2>2. /\ 1 \in Spots /\ cmds[1] = c
        /\ \A i \in Spots' : i + 1 \in Spots /\ cmds'[i] = cmds[i + 1]
    BY <2>1, TakenSpots
  <2>3. \A i \in Spots' : i \in Nat /\ 1 < i + 1
    BY DEF Spots
  <2>4. CASE currentSeq' = currentSeq
    <3>1. \A i, j \in Spots' : i < j => i + 1 < j + 1
      BY <2>3
    <3> QED
      BY <1>3, <2>1, <2>2, <2>4, <3>1
  <2>5. ASSUME NEW g \in Gens, currentSeq' = seqOf[g],
               c = Stopped(g) \/ (g = gen /\ c = Loaded(g))
        PROVE  /\ currentSeq' <= eventSeq
               /\ gen # 0 /\ seqOf[gen] # 0 => currentSeq' <= seqOf[gen]
               /\ \A i \in Spots', h \in Gens : cmds'[i] = Stopped(h) => currentSeq' <= seqOf[h]
    <3>1. gen # 0 /\ seqOf[gen] # 0 => currentSeq' <= seqOf[gen]
      <4>1. CASE c = Stopped(g)
        BY <1>3, <2>2, <2>5, <4>1
      <4>2. CASE g = gen
        BY <1>2, <2>5, <4>2
      <4> QED
        BY <2>5, <4>1, <4>2
    <3>2. cmds[1] \in {Loaded(g), Stopped(g)}
      BY <2>2, <2>5
    <3> QED
      BY <1>3, <2>2, <2>3, <2>5, <3>1, <3>2 DEF Behaved
  <2>6. CASE currentSeq' # currentSeq
    <3>1. /\ currentSeq' <= eventSeq
          /\ gen # 0 /\ seqOf[gen] # 0 => currentSeq' <= seqOf[gen]
          /\ \A i \in Spots', h \in Gens : cmds'[i] = Stopped(h) => currentSeq' <= seqOf[h]
      BY <2>1, <2>5, <2>6
    <3>2. \A i, j \in Spots' : i < j => i + 1 < j + 1
      BY <2>3
    <3> QED
      BY <1>3, <2>1, <2>2, <3>1, <3>2
  <2> QED
    BY <2>4, <2>6
<1> QED
  BY <1>4, <1>5

(* The thread installs no older sequence than it has. *)
LEMMA SeqRises ==
    ASSUME WordInv, ChannelOK, Behaved, Posted, ~undercut => InOrder, [Next]_vars
    PROVE  undercut' \/ currentSeq' >= currentSeq
<1> SUFFICES ASSUME ~undercut' PROVE currentSeq' >= currentSeq
  OBVIOUS
<1>1. InOrder
  <2>1. undercut => undercut'
    BY WordMoves
  <2> QED
    BY <2>1
<1>2. currentSeq \in Nat /\ seqOf \in [Gens -> Nat]
  BY DEF WordInv, StateOK, ThreadOK
<1>3. CASE SendRule
  BY <1>2, <1>3 DEF SendRule
<1>4. CASE TakeRule
  <2>1. PICK c \in Commands :
          /\ Take(c)
          /\ \/ currentSeq' = currentSeq
             \/ \E g \in Gens : currentSeq' = seqOf[g] /\ (c = Stopped(g) \/ (g = gen /\ c = Loaded(g)))
    BY <1>4 DEF TakeRule
  <2>2. 1 \in Spots /\ cmds[1] = c
    BY <2>1, TakenSpots
  <2>3. ASSUME NEW g \in Gens, currentSeq' = seqOf[g], c = Stopped(g) PROVE currentSeq' >= currentSeq
    <3>1. currentSeq <= seqOf[g]
      BY <1>1, <2>2, <2>3 DEF InOrder
    <3> QED
      BY <1>2, <2>3, <3>1
  <2>4. ASSUME NEW g \in Gens, currentSeq' = seqOf[g], g = gen, c = Loaded(g)
        PROVE  currentSeq' >= currentSeq
    <3>1. at[g] = "done"
      BY <2>2, <2>4 DEF Posted
    <3>2. seqOf[gen] # 0 /\ gen # 0
      BY <2>4, <3>1 DEF Behaved
    <3>3. currentSeq <= seqOf[gen]
      BY <1>1, <3>2 DEF InOrder
    <3> QED
      BY <1>2, <2>4, <3>3
  <2> QED
    BY <1>2, <2>1, <2>3, <2>4
<1> QED
  BY <1>3, <1>4, NextRule

LEMMA PastInit == Init => PastInv
<1> SUFFICES ASSUME Init PROVE PastInv
  OBVIOUS
<1>1. Spots = {}
  BY DEF Init, Spots
<1>2. Behaved
  BY DEF Init, Behaved
<1>3. Posted /\ Silenced
  BY <1>1 DEF Init, Posted, Silenced, OrphanedIsSilent
<1>4. InOrder
  BY <1>1 DEF Init, InOrder
<1>5. Obeyed
  BY DEF Init, Obeyed, OverStop
<1> QED
  BY <1>2, <1>3, <1>4, <1>5 DEF PastInv

LEMMA PastKept ==
    ASSUME WordInv, ChannelOK, PastInv, [Next]_vars
    PROVE  PastInv' /\ (undercut' \/ currentSeq' >= currentSeq)
<1>1. Behaved /\ Posted /\ Silenced /\ (~undercut => InOrder) /\ Obeyed
  BY DEF PastInv
<1>2. SendRule \/ TakeRule
  BY NextRule
<1>3. Behaved'
  BY <1>1, BehavedKept
<1>4. Posted' /\ Silenced' /\ Obeyed'
  BY <1>1, <1>2, PostedKept, SilencedKept, ObeyedKept
<1>5. ASSUME ~undercut' PROVE InOrder'
  <2>1. undercut => undercut'
    BY <1>1, WordMoves
  <2>2. InOrder
    BY <1>1, <1>5, <2>1
  <2> QED
    BY <1>1, <1>2, <1>3, <1>5, <2>2, InOrderKept
<1>6. undercut' \/ currentSeq' >= currentSeq
  BY <1>1, SeqRises
<1> QED
  BY <1>3, <1>4, <1>5, <1>6 DEF PastInv

(* What was queued before a silence is read before it, and a stop's sequence outranks what it *)
(* stopped, unless an advance undercuts it.                                                    *)
THEOREM PastInvariant == Spec => []PastInv
<1>1. WordInv /\ ChannelInv /\ PastInv /\ [Next]_vars => PastInv'
  BY PastKept DEF ChannelInv
<1> QED
  BY <1>1, PastInit, WordInvariant, ChannelInvariant, PTL DEF Spec

(* Whatever runs when a stop is handled, no load, play or re-arm of before it starts the       *)
(* music again (Player::stop), and a page that is gone is not heard (StopScope::orphans).       *)
THEOREM SilenceCorrect == Spec => []SilenceHolds
<1>1. PastInv => SilenceHolds
  BY DEF PastInv, Silenced, Obeyed, SilenceHolds, StopIsKept
<1> QED
  BY <1>1, PastInvariant, PTL

(* The thread never goes back to an older load's events (next_event_seq), unless an advance    *)
(* mints between the mint of a stop and its send.                                              *)
THEOREM SeqCorrect == Spec => SeqNeverFalls
<1>1. WordInv /\ ChannelInv /\ PastInv /\ [Next]_vars => [undercut' \/ currentSeq' >= currentSeq]_vars
  BY PastKept DEF ChannelInv
<1> QED
  BY <1>1, PastInvariant, WordInvariant, ChannelInvariant, PTL DEF Spec, SeqNeverFalls

(* Nothing that was under way breaks a silence, and the events of what was replaced stay in    *)
(* the past: the whole of what a replacement promises.                                         *)
THEOREM ReplacedCorrect == Spec => ReplacedStaysSo
  BY SilenceCorrect, SeqCorrect DEF ReplacedStaysSo
=============================================================================
