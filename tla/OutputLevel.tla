---------------------------- MODULE OutputLevel ----------------------------
(***************************************************************************)
(* The one output level of an install, as Rust and the page keep it:       *)
(* `Player`'s level and its LevelStore (src/src/player/mod.rs), the        *)
(* database actor that runs the queued save (src/src/db.rs), and the       *)
(* page's VolumeForwarder, mirror and catch-up                             *)
(* (src/frontend/src/volume.ts) with TIDAL's page-load restore             *)
(* (src/frontend/early-runtime/volume_restore.js).                         *)
(*                                                                         *)
(* The writers race: the page's slider, a Connect controller, the OS       *)
(* mixer, a plugin that states no report, TIDAL's restore of the account's *)
(* saved level, a page that was replaced and whose messages still arrive,  *)
(* and a launch killed with the save still queued.                         *)
(***************************************************************************)
EXTENDS Level, Sequences, FiniteSets

CONSTANTS MaxPages,     \* bound: pages loaded over all launches
          MaxMoves,     \* bound: levels set by the user, controllers, the mixer, plugins
          NoPair,       \* no saved level, or no level to write
          NotHeld       \* the forwarder has sent and adopted nothing

ASSUME OutputLevelAssumption == /\ MaxPages \in Nat \ {0}
                                /\ MaxMoves \in Nat
                                /\ NoPair \notin Pair
                                /\ NotHeld \notin Levels

VARIABLES
    level,      \* Player.output_level
    unsaved,    \* LevelStore.unsaved: the newest level no queued write has taken
    queued,     \* save closures waiting in the database actor's channel
    writing,    \* the level the running closure took and has not committed
    saved,      \* settings.db: the two rows, or NoPair
    page,       \* the page loaded last
    phase,      \* "loading" until initCore found TIDAL's store, then "up"
    store,      \* TIDAL's playbackControls.volume in that page
    held,       \* VolumeForwarder.#held
    seen,       \* VolumeForwarder.#seen
    toRust,     \* the pages' player.volume and connect.catch_up_level, in order
    reports,    \* reports on their way to the page
    restore,    \* TIDAL's restore: "idle", "read" (to apply) or "done"
    moves,      \* levels set so far (bound)
    lastBy      \* history: who changed the level last

rust      == <<level, unsaved, queued, writing, saved, lastBy>>
webpage   == <<page, phase, store, held, seen, restore>>
wires     == <<toRust, reports>>
levelVars == <<rust, webpage, wires, moves>>

PageIds == 1 .. MaxPages

Send == [kind : {"volume"}, volume : Levels, seen : Nat, restored : BOOLEAN]
Ask  == [kind : {"catchUp"}, page : PageIds]
Report == [kind : {"event", "reply"}, volume : Levels, chosen : BOOLEAN, seq : Nat]

ReportOf(l, kind) == [kind |-> kind, volume |-> l.volume, chosen |-> l.chosen, seq |-> l.seq]

-----------------------------------------------------------------------------
(* Rust *)

(* Faulty: a level already waiting is not replaced. *)
KeepFirst(l) == /\ unsaved' = IF unsaved = NoPair THEN PairOf(l) ELSE unsaved
                /\ queued' = IF unsaved = NoPair THEN queued + 1 ELSE queued
                /\ UNCHANGED <<writing, saved>>

(* LevelStore::save, under the level's lock: one write is queued at a time. *)
Keep(l) == /\ unsaved' = PairOf(l)
           /\ queued' = IF unsaved = NoPair THEN queued + 1 ELSE queued
           /\ UNCHANGED <<writing, saved>>

Move == /\ moves < MaxMoves
        /\ moves' = moves + 1

(* A change no page makes: applied, kept, and reported to the page. *)
Remote(l) == /\ Move
             /\ level' = l
             /\ lastBy' = "remote"
             /\ Keep(l)
             /\ reports' = reports \cup {ReportOf(l, "event")}
             /\ UNCHANGED <<webpage, toRust>>

SetRemoteVolume(v) == Remote(SetLevel(level, v, "Remote"))
SetMute(mute)      == Remote(IF mute THEN Mute(level) ELSE Unmute(level))
NoteVolume(v)      == Remote(SetLevel(level, v, "Remote"))

(* A page's level, once admitted: one the output already plays changes nothing. *)
Apply(v, by) ==
    LET l == SetFromPage(level, v) IN
    IF l = level
    THEN UNCHANGED rust
    ELSE /\ level' = l
         /\ lastBy' = by
         /\ Keep(l)

(* A plugin states no report and is taken at its word. *)
PluginVolume(v) == /\ Move
                   /\ Apply(v, "plugin")
                   /\ UNCHANGED <<webpage, wires>>

FromPage(kind) == /\ toRust # <<>>
                  /\ Head(toRust).kind = kind
                  /\ toRust' = Tail(toRust)

SetVolume == LET m == Head(toRust) IN
             /\ FromPage("volume")
             /\ IF Admits(level, m.seen) THEN Apply(m.volume, "page") ELSE UNCHANGED rust
             /\ UNCHANGED <<webpage, reports, moves>>

(* connect.catch_up_level: a page already replaced gets no answer. *)
CatchUpPage ==
    /\ FromPage("catchUp")
    /\ level' = CatchUp(level)
    /\ reports' = IF Head(toRust).page = page
                  THEN reports \cup {ReportOf(CatchUp(level), "reply")}
                  ELSE reports
    /\ UNCHANGED <<unsaved, queued, writing, saved, lastBy, webpage, moves>>

(* Faulty: the closure copies the level and leaves it waiting. *)
SaveCopies == /\ queued > 0
              /\ writing = NoPair
              /\ queued' = queued - 1
              /\ writing' = unsaved
              /\ UNCHANGED <<level, unsaved, saved, lastBy, webpage, wires, moves>>

(* The closure `save` posted: it takes the newest level, then commits it. *)
SaveTakes == /\ queued > 0
             /\ writing = NoPair
             /\ queued' = queued - 1
             /\ writing' = unsaved
             /\ unsaved' = NoPair
             /\ UNCHANGED <<level, saved, lastBy, webpage, wires, moves>>

SaveCommits == /\ writing # NoPair
               /\ saved' = writing
               /\ writing' = NoPair
               /\ UNCHANGED <<level, unsaved, queued, lastBy, webpage, wires, moves>>

-----------------------------------------------------------------------------
(* The page *)

Resend(v, restored) ==
    /\ held' = v
    /\ toRust' = Append(toRust, [kind |-> "volume", volume |-> v,
                                 seen |-> seen, restored |-> restored])

(* VolumeForwarder.forward: nothing is sent twice. *)
Forward(v, restored) == IF v = held THEN UNCHANGED <<held, toRust>> ELSE Resend(v, restored)

(* TIDAL settles a level in its store; followCommittedVolume sends it. *)
UserVolume(v) == /\ Move
                 /\ v # store
                 /\ store' = v
                 /\ IF phase = "up" THEN Forward(v, FALSE) ELSE UNCHANGED <<held, toRust>>
                 /\ UNCHANGED <<rust, page, phase, seen, restore, reports>>

(* TIDAL's SDK applies the level it holds to its player: applyVolume. *)
ApplyVolume == /\ Forward(store, FALSE)
               /\ UNCHANGED <<rust, page, phase, store, seen, restore, reports, moves>>

(* initCore found TIDAL's store: the page asks to catch up and follows it. *)
StoreUp == /\ phase = "loading"
           /\ phase' = "up"
           /\ toRust' = Append(toRust, [kind |-> "catchUp", page |-> page])
           /\ UNCHANGED <<rust, page, store, held, seen, restore, reports, moves>>

(* mirrorRustLevel.  Before the store is published the first dispatch      *)
(* throws: the level was adopted, and the report is not taken in.          *)
Mirror(r) ==
    IF r.seq <= seen
    THEN UNCHANGED <<store, held, seen>>
    ELSE /\ held' = r.volume
         /\ IF phase = "up"
            THEN /\ store' = r.volume
                 /\ seen' = r.seq
            ELSE UNCHANGED <<store, seen>>

ReceiveEvent(r) == /\ r \in reports
                   /\ r.kind = "event"
                   /\ Mirror(r)
                   /\ reports' = reports \ {r}
                   /\ UNCHANGED <<rust, page, phase, restore, toRust, moves>>

(* Faulty: the level last forwarded is sent, not the store's. *)
SeedHeld(r) ==
    /\ seen' = r.seq
    /\ toRust' = Append(toRust, [kind |-> "volume", volume |-> held,
                                 seen |-> r.seq, restored |-> FALSE])
    /\ UNCHANGED <<store, held>>

(* catchUpWithRust: a level someone chose is mirrored; otherwise the       *)
(* store's own seeds Rust's.                                               *)
SeedRust(r) ==
    LET known == IF r.seq > seen THEN r.seq ELSE seen IN
    /\ seen' = known
    /\ held' = store
    /\ toRust' = Append(toRust, [kind |-> "volume", volume |-> store,
                                 seen |-> known, restored |-> FALSE])
    /\ UNCHANGED store

ReceiveReply(r) == /\ r \in reports
                   /\ r.kind = "reply"
                   /\ IF r.chosen THEN Mirror(r) /\ UNCHANGED toRust ELSE SeedRust(r)
                   /\ reports' = reports \ {r}
                   /\ UNCHANGED <<rust, page, phase, restore, moves>>

(* __lunaRestoreVolume: the slot asks Rust whether anyone chose a level,   *)
(* and TIDAL's saga puts back the account's level once both reads resolve. *)
RestoreAsks == /\ restore = "idle"
               /\ restore' = IF level.chosen THEN "done" ELSE "read"
               /\ UNCHANGED <<rust, page, phase, store, held, seen, wires, moves>>

RestoreApplies(v) ==
    /\ restore = "read"
    /\ restore' = "done"
    /\ store' = v
    /\ IF phase = "up" /\ v # store THEN Forward(v, TRUE) ELSE UNCHANGED <<held, toRust>>
    /\ UNCHANGED <<rust, page, phase, seen, reports, moves>>

-----------------------------------------------------------------------------
(* Loads, kills and quits *)

FreshPage == /\ page < MaxPages
             /\ page' = page + 1
             /\ phase' = "loading"
             /\ store' = Full
             /\ held' = NotHeld
             /\ seen' = 0
             /\ restore' = "idle"

(* A page replaces the one loaded: its messages still reach Rust, an event *)
(* posted for it may reach the new one, and its answers reach nobody.      *)
PageLoad == /\ FreshPage
            /\ \E kept \in SUBSET {r \in reports : r.kind = "event"} : reports' = kept
            /\ UNCHANGED <<rust, toRust, moves>>

Relaunch == /\ FreshPage
            /\ level' = IF saved = NoPair THEN Start ELSE Restored(saved)
            /\ lastBy' = IF saved = NoPair THEN "none" ELSE "remote"
            /\ unsaved' = NoPair
            /\ queued' = 0
            /\ writing' = NoPair
            /\ toRust' = <<>>
            /\ reports' = {}
            /\ UNCHANGED <<saved, moves>>

(* A killed launch drops what the actor had not committed. *)
Kill == Relaunch

(* The quit path waits for the actor to drain (DbActor::flush). *)
Quit == queued = 0 /\ writing = NoPair /\ Relaunch

-----------------------------------------------------------------------------
LevelInit ==
    /\ level = Start
    /\ unsaved = NoPair
    /\ queued = 0
    /\ writing = NoPair
    /\ saved = NoPair
    /\ page = 1
    /\ phase = "loading"
    /\ store = Full
    /\ held = NotHeld
    /\ seen = 0
    /\ toRust = <<>>
    /\ reports = {}
    /\ restore = "idle"
    /\ moves = 0
    /\ lastBy = "none"

Rust == \/ \E v \in Levels : SetRemoteVolume(v) \/ NoteVolume(v) \/ PluginVolume(v)
        \/ \E mute \in BOOLEAN : SetMute(mute)
        \/ SetVolume
        \/ CatchUpPage

Database == SaveTakes \/ SaveCommits

Page == \/ \E v \in Levels : UserVolume(v) \/ RestoreApplies(v)
        \/ ApplyVolume
        \/ StoreUp
        \/ \E r \in reports : ReceiveEvent(r) \/ ReceiveReply(r)
        \/ RestoreAsks

LevelNext == Rust \/ Database \/ Page \/ PageLoad \/ Kill \/ Quit

(* The actor thread and the message loops run as long as they have work. *)
Fairness == /\ WF_levelVars(SaveTakes)
            /\ WF_levelVars(SaveCommits)
            /\ WF_levelVars(StoreUp)
            /\ WF_levelVars(SetVolume)
            /\ WF_levelVars(CatchUpPage)
            /\ WF_levelVars(\E r \in reports : ReceiveEvent(r) \/ ReceiveReply(r))

LevelSpec == LevelInit /\ [][LevelNext]_levelVars
FairSpec == LevelSpec /\ Fairness
-----------------------------------------------------------------------------
(* Properties *)

LevelTypeOK ==
    /\ level \in Level
    /\ unsaved \in Pair \cup {NoPair}
    /\ queued \in Nat
    /\ writing \in Pair \cup {NoPair}
    /\ saved \in Pair \cup {NoPair}
    /\ page \in PageIds
    /\ phase \in {"loading", "up"}
    /\ store \in Levels
    /\ held \in Levels \cup {NotHeld}
    /\ seen \in Nat
    /\ toRust \in Seq(Send \cup Ask)
    /\ reports \subseteq Report
    /\ restore \in {"idle", "read", "done"}
    /\ moves \in Nat
    /\ lastBy \in {"none", "page", "remote", "plugin"}

(* An unmute always gives back a level someone hears, the last one that    *)
(* was audible, whoever set it and however many mutes and zeros follow     *)
(* one another (OutputLevel::unmute, restored).                            *)
UnmuteIsHeard == Heard(level)

(* LevelStore: `unsaved` is Some exactly while one write is queued, so no  *)
(* level waits with nothing to write it and no two writes queue up.        *)
OneWriteQueued == queued = IF unsaved = NoPair THEN 0 ELSE 1

(* The newest of what waits, what is being written and what is on disk is  *)
(* the level the output plays: no interleaving of the writers with the     *)
(* actor saves an older level last, or loses one (LevelStore::save).       *)
Newest == IF unsaved # NoPair THEN unsaved ELSE IF writing # NoPair THEN writing ELSE saved
SavedIsNewest == IF level.chosen THEN Newest = PairOf(level) ELSE Newest = NoPair

(* No level is lost, to a mute or to the disk: what comes back on an       *)
(* unmute can be heard, and what a kill leaves behind is the newest of the *)
(* levels saved, whoever sets one while another is on its way.             *)
LevelNotLost == UnmuteIsHeard /\ OneWriteQueued /\ SavedIsNewest

(* No page holds a report of the level Rust has not made, and the floor    *)
(* never passes the count: a page that took in the newest report is always *)
(* admitted (OutputLevel::admits).                                         *)
NewestReportAdmitted ==
    /\ level.floor <= level.seq
    /\ seen <= level.seq
    /\ \A r \in reports : r.seq <= level.seq

(* With nothing in flight, the page shows the level Rust plays, whichever  *)
(* of the page, an older page, a controller, the mixer and the restore     *)
(* raced; only a plugin's own level is not reported to the page.           *)
Quiescent == /\ toRust = <<>>
             /\ reports = {}
             /\ phase = "up"
             /\ restore # "read"
Agree == Quiescent /\ lastBy # "plugin" => store = level.volume

(* The page follows Rust: its newest report is always admitted, and once   *)
(* quiet both have the same level.                                         *)
PageFollows == NewestReportAdmitted /\ Agree

(* A clean quit loses no level: the next launch plays the one this one     *)
(* played, and gives the same one back on an unmute (Player::keep).        *)
QuitKeepsLevel ==
    [][Quit /\ level.chosen => PairOf(level') = PairOf(level)]_levelVars

(* The last level set reaches the disk once the writers are still.         *)
EventuallySaved == <>[](level.chosen => saved = PairOf(level))
=============================================================================
