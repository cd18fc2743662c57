-------------------------- MODULE LoadCoordinator --------------------------
(***************************************************************************)
(* How a load, a stop, a re-arm and a completion-time advance share one    *)
(* player (src/src/player/mod.rs, state.rs, ui/flush.rs and the player     *)
(* thread's commands).                                                     *)
(*                                                                         *)
(* Every request mints a generation with its owner in one exchange, then   *)
(* carries out the steps of load_with_policy: announce, abort the task     *)
(* before it, cancel its download, publish the source, spawn the task and  *)
(* keep its handle.  Each step takes its own lock.  Pages, controllers and *)
(* the OS request under the AppState lock, one at a time; a re-arm and an  *)
(* advance run in a spawned task that holds no lock.                       *)
(*                                                                         *)
(* A generation stands for the request that minted it: mint[g] is what     *)
(* that request carries (LoadContext, StopScope) and at[g] its next step.  *)
(* The command channel is FIFO; a Stop and its Orphan are sent as one.     *)
(* Pages' load protocol, the download's bytes, the staged copy and the     *)
(* crossfade are left out.                                                 *)
(***************************************************************************)
EXTENDS Naturals, Sequences

CONSTANTS Tracks,   \* canonical track ids
          Dash,     \* the track of a DASH load, which no replay can rebuild
          None,
          MaxGen,   \* bound: generations minted
          MaxAsks,  \* bound: plays, pauses and re-asserts sent, tracks staged
          MaxCmds,  \* bound: commands waiting when another is sent
          Sessions  \* what a session may meet, each a set of Uses

(* Stops; plays, pauses, re-asserts and loads that do not play; a          *)
(* controller's loads; DASH loads; a next track staged and promoted; loads *)
(* and decodes that fail; a bypass device released or replaced by a shared *)
(* stream.                                                                 *)
Uses == {"stop", "play", "connect", "dash", "next", "failure", "bypass"}

ASSUME LoadCoordinatorAssumption ==
    /\ Dash \notin Tracks
    /\ None \notin Tracks \cup {Dash}
    /\ MaxGen \in Nat
    /\ MaxAsks \in Nat
    /\ MaxCmds \in Nat
    /\ Sessions \subseteq SUBSET Uses

Gens    == 1 .. MaxGen
GenOr0  == 0 .. MaxGen
Owners  == {"Local", "Connect"}
Scopes  == {"AsLocal", "AsConnect", "Playing", "OwnMusic", "Cast"}
Kinds   == {"load", "advance", "rearm", "stop"}

VARIABLES
    uses,        \* rigid: what this session meets
    gen, mint,   \* LOAD_STATE: the newest generation; what each one carries
    at,          \* the next step of the request that minted it, or "done"
    lock,        \* the generation whose request holds the AppState lock, or 0
    eventSeq,    \* EVENT_SEQ
    seqOf,       \* the event sequence each generation took, 0 before it did
    handle,      \* Player.load_handle, as the generation of its task, or 0
    token,       \* Player.download_cancel, as the load that installed it, or 0
    cancelled,   \* the loads whose download token was cancelled
    retained, published,  \* CurrentSource
    task,        \* the load task of each generation
    aborted,     \* the tasks aborted while they ran
    staged,      \* PreloadState.next: a track and the generation it was staged under
    cmds,        \* PlayerCommands on their way to the thread
    ended,       \* Completed events the UI thread has not handled
    takers,      \* spawned tasks about to take the staged track
    replays,     \* ReplayRequest events the UI thread has not handled
    tails,       \* spawned re-arms and advances about to mint
    committed, currentTrack, hasTrack, playing, orphaned, resume, \* PlayerThread
    loadingGen, pendingPlay, currentSeq,            \* PlayerThread
    asks,        \* plays, pauses, re-asserts and stagings (bound)
    asked,       \* history: one was sent, or a track staged, since the newest stop
    undercut     \* history: an advance minted while a stop was being sent

word    == <<gen, mint, at, lock>>
seqs    == <<eventSeq, seqOf>>
slots   == <<handle, token, cancelled, task, aborted>>
source  == <<retained, published>>
futures == <<ended, takers, replays, tails>>
thread  == <<committed, currentTrack, hasTrack, playing, orphaned, resume, loadingGen,
             pendingPlay, currentSeq>>
history == <<uses, asks, asked, undercut>>
vars    == <<word, seqs, slots, source, staged, cmds, futures, thread, history>>

NoMint == [kind |-> "none", track |-> None, play |-> FALSE, owner |-> "Local", orphans |-> FALSE]
Mint   == [kind : Kinds \cup {"none"}, track : Tracks \cup {Dash, None},
           play : BOOLEAN, owner : Owners, orphans : BOOLEAN]
Started(g)  == [type |-> "LoadStarted", arg |-> g]
Loaded(g)   == [type |-> "Load", arg |-> g]
Settled(g)  == [type |-> "LoadSettled", arg |-> g]
Stopped(g)  == [type |-> "Stop", arg |-> g]
Play        == [type |-> "Play", arg |-> None]
Pause       == [type |-> "Pause", arg |-> None]
Orphan      == [type |-> "Orphan", arg |-> None]
Reassert(t, want) == [type |-> "ReassertResume", arg |-> <<t, want>>]
Steps == {"none", "announce", "abort", "publish", "spawn", "send", "done"}

(* current_load: the owner of the newest generation. *)
Owner == IF gen = 0 THEN "Local" ELSE mint[gen].owner

OverStop == gen # 0 /\ mint[gen].kind = "stop"

(* StopScope::claim: the origin a stop mints in, or None to leave the player alone. *)
Claim(scope) == CASE scope = "AsLocal"   -> "Local"
                  [] scope = "AsConnect" -> "Connect"
                  [] scope = "Playing"   -> Owner
                  [] scope = "OwnMusic"  -> IF Owner = "Local" THEN "Local" ELSE None
                  [] scope = "Cast"      -> IF Owner = "Connect" THEN "Local" ELSE None

-----------------------------------------------------------------------------
(* Minting *)

(* The channel is unbounded; the model's is not. *)
HasRoom == Len(cmds) < MaxCmds

(* mint_if, where the claim accepts. *)
MintAs(m, step) ==
    /\ gen < MaxGen
    /\ gen' = gen + 1
    /\ mint' = [mint EXCEPT ![gen + 1] = m]
    /\ at' = [at EXCEPT ![gen + 1] = step]

(* load, load_and_play, load_dash and recover: a load over whatever plays. *)
BeginLoad(track, play, owner) ==
    /\ owner = "Connect" => "connect" \in uses
    /\ track = Dash => "dash" \in uses
    /\ lock = 0
    /\ owner = "Connect" \/ track = Dash \/ "play" \notin uses => play
    /\ MintAs([kind |-> "load", track |-> track, play |-> play, owner |-> owner,
               orphans |-> FALSE], "announce")
    /\ lock' = gen + 1
    /\ asked' = FALSE
    /\ UNCHANGED <<uses, seqs, slots, source, staged, cmds, futures, thread, asks, undercut>>

(* load's idempotent branch: the committed track again, the play instance kept. *)
LoadCommitted(want) ==
    /\ "play" \in uses
    /\ lock = 0
    /\ committed \in Tracks
    /\ asks < MaxAsks
    /\ HasRoom
    /\ cmds' = Append(cmds, Reassert(committed, want))
    /\ asks' = asks + 1
    /\ asked' = OverStop
    /\ UNCHANGED <<word, seqs, slots, source, staged, futures, thread, uses, undercut>>

SendPlay ==
    /\ "play" \in uses
    /\ lock = 0
    /\ asks < MaxAsks
    /\ HasRoom
    /\ cmds' = Append(cmds, Play)
    /\ asks' = asks + 1
    /\ asked' = OverStop
    /\ UNCHANGED <<word, seqs, slots, source, staged, futures, thread, uses, undercut>>

SendPause ==
    /\ "play" \in uses
    /\ lock = 0
    /\ asks < MaxAsks
    /\ HasRoom
    /\ cmds' = Append(cmds, Pause)
    /\ asks' = asks + 1
    /\ UNCHANGED <<word, seqs, slots, source, staged, futures, thread, uses, asked, undercut>>

(* A stop whose scope does not cover the music playing changes nothing. *)
Stop(scope) ==
    /\ "stop" \in uses
    /\ lock = 0
    /\ Claim(scope) # None
    /\ MintAs([kind |-> "stop", track |-> None, play |-> FALSE, owner |-> Claim(scope),
               orphans |-> scope = "OwnMusic"], "send")
    /\ lock' = gen + 1
    /\ asked' = FALSE
    /\ UNCHANGED <<uses, seqs, slots, source, staged, cmds, futures, thread, asks, undercut>>

(* continue_load: the load of an earlier one's owner, only while it is current. *)
ContinueLoad(kind, over, track, play) ==
    /\ gen = over
    /\ MintAs([kind |-> kind, track |-> track, play |-> play, owner |-> Owner,
               orphans |-> FALSE], "announce")
    /\ asked' = FALSE
    /\ undercut' = (undercut \/ (lock # 0 /\ at[lock] = "send"))

(* advance and rearm, in their spawned task. *)
Continue(tail) ==
    /\ tails' = tails \ {tail}
    /\ \/ ContinueLoad(tail.kind, tail.over, tail.track, tail.play)
       \/ /\ gen # tail.over
          /\ UNCHANGED <<gen, mint, at, asked, undercut>>
    /\ UNCHANGED <<lock, seqs, slots, source, staged, cmds, ended, takers, replays, thread, uses,
                   asks>>

-----------------------------------------------------------------------------
(* The steps of a request after its mint *)

Advance(g, step) == at' = [at EXCEPT ![g] = step]

TakeSeq(g) == /\ eventSeq' = eventSeq + 1
              /\ seqOf' = [seqOf EXCEPT ![g] = eventSeq + 1]

SendStop(g) ==
    /\ at[g] = "send"
    /\ TakeSeq(g)
    /\ HasRoom
    /\ cmds' = cmds \o <<Stopped(g)>> \o (IF mint[g].orphans THEN <<Orphan>> ELSE <<>>)
    /\ Advance(g, "done")
    /\ lock' = 0
    /\ UNCHANGED <<gen, mint, slots, source, staged, futures, thread, history>>

Announce(g) ==
    /\ at[g] = "announce"
    /\ HasRoom
    /\ cmds' = Append(cmds, Started(g))
    /\ TakeSeq(g)
    /\ Advance(g, "abort")
    /\ UNCHANGED <<gen, mint, lock, slots, source, staged, futures, thread, history>>

Alive(h) == task[h] \in {"spawned", "running"}

(* A task aborted before its first poll never made its settle guard.  A DASH load leaves the *)
(* download before it to handle_load.                                                        *)
AbortPrevious(g) ==
    /\ at[g] = "abort"
    /\ handle' = 0
    /\ IF handle # 0 /\ Alive(handle)
       THEN /\ aborted' = aborted \cup {handle}
            /\ task' = [task EXCEPT ![handle] = IF @ = "spawned" THEN "dropped" ELSE @]
       ELSE UNCHANGED <<aborted, task>>
    /\ \/ /\ mint[g].track # Dash
          /\ cancelled' = cancelled \cup ({token} \ {0})
          /\ token' = g
       \/ /\ mint[g].track = Dash
          /\ UNCHANGED <<cancelled, token>>
    /\ Advance(g, "publish")
    /\ UNCHANGED <<gen, mint, lock, seqs, source, staged, cmds, futures, thread, history>>

(* Faulty: a DASH load is retained as a source a replay could rebuild. *)
PublishLoadDash(g) ==
    /\ at[g] = "publish"
    /\ retained' = [track |-> mint[g].track, gen |-> g]
    /\ published' = g
    /\ Advance(g, "spawn")
    /\ UNCHANGED <<gen, mint, lock, seqs, slots, staged, cmds, futures, thread, history>>

PublishLoad(g) ==
    /\ at[g] = "publish"
    /\ retained' = IF mint[g].track = Dash THEN None ELSE [track |-> mint[g].track, gen |-> g]
    /\ published' = g
    /\ Advance(g, "spawn")
    /\ UNCHANGED <<gen, mint, lock, seqs, slots, staged, cmds, futures, thread, history>>

(* The task is spawned and its handle kept for the next request to abort. *)
Spawn(g) ==
    /\ at[g] = "spawn"
    /\ task' = [task EXCEPT ![g] = "spawned"]
    /\ handle' = g
    /\ Advance(g, "done")
    /\ lock' = IF lock = g THEN 0 ELSE lock
    /\ UNCHANGED <<gen, mint, seqs, token, cancelled, aborted, source, staged, cmds, futures,
                   thread, history>>

-----------------------------------------------------------------------------
(* The load task *)

(* Its first poll makes the settle guard; the track it loads stops being the next one. *)
StartTask(g) ==
    /\ task[g] = "spawned"
    /\ task' = [task EXCEPT ![g] = "running"]
    /\ staged' = IF staged # None /\ staged.track = mint[g].track THEN None ELSE staged
    /\ UNCHANGED <<word, seqs, handle, token, cancelled, aborted, source, cmds, futures, thread,
                   history>>

(* Faulty: a task that fails or is aborted sends no settle. *)
EndTaskUnsettled(g, delivered) ==
    /\ task[g] = "running"
    /\ task' = [task EXCEPT ![g] = "done"]
    /\ HasRoom
    /\ cmds' = cmds \o (IF delivered THEN <<Loaded(g), Settled(g)>> ELSE <<>>)
    /\ UNCHANGED <<word, seqs, handle, token, cancelled, aborted, source, staged, futures, thread,
                   history>>

(* Its last stale check may have passed before a newer mint, or before an abort. *)
EndTask(g, delivered) ==
    /\ delivered \/ "failure" \in uses \/ g # gen \/ g \in aborted
    /\ task[g] = "running"
    /\ task' = [task EXCEPT ![g] = "done"]
    /\ HasRoom
    /\ cmds' = cmds \o (IF delivered THEN <<Loaded(g)>> ELSE <<>>) \o <<Settled(g)>>
    /\ UNCHANGED <<word, seqs, handle, token, cancelled, aborted, source, staged, futures, thread,
                   history>>

-----------------------------------------------------------------------------
(* The next track, staged off the renderer's queue *)

(* start_preload: the record is stamped with the load current when its task runs. *)
Stage(t) ==
    /\ "next" \in uses
    /\ asks < MaxAsks
    /\ asks' = asks + 1
    /\ staged' = [track |-> t, gen |-> gen]
    /\ asked' = OverStop
    /\ UNCHANGED <<word, seqs, slots, source, cmds, futures, thread, uses, undercut>>

(* take_next_track: taken only under the load it was staged for, of this host's own. *)
TakeNext ==
    /\ takers > 0
    /\ takers' = takers - 1
    /\ staged' = None
    /\ tails' = IF staged # None /\ staged.gen = gen /\ Owner = "Local"
                THEN tails \cup {[kind |-> "advance", over |-> gen, track |-> staged.track,
                                  play |-> TRUE]}
                ELSE tails
    /\ UNCHANGED <<word, seqs, slots, source, cmds, ended, replays, thread, history>>

(* handle_player_event: the UI thread spawns the task, under the AppState lock. *)
DispatchCompleted ==
    /\ lock = 0
    /\ ended > 0
    /\ ended' = ended - 1
    /\ takers' = takers + 1
    /\ UNCHANGED <<word, seqs, slots, source, staged, cmds, replays, tails, thread, history>>

DispatchReplay(r) ==
    /\ lock = 0
    /\ replays' = replays \ {r}
    /\ tails' = tails \cup {[kind |-> "rearm", over |-> r.over, track |-> r.track,
                             play |-> r.play]}
    /\ UNCHANGED <<word, seqs, slots, source, staged, cmds, ended, takers, thread, history>>

-----------------------------------------------------------------------------
(* The player thread *)

Take(c) == /\ cmds # <<>>
           /\ c = Head(cmds)
           /\ cmds' = Tail(cmds)

HandleLoadStarted ==
    \E g \in Gens :
      /\ Take(Started(g))
      /\ loadingGen' = IF g = gen THEN g ELSE loadingGen
      /\ UNCHANGED <<word, seqs, slots, source, staged, futures, committed, currentTrack, hasTrack,
                     playing, orphaned, resume, pendingPlay, currentSeq, history>>

(* settle_load: a stale settle clears nothing of a newer load. *)
HandleLoadSettled ==
    \E g \in Gens :
      /\ Take(Settled(g))
      /\ loadingGen' = IF loadingGen = g THEN 0 ELSE loadingGen
      /\ pendingPlay' = IF pendingPlay = g THEN 0 ELSE pendingPlay
      /\ UNCHANGED <<word, seqs, slots, source, staged, futures, committed, currentTrack, hasTrack,
                     playing, orphaned, resume, currentSeq, history>>

(* The load opens, playing if it asked to or a play was deferred to it, or is abandoned. *)
Open(g) ==
    LET plays == mint[g].play \/ pendingPlay = g IN
    /\ orphaned' = FALSE
    /\ currentSeq' = seqOf[g]
    /\ currentTrack' = mint[g].track
    /\ \/ /\ committed' = mint[g].track
          /\ hasTrack' = TRUE
          /\ playing' = plays
          /\ pendingPlay' = IF plays THEN 0 ELSE pendingPlay
       \/ /\ "failure" \in uses
          /\ committed' = None
          /\ hasTrack' = FALSE
          /\ UNCHANGED <<playing, pendingPlay>>

(* Faulty: a load is handled whatever was minted since. *)
HandleLoadUngated ==
    \E g \in Gens :
      /\ Take(Loaded(g))
      /\ Open(g)
      /\ UNCHANGED <<word, seqs, slots, source, staged, futures, resume, loadingGen, history>>

HandleLoad ==
    \E g \in Gens :
      /\ Take(Loaded(g))
      /\ \/ g = gen /\ Open(g)
         \/ g # gen /\ UNCHANGED <<orphaned, currentSeq, committed, currentTrack, hasTrack,
                                   playing, pendingPlay>>
      /\ UNCHANGED <<word, seqs, slots, source, staged, futures, resume, loadingGen, history>>

ReplayRetained(over, play) ==
    replays' = IF retained = None THEN replays
               ELSE replays \cup {[over |-> over, track |-> retained.track, play |-> play]}

(* Faulty: the generation to replay over is read beside the track, not with it. *)
PlayFromSplit(isOrphan) ==
    \/ isOrphan /\ UNCHANGED <<playing, pendingPlay, replays>>
    \/ /\ ~isOrphan /\ hasTrack
       /\ playing' = TRUE
       /\ pendingPlay' = 0
       /\ UNCHANGED replays
    \/ /\ ~isOrphan /\ ~hasTrack /\ loadingGen # 0
       /\ pendingPlay' = loadingGen
       /\ UNCHANGED <<playing, replays>>
    \/ /\ ~isOrphan /\ ~hasTrack /\ loadingGen = 0
       /\ ReplayRetained(gen, TRUE)
       /\ UNCHANGED <<playing, pendingPlay>>

(* handle_play and decide_play: resume, wait for the load in flight, or re-arm. *)
PlayFrom(isOrphan) ==
    \/ isOrphan /\ UNCHANGED <<playing, pendingPlay, replays>>
    \/ /\ ~isOrphan /\ hasTrack
       /\ playing' = TRUE
       /\ pendingPlay' = 0
       /\ UNCHANGED replays
    \/ /\ ~isOrphan /\ ~hasTrack /\ loadingGen # 0
       /\ pendingPlay' = loadingGen
       /\ UNCHANGED <<playing, replays>>
    \/ /\ ~isOrphan /\ ~hasTrack /\ loadingGen = 0
       /\ ReplayRetained(IF retained = None THEN 0 ELSE retained.gen, TRUE)
       /\ UNCHANGED <<playing, pendingPlay>>

HandlePlay ==
    /\ Take(Play)
    /\ PlayFrom(orphaned)
    /\ UNCHANGED <<word, seqs, slots, source, staged, ended, takers, tails, committed,
                   currentTrack, hasTrack, orphaned, resume, loadingGen, currentSeq, history>>

(* A re-assert is of the committed track when it is sent, not always when it is handled. *)
HandleReassert ==
    \E t \in Tracks, want \in BOOLEAN :
      /\ Take(Reassert(t, want))
      /\ orphaned' = (orphaned /\ currentTrack # t)
      /\ \/ (resume \/ want) /\ PlayFrom(orphaned')
         \/ ~(resume \/ want) /\ UNCHANGED <<playing, pendingPlay, replays>>
      /\ UNCHANGED <<word, seqs, slots, source, staged, ended, takers, tails, committed,
                     currentTrack, hasTrack, resume, loadingGen, currentSeq, history>>

HandlePause ==
    /\ Take(Pause)
    /\ playing' = FALSE
    /\ resume' = FALSE
    /\ pendingPlay' = 0
    /\ UNCHANGED <<word, seqs, slots, source, staged, futures, committed, currentTrack, hasTrack,
                   orphaned, loadingGen, currentSeq, history>>

HandleStop ==
    \E g \in Gens :
      /\ Take(Stopped(g))
      /\ currentSeq' = seqOf[g]
      /\ playing' = FALSE
      /\ resume' = playing
      /\ pendingPlay' = 0
      /\ UNCHANGED <<word, seqs, slots, source, staged, futures, committed, currentTrack, hasTrack,
                     orphaned, loadingGen, history>>

HandleOrphan ==
    /\ Take(Orphan)
    /\ orphaned' = TRUE
    /\ resume' = FALSE
    /\ UNCHANGED <<word, seqs, slots, source, staged, futures, committed, currentTrack, hasTrack,
                   playing, loadingGen, pendingPlay, currentSeq, history>>

(* The track plays out (Completed), or the decode dies, which tells nobody to advance. *)
EndTrack(completed) ==
    /\ IF completed THEN "next" \in uses ELSE "failure" \in uses
    /\ hasTrack
    /\ completed => playing
    /\ committed' = None
    /\ currentTrack' = None
    /\ hasTrack' = FALSE
    /\ playing' = FALSE
    /\ ended' = IF completed THEN ended + 1 ELSE ended
    /\ UNCHANGED <<word, seqs, slots, source, staged, cmds, takers, replays, tails, orphaned,
                   resume, loadingGen, pendingPlay, currentSeq, history>>

(* A bypass device is released on a lasting pause. *)
ReleaseDevice ==
    /\ "bypass" \in uses
    /\ hasTrack
    /\ ~playing
    /\ loadingGen = 0
    /\ hasTrack' = FALSE
    /\ committed' = None
    /\ UNCHANGED <<word, seqs, slots, source, staged, cmds, futures, currentTrack, playing,
                   orphaned, resume, loadingGen, pendingPlay, currentSeq, history>>

(* A bypass backend fails, or a switch rebuilds: the retained source is replayed. *)
RearmShared ==
    /\ "bypass" \in uses
    /\ hasTrack
    /\ hasTrack' = FALSE
    /\ playing' = FALSE
    /\ loadingGen' = 0
    /\ pendingPlay' = 0
    /\ ReplayRetained(IF retained = None THEN 0 ELSE retained.gen, playing)
    /\ UNCHANGED <<word, seqs, slots, source, staged, cmds, ended, takers, tails, committed,
                   currentTrack, orphaned, resume, currentSeq, history>>

-----------------------------------------------------------------------------

Init ==
    /\ uses \in Sessions
    /\ gen = 0 /\ mint = [g \in Gens |-> NoMint] /\ at = [g \in Gens |-> "none"] /\ lock = 0
    /\ eventSeq = 0 /\ seqOf = [g \in Gens |-> 0]
    /\ handle = 0 /\ token = 0 /\ cancelled = {}
    /\ retained = None /\ published = 0
    /\ task = [g \in Gens |-> "none"] /\ aborted = {}
    /\ staged = None /\ cmds = <<>>
    /\ ended = 0 /\ takers = 0 /\ replays = {} /\ tails = {}
    /\ committed = None /\ currentTrack = None /\ hasTrack = FALSE /\ playing = FALSE
    /\ orphaned = FALSE /\ resume = FALSE /\ loadingGen = 0 /\ pendingPlay = 0 /\ currentSeq = 0
    /\ asks = 0 /\ asked = FALSE /\ undercut = FALSE

Request ==
    \/ \E t \in Tracks \cup {Dash}, p \in BOOLEAN, o \in Owners : BeginLoad(t, p, o)
    \/ \E want \in BOOLEAN : LoadCommitted(want)
    \/ SendPlay
    \/ SendPause
    \/ \E s \in Scopes : Stop(s)

Carry(g) ==
    \/ SendStop(g)
    \/ Announce(g)
    \/ AbortPrevious(g)
    \/ PublishLoad(g)
    \/ Spawn(g)

Runtime ==
    \/ \E g \in Gens : StartTask(g)
    \/ \E g \in Gens, d \in BOOLEAN : EndTask(g, d)
    \/ \E t \in Tracks : Stage(t)
    \/ TakeNext
    \/ DispatchCompleted
    \/ \E r \in replays : DispatchReplay(r)
    \/ \E t \in tails : Continue(t)

Thread ==
    \/ HandleLoadStarted
    \/ HandleLoadSettled
    \/ HandleLoad
    \/ HandlePlay
    \/ HandleReassert
    \/ HandlePause
    \/ HandleStop
    \/ HandleOrphan
    \/ \E completed \in BOOLEAN : EndTrack(completed)
    \/ ReleaseDevice
    \/ RearmShared

Next ==
    \/ Request
    \/ \E g \in Gens : Carry(g)
    \/ Runtime
    \/ Thread

Spec == Init /\ [][Next]_vars

-----------------------------------------------------------------------------
(* Properties *)

Commands == {Play, Pause, Orphan}
    \cup {Started(g) : g \in Gens} \cup {Loaded(g) : g \in Gens}
    \cup {Settled(g) : g \in Gens} \cup {Stopped(g) : g \in Gens}
    \cup {Reassert(t, want) : t \in Tracks, want \in BOOLEAN}

(* Every variable holds what its field, atomic or channel can hold.        *)
TypeOK ==
    /\ uses \in Sessions
    /\ gen \in GenOr0
    /\ mint \in [Gens -> Mint]
    /\ at \in [Gens -> Steps]
    /\ lock \in GenOr0
    /\ eventSeq \in Nat
    /\ seqOf \in [Gens -> Nat]
    /\ handle \in GenOr0
    /\ token \in GenOr0
    /\ cancelled \subseteq Gens
    /\ retained \in [track : Tracks, gen : Gens] \cup {None}
    /\ published \in GenOr0
    /\ task \in [Gens -> {"none", "spawned", "running", "done", "dropped"}]
    /\ aborted \subseteq Gens
    /\ staged \in [track : Tracks, gen : GenOr0] \cup {None}
    /\ cmds \in Seq(Commands)
    /\ ended \in Nat
    /\ takers \in Nat
    /\ replays \subseteq [over : Gens, track : Tracks, play : BOOLEAN]
    /\ tails \subseteq [kind : {"advance", "rearm"}, over : GenOr0, track : Tracks, play : BOOLEAN]
    /\ committed \in Tracks \cup {Dash, None}
    /\ currentTrack \in Tracks \cup {Dash, None}
    /\ hasTrack \in BOOLEAN
    /\ playing \in BOOLEAN
    /\ orphaned \in BOOLEAN
    /\ resume \in BOOLEAN
    /\ loadingGen \in GenOr0
    /\ pendingPlay \in GenOr0
    /\ currentSeq \in Nat
    /\ asks \in Nat
    /\ asked \in BOOLEAN
    /\ undercut \in BOOLEAN

InChannel(c) == \E i \in 1 .. Len(cmds) : cmds[i] = c

(* A stop holds: once the thread has handled it, and until a load, a play, *)
(* a re-assert or a track staged since, no load, re-arm or deferred play   *)
(* of before it starts the music again ("playback cannot start after the   *)
(* stop", Player::stop).                                                   *)
StopIsKept ==
    OverStop /\ at[gen] = "done" /\ ~asked /\ ~InChannel(Stopped(gen))
        => ~playing

(* A load the thread waits for, in loading_gen or under a deferred play,   *)
(* is still to be spawned, runs, or has its settle on the way, unless its  *)
(* task was dropped before it was ever polled (LoadSettleGuard).           *)
InFlight(g) ==
    \/ at[g] \in {"abort", "publish", "spawn"}
    \/ task[g] \in {"spawned", "running", "dropped"}
    \/ InChannel(Settled(g))
LoadingIsLive == \A g \in {loadingGen, pendingPlay} \ {0} : InFlight(g)

(* An event sequence the thread installs never outranks one it installs    *)
(* later (next_event_seq), unless an advance mints between the mint of a   *)
(* stop and its send.                                                      *)
SeqNeverFalls == [][undercut' \/ currentSeq' >= currentSeq]_vars

(* A track staged off the renderer's queue is promoted only while this     *)
(* host owns the player, whoever mints between the take and the advance.   *)
AdvanceIsLocal == \A g \in 1 .. gen : mint[g].kind = "advance" => mint[g].owner = "Local"

(* A re-arm carries on the very load it saw: the same track, in the same   *)
(* owner's name, and never over a stop (RetainedTrack, continue_load).     *)
RearmCarriesOn ==
    \A g \in 1 .. gen : mint[g].kind = "rearm" =>
        /\ g > 1
        /\ mint[g - 1].kind # "stop"
        /\ mint[g].track = mint[g - 1].track
        /\ mint[g].owner = mint[g - 1].owner

(* A continuation acts only for the load, and the owner, it saw before it  *)
(* let the lock go.                                                        *)
CarriesItsLoadOn == AdvanceIsLocal /\ RearmCarriesOn

(* Once the page that loaded the track is gone, its music is not heard     *)
(* until a load names a track again (StopScope::orphans).                  *)
OrphanedIsSilent == orphaned => ~playing

(* Silence holds: over a stop, and over the end of the page that asked for *)
(* the music, nothing that was under way starts it again.                  *)
SilenceHolds == StopIsKept /\ OrphanedIsSilent

(* What was replaced stays replaced: nothing that was under way breaks a   *)
(* silence, and the thread never goes back to an older load's events.      *)
ReplacedStaysSo == []SilenceHolds /\ SeqNeverFalls
=============================================================================
