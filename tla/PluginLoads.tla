----------------------------- MODULE PluginLoads -----------------------------
(***************************************************************************)
(* Plugins in the page and the session they belong to (src/src/app_state.rs, *)
(* plugins/manager.rs, ipc/plugin/inject.rs, jsrt.rs, plugin_ipc.rs and     *)
(* update.rs, ui/proactive_refresh.rs, frontend/early-runtime): enables,    *)
(* disables, restarts and load passes are tasks; each takes the state's     *)
(* lock, the database actor and the page in turn, and none holds one while  *)
(* it waits for another.  A logout runs on the UI thread between them.      *)
(*                                                                         *)
(* A step is one hold of the state's lock or one trip to the actor, with    *)
(* what it then posts to the page, which arrives in any order.              *)
(***************************************************************************)
EXTENDS Naturals, FiniteSets, Sequences

CONSTANTS Plugins,
          Needs,        \* plugin -> the plugins its manifest depends on
          Calls,        \* what a history may call, once each
          Passes,       \* places for load passes: one more than may run
          Asks,         \* the page's requests for its plugins
          MaxEpoch,     \* how many sessions may end
          Worlds,       \* what a history starts from and may meet
          None

Incidents == {"enable", "disable", "restart", "logout", "login", "reload", "idle", "helper", "unsaved"}
Jobs      == Calls \cup Passes

ASSUME PluginLoadsAssumption ==
    /\ Needs \in [Plugins -> SUBSET Plugins] /\ MaxEpoch \in Nat
    /\ Calls \subseteq {"enable", "disable", "restart"}
    /\ Passes # {} /\ Passes \cap {"enable", "disable", "restart"} = {}
    /\ Worlds \subseteq [may : SUBSET Incidents, on : SUBSET Plugins, broken : SUBSET Plugins, cold : BOOLEAN]
    /\ None \notin Nat \cup Plugins

VARIABLES
    world,      \* rigid: may, the flags on at first, the plugins whose source fails, a cold boot
    app,        \* under the state's lock: epoch, token (its session, or None), gate, waiters,
                \* inFlight, and load: plugin -> the id the manager names (0: none), and if it acked
    minting,    \* the sessions of the token exchanges on the network
    refresh,    \* the proactive refresh: its step, and the session it was read in
    timer,      \* the gate's safety timer
    ui,         \* a handler on the UI thread: "idle", or between parking and "request"
    on,         \* plugins.db: the plugins whose flag is on
    at, job,    \* task -> its step, and what it carries
    watched,    \* the loads watch_ack waits on, <<plugin, id>>, and those it gave up
    mail,       \* code and unloads posted to the page
    page,       \* plugin -> the highest id seen and the instance that runs
    acks,       \* ready acks on their way
    reloaded,
    strays,     \* loads whose code is still to come while what refuses it went with the old page
    born,       \* history: the session each load id was marked under
    replies,    \* history: request -> how it was answered
    why,        \* history: plugin -> what last turned its flag off
    overtaken   \* history: disables that looked for a load a task had yet to mark

tasks == <<at, job, watched>>
doc   == <<mail, page, acks, reloaded, strays>>
auth  == <<minting, refresh, timer>>
past  == <<replies, why, overtaken>>
vars  == <<world, app, auth, ui, on, tasks, doc, born, past>>

May(what)    == what \in world.may
Gone         == [id |-> 0, ready |-> FALSE]
Blank        == [plugin |-> None, id |-> 0, epoch |-> 0, todo |-> {}, left |-> {}, names |-> {},
                 failed |-> {}, sent |-> {}, helper |-> FALSE, moved |-> FALSE]
Go(t, s)     == at' = [at EXCEPT ![t] = s]
Over(t)      == Go(t, "over") /\ job' = [job EXCEPT ![t] = Blank]
Fresh        == [seen |-> 0, runs |-> 0]
Unasked      == [how |-> "unasked", asked |-> 0, pass |-> 0]
Dependants(p) == {q \in on : p \in Needs[q]}

Init ==
    /\ world \in Worlds
    /\ app = [epoch |-> 0, token |-> 0, gate |-> ~world.cold, waiters |-> {}, inFlight |-> None,
              load |-> [p \in Plugins |-> Gone]]
    /\ minting = {} /\ timer = "off" /\ ui = "idle"
    /\ refresh = [at |-> IF world.cold THEN "due" ELSE "done", epoch |-> 0]
    /\ on = world.on
    /\ at = [t \in Jobs |-> "idle"] /\ job = [t \in Jobs |-> Blank] /\ watched = {}
    /\ mail = {} /\ acks = {} /\ page = [p \in Plugins |-> Fresh]
    /\ reloaded = FALSE /\ strays = {}
    /\ born = <<>> /\ replies = [r \in Asks |-> Unasked]
    /\ why = [p \in Plugins |-> "none"] /\ overtaken = {}

-----------------------------------------------------------------------------
(* The page *)

Code(p, i)   == [what |-> "code", plugin |-> p, id |-> i]
Unload(p, i) == [what |-> "unload", plugin |-> p, id |-> i]

(* _plClaim: a load runs only above every id seen. *)
Claims(p, i) == page[p].seen < i

(* _plUnload: this id or older; before its load, the id stays behind. *)
Leaves(r, i) == IF r.seen > i THEN r ELSE [seen |-> i, runs |-> 0]

Deliver ==
    /\ \E m \in mail :
         /\ mail' = mail \ {m}
         /\ IF m.what = "unload"
            THEN page' = [page EXCEPT ![m.plugin] = Leaves(@, m.id)] /\ UNCHANGED acks
            ELSE IF Claims(m.plugin, m.id)
            THEN /\ page' = [page EXCEPT ![m.plugin] = [seen |-> m.id, runs |-> m.id]]
                 /\ acks' = IF May("idle") THEN acks \cup {<<m.plugin, m.id>>} ELSE acks
            ELSE UNCHANGED <<page, acks>>
    /\ UNCHANGED <<world, app, auth, ui, on, tasks, reloaded, strays, born, past>>

(* Only a history that may give a load up tells an acked one from one that is not. *)
Watch(loads) == watched' = IF May("idle") THEN watched \cup loads ELSE watched

(* mark_ready: the ack of the load that is current. *)
AckArrives ==
    /\ \E k \in acks :
         /\ acks' = acks \ {k}
         /\ app' = IF app.load[k[1]].id = k[2] THEN [app EXCEPT !.load[k[1]].ready = TRUE] ELSE app
    /\ UNCHANGED <<world, auth, ui, on, tasks, mail, page, reloaded, strays, born, past>>

(* What refuses a load's code, or ends it: its unload, or anything of a later load. *)
Refuses(m, p, i) == m.plugin = p /\ (m.id > i \/ (m.id = i /\ m.what = "unload"))

(* Code that is posted, or that a task is about to post. *)
ToCome(posted, p, i) ==
    \/ Code(p, i) \in posted
    \/ \E t \in Jobs : at[t] = "prepare" /\ job[t].plugin = p /\ job[t].id = i

(* A new document, which the acks of the old one outlive.  It has seen no id: each thing     *)
(* posted is lost with the old document or reaches the new one.                              *)
Reload ==
    /\ May("reload") /\ ~reloaded /\ ui = "idle" /\ \E r \in Asks : replies[r].how # "unasked"
    /\ reloaded' = TRUE
    /\ page' = [p \in Plugins |-> Fresh]
    /\ mail' \in SUBSET mail
    /\ strays' = strays \cup {k \in Plugins \X (1..Len(born)) :
                    /\ ToCome(mail', k[1], k[2])
                    /\ ~Claims(k[1], k[2]) \/ \E m \in mail \ mail' : Refuses(m, k[1], k[2])}
    /\ UNCHANGED <<world, app, auth, ui, on, tasks, acks, born, past>>

-----------------------------------------------------------------------------
(* The session, on the UI thread *)

Park(r) ==
    /\ app' = [app EXCEPT !.waiters = @ \cup {r}]
    /\ replies' = [replies EXCEPT ![r] = [how |-> "parked", asked |-> app.epoch, pass |-> 0]]

(* jsrt.load_plugins: parked first, then requested; no session, nothing to load. *)
RequestLoad ==
    /\ ui = "idle"
    /\ \E r \in Asks :
         /\ replies[r].how = "unasked"
         /\ \/ /\ app.token = None
               /\ replies' = [replies EXCEPT ![r].how = "refused"]
               /\ UNCHANGED <<app, timer, ui>>
            \/ /\ app.token # None /\ Park(r)
               /\ IF app.gate THEN ui' = "request" /\ UNCHANGED timer
                  ELSE timer' = (IF timer = "off" THEN "armed" ELSE timer) /\ UNCHANGED ui
    /\ UNCHANGED <<world, minting, refresh, on, tasks, doc, born, why, overtaken>>

(* dispatch_plugin_load, with the slot held. *)
Dispatch(t, e) ==
    /\ Go(t, "collect")
    /\ job' = [job EXCEPT ![t] = [Blank EXCEPT !.epoch = e]]

Busy == app.inFlight # None

Request ==
    /\ ui = "request" /\ ui' = "idle"
    /\ IF Busy THEN UNCHANGED <<app, at, job>>
       ELSE /\ Dispatch(CHOOSE t \in Passes : at[t] = "idle", app.epoch)
            /\ app' = [app EXCEPT !.inFlight = app.epoch]
    /\ UNCHANGED <<world, auth, on, watched, doc, born, past>>

Retired(loads, p, i) == IF loads[p].id = i THEN [loads EXCEPT ![p] = Gone] ELSE loads

(* end_session and settle_ended_session; only a session_clear opens the gate. *)
Logout ==
    /\ May("logout") /\ ui = "idle" /\ app.epoch < MaxEpoch
    /\ \E gate \in {TRUE, app.gate} :
         app' = [app EXCEPT !.epoch = @ + 1, !.token = None, !.waiters = {}, !.gate = gate,
                            !.load = [p \in Plugins |-> Gone]]
    /\ mail' = mail \cup {Unload(p, app.load[p].id) : p \in {q \in Plugins : app.load[q].id # 0}}
    /\ replies' = [r \in Asks |-> IF r \in app.waiters THEN [replies[r] EXCEPT !.how = "ended"] ELSE replies[r]]
    /\ UNCHANGED <<world, auth, ui, on, tasks, page, acks, reloaded, strays, born, why, overtaken>>

(* A token exchange, a login's or a refresh the page makes: the session it is for is read as *)
(* it goes out.  One at a time.                                                             *)
Issue ==
    /\ May("login") /\ minting = {}
    /\ minting' = {app.epoch}
    /\ UNCHANGED <<world, app, refresh, timer, ui, on, tasks, doc, born, past>>

SameSession(e) == e = app.epoch

(* Faulty: the token of a session already left is taken. *)
MintedAnyway(e) == app' = [app EXCEPT !.token = e]

Minted(e) == app' = IF SameSession(e) THEN [app EXCEPT !.token = e] ELSE app

(* The reply, which may bring no token. *)
Commit ==
    /\ \E e \in minting : (Minted(e) \/ UNCHANGED app) /\ minting' = minting \ {e}
    /\ UNCHANGED <<world, refresh, timer, ui, on, tasks, doc, born, past>>

(* trigger_if_needed: once, and only with a credential to refresh. *)
RefreshAsks ==
    /\ refresh.at = "due"
    /\ refresh' = IF app.token = None THEN [refresh EXCEPT !.at = "done"]
                  ELSE [at |-> "asked", epoch |-> app.epoch]
    /\ UNCHANGED <<world, app, minting, timer, ui, on, tasks, doc, born, past>>

RefreshAnswers ==
    /\ refresh.at = "asked"
    /\ refresh' = [refresh EXCEPT !.at = "drain"]
    /\ \/ Minted(refresh.epoch)
       \/ UNCHANGED app
    /\ UNCHANGED <<world, minting, timer, ui, on, tasks, doc, born, past>>

TimerFires ==
    /\ timer = "armed"
    /\ timer' = IF app.gate THEN "spent" ELSE "drain"
    /\ UNCHANGED <<world, app, minting, refresh, ui, on, tasks, doc, born, past>>

(* GateDrainTask: whoever is parked goes through the queue of the others. *)
GateDrain ==
    /\ ui = "idle"
    /\ \/ refresh.at = "drain" /\ refresh' = [refresh EXCEPT !.at = "done"] /\ UNCHANGED timer
       \/ timer = "drain" /\ timer' = "spent" /\ UNCHANGED refresh
    /\ app' = [app EXCEPT !.gate = TRUE]
    /\ ui' = IF app.waiters = {} THEN "idle" ELSE "request"
    /\ UNCHANGED <<world, minting, on, tasks, doc, born, past>>

-----------------------------------------------------------------------------
(* inject_plugin, for whichever task *)

(* undo_injection: the unload posted, then the load retired if it is still this one. *)
Undo(p, i) ==
    /\ mail' = mail \cup {Unload(p, i)}
    /\ app' = [app EXCEPT !.load = Retired(@, p, i)]

Mark(t) ==
    /\ at[t] = "mark" /\ Go(t, "prepare")
    /\ LET id == Len(born) + 1 IN
         /\ app' = [app EXCEPT !.load[job[t].plugin] = [id |-> id, ready |-> FALSE]]
         /\ job' = [job EXCEPT ![t].id = id]
    /\ born' = Append(born, job[t].epoch)
    /\ UNCHANGED <<world, auth, ui, on, watched, doc, past>>

(* Faulty: a session that ended reads as a plugin that failed. *)
OwesReconcile(how) == IF how = "helper" THEN "keep" ELSE "reconcile"

(* pass_duty: only the plugin's own failure is held against it. *)
PassOwes(how) ==
    CASE how = "source" -> "reconcile" [] how = "helper" -> "keep" [] how = "session" -> "abandon"

(* What a failed injection leaves each caller. *)
Failed(t, how) ==
    IF t \in Passes THEN
      CASE PassOwes(how) = "reconcile" ->
             Go(t, "look") /\ job' = [job EXCEPT ![t].failed = @ \cup {job[t].plugin}, ![t].plugin = None]
        [] PassOwes(how) = "keep" -> Go(t, "look") /\ job' = [job EXCEPT ![t].helper = TRUE, ![t].plugin = None]
        [] OTHER -> Go(t, "settle") /\ UNCHANGED job
    ELSE IF t = "enable" THEN Go(t, "revert") /\ UNCHANGED job
    ELSE IF how = "source" THEN Go(t, "off") /\ UNCHANGED job
    ELSE Over(t)

(* The transpile, and the code on its way. *)
Prepare(t) ==
    LET p == job[t].plugin IN
    /\ at[t] = "prepare"
    /\ \/ p \notin world.broken /\ Go(t, "recheck")
          /\ mail' = mail \cup {Code(p, job[t].id)}
          /\ UNCHANGED <<app, job>>
       \/ p \in world.broken /\ Undo(p, job[t].id) /\ Failed(t, "source")
       \/ May("helper") /\ Undo(p, job[t].id) /\ Failed(t, "helper")
    /\ UNCHANGED <<world, auth, ui, on, watched, page, acks, reloaded, strays, born, past>>

(* Faulty: the session is not read again. *)
CurrentAnyway(t) == TRUE

(* injection_still_current, after the code was posted. *)
StillCurrent(t) == SameSession(job[t].epoch)

Recheck(t) ==
    /\ at[t] = "recheck"
    /\ \/ /\ StillCurrent(t)
          /\ Go(t, IF t = "restart" THEN "again" ELSE "flag") /\ UNCHANGED <<job, app, mail>>
       \/ /\ ~StillCurrent(t)
          /\ Undo(job[t].plugin, job[t].id) /\ Failed(t, "session")
    /\ UNCHANGED <<world, auth, ui, on, watched, page, acks, reloaded, strays, born, past>>

-----------------------------------------------------------------------------
(* The calls *)

TurnOff(ps, reason) ==
    /\ on' = on \ ps
    /\ why' = [p \in Plugins |-> IF p \in ps \cap on THEN reason ELSE why[p]]

(* do_plugin_enable: the flag goes on before the code is injected. *)
Enable ==
    /\ May("enable") /\ at["enable"] = "idle"
    /\ \E p \in Plugins :
         /\ Needs[p] \subseteq on
         /\ on' = on \cup {p}
         /\ job' = [job EXCEPT !["enable"].plugin = p]
    /\ Go("enable", "epoch")
    /\ UNCHANGED <<world, app, auth, ui, watched, doc, born, past>>

EnableReadsSession ==
    /\ at["enable"] = "epoch" /\ Go("enable", "mark")
    /\ job' = [job EXCEPT !["enable"].epoch = app.epoch]
    /\ UNCHANGED <<world, app, auth, ui, on, watched, doc, born, past>>

(* mark_ever_dispatched; the enable that cannot save it is undone. *)
EnableFlags ==
    LET j == job["enable"] IN
    /\ at["enable"] = "flag"
    /\ \/ /\ Over("enable")
          /\ Watch({<<j.plugin, j.id, "ack">>})
          /\ UNCHANGED <<app, mail>>
       \/ /\ May("unsaved") /\ Go("enable", "revert")
          /\ Undo(j.plugin, j.id) /\ UNCHANGED <<watched, job>>
    /\ UNCHANGED <<world, auth, ui, on, page, acks, reloaded, strays, born, past>>

Revert ==
    /\ at["enable"] = "revert" /\ Over("enable")
    /\ TurnOff({job["enable"].plugin}, "revert")
    /\ UNCHANGED <<world, app, auth, ui, watched, doc, born, replies, overtaken>>

(* The tasks that read p's row while it was on and have yet to mark its load. *)
ToMark(p) ==
    {t \in Passes : at[t] # "idle" /\ (p \in job[t].todo \cup job[t].left \/ (at[t] = "mark" /\ job[t].plugin = p))}
      \cup {t \in Calls \cap {"enable"} : at[t] \in {"epoch", "mark"} /\ job[t].plugin = p}

(* do_plugin_disable: the flag first, then the load found after that trip. *)
Disable ==
    /\ May("disable") /\ at["disable"] = "idle"
    /\ \E p \in on :
         /\ Dependants(p) = {}
         /\ TurnOff({p}, "user")
         /\ job' = [job EXCEPT !["disable"].plugin = p]
    /\ Go("disable", "look")
    /\ UNCHANGED <<world, app, auth, ui, watched, doc, born, replies, overtaken>>

(* Faulty: a load that is not there is ended like one that is. *)
DisableLooksOn ==
    LET p == job["disable"].plugin IN
    /\ at["disable"] = "look" /\ Go("disable", "end")
    /\ job' = [job EXCEPT !["disable"].id = app.load[p].id]
    /\ UNCHANGED <<world, app, auth, ui, on, watched, doc, born, past>>

DisableLooks ==
    LET p == job["disable"].plugin IN
    /\ at["disable"] = "look"
    /\ IF app.load[p].id = 0 THEN Over("disable")
       ELSE Go("disable", "end") /\ job' = [job EXCEPT !["disable"].id = app.load[p].id]
    /\ overtaken' = IF ToMark(p) # {} THEN overtaken \cup {p} ELSE overtaken
    /\ UNCHANGED <<world, app, auth, ui, on, watched, doc, born, replies, why>>

DisableEnds ==
    /\ at["disable"] = "end" /\ Over("disable")
    /\ Undo(job["disable"].plugin, job["disable"].id)
    /\ UNCHANGED <<world, auth, ui, on, watched, page, acks, reloaded, strays, born, past>>

(* restart_live: a live plugin's new version in its place, unless others depend on it. *)
Restart ==
    /\ May("restart") /\ at["restart"] = "idle"
    /\ \E p \in Plugins :
         /\ app.load[p].id # 0
         /\ job' = [job EXCEPT !["restart"].plugin = p]
    /\ Go("restart", "check")
    /\ UNCHANGED <<world, app, auth, ui, on, watched, doc, born, past>>

RestartChecks ==
    LET p == job["restart"].plugin IN
    /\ at["restart"] = "check"
    /\ IF p \in on /\ Dependants(p) = {} THEN Go("restart", "old") /\ UNCHANGED job
       ELSE Over("restart")
    /\ UNCHANGED <<world, app, auth, ui, on, watched, doc, born, past>>

RestartFinds ==
    LET i == app.load[job["restart"].plugin].id IN
    /\ at["restart"] = "old"
    /\ IF i = 0 THEN Over("restart")
       ELSE Go("restart", "epoch") /\ job' = [job EXCEPT !["restart"].id = i]
    /\ UNCHANGED <<world, app, auth, ui, on, watched, doc, born, past>>

RestartEnds ==
    /\ at["restart"] = "epoch" /\ Go("restart", "mark")
    /\ job' = [job EXCEPT !["restart"].epoch = app.epoch]
    /\ Undo(job["restart"].plugin, job["restart"].id)
    /\ UNCHANGED <<world, auth, ui, on, watched, page, acks, reloaded, strays, born, past>>

WantedStill(p) == p \in on

RestartAgain ==
    LET j == job["restart"] IN
    /\ at["restart"] = "again" /\ Over("restart")
    /\ IF WantedStill(j.plugin)
       THEN Watch({<<j.plugin, j.id, "ack">>}) /\ UNCHANGED <<app, mail>>
       ELSE Undo(j.plugin, j.id) /\ UNCHANGED watched
    /\ UNCHANGED <<world, auth, ui, on, page, acks, reloaded, strays, born, past>>

RestartOff ==
    /\ at["restart"] = "off" /\ Over("restart")
    /\ TurnOff({job["restart"].plugin}, "source")
    /\ UNCHANGED <<world, app, auth, ui, watched, doc, born, replies, overtaken>>

-----------------------------------------------------------------------------
(* do_load_plugins_inline *)

Collect(t) ==
    /\ at[t] = "collect" /\ Go(t, "look")
    /\ job' = [job EXCEPT ![t].todo = on]
    /\ UNCHANGED <<world, app, auth, ui, on, watched, doc, born, past>>

(* One plugin of a round: the session first, then the plugins it depends on. *)
Look(t) ==
    /\ at[t] = "look" /\ job[t].todo # {}
    /\ IF ~SameSession(job[t].epoch) THEN Go(t, "settle") /\ UNCHANGED job
       ELSE \E p \in job[t].todo :
              IF Needs[p] \subseteq job[t].names
              THEN Go(t, "mark") /\ job' = [job EXCEPT ![t].plugin = p, ![t].todo = @ \ {p}]
              ELSE job' = [job EXCEPT ![t].left = @ \cup {p}, ![t].todo = @ \ {p}] /\ UNCHANGED at
    /\ UNCHANGED <<world, app, auth, ui, on, watched, doc, born, past>>

(* Flagged and counted, or taken back. *)
PassFlags(t) ==
    LET p == job[t].plugin IN
    /\ at[t] = "flag" /\ Go(t, "look")
    /\ \/ /\ job' = [job EXCEPT ![t].sent = @ \cup {<<p, job[t].id, "ack">>}, ![t].names = @ \cup {p},
                                ![t].moved = TRUE, ![t].plugin = None]
          /\ UNCHANGED <<app, mail>>
       \/ /\ May("unsaved") /\ Undo(p, job[t].id)
          /\ job' = [job EXCEPT ![t].failed = @ \cup {p}, ![t].plugin = None]
    /\ UNCHANGED <<world, auth, ui, on, watched, page, acks, reloaded, strays, born, past>>

(* The round that loaded something is followed by another; then what is left has failed,    *)
(* unless the helper did.                                                                   *)
RoundEnds(t) ==
    LET j == job[t] IN
    /\ at[t] = "look" /\ j.todo = {}
    /\ IF j.moved /\ j.left # {}
       THEN job' = [job EXCEPT ![t].todo = j.left, ![t].left = {}, ![t].moved = FALSE] /\ UNCHANGED at
       ELSE /\ job' = [job EXCEPT ![t].failed = @ \cup (IF j.helper THEN {} ELSE j.left), ![t].left = {}]
            /\ Go(t, "reconcile")
    /\ UNCHANGED <<world, app, auth, ui, on, watched, doc, born, past>>

Reconcile(t) ==
    /\ at[t] = "reconcile" /\ Go(t, "settle")
    /\ TurnOff(job[t].failed, "failed")
    /\ Watch(job[t].sent)
    /\ UNCHANGED <<world, app, auth, ui, job, doc, born, replies, overtaken>>

(* settle_split: a pass answers the requests of its own session, and another is owed the rest. *)
Answers(t) == {r \in app.waiters : replies[r].asked = job[t].epoch}

(* Faulty: the rest waits for a request to come by. *)
SettleOnly(t) ==
    /\ at[t] = "settle" /\ Go(t, "idle") /\ job' = [job EXCEPT ![t] = Blank]
    /\ replies' = [r \in Asks |-> IF r \in Answers(t) THEN [replies[r] EXCEPT !.how = "pass", !.pass = job[t].epoch]
                                  ELSE replies[r]]
    /\ app' = [app EXCEPT !.waiters = @ \ Answers(t), !.inFlight = None]
    /\ UNCHANGED <<world, auth, ui, on, watched, doc, born, why, overtaken>>

Settle(t) ==
    LET rest == app.waiters \ Answers(t) IN
    /\ at[t] = "settle"
    /\ replies' = [r \in Asks |-> IF r \in Answers(t) THEN [replies[r] EXCEPT !.how = "pass", !.pass = job[t].epoch]
                                  ELSE replies[r]]
    /\ IF rest = {}
       THEN /\ Go(t, "idle") /\ job' = [job EXCEPT ![t] = Blank]
            /\ app' = [app EXCEPT !.waiters = {}, !.inFlight = None]
       ELSE LET next == replies[CHOOSE r \in rest : TRUE].asked IN
            Dispatch(t, next) /\ app' = [app EXCEPT !.waiters = rest, !.inFlight = next]
    /\ UNCHANGED <<world, auth, ui, on, watched, doc, born, why, overtaken>>

-----------------------------------------------------------------------------
(* watch_ack *)

WatchEnds ==
    /\ \E w \in watched :
         /\ w[3] = "ack" /\ app.load[w[1]] # [id |-> w[2], ready |-> FALSE]
         /\ watched' = watched \ {w}
    /\ UNCHANGED <<world, app, auth, ui, on, at, job, doc, born, past>>

(* A load gone idle is unloaded, and turned off. *)
WatchAbandons ==
    /\ May("idle")
    /\ \E w \in watched :
         /\ w[3] = "ack" /\ app.load[w[1]] = [id |-> w[2], ready |-> FALSE]
         /\ watched' = (watched \ {w}) \cup {<<w[1], w[2], "off">>}
         /\ Undo(w[1], w[2])
    /\ UNCHANGED <<world, auth, ui, on, at, job, page, acks, reloaded, strays, born, past>>

WatchTurnsOff ==
    /\ \E w \in watched :
         /\ w[3] = "off" /\ watched' = watched \ {w}
         /\ TurnOff({w[1]}, "idle")
    /\ UNCHANGED <<world, app, auth, ui, at, job, doc, born, replies, overtaken>>

-----------------------------------------------------------------------------
Inject(t)   == Mark(t) \/ Prepare(t) \/ Recheck(t)
PassStep(t) == Collect(t) \/ Look(t) \/ PassFlags(t) \/ RoundEnds(t) \/ Reconcile(t) \/ Settle(t)
Enabling    == Enable \/ EnableReadsSession \/ EnableFlags \/ Revert
Disabling   == Disable \/ DisableLooks \/ DisableEnds
Restarting  == Restart \/ RestartChecks \/ RestartFinds \/ RestartEnds \/ RestartAgain \/ RestartOff
Watching    == WatchEnds \/ WatchAbandons \/ WatchTurnsOff
Session     == RequestLoad \/ Request \/ Logout \/ Issue \/ Commit
Gate        == RefreshAsks \/ RefreshAnswers \/ TimerFires \/ GateDrain

Next ==
    \/ Deliver \/ AckArrives \/ Reload
    \/ Session \/ Gate \/ Watching
    \/ \E t \in Jobs : Inject(t)
    \/ \E t \in Passes : PassStep(t)
    \/ "enable" \in Calls /\ Enabling
    \/ "disable" \in Calls /\ Disabling
    \/ "restart" \in Calls /\ Restarting

(* A spawned pass runs; the UI thread goes on to the request it parked; the timer runs out   *)
(* and its task is taken.  Nothing makes the network answer, nor the user act.               *)
Fairness ==
    /\ \A t \in Passes : WF_vars(Inject(t)) /\ WF_vars(PassStep(t))
    /\ WF_vars(Request) /\ WF_vars(TimerFires) /\ WF_vars(GateDrain)

Spec == Init /\ [][Next]_vars /\ Fairness

-----------------------------------------------------------------------------
(* The state has its shape (AppState, PluginManager, plugins.db).                          *)
TypeOK ==
    /\ app.epoch \in 0..MaxEpoch /\ app.token \in 0..MaxEpoch \cup {None} /\ app.gate \in BOOLEAN
    /\ app.waiters \subseteq Asks /\ app.inFlight \in 0..MaxEpoch \cup {None}
    /\ app.load \in [Plugins -> [id : 0..Len(born), ready : BOOLEAN]]
    /\ minting \subseteq 0..MaxEpoch /\ timer \in {"off", "armed", "drain", "spent"}
    /\ refresh \in [at : {"due", "asked", "drain", "done"}, epoch : 0..MaxEpoch]
    /\ ui \in {"idle", "request"} /\ on \subseteq Plugins /\ reloaded \in BOOLEAN
    /\ born \in Seq(0..MaxEpoch)
    /\ mail \subseteq [what : {"code", "unload"}, plugin : Plugins, id : 1..Len(born)]
    /\ page \in [Plugins -> [seen : 0..Len(born), runs : 0..Len(born)]]
    /\ strays \subseteq Plugins \X Nat
    /\ watched \subseteq Plugins \X (1..Len(born)) \X {"ack", "off"}
    /\ why \in [Plugins -> {"none", "user", "revert", "idle", "failed", "source"}]

Injecting == {"prepare", "recheck"}

(* What runs in the page is what the manager names, or something on its way ends it: an     *)
(* unload of that id or a later one, newer code that replaces it, or a task that will post   *)
(* one (the "ghost" retire_load and do_plugin_disable are written against).  The exception is *)
(* a load whose code comes to a new document when the old one took what refuses it.           *)
NoGhost ==
    \A p \in Plugins : LET i == page[p].runs IN
        \/ i = 0 \/ app.load[p].id = i
        \/ \E m \in mail : Refuses(m, p, i)
        \/ \E t \in Jobs : job[t].plugin = p /\ at[t] = "prepare" /\ job[t].id > i
        \/ \E t \in Jobs : job[t].plugin = p /\ at[t] = "recheck" /\ job[t].id = i /\ ~SameSession(job[t].epoch)
        \/ <<p, i>> \in strays

(* No load outlives the session it was marked under: one that the manager still names after  *)
(* a logout has its task about to look again and take it back (inject.rs, app_state.rs).     *)
LoadOfItsSession ==
    \A p \in Plugins : LET i == app.load[p].id IN
        \/ i = 0 \/ born[i] = app.epoch
        \/ \E t \in Jobs : at[t] \in Injecting /\ job[t].plugin = p /\ job[t].id = i

(* The credential in use was minted for the session in progress: an exchange or a refresh     *)
(* that answers after a logout brings the account back to nobody (proactive_refresh.rs).      *)
TokenOfItsSession == app.token \in {None, app.epoch}

NothingOutlives == NoGhost /\ LoadOfItsSession /\ TokenOfItsSession

Quiet == mail = {} /\ \A t \in Jobs : at[t] \in {"idle", "over"}

(* A plugin its user turned off does not run once everything posted has arrived, whichever    *)
(* restart or enable it raced (restart_live, do_plugin_disable).  They leave two cases open: a *)
(* task that read the row before the disable and had yet to mark its load, and a page that    *)
(* reloaded between the unload and the code it refuses.                                       *)
OffStaysOff ==
    Quiet => \A p \in Plugins \ (on \cup overtaken) : why[p] = "user" =>
        page[p].runs = 0 \/ <<p, page[p].runs>> \in strays

(* A pass turns a plugin off for the plugin's own failure, or that of one it depends on: not  *)
(* for a session that ended under it, nor for a helper that could not run (pass_duty).        *)
FailedByItself ==
    \A p \in Plugins : why[p] = "failed" =>
        \/ p \in world.broken \/ May("unsaved")
        \/ \E q \in Needs[p] : q \in world.broken \/ q \notin world.on \/ why[q] # "none"

FlagsHold == OffStaysOff /\ FailedByItself

Running == {t \in Passes : at[t] # "idle"}

(* One pass runs at a time, the one the slot names, and a request is answered by a pass of    *)
(* its own session or by that session's end, never by the plugins of another.                 *)
OnePassPerSession ==
    /\ Cardinality(Running) <= 1
    /\ \A t \in Passes : t \in Running => app.inFlight = job[t].epoch
    /\ (app.inFlight = None) = (Running = {})
    /\ \A r \in Asks : replies[r].how = "pass" => replies[r].pass = replies[r].asked
    /\ \A r \in app.waiters : replies[r].asked = app.epoch

(* A request the page parked is answered, through a gate that opens, passes that join and     *)
(* sessions that end (open_plugin_gate, settle_plugin_load).                                  *)
ParkedIsAnswered == \A r \in Asks : replies[r].how = "parked" ~> replies[r].how # "parked"

(* A page that asks for its plugins is answered, by one pass, and of its own session.      *)
AskedIsAnswered == []OnePassPerSession /\ ParkedIsAnswered
=============================================================================
